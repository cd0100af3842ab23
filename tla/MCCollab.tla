------------------------------- MODULE MCCollab -------------------------------
(* Every valid plan of three tasks for an architect and a builder.          *)
EXTENDS CollabScheduler
===============================================================================
