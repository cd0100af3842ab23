------------------------------- MODULE MCValidate -------------------------------
(* Two or three gates, at most three validations.                              *)
EXTENDS AutoValidate
================================================================================
