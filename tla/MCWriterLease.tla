---------------------------- MODULE MCWriterLease -----------------------------
(* Three harness processes that contend for one checkout.                   *)
EXTENDS WriterLease, TLC

ProcSymmetry == Permutations(Procs)
===============================================================================
