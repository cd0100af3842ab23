--------------------------- MODULE MCCircuitBreaker ---------------------------
(* Three classes of code and two of error: enough for a run of equal errors  *)
(* to be interrupted within a cycle without repeating a code.                *)
EXTENDS CircuitBreaker, TLC

CONSTANTS c1, c2, c3, e1, e2

MCCodes == {c1, c2, c3}
MCErrs  == {e1, e2}

MCSymmetry == Permutations(MCCodes) \cup Permutations(MCErrs)
===============================================================================
