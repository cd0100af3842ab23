-------------------------------- MODULE MCLlama --------------------------------
(* The shipped times in quarters of a minute: 90 s are 6, 75 s are 5, and the *)
(* 21 s of the notification and the look are 2 at most.                        *)
EXTENDS LlamaFailover
================================================================================
