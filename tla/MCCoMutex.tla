----------------------------- MODULE MCCoMutex -----------------------------
(* Model-checking instances of the co_mutex chain: the bounds are in the *)
(* configurations.                                                       *)
EXTENDS CoMutexRunloop
=============================================================================
