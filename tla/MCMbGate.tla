------------------------------ MODULE MCMbGate ------------------------------
(* Two blend callers, a name that can be resolved and one that cannot.     *)
EXTENDS MbGate

CONSTANTS b1, b2, n1, n2
=============================================================================
