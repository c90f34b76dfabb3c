------------------------------- MODULE MCJson --------------------------------
(* Trees of up to four values; addresses are interchangeable, so are names.  *)
EXTENDS Json, TLC

CONSTANTS v1, v2, v3, v4, a, b

Symmetric == Permutations(Addresses) \cup Permutations(Names)
==============================================================================
