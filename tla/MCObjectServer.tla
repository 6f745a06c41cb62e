--------------------------- MODULE MCObjectServer ---------------------------
(* A small instance of ObjectServer: three keys that share a directory.     *)
EXTENDS ObjectServer

CONSTANT d1

OneDir == [k \in Keys |-> d1]
RequestSymmetry == Permutations(Requests)
=============================================================================
