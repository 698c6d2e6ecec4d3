------------------------------- MODULE MCMemory -------------------------------
(* Three requests on memories of two texts, one of them with an injection. *)
EXTENDS Memory, TLC

Symmetry == Permutations(Request)
=============================================================================
