---------------------------- MODULE MCRunStream ----------------------------
(* Model-checking instance of RunStream. *)
EXTENDS RunStream, TLC

ConnSymmetry == Permutations(Conns)
=============================================================================
