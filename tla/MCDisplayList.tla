---------------------------- MODULE MCDisplayList ----------------------------
(* Instances of DisplayList small enough for TLC. *)
EXTENDS DisplayList, TLC

Symmetry == Permutations(Names)
=============================================================================
