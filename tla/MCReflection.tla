---------------------------- MODULE MCReflection ----------------------------
(* Instances of Reflection for TLC.                                        *)
EXTENDS Reflection, TLC

Symmetry == Permutations(Tasks)
=============================================================================
