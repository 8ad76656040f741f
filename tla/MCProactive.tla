----------------------------- MODULE MCProactive -----------------------------
(* Instances of Proactive for TLC.                                         *)
EXTENDS Proactive, TLC

Symmetry == Permutations(Channels)
=============================================================================
