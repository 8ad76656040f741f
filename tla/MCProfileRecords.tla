-------------------------- MODULE MCProfileRecords --------------------------
(* Instances of ProfileRecords for TLC: two texts of one topic, of which   *)
(* one is a fact, and one of another.                                      *)
EXTENDS ProfileRecords, TLC

CONSTANTS guild, fact, rumour, other, topic, apart

Topics == fact :> topic @@ rumour :> topic @@ other :> apart
Symmetry == Permutations(Users)
=============================================================================
