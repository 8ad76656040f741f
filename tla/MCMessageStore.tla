--------------------------- MODULE MCMessageStore ---------------------------
(* Instances of MessageStore for TLC.                                      *)
EXTENDS MessageStore, TLC

Symmetry == Permutations(Scopes) \cup Permutations(Owners)
=============================================================================
