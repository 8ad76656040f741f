--------------------------- MODULE MCChannelLocks ---------------------------
(* Instances of ChannelLocks for TLC.                                      *)
EXTENDS ChannelLocks, TLC

Symmetry == Permutations(Requests) \cup Permutations(Channels)
=============================================================================
