------------------------------- MODULE MCTurn -------------------------------
(* Instances of Turn for TLC: a guild with one channel, and the direct     *)
(* messages of one user.                                                   *)
EXTENDS Turn, TLC

CONSTANTS u1, u2, guild, channel, dm

GuildAndDM == channel :> guild @@ dm :> DM
EveryoneAndOne == channel :> Users @@ dm :> {u1}
OneGuild == channel :> guild
Everyone == channel :> Users

\* Handlers are interchangeable.
Symmetry == Permutations(Turns)
=============================================================================
