---------------------------- MODULE MCGeneration ----------------------------
(* Instances of Generation for TLC.                                        *)
EXTENDS Generation, TLC

CONSTANTS c1, c2, r1

\* Two replies in one channel, of which the second may follow the first while
\* that one's job is still being cancelled.
OneChannel == c1 :> "channel" @@ c2 :> "channel" @@ r1 :> "user"
=============================================================================
