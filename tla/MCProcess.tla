------------------------------ MODULE MCProcess ------------------------------
(* Instances of Process for TLC.                                           *)
EXTENDS Process, TLC

CONSTANTS a, b, c1, c2, r1, r2, u1, u2

\* Both reflections are about one pair: one may follow the other.
OnePair == [r \in {r1, r2} |-> "pair"]

Row(kind, id, of, text) ==
  [table |-> kind, id |-> id, of |-> of, user |-> 1, says |-> 0, text |-> text]

Fact(id, user, says) == [Row("facts", id, a, "clean") EXCEPT !.user = user, !.says = says]

Numbers(facts, events, journal) ==
  "facts" :> facts @@ "events" :> events @@ "journal" :> journal

\* Of version 1 with two identities, of one of which the policy refuses all.  Of
\* the other's facts, 2 says what 1 does, 4 is one too many for its user and 6 for
\* the table; the fact with the highest id has been deleted.  User 1 has
\* relationships in three guilds, the latest of which the policy refuses.
Shared ==
  [version |-> 1, legacy |-> TRUE, seq |-> Numbers(8, 1, 2),
   rows |-> {Fact(1, 1, 1), Fact(2, 1, 1), Row("facts", 3, a, "unsafe"), Fact(4, 1, 2),
             Fact(5, 2, 1), Fact(6, 3, 1), Row("facts", 7, b, "unsafe"),
             Row("relationships", 1, a, "wordy"), Row("relationships", 2, a, "clean"),
             Row("relationships", 3, a, "unsafe"), Row("events", 1, a, "unsafe"),
             Row("journal", 1, a, "wordy"), Row("journal", 2, b, "unsafe")}]

\* Of one identity only, and with none.
Single == [Shared EXCEPT !.rows = {r \in @ : r.of = a}]
Bare   == [Shared EXCEPT !.rows = {}]

\* Of a version without that cleanup, and of a later release.
Former ==
  [version |-> 6, legacy |-> FALSE, seq |-> Shared.seq,
   rows |-> {Fact(1, 1, 1), Row("facts", 3, a, "unsafe"), Fact(5, 2, 1),
             Row("relationships", 3, a, "clean"), Row("events", 1, a, "unsafe"),
             Row("journal", 1, a, "wordy")}]
Later == [Former EXCEPT !.version = 8]

Found == {Shared, Single, Bare, Former, Later}
=============================================================================
