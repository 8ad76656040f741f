---------------------------- MODULE MessageTable ----------------------------
(***************************************************************************)
(* What MemoryStore.record_message and MemoryStore.prune do to the table   *)
(* messages.  The store is a record: "rows", a set of rows with at least   *)
(* an "id" and a "scope", and "checks", the number of inserts left before  *)
(* the global ceiling is looked at again.                                  *)
(***************************************************************************)
EXTENDS Rows

CONSTANTS MaxMessagesPerScope,   \* MAX_MESSAGES_PER_CHANNEL; 0 is no ceiling
          MaxTotalMessages,      \* MAX_TOTAL_MESSAGES; 0 is no ceiling
          AmortiseFrom,          \* 128: smaller ceilings are checked every time
          MaxInterval,           \* 64: inserts between two looks, at most
          IntervalShare          \* 10: and at most this part of the ceiling

ASSUME MessageCeilings ==
  /\ MaxMessagesPerScope \in Nat
  /\ MaxTotalMessages \in Nat
  /\ MaxInterval \in Nat \ {0}
  /\ IntervalShare \in Nat /\ IntervalShare > 1
  /\ AmortiseFrom \in Nat /\ AmortiseFrom >= IntervalShare

\* The COUNT that enforces the global ceiling is amortised: it runs every
\* CheckInterval inserts, and then trims below the ceiling by as much.
Share == MaxTotalMessages \div IntervalShare

CheckInterval ==
  IF MaxTotalMessages < AmortiseFrom THEN 1
  ELSE IF Share < MaxInterval THEN Share ELSE MaxInterval

TrimTarget ==
  IF MaxTotalMessages < AmortiseFrom THEN MaxTotalMessages
  ELSE MaxTotalMessages - CheckInterval

\* A freshly opened store looks at the ceiling on its first insert.
ChecksAtOpen == 1

InScope(rows, s) == {r \in rows : r.scope = s}

\* Mutant: the scope is left to the next prune.
InsertTrimmingTotal(store, row) ==
  IF store.checks - 1 <= 0
    THEN [rows |-> TrimRows(store.rows \cup {row}, TrimTarget), checks |-> CheckInterval]
    ELSE [rows |-> store.rows \cup {row}, checks |-> store.checks - 1]

\* The insert, the trim of its scope, and the amortised global trim.
InsertMessage(store, row) ==
  LET all    == store.rows \cup {row}
      scoped == TrimGroup(all, InScope(all, row.scope), MaxMessagesPerScope)
  IN  IF MaxTotalMessages = 0
        THEN [rows |-> scoped, checks |-> store.checks]
      ELSE IF store.checks - 1 <= 0
        THEN [rows |-> TrimRows(scoped, TrimTarget), checks |-> CheckInterval]
        ELSE [rows |-> scoped, checks |-> store.checks - 1]

\* prune: every scope to its own limit, then the table to the ceiling itself,
\* which the next insert looks at again.
PruneMessages(store, scopes, limit) ==
  LET scoped == UNION {TrimRows(InScope(store.rows, s), limit) : s \in scopes}
  IN  IF MaxTotalMessages = 0
        THEN [store EXCEPT !.rows = scoped]
        ELSE [rows   |-> TrimRows(scoped, MaxTotalMessages),
              checks |-> ChecksAtOpen]
=============================================================================
