---------------------------- MODULE MessageStore ----------------------------
(***************************************************************************)
(* The table messages of MemoryStore over the life of a bot: inserts by    *)
(* turns, ambient tracking and proactive posts, deletions by /memory       *)
(* forget, prunes by the hourly maintenance and /agent prune, and process  *)
(* restarts, which lose the amortised counter but not the rows.            *)
(***************************************************************************)
EXTENDS MessageTable

CONSTANTS Scopes,       \* conversations
          Owners,       \* participants and the bot
          MaxInserts    \* bound: rows inserted in a behaviour

ASSUME InsertBound == MaxInserts \in Nat

VARIABLES rows,     \* table messages: [id, scope, owner]
          checks,   \* _global_message_checks_remaining
          nextId    \* AUTOINCREMENT

vars == <<rows, checks, nextId>>

Store == [rows |-> rows, checks |-> checks]

Becomes(store) == rows' = store.rows /\ checks' = store.checks

Init ==
  /\ rows = {}
  /\ checks = ChecksAtOpen
  /\ nextId = 1

\* Mutant: an id is given out again.
RecordUnderLastId(scope, owner) ==
  /\ nextId <= MaxInserts
  /\ Becomes(InsertMessage(Store, [id |-> nextId, scope |-> scope, owner |-> owner]))
  /\ UNCHANGED nextId

\* record_message.  A message id that is in the table already is ignored.
RecordMessage(scope, owner) ==
  /\ nextId <= MaxInserts
  /\ Becomes(InsertMessage(Store, [id |-> nextId, scope |-> scope, owner |-> owner]))
  /\ nextId' = nextId + 1

\* prune, with the limit the store was opened with.
Prune ==
  /\ Becomes(PruneMessages(Store, Scopes, MaxMessagesPerScope))
  /\ UNCHANGED nextId

\* delete_conversation_memory.  It gives the counter nothing back.
Forget(owner) ==
  /\ rows' = {r \in rows : r.owner # owner}
  /\ UNCHANGED <<checks, nextId>>

\* The store is closed, or the process dies between two commits, and opened.
Reopen ==
  /\ checks' = ChecksAtOpen
  /\ UNCHANGED <<rows, nextId>>

Next ==
  \/ \E scope \in Scopes, owner \in Owners : RecordMessage(scope, owner)
  \/ Prune
  \/ \E owner \in Owners : Forget(owner)
  \/ Reopen

Spec == Init /\ [][Next]_vars

-----------------------------------------------------------------------------
(* Properties.                                                             *)

StoredRows == [id : Nat, scope : Scopes, owner : Owners]

\* The type of every variable; ids of stored rows have been given out.
TypeOK ==
  /\ rows \subseteq StoredRows
  /\ checks \in Int
  /\ nextId \in Nat
  /\ \A r \in rows : r.id < nextId

\* The counter is a promise: as many inserts as it allows before the next look
\* fit under the ceiling, whatever prunes, deletions and restarts came between
\* (docs/ARCHITECTURE.md:131-136: explicit ceilings).
RoomForUncheckedInserts ==
  MaxTotalMessages > 0 =>
    /\ checks >= 1
    /\ Cardinality(rows) + checks - 1 <= MaxTotalMessages

\* No commit leaves the table over MAX_TOTAL_MESSAGES, although not every
\* insert looks, nor a conversation over MAX_MESSAGES_PER_CHANNEL.
CeilingsHold ==
  /\ MaxTotalMessages > 0 => Cardinality(rows) <= MaxTotalMessages
  /\ MaxMessagesPerScope > 0 =>
       \A s \in Scopes : Cardinality(InScope(rows, s)) <= MaxMessagesPerScope

\* A ceiling forgets the past, not the present: unless a user deletes, every
\* row that goes is older than every row of its conversation that stays, and
\* the row just inserted stays, whatever conversation was the busier one.
OldestGoFirst ==
  [][(\A o \in Owners : ~Forget(o)) =>
       /\ \A r \in rows \ rows', q \in rows' : q.scope = r.scope => r.id < q.id
       /\ nextId' > nextId => \E r \in rows' : r.id = nextId]_vars
=============================================================================
