------------------------------- MODULE Schema -------------------------------
(***************************************************************************)
(* How MemoryStore (agentbot/memory.py) opens an older database: the       *)
(* social tables of version 1 belong to several identities of the agent,   *)
(* of which one is carried over, and what versions before 7 have written   *)
(* is held against the policy of today.                                    *)
(*                                                                         *)
(* A database is [version, legacy, rows, seq]: legacy while the social     *)
(* tables have a column agent_namespace; seq is sqlite_sequence.  A row is *)
(* [table, id, of, user, says, text], "of" the identity it was written     *)
(* for; "says" stands for kind, topic and words of a fact.  The id of a    *)
(* relationship, which has none, is the time of its last interaction.  A   *)
(* text is clean, unsafe (the policy refuses it), wordy (a journal entry   *)
(* that is longer than it may be today) or omitted (nothing, or a          *)
(* placeholder for what has been refused).                                 *)
(***************************************************************************)
EXTENDS Integers, FiniteSets

CONSTANTS Identities,    \* agent_namespace values
          NoIdentity,    \* an empty setting
          FactsPerUser,  \* max_profile_facts_per_user, 0 for no ceiling
          FactsTotal     \* max_total_profile_facts, likewise

ASSUME SchemaAssumption ==
  NoIdentity \notin Identities /\ FactsPerUser \in Nat /\ FactsTotal \in Nat

Tables      == {"facts", "relationships", "events", "journal"}
Numbered    == Tables \ {"relationships"}     \* AUTOINCREMENT
Placeholder == {"events", "relationships"}    \* where an unsafe text is replaced

SocialRows == [table : Tables, id : Nat, of : Identities, user : Nat, says : Nat,
               text : {"clean", "unsafe", "wordy", "omitted"}]
Database == [version : Nat, legacy : BOOLEAN, rows : SUBSET SocialRows, seq : [Numbered -> Nat]]

RowsOf(rows, t) == {r \in rows : r.table = t}

\* Nothing in it is left for the policy to refuse.
Clean(db) == ~db.legacy /\ \A r \in db.rows : r.text \in {"clean", "omitted"}

\* _legacy_social_migration_selection: the identities to choose from.
IdentitiesOf(db) == {r.of : r \in db.rows}

\* What is carried over: nothing to choose, as configured, or the only one.  A
\* setting that names none of several refuses the database.
Selection(db, requested) ==
  CASE IdentitiesOf(db) = {} -> {requested}
    [] requested \in IdentitiesOf(db) -> {requested}
    [] requested = NoIdentity /\ \E i \in Identities : IdentitiesOf(db) = {i} -> IdentitiesOf(db)
    [] OTHER -> {}

\* What the policy leaves of a row.
Sanitized(rows) ==
  {r \in rows : r.text # "unsafe"}
    \cup {[r EXCEPT !.text = "omitted"] :
            r \in {u \in rows : u.text = "unsafe" /\ u.table \in Placeholder}}

-----------------------------------------------------------------------------
\* The change of the legacy tables, one row after another.

\* Rows the loops of the migration may come to next: each table by id, which for
\* facts stands for created_at, id.  The tables do not touch one another.
First(rows) == {r \in rows : \A q \in rows : q.table = r.table => r.id <= q.id}

\* One record for the store.
SameRecord(f, g) == f.user = g.user /\ f.says = g.says

FactsOf(rows, user) == {f \in RowsOf(rows, "facts") : f.user = user}

\* _trim_user_profile_facts: one has come, so one goes.  Which is ProfileTable's.
Trims(rows, user) ==
  IF FactsPerUser > 0 /\ Cardinality(FactsOf(rows, user)) > FactsPerUser
    THEN {rows \ {f} : f \in FactsOf(rows, user)}
    ELSE {rows}

\* _upsert_profile_record_no_commit, what may become of the table: what the policy
\* refuses stays away, what is known already adds to the record there is, and a
\* full table takes nothing new.
Upserts(rows, r) ==
  IF \/ r.text = "unsafe"
     \/ \E f \in RowsOf(rows, "facts") : SameRecord(f, r)
     \/ FactsTotal > 0 /\ Cardinality(RowsOf(rows, "facts")) >= FactsTotal
    THEN {rows}
    ELSE Trims(rows \cup {r}, r.user)

\* A text the policy takes; it refuses an empty one, too.
Says(r) == r.text \notin {"unsafe", "omitted"}

\* Mutant: the latest text counts, and goes if the policy refuses it.
CombinedOverwriting(rows, r) ==
  (rows \ {q \in RowsOf(rows, "relationships") : q.user = r.user})
    \cup {[r EXCEPT !.text = IF Says(r) THEN @ ELSE "omitted"]}

\* A user's relationships in several guilds become one with the latest text that
\* is allowed.
Combined(rows, r) ==
  LET before == {q \in RowsOf(rows, "relationships") : q.user = r.user}
      texts  == IF Says(r) THEN {r.text}
                ELSE IF before # {} THEN {q.text : q \in before} ELSE {"omitted"}
  IN  (rows \ before) \cup {[r EXCEPT !.text = t] : t \in texts}

\* What the new tables may hold once row r has been read.
CarriedOver(rows, r) ==
  CASE r.table = "facts"         -> Upserts(rows, r)
    [] r.table = "relationships" -> {Combined(rows, r)}
    [] OTHER                     -> {rows \cup Sanitized({r})}

\* Mutant: the migration says that there is nothing left to do.
MigratedToSeven(db, rows) == [db EXCEPT !.version = 7, !.legacy = FALSE, !.rows = rows]

\* The legacy tables are dropped for the new ones, whose numbering goes on from
\* theirs.
Migrated(db, rows) == [db EXCEPT !.version = 5, !.legacy = FALSE, !.rows = rows]

-----------------------------------------------------------------------------
\* _quarantine_unsafe_social_rows and the version that says it is done, another
\* transaction.  (Facts that cleaning makes equal stay apart here.)
Quarantined(db) ==
  [db EXCEPT !.version = 7,
             !.rows = {IF r.text = "wordy" THEN [r EXCEPT !.text = "clean"] ELSE r :
                         r \in Sanitized(@)}]

-----------------------------------------------------------------------------
\* What an identity's old rows owe to the new ones.

Reached(ceiling, facts) == ceiling > 0 /\ Cardinality(facts) = ceiling
Within(ceiling, facts)  == ceiling > 0 => Cardinality(facts) <= ceiling

\* The facts are old ones the policy allows, no two of them one record, and within
\* both ceilings; one that is missing has met a full table or a full user.
FactsKept(old, new) ==
  /\ new \subseteq {f \in old : f.text # "unsafe"}
  /\ \A f, g \in new : SameRecord(f, g) => f = g
  /\ Within(FactsTotal, new)
  /\ \A f \in old : Within(FactsPerUser, FactsOf(new, f.user))
  /\ \A f \in old :
       \/ f.text = "unsafe" \/ \E g \in new : SameRecord(f, g)
       \/ Reached(FactsTotal, new) \/ Reached(FactsPerUser, FactsOf(new, f.user))

\* Who had a relationship has one, as of the latest interaction, with the latest
\* text that is allowed.
RelationshipsKept(old, new) ==
  /\ \A r \in old : \E k \in new : k.user = r.user
  /\ \A k \in new :
       /\ \A j \in new : j.user = k.user => j = k
       /\ \E r \in old : k = [r EXCEPT !.text = k.text]
       /\ \A r \in old : r.user = k.user => r.id <= k.id
       /\ \/ k.text = "omitted" /\ \A r \in old : r.user = k.user => ~Says(r)
          \/ \E r \in old :
               /\ r.user = k.user /\ Says(r) /\ k.text = r.text
               /\ \A q \in old : q.user = k.user /\ q.id > r.id => ~Says(q)

\* No event and no journal entry is lost but an entry the policy refuses.
LogsKept(old, new) ==
  /\ {r \in old : r.text # "unsafe"} \subseteq new
  /\ \A r \in old : r.table = "events" => \E k \in new : k.table = "events" /\ k.id = r.id
  /\ \A k \in new :
       k.text # "unsafe" /\ \E r \in old : r.table = k.table /\ r.id = k.id /\ r.of = k.of

Kept(old, new) ==
  /\ FactsKept(RowsOf(old, "facts"), RowsOf(new, "facts"))
  /\ RelationshipsKept(RowsOf(old, "relationships"), RowsOf(new, "relationships"))
  /\ LogsKept({r \in old : r.table \in {"events", "journal"}},
              {r \in new : r.table \in {"events", "journal"}})
=============================================================================
