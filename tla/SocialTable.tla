----------------------------- MODULE SocialTable -----------------------------
(***************************************************************************)
(* The tables relationships and relationship_events of MemoryStore, as     *)
(* pure functions of their contents.  An event is a record with at least   *)
(* an "id", a "guild" and a "user"; relationships is the set of users that *)
(* have a row.                                                             *)
(***************************************************************************)
EXTENDS Rows

CONSTANTS MaxPendingPerUser,     \* MAX_PENDING_INTERACTIONS_PER_USER
          MaxTotalPending,       \* MAX_TOTAL_PENDING_INTERACTIONS
          MaxRelationships       \* MAX_TOTAL_RELATIONSHIPS

ASSUME SocialCeilings ==
  /\ MaxPendingPerUser \in Nat
  /\ MaxTotalPending \in Nat
  /\ MaxRelationships \in Nat

\* A user without a row is turned away once the relationships table is full.
Accepts(relationships, user) ==
  \/ user \in relationships
  \/ MaxRelationships = 0
  \/ Cardinality(relationships) < MaxRelationships

PendingOf(events, guild, user) ==
  {e \in events : e.guild = guild /\ e.user = user}

TrimEvents(events, guild, user) ==
  TrimRows(TrimGroup(events, PendingOf(events, guild, user), MaxPendingPerUser),
           MaxTotalPending)

\* record_relationship_interaction: what the two tables hold afterwards.
EventsAfter(events, relationships, e) ==
  IF Accepts(relationships, e.user)
    THEN TrimEvents(events \cup {e}, e.guild, e.user)
    ELSE events

RelationshipsAfter(relationships, user) ==
  IF Accepts(relationships, user) THEN relationships \cup {user}
                                  ELSE relationships
==============================================================================
