--------------------------- MODULE ProfileRecords ---------------------------
(***************************************************************************)
(* The profile records of MemoryStore (agentbot/memory.py), written by     *)
(* reflections (agentbot/orchestrator.py:787-846) and deleted by their     *)
(* owners.  A reflection reads the records that it may correct, awaits the *)
(* provider, and saves; one of a guild and one of the direct messages of a *)
(* user may be under way at a time, and neither bumps the profile revision.*)
(* When reflections run is the matter of Reflection.                       *)
(***************************************************************************)
EXTENDS ProfileTable

CONSTANTS Users, Places,     \* users; guilds and the direct messages
          DM,
          PayloadRecords,    \* 12
          MaxLinks,          \* 4
          MaxReflections,    \* MAX_PENDING_REQUESTS: reflections under way
          Confidences,       \* bound: what an observation's confidence may be
          MaxTime,           \* bound: the host's clock
          MaxSaves,          \* bound: saves in a behaviour
          MaxCommands        \* bound: slash commands in a behaviour

ASSUME ProfileRecordsAssumption ==
  /\ DM \in Places /\ Confidences \subseteq BOOLEAN
  /\ {PayloadRecords, MaxLinks, MaxReflections} \subseteq Nat \ {0}
  /\ {MaxTime, MaxSaves, MaxCommands} \subseteq Nat

VARIABLES
  facts,        \* table profile_facts
  nextFact,     \* its AUTOINCREMENT
  revision,     \* table profile_state
  reading,      \* of each place and user: the reflection that awaits the provider
  saves, commands

tables == <<facts, nextFact, revision>>
vars   == <<tables, reading, saves, commands>>

Keys == Places \X Users
Visibility(place) == IF place = DM THEN "dm" ELSE "guild"

Init ==
  /\ facts = {} /\ nextFact = 1
  /\ revision = [u \in Users |-> 0]
  /\ reading = [k \in Keys |-> Nothing]
  /\ saves = 0 /\ commands = 0

-----------------------------------------------------------------------------
(* Reflections.                                                            *)

\* The records in the payload: of the direct messages, whatever is known of
\* the user; of a guild, what was seen last in guilds.  A payload too long for
\* the provider loses its last records, which only leaves fewer to link to.
Offered(place, user) ==
  FirstOfUser({f \in RecordsOf(facts, user) : place = DM \/ f.visibility = "guild"},
              IF PayloadRecords < MaxFactsPerUser THEN PayloadRecords ELSE MaxFactsPerUser)

\* The batch and the payload are built, and the provider is awaited.
Read(place, user) ==
  /\ reading[<<place, user>>] = Nothing
  /\ Cardinality({k \in Keys : reading[k] # Nothing}) < MaxReflections
  /\ reading' = [reading EXCEPT ![<<place, user>>] =
                   [revision |-> revision[user],
                    offered  |-> {f.id : f \in Offered(place, user)}]]
  /\ UNCHANGED <<tables, saves, commands>>

\* It failed, was cancelled, or found its events consumed.
Abandon(place, user) ==
  /\ reading[<<place, user>>] # Nothing
  /\ reading' = [reading EXCEPT ![<<place, user>>] = Nothing]
  /\ UNCHANGED <<tables, saves, commands>>

\* Mutant: whatever ids the provider names are links.
UncheckedLinks(o, offered) == o

\* Of the ids that the provider names, those of records in its payload.
CheckedLinks(o, offered) ==
  [o EXCEPT !.supersedes = @ \cap offered, !.contradicts = @ \cap offered]

SameRevision(place, user) == revision[user] = reading[<<place, user>>].revision

\* save_relationship_reflection, of an answer with one observation or none.
Save(place, user, observations, now) ==
  /\ reading[<<place, user>>] # Nothing
  /\ SameRevision(place, user)
  /\ saves < MaxSaves /\ saves' = saves + 1
  /\ IF observations = {}
       THEN facts' = TrimFacts(TrimFactsOf(facts, user)) /\ UNCHANGED nextFact
       ELSE \E o \in observations :
            LET links == CheckedLinks(o, reading[<<place, user>>].offered)
            IN  /\ facts' = TrimFacts(TrimFactsOf(
                              Observed(facts, nextFact, user, links, Visibility(place), now), user))
                /\ nextFact' = IF Earlier(facts, user, o) = {} /\ ~Refused(facts, user, o)
                                 THEN nextFact + 1 ELSE nextFact
  /\ reading' = [reading EXCEPT ![<<place, user>>] = Nothing]
  /\ UNCHANGED <<revision, commands>>

-----------------------------------------------------------------------------
(* Commands.                                                               *)

Command(user) ==
  /\ commands < MaxCommands /\ commands' = commands + 1
  /\ revision' = [revision EXCEPT ![user] = @ + 1]
  /\ UNCHANGED <<nextFact, reading, saves>>

\* /profile delete of a record.
DeleteFact(f) == Command(f.user) /\ facts' = Without(facts, f)

\* /profile reset
Reset(user) == Command(user) /\ facts' = facts \ RecordsOf(facts, user)

\* What the provider may answer: any links, to whatever was ever a record.
Observations ==
  LET links == {S \in SUBSET (1..(nextFact - 1)) : Cardinality(S) <= MaxLinks}
  IN  [text : Texts, confident : Confidences, supersedes : links, contradicts : links]

Next ==
  \/ \E place \in Places, user \in Users :
       \/ Read(place, user) \/ Abandon(place, user)
       \/ \E now \in 1..MaxTime :
            \/ Save(place, user, {}, now)
            \/ \E o \in Observations : Save(place, user, {o}, now)
  \/ \E f \in facts : DeleteFact(f)
  \/ \E user \in Users : Reset(user)

Spec == Init /\ [][Next]_vars

-----------------------------------------------------------------------------
(* Properties.                                                             *)

Statuses == {"tentative", "confirmed", "contradicted", "superseded"}

\* The type of every variable; a user has one record of a text, and only what
\* is superseded names a successor.
TypeOK ==
  /\ facts \subseteq
       [id : 1..(nextFact - 1), user : Users, text : Texts, evidence : 1..EvidenceCap,
        confident : BOOLEAN, status : Statuses, by : 1..(nextFact - 1) \cup {Nothing},
        visibility : {"dm", "guild"}, seen : 1..MaxTime]
  /\ \A f, g \in facts : f.id = g.id \/ (f.user = g.user /\ f.text = g.text) => f = g
  /\ \A f \in facts : f.by # Nothing => f.status = "superseded"
  /\ nextFact \in Nat \ {0}
  /\ revision \in [Users -> Nat]
  /\ reading \in [Keys -> [revision : Nat, offered : SUBSET (1..(nextFact - 1))] \cup {Nothing}]
  /\ {saves, commands} \subseteq Nat

\* Corrections lead somewhere: no set of records supersede each other in a ring,
\* however often what had been corrected is observed again (README.md:236).
ChainsEnd ==
  \A S \in SUBSET facts :
    S # {} => \E f \in S : f.by \notin {g.id : g \in S}

\* A correction stands: when a record is superseded, the one in its place is
\* there and active, although the same save trims the table (README.md:18).
CorrectionStands ==
  [][\A f \in facts, g \in facts' :
       f.id = g.id /\ Active(f) /\ g.status = "superseded" =>
         \E h \in facts' : h.id = g.by /\ Active(h)]_vars

SavedBy(place, user) == reading[<<place, user>>] # Nothing /\ saves' > saves
                          /\ reading'[<<place, user>>] = Nothing

\* What a save may reach, after all that happened since its payload was read:
\* no record of another user, however full the table; no active record but
\* those of the payload is set aside, and only for another record of its kind
\* and topic (SECURITY.md:58); and what direct messages reveal is not shown in
\* guilds (README.md:258).
SaveReaches ==
  [][\A place \in Places, user \in Users : SavedBy(place, user) =>
       /\ \A f \in facts \ facts' : f.user = user
       /\ \A f \in facts, g \in facts' :
            f.id = g.id /\ f # g /\ ~Active(g) =>
              /\ Active(f) /\ f.id \in reading[<<place, user>>].offered
              /\ \E h \in facts' : h.id # g.id /\ Active(h) /\ h.user = user
                                     /\ Subject[h.text] = Subject[g.text]
       /\ place = DM => \A g \in facts' :
            g.visibility = "guild" => \E f \in facts : f.id = g.id /\ f.visibility = "guild"]_vars
=============================================================================
