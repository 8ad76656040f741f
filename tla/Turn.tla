-------------------------------- MODULE Turn --------------------------------
(***************************************************************************)
(* One inbound Discord message from gateway event to stored turn:          *)
(* AgentBot._on_message and AgentBot._handle_generation of agentbot/app.py, *)
(* together with the slash commands of agentbot/commands.py that change    *)
(* what a turn in flight may still write.                                  *)
(*                                                                         *)
(* The process is one asyncio event loop over one SQLite connection: code  *)
(* between two awaits is atomic, and each action below is the code between *)
(* two awaits.  A handler snapshots the privacy and profile revisions when *)
(* it admits a message, then awaits the channel lock, the attachments, the *)
(* provider and Discord; every write is decided by comparing the snapshots *)
(* with the revisions current at the write.                                *)
(***************************************************************************)
EXTENDS MessageTable, SocialTable

CONSTANTS Turns,               \* handler instances, one per gateway message
          Users,               \* authors that are neither the bot nor blacklisted
          Guilds,              \* guild ids
          DM,                  \* the guild id 0 of direct messages
          Channels,            \* channels: each is a scope and has a lock
          GuildOf,             \* the guild (or DM) of each channel
          Members,             \* the users that can write in each channel
          Memos,               \* texts of explicit memories
          Nothing,             \* no request yet, no memo, no source, no holder
          MaxPendingRequests,  \* MAX_PENDING_REQUESTS
          MaxMemoriesPerUser,  \* MAX_MEMORIES_PER_USER
          MaxTotalMemories,    \* MAX_TOTAL_MEMORIES; 0 is no ceiling
          RespondToDMs,        \* RESPOND_TO_DMS
          RelationshipsEnabled,    \* RELATIONSHIPS_ENABLED
          RelationshipDirectOnly,  \* RELATIONSHIP_DIRECT_ONLY
          MaxCommands          \* bound: slash commands in a behaviour

Places == Guilds \cup {DM}

ASSUME TurnAssumption ==
  /\ GuildOf \in [Channels -> Places]
  /\ Members \in [Channels -> SUBSET Users]
  /\ Nothing \notin Turns \cup Memos \cup Users \cup (Places \X Users)
  /\ MaxPendingRequests \in Nat \ {0}
  /\ MaxMemoriesPerUser \in Nat
  /\ MaxTotalMemories \in Nat
  /\ MaxCommands \in Nat
  /\ {RespondToDMs, RelationshipsEnabled, RelationshipDirectOnly} \subseteq BOOLEAN

VARIABLES
  pc,             \* where each handler is
  msg,            \* the message each handler works on
  snap,           \* the revisions each handler read when it admitted the message
  persist,        \* persist_turn of each handler
  slots,          \* the handlers that hold a place of request_slots
  lock,           \* the handler that holds each channel's lock
  messages,       \* table messages: [id, scope, turn, role]
  checks,         \* _global_message_checks_remaining
  nextId,         \* next AUTOINCREMENT id (one counter for all the tables)
  memories,       \* table memories: [guild, user, text, source]
  privacy,        \* table privacy: [optedOut, revision] by guild and user
  profileRevision,\* table profile_state
  events,         \* table relationship_events: [id, guild, user, turn]
  relationships,  \* users with a row in table relationships
  commands,       \* slash commands so far
  lapsed,         \* history: turns admitted before a bump of their privacy revision
  disowned        \* history: turns admitted before a bump of their profile revision

flow     == <<pc, msg, snap, persist, slots, lock>>
records  == <<messages, checks, memories>>
social   == <<events, relationships>>
settings == <<privacy, profileRevision, commands, lapsed, disowned>>
vars     == <<flow, records, nextId, social, settings>>

Messages == [user : Users, channel : Channels, directed : BOOLEAN,
             memo : Memos \cup {Nothing}]
Snapshots == [optedOut : BOOLEAN, privacyRevision : Nat, profileRevision : Nat]

Guild(t)   == GuildOf[msg[t].channel]
Owner(t)   == <<Guild(t), msg[t].user>>
Waiting    == {t \in Turns : pc[t] = "waiting"}
Generating == {t \in Turns : pc[t] \in {"processing", "generating"}}
InFlight   == Waiting \cup Generating
\* The turns that read the revisions and may write, or may have written.
Admitted   == InFlight \cup {t \in Turns : pc[t] \in {"tracked", "done"}}

Init ==
  /\ pc = [t \in Turns |-> "new"]
  /\ msg = [t \in Turns |-> Nothing]
  /\ snap = [t \in Turns |-> Nothing]
  /\ persist = [t \in Turns |-> FALSE]
  /\ slots = {}
  /\ lock = [c \in Channels |-> Nothing]
  /\ messages = {}
  /\ checks = ChecksAtOpen
  /\ nextId = 1
  /\ memories = {}
  /\ privacy = [k \in Places \X Users |-> [optedOut |-> FALSE, revision |-> 0]]
  /\ profileRevision = [u \in Users |-> 0]
  /\ events = {}
  /\ relationships = {}
  /\ commands = 0
  /\ lapsed = {}
  /\ disowned = {}

-----------------------------------------------------------------------------
(* What the handlers write.                                                *)

MessageRow(t, role) ==
  [id |-> nextId, scope |-> msg[t].channel, turn |-> t, role |-> role]

RecordMessage(t, role) ==
  LET after == InsertMessage([rows |-> messages, checks |-> checks],
                             MessageRow(t, role))
  IN  messages' = after.rows /\ checks' = after.checks

SameMemo(g, u, text) ==
  {m \in memories : m.guild = g /\ m.user = u /\ m.text = text}

\* add_memory: rejected when new and the table is full; an equal text is
\* refreshed and keeps its source unless a new one is given; then the user's
\* own ceiling spares the row just written, and which of the others it drops
\* depends on when each was last recalled.
AddMemory(g, u, text, source) ==
  LET old   == SameMemo(g, u, text)
      row   == [guild |-> g, user |-> u, text |-> text,
                source |-> IF source = Nothing /\ old # {}
                             THEN (CHOOSE m \in old : TRUE).source ELSE source]
      mine  == {m \in memories \ old : m.guild = g /\ m.user = u}
  IN  IF old = {} /\ MaxTotalMemories > 0
                  /\ Cardinality(memories) >= MaxTotalMemories
        THEN UNCHANGED memories
        ELSE \E kept \in SUBSET mine :
               /\ IF MaxMemoriesPerUser = 0 \/ Cardinality(mine) < MaxMemoriesPerUser
                    THEN kept = mine
                    ELSE Cardinality(kept) = MaxMemoriesPerUser - 1
               /\ memories' = ((memories \ old) \ mine) \cup kept \cup {row}

\* record_relationship_interaction
RecordInteraction(t) ==
  LET e == [id |-> nextId, guild |-> Guild(t), user |-> msg[t].user, turn |-> t]
  IN  /\ events' = EventsAfter(events, relationships, e)
      /\ relationships' = RelationshipsAfter(relationships, e.user)

\* Mutants: the check at the write forgets the revision, or trusts the snapshot.
MayPersistAtAnyRevision(t) == ~snap[t].optedOut /\ ~privacy[Owner(t)].optedOut
MayPersistOnSnapshot(t) == ~snap[t].optedOut

\* Storage is on, was on at admission, and no command has bumped the revision.
MayPersist(t) ==
  /\ ~snap[t].optedOut
  /\ ~privacy[Owner(t)].optedOut
  /\ privacy[Owner(t)].revision = snap[t].privacyRevision

\* Mutant: a racing reset is not looked for.
ProfileEpochUnchecked(t) == TRUE

ProfileEpochCurrent(t) ==
  profileRevision[msg[t].user] = snap[t].profileRevision

-----------------------------------------------------------------------------
(* The handler of one message.                                             *)

Goto(t, where) == pc' = [pc EXCEPT ![t] = where]

\* on_message: the reply reference may have to be fetched, for up to 3 s.
Receive(t) ==
  /\ pc[t] = "new"
  /\ \E m \in Messages :
       /\ m.user \in Members[m.channel]
       /\ GuildOf[m.channel] = DM => m.directed
       /\ msg' = [msg EXCEPT ![t] = m]
  /\ Goto(t, "resolving")
  /\ UNCHANGED <<snap, persist, slots, lock, records, nextId, social, settings>>

\* Mutant: the revisions are not read at admission.
NoSnapshot(t) == UNCHANGED snap

TakeSnapshot(t) ==
  snap' = [snap EXCEPT ![t] =
             [optedOut        |-> privacy[Owner(t)].optedOut,
              privacyRevision |-> privacy[Owner(t)].revision,
              profileRevision |-> profileRevision[msg[t].user]]]

\* The channel's modes, the auto-reply draw, the length of the text and the
\* rate limiters all can turn a message away, and so can full request slots.
Decline(t) ==
  /\ pc[t] = "resolving"
  /\ Goto(t, "declined")
  /\ UNCHANGED <<msg, snap, persist, slots, lock, records, nextId, social, settings>>

\* Ambient text that is not answered but kept as context.
Track(t) ==
  /\ pc[t] = "resolving"
  /\ ~msg[t].directed
  /\ ~privacy[Owner(t)].optedOut
  /\ TakeSnapshot(t)
  /\ RecordMessage(t, "user")
  /\ nextId' = nextId + 1
  /\ Goto(t, "tracked")
  /\ UNCHANGED <<msg, persist, slots, lock, memories, social, settings>>

Admit(t) ==
  /\ pc[t] = "resolving"
  /\ Guild(t) = DM => RespondToDMs
  /\ Cardinality(slots) < MaxPendingRequests
  /\ TakeSnapshot(t)
  /\ slots' = slots \cup {t}
  /\ Goto(t, "waiting")
  /\ UNCHANGED <<msg, persist, lock, records, nextId, social, settings>>

\* Mutant: the lock is not waited for.
AcquireTakenLock(t) ==
  /\ pc[t] = "waiting"
  /\ lock' = [lock EXCEPT ![msg[t].channel] = t]
  /\ Goto(t, "processing")
  /\ UNCHANGED <<msg, snap, persist, slots, records, nextId, social, settings>>

AcquireLock(t) ==
  /\ pc[t] = "waiting"
  /\ lock[msg[t].channel] = Nothing
  /\ lock' = [lock EXCEPT ![msg[t].channel] = t]
  /\ Goto(t, "processing")
  /\ UNCHANGED <<msg, snap, persist, slots, records, nextId, social, settings>>

\* The lock stayed taken for 5 s.
LockTimeout(t) ==
  /\ pc[t] = "waiting"
  /\ lock[msg[t].channel] # Nothing
  /\ slots' = slots \ {t}
  /\ Goto(t, "done")
  /\ UNCHANGED <<msg, snap, persist, lock, records, nextId, social, settings>>

\* The attachments are in: the user's row and an explicit memory are stored,
\* and the prompt goes to the provider.
StartGeneration(t) ==
  /\ pc[t] = "processing"
  /\ persist' = [persist EXCEPT ![t] = MayPersist(t)]
  /\ IF MayPersist(t)
       THEN /\ RecordMessage(t, "user")
            /\ nextId' = nextId + 1
            /\ IF msg[t].memo = Nothing
                 THEN UNCHANGED memories
                 ELSE AddMemory(Guild(t), msg[t].user, msg[t].memo, t)
       ELSE UNCHANGED <<records, nextId>>
  /\ Goto(t, "generating")
  /\ UNCHANGED <<msg, snap, slots, lock, social, settings>>

\* Mutant: an exit that forgets the lock.
ReleaseSlotOnly(t) == slots' = slots \ {t} /\ UNCHANGED lock

Release(t) ==
  /\ slots' = slots \ {t}
  /\ lock' = [c \in Channels |-> IF lock[c] = t THEN Nothing ELSE lock[c]]

\* Mutant: a failed turn queues for another attempt.
AbortAndRetry(t) ==
  /\ t \in Generating
  /\ lock' = [c \in Channels |-> IF lock[c] = t THEN Nothing ELSE lock[c]]
  /\ Goto(t, "waiting")
  /\ UNCHANGED <<msg, snap, persist, slots, records, nextId, social, settings>>

\* A provider error, a failed delivery, an exception or a cancellation.
Abort(t) ==
  /\ t \in InFlight
  /\ Release(t)
  /\ Goto(t, "done")
  /\ UNCHANGED <<msg, snap, persist, records, nextId, social, settings>>

\* The reply is in the channel: its row and the social event are stored, each
\* if its own revision is still current.  What may be scheduled then is
\* Reflection's Interact.
Deliver(t) ==
  /\ pc[t] = "generating"
  /\ LET keep == persist[t] /\ MayPersist(t)
         learn == /\ ProfileEpochCurrent(t)
                  /\ RelationshipsEnabled
                  /\ msg[t].directed \/ ~RelationshipDirectOnly
     IN  /\ IF keep THEN RecordMessage(t, "assistant") /\ UNCHANGED memories
                    ELSE UNCHANGED records
         /\ IF learn THEN RecordInteraction(t) ELSE UNCHANGED social
         /\ nextId' = IF keep \/ learn THEN nextId + 1 ELSE nextId
  /\ Release(t)
  /\ Goto(t, "done")
  /\ UNCHANGED <<msg, snap, persist, settings>>

Handle(t) ==
  \/ Receive(t) \/ Decline(t) \/ Track(t) \/ Admit(t)
  \/ AcquireLock(t) \/ LockTimeout(t)
  \/ StartGeneration(t) \/ Abort(t) \/ Deliver(t)

-----------------------------------------------------------------------------
(* The slash commands.  Each one is atomic up to its answer to the user.   *)

AdmittedIn(k) == {t \in Admitted : Owner(t) = k}
AdmittedOf(u) == {t \in Admitted : msg[t].user = u}

Command ==
  /\ commands < MaxCommands
  /\ commands' = commands + 1
  /\ UNCHANGED flow

\* /memory forget: delete_conversation_memory.  The preference stays.
Forget(g, u) ==
  /\ Command
  /\ messages' = {r \in messages : ~(r.role = "user" /\ Owner(r.turn) = <<g, u>>)}
  /\ memories' = {m \in memories : ~(m.guild = g /\ m.user = u)}
  /\ privacy' = [privacy EXCEPT ![<<g, u>>].revision = @ + 1]
  /\ lapsed' = lapsed \cup AdmittedIn(<<g, u>>)
  /\ UNCHANGED <<checks, nextId, social, profileRevision, disowned>>

\* /memory storage: set_opted_out.  What is stored stays.
SetStorage(g, u, enabled) ==
  /\ Command
  /\ privacy' = [privacy EXCEPT ![<<g, u>>] =
                   [optedOut |-> ~enabled, revision |-> @.revision + 1]]
  /\ lapsed' = lapsed \cup AdmittedIn(<<g, u>>)
  /\ UNCHANGED <<records, nextId, social, profileRevision, disowned>>

\* /memory remember
Remember(g, u, text) ==
  /\ Command
  /\ ~privacy[<<g, u>>].optedOut
  /\ AddMemory(g, u, text, Nothing)
  /\ UNCHANGED <<messages, checks, nextId, social, privacy, profileRevision,
                 lapsed, disowned>>

\* /memory delete
DeleteMemory(m) ==
  /\ Command
  /\ memories' = memories \ {m}
  /\ UNCHANGED <<messages, checks, nextId, social, privacy, profileRevision,
                 lapsed, disowned>>

BumpProfile(u) ==
  /\ profileRevision' = [profileRevision EXCEPT ![u] = @ + 1]
  /\ disowned' = disowned \cup AdmittedOf(u)

\* /profile reset: reset_social_profile
ResetProfile(u) ==
  /\ Command
  /\ events' = {e \in events : e.user # u}
  /\ relationships' = relationships \ {u}
  /\ BumpProfile(u)
  /\ UNCHANGED <<records, nextId, privacy, lapsed>>

\* /profile delete of a record that exists: delete_social_record.  The records
\* themselves are Reflection's.
DeleteRecord(u) ==
  /\ Command
  /\ BumpProfile(u)
  /\ UNCHANGED <<records, nextId, social, privacy, lapsed>>

Commands ==
  \/ \E g \in Places, u \in Users :
       \/ Forget(g, u)
       \/ \E enabled \in BOOLEAN : SetStorage(g, u, enabled)
       \/ \E text \in Memos : Remember(g, u, text)
  \/ \E m \in memories : DeleteMemory(m)
  \/ \E u \in Users : ResetProfile(u) \/ DeleteRecord(u)

Next == (\E t \in Turns : Handle(t)) \/ Commands

Spec == Init /\ [][Next]_vars

(* Every await of a handler ends: fetching the reference after 3 s, waiting *)
(* for the lock after 5 s, attachments and provider at their deadlines.     *)
Advance(t) ==
  \/ Decline(t) \/ Track(t) \/ Admit(t) \/ AcquireLock(t) \/ LockTimeout(t)
  \/ StartGeneration(t) \/ Deliver(t) \/ Abort(t)

FairSpec == Spec /\ \A t \in Turns : WF_vars(Advance(t))

-----------------------------------------------------------------------------
(* Properties.                                                             *)

MessageRows == [id : Nat, scope : Channels, turn : Turns, role : {"user", "assistant"}]
MemoryRows  == [guild : Places, user : Users, text : Memos, source : Turns \cup {Nothing}]
EventRows   == [id : Nat, guild : Places, user : Users, turn : Turns]

\* The type of every variable; a turn past its first step has a message, and
\* an admitted one its snapshot.
TypeOK ==
  /\ pc \in [Turns -> {"new", "resolving", "declined", "tracked", "waiting",
                       "processing", "generating", "done"}]
  /\ msg \in [Turns -> Messages \cup {Nothing}]
  /\ snap \in [Turns -> Snapshots \cup {Nothing}]
  /\ \A t \in Turns : pc[t] # "new" => msg[t] \in Messages
  /\ \A t \in Admitted : snap[t] \in Snapshots
  /\ persist \in [Turns -> BOOLEAN]
  /\ slots \subseteq Turns
  /\ lock \in [Channels -> Turns \cup {Nothing}]
  /\ messages \subseteq MessageRows
  /\ checks \in Int
  /\ nextId \in Nat
  /\ memories \subseteq MemoryRows
  /\ privacy \in [Places \X Users -> [optedOut : BOOLEAN, revision : Nat]]
  /\ profileRevision \in [Users -> Nat]
  /\ events \subseteq EventRows
  /\ relationships \subseteq Users
  /\ commands \in Nat
  /\ lapsed \subseteq Turns
  /\ disowned \subseteq Turns

\* Every exit of a handler gives back exactly what it took: the request slots
\* and the channel locks are held by the handlers in flight and by no other
\* (the finally clauses of app.py:621-622 and 832-833), so at most one
\* generation runs in a channel and at most MaxPendingRequests at all.
ResourcesMatch ==
  /\ slots = InFlight
  /\ Cardinality(slots) <= MaxPendingRequests
  /\ \A c \in Channels, t \in Turns :
       lock[c] = t <=> (t \in Generating /\ msg[t].channel = c)

\* A handler that lapsed or was disowned while in flight can tell: revisions
\* only grow, and they have grown past the ones it read.
RevisionsTell ==
  \A t \in Admitted :
    /\ snap[t].privacyRevision <= privacy[Owner(t)].revision
    /\ snap[t].profileRevision <= profileRevision[msg[t].user]
    /\ t \in lapsed => snap[t].privacyRevision # privacy[Owner(t)].revision
    /\ t \in disowned => snap[t].profileRevision # profileRevision[msg[t].user]

\* Between the stored message of an answered turn and the stored answer, only
\* ambient messages are stored in that channel: the answers of two turns do
\* not interleave in the history the next prompt is built from.
RepliesDoNotInterleave ==
  \A a, q, r \in messages :
    /\ a.role = "assistant" /\ q.role = "user" /\ q.turn = a.turn
    /\ r.scope = a.scope /\ q.id < r.id /\ r.id < a.id
    => pc[r.turn] = "tracked"

\* While storage is disabled for a user in a guild or in direct messages
\* nothing of that user's conversation is added there, not even by turns that
\* were admitted before (docs/DATA_MODEL.md:54-57).
StoredFor(k) == {r \in messages : Owner(r.turn) = k}
                  \cup {m \in memories : <<m.guild, m.user>> = k}
OptOutHolds ==
  [][\A k \in Places \X Users :
       privacy[k].optedOut => StoredFor(k)' \subseteq StoredFor(k)]_vars

\* A relationship row appears only with the delivery of a turn admitted since
\* the user's last reset or record deletion (app.py:796-802): a turn that was
\* in flight across a reset does not bring the row back.
RelationshipEarned ==
  [][\A u \in relationships' \ relationships :
       \E t \in Turns : /\ pc[t] = "generating" /\ pc'[t] = "done"
                        /\ msg[t].user = u /\ t \notin disowned]_vars

\* Every message handler comes to an end, whatever it waits for.
EveryTurnEnds ==
  \A t \in Turns : pc[t] = "resolving" ~> pc[t] \in {"declined", "tracked", "done"}

\* Deletion of conversation memory, as docs/DATA_MODEL.md:54-67 promises it.
\* The traces are rows and memories, by the turn that left them; a memory
\* stored by /memory remember belongs to no turn.
ConversationClaim == [t \in Turns |-> IF t \in Admitted THEN Owner(t) ELSE Nothing]
ConversationTraces ==
  {<<r.turn, r.role>> : r \in messages}
    \cup {<<m.source, "memory">> : m \in {x \in memories : x.source # Nothing}}

Conversation == INSTANCE Erasure WITH
  Items <- Turns, Keys <- Places \X Users, NoKey <- Nothing,
  Facets <- {"user", "assistant", "memory"}, Erasable <- {"user", "memory"},
  claim <- ConversationClaim, void <- lapsed, traces <- ConversationTraces

\* Deletion of social continuity, as docs/DATA_MODEL.md:71-87 promises it.
ContinuityClaim == [t \in Turns |-> IF t \in Admitted THEN msg[t].user ELSE Nothing]
ContinuityTraces == {<<e.turn, "event">> : e \in events}

Continuity == INSTANCE Erasure WITH
  Items <- Turns, Keys <- Users, NoKey <- Nothing,
  Facets <- {"event"}, Erasable <- {"event"},
  claim <- ContinuityClaim, void <- disowned, traces <- ContinuityTraces

\* Every behaviour of the handlers and commands is one the promise allows: no
\* turn admitted before an erasure (or a change of the storage preference)
\* leaves a conversation trace after it, and an erasure removes what it says.
ConversationErased == Conversation!ESpec

\* The same for social events, across profile resets and record deletions.
ContinuityErased == Continuity!ESpec
=============================================================================
