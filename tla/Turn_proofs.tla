----------------------------- MODULE Turn_proofs -----------------------------
(***************************************************************************)
(* Proofs about Turn, for every value of its constants.                    *)
(***************************************************************************)
EXTENDS Turn, FiniteSetTheorems, TLAPS

(* What the tables' helpers return.                                        *)

\* A ceiling only removes rows.
LEMMA TrimRowsSubset == ASSUME NEW S, NEW n PROVE TrimRows(S, n) \subseteq S
  BY DEF TrimRows, Newest

\* Nor does one on a part of the table add any.
LEMMA TrimGroupSubset ==
  ASSUME NEW S, NEW T, T \subseteq S, NEW n
  PROVE  TrimGroup(S, T, n) \subseteq S
  BY TrimRowsSubset DEF TrimGroup

\* Recording a message adds at most that row; the rest of the table shrinks.
LEMMA InsertMessageSubset ==
  ASSUME NEW rows, NEW row, NEW n \in Int
  PROVE  /\ InsertMessage([rows |-> rows, checks |-> n], row).rows
              \subseteq rows \cup {row}
         /\ InsertMessage([rows |-> rows, checks |-> n], row).checks \in Int
  <1> DEFINE all == rows \cup {row}
             scoped == TrimGroup(all, InScope(all, row.scope), MaxMessagesPerScope)
  <1>1. scoped \subseteq all
    BY TrimGroupSubset DEF InScope
  <1>2. TrimRows(scoped, TrimTarget) \subseteq all
    BY <1>1, TrimRowsSubset
  <1>3. CheckInterval \in Int
    BY MessageCeilings DEF CheckInterval, Share
  <1>4. QED
    BY <1>1, <1>2, <1>3 DEF InsertMessage

\* Recording an interaction adds at most that event and that user's row.
LEMMA EventsAfterSubset ==
  ASSUME NEW S, NEW R, NEW e
  PROVE  /\ EventsAfter(S, R, e) \subseteq S \cup {e}
         /\ R \subseteq RelationshipsAfter(R, e.user)
         /\ RelationshipsAfter(R, e.user) \subseteq R \cup {e.user}
  <1>1. TrimEvents(S \cup {e}, e.guild, e.user) \subseteq S \cup {e}
    <2>1. TrimGroup(S \cup {e}, PendingOf(S \cup {e}, e.guild, e.user), MaxPendingPerUser)
             \subseteq S \cup {e}
      BY TrimGroupSubset DEF PendingOf
    <2>2. QED
      BY <2>1, TrimRowsSubset DEF TrimEvents
  <1>2. QED
    BY <1>1 DEF EventsAfter, RelationshipsAfter

-----------------------------------------------------------------------------
(* Type correctness.                                                       *)

\* A turn that has been received has a user, a channel, a guild and an owner.
LEMMA MessageFacts ==
  ASSUME TypeOK, NEW t \in Turns, pc[t] # "new"
  PROVE  /\ msg[t] \in Messages
         /\ msg[t].user \in Users
         /\ msg[t].channel \in Channels
         /\ msg[t].memo \in Memos \cup {Nothing}
         /\ Guild(t) \in Places
         /\ Owner(t) \in Places \X Users
  BY TurnAssumption DEF TypeOK, Messages, Guild, Owner

\* What a turn records is a row of that turn.
LEMMA RecordMessageType ==
  ASSUME TypeOK, NEW t \in Turns, pc[t] # "new", NEW role \in {"user", "assistant"},
         RecordMessage(t, role)
  PROVE  /\ messages' \subseteq messages \cup {MessageRow(t, role)}
         /\ messages' \subseteq MessageRows
         /\ checks' \in Int
  <1>1. MessageRow(t, role) \in MessageRows
    BY MessageFacts DEF MessageRow, MessageRows, TypeOK
  <1>2. QED
    BY <1>1, InsertMessageSubset DEF RecordMessage, TypeOK

\* Storing a memory adds at most one row; when no source is given, that row
\* keeps the source of the memory it refreshes.
LEMMA AddMemoryType ==
  ASSUME TypeOK, NEW g \in Places, NEW u \in Users, NEW text \in Memos,
         NEW source \in Turns \cup {Nothing}, AddMemory(g, u, text, source)
  PROVE  /\ memories' \subseteq MemoryRows
         /\ \A m \in memories' \ memories :
              /\ m.guild = g /\ m.user = u
              /\ \/ m.source = source
                 \/ /\ source = Nothing
                    /\ \E o \in memories : o.source = m.source /\ o.guild = g /\ o.user = u
  <1> DEFINE old == SameMemo(g, u, text)
             row == [guild |-> g, user |-> u, text |-> text,
                     source |-> IF source = Nothing /\ old # {}
                                  THEN (CHOOSE m \in old : TRUE).source ELSE source]
             mine == {m \in memories \ old : m.guild = g /\ m.user = u}
  <1>1. /\ old \subseteq memories /\ memories \subseteq MemoryRows
        /\ \A m \in old : m.guild = g /\ m.user = u
    BY DEF SameMemo, TypeOK
  <1>2. /\ row \in MemoryRows /\ row.guild = g /\ row.user = u
        /\ \/ row.source = source
           \/ /\ source = Nothing
              /\ \E o \in memories : o.source = row.source /\ o.guild = g /\ o.user = u
    <2>1. CASE source = Nothing /\ old # {}
      <3>1. (CHOOSE m \in old : TRUE) \in old
        BY <2>1
      <3>2. QED
        BY <1>1, <2>1, <3>1 DEF MemoryRows
    <2>2. CASE ~(source = Nothing /\ old # {})
      BY <2>2 DEF MemoryRows
    <2>3. QED
      BY <2>1, <2>2
  <1>3. memories' \subseteq memories \cup {row}
    <2>1. CASE UNCHANGED memories
      BY <2>1
    <2>2. CASE \E kept \in SUBSET mine :
                 memories' = ((memories \ old) \ mine) \cup kept \cup {row}
      BY <2>2
    <2>3. QED
      BY <2>1, <2>2 DEF AddMemory
  <1>4. QED
    BY <1>1, <1>2, <1>3

\* The history variables only take in turns that were admitted.
LEMMA AdmittedAreTurns ==
  ASSUME NEW k, NEW u
  PROVE  AdmittedIn(k) \subseteq Turns /\ AdmittedOf(u) \subseteq Turns
  BY DEF AdmittedIn, AdmittedOf, Admitted, InFlight, Waiting, Generating

\* Before the first message there is nothing to type.
LEMMA InitType == Init => TypeOK
  <1> SUFFICES ASSUME Init PROVE TypeOK
    OBVIOUS
  <1>1. Admitted = {}
    BY DEF Init, Admitted, InFlight, Waiting, Generating
  <1>2. QED
    BY <1>1 DEF Init, TypeOK, ChecksAtOpen

\* A handler's step keeps the types.
LEMMA HandleType == ASSUME TypeOK, NEW t \in Turns, Handle(t) PROVE TypeOK'
  <1> USE DEF Goto
  <1>1. CASE Receive(t)
    <2>1. PICK m \in Messages : msg' = [msg EXCEPT ![t] = m]
      BY <1>1 DEF Receive
    <2>2. QED
      BY <1>1, <2>1 DEF Receive, TypeOK, Admitted, InFlight, Waiting, Generating,
                        records, social, settings
  <1>2. CASE Decline(t)
    BY <1>2 DEF Decline, TypeOK, Admitted, InFlight, Waiting, Generating,
                records, social, settings
  <1>3. ASSUME TakeSnapshot(t), pc[t] = "resolving" PROVE snap'[t] \in Snapshots
    <2>1. Owner(t) \in Places \X Users /\ msg[t].user \in Users
      BY <1>3, MessageFacts
    <2>2. QED
      BY <1>3, <2>1 DEF TakeSnapshot, Snapshots, TypeOK
  <1>4. ASSUME TakeSnapshot(t) PROVE snap' = [snap EXCEPT ![t] = snap'[t]]
    BY <1>4 DEF TakeSnapshot, TypeOK
  <1>5. CASE Track(t)
    <2>1. messages' \subseteq MessageRows /\ checks' \in Int
      BY <1>5, RecordMessageType DEF Track
    <2>2. snap' = [snap EXCEPT ![t] = snap'[t]] /\ snap'[t] \in Snapshots
      BY <1>3, <1>4, <1>5 DEF Track
    <2>3. QED
      BY <1>5, <2>1, <2>2 DEF Track, TypeOK, Admitted, InFlight, Waiting, Generating,
                              social, settings
  <1>6. CASE Admit(t)
    <2>1. snap' = [snap EXCEPT ![t] = snap'[t]] /\ snap'[t] \in Snapshots
      BY <1>3, <1>4, <1>6 DEF Admit
    <2>2. QED
      BY <1>6, <2>1 DEF Admit, TypeOK, Admitted, InFlight, Waiting, Generating,
                        records, social, settings
  <1>7. CASE AcquireLock(t)
    BY <1>7 DEF AcquireLock, TypeOK, Admitted, InFlight, Waiting, Generating,
                records, social, settings
  <1>8. CASE LockTimeout(t)
    BY <1>8 DEF LockTimeout, TypeOK, Admitted, InFlight, Waiting, Generating,
                records, social, settings
  <1>9. CASE StartGeneration(t)
    <2>1. messages' \subseteq MessageRows /\ checks' \in Int /\ nextId' \in Nat
      BY <1>9, RecordMessageType DEF StartGeneration, records, TypeOK
    <2>2. memories' \subseteq MemoryRows
      <3>1. CASE UNCHANGED memories
        BY <3>1 DEF TypeOK
      <3>2. CASE /\ msg[t].memo # Nothing
                 /\ AddMemory(Guild(t), msg[t].user, msg[t].memo, t)
        BY <1>9, <3>2, MessageFacts, AddMemoryType DEF StartGeneration
      <3>3. QED
        BY <1>9, <3>1, <3>2 DEF StartGeneration, records
    <2>3. persist' \in [Turns -> BOOLEAN]
      BY <1>9 DEF StartGeneration, MayPersist, TypeOK
    <2>4. QED
      BY <1>9, <2>1, <2>2, <2>3 DEF StartGeneration, TypeOK, Admitted, InFlight,
                                    Waiting, Generating, social, settings
  <1>10. ASSUME Release(t) PROVE slots' \subseteq Turns /\ lock' \in [Channels -> Turns \cup {Nothing}]
    BY <1>10 DEF Release, TypeOK
  <1>11. CASE Abort(t)
    BY <1>10, <1>11 DEF Abort, TypeOK, Admitted, InFlight, Waiting, Generating,
                        records, social, settings
  <1>12. CASE Deliver(t)
    <2>1. messages' \subseteq MessageRows /\ checks' \in Int /\ UNCHANGED memories /\ nextId' \in Nat
      BY <1>12, RecordMessageType DEF Deliver, records, TypeOK
    <2>2. events' \subseteq EventRows /\ relationships' \subseteq Users
      <3>1. CASE UNCHANGED social
        BY <3>1 DEF social, TypeOK
      <3>2. CASE RecordInteraction(t)
        <4> DEFINE e == [id |-> nextId, guild |-> Guild(t), user |-> msg[t].user, turn |-> t]
        <4>1. e \in EventRows /\ e.user \in Users
          BY <1>12, MessageFacts DEF Deliver, EventRows, TypeOK
        <4>2. events' = EventsAfter(events, relationships, e)
              /\ relationships' = RelationshipsAfter(relationships, e.user)
          BY <3>2 DEF RecordInteraction
        <4> HIDE DEF e
        <4>3. QED
          BY <4>1, <4>2, EventsAfterSubset DEF TypeOK
      <3>3. QED
        BY <1>12, <3>1, <3>2 DEF Deliver
    <2>3. QED
      BY <1>10, <1>12, <2>1, <2>2 DEF Deliver, TypeOK, Admitted, InFlight, Waiting,
                                      Generating, settings
  <1>13. QED
    BY <1>1, <1>2, <1>5, <1>6, <1>7, <1>8, <1>9, <1>11, <1>12 DEF Handle

\* So does a command.
LEMMA CommandsType == ASSUME TypeOK, Commands PROVE TypeOK'
  \* No command moves a handler, so all that is left is the tables it writes.
  <1> DEFINE Tables ==
        /\ messages \subseteq MessageRows
        /\ checks \in Int
        /\ nextId \in Nat
        /\ memories \subseteq MemoryRows
        /\ privacy \in [Places \X Users -> [optedOut : BOOLEAN, revision : Nat]]
        /\ profileRevision \in [Users -> Nat]
        /\ events \subseteq EventRows
        /\ relationships \subseteq Users
        /\ lapsed \subseteq Turns
        /\ disowned \subseteq Turns
  <1>1. Tables
    BY DEF TypeOK
  <1>2. ASSUME Command, Tables' PROVE TypeOK'
    BY <1>2 DEF Command, flow, TypeOK, Admitted, InFlight, Waiting, Generating
  <1>3. ASSUME NEW g \in Places, NEW u \in Users, Forget(g, u) PROVE TypeOK'
    <2>1. privacy' \in [Places \X Users -> [optedOut : BOOLEAN, revision : Nat]]
      BY <1>1, <1>3 DEF Forget
    <2>2. Tables'
      BY <1>1, <1>3, <2>1, AdmittedAreTurns DEF Forget, social
    <2>3. QED
      BY <1>2, <1>3, <2>2 DEF Forget
  <1>4. ASSUME NEW g \in Places, NEW u \in Users, NEW enabled \in BOOLEAN,
               SetStorage(g, u, enabled)
        PROVE TypeOK'
    <2>1. privacy' \in [Places \X Users -> [optedOut : BOOLEAN, revision : Nat]]
      BY <1>1, <1>4 DEF SetStorage
    <2>2. Tables'
      BY <1>1, <1>4, <2>1, AdmittedAreTurns DEF SetStorage, social, records
    <2>3. QED
      BY <1>2, <1>4, <2>2 DEF SetStorage
  <1>5. ASSUME NEW g \in Places, NEW u \in Users, NEW text \in Memos, Remember(g, u, text)
        PROVE TypeOK'
    <2>1. memories' \subseteq MemoryRows
      BY <1>5, AddMemoryType DEF Remember
    <2>2. Tables'
      BY <1>1, <1>5, <2>1 DEF Remember, social
    <2>3. QED
      BY <1>2, <1>5, <2>2 DEF Remember
  <1>6. ASSUME NEW m \in memories, DeleteMemory(m) PROVE TypeOK'
    <2>1. Tables'
      BY <1>1, <1>6 DEF DeleteMemory, social
    <2>2. QED
      BY <1>2, <1>6, <2>1 DEF DeleteMemory
  <1>7. ASSUME NEW u \in Users, ResetProfile(u) PROVE TypeOK'
    <2>1. Tables'
      BY <1>1, <1>7, AdmittedAreTurns DEF ResetProfile, BumpProfile, records
    <2>2. QED
      BY <1>2, <1>7, <2>1 DEF ResetProfile
  <1>8. ASSUME NEW u \in Users, DeleteRecord(u) PROVE TypeOK'
    <2>1. Tables'
      BY <1>1, <1>8, AdmittedAreTurns DEF DeleteRecord, BumpProfile, records, social
    <2>2. QED
      BY <1>2, <1>8, <2>1 DEF DeleteRecord
  <1>9. QED
    BY <1>3, <1>4, <1>5, <1>6, <1>7, <1>8 DEF Commands

\* Every variable keeps its type in every behaviour.
THEOREM TypeCorrect == Spec => []TypeOK
  <1>1. TypeOK /\ [Next]_vars => TypeOK'
    <2> SUFFICES ASSUME TypeOK, [Next]_vars PROVE TypeOK'
      OBVIOUS
    <2>1. CASE UNCHANGED vars
      BY <2>1 DEF vars, flow, records, social, settings, TypeOK, Admitted, InFlight,
                  Waiting, Generating
    <2>2. QED
      BY <2>1, HandleType, CommandsType DEF Next
  <1>2. QED
    BY InitType, <1>1, PTL DEF Spec

-----------------------------------------------------------------------------
(* Slots and locks.                                                        *)

\* ResourcesMatch, with the finiteness that counting the slots needs.
HeldInv == ResourcesMatch /\ IsFiniteSet(slots)

\* A handler that leaves gives back its slot, and the lock it may hold.
LEMMA ReleaseHeld ==
  ASSUME TypeOK, HeldInv, NEW t \in Turns, t \in InFlight, Release(t), Goto(t, "done"),
         UNCHANGED msg
  PROVE  HeldInv'
  <1>1. slots' = InFlight'
    BY DEF HeldInv, ResourcesMatch, Release, Goto, InFlight, Waiting, Generating, TypeOK
  <1>2. IsFiniteSet(slots') /\ Cardinality(slots') <= MaxPendingRequests
    <2>1. /\ IsFiniteSet(slots \ {t})
          /\ Cardinality(slots \ {t}) = Cardinality(slots) - 1
          /\ Cardinality(slots) \in Nat
      BY FS_RemoveElement, FS_CardinalityType DEF HeldInv, ResourcesMatch
    <2>2. QED
      BY <2>1, TurnAssumption DEF HeldInv, ResourcesMatch, Release
  <1>3. ASSUME NEW c \in Channels, NEW o \in Turns
        PROVE  lock'[c] = o <=> (o \in Generating' /\ msg'[o].channel = c)
    BY <1>3, TurnAssumption DEF HeldInv, ResourcesMatch, Release, Goto, Generating, TypeOK
  <1>4. QED
    BY <1>1, <1>2, <1>3 DEF HeldInv, ResourcesMatch

\* A handler's step moves one handler, and takes or gives back what its new place says.
LEMMA HandleHeld == ASSUME TypeOK, HeldInv, NEW t \in Turns, Handle(t) PROVE HeldInv'
  <1> USE DEF Goto
  <1>1. ASSUME UNCHANGED <<slots, lock>>, InFlight' = InFlight, Generating' = Generating,
               \A o \in Generating : msg'[o] = msg[o]
        PROVE  HeldInv'
    BY <1>1 DEF HeldInv, ResourcesMatch
  <1>2. CASE Receive(t)
    BY <1>1, <1>2 DEF Receive, InFlight, Waiting, Generating, TypeOK
  <1>3. CASE Decline(t)
    BY <1>1, <1>3 DEF Decline, InFlight, Waiting, Generating, TypeOK
  <1>4. CASE Track(t)
    BY <1>1, <1>4 DEF Track, InFlight, Waiting, Generating, TypeOK
  <1>5. CASE Admit(t)
    <2>1. slots' = InFlight' /\ Generating' = Generating /\ t \notin slots
      BY <1>5 DEF Admit, HeldInv, ResourcesMatch, InFlight, Waiting, Generating, TypeOK
    <2>2. IsFiniteSet(slots') /\ Cardinality(slots') <= MaxPendingRequests
      <3>1. /\ IsFiniteSet(slots \cup {t})
            /\ Cardinality(slots \cup {t}) = Cardinality(slots) + 1
            /\ Cardinality(slots) \in Nat
        BY <2>1, FS_AddElement, FS_CardinalityType DEF HeldInv
      <3>2. QED
        BY <1>5, <3>1, TurnAssumption DEF Admit
    <2>3. QED
      BY <1>5, <2>1, <2>2 DEF Admit, HeldInv, ResourcesMatch
  <1>6. CASE AcquireLock(t)
    <2>1. InFlight' = InFlight /\ Generating' = Generating \cup {t} /\ t \notin Generating
      BY <1>6 DEF AcquireLock, InFlight, Waiting, Generating, TypeOK
    <2>2. ASSUME NEW c \in Channels, NEW o \in Turns
          PROVE  lock'[c] = o <=> (o \in Generating' /\ msg'[o].channel = c)
      BY <1>6, <2>1, <2>2, MessageFacts, TurnAssumption
         DEF AcquireLock, HeldInv, ResourcesMatch, TypeOK
    <2>3. QED
      BY <1>6, <2>1, <2>2 DEF AcquireLock, HeldInv, ResourcesMatch
  <1>7. CASE LockTimeout(t)
    <2>1. Generating' = Generating /\ slots' = InFlight' /\ t \in slots
      BY <1>7 DEF LockTimeout, HeldInv, ResourcesMatch, InFlight, Waiting, Generating, TypeOK
    <2>2. IsFiniteSet(slots') /\ Cardinality(slots') <= MaxPendingRequests
      <3>1. /\ IsFiniteSet(slots \ {t})
            /\ Cardinality(slots \ {t}) = Cardinality(slots) - 1
            /\ Cardinality(slots) \in Nat
        BY <2>1, FS_RemoveElement, FS_CardinalityType DEF HeldInv
      <3>2. QED
        BY <1>7, <3>1, TurnAssumption DEF LockTimeout, HeldInv, ResourcesMatch
    <2>3. QED
      BY <1>7, <2>1, <2>2 DEF LockTimeout, HeldInv, ResourcesMatch
  <1>8. CASE StartGeneration(t)
    BY <1>1, <1>8 DEF StartGeneration, InFlight, Waiting, Generating, TypeOK
  <1>9. CASE Abort(t)
    BY <1>9, ReleaseHeld DEF Abort
  <1>10. CASE Deliver(t)
    BY <1>10, ReleaseHeld DEF Deliver, InFlight, Generating
  <1>11. QED
    BY <1>2, <1>3, <1>4, <1>5, <1>6, <1>7, <1>8, <1>9, <1>10 DEF Handle

\* Slots and locks match the handlers all the time, and the slots can be counted.
LEMMA HeldAlways == Spec => []HeldInv
  <1>1. Init => HeldInv
    <2> SUFFICES ASSUME Init PROVE HeldInv
      OBVIOUS
    <2>1. InFlight = {} /\ Generating = {}
      BY DEF Init, InFlight, Waiting, Generating
    <2>2. IsFiniteSet({}) /\ Cardinality({}) = 0
      BY FS_EmptySet
    <2>3. QED
      BY <2>1, <2>2, TurnAssumption DEF Init, HeldInv, ResourcesMatch
  <1>2. TypeOK /\ HeldInv /\ [Next]_vars => HeldInv'
    <2> SUFFICES ASSUME TypeOK, HeldInv, [Next]_vars PROVE HeldInv'
      OBVIOUS
    <2>1. CASE UNCHANGED flow
      BY <2>1 DEF flow, HeldInv, ResourcesMatch, InFlight, Waiting, Generating
    <2>2. Commands => UNCHANGED flow
      BY DEF Commands, Command, Forget, SetStorage, Remember, DeleteMemory,
             ResetProfile, DeleteRecord
    <2>3. QED
      BY <2>1, <2>2, HandleHeld DEF Next, vars
  <1>3. QED
    BY <1>1, <1>2, TypeCorrect, PTL DEF Spec

\* Slots and locks are held by the handlers in flight and by no other, for any
\* number of messages, channels and slots (finally clauses of app.py:621-622
\* and 832-833).
THEOREM SlotsAndLocksMatch == Spec => []ResourcesMatch
  <1>1. HeldInv => ResourcesMatch
    BY DEF HeldInv
  <1>2. QED
    BY <1>1, HeldAlways, PTL

-----------------------------------------------------------------------------
(* Revisions.                                                              *)

\* No step of a handler makes an overtaken turn current again: a snapshot is taken anew
\* at admission only, and a turn is admitted once.
LEMMA HandleRevisions ==
  ASSUME TypeOK, RevisionsTell, NEW t \in Turns, Handle(t),
         lapsed \subseteq Admitted, disowned \subseteq Admitted
  PROVE  /\ RevisionsTell'
         /\ lapsed' \subseteq Admitted' /\ disowned' \subseteq Admitted'
  <1>1. UNCHANGED settings
    BY DEF Handle, Receive, Decline, Track, Admit, AcquireLock, LockTimeout,
           StartGeneration, Abort, Deliver
  <1>2. CASE Receive(t)
    <2>1. Admitted' = Admitted /\ t \notin Admitted
      BY <1>2 DEF Receive, Goto, Admitted, InFlight, Waiting, Generating, TypeOK
    <2>2. \A o \in Admitted : msg'[o] = msg[o] /\ snap'[o] = snap[o]
      BY <1>2, <2>1 DEF Receive, TypeOK
    <2>3. QED
      BY <1>1, <2>1, <2>2 DEF settings, RevisionsTell, Owner, Guild
  <1>3. CASE Decline(t)
    <2>1. Admitted' = Admitted /\ UNCHANGED <<msg, snap>>
      BY <1>3 DEF Decline, Goto, Admitted, InFlight, Waiting, Generating, TypeOK
    <2>2. QED
      BY <1>1, <2>1 DEF settings, RevisionsTell, Owner, Guild
  <1>4. CASE Track(t) \/ Admit(t)
    <2>1. /\ Admitted' = Admitted \cup {t} /\ t \notin Admitted
          /\ UNCHANGED msg /\ TakeSnapshot(t) /\ pc[t] = "resolving"
      BY <1>4 DEF Track, Admit, Goto, Admitted, InFlight, Waiting, Generating, TypeOK
    <2>2. /\ \A o \in Admitted : snap'[o] = snap[o]
          /\ snap'[t].privacyRevision = privacy[Owner(t)].revision
          /\ snap'[t].profileRevision = profileRevision[msg[t].user]
      BY <2>1 DEF TakeSnapshot, TypeOK
    <2>3. privacy[Owner(t)].revision \in Nat /\ profileRevision[msg[t].user] \in Nat
      BY <2>1, MessageFacts DEF TypeOK
    <2>4. QED
      BY <1>1, <2>1, <2>2, <2>3 DEF settings, RevisionsTell, Owner, Guild
  <1>5. CASE AcquireLock(t) \/ LockTimeout(t) \/ StartGeneration(t) \/ Abort(t) \/ Deliver(t)
    <2>1. Admitted' = Admitted /\ UNCHANGED <<msg, snap>>
      BY <1>5 DEF AcquireLock, LockTimeout, StartGeneration, Abort, Deliver, Goto,
                  Admitted, InFlight, Waiting, Generating, TypeOK
    <2>2. QED
      BY <1>1, <2>1 DEF settings, RevisionsTell, Owner, Guild
  <1>6. QED
    BY <1>2, <1>3, <1>4, <1>5 DEF Handle

\* A command that revokes brings the revision past every snapshot of the turns
\* it marks; the other commands leave revisions and history alone.
LEMMA CommandsRevisions ==
  ASSUME TypeOK, RevisionsTell, Commands,
         lapsed \subseteq Admitted, disowned \subseteq Admitted
  PROVE  /\ RevisionsTell'
         /\ lapsed' \subseteq Admitted' /\ disowned' \subseteq Admitted'
  <1>1. /\ Admitted' = Admitted /\ UNCHANGED <<pc, msg, snap>>
        /\ \A o \in Turns : Owner(o)' = Owner(o) /\ Guild(o)' = Guild(o)
    BY DEF Commands, Command, Forget, SetStorage, Remember, DeleteMemory, ResetProfile,
           DeleteRecord, flow, Admitted, InFlight, Waiting, Generating, Owner, Guild
  <1>2. \A o \in Admitted : /\ o \in Turns /\ snap[o] \in Snapshots
                            /\ Owner(o) \in Places \X Users /\ msg[o].user \in Users
    BY MessageFacts DEF TypeOK, Admitted, InFlight, Waiting, Generating
  <1>3. ASSUME NEW k \in Places \X Users, lapsed' = lapsed \cup AdmittedIn(k),
               privacy'[k].revision = privacy[k].revision + 1,
               \A j \in (Places \X Users) \ {k} : privacy'[j] = privacy[j],
               UNCHANGED <<profileRevision, disowned>>
        PROVE  RevisionsTell' /\ lapsed' \subseteq Admitted' /\ disowned' \subseteq Admitted'
    <2>1. ASSUME NEW o \in Admitted
          PROVE  /\ snap[o].privacyRevision <= privacy'[Owner(o)].revision
                 /\ o \in lapsed' => snap[o].privacyRevision # privacy'[Owner(o)].revision
      <3>1. /\ snap[o].privacyRevision \in Nat /\ privacy[Owner(o)].revision \in Nat
            /\ snap[o].privacyRevision <= privacy[Owner(o)].revision
        BY <1>2, <2>1 DEF RevisionsTell, Snapshots, TypeOK
      <3>2. CASE Owner(o) = k
        BY <1>3, <3>1, <3>2
      <3>3. CASE Owner(o) # k
        BY <1>2, <1>3, <2>1, <3>1, <3>3 DEF RevisionsTell, AdmittedIn
      <3>4. QED
        BY <3>2, <3>3
    <2>2. QED
      BY <1>1, <1>3, <2>1, <1>2 DEF RevisionsTell, AdmittedIn
  <1>4. ASSUME NEW u \in Users, BumpProfile(u), UNCHANGED <<privacy, lapsed>>
        PROVE  RevisionsTell' /\ lapsed' \subseteq Admitted' /\ disowned' \subseteq Admitted'
    <2>1. ASSUME NEW o \in Admitted
          PROVE  /\ snap[o].profileRevision <= profileRevision'[msg[o].user]
                 /\ o \in disowned' => snap[o].profileRevision # profileRevision'[msg[o].user]
      <3>1. /\ snap[o].profileRevision \in Nat /\ profileRevision[msg[o].user] \in Nat
            /\ snap[o].profileRevision <= profileRevision[msg[o].user]
        BY <1>2, <2>1 DEF RevisionsTell, Snapshots, TypeOK
      <3>2. CASE msg[o].user = u
        BY <1>4, <3>1, <3>2 DEF BumpProfile, TypeOK
      <3>3. CASE msg[o].user # u
        BY <1>2, <1>4, <2>1, <3>1, <3>3 DEF RevisionsTell, BumpProfile, AdmittedOf, TypeOK
      <3>4. QED
        BY <3>2, <3>3
    <2>2. QED
      BY <1>1, <1>2, <1>4, <2>1 DEF RevisionsTell, BumpProfile, AdmittedOf
  <1>5. CASE UNCHANGED <<privacy, profileRevision, lapsed, disowned>>
    BY <1>1, <1>2, <1>5 DEF RevisionsTell
  <1>6. CASE \E g \in Places, u \in Users :
               Forget(g, u) \/ \E enabled \in BOOLEAN : SetStorage(g, u, enabled)
    <2>1. PICK g \in Places, u \in Users :
               Forget(g, u) \/ \E enabled \in BOOLEAN : SetStorage(g, u, enabled)
      BY <1>6
    <2>2. /\ lapsed' = lapsed \cup AdmittedIn(<<g, u>>)
          /\ privacy'[<<g, u>>].revision = privacy[<<g, u>>].revision + 1
          /\ \A j \in (Places \X Users) \ {<<g, u>>} : privacy'[j] = privacy[j]
          /\ UNCHANGED <<profileRevision, disowned>>
      <3>1. privacy[<<g, u>>].revision \in Nat
        BY DEF TypeOK
      <3>2. CASE Forget(g, u)
        BY <3>1, <3>2 DEF Forget, TypeOK
      <3>3. CASE \E enabled \in BOOLEAN : SetStorage(g, u, enabled)
        BY <3>1, <3>3 DEF SetStorage, TypeOK
      <3>4. QED
        BY <2>1, <3>2, <3>3
    <2>3. QED
      BY <1>3, <2>2
  <1>7. CASE \E u \in Users : ResetProfile(u) \/ DeleteRecord(u)
    BY <1>4, <1>7 DEF ResetProfile, DeleteRecord
  <1>8. QED
    BY <1>5, <1>6, <1>7 DEF Commands, Remember, DeleteMemory

\* Every turn that an erasure or a change of preference overtook can tell so
\* from its snapshot, however many of them happened (app.py:551-553, 682-699).
RevisionInv == /\ RevisionsTell
               /\ lapsed \subseteq Admitted
               /\ disowned \subseteq Admitted

\* The invariant is inductive, given the types.
LEMMA RevisionInvAlways == Spec => []RevisionInv
  <1>1. Init => RevisionInv
    <2> SUFFICES ASSUME Init PROVE RevisionInv
      OBVIOUS
    <2>1. Admitted = {}
      BY DEF Init, Admitted, InFlight, Waiting, Generating
    <2>2. QED
      BY <2>1 DEF Init, RevisionInv, RevisionsTell
  <1>2. TypeOK /\ RevisionInv /\ [Next]_vars => RevisionInv'
    <2> SUFFICES ASSUME TypeOK, RevisionInv, [Next]_vars PROVE RevisionInv'
      OBVIOUS
    <2>1. CASE UNCHANGED vars
      BY <2>1 DEF vars, flow, settings, RevisionInv, RevisionsTell, Admitted, InFlight,
                  Waiting, Generating, Owner, Guild
    <2>2. QED
      BY <2>1, HandleRevisions, CommandsRevisions DEF Next, RevisionInv
  <1>3. QED
    BY <1>1, <1>2, TypeCorrect, PTL DEF Spec

\* A turn that a command has overtaken sees a revision other than the one it read at
\* admission, whatever came between (app.py:551-553, 682-699).
THEOREM RevisionsAlwaysTell == Spec => []RevisionsTell
  BY RevisionInvAlways, PTL DEF RevisionInv

-----------------------------------------------------------------------------
(* The refinements.                                                        *)

\* What a turn left is filed under the turn's own user and guild, so that an
\* erasure by user and guild finds all of it.
TracesOwned ==
  /\ \A r \in messages : r.turn \in Admitted
  /\ \A m \in memories : m.source # Nothing =>
        m.source \in Admitted /\ Owner(m.source) = <<m.guild, m.user>>
  /\ \A e \in events : e.turn \in Admitted /\ msg[e.turn].user = e.user

\* The turns admitted so far keep their message.
LEMMA HandleAdmitted ==
  ASSUME TypeOK, NEW t \in Turns, Handle(t)
  PROVE  /\ Admitted' = IF Track(t) \/ Admit(t) THEN Admitted \cup {t} ELSE Admitted
         /\ Track(t) \/ Admit(t) => t \notin Admitted /\ UNCHANGED msg
         /\ \A o \in Admitted : /\ msg'[o] = msg[o]
                                /\ Owner(o)' = Owner(o)
  <1>1. CASE Track(t) \/ Admit(t)
    BY <1>1 DEF Track, Admit, Goto, Admitted, InFlight, Waiting, Generating, TypeOK,
                Owner, Guild
  <1>2. CASE Receive(t)
    <2>1. Admitted' = Admitted /\ t \notin Admitted /\ ~Track(t) /\ ~Admit(t)
      BY <1>2 DEF Receive, Track, Admit, Goto, Admitted, InFlight, Waiting, Generating, TypeOK
    <2>2. \A o \in Admitted : msg'[o] = msg[o]
      BY <1>2, <2>1 DEF Receive, TypeOK
    <2>3. QED
      BY <2>1, <2>2 DEF Owner, Guild
  <1>3. CASE Decline(t) \/ AcquireLock(t) \/ LockTimeout(t) \/ StartGeneration(t)
             \/ Abort(t) \/ Deliver(t)
    BY <1>3 DEF Decline, AcquireLock, LockTimeout, StartGeneration, Abort, Deliver, Track,
                Admit, Goto, Admitted, InFlight, Waiting, Generating, TypeOK, Owner, Guild
  <1>4. QED
    BY <1>1, <1>2, <1>3 DEF Handle

\* What a step of a handler adds to the tables is its own.
LEMMA HandleTables ==
  ASSUME TypeOK, NEW t \in Turns, Handle(t)
  PROVE  /\ \A r \in messages' \ messages : r.turn = t /\ r.role \in {"user", "assistant"}
         /\ \A m \in memories' \ memories :
              m.source = t /\ <<m.guild, m.user>> = Owner(t)
         /\ \A e \in events' \ events : e.turn = t /\ e.user = msg[t].user
         /\ \/ UNCHANGED <<messages, memories>>
            \/ Track(t)
            \/ MayPersist(t) /\ t \in Admitted
         /\ UNCHANGED events \/ (ProfileEpochCurrent(t) /\ t \in Admitted)
  <1>1. CASE Receive(t) \/ Decline(t) \/ Admit(t) \/ AcquireLock(t) \/ LockTimeout(t) \/ Abort(t)
    BY <1>1 DEF Receive, Decline, Admit, AcquireLock, LockTimeout, Abort, records, social
  <1>2. ASSUME NEW role \in {"user", "assistant"}, RecordMessage(t, role), pc[t] # "new"
        PROVE  \A r \in messages' \ messages : r.turn = t /\ r.role = role
    BY <1>2, RecordMessageType DEF MessageRow
  <1>3. CASE Track(t)
    BY <1>2, <1>3 DEF Track, social
  <1>4. CASE StartGeneration(t)
    <2>1. UNCHANGED events /\ t \in Admitted
      BY <1>4 DEF StartGeneration, social, Admitted, InFlight, Generating
    <2>2. CASE MayPersist(t)
      <3>1. \A m \in memories' \ memories : m.source = t /\ <<m.guild, m.user>> = Owner(t)
        <4>1. CASE UNCHANGED memories
          BY <4>1
        <4>2. CASE msg[t].memo # Nothing /\ AddMemory(Guild(t), msg[t].user, msg[t].memo, t)
          <5>1. /\ Guild(t) \in Places /\ msg[t].user \in Users /\ msg[t].memo \in Memos
                /\ t # Nothing
            BY <1>4, <4>2, MessageFacts, TurnAssumption DEF StartGeneration
          <5>2. QED
            BY <4>2, <5>1, AddMemoryType DEF Owner
        <4>3. QED
          BY <1>4, <2>2, <4>1, <4>2 DEF StartGeneration
      <3>2. QED
        BY <1>2, <1>4, <2>1, <2>2, <3>1 DEF StartGeneration
    <2>3. CASE ~MayPersist(t)
      BY <1>4, <2>1, <2>3 DEF StartGeneration, records
    <2>4. QED
      BY <2>2, <2>3
  <1>5. CASE Deliver(t)
    <2>1. t \in Admitted
      BY <1>5 DEF Deliver, Admitted, InFlight, Generating
    <2>2. /\ UNCHANGED memories
          /\ \/ UNCHANGED messages
             \/ MayPersist(t) /\ RecordMessage(t, "assistant")
      BY <1>5 DEF Deliver, records
    <2>3. \/ UNCHANGED events
          \/ ProfileEpochCurrent(t) /\ RecordInteraction(t)
      BY <1>5 DEF Deliver, social
    <2>4. ASSUME RecordInteraction(t)
          PROVE  \A e \in events' \ events : e.turn = t /\ e.user = msg[t].user
      <3> DEFINE e == [id |-> nextId, guild |-> Guild(t), user |-> msg[t].user, turn |-> t]
      <3>1. events' \subseteq events \cup {e}
        BY <2>4, EventsAfterSubset DEF RecordInteraction
      <3>2. QED
        BY <3>1
    <2>5. QED
      BY <1>2, <1>5, <2>1, <2>2, <2>3, <2>4 DEF Deliver
  <1>6. QED
    BY <1>1, <1>3, <1>4, <1>5 DEF Handle

\* A command adds no trace; a memory it stores is nobody's, or refreshes one.
LEMMA CommandsTables ==
  ASSUME TypeOK, Commands
  PROVE  /\ Admitted' = Admitted /\ UNCHANGED msg
         /\ \A o \in Turns : Owner(o)' = Owner(o)
         /\ messages' \subseteq messages /\ events' \subseteq events
         /\ \A m \in memories' \ memories :
              m.source = Nothing \/ \E o \in memories :
                 o.source = m.source /\ o.guild = m.guild /\ o.user = m.user
  <1>1. /\ Admitted' = Admitted /\ UNCHANGED msg
        /\ \A o \in Turns : Owner(o)' = Owner(o)
    BY DEF Commands, Command, Forget, SetStorage, Remember, DeleteMemory, ResetProfile,
           DeleteRecord, flow, Admitted, InFlight, Waiting, Generating, Owner, Guild
  <1>2. messages' \subseteq messages /\ events' \subseteq events
    BY DEF Commands, Forget, SetStorage, Remember, DeleteMemory, ResetProfile,
           DeleteRecord, records, social
  <1>3. CASE \E g \in Places, u \in Users, text \in Memos : Remember(g, u, text)
    <2>1. PICK g \in Places, u \in Users, text \in Memos : Remember(g, u, text)
      BY <1>3
    <2>2. AddMemory(g, u, text, Nothing)
      BY <2>1 DEF Remember
    <2>3. QED
      BY <1>1, <1>2, <2>2, AddMemoryType
  <1>4. CASE memories' \subseteq memories
    BY <1>1, <1>2, <1>4
  <1>5. QED
    BY <1>3, <1>4 DEF Commands, Forget, SetStorage, DeleteMemory, ResetProfile,
                      DeleteRecord, records

\* Every trace is filed where an erasure looks for it, at every time.
LEMMA TracesOwnedAlways == Spec => []TracesOwned
  <1>1. Init => TracesOwned
    BY DEF Init, TracesOwned
  <1>2. TypeOK /\ TracesOwned /\ [Next]_vars => TracesOwned'
    <2> SUFFICES ASSUME TypeOK, TracesOwned, [Next]_vars PROVE TracesOwned'
      OBVIOUS
    <2>1. CASE UNCHANGED vars
      BY <2>1 DEF vars, flow, records, social, TracesOwned, Admitted, InFlight, Waiting,
                  Generating, Owner, Guild
    <2>2. ASSUME NEW t \in Turns, Handle(t) PROVE TracesOwned'
      <3>1. /\ Admitted \subseteq Admitted'
            /\ \A o \in Admitted : msg'[o] = msg[o] /\ Owner(o)' = Owner(o)
            /\ Track(t) => t \in Admitted' /\ UNCHANGED msg /\ Owner(t)' = Owner(t)
        BY <2>2, HandleAdmitted DEF Owner, Guild
      <3>2. /\ \A r \in messages' : r \in messages \/ r.turn = t
            /\ \A m \in memories' :
                 m \in memories \/ (m.source = t /\ <<m.guild, m.user>> = Owner(t))
            /\ \A e \in events' : e \in events \/ (e.turn = t /\ e.user = msg[t].user)
            /\ UNCHANGED <<messages, memories>> \/ Track(t) \/ t \in Admitted
            /\ UNCHANGED events \/ t \in Admitted
        <4>1. /\ \A r \in messages' \ messages : r.turn = t
              /\ \A m \in memories' \ memories :
                   m.source = t /\ <<m.guild, m.user>> = Owner(t)
              /\ \A e \in events' \ events : e.turn = t /\ e.user = msg[t].user
          BY <2>2, HandleTables
        <4>2. /\ UNCHANGED <<messages, memories>> \/ Track(t) \/ t \in Admitted
              /\ UNCHANGED events \/ t \in Admitted
          BY <2>2, HandleTables
        <4>3. QED
          BY <4>1, <4>2
      <3>3. QED
        BY <3>1, <3>2 DEF TracesOwned
    <2>3. ASSUME Commands PROVE TracesOwned'
      <3>1. \A o \in Admitted : o \in Turns
        BY DEF Admitted, InFlight, Waiting, Generating
      <3>2. QED
        BY <2>3, <3>1, CommandsTables DEF TracesOwned
    <2>4. QED
      BY <2>1, <2>2, <2>3 DEF Next
  <1>3. QED
    BY <1>1, <1>2, TypeCorrect, PTL DEF Spec

\* The turn handlers and the slash commands implement the promise of erasure
\* for conversation memory, whatever the numbers of turns, users and channels.
THEOREM ConversationIsErased == Spec => ConversationErased
  <1>1. Init => Conversation!EInit
    <2> SUFFICES ASSUME Init PROVE Conversation!EInit
      OBVIOUS
    <2>1. Admitted = {} /\ messages = {} /\ memories = {} /\ lapsed = {}
      BY DEF Init, Admitted, InFlight, Waiting, Generating
    <2>2. QED
      BY <2>1 DEF Conversation!EInit, ConversationClaim, ConversationTraces
  <1>2. TypeOK /\ RevisionInv /\ TracesOwned /\ [Next]_vars
           => [Conversation!ENext]_Conversation!evars
    <2> SUFFICES ASSUME TypeOK, RevisionInv, TracesOwned, [Next]_vars
                 PROVE  Conversation!ENext \/ UNCHANGED Conversation!evars
      OBVIOUS
    <2>1. CASE UNCHANGED vars
      BY <2>1 DEF vars, flow, records, settings, Conversation!evars, ConversationClaim,
                  ConversationTraces, Admitted, InFlight, Waiting, Generating, Owner, Guild
    <2>2. ASSUME NEW t \in Turns, Handle(t)
          PROVE  Conversation!ENext \/ UNCHANGED Conversation!evars
      <3>1. UNCHANGED lapsed
        BY <2>2 DEF Handle, Receive, Decline, Track, Admit, AcquireLock, LockTimeout,
                    StartGeneration, Abort, Deliver, settings
      <3>2. /\ \A r \in messages' : r \in messages \/
                                    (r.turn = t /\ r.role \in {"user", "assistant"})
            /\ \A m \in memories' : m \in memories \/ m.source = t
        BY <2>2, HandleTables
      <3>3. ConversationTraces' \subseteq
              ConversationTraces \cup ({t} \X {"user", "assistant", "memory"})
        BY <3>2 DEF ConversationTraces
      <3>4. CASE Track(t) \/ Admit(t)
        <4>1. /\ t \notin lapsed /\ ConversationClaim[t] = Nothing
              /\ ConversationClaim' = [ConversationClaim EXCEPT ![t] = Owner(t)]
          <5>1. /\ Admitted' = Admitted \cup {t} /\ t \notin Admitted /\ UNCHANGED msg
            BY <2>2, <3>4, HandleAdmitted
          <5>2. QED
            BY <5>1 DEF ConversationClaim, RevisionInv, Owner, Guild
        <4>2. Owner(t) \in Places \X Users
          BY <3>4, MessageFacts DEF Track, Admit
        <4>3. Conversation!Work(t, Owner(t))
          BY <3>1, <3>3, <4>1 DEF Conversation!Work
        <4>4. QED
          BY <4>2, <4>3 DEF Conversation!ENext
      <3>5. CASE ~(Track(t) \/ Admit(t))
        <4>1. UNCHANGED ConversationClaim
          <5>1. Admitted' = Admitted /\ \A o \in Admitted : Owner(o)' = Owner(o)
            BY <2>2, <3>5, HandleAdmitted
          <5>2. QED
            BY <5>1 DEF ConversationClaim
        <4>2. CASE UNCHANGED <<messages, memories>>
          BY <3>1, <4>1, <4>2 DEF ConversationTraces, Conversation!evars
        <4>3. CASE MayPersist(t) /\ t \in Admitted
          <5>1. t \notin lapsed /\ ConversationClaim[t] = Owner(t)
            BY <4>3 DEF MayPersist, RevisionInv, RevisionsTell, ConversationClaim
          <5>2. Owner(t) \in Places \X Users
            BY <4>3, MessageFacts DEF Admitted, InFlight, Waiting, Generating
          <5>3. ConversationClaim' = [ConversationClaim EXCEPT ![t] = Owner(t)]
            BY <4>1, <5>1 DEF ConversationClaim
          <5>4. Conversation!Work(t, Owner(t))
            BY <3>1, <3>3, <5>1, <5>3 DEF Conversation!Work
          <5>5. QED
            BY <5>2, <5>4 DEF Conversation!ENext
        <4>4. QED
          BY <2>2, <3>5, <4>2, <4>3, HandleTables
      <3>6. QED
        BY <3>4, <3>5
    <2>3. ASSUME Commands
          PROVE  Conversation!ENext \/ UNCHANGED Conversation!evars
      <3>1. UNCHANGED ConversationClaim
        BY <2>3, CommandsTables DEF ConversationClaim
      <3>2. ASSUME NEW k \in Places \X Users PROVE Conversation!Claimed(k) = AdmittedIn(k)
        BY <3>2, TurnAssumption
           DEF Conversation!Claimed, ConversationClaim, AdmittedIn, Admitted, InFlight,
               Waiting, Generating
      <3>3. ASSUME UNCHANGED lapsed PROVE Conversation!Discard
        <4>1. ConversationTraces' \subseteq ConversationTraces
          BY <2>3, CommandsTables DEF ConversationTraces
        <4>2. QED
          BY <3>1, <3>3, <4>1 DEF Conversation!Discard
      <3>4. ASSUME NEW g \in Places, NEW u \in Users, Forget(g, u)
            PROVE  Conversation!Erase(<<g, u>>)
        <4> DEFINE gone == Conversation!Claimed(<<g, u>>) \X {"user", "memory"}
        <4>1. lapsed' = lapsed \cup Conversation!Claimed(<<g, u>>)
          BY <3>2, <3>4 DEF Forget
        <4>2. ASSUME NEW r \in messages
              PROVE  <<r.turn, r.role>> \in gone <=> r.role = "user" /\ Owner(r.turn) = <<g, u>>
          <5>1. r.turn \in Admitted /\ r.role \in {"user", "assistant"}
            BY DEF TracesOwned, TypeOK, MessageRows
          <5>2. QED
            BY <3>2, <5>1 DEF AdmittedIn
        <4>3. ASSUME NEW m \in memories, m.source # Nothing
              PROVE  <<m.source, "memory">> \in gone <=> m.guild = g /\ m.user = u
          <5>1. m.source \in Admitted /\ Owner(m.source) = <<m.guild, m.user>>
            BY <4>3 DEF TracesOwned
          <5>2. QED
            BY <3>2, <5>1 DEF AdmittedIn
        <4>4. /\ messages' = {r \in messages : <<r.turn, r.role>> \notin gone}
              /\ memories' = {m \in memories : ~(m.guild = g /\ m.user = u)}
          BY <3>4, <4>2 DEF Forget
        <4>5. ConversationTraces' = ConversationTraces \ gone
          <5> DEFINE spoken == {<<r.turn, r.role>> : r \in messages}
                     kept == {m \in memories : m.source # Nothing}
                     noted == {<<m.source, "memory">> : m \in kept}
          <5>1. {<<r.turn, r.role>> : r \in messages'} = spoken \ gone
            BY <4>4
          <5>2. {m \in memories' : m.source # Nothing}
                  = {m \in kept : <<m.source, "memory">> \notin gone}
            BY <4>3, <4>4
          <5>3. {<<m.source, "memory">> : m \in {x \in memories' : x.source # Nothing}}
                  = noted \ gone
            BY <5>2
          <5>4. QED
            BY <5>1, <5>3 DEF ConversationTraces
        <4>6. QED
          BY <3>1, <4>1, <4>5 DEF Conversation!Erase
      <3>5. ASSUME NEW g \in Places, NEW u \in Users, NEW enabled \in BOOLEAN,
                   SetStorage(g, u, enabled)
            PROVE  Conversation!Revoke(<<g, u>>)
        <4>1. lapsed' = lapsed \cup Conversation!Claimed(<<g, u>>)
          BY <3>2, <3>5 DEF SetStorage
        <4>2. UNCHANGED ConversationTraces
          BY <3>5 DEF SetStorage, records, ConversationTraces
        <4>3. QED
          BY <3>1, <4>1, <4>2 DEF Conversation!Revoke
      <3>6. CASE \E g \in Places, u \in Users :
                   Forget(g, u) \/ \E enabled \in BOOLEAN : SetStorage(g, u, enabled)
        BY <3>4, <3>5, <3>6 DEF Conversation!ENext
      <3>7. CASE UNCHANGED lapsed
        BY <3>3, <3>7 DEF Conversation!ENext
      <3>8. QED
        BY <2>3, <3>6, <3>7 DEF Commands, Remember, DeleteMemory, ResetProfile, DeleteRecord
    <2>4. QED
      BY <2>1, <2>2, <2>3 DEF Next
  <1>3. QED
    BY <1>1, <1>2, TypeCorrect, RevisionInvAlways, TracesOwnedAlways, PTL
       DEF Spec, ConversationErased, Conversation!ESpec

\* The same for social events: a turn that was in flight when its user was
\* reset, or lost a record, leaves no event (app.py:796-802).
THEOREM ContinuityIsErased == Spec => ContinuityErased
  <1>1. Init => Continuity!EInit
    <2> SUFFICES ASSUME Init PROVE Continuity!EInit
      OBVIOUS
    <2>1. Admitted = {} /\ events = {} /\ disowned = {}
      BY DEF Init, Admitted, InFlight, Waiting, Generating
    <2>2. QED
      BY <2>1 DEF Continuity!EInit, ContinuityClaim, ContinuityTraces
  <1>2. TypeOK /\ RevisionInv /\ TracesOwned /\ [Next]_vars
           => [Continuity!ENext]_Continuity!evars
    <2> SUFFICES ASSUME TypeOK, RevisionInv, TracesOwned, [Next]_vars
                 PROVE  Continuity!ENext \/ UNCHANGED Continuity!evars
      OBVIOUS
    <2>1. CASE UNCHANGED vars
      BY <2>1 DEF vars, flow, social, settings, Continuity!evars, ContinuityClaim,
                  ContinuityTraces, Admitted, InFlight, Waiting, Generating
    <2>2. ASSUME NEW t \in Turns, Handle(t)
          PROVE  Continuity!ENext \/ UNCHANGED Continuity!evars
      <3>1. UNCHANGED disowned
        BY <2>2 DEF Handle, Receive, Decline, Track, Admit, AcquireLock, LockTimeout,
                    StartGeneration, Abort, Deliver, settings
      <3>2. \A e \in events' : e \in events \/ e.turn = t
        BY <2>2, HandleTables
      <3>3. ContinuityTraces' \subseteq ContinuityTraces \cup ({t} \X {"event"})
        BY <3>2 DEF ContinuityTraces
      <3>4. CASE Track(t) \/ Admit(t)
        <4>1. /\ t \notin disowned /\ ContinuityClaim[t] = Nothing
              /\ ContinuityClaim' = [ContinuityClaim EXCEPT ![t] = msg[t].user]
          <5>1. Admitted' = Admitted \cup {t} /\ t \notin Admitted /\ UNCHANGED msg
            BY <2>2, <3>4, HandleAdmitted
          <5>2. QED
            BY <5>1 DEF ContinuityClaim, RevisionInv
        <4>2. msg[t].user \in Users
          BY <3>4, MessageFacts DEF Track, Admit
        <4>3. Continuity!Work(t, msg[t].user)
          BY <3>1, <3>3, <4>1 DEF Continuity!Work
        <4>4. QED
          BY <4>2, <4>3 DEF Continuity!ENext
      <3>5. CASE ~(Track(t) \/ Admit(t))
        <4>1. UNCHANGED ContinuityClaim
          <5>1. Admitted' = Admitted /\ \A o \in Admitted : msg'[o] = msg[o]
            BY <2>2, <3>5, HandleAdmitted
          <5>2. QED
            BY <5>1 DEF ContinuityClaim
        <4>2. CASE UNCHANGED events
          BY <3>1, <4>1, <4>2 DEF ContinuityTraces, Continuity!evars
        <4>3. CASE ProfileEpochCurrent(t) /\ t \in Admitted
          <5>1. t \notin disowned /\ ContinuityClaim[t] = msg[t].user
            BY <4>3 DEF ProfileEpochCurrent, RevisionInv, RevisionsTell, ContinuityClaim
          <5>2. msg[t].user \in Users
            BY <4>3, MessageFacts DEF Admitted, InFlight, Waiting, Generating
          <5>3. ContinuityClaim' = [ContinuityClaim EXCEPT ![t] = msg[t].user]
            BY <4>1, <5>1 DEF ContinuityClaim
          <5>4. Continuity!Work(t, msg[t].user)
            BY <3>1, <3>3, <5>1, <5>3 DEF Continuity!Work
          <5>5. QED
            BY <5>2, <5>4 DEF Continuity!ENext
        <4>4. QED
          BY <2>2, <4>2, <4>3, HandleTables
      <3>6. QED
        BY <3>4, <3>5
    <2>3. ASSUME Commands
          PROVE  Continuity!ENext \/ UNCHANGED Continuity!evars
      <3>1. UNCHANGED ContinuityClaim
        BY <2>3, CommandsTables DEF ContinuityClaim
      <3>2. ASSUME NEW u \in Users PROVE Continuity!Claimed(u) = AdmittedOf(u)
        BY <3>2, TurnAssumption
           DEF Continuity!Claimed, ContinuityClaim, AdmittedOf, Admitted, InFlight,
               Waiting, Generating
      <3>3. ASSUME UNCHANGED disowned PROVE Continuity!Discard
        <4>1. ContinuityTraces' \subseteq ContinuityTraces
          BY <2>3, CommandsTables DEF ContinuityTraces
        <4>2. QED
          BY <3>1, <3>3, <4>1 DEF Continuity!Discard
      <3>4. ASSUME NEW u \in Users, ResetProfile(u) PROVE Continuity!Erase(u)
        <4>1. disowned' = disowned \cup Continuity!Claimed(u)
          BY <3>2, <3>4 DEF ResetProfile, BumpProfile
        <4>2. ASSUME NEW e \in events
              PROVE  <<e.turn, "event">> \in Continuity!Claimed(u) \X {"event"} <=> e.user = u
          <5>1. e.turn \in Admitted /\ msg[e.turn].user = e.user
            BY DEF TracesOwned
          <5>2. QED
            BY <3>2, <5>1 DEF AdmittedOf
        <4>3. ContinuityTraces' = ContinuityTraces \ (Continuity!Claimed(u) \X {"event"})
          BY <3>4, <4>2 DEF ResetProfile, ContinuityTraces
        <4>4. QED
          BY <3>1, <4>1, <4>3 DEF Continuity!Erase
      <3>5. ASSUME NEW u \in Users, DeleteRecord(u) PROVE Continuity!Revoke(u)
        <4>1. disowned' = disowned \cup Continuity!Claimed(u)
          BY <3>2, <3>5 DEF DeleteRecord, BumpProfile
        <4>2. UNCHANGED ContinuityTraces
          BY <3>5 DEF DeleteRecord, social, ContinuityTraces
        <4>3. QED
          BY <3>1, <4>1, <4>2 DEF Continuity!Revoke
      <3>6. CASE \E u \in Users : ResetProfile(u) \/ DeleteRecord(u)
        BY <3>4, <3>5, <3>6 DEF Continuity!ENext
      <3>7. CASE UNCHANGED disowned
        BY <3>3, <3>7 DEF Continuity!ENext
      <3>8. QED
        BY <2>3, <3>6, <3>7 DEF Commands, Remember, DeleteMemory, Forget, SetStorage
    <2>4. QED
      BY <2>1, <2>2, <2>3 DEF Next
  <1>3. QED
    BY <1>1, <1>2, TypeCorrect, RevisionInvAlways, TracesOwnedAlways, PTL
       DEF Spec, ContinuityErased, Continuity!ESpec

-----------------------------------------------------------------------------
(* Opting out.                                                             *)

\* While storage is off no step adds to what is stored of that user there: a
\* turn admitted while it was on finds it off (or the revision moved) when it
\* comes to write (app.py:682-699, 773-794).
THEOREM OptOutAlwaysHolds == Spec => OptOutHolds
  <1>1. TypeOK /\ TracesOwned /\ [Next]_vars
          => [\A k \in Places \X Users :
                privacy[k].optedOut => StoredFor(k)' \subseteq StoredFor(k)]_vars
    <2> SUFFICES ASSUME TypeOK, TracesOwned, [Next]_vars,
                        NEW k \in Places \X Users, privacy[k].optedOut
                 PROVE  StoredFor(k)' \subseteq StoredFor(k)
      OBVIOUS
    <2>1. CASE UNCHANGED vars
      BY <2>1 DEF vars, flow, records, StoredFor, Owner, Guild
    <2>2. ASSUME NEW t \in Turns, Handle(t) PROVE StoredFor(k)' \subseteq StoredFor(k)
      <3>1. UNCHANGED privacy
        BY <2>2 DEF Handle, Receive, Decline, Track, Admit, AcquireLock, LockTimeout,
                    StartGeneration, Abort, Deliver, settings
      <3>2. \A r \in messages : Owner(r.turn)' = Owner(r.turn)
        BY <2>2, HandleAdmitted DEF TracesOwned
      <3>3. CASE UNCHANGED <<messages, memories>>
        BY <3>2, <3>3 DEF StoredFor
      <3>4. CASE Track(t) \/ (MayPersist(t) /\ t \in Admitted)
        <4>1. Owner(t) # k
          BY <3>4 DEF Track, MayPersist
        <4>2. Owner(t)' = Owner(t)
          BY <2>2, <3>4, HandleAdmitted DEF Owner, Guild
        <4>3. /\ \A r \in messages' \ messages : r.turn = t
              /\ \A m \in memories' \ memories : <<m.guild, m.user>> = Owner(t)
          BY <2>2, HandleTables
        <4>4. QED
          BY <3>2, <4>1, <4>2, <4>3 DEF StoredFor
      <3>5. QED
        BY <2>2, <3>3, <3>4, HandleTables
    <2>3. ASSUME Commands PROVE StoredFor(k)' \subseteq StoredFor(k)
      <3>1. /\ messages' \subseteq messages
            /\ \A r \in messages : Owner(r.turn)' = Owner(r.turn)
        BY <2>3, CommandsTables DEF TypeOK, MessageRows
      <3>2. \A m \in memories' \ memories : <<m.guild, m.user>> # k
        <4>1. CASE \E g \in Places, u \in Users, text \in Memos : Remember(g, u, text)
          <5>1. PICK g \in Places, u \in Users, text \in Memos : Remember(g, u, text)
            BY <4>1
          <5>2. AddMemory(g, u, text, Nothing) /\ ~privacy[<<g, u>>].optedOut
            BY <5>1 DEF Remember
          <5>3. \A m \in memories' \ memories : m.guild = g /\ m.user = u
            BY <5>2, AddMemoryType
          <5>4. QED
            BY <5>2, <5>3
        <4>2. CASE memories' \subseteq memories
          BY <4>2
        <4>3. QED
          BY <2>3, <4>1, <4>2 DEF Commands, Forget, SetStorage, DeleteMemory, ResetProfile,
                                  DeleteRecord, records
      <3>3. QED
        BY <3>1, <3>2 DEF StoredFor
    <2>4. QED
      BY <2>1, <2>2, <2>3 DEF Next
  <1>2. QED
    BY <1>1, TypeCorrect, TracesOwnedAlways, PTL DEF Spec, OptOutHolds

\* A relationship comes into being only with the delivery of a turn that no
\* reset and no record deletion has overtaken (app.py:796-802).
THEOREM RelationshipAlwaysEarned == Spec => RelationshipEarned
  <1>1. TypeOK /\ RevisionInv /\ [Next]_vars
          => [\A u \in relationships' \ relationships :
                \E t \in Turns : /\ pc[t] = "generating" /\ pc'[t] = "done"
                                 /\ msg[t].user = u /\ t \notin disowned]_vars
    <2> SUFFICES ASSUME TypeOK, RevisionInv, Next,
                        NEW u \in relationships' \ relationships
                 PROVE  \E t \in Turns : /\ pc[t] = "generating" /\ pc'[t] = "done"
                                         /\ msg[t].user = u /\ t \notin disowned
      BY DEF vars, social
    <2>1. PICK t \in Turns : Deliver(t) /\ RecordInteraction(t) /\ ProfileEpochCurrent(t)
      BY DEF Next, Commands, Forget, SetStorage, Remember, DeleteMemory, ResetProfile,
             DeleteRecord, Handle, Receive, Decline, Track, Admit, AcquireLock,
             LockTimeout, StartGeneration, Abort, Deliver, social
    <2>2. t \in Admitted /\ pc[t] = "generating" /\ pc'[t] = "done"
      BY <2>1 DEF Deliver, Goto, Admitted, InFlight, Generating, TypeOK
    <2>3. u = msg[t].user
      <3> DEFINE e == [id |-> nextId, guild |-> Guild(t), user |-> msg[t].user, turn |-> t]
      <3>1. relationships' = RelationshipsAfter(relationships, e.user)
        BY <2>1 DEF RecordInteraction
      <3>2. QED
        BY <3>1 DEF RelationshipsAfter
    <2>4. t \notin disowned
      BY <2>1, <2>2 DEF ProfileEpochCurrent, RevisionInv, RevisionsTell
    <2>5. QED
      BY <2>2, <2>3, <2>4
  <1>2. QED
    BY <1>1, TypeCorrect, RevisionInvAlways, PTL DEF Spec, RelationshipEarned

-----------------------------------------------------------------------------
(* The history of a channel.                                               *)

\* Rows are those of turns that have written, an answer that of a turn that is
\* done; and whatever has been stored since the message that is being answered is
\* ambient.
HistoryInv ==
  /\ \A r \in messages : /\ r.id < nextId /\ r.scope = msg[r.turn].channel
                         /\ pc[r.turn] \in {"tracked", "generating", "done"}
                         /\ r.role = "assistant" => pc[r.turn] = "done"
  /\ \A q, r \in messages :
       q.role = "user" /\ pc[q.turn] = "generating" /\ r.scope = q.scope /\ q.id < r.id
         => pc[r.turn] = "tracked"

\* One generation runs in a channel.
LEMMA AloneInChannel ==
  ASSUME TypeOK, HeldInv, NEW t \in Generating, NEW o \in Generating,
         msg[t].channel = msg[o].channel
  PROVE  t = o
  <1>1. t \in Turns /\ o \in Turns /\ msg[t].channel \in Channels
    BY MessageFacts DEF Generating
  <1>2. lock[msg[t].channel] = t /\ lock[msg[t].channel] = o
    BY <1>1 DEF HeldInv, ResourcesMatch
  <1>3. QED
    BY <1>2

\* A step of a handler that adds no row.
LEMMA QuietHistory ==
  ASSUME TypeOK, HistoryInv, RepliesDoNotInterleave, NEW t \in Turns, NEW where,
         messages' \subseteq messages, nextId' \in Nat, nextId <= nextId', Goto(t, where),
         \A o \in Turns : pc[o] # "new" => msg'[o] = msg[o],
         pc[t] \notin {"tracked", "done"}, pc[t] = "generating" => where = "done"
  PROVE  HistoryInv' /\ RepliesDoNotInterleave'
  <1>1. \A o \in Turns : pc'[o] = IF o = t THEN where ELSE pc[o]
    BY DEF Goto, TypeOK
  <1>2. \A r \in messages : r.turn \in Turns /\ r.id \in Nat
    BY DEF TypeOK, MessageRows
  <1>3. nextId \in Nat
    BY DEF TypeOK
  <1>4. ASSUME NEW r \in messages
        PROVE  /\ r.id < nextId' /\ r.scope = msg'[r.turn].channel
               /\ pc'[r.turn] \in {"tracked", "generating", "done"}
               /\ r.role = "assistant" => pc'[r.turn] = "done"
               /\ pc[r.turn] = "tracked" => pc'[r.turn] = "tracked"
               /\ pc'[r.turn] = "generating" => pc[r.turn] = "generating"
    BY <1>1, <1>2, <1>3 DEF HistoryInv
  <1>5. HistoryInv'
    BY <1>4 DEF HistoryInv
  <1>6. RepliesDoNotInterleave'
    BY <1>4 DEF RepliesDoNotInterleave
  <1>7. QED
    BY <1>5, <1>6

\* A step of a handler that adds one.
LEMMA RowHistory ==
  ASSUME TypeOK, HeldInv, HistoryInv, RepliesDoNotInterleave, NEW t \in Turns, NEW role, NEW where,
         messages' \subseteq messages \cup {MessageRow(t, role)}, nextId' = nextId + 1,
         Goto(t, where), UNCHANGED msg,
         \/ role = "user" /\ pc[t] = "resolving" /\ where = "tracked"
         \/ role = "user" /\ pc[t] = "processing" /\ where = "generating"
         \/ role = "assistant" /\ pc[t] = "generating" /\ where = "done"
  PROVE  HistoryInv' /\ RepliesDoNotInterleave'
  <1> DEFINE row == MessageRow(t, role)
  <1>1. \A o \in Turns : pc'[o] = IF o = t THEN where ELSE pc[o]
    BY DEF Goto, TypeOK
  <1>2. \A r \in messages : r.turn \in Turns /\ r.id \in Nat /\ r.id < nextId
    BY DEF TypeOK, MessageRows, HistoryInv
  <1>3. nextId \in Nat
    BY DEF TypeOK
  <1>4. row.id = nextId /\ row.scope = msg[t].channel /\ row.turn = t /\ row.role = role
    BY DEF MessageRow
  <1> HIDE DEF row
  <1>5. \A r \in messages' : r \in messages \/ r = row
    BY DEF row
  <1>6. ASSUME NEW r \in messages
        PROVE  /\ r.id < nextId' /\ r.scope = msg'[r.turn].channel
               /\ pc'[r.turn] \in {"tracked", "generating", "done"}
               /\ r.role = "assistant" => pc'[r.turn] = "done" /\ r.turn # t
               /\ pc[r.turn] = "tracked" => pc'[r.turn] = "tracked"
               /\ pc'[r.turn] = "generating" => pc[r.turn] = "generating"
    BY <1>1, <1>2, <1>3 DEF HistoryInv
  <1>7. /\ row.id < nextId' /\ row.scope = msg'[row.turn].channel
        /\ pc'[row.turn] \in {"tracked", "generating", "done"}
        /\ row.role = "assistant" => pc'[row.turn] = "done"
    BY <1>1, <1>3, <1>4
  <1>8. ASSUME NEW q \in messages', NEW r \in messages', q.role = "user",
               pc'[q.turn] = "generating", r.scope = q.scope, q.id < r.id
        PROVE  pc'[r.turn] = "tracked"
    <2>1. q \in messages
      <3> SUFFICES ASSUME q = row PROVE FALSE
        BY <1>5
      <3>1. r.id < nextId + 1 /\ r.id \in Nat
        BY <1>2, <1>3, <1>4, <1>5
      <3>2. QED
        BY <1>3, <1>4, <1>8, <3>1
    <2>2. pc[q.turn] = "generating" /\ q.turn \in Turns /\ q.turn # t
      BY <1>1, <1>2, <1>6, <1>8, <2>1 DEF HistoryInv
    <2>3. CASE r \in messages
      BY <1>6, <1>8, <2>1, <2>2, <2>3 DEF HistoryInv
    <2>4. CASE r = row
      <3>1. msg[t].channel = msg[q.turn].channel
        BY <1>4, <1>8, <2>1, <2>4 DEF HistoryInv
      <3>2. CASE where = "tracked"
        BY <1>1, <1>4, <2>4, <3>2
      <3>3. CASE where # "tracked"
        <4>1. t \in Generating /\ q.turn \in Generating
          BY <2>2, <3>3 DEF Generating
        <4>2. QED
          BY <2>2, <3>1, <4>1, AloneInChannel
      <3>4. QED
        BY <3>2, <3>3
    <2>5. QED
      BY <1>5, <2>3, <2>4
  <1>9. HistoryInv'
    BY <1>5, <1>6, <1>7, <1>8 DEF HistoryInv
  <1>10. ASSUME NEW a \in messages', NEW q \in messages', NEW r \in messages',
                a.role = "assistant", q.role = "user", q.turn = a.turn,
                r.scope = a.scope, q.id < r.id, r.id < a.id
         PROVE  pc'[r.turn] = "tracked"
    <2>0. q \in messages /\ r \in messages
      <3>1. a.id < nextId + 1 /\ a.id \in Nat /\ r.id \in Nat /\ q.id \in Nat
        BY <1>2, <1>3, <1>4, <1>5
      <3>2. r.id # nextId /\ q.id # nextId
        BY <1>3, <1>10, <3>1
      <3>3. QED
        BY <1>4, <1>5, <3>2
    <2>1. CASE a \in messages
      BY <1>6, <1>10, <2>0, <2>1 DEF RepliesDoNotInterleave
    <2>2. CASE a = row
      <3>1. role = "assistant" /\ pc[t] = "generating" /\ q.turn = t
        BY <1>4, <1>10, <2>2
      <3>2. r.scope = q.scope
        BY <1>4, <1>10, <2>0, <2>2, <3>1 DEF HistoryInv
      <3>3. pc[r.turn] = "tracked"
        BY <1>10, <2>0, <3>1, <3>2 DEF HistoryInv
      <3>4. QED
        BY <1>6, <2>0, <3>3
    <2>3. QED
      BY <1>5, <2>1, <2>2
  <1>11. RepliesDoNotInterleave'
    BY <1>10 DEF RepliesDoNotInterleave
  <1>12. QED
    BY <1>9, <1>11

\* No step of a handler, and no command, lets two answers interleave.
LEMMA NextHistory ==
  ASSUME TypeOK, TypeOK', HeldInv, HistoryInv, RepliesDoNotInterleave, [Next]_vars
  PROVE  HistoryInv' /\ RepliesDoNotInterleave'
  <1>0. nextId \in Nat /\ nextId' \in Nat /\ checks \in Int
    BY DEF TypeOK
  <1>1. CASE UNCHANGED vars
    BY <1>1 DEF vars, flow, records, HistoryInv, RepliesDoNotInterleave
  <1>2. ASSUME NEW t \in Turns, NEW role, RecordMessage(t, role)
        PROVE  messages' \subseteq messages \cup {MessageRow(t, role)}
    BY <1>0, <1>2, InsertMessageSubset DEF RecordMessage
  <1>3. ASSUME NEW t \in Turns, Handle(t) PROVE HistoryInv' /\ RepliesDoNotInterleave'
    <2>1. CASE Receive(t)
      <3>1. /\ UNCHANGED <<messages, nextId>> /\ pc[t] = "new" /\ Goto(t, "resolving")
            /\ \A o \in Turns : pc[o] # "new" => msg'[o] = msg[o]
        BY <2>1 DEF Receive, records, TypeOK
      <3>2. QED
        BY <1>0, <3>1, QuietHistory
    <2>2. CASE Decline(t) \/ Admit(t) \/ AcquireLock(t) \/ LockTimeout(t) \/ Abort(t)
      <3>1. PICK where \in {"declined", "waiting", "processing", "done"} :
              /\ UNCHANGED <<messages, nextId, msg>> /\ Goto(t, where)
              /\ pc[t] \notin {"tracked", "done"} /\ (pc[t] = "generating" => where = "done")
        <4>1. CASE Abort(t)
          <5>1. pc[t] \notin {"tracked", "done"}
            BY <4>1 DEF Abort, InFlight, Waiting, Generating
          <5>2. QED
            BY <4>1, <5>1 DEF Abort, records
        <4>2. QED
          BY <2>2, <4>1 DEF Decline, Admit, AcquireLock, LockTimeout, records
      <3>2. QED
        BY <1>0, <3>1, QuietHistory
    <2>3. CASE Track(t)
      <3>1. /\ messages' \subseteq messages \cup {MessageRow(t, "user")} /\ nextId' = nextId + 1
            /\ UNCHANGED msg /\ pc[t] = "resolving" /\ Goto(t, "tracked")
        BY <1>2, <2>3 DEF Track
      <3>2. QED
        BY <3>1, RowHistory
    <2>4. CASE StartGeneration(t)
      <3>1. UNCHANGED msg /\ pc[t] = "processing" /\ Goto(t, "generating")
        BY <2>4 DEF StartGeneration
      <3>2. CASE RecordMessage(t, "user") /\ nextId' = nextId + 1
        <4>1. messages' \subseteq messages \cup {MessageRow(t, "user")}
          BY <1>2, <3>2
        <4>2. QED
          BY <3>1, <3>2, <4>1, RowHistory
      <3>3. CASE UNCHANGED <<messages, nextId>>
        BY <1>0, <3>1, <3>3, QuietHistory
      <3>4. QED
        BY <2>4, <3>2, <3>3 DEF StartGeneration, records
    <2>5. CASE Deliver(t)
      <3>1. UNCHANGED msg /\ pc[t] = "generating" /\ Goto(t, "done")
        BY <2>5 DEF Deliver
      <3>2. CASE RecordMessage(t, "assistant") /\ nextId' = nextId + 1
        <4>1. messages' \subseteq messages \cup {MessageRow(t, "assistant")}
          BY <1>2, <3>2
        <4>2. QED
          BY <3>1, <3>2, <4>1, RowHistory
      <3>3. CASE UNCHANGED messages /\ nextId' \in {nextId, nextId + 1}
        <4>1. nextId <= nextId'
          BY <1>0, <3>3
        <4>2. QED
          BY <1>0, <3>1, <3>3, <4>1, QuietHistory
      <3>4. QED
        BY <2>5, <3>2, <3>3 DEF Deliver, records
    <2>6. QED
      BY <1>3, <2>1, <2>2, <2>3, <2>4, <2>5 DEF Handle
  <1>4. CASE Commands
    <2>1. messages' \subseteq messages /\ UNCHANGED <<pc, msg, nextId>>
      BY <1>4, CommandsTables
         DEF Commands, Forget, SetStorage, Remember, DeleteMemory, ResetProfile, DeleteRecord,
             Command, flow
    <2>2. QED
      BY <2>1 DEF HistoryInv, RepliesDoNotInterleave
  <1>5. QED
    BY <1>1, <1>3, <1>4 DEF Next

\* For any number of handlers and channels, whatever is trimmed, erased, aborted
\* or timed out, a message and its answer stand together in the history of their
\* channel but for ambient messages (app.py:642-799).
THEOREM RepliesNeverInterleave == Spec => []RepliesDoNotInterleave
  <1>1. Init => HistoryInv /\ RepliesDoNotInterleave
    BY DEF Init, HistoryInv, RepliesDoNotInterleave
  <1>2. TypeOK /\ TypeOK' /\ HeldInv /\ HistoryInv /\ RepliesDoNotInterleave /\ [Next]_vars
          => (HistoryInv /\ RepliesDoNotInterleave)'
    BY NextHistory
  <1>3. QED
    BY <1>1, <1>2, TypeCorrect, HeldAlways, PTL DEF Spec
=============================================================================
