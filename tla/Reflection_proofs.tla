--------------------------- MODULE Reflection_proofs ---------------------------
(***************************************************************************)
(* Proofs about Reflection, for every value of its constants.              *)
(***************************************************************************)
EXTENDS Reflection, FiniteSetTheorems, SequenceTheorems, TLAPS

(* The social tables.                                                      *)

\* A trim only drops rows.
LEMMA TrimSubset ==
  ASSUME NEW S, NEW g, NEW u
  PROVE  TrimEvents(S, g, u) \subseteq S
  BY DEF TrimEvents, TrimGroup, TrimRows, Newest, PendingOf

\* The newest row of all survives both trims.
LEMMA NewestSurvives ==
  ASSUME NEW S, NEW e \in S, \A q \in S : ~(q.id > e.id)
  PROVE  e \in TrimEvents(S, e.guild, e.user)
  <1>1. ASSUME NEW T \in SUBSET S, e \in T, NEW n \in Nat
        PROVE  e \in TrimRows(T, n)
    <2>1. {q \in T : q.id > e.id} = {}
      BY <1>1
    <2>2. Cardinality({q \in T : q.id > e.id}) = 0
      BY <2>1, FS_EmptySet
    <2>3. QED
      BY <1>1, <2>2 DEF TrimRows, Newest
  <1> DEFINE pending == PendingOf(S, e.guild, e.user)
             group == TrimGroup(S, pending, MaxPendingPerUser)
  <1>2. pending \in SUBSET S /\ e \in pending
    BY DEF PendingOf
  <1>3. e \in group
    BY <1>1, <1>2, SocialCeilings DEF TrimGroup
  <1>4. group \in SUBSET S
    BY <1>2 DEF TrimGroup, TrimRows, Newest
  <1>5. QED
    BY <1>1, <1>3, <1>4, SocialCeilings DEF TrimEvents

\* A finite set of rows that is not empty has an oldest and a newest row.
LEMMA Extremes ==
  ASSUME NEW S, IsFiniteSet(S), S # {}, \A e \in S : e.id \in Nat
  PROVE  /\ \E e \in S : \A o \in S : e.id <= o.id
         /\ \E e \in S : \A o \in S : o.id <= e.id
  <1> DEFINE Above(e) == {o \in S : o.id > e.id}
             Below(e) == {o \in S : o.id < e.id}
             R == StrictSubsetOrdering(S)
             aboves == {Above(e) : e \in S}
             belows == {Below(e) : e \in S}
  <1>1. IsWellFoundedOn(R, FiniteSubsetsOf(S))
    BY FS_StrictSubsetOrderingWellFounded
  <1>2. aboves \subseteq FiniteSubsetsOf(S) /\ belows \subseteq FiniteSubsetsOf(S)
    BY FS_FiniteSubsetsOfFinite
  <1>3. aboves # {} /\ belows # {}
    OBVIOUS
  <1>4. \E T \in aboves : \A U \in aboves : ~(<<U, T>> \in R)
    BY <1>1, <1>2, <1>3, WFMin
  <1>5. \E T \in belows : \A U \in belows : ~(<<U, T>> \in R)
    BY <1>1, <1>2, <1>3, WFMin
  <1>6. \E e \in S : \A o \in S : o.id <= e.id
    <2>1. PICK e \in S : \A o \in S : ~(<<Above(o), Above(e)>> \in R)
      BY <1>4
    <2>2. ASSUME NEW o \in S, o.id > e.id
          PROVE  FALSE
      <3>1. Above(o) \subseteq Above(e) /\ o \in Above(e) /\ o \notin Above(o)
        BY <2>2
      <3>2. Above(o) \in SUBSET S /\ Above(e) \in SUBSET S
        OBVIOUS
      <3> HIDE DEF Above
      <3>3. QED
        BY <2>1, <3>1, <3>2 DEF StrictSubsetOrdering
    <2>3. QED
      BY <2>2
  <1>7. \E e \in S : \A o \in S : e.id <= o.id
    <2>1. PICK e \in S : \A o \in S : ~(<<Below(o), Below(e)>> \in R)
      BY <1>5
    <2>2. ASSUME NEW o \in S, o.id < e.id
          PROVE  FALSE
      <3>1. Below(o) \subseteq Below(e) /\ o \in Below(e) /\ o \notin Below(o)
        BY <2>2
      <3>2. Below(o) \in SUBSET S /\ Below(e) \in SUBSET S
        OBVIOUS
      <3> HIDE DEF Below
      <3>3. QED
        BY <2>1, <3>1, <3>2 DEF StrictSubsetOrdering
    <2>3. QED
      BY <2>2
  <1>8. QED
    BY <1>6, <1>7

-----------------------------------------------------------------------------
(* Type correctness.                                                       *)

\* The two halves of TypeOK.  A finished task has an outcome, which its callback
\* reads; the events are finitely many, so that a batch has a last one.
Outcomes == {"ended", "failed", "cancelled"}

LoopType ==
  /\ task \in [Tasks -> TaskRows]
  /\ \A t \in Tasks : task[t].state # "none" => task[t].key \in Keys
  /\ \A t \in Tasks : task[t].state = "running" => task[t].batch \in Batches
  /\ \A t \in Tasks : task[t].state = "finished" => task[t].outcome \in Outcomes
  /\ ready \in Seq(Tasks)
  /\ table \in [Keys -> Tasks \cup {Nothing}]
  /\ retryAfter \subseteq Keys
  /\ overtaken \subseteq Tasks

StoreType ==
  /\ events \subseteq EventRows /\ IsFiniteSet(events)
  /\ relationships \subseteq Users
  /\ resting \subseteq Users
  /\ profileRevision \in [Users -> Nat]
  /\ learned \subseteq [guild : Places, user : Users, events : SUBSET EventRows]
  /\ {interactions, commands, restarts} \subseteq Nat

\* A batch of pending events has a revision, events and a last event.
LEMMA BatchType ==
  ASSUME StoreType, NEW k \in Keys, Pending(events, k) # {}
  PROVE  Batch(k) \in Batches
  <1> DEFINE pending == Pending(events, k)
             Older(e) == {o \in pending : o.id < e.id}
             chosen == {e \in pending : Cardinality(Older(e)) < MaxBatch}
             last == CHOOSE e \in chosen : \A o \in chosen : o.id <= e.id
  <1>1. pending \in SUBSET events /\ events \subseteq EventRows /\ IsFiniteSet(events)
    BY DEF Pending, PendingOf, StoreType
  <1>2. IsFiniteSet(pending) /\ \A e \in pending : e.id \in Nat
    BY <1>1, FS_Subset DEF EventRows
  <1>3. PICK e \in pending : \A o \in pending : e.id <= o.id
    BY <1>2, Extremes
  <1>4. Older(e) = {}
    BY <1>2, <1>3
  <1>5. Cardinality(Older(e)) = 0
    BY <1>4, FS_EmptySet
  <1>6. chosen # {}
    BY <1>3, <1>5, ReflectionAssumption
  <1>7. chosen \in SUBSET pending
    OBVIOUS
  <1> HIDE DEF pending
  <1>8. IsFiniteSet(chosen) /\ \A o \in chosen : o.id \in Nat
    BY <1>2, <1>7, FS_Subset
  <1>9. \E o \in chosen : \A p \in chosen : p.id <= o.id
    BY <1>6, <1>8, Extremes
  <1>10. last \in chosen
    BY <1>9
  <1>11. last.id \in Nat /\ chosen \in SUBSET EventRows
    BY <1>1, <1>7, <1>8, <1>10
  <1>12. profileRevision[k[2]] \in Nat
    BY DEF StoreType, Keys
  <1>13. Batch(k) = [revision |-> profileRevision[k[2]], events |-> chosen, through |-> last.id]
    BY DEF Batch, pending
  <1> HIDE DEF chosen, last
  <1>14. QED
    BY <1>11, <1>12, <1>13 DEF Batches

\* Whatever is due has a pending event, so finitely many keys are.
LEMMA DueKeysFinite ==
  ASSUME StoreType
  PROVE  IsFiniteSet(DueKeys)
  <1> DEFINE f == [e \in events |-> <<e.guild, e.user>>]
             T == {<<e.guild, e.user>> : e \in events}
  <1>1. f \in Surjection(events, T)
    BY DEF Surjection
  <1>2. IsFiniteSet(T)
    BY <1>1, FS_Surjection DEF StoreType
  <1>3. DueKeys \in SUBSET T
    <2> SUFFICES ASSUME NEW k \in DueKeys
                 PROVE  k \in T
      OBVIOUS
    <2>1. k \in Keys /\ Due(events, relationships, k)
      BY DEF DueKeys
    <2>2. Pending(events, k) # {}
      <3> SUFFICES ASSUME Pending(events, k) = {}
                   PROVE  FALSE
        OBVIOUS
      <3>1. {e \in Pending(events, k) : e.meaningful} = {}
        OBVIOUS
      <3>2. QED
        BY <2>1, <3>1, FS_EmptySet, ReflectionAssumption DEF Due
    <2>3. PICK e \in events : e.guild = k[1] /\ e.user = k[2]
      BY <2>2 DEF Pending, PendingOf
    <2>4. k = <<k[1], k[2]>>
      BY <2>1 DEF Keys
    <2>5. QED
      BY <2>3, <2>4
  <1>4. QED
    BY <1>2, <1>3, FS_Subset

\* The keys that a sweep launches are a sequence.
LEMMA SweepLaunches ==
  ASSUME StoreType, Sweep
  PROVE  \E ks \in Seq(Keys) : Launch(ks)
  <1> DEFINE chosen == {k \in Candidates : MaySchedule(events, relationships, k)}
  <1>1. PICK ks \in [1..Cardinality(chosen) -> chosen] : Launch(ks)
    BY DEF Sweep
  <1>2. chosen \in SUBSET DueKeys /\ DueKeys \subseteq Keys
    BY DEF Candidates, DueKeys
  <1> HIDE DEF chosen
  <1>3. IsFiniteSet(chosen)
    BY <1>2, DueKeysFinite, FS_Subset
  <1>4. Cardinality(chosen) \in Nat
    BY <1>3, FS_CardinalityType
  <1>5. ks \in Seq(Keys)
    BY <1>2, <1>4
  <1>6. QED
    BY <1>1, <1>5

\* A launch queues free tasks and leaves the others alone.
LEMMA LaunchEffect ==
  ASSUME LoopType, NEW ks \in Seq(Keys), Launch(ks)
  PROVE  /\ task' \in [Tasks -> TaskRows]
         /\ \A t \in Tasks :
              \/ task'[t] = task[t]
              \/ /\ task[t] = NoTask /\ task'[t].state = "queued"
                 /\ task'[t].key \in Keys
         /\ ready' \in Seq(Tasks)
         /\ table' \in [Keys -> Tasks \cup {Nothing}]
         /\ retryAfter' = retryAfter
  <1> DEFINE free == {t \in Tasks : task[t] = NoTask}
  <1>1. PICK new \in [1..Len(ks) -> free] :
          /\ task' = [t \in Tasks |->
                        IF \E i \in 1..Len(ks) : new[i] = t
                          THEN [NoTask EXCEPT !.state = "queued",
                                  !.key = ks[CHOOSE i \in 1..Len(ks) : new[i] = t]]
                          ELSE task[t]]
          /\ table' = [k \in Keys |->
                         IF \E i \in 1..Len(ks) : ks[i] = k
                           THEN new[CHOOSE i \in 1..Len(ks) : ks[i] = k]
                           ELSE table[k]]
          /\ ready' = ready \o new
          /\ retryAfter' = retryAfter
    BY DEF Launch
  <1>2. Len(ks) \in Nat /\ \A i \in 1..Len(ks) : ks[i] \in Keys
    OBVIOUS
  <1>3. new \in Seq(Tasks)
    BY <1>2
  <1>4. ready' \in Seq(Tasks)
    <2>1. ready \in Seq(Tasks)
      BY DEF LoopType
    <2>2. ready \o new \in Seq(Tasks)
      BY <1>3, <2>1, ConcatProperties
    <2>3. QED
      BY <1>1, <2>2
  <1>5. table' \in [Keys -> Tasks \cup {Nothing}]
    BY <1>1 DEF LoopType
  <1>6. ASSUME NEW t \in Tasks
        PROVE  /\ task'[t] \in TaskRows
               /\ \/ task'[t] = task[t]
                  \/ /\ task[t] = NoTask /\ task'[t].state = "queued"
                     /\ task'[t].key \in Keys
    <2>1. CASE \E i \in 1..Len(ks) : new[i] = t
      <3> DEFINE i == CHOOSE i \in 1..Len(ks) : new[i] = t
      <3>1. i \in 1..Len(ks) /\ new[i] = t
        BY <2>1
      <3>2. task'[t] = [NoTask EXCEPT !.state = "queued", !.key = ks[i]]
        BY <1>1, <2>1
      <3> HIDE DEF i
      <3>3. task[t] = NoTask /\ ks[i] \in Keys
        BY <1>2, <3>1
      <3>4. QED
        BY <3>2, <3>3 DEF NoTask, TaskRows
    <2>2. CASE ~\E i \in 1..Len(ks) : new[i] = t
      BY <1>1, <2>2 DEF LoopType
    <2>3. QED
      BY <2>1, <2>2
  <1>7. task' \in [Tasks -> TaskRows]
    BY <1>1, <1>6
  <1>8. QED
    BY <1>1, <1>4, <1>5, <1>6, <1>7

\* The interaction's own launch, of one key or none.
LEMMA InteractLaunches ==
  ASSUME NEW k \in Keys, NEW meaningful, Interact(k, meaningful)
  PROVE  \E ks \in Seq(Keys) : Launch(ks)
  <1>1. <<k>> \in Seq(Keys) /\ <<>> \in Seq(Keys)
    OBVIOUS
  <1>2. QED
    BY <1>1 DEF Interact

\* What the other steps of a task make of its row.
LEMMA TaskEffect ==
  ASSUME LoopType, NEW t \in Tasks
  PROVE  /\ \A how : Finish(t, how) =>
              /\ task'[t] = [task[t] EXCEPT !.state = "finished", !.outcome = how]
              /\ task' = [task EXCEPT ![t] = task'[t]]
         /\ \A b : task' = [task EXCEPT ![t].state = "running", ![t].batch = b] =>
              /\ task'[t] = [task[t] EXCEPT !.state = "running", !.batch = b]
              /\ task' = [task EXCEPT ![t] = task'[t]]
  BY DEF Finish, LoopType

\* The row of no task.
LEMMA NoTaskType == NoTask \in TaskRows /\ NoTask.state = "none"
  BY DEF NoTask, TaskRows

\* The initial state.
LEMMA InitTypes == Init => LoopType /\ StoreType
  <1> SUFFICES ASSUME Init PROVE LoopType /\ StoreType
    OBVIOUS
  <1>1. LoopType
    BY NoTaskType DEF Init, LoopType
  <1>2. StoreType
    BY FS_EmptySet DEF Init, StoreType
  <1>3. QED
    BY <1>1, <1>2

\* Recording an interaction adds at most its event and its user's row.
LEMMA InteractTables ==
  ASSUME StoreType, NEW k \in Keys, NEW meaningful \in BOOLEAN, Interact(k, meaningful)
  PROVE  \E e \in EventRows :
           /\ e.id = interactions + 1 /\ e.user = k[2] /\ interactions' = interactions + 1
           /\ \/ /\ events' = TrimEvents(events \cup {e}, e.guild, e.user)
                 /\ relationships' = relationships \cup {k[2]}
              \/ UNCHANGED <<events, relationships>>
  <1> DEFINE e == [id |-> interactions + 1, guild |-> k[1], user |-> k[2],
                   meaningful |-> meaningful]
  <1>1. e \in EventRows
    BY DEF EventRows, Keys, StoreType
  <1>2. /\ events' = EventsAfter(events, relationships, e)
        /\ relationships' = RelationshipsAfter(relationships, k[2])
        /\ interactions' = interactions + 1
    BY DEF Interact
  <1>3. e.user = k[2] /\ e.id = interactions + 1
    OBVIOUS
  <1> HIDE DEF e
  <1>4. QED
    BY <1>1, <1>2, <1>3 DEF EventsAfter, RelationshipsAfter

\* Every step keeps the types of the loop.
LEMMA LoopStep == ASSUME LoopType, StoreType, [Next]_vars PROVE LoopType'
  <1>1. ASSUME NEW ks \in Seq(Keys), Launch(ks), UNCHANGED overtaken
        PROVE  LoopType'
    <2>1. \A t \in Tasks : task'[t].state # "none" => task'[t].key \in Keys
      BY <1>1, LaunchEffect DEF LoopType
    <2>2. \A t \in Tasks : task'[t].state = "running" => task'[t].batch \in Batches
      BY <1>1, LaunchEffect DEF LoopType
    <2>3. \A t \in Tasks : task'[t].state = "finished" => task'[t].outcome \in Outcomes
      BY <1>1, LaunchEffect DEF LoopType
    <2>4. QED
      BY <1>1, <2>1, <2>2, <2>3, LaunchEffect DEF LoopType
  <1>2. ASSUME NEW k \in Keys, NEW meaningful \in BOOLEAN, Interact(k, meaningful)
        PROVE  LoopType'
    BY <1>1, <1>2, InteractLaunches DEF Interact
  <1>3. CASE Sweep
    BY <1>1, <1>3, SweepLaunches DEF Sweep, counts
  <1>4. ASSUME NEW t \in Tasks, NEW row \in TaskRows, task' = [task EXCEPT ![t] = row],
               row.state # "none" => row.key \in Keys,
               row.state = "running" => row.batch \in Batches,
               row.state = "finished" => row.outcome \in Outcomes,
               ready' \in Seq(Tasks), table' \in [Keys -> Tasks \cup {Nothing}],
               retryAfter' \subseteq Keys, overtaken' \subseteq Tasks
        PROVE  LoopType'
    BY <1>4 DEF LoopType
  <1>5. ASSUME ready # <<>>
        PROVE  Tail(ready) \in Seq(Tasks)
    BY <1>5 DEF LoopType
  <1>6. ASSUME NEW t \in Tasks, NEW s \in Seq(Tasks)
        PROVE  Append(s, t) \in Seq(Tasks)
    BY <1>6
  <1>7. ASSUME NEW t \in Tasks, NEW how \in Outcomes,
               task[t].state # "none", Finish(t, how), ready' \in Seq(Tasks),
               UNCHANGED <<table, retryAfter, overtaken>>
        PROVE  LoopType'
    <2>1. /\ task'[t] = [task[t] EXCEPT !.state = "finished", !.outcome = how]
          /\ task' = [task EXCEPT ![t] = task'[t]]
      BY <1>7, TaskEffect
    <2>2. task[t] \in TaskRows /\ task[t].key \in Keys
      BY <1>7 DEF LoopType
    <2>3. /\ task'[t] \in TaskRows /\ task'[t].state = "finished"
          /\ task'[t].key \in Keys /\ task'[t].outcome = how
      BY <2>1, <2>2 DEF TaskRows, Outcomes
    <2>4. QED
      BY <1>4, <1>7, <2>1, <2>3 DEF LoopType
  <1>8. ASSUME NEW t \in Tasks, Begin(t)
        PROVE  LoopType'
    <2>1. task[t].state = "queued" /\ task[t] \in TaskRows /\ task[t].key \in Keys
      BY <1>8 DEF Begin, LoopType
    <2>2. Tail(ready) \in Seq(Tasks)
      BY <1>5, <1>8 DEF Begin
    <2>3. CASE task[t].cancelled \/ Pending(events, task[t].key) = {}
      <3>1. ready' \in Seq(Tasks)
        BY <1>6, <1>8, <2>2, <2>3 DEF Begin
      <3>2. QED
        BY <1>7, <1>8, <2>1, <2>3, <3>1 DEF Begin, counts, Outcomes
    <2>4. CASE ~(task[t].cancelled \/ Pending(events, task[t].key) = {})
      <3> DEFINE b == Batch(task[t].key)
      <3>1. b \in Batches
        BY <2>1, <2>4, BatchType
      <3>2. task' = [task EXCEPT ![t].state = "running", ![t].batch = b] /\ ready' = Tail(ready)
        BY <1>8, <2>4 DEF Begin
      <3>3. UNCHANGED <<table, retryAfter, overtaken>>
        BY <1>8 DEF Begin
      <3> HIDE DEF b
      <3>4. /\ task'[t] = [task[t] EXCEPT !.state = "running", !.batch = b]
            /\ task' = [task EXCEPT ![t] = task'[t]]
        BY <3>2, TaskEffect
      <3>5. /\ task'[t] \in TaskRows /\ task'[t].state = "running"
            /\ task'[t].key \in Keys /\ task'[t].batch \in Batches
        BY <2>1, <3>1, <3>4 DEF TaskRows
      <3>6. QED
        BY <1>4, <2>2, <3>2, <3>3, <3>4, <3>5 DEF LoopType
    <2>5. QED
      BY <2>3, <2>4
  <1>9. ASSUME NEW t \in Tasks, Save(t)
        PROVE  LoopType'
    <2>1. ready' \in Seq(Tasks)
      BY <1>6, <1>9 DEF Save, LoopType
    <2>2. QED
      BY <1>7, <1>9, <2>1 DEF Save, counts, Outcomes
  <1>10. ASSUME NEW t \in Tasks, Fail(t)
         PROVE  LoopType'
    <2>1. ready' \in Seq(Tasks)
      BY <1>6, <1>10 DEF Fail, LoopType
    <2>2. QED
      BY <1>7, <1>10, <2>1 DEF Fail, counts, Outcomes
  <1>11. ASSUME NEW t \in Tasks, Callback(t)
         PROVE  LoopType'
    <2>1. Tail(ready) \in Seq(Tasks)
      BY <1>5, <1>11 DEF Callback
    <2>2. task[t].key \in Keys
      BY <1>11 DEF Callback, LoopType
    <2>3. table' \in [Keys -> Tasks \cup {Nothing}]
      BY <1>11 DEF Callback, Untrack, LoopType
    <2>4. retryAfter' \subseteq Keys
      <3>1. task[t].outcome \in Outcomes
        BY <1>11 DEF Callback, LoopType
      <3>2. QED
        BY <1>11, <2>2, <3>1 DEF Callback, Outcomes, LoopType
    <2>5. QED
      BY <1>4, <1>11, <2>1, <2>3, <2>4, NoTaskType DEF Callback, LoopType
  <1>12. ASSUME NEW u \in Users, Cancel(u), overtaken' \subseteq Tasks
         PROVE  LoopType'
    <2>1. \A t \in Tasks : /\ task'[t] \in TaskRows /\ task'[t].state = task[t].state
                           /\ task'[t].key = task[t].key /\ task'[t].batch = task[t].batch
                           /\ task'[t].outcome = task[t].outcome
      BY <1>12 DEF Cancel, LoopType, TaskRows
    <2>2. task' \in [Tasks -> TaskRows]
      BY <1>12, <2>1 DEF Cancel
    <2>3. retryAfter' \subseteq Keys /\ UNCHANGED <<ready, table>>
      BY <1>12 DEF Cancel, LoopType
    <2>4. QED
      BY <1>12, <2>1, <2>2, <2>3 DEF LoopType
  <1>13. ASSUME NEW u \in Users, ResetProfile(u) \/ DeleteRecord(u)
         PROVE  LoopType'
    BY <1>12, <1>13 DEF ResetProfile, DeleteRecord, BumpProfile, LoopType
  <1>14. CASE Restart
    BY <1>14, NoTaskType DEF Restart, LoopType
  <1>15. ASSUME NEW k \in Keys, RetryPasses(k)
         PROVE  LoopType'
    BY <1>15 DEF RetryPasses, LoopType
  <1>16. ASSUME NEW u \in Users, RestPasses(u)
         PROVE  LoopType'
    BY <1>16 DEF RestPasses, loop, LoopType
  <1>17. CASE UNCHANGED vars
    BY <1>17 DEF vars, loop, LoopType
  <1>18. QED
    BY <1>2, <1>3, <1>8, <1>9, <1>10, <1>11, <1>13, <1>14, <1>15, <1>16, <1>17
    DEF Next, Reflect

\* Every step keeps the types of the tables.
LEMMA StoreStep == ASSUME LoopType, StoreType, [Next]_vars PROVE StoreType'
  <1>1. ASSUME UNCHANGED store, {interactions', commands', restarts'} \subseteq Nat
        PROVE  StoreType'
    BY <1>1 DEF store, StoreType
  <1>2. ASSUME NEW k \in Keys, NEW meaningful \in BOOLEAN, Interact(k, meaningful)
        PROVE  StoreType'
    <2>1. PICK e \in EventRows :
            /\ interactions' = interactions + 1
            /\ \/ /\ events' = TrimEvents(events \cup {e}, e.guild, e.user)
                  /\ relationships' = relationships \cup {k[2]}
               \/ UNCHANGED <<events, relationships>>
      BY <1>2, InteractTables
    <2>2. events' \in SUBSET (events \cup {e})
      BY <2>1, TrimSubset
    <2>3. IsFiniteSet(events')
      BY <2>2, FS_AddElement, FS_Subset DEF StoreType
    <2>4. relationships' \subseteq Users
      BY <2>1 DEF StoreType, Keys
    <2>5. QED
      BY <1>2, <2>1, <2>2, <2>3, <2>4 DEF Interact, StoreType
  <1>3. ASSUME NEW t \in Tasks, Save(t)
        PROVE  StoreType'
    <2>1. CASE UNCHANGED store
      BY <1>1, <1>3, <2>1 DEF Save, counts, StoreType
    <2>2. CASE MaySave(t)
      <3>1. task[t].key \in Places \X Users /\ task[t].batch \in Batches
        BY <1>3 DEF Save, LoopType, Keys
      <3>2. /\ task[t].key[1] \in Places /\ task[t].key[2] \in Users
            /\ task[t].batch.events \subseteq EventRows
        BY <3>1 DEF Batches
      <3>3. events' \in SUBSET events
        BY <1>3, <2>2 DEF Save
      <3>4. IsFiniteSet(events')
        BY <3>3, FS_Subset DEF StoreType
      <3>5. QED
        BY <1>3, <2>2, <3>2, <3>3, <3>4 DEF Save, counts, StoreType
    <2>3. QED
      BY <1>3, <2>1, <2>2 DEF Save
  <1>4. ASSUME NEW t \in Tasks, Begin(t) \/ Fail(t) \/ Callback(t)
        PROVE  StoreType'
    BY <1>1, <1>4 DEF Begin, Fail, Callback, counts, StoreType
  <1>5. CASE Sweep
    BY <1>1, <1>5 DEF Sweep, counts, StoreType
  <1>6. ASSUME NEW u \in Users, ResetProfile(u)
        PROVE  StoreType'
    <2>1. events' \in SUBSET events
      BY <1>6 DEF ResetProfile, EventsOfOthers
    <2>2. IsFiniteSet(events')
      BY <2>1, FS_Subset DEF StoreType
    <2>3. QED
      BY <1>6, <2>1, <2>2 DEF ResetProfile, BumpProfile, Command, StoreType
  <1>7. ASSUME NEW u \in Users, DeleteRecord(u)
        PROVE  StoreType'
    BY <1>7 DEF DeleteRecord, BumpProfile, Command, store, StoreType
  <1>8. CASE Restart
    BY <1>1, <1>8 DEF Restart, StoreType
  <1>9. ASSUME NEW k \in Keys, RetryPasses(k)
        PROVE  StoreType'
    BY <1>1, <1>9 DEF RetryPasses, counts, StoreType
  <1>10. ASSUME NEW u \in Users, RestPasses(u)
         PROVE  StoreType'
    BY <1>10 DEF RestPasses, counts, StoreType
  <1>11. CASE UNCHANGED vars
    BY <1>1, <1>11 DEF vars, counts, StoreType
  <1>12. QED
    BY <1>2, <1>3, <1>4, <1>5, <1>6, <1>7, <1>8, <1>9, <1>10, <1>11 DEF Next, Reflect

\* Every variable has its type in every state, and the events are finitely many.
LEMMA TypesAlways == Spec => [](LoopType /\ StoreType)
  BY InitTypes, LoopStep, StoreStep, PTL DEF Spec

\* Every variable keeps its type.
THEOREM TypeCorrect == Spec => []TypeOK
  <1>1. LoopType /\ StoreType => TypeOK
    BY DEF LoopType, StoreType, TypeOK
  <1>2. QED
    BY <1>1, TypesAlways, PTL

-----------------------------------------------------------------------------
(* Relationships come from interactions.                                   *)

\* Ids grow, and whoever has a pending event has a relationship.
EventsInv ==
  \A e \in events : e.id <= interactions /\ e.user \in relationships

\* The user of a reflection that saves has a relationship already.
LEMMA SaverIsRelated ==
  ASSUME LoopType, EventsInv, NEW t \in Tasks, Save(t), MaySave(t)
  PROVE  task[t].key[2] \in relationships
  BY DEF EventsInv, MaySave, Pending, PendingOf

\* An event that is recorded is the newest of all.
LEMMA RecordedIsNewest ==
  ASSUME StoreType, EventsInv, NEW e, e.id = interactions + 1
  PROVE  e \in TrimEvents(events \cup {e}, e.guild, e.user) /\ e \notin events
  <1>1. interactions \in Nat /\ \A q \in events : q.id \in Nat /\ q.id <= interactions
    BY DEF StoreType, EventRows, EventsInv
  <1>2. \A q \in events \cup {e} : ~(q.id > e.id)
    BY <1>1
  <1>3. e \notin events
    BY <1>1
  <1>4. QED
    BY <1>2, <1>3, NewestSurvives

\* Events only leave the table, unless an interaction records one.
LEMMA EventsStep == LoopType /\ StoreType /\ EventsInv /\ [Next]_vars => EventsInv'
  <1> SUFFICES ASSUME LoopType, StoreType, EventsInv, [Next]_vars
               PROVE  EventsInv'
    OBVIOUS
  <1>1. ASSUME events' \subseteq events, relationships \subseteq relationships',
               UNCHANGED interactions
        PROVE  EventsInv'
    BY <1>1 DEF EventsInv
  <1>2. ASSUME NEW k \in Keys, NEW meaningful \in BOOLEAN, Interact(k, meaningful)
        PROVE  EventsInv'
    <2>1. PICK e \in EventRows :
            /\ e.id = interactions + 1 /\ e.user = k[2] /\ interactions' = interactions + 1
            /\ \/ /\ events' = TrimEvents(events \cup {e}, e.guild, e.user)
                  /\ relationships' = relationships \cup {k[2]}
               \/ UNCHANGED <<events, relationships>>
      BY <1>2, InteractTables
    <2>2. events' \subseteq events \cup {e}
      BY <2>1, TrimSubset
    <2>3. \A q \in events \cup {e} : q.id \in Nat /\ interactions \in Nat
      BY DEF StoreType, EventRows
    <2>4. QED
      BY <2>1, <2>2, <2>3 DEF EventsInv
  <1>3. ASSUME NEW t \in Tasks, Save(t)
        PROVE  EventsInv'
    BY <1>1, <1>3 DEF Save, store, counts
  <1>4. ASSUME NEW u \in Users, ResetProfile(u)
        PROVE  EventsInv'
    BY <1>4 DEF ResetProfile, EventsOfOthers, EventsInv
  <1>5. ASSUME NEW u \in Users, DeleteRecord(u)
        PROVE  EventsInv'
    BY <1>1, <1>5 DEF DeleteRecord, store
  <1>6. ASSUME NEW t \in Tasks, Begin(t) \/ Fail(t) \/ Callback(t)
        PROVE  EventsInv'
    BY <1>1, <1>6 DEF Begin, Fail, Callback, store, counts
  <1>7. ASSUME NEW k \in Keys, RetryPasses(k)
        PROVE  EventsInv'
    BY <1>1, <1>7 DEF RetryPasses, store, counts
  <1>8. ASSUME NEW u \in Users, RestPasses(u)
        PROVE  EventsInv'
    BY <1>1, <1>8 DEF RestPasses, counts
  <1>9. CASE Sweep
    BY <1>1, <1>9 DEF Sweep, store, counts
  <1>10. CASE Restart
    BY <1>1, <1>10 DEF Restart, store
  <1>11. CASE UNCHANGED vars
    BY <1>1, <1>11 DEF vars, store, counts
  <1>12. QED
    BY <1>2, <1>3, <1>4, <1>5, <1>6, <1>7, <1>8, <1>9, <1>10, <1>11 DEF Next, Reflect

\* A relationship comes into being with an interaction, never with a save: a
\* reflection that a reset has overtaken finds no event left and is declined.
THEOREM RelationshipsNeedInteractions == Spec => RelationshipNeedsInteraction
  <1> DEFINE Grounded == \A u \in relationships' \ relationships :
                           \E e \in events' \ events : e.user = u
  <1>1. Init => EventsInv
    BY DEF Init, EventsInv
  <1>2. LoopType /\ StoreType /\ EventsInv /\ [Next]_vars => Grounded
    <2> SUFFICES ASSUME LoopType, StoreType, EventsInv, [Next]_vars
                 PROVE  Grounded
      OBVIOUS
    <2>1. ASSUME relationships' \subseteq relationships
          PROVE  Grounded
      BY <2>1
    <2>2. ASSUME NEW k \in Keys, NEW meaningful \in BOOLEAN, Interact(k, meaningful)
          PROVE  Grounded
      <3>1. PICK e \in EventRows :
              /\ e.id = interactions + 1 /\ e.user = k[2]
              /\ \/ /\ events' = TrimEvents(events \cup {e}, e.guild, e.user)
                    /\ relationships' = relationships \cup {k[2]}
                 \/ UNCHANGED <<events, relationships>>
        BY <2>2, InteractTables
      <3>2. QED
        BY <3>1, RecordedIsNewest
    <2>3. ASSUME NEW t \in Tasks, Save(t)
          PROVE  Grounded
      BY <2>1, <2>3, SaverIsRelated DEF Save, store
    <2>4. ASSUME NEW u \in Users, ResetProfile(u) \/ DeleteRecord(u) \/ RestPasses(u)
          PROVE  Grounded
      BY <2>1, <2>4 DEF ResetProfile, DeleteRecord, RestPasses, store
    <2>5. ASSUME NEW t \in Tasks, Begin(t) \/ Fail(t) \/ Callback(t)
          PROVE  Grounded
      BY <2>1, <2>5 DEF Begin, Fail, Callback, store
    <2>6. ASSUME NEW k \in Keys, RetryPasses(k)
          PROVE  Grounded
      BY <2>1, <2>6 DEF RetryPasses, store
    <2>7. CASE Sweep \/ Restart \/ UNCHANGED vars
      BY <2>1, <2>7 DEF Sweep, Restart, vars, store
    <2>8. QED
      BY <2>2, <2>3, <2>4, <2>5, <2>6, <2>7 DEF Next, Reflect
  <1>3. QED
    BY <1>1, <1>2, EventsStep, TypesAlways, PTL DEF Spec, RelationshipNeedsInteraction

-----------------------------------------------------------------------------
(* Stale reflections.                                                      *)

\* The batch of a task that runs was read at the present revision or an earlier
\* one, and at an earlier one if the task has been overtaken.
RevisionInv ==
  \A t \in Tasks :
    /\ task[t].state = "running" =>
         task[t].batch.revision <= profileRevision[task[t].key[2]]
    /\ t \in overtaken =>
         /\ task[t].state \in {"running", "finished"}
         /\ task[t].state = "running" =>
              task[t].batch.revision < profileRevision[task[t].key[2]]

\* RevisionInv is inductive.
LEMMA RevisionStep == LoopType /\ StoreType /\ RevisionInv /\ [Next]_vars => RevisionInv'
  <1> SUFFICES ASSUME LoopType, StoreType, RevisionInv, [Next]_vars
               PROVE  RevisionInv'
    OBVIOUS
  <1>1. ASSUME \A t \in Tasks : \/ task'[t] = task[t]
                                \/ task[t] = NoTask /\ task'[t].state = "queued"
                                \/ task'[t].state = "finished",
               UNCHANGED <<profileRevision, overtaken>>
        PROVE  RevisionInv'
    BY <1>1 DEF RevisionInv, NoTask
  <1>2. ASSUME NEW ks \in Seq(Keys), Launch(ks), UNCHANGED <<profileRevision, overtaken>>
        PROVE  RevisionInv'
    BY <1>1, <1>2, LaunchEffect
  <1>3. ASSUME NEW k \in Keys, NEW meaningful \in BOOLEAN, Interact(k, meaningful)
        PROVE  RevisionInv'
    BY <1>2, <1>3, InteractLaunches DEF Interact
  <1>4. CASE Sweep
    BY <1>2, <1>4, SweepLaunches DEF Sweep, store, counts
  <1>5. ASSUME NEW t \in Tasks, NEW how, Finish(t, how),
               UNCHANGED <<profileRevision, overtaken>>
        PROVE  RevisionInv'
    <2>1. task[t] \in TaskRows
      BY DEF LoopType
    <2>2. task'[t].state = "finished"
      BY <1>5, <2>1, TaskEffect DEF TaskRows
    <2>3. \A o \in Tasks \ {t} : task'[o] = task[o]
      BY <1>5 DEF Finish, LoopType
    <2>4. QED
      BY <1>1, <1>5, <2>2, <2>3
  <1>6. ASSUME NEW t \in Tasks, Save(t) \/ Fail(t)
        PROVE  RevisionInv'
    BY <1>5, <1>6 DEF Save, Fail, store, counts
  <1>7. ASSUME NEW t \in Tasks, Begin(t)
        PROVE  RevisionInv'
    <2>1. task[t].state = "queued" /\ UNCHANGED <<profileRevision, overtaken>>
      BY <1>7 DEF Begin, store, counts
    <2>2. CASE task[t].cancelled \/ Pending(events, task[t].key) = {}
      BY <1>5, <1>7, <2>1, <2>2 DEF Begin
    <2>3. CASE ~(task[t].cancelled \/ Pending(events, task[t].key) = {})
      <3> DEFINE b == Batch(task[t].key)
      <3>1. task' = [task EXCEPT ![t].state = "running", ![t].batch = b]
        BY <1>7, <2>3 DEF Begin
      <3>2. b.revision = profileRevision[task[t].key[2]]
        BY DEF Batch
      <3>3. profileRevision[task[t].key[2]] \in Nat
        BY <2>1 DEF LoopType, StoreType, Keys
      <3> HIDE DEF b
      <3>4. /\ task'[t] = [task[t] EXCEPT !.state = "running", !.batch = b]
            /\ task' = [task EXCEPT ![t] = task'[t]]
        BY <3>1, TaskEffect
      <3>5. task[t] \in TaskRows
        BY DEF LoopType
      <3>6. /\ task'[t].state = "running" /\ task'[t].batch = b
            /\ task'[t].key = task[t].key
        BY <3>4, <3>5 DEF TaskRows
      <3>7. \A o \in Tasks \ {t} : task'[o] = task[o]
        BY <3>4 DEF LoopType
      <3>8. t \notin overtaken
        BY <2>1 DEF RevisionInv
      <3>9. QED
        BY <2>1, <3>2, <3>3, <3>6, <3>7, <3>8 DEF RevisionInv
    <2>4. QED
      BY <2>2, <2>3
  <1>8. ASSUME NEW t \in Tasks, Callback(t)
        PROVE  RevisionInv'
    BY <1>8, NoTaskType DEF Callback, store, RevisionInv, LoopType
  <1>9. ASSUME NEW u \in Users, Cancel(u)
        PROVE  \A t \in Tasks : /\ task'[t].state = task[t].state
                                /\ task'[t].key = task[t].key
                                /\ task'[t].batch = task[t].batch
    BY <1>9 DEF Cancel, LoopType, TaskRows
  <1>10. ASSUME NEW u \in Users, Cancel(u), BumpProfile(u)
         PROVE  RevisionInv'
    <2>1. \A v \in Users : /\ profileRevision[v] \in Nat
                           /\ profileRevision'[v] = IF v = u THEN profileRevision[v] + 1
                                                             ELSE profileRevision[v]
      BY <1>10 DEF BumpProfile, StoreType
    <2>2. \A t \in Tasks : task[t].state = "running" =>
                              task[t].key[2] \in Users /\ task[t].batch.revision \in Nat
      BY DEF LoopType, Keys, Batches
    <2>3. overtaken' = overtaken \cup
             {t \in Tasks : task[t].state = "running" /\ task[t].key[2] = u}
      BY <1>10 DEF BumpProfile
    <2>4. QED
      BY <1>9, <1>10, <2>1, <2>2, <2>3 DEF RevisionInv
  <1>11. ASSUME NEW u \in Users, Cancel(u), UNCHANGED <<profileRevision, overtaken>>
         PROVE  RevisionInv'
    BY <1>9, <1>11 DEF RevisionInv
  <1>12. ASSUME NEW u \in Users, ResetProfile(u) \/ DeleteRecord(u)
         PROVE  RevisionInv'
    BY <1>10, <1>11, <1>12 DEF ResetProfile, DeleteRecord, store
  <1>13. CASE Restart
    BY <1>13, NoTaskType DEF Restart, RevisionInv
  <1>14. ASSUME NEW k \in Keys, RetryPasses(k)
         PROVE  RevisionInv'
    BY <1>14 DEF RetryPasses, store, RevisionInv
  <1>15. ASSUME NEW u \in Users, RestPasses(u)
         PROVE  RevisionInv'
    BY <1>15 DEF RestPasses, loop, RevisionInv
  <1>16. CASE UNCHANGED vars
    BY <1>16 DEF vars, loop, store, RevisionInv
  <1>17. QED
    BY <1>3, <1>4, <1>6, <1>7, <1>8, <1>12, <1>13, <1>14, <1>15, <1>16 DEF Next, Reflect

\* What is learned comes from a reflection that no reset and no deletion of its
\* user has overtaken, for the revision that it was read at has not moved.
THEOREM StaleReflectionsNeverLearn == Spec => StaleReflectionsLearnNothing
  <1> DEFINE Fresh == \A l \in learned' \ learned :
                        \E t \in Tasks \ overtaken :
                          /\ task[t].state = "running" /\ task'[t].state = "finished"
                          /\ task[t].key = <<l.guild, l.user>>
  <1>1. Init => RevisionInv
    BY NoTaskType DEF Init, RevisionInv
  <1>2. LoopType /\ StoreType /\ RevisionInv /\ [Next]_vars => Fresh
    <2> SUFFICES ASSUME LoopType, StoreType, RevisionInv, [Next]_vars
                 PROVE  Fresh
      OBVIOUS
    <2>1. ASSUME learned' \subseteq learned
          PROVE  Fresh
      BY <2>1
    <2>2. ASSUME NEW t \in Tasks, Save(t)
          PROVE  Fresh
      <3>1. CASE UNCHANGED store
        BY <2>1, <3>1 DEF store
      <3>2. CASE MaySave(t)
        <4> DEFINE k == task[t].key
                   l == [guild |-> k[1], user |-> k[2], events |-> task[t].batch.events]
        <4>1. learned' = learned \cup {l}
          BY <2>2, <3>2 DEF Save
        <4>2. task[t].state = "running" /\ k \in Keys /\ task[t].batch \in Batches
          BY <2>2 DEF Save, LoopType
        <4>3. k = <<l.guild, l.user>>
          BY <4>2 DEF Keys
        <4>4. task'[t].state = "finished"
          BY <2>2 DEF Save, Finish, LoopType, TaskRows
        <4>5. t \notin overtaken
          <5>1. profileRevision[k[2]] = task[t].batch.revision
            BY <3>2 DEF MaySave
          <5>2. profileRevision[k[2]] \in Nat
            BY <4>2 DEF Keys, StoreType
          <5>3. QED
            BY <4>2, <5>1, <5>2 DEF RevisionInv
        <4>6. QED
          BY <4>1, <4>2, <4>3, <4>4, <4>5
      <3>3. QED
        BY <2>2, <3>1, <3>2 DEF Save
    <2>3. ASSUME NEW k \in Keys, NEW meaningful \in BOOLEAN,
                 Interact(k, meaningful) \/ RetryPasses(k)
          PROVE  Fresh
      BY <2>1, <2>3 DEF Interact, RetryPasses, store
    <2>4. ASSUME NEW u \in Users, ResetProfile(u) \/ DeleteRecord(u) \/ RestPasses(u)
          PROVE  Fresh
      BY <2>1, <2>4 DEF ResetProfile, DeleteRecord, RestPasses, store
    <2>5. ASSUME NEW t \in Tasks, Begin(t) \/ Fail(t) \/ Callback(t)
          PROVE  Fresh
      BY <2>1, <2>5 DEF Begin, Fail, Callback, store
    <2>6. CASE Sweep \/ Restart \/ UNCHANGED vars
      BY <2>1, <2>6 DEF Sweep, Restart, vars, store
    <2>7. QED
      BY <2>2, <2>3, <2>4, <2>5, <2>6 DEF Next, Reflect
  <1>3. QED
    BY <1>1, <1>2, RevisionStep, TypesAlways, PTL DEF Spec, StaleReflectionsLearnNothing
==============================================================================
