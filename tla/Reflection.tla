------------------------------ MODULE Reflection ------------------------------
(***************************************************************************)
(* Background reflections: the task table of AgentCore                     *)
(* (agentbot/orchestrator.py:714-846, 954-968) over the social tables of   *)
(* MemoryStore (agentbot/memory.py).                                       *)
(*                                                                         *)
(* A reflection is an asyncio task per (guild, user).  It reads a batch of *)
(* pending interactions, awaits the provider, and saves what it learned in *)
(* one transaction that first compares the profile revision.  A task that  *)
(* ends is done() at once, but its done-callback, which takes it out of    *)
(* the table, runs with the event loop's next round: between the two,      *)
(* whatever was already ready to run sees a finished task in the table.    *)
(***************************************************************************)
EXTENDS SocialTable, Sequences

CONSTANTS Tasks,               \* bound: reflections that exist at a time
          Users, Places,       \* users; guilds and the direct messages
          Nothing,             \* no task, no key, no batch, no outcome
          MaxPendingRequests,  \* MAX_PENDING_REQUESTS
          ReflectEvery,        \* RELATIONSHIP_REFLECT_EVERY
          MeaningfulThreshold, \* RELATIONSHIP_MEANINGFUL_EVENT_THRESHOLD
          MaxBatch,            \* RELATIONSHIP_REFLECT_MAX_EVENTS, fitted
          MaxInteractions,     \* bound: interactions in a behaviour
          MaxCommands,         \* bound: slash commands in a behaviour
          MaxRestarts          \* bound: process restarts in a behaviour

ASSUME ReflectionAssumption ==
  /\ Nothing \notin Tasks
  /\ MaxPendingRequests \in Nat \ {0}
  /\ ReflectEvery \in Nat \ {0, 1}
  /\ MeaningfulThreshold \in Nat \ {0}
  /\ MaxBatch \in Nat \ {0}
  /\ {MaxInteractions, MaxCommands, MaxRestarts} \subseteq Nat

Keys == Places \X Users

VARIABLES
  task,            \* each task: [state, key, batch, outcome, cancelled]
  ready,           \* first steps and done-callbacks in the loop's ready queue
  table,           \* _relationship_tasks
  retryAfter,      \* keys whose _relationship_retry_after has not passed
  events,          \* table relationship_events: [id, guild, user, meaningful]
  relationships,   \* users with a row in table relationships
  resting,         \* users reflected within RELATIONSHIP_REFLECT_MIN_SECONDS
  profileRevision, \* table profile_state
  learned,         \* profile and journal rows: [guild, user, events]
  interactions, commands, restarts,  \* counted against the bounds
  overtaken        \* history: tasks whose batch precedes a revision bump

loop   == <<task, ready, table, retryAfter>>
store  == <<events, relationships, resting, profileRevision, learned>>
counts == <<interactions, commands, restarts>>
vars   == <<loop, store, counts, overtaken>>

NoTask == [state |-> "none", key |-> Nothing, batch |-> Nothing,
           outcome |-> Nothing, cancelled |-> FALSE]

Live(t)  == task[t].state \in {"queued", "running"}
Tracked  == {k \in Keys : table[k] # Nothing}

Init ==
  /\ task = [t \in Tasks |-> NoTask]
  /\ ready = <<>>
  /\ table = [k \in Keys |-> Nothing]
  /\ retryAfter = {}
  /\ events = {}
  /\ relationships = {}
  /\ resting = {}
  /\ profileRevision = [u \in Users |-> 0]
  /\ learned = {}
  /\ interactions = 0 /\ commands = 0 /\ restarts = 0
  /\ overtaken = {}

-----------------------------------------------------------------------------
(* Scheduling.                                                             *)

Pending(evs, k) == PendingOf(evs, k[1], k[2])

\* relationship_reflection_due, and each row of due_relationship_users.
Due(evs, rels, k) ==
  LET pending == Pending(evs, k)
  IN  /\ k[2] \in rels \ resting
      /\ \/ Cardinality(pending) >= ReflectEvery
         \/ Cardinality({e \in pending : e.meaningful}) >= MeaningfulThreshold

\* A task that is done() does not stand in the way, called back or not.
MaySchedule(evs, rels, k) ==
  /\ table[k] = Nothing \/ ~Live(table[k])
  /\ k \notin retryAfter
  /\ Due(evs, rels, k)
  /\ Cardinality(Tracked) < MaxPendingRequests

\* create_task for each key of a sequence: the table's entry is overwritten,
\* and the first step joins the ready queue.
Launch(ks) ==
  \E new \in [1..Len(ks) -> {t \in Tasks : task[t] = NoTask}] :
    /\ \A i, j \in 1..Len(ks) : new[i] = new[j] => i = j
    /\ task' = [t \in Tasks |->
                  IF \E i \in 1..Len(ks) : new[i] = t
                    THEN [NoTask EXCEPT !.state = "queued",
                            !.key = ks[CHOOSE i \in 1..Len(ks) : new[i] = t]]
                    ELSE task[t]]
    /\ table' = [k \in Keys |->
                   IF \E i \in 1..Len(ks) : ks[i] = k
                     THEN new[CHOOSE i \in 1..Len(ks) : ks[i] = k]
                     ELSE table[k]]
    /\ ready' = ready \o new
    /\ UNCHANGED retryAfter

\* The end of a delivered turn whose profile epoch is current (Turn's Deliver):
\* the interaction is stored and a reflection scheduled if one has become due.
Interact(k, meaningful) ==
  /\ interactions < MaxInteractions
  /\ interactions' = interactions + 1
  /\ LET e == [id |-> interactions', guild |-> k[1], user |-> k[2],
               meaningful |-> meaningful]
     IN  /\ events' = EventsAfter(events, relationships, e)
         /\ relationships' = RelationshipsAfter(relationships, k[2])
  /\ Launch(IF MaySchedule(events', relationships', k) THEN <<k>> ELSE <<>>)
  /\ UNCHANGED <<resting, profileRevision, learned, commands, restarts, overtaken>>

\* schedule_due_relationship_reflections, on_ready and every hour: the due keys
\* whose oldest pending event is oldest, as many as the table has room for.
Room == MaxPendingRequests - Cardinality(Tracked)
Oldest(k) == CHOOSE e \in Pending(events, k) :
               \A o \in Pending(events, k) : e.id <= o.id
DueKeys == {k \in Keys : Due(events, relationships, k)}
Candidates ==
  {k \in DueKeys :
     Cardinality({j \in DueKeys : Oldest(j).id < Oldest(k).id}) < Room}

Sweep ==
  /\ Candidates # {}
  /\ LET chosen == {k \in Candidates : MaySchedule(events, relationships, k)}
     IN  \E ks \in [1..Cardinality(chosen) -> chosen] :
           /\ \A i, j \in DOMAIN ks : i < j => Oldest(ks[i]).id < Oldest(ks[j]).id
           /\ Launch(ks)
  /\ UNCHANGED <<store, counts, overtaken>>

-----------------------------------------------------------------------------
(* One reflection.                                                         *)

Finish(t, how) ==
  task' = [task EXCEPT ![t].state = "finished", ![t].outcome = how]

\* Mutant: the batch does not record the revision it was read at.
BatchUnversioned(k) ==
  LET pending == Pending(events, k)
      chosen  == {e \in pending : Cardinality({o \in pending : o.id < e.id}) < MaxBatch}
  IN  [revision |-> Nothing, events |-> chosen,
       through  |-> (CHOOSE e \in chosen : \A o \in chosen : o.id <= e.id).id]

\* relationship_reflection_batch: the oldest pending events.
Batch(k) ==
  LET pending == Pending(events, k)
      chosen  == {e \in pending : Cardinality({o \in pending : o.id < e.id}) < MaxBatch}
  IN  [revision |-> profileRevision[k[2]], events |-> chosen,
       through  |-> (CHOOSE e \in chosen : \A o \in chosen : o.id <= e.id).id]

\* The task's first step.  A task cancelled before it began never begins.
Begin(t) ==
  /\ ready # <<>> /\ Head(ready) = t
  /\ task[t].state = "queued"
  /\ IF task[t].cancelled \/ Pending(events, task[t].key) = {}
       THEN /\ Finish(t, IF task[t].cancelled THEN "cancelled" ELSE "ended")
            /\ ready' = Append(Tail(ready), t)
       ELSE /\ task' = [task EXCEPT ![t].state = "running",
                                    ![t].batch = Batch(task[t].key)]
            /\ ready' = Tail(ready)
  /\ UNCHANGED <<table, retryAfter, store, counts, overtaken>>

\* Mutant: the batch is saved without comparing the revision.
MaySaveAnyRevision(t) ==
  \E e \in Pending(events, task[t].key) : e.id <= task[t].batch.through

\* Mutant: whatever the provider answered is saved.
MaySaveAlways(t) == TRUE

\* save_relationship_reflection declines when the revision has moved or no
\* event of the batch is left.
MaySave(t) ==
  /\ profileRevision[task[t].key[2]] = task[t].batch.revision
  /\ \E e \in Pending(events, task[t].key) : e.id <= task[t].batch.through

\* The provider answered and the answer parses: one transaction stores what was
\* learned, marks the user reflected and consumes the events up to the batch's
\* last one.
Save(t) ==
  /\ task[t].state = "running" /\ ~task[t].cancelled
  /\ LET k == task[t].key
         b == task[t].batch
     IN  IF MaySave(t)
           THEN /\ learned' = learned \cup
                     {[guild |-> k[1], user |-> k[2], events |-> b.events]}
                /\ relationships' = relationships \cup {k[2]}
                /\ resting' = resting \cup {k[2]}
                /\ events' = events \ {e \in Pending(events, k) : e.id <= b.through}
                /\ UNCHANGED profileRevision
           ELSE UNCHANGED store
  /\ Finish(t, "ended")
  /\ ready' = Append(ready, t)
  /\ UNCHANGED <<table, retryAfter, counts, overtaken>>

\* The provider, the parser or the transaction failed, or the cancellation has
\* reached the task.
Fail(t) ==
  /\ task[t].state = "running"
  /\ Finish(t, IF task[t].cancelled THEN "cancelled" ELSE "failed")
  /\ ready' = Append(ready, t)
  /\ UNCHANGED <<table, retryAfter, store, counts, overtaken>>

\* Mutant: the callback leaves the entry of the task.
ForgetNothing(k) == UNCHANGED table

Untrack(k) == table' = [table EXCEPT ![k] = Nothing]

\* _relationship_done: the key leaves the table, whichever task it now names.
Callback(t) ==
  /\ ready # <<>> /\ Head(ready) = t
  /\ task[t].state = "finished"
  /\ ready' = Tail(ready)
  /\ Untrack(task[t].key)
  /\ retryAfter' = CASE task[t].outcome = "failed"    -> retryAfter \cup {task[t].key}
                     [] task[t].outcome = "ended"     -> retryAfter \ {task[t].key}
                     [] task[t].outcome = "cancelled" -> retryAfter
  /\ task' = [task EXCEPT ![t] = NoTask]
  /\ overtaken' = overtaken \ {t}
  /\ UNCHANGED <<store, counts>>

\* Ten minutes after a failure.
RetryPasses(k) ==
  /\ k \in retryAfter
  /\ retryAfter' = retryAfter \ {k}
  /\ UNCHANGED <<task, ready, table, store, counts, overtaken>>

RestPasses(u) ==
  /\ u \in resting
  /\ resting' = resting \ {u}
  /\ UNCHANGED <<loop, events, relationships, profileRevision, learned, counts, overtaken>>

-----------------------------------------------------------------------------
(* Commands and restarts.                                                  *)

\* cancel_relationship_reflections_for_user: the tasks the table knows of.
Cancel(u) ==
  /\ task' = [t \in Tasks |->
                IF Live(t) /\ task[t].key[2] = u /\ table[task[t].key] = t
                  THEN [task[t] EXCEPT !.cancelled = TRUE] ELSE task[t]]
  /\ retryAfter' = {k \in retryAfter : k[2] # u}
  /\ UNCHANGED <<ready, table>>

Command == commands < MaxCommands /\ commands' = commands + 1

BumpProfile(u) ==
  /\ profileRevision' = [profileRevision EXCEPT ![u] = @ + 1]
  /\ overtaken' = overtaken \cup
       {t \in Tasks : task[t].state = "running" /\ task[t].key[2] = u}

EventsOfOthers(u) == {e \in events : e.user # u}

\* /profile reset
ResetProfile(u) ==
  /\ Command
  /\ Cancel(u)
  /\ events' = EventsOfOthers(u)
  /\ relationships' = relationships \ {u}
  /\ resting' = resting \ {u}
  /\ learned' = {l \in learned : l.user # u}
  /\ BumpProfile(u)
  /\ UNCHANGED <<interactions, restarts>>

\* /profile delete: the reflections are cancelled even if no record matches.
DeleteRecord(u) ==
  /\ Command
  /\ Cancel(u)
  /\ \/ UNCHANGED <<store, overtaken>>
     \/ \E l \in learned :
          /\ l.user = u
          /\ learned' = learned \ {l}
          /\ BumpProfile(u)
          /\ UNCHANGED <<events, relationships, resting>>
  /\ UNCHANGED <<interactions, restarts>>

\* The process stops and starts again: the database is what it was.
Restart ==
  /\ restarts < MaxRestarts
  /\ restarts' = restarts + 1
  /\ task' = [t \in Tasks |-> NoTask]
  /\ ready' = <<>>
  /\ table' = [k \in Keys |-> Nothing]
  /\ retryAfter' = {}
  /\ overtaken' = {}
  /\ UNCHANGED <<store, interactions, commands>>

Reflect(t) == Begin(t) \/ Save(t) \/ Fail(t) \/ Callback(t)

Next ==
  \/ \E k \in Keys : \/ \E meaningful \in BOOLEAN : Interact(k, meaningful)
                     \/ RetryPasses(k)
  \/ \E t \in Tasks : Reflect(t)
  \/ \E u \in Users : RestPasses(u) \/ ResetProfile(u) \/ DeleteRecord(u)
  \/ Sweep
  \/ Restart

Spec == Init /\ [][Next]_vars

(* The loop runs what is ready; the hourly sweep recurs and timers elapse;  *)
(* the provider does not fail a key's reflections for ever.                 *)
FairSpec ==
  /\ Spec
  /\ \A t \in Tasks : WF_vars(Begin(t)) /\ WF_vars(Callback(t))
                      /\ WF_vars(Save(t) \/ Fail(t))
  /\ \A k \in Keys :
       /\ WF_vars(RetryPasses(k))
       /\ SF_vars(\E t \in Tasks : task[t].key = k /\ Save(t))
  /\ \A u \in Users : WF_vars(RestPasses(u))
  /\ WF_vars(Sweep)

-----------------------------------------------------------------------------
(* Properties.                                                             *)

EventRows == [id : Nat, guild : Places, user : Users, meaningful : BOOLEAN]
Batches   == [revision : Nat, events : SUBSET EventRows, through : Nat]
TaskRows  == [state : {"none", "queued", "running", "finished"},
              key : Keys \cup {Nothing}, batch : Batches \cup {Nothing},
              outcome : {"ended", "failed", "cancelled", Nothing},
              cancelled : BOOLEAN]

\* The type of every variable; a task that runs has a key and a batch.
TypeOK ==
  /\ task \in [Tasks -> TaskRows]
  /\ \A t \in Tasks : task[t].state # "none" => task[t].key \in Keys
  /\ \A t \in Tasks : task[t].state = "running" => task[t].batch \in Batches
  /\ ready \in Seq(Tasks)
  /\ table \in [Keys -> Tasks \cup {Nothing}]
  /\ retryAfter \subseteq Keys
  /\ events \subseteq EventRows
  /\ relationships \subseteq Users
  /\ resting \subseteq Users
  /\ profileRevision \in [Users -> Nat]
  /\ learned \subseteq [guild : Places, user : Users, events : SUBSET EventRows]
  /\ {interactions, commands, restarts} \subseteq Nat
  /\ overtaken \subseteq Tasks

\* Only an interaction brings a relationship into being, although the save
\* upserts the row (memory.py:3127-3159): a reflection that a reset overtook
\* does not, so the ceiling on relationships cannot be exceeded that way.
RelationshipNeedsInteraction ==
  [][\A u \in relationships' \ relationships :
       \E e \in events' \ events : e.user = u]_vars

\* What is learned comes from a reflection whose batch no reset and no record
\* deletion of its user has overtaken (docs/DATA_MODEL.md:81-87), cancelled or
\* not: the table does not know of every task that runs.
StaleReflectionsLearnNothing ==
  [][\A l \in learned' \ learned :
       \E t \in Tasks \ overtaken :
         /\ task[t].state = "running" /\ task'[t].state = "finished"
         /\ task[t].key = <<l.guild, l.user>>]_vars

\* A key that is due does not stay so for ever: it is reflected, or its events
\* are erased or trimmed, across failures, cancellations and restarts ("startup
\* and maintenance sweeps schedule due reflections", README.md:248).
DueIsReflected ==
  \A k \in Keys : Due(events, relationships, k) ~> ~Due(events, relationships, k)

\* What README.md:389 and SECURITY.md:89 say of the reflection tasks.
ReflectionsBounded == Cardinality({t \in Tasks : Live(t)}) <= MaxPendingRequests
==============================================================================
