------------------------------- MODULE Process -------------------------------
(***************************************************************************)
(* The process around everything else (agentbot/app.py): it opens the      *)
(* database, admits messages through a rate limiter, gives out the slots   *)
(* for generations and shuts down.  What a task does besides waiting for   *)
(* its slots is the business of Turn, Reflection, Proactive, Generation.   *)
(*                                                                         *)
(* Tasks hold asyncio semaphores.  Each has one line, first come, first    *)
(* served; those at its front, up to its capacity, hold it.                *)
(***************************************************************************)
EXTENDS Limiter, Schema

CONSTANTS Replies,      \* message handlers: as many as request_slots
          Sweep,        \* the task of proactive_loop
          Reflections,  \* background reflections
          PairOf,       \* [Reflections -> pairs of guild and user]
          Concurrency,  \* global_concurrency
          Users,        \* keys of user_limiter
          Databases     \* what the process may find on its first start

ASSUME ProcessAssumption ==
  /\ Concurrency \in Nat \ {0}
  /\ IsFiniteSet(Reflections)
  /\ Replies \cap Reflections = {} /\ Sweep \notin Replies \cup Reflections

\* Nobody else writes version 7 into a database.
ASSUME DatabasesAssumption ==
  \A d \in Databases : d \in Database /\ (d.version = 7 => Clean(d))

VARIABLES phase,      \* what the process is doing
          db,         \* the database file
          left,       \* legacy rows that the migration has still to read
          moved,      \* what its new tables hold
          open,       \* the store is
          setting,    \* legacy identity it is configured with, while it opens
          line,       \* [Semaphores -> Seq(Tasks)]
          sending,    \* tasks that have their answer and deliver it
          cancelled,  \* tasks that have been cancelled and are still there
          resisted,   \* those of them that have outlasted a grace
          ended,      \* reflections that are done, their callback still to come
          unseen,     \* live ones that core.close will not or did not find
          greeting,   \* on_ready is waiting for apply_presence
          table,      \* of user_limiter
          served      \* user -> ages of what it was allowed since it has a window

store    == <<db, left, moved>>
work     == <<line, sending, cancelled, resisted, ended, unseen>>
limiting == <<table, served>>
vars     == <<phase, store, open, setting, work, greeting, limiting>>

Events     == Replies \cup {Sweep}      \* what _close_active_events collects
Background == {Sweep} \cup Reflections
Tasks      == Replies \cup Background
Semaphores == {"reflection", "background", "global"}

Capacity(s) ==
  CASE s = "reflection" -> 1
    [] s = "background" -> IF Concurrency > 1 THEN Concurrency - 1 ELSE 1
    [] s = "global"     -> Concurrency

\* Mutant: the common slot is taken before the background one.
PathGlobalFirst(t) ==
  CASE t \in Replies     -> <<"global">>
    [] t = Sweep         -> <<"global", "background">>
    [] t \in Reflections -> <<"reflection", "global", "background">>

\* The semaphores around provider.generate, outermost first.
Path(t) ==
  CASE t \in Replies     -> <<"global">>
    [] t = Sweep         -> <<"background", "global">>
    [] t \in Reflections -> <<"reflection", "background", "global">>

In(t, s)    == t \in ToSet(line[s])
Holds(t, s) == \E i \in DOMAIN line[s] : i <= Capacity(s) /\ line[s][i] = t
Alive(t)    == In(t, Head(Path(t))) \/ t \in sending
Living      == {t \in Tasks : Alive(t)}

Nobody == [s \in Semaphores |-> <<>>]
NoneServed == [u \in Users |-> <<>>]

Init ==
  /\ phase = "down" /\ db \in Databases /\ left = {} /\ moved = {}
  /\ open = FALSE /\ setting = NoIdentity
  /\ line = Nobody /\ sending = {} /\ cancelled = {} /\ resisted = {}
  /\ ended = {} /\ unseen = {}
  /\ greeting = FALSE /\ table = <<>> /\ served = NoneServed

-----------------------------------------------------------------------------
\* Starting.

\* A database of a later version, or of identities the setting does not choose
\* from, is left as it is.
Acceptable(requested) ==
  db.version <= 7 /\ (db.legacy => Selection(db, requested) # {})

Refuse ==
  /\ phase = "down"
  /\ \E requested \in Identities \cup {NoIdentity} : ~Acceptable(requested)
  /\ UNCHANGED vars

Start ==
  /\ phase = "down"
  /\ \E requested \in Identities \cup {NoIdentity} :
       Acceptable(requested) /\ setting' = requested
  /\ phase' = "opening" /\ open' = TRUE
  /\ UNCHANGED <<store, work, greeting, limiting>>

\* _migrate_v1_social_schema, in one transaction: a crash leaves the old tables.
Own == {r \in db.rows : r.of \in Selection(db, setting)}

MigrationBegins ==
  /\ phase = "opening" /\ db.legacy
  /\ phase' = "migrating" /\ left' = Own /\ moved' = {}
  /\ UNCHANGED <<db, open, setting, work, greeting, limiting>>

CarryOver ==
  /\ phase = "migrating"
  /\ \E r \in First(left) : left' = left \ {r} /\ moved' \in CarriedOver(moved, r)
  /\ UNCHANGED <<phase, db, open, setting, work, greeting, limiting>>

MigrationCommits ==
  /\ phase = "migrating" /\ left = {}
  /\ phase' = "opening" /\ db' = Migrated(db, moved) /\ moved' = {}
  /\ UNCHANGED <<left, open, setting, work, greeting, limiting>>

Opened ==
  /\ phase = "opening" /\ ~db.legacy
  /\ db' = IF db.version < 7 THEN Quarantined(db) ELSE db
  /\ phase' = "running" /\ setting' = NoIdentity
  /\ UNCHANGED <<left, moved, open, work, greeting, limiting>>

-----------------------------------------------------------------------------
\* Tasks and their slots.

\* New tasks, all of a kind, come to the first semaphore on their path.
Begun(ts) ==
  IF ts = {} THEN line
  ELSE LET s == Head(Path(CHOOSE t \in ts : TRUE))
       IN  [line EXCEPT ![s] = @ \o SetToSeq(ts)]

\* The next semaphore, once the ones before are held.
Acquire(t) ==
  /\ \E i \in 1..(Len(Path(t)) - 1) :
       /\ \A j \in 1..i : Holds(t, Path(t)[j])
       /\ ~In(t, Path(t)[i + 1])
       /\ line' = [line EXCEPT ![Path(t)[i + 1]] = Append(@, t)]
  /\ UNCHANGED <<phase, store, open, setting, sending, cancelled, resisted, ended,
                 unseen, greeting, limiting>>

\* Mutant: only the common slot is given back.
ReleasedCommon(t) == [line EXCEPT !["global"] = RemoveFirst(@, t)]

Released(t) == [s \in Semaphores |-> RemoveFirst(line[s], t)]

Gone(t) ==
  /\ line' = Released(t)
  /\ sending' = sending \ {t}
  /\ cancelled' = cancelled \ {t}
  /\ resisted' = resisted \ {t}
  /\ ended' = ended \cup ({t} \cap Reflections)
  /\ unseen' = unseen \ {t}
  /\ UNCHANGED <<phase, store, open, setting, greeting, limiting>>

\* The call comes back.  A reflection saves what it made of the answer at once,
\* the others have to send it first.
Return(t) ==
  /\ \A s \in ToSet(Path(t)) : Holds(t, s)
  /\ \/ Gone(t)
     \/ /\ t \in Events
        /\ line' = Released(t) /\ sending' = sending \cup {t}
        /\ UNCHANGED <<phase, store, open, setting, cancelled, resisted, ended, unseen,
                       greeting, limiting>>

\* core.close has looked into _relationship_tasks, or is not going to.
Looked == phase \in {"core", "session", "teardown"}

\* What that table names of the reflections there are, until then.
Listed == {r \in Reflections : Alive(r) /\ r \notin unseen}

\* schedule_due_relationship_reflections: pairs that are due and have no task in
\* the table.  (Once Looked, the model does not follow the table and allows more.)
Schedule ==
  \E due \in SUBSET {r \in Reflections : ~Alive(r) /\ r \notin ended} :
    /\ \A q, r \in due : PairOf[q] = PairOf[r] => q = r
    /\ Looked \/ \A q \in Listed, r \in due : PairOf[q] # PairOf[r]
    /\ line' = Begun(due)
    /\ unseen' = IF Looked THEN unseen \cup due ELSE unseen

\* _relationship_done, some time after the end of q: the entry of the pair goes,
\* whatever task it names by now.
CalledBack(q) ==
  /\ q \in ended
  /\ ended' = ended \ {q}
  /\ unseen' = IF Looked THEN unseen
               ELSE unseen \cup {r \in Listed : PairOf[r] = PairOf[q]}
  /\ UNCHANGED <<phase, store, open, setting, line, sending, cancelled, resisted,
                 greeting, limiting>>

\* It is sent; what is saved may make a reflection due.
Sent(t) ==
  /\ t \in sending
  /\ IF t \in Replies /\ open THEN Schedule ELSE UNCHANGED <<line, unseen>>
  /\ sending' = sending \ {t}
  /\ cancelled' = cancelled \ {t}
  /\ resisted' = resisted \ {t}
  /\ UNCHANGED <<phase, store, open, setting, ended, greeting, limiting>>

\* A cancelled task ends, or is so busy that the grace of close for it runs out.
Obey(t) == t \in cancelled \ resisted /\ Gone(t)

Resist(t) ==
  /\ \/ phase = "events" /\ t \in Events
     \/ phase = "core" /\ t \in Reflections
  /\ t \in cancelled \ resisted
  /\ resisted' = resisted \cup {t}
  /\ UNCHANGED <<phase, store, open, setting, line, sending, cancelled, ended, unseen,
                 greeting, limiting>>

-----------------------------------------------------------------------------
\* While it runs.

\* A window begins anew when its key has had to make room for another.
Serve(u) ==
  /\ table' = Checked(table, u)
  /\ served' = [v \in Users |->
                  IF v \in Evicted(table, u) THEN <<>>
                  ELSE IF v = u /\ Allowed(table, u) THEN Append(served[v], 0) ELSE served[v]]

\* A message of u: the limiter counts it, also when the channel's (channelAllows)
\* or the lack of a slot among the requests refuses it after all.
Message(u) ==
  /\ phase = "running"
  /\ Serve(u)
  /\ \E channelAllows \in BOOLEAN :
       LET free == {c \in Replies : ~Alive(c)}
       IN  IF channelAllows /\ Allowed(table, u) /\ free # {}
             THEN \E c \in free : line' = Begun({c})
             ELSE line' = line
  /\ UNCHANGED <<phase, store, open, setting, sending, cancelled, resisted, ended,
                 unseen, greeting>>

\* The sweep finds a channel to post to.
SweepBegins ==
  /\ phase = "running" /\ ~Alive(Sweep)
  /\ line' = Begun({Sweep})
  /\ UNCHANGED <<phase, store, open, setting, sending, cancelled, resisted, ended,
                 unseen, greeting, limiting>>

\* maintenance_loop
Maintain ==
  /\ phase = "running"
  /\ Schedule
  /\ table' = Cleaned(table)
  /\ UNCHANGED <<phase, store, open, setting, sending, cancelled, resisted, ended,
                 greeting, served>>

\* /memory forget and its kind cancel the reflection the table names.
Forget(r) ==
  /\ phase = "running" /\ r \in Listed
  /\ cancelled' = cancelled \cup {r}
  /\ UNCHANGED <<phase, store, open, setting, line, sending, resisted, ended, unseen,
                 greeting, limiting>>

\* The ages in the period; the oldest come first.
Recent(ages) ==
  SubSeq(ages, Cardinality({i \in DOMAIN ages : ages[i] >= Period}) + 1, Len(ages))

Tick ==
  /\ phase = "running"
  /\ table' = Aged(table)
  /\ served' = [u \in Users |-> Recent([i \in DOMAIN served[u] |-> served[u][i] + 1])]
  /\ UNCHANGED <<phase, store, open, setting, work, greeting>>

\* on_ready: presence first, then the reflections that are due.  Nothing
\* registers its task, so it may go on while the process shuts down.
Ready ==
  /\ phase = "running" /\ ~greeting
  /\ greeting' = TRUE
  /\ UNCHANGED <<phase, store, open, setting, work, limiting>>

Greeted ==
  /\ greeting /\ open /\ phase # "teardown"
  /\ greeting' = FALSE
  /\ Schedule
  /\ UNCHANGED <<phase, store, open, setting, sending, cancelled, resisted, ended,
                 limiting>>

-----------------------------------------------------------------------------
\* Shutting down: close, which run it once whoever calls it.

Steps == {"events", "discord", "core", "session"}   \* of _shutdown_resources

\* _shutdown_started: no message is listened to from here on, so the limiters are
\* of no use any more.  The handlers and loops there are are cancelled.
Close ==
  /\ phase = "running"
  /\ phase' = "events"
  /\ cancelled' = cancelled \cup {t \in Events : Alive(t)}
  /\ table' = <<>> /\ served' = NoneServed
  /\ UNCHANGED <<store, open, setting, line, sending, resisted, ended, unseen,
                 greeting>>

\* What has been cancelled is gone, or the grace is over.
Settled(ts) == \A t \in ts : Alive(t) => t \in resisted

\* Mutant: the task of a loop is cancelled but not waited for.
EventsClosedWithoutLoops ==
  /\ phase = "events" /\ Settled(Replies)
  /\ phase' = "discord"
  /\ UNCHANGED <<store, open, setting, work, greeting, limiting>>

EventsClosed ==
  /\ phase = "events" /\ Settled(Events)
  /\ phase' = "discord"
  /\ UNCHANGED <<store, open, setting, work, greeting, limiting>>

\* However long it takes; then core.close cancels the reflections
\* the table names.
DiscordClosed ==
  /\ phase = "discord"
  /\ phase' = "core"
  /\ cancelled' = cancelled \cup Listed
  /\ UNCHANGED <<store, open, setting, line, sending, resisted, ended, unseen, greeting,
                 limiting>>

CoreClosed ==
  /\ phase = "core" /\ Settled(Reflections \ unseen)
  /\ phase' = "session"
  /\ UNCHANGED <<store, open, setting, work, greeting, limiting>>

\* asyncio.run cancels whatever is left and waits for it.
Teardown ==
  /\ phase' = "teardown"
  /\ cancelled' = Living
  /\ greeting' = FALSE
  /\ UNCHANGED <<store, setting, line, sending, resisted, ended, unseen, limiting>>

\* session.close, in its grace, and memory.close
StoreClosed == phase = "session" /\ open' = FALSE /\ Teardown

\* A second signal ends close and with it the steps that are left.
Interrupt == phase \in Steps /\ UNCHANGED open /\ Teardown

Down ==
  /\ phase' = "down" /\ open' = FALSE /\ setting' = NoIdentity
  /\ left' = {} /\ moved' = {}
  /\ line' = Nobody /\ sending' = {} /\ cancelled' = {} /\ resisted' = {}
  /\ ended' = {} /\ unseen' = {}
  /\ greeting' = FALSE /\ table' = <<>> /\ served' = NoneServed
  /\ UNCHANGED db

Exit == phase = "teardown" /\ Living = {} /\ Down

\* Mutant: the watchdog is told that close is done.
WatchedUntilClosed == phase \in Steps

\* From close until run returns.
Watched == phase \in Steps \cup {"teardown"}

\* force_exit, a thread of its own
Watchdog == Watched /\ Down

Crash == phase # "down" /\ Down

Next ==
  \/ Refuse \/ Start \/ MigrationBegins \/ CarryOver \/ MigrationCommits \/ Opened
  \/ \E t \in Tasks : Acquire(t) \/ Return(t) \/ Sent(t) \/ Obey(t) \/ Resist(t)
  \/ \E u \in Users : Message(u)
  \/ SweepBegins \/ Maintain \/ Tick \/ Ready \/ Greeted
  \/ \E r \in Reflections : Forget(r) \/ CalledBack(r)
  \/ Close \/ EventsClosed \/ DiscordClosed \/ CoreClosed \/ StoreClosed \/ Interrupt
  \/ Exit \/ Watchdog \/ Crash

Spec == Init /\ [][Next]_vars

\* The watchdog sleeps in a thread that no task can hold up.
FairSpec == Spec /\ WF_vars(Watchdog)

-----------------------------------------------------------------------------
\* Types, and that a task stands in a line once.
TypeOK ==
  /\ phase \in {"down", "opening", "migrating", "running", "teardown"} \cup Steps
  /\ open \in BOOLEAN /\ greeting \in BOOLEAN
  /\ db \in Database /\ left \subseteq db.rows /\ moved \subseteq SocialRows
  /\ setting \in Identities \cup {NoIdentity}
  /\ line \in [Semaphores -> Seq(Tasks)] /\ \A s \in Semaphores : IsInjective(line[s])
  /\ sending \subseteq Events /\ ended \cup unseen \subseteq Reflections
  /\ resisted \subseteq cancelled /\ cancelled \subseteq Living
  /\ \A t \in sending : \A s \in Semaphores : ~In(t, s)
  /\ Len(table) <= MaxKeys
  /\ \A i \in DOMAIN table : table[i].key \in Users /\ Len(table[i].window) <= Limit

\* With two slots or more, background work never leaves a chat without one: it
\* neither holds them all nor stands before a chat in the line for them
\* (orchestrator.py, _background_generation_slot).
ChatSlotStaysFree ==
  Concurrency > 1 => Cardinality({t \in Background : In(t, "global")}) < Concurrency

\* Nobody is allowed more than the limit within a period, whatever maintenance
\* has cleaned up (policy.py, SlidingWindowLimiter).
LimitHolds == \A u \in Users : Len(served[u]) <= Limit

\* The legacy tables change into those of one identity: the configured one, or the
\* only one.  What it had is kept as far as the policy and the ceilings let it,
\* relationships and facts of several guilds as one, nothing of the others is, and
\* no number is used again.
OneIdentityKept ==
  db.legacy /\ db' # db =>
    /\ ~db'.legacy
    /\ \A t \in Numbered : db'.seq[t] >= db.seq[t]
    /\ \/ db.rows = {} /\ db'.rows = {}
       \/ \E identity \in Identities :
            /\ setting \in {identity, NoIdentity}
            /\ {r \in db.rows : r.of = identity} # {}
            /\ setting = NoIdentity => \A r \in db.rows : r.of = identity
            /\ \A r \in db'.rows : r.of = identity
            /\ Kept({r \in db.rows : r.of = identity}, db'.rows)

\* No step touches the legacy tables but so (memory.py, _migrate_v1_social_schema).
MigrationKeepsOneIdentity == [][OneIdentityKept]_vars

\* A database that says version 7 has been held against the policy, wherever a
\* crash has interrupted that (memory.py, _init_schema).
VersionSevenIsClean == db.version = 7 => Clean(db)

\* The store is closed on nobody but who has outlasted a grace and the
\* reflections that core.close could not find: those the callback of an earlier
\* one had struck off the table, and those that have begun since it looked
\* (app.py, _shutdown_resources; orchestrator.py, close).
CloseWaitsForWork ==
  [][open /\ ~open' /\ phase' # "down" => Living \subseteq resisted \cup unseen]_vars

\* A process that has begun to shut down is gone in the end, whatever its tasks
\* and its event loop do (app.py, _arm_shutdown_watchdog).
ProcessEnds == phase \in Steps \cup {"teardown"} ~> phase = "down"
=============================================================================
