---------------------------- MODULE ChannelLocks ----------------------------
(***************************************************************************)
(* The channel locks of AgentBot (agentbot/app.py:335-356): a bounded,     *)
(* least recently used cache of asyncio locks, which message handlers wait *)
(* for with a timeout and the proactive sweep without one.                 *)
(*                                                                         *)
(* A release wakes the first waiter, but the lock is unlocked until that   *)
(* waiter runs; and a handler holds a reference to a lock object some time *)
(* before it first runs acquire() (wait_for makes a task of it before      *)
(* Python 3.12).  The cache looks at locked() only.                        *)
(***************************************************************************)
EXTENDS Integers, FiniteSets, SequencesExt

CONSTANTS Requests,   \* admitted handlers: the places of request_slots
          Sweep,      \* the proactive sweep
          Channels,   \* channel ids
          Cap,        \* 512
          Nothing     \* no lock, no holder, no channel

Procs == Requests \cup {Sweep}

\* At most Cap locks are cached, each process knows one more, and one is new.
Locks == 1..(Cap + Cardinality(Procs) + 1)

ASSUME ChannelLocksAssumption ==
  /\ Sweep \notin Requests
  /\ IsFiniteSet(Requests)
  /\ Cap \in Nat \ {0}
  /\ Nothing \notin Procs \cup Channels \cup Locks

VARIABLES
  cache,     \* _channel_locks: the lock of each channel
  order,     \* its keys, least recently used first
  holder,    \* of each lock: the process that locked it
  waiters,   \* of each lock: the processes that wait, first come first
  woken,     \* the waiting processes whose turn it is
  pc, channel, lock   \* of each process

cached == <<cache, order>>
locks  == <<holder, waiters, woken>>
procs  == <<pc, channel, lock>>
vars   == <<cached, locks, procs>>

Init ==
  /\ cache = [c \in Channels |-> Nothing]
  /\ order = <<>>
  /\ holder = [l \in Locks |-> Nothing]
  /\ waiters = [l \in Locks |-> <<>>]
  /\ woken = {}
  /\ pc = [p \in Procs |-> "away"]
  /\ channel = [p \in Procs |-> Nothing]
  /\ lock = [p \in Procs |-> Nothing]

-----------------------------------------------------------------------------

\* asyncio.Lock(): an object that nobody refers to.
NewLock ==
  LET known == {cache[c] : c \in Channels} \cup {lock[p] : p \in Procs}
  IN  CHOOSE l \in Locks : l \notin known

\* The position of the least recently used lock that is not locked, or 0.
Removable == SelectInSeq(order, LAMBDA c : holder[cache[c]] = Nothing)

\* Mutant: a lock that is used again is queued again.
GetLockTwice(p, c) ==
  /\ lock' = [lock EXCEPT ![p] = IF cache[c] = Nothing THEN NewLock ELSE cache[c]]
  /\ order' = Append(order, c)
  /\ cache' = [cache EXCEPT ![c] = lock'[p]]

\* _get_channel_lock: the lock that p gets for c, and the cache afterwards.
GetLock(p, c) ==
  \/ /\ cache[c] # Nothing
     /\ lock' = [lock EXCEPT ![p] = cache[c]]
     /\ order' = Append(RemoveFirst(order, c), c)
     /\ UNCHANGED cache
  \/ /\ cache[c] = Nothing
     /\ lock' = [lock EXCEPT ![p] = NewLock]
     /\ \/ /\ Len(order) < Cap
           /\ order' = Append(order, c)
           /\ cache' = [cache EXCEPT ![c] = NewLock]
        \/ /\ Len(order) >= Cap /\ Removable # 0
           /\ order' = Append(RemoveAt(order, Removable), c)
           /\ cache' = [cache EXCEPT ![order[Removable]] = Nothing, ![c] = NewLock]
        \/ /\ Len(order) >= Cap /\ Removable = 0
           /\ UNCHANGED cached

Goto(p, where) == pc' = [pc EXCEPT ![p] = where]

\* acquire() on the lock l.
Acquire(p, l) ==
  /\ IF holder[l] = Nothing /\ waiters[l] = <<>>
       THEN /\ holder' = [holder EXCEPT ![l] = p]
            /\ Goto(p, "working")
            /\ UNCHANGED waiters
       ELSE /\ waiters' = [waiters EXCEPT ![l] = Append(@, p)]
            /\ Goto(p, "waiting")
            /\ UNCHANGED holder
  /\ UNCHANGED woken

\* The handler of an admitted message asks for the channel's lock ...
Request(p, c) ==
  /\ pc[p] = "away"
  /\ GetLock(p, c)
  /\ channel' = [channel EXCEPT ![p] = c]
  /\ Goto(p, "asking")
  /\ UNCHANGED locks

\* ... and comes to wait for it.
Ask(p) ==
  /\ pc[p] = "asking"
  /\ Acquire(p, lock[p])
  /\ UNCHANGED <<cached, channel, lock>>

\* The sweep passes over a channel whose lock is locked, and enters one whose
\* lock is not, behind a waiter that has been woken.
Visit(c) ==
  /\ pc[Sweep] = "away"
  /\ GetLock(Sweep, c)
  /\ IF holder[lock'[Sweep]] # Nothing
       THEN UNCHANGED <<locks, pc, channel>>
       ELSE /\ Acquire(Sweep, lock'[Sweep])
            /\ channel' = [channel EXCEPT ![Sweep] = c]

\* A waiter whose turn it is runs.
Resume(p) ==
  /\ p \in woken
  /\ woken' = woken \ {p}
  /\ waiters' = [waiters EXCEPT ![lock[p]] = Tail(@)]
  /\ holder' = [holder EXCEPT ![lock[p]] = p]
  /\ Goto(p, "working")
  /\ UNCHANGED <<cached, channel, lock>>

Leave(p) ==
  /\ Goto(p, "away")
  /\ channel' = [channel EXCEPT ![p] = Nothing]
  /\ lock' = [lock EXCEPT ![p] = Nothing]
  /\ UNCHANGED cached

\* Wake the first waiter of l, if the lock is free.
WakeFirst(l) ==
  IF holder'[l] = Nothing /\ waiters'[l] # <<>> THEN {Head(waiters'[l])} ELSE {}

Release(p) ==
  /\ pc[p] = "working"
  /\ holder' = [holder EXCEPT ![lock[p]] = Nothing]
  /\ UNCHANGED waiters
  /\ woken' = woken \cup WakeFirst(lock[p])
  /\ Leave(p)

\* Mutant: a waiter that gives up keeps the wake-up to itself.
TimeoutKeepingTurn(p) ==
  /\ pc[p] = "waiting"
  /\ waiters' = [waiters EXCEPT ![lock[p]] = RemoveFirst(@, p)]
  /\ UNCHANGED holder
  /\ woken' = woken \ {p}
  /\ Leave(p)

\* Five seconds have passed.  A waiter that had been woken passes its turn on.
Timeout(p) ==
  /\ pc[p] = "waiting"
  /\ waiters' = [waiters EXCEPT ![lock[p]] = RemoveFirst(@, p)]
  /\ UNCHANGED holder
  /\ woken' = (woken \ {p}) \cup WakeFirst(lock[p])
  /\ Leave(p)

Next ==
  \/ \E p \in Requests : \/ \E c \in Channels : Request(p, c)
                         \/ Ask(p)
                         \/ Timeout(p)
  \/ \E c \in Channels : Visit(c)
  \/ \E p \in Procs : Resume(p) \/ Release(p)

Spec == Init /\ [][Next]_vars

-----------------------------------------------------------------------------
(* Properties.                                                             *)

\* The type of every variable; the cache and its order agree.
TypeOK ==
  /\ cache \in [Channels -> Locks \cup {Nothing}]
  /\ order \in Seq(Channels) /\ IsInjective(order)
  /\ Range(order) = {c \in Channels : cache[c] # Nothing}
  /\ holder \in [Locks -> Procs \cup {Nothing}]
  /\ waiters \in [Locks -> Seq(Procs)]
  /\ woken \subseteq Procs
  /\ pc \in [Procs -> {"away", "asking", "waiting", "working"}]
  /\ channel \in [Procs -> Channels \cup {Nothing}]
  /\ lock \in [Procs -> Locks \cup {Nothing}]

\* The turn of a free lock is never lost, whoever times out when: a free lock
\* that is waited for has woken its first waiter, and only that one.
TurnIsPassedOn ==
  \A l \in Locks : waiters[l] # <<>> =>
    (Range(waiters[l]) \cap woken) =
      IF holder[l] = Nothing THEN {Head(waiters[l])} ELSE {}

\* "One active generation per channel" (README.md:399, docs/ARCHITECTURE.md:68).
OneGenerationPerChannel ==
  \A p, q \in Procs :
    p # q /\ pc[p] = "working" /\ pc[q] = "working" => channel[p] # channel[q]
=============================================================================
