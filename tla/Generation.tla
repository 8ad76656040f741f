----------------------------- MODULE Generation -----------------------------
(***************************************************************************)
(* A call of the provider (HordeProvider of agentbot/llm.py) with the      *)
(* attachments before it (agentbot/attachments.py): images are described   *)
(* by the Horde, metadata is refreshed, a model is selected, a job is      *)
(* done; after a failure that another model may not share, once more.      *)
(*                                                                         *)
(* Three clocks run against it, each of which cancels what it bounds: that *)
(* of the attachments, that of one attempt of a chat, and that of the chat *)
(* as a whole, which detaches the call instead of waiting for it.          *)
(***************************************************************************)
EXTENDS HordeRouter, HordeJob

CONSTANTS Replies,      \* calls for a message: task "chat"
          Illustrated,  \* those whose message has attachments
          Reflections,  \* calls of the reflection tasks: task "reflection"
          Scope         \* of each call; the channel's lock keeps its replies apart

ASSUME GenerationAssumption ==
  /\ Calls = Replies \cup Reflections
  /\ Replies \cap Reflections = {}
  /\ Illustrated \subseteq Replies
  /\ DOMAIN Scope = Calls

VARIABLES
  step,     \* what the coroutine of each call is doing
  awaited,  \* the calls whose result somebody waits for
  tried     \* attempted_models of each call

calls == <<step, awaited, tried>>
vars  == <<router, jobs, calls>>

Steps == {"idle", "attaching", "interrogating", "refreshing", "attempting", "unwinding"}

Task(c) == IF c \in Replies THEN "chat" ELSE "reflection"
Key(c)  == <<Task(c), Scope[c]>>

Init ==
  /\ RouterInit
  /\ JobInit
  /\ step = [c \in Calls |-> "idle"]
  /\ awaited = {}
  /\ tried = [c \in Calls |-> <<>>]

Goto(c, where) == step' = [step EXCEPT ![c] = where]

\* The coroutine returns or raises.
End(c) ==
  /\ Goto(c, "idle")
  /\ tried' = [tried EXCEPT ![c] = <<>>]
  /\ awaited' = awaited \ {c}

-----------------------------------------------------------------------------
(* The attachments.  Whatever happens to them, the generation follows.     *)

\* A turn reaches its attachments, or a reflection the provider.
Start(c) ==
  /\ step[c] = "idle" /\ job[c] = "none"
  /\ \A d \in awaited : Scope[d] # Scope[c]
  /\ awaited' = awaited \cup {c}
  /\ Goto(c, IF c \in Illustrated THEN "attaching" ELSE "refreshing")
  /\ UNCHANGED <<router, jobs, tried>>

\* An image was downloaded; image_analyzer submits it.
Interrogate(c) ==
  /\ step[c] = "attaching"
  /\ Goto(c, "interrogating")
  /\ Submit(c)
  /\ UNCHANGED <<router, awaited, tried>>

\* Read, failed, timed out or none: process_url has an item for each.
Attached(c) ==
  /\ step[c] = "attaching"
  /\ Goto(c, "refreshing")
  /\ UNCHANGED <<router, jobs, awaited, tried>>

-----------------------------------------------------------------------------
(* Selection.                                                              *)

\* router.select among models, and the POST that follows without an await.
Select(c, models) ==
  LET candidates == Candidates(models, ToSet(tried[c]))
      budgeted   == IF c \in Replies THEN SUBSET candidates ELSE {candidates}
  IN  \/ /\ candidates = {}
         /\ sticky' = Cleared(Key(c))
         /\ End(c)
         /\ UNCHANGED <<failure, jobs>>
      \/ /\ candidates # {}
         /\ \E timely \in budgeted : \E m \in Eligible(Key(c), candidates, timely) :
              /\ sticky' = Selected(Key(c), m)
              /\ tried' = [tried EXCEPT ![c] = Append(@, m)]
         /\ Goto(c, "attempting")
         /\ Submit(c)
         /\ UNCHANGED <<failure, awaited>>

\* _refresh_metadata: fetched, or recent enough, or stale within its bound.
Refresh(c) ==
  /\ step[c] = "refreshing"
  /\ \E models \in SUBSET Models : Select(c, models)

\* No metadata that may be used, or an answer that is none.
RefreshFails(c) ==
  /\ step[c] = "refreshing"
  /\ End(c)
  /\ UNCHANGED <<router, jobs>>

-----------------------------------------------------------------------------
(* The attempts.  An image has none: tried is empty.                       *)

Describing(c) == tried[c] = <<>>

\* process_path has a caption or an AttachmentError.
Described(c) == Goto(c, "refreshing") /\ UNCHANGED <<router, awaited, tried>>

\* _generate_once records the failure; a first attempt is followed by another.
AttemptFails(c) ==
  /\ failure' = Failed(Last(tried[c]), Task(c))
  /\ sticky' = Cleared(Key(c))
  /\ IF Len(tried[c]) = 1
       THEN Goto(c, "refreshing") /\ UNCHANGED <<awaited, tried>>
       ELSE End(c)

\* Nothing is recorded for an error that another model would meet as well.
ClientError(c) == End(c) /\ UNCHANGED router

Success(c) ==
  /\ failure' = Succeeded(Last(tried[c]), Task(c))
  /\ End(c)
  /\ UNCHANGED sticky

Fails(c)  == IF Describing(c) THEN Described(c) ELSE AttemptFails(c)
Raises(c) == IF Describing(c) THEN Described(c) ELSE ClientError(c)

Waiting(c) == step[c] \in {"attempting", "interrogating"}

PostAnswered(c) ==
  /\ Waiting(c)
  /\ \/ Accepted(c) /\ UNCHANGED <<router, calls>>
     \/ Unaccepted(c) /\ (Fails(c) \/ Raises(c))

\* A text, or one that is empty or not valid; a caption, or none.
PollEnds(c) ==
  /\ Waiting(c)
  /\ PollEnded(c)
  /\ Fails(c) \/ (~Describing(c) /\ Success(c))

PollError(c) == Waiting(c) /\ PollRefused(c) /\ Raises(c)

\* No worker, a fault, or timeout_seconds have passed.
GiveUp(c) == Waiting(c) /\ PollGivesUp(c) /\ UNCHANGED <<router, calls>>

\* A cleanup is over, and with it the attempt if that still runs.
Cleanup(c) ==
  /\ CleanedUp(c)
  /\ IF step[c] = "idle" THEN UNCHANGED <<router, calls>> ELSE Fails(c)

\* wait_for cancels an attempt of a chat, or an image, and waits for its cleanup.
AttemptTimeout(c) ==
  /\ c \in Replies /\ Waiting(c)
  /\ Abandon(c)
  /\ IF Outlives(job[c]) THEN Goto(c, "unwinding") /\ UNCHANGED <<router, awaited, tried>>
       ELSE Fails(c)

-----------------------------------------------------------------------------
(* The end of the wait.                                                    *)

\* Mutant: a cancellation that meets an attempt just over is lost
\* (asyncio.wait_for of Python 3.10 and 3.11), and the coroutine goes on.
CancelSwallowed(c) ==
  /\ Abandon(c)
  /\ awaited' = awaited \ {c}
  /\ IF step[c] = "attempting" /\ Len(tried[c]) = 1 /\ ~Outlives(job[c])
       THEN Goto(c, "refreshing") /\ UNCHANGED tried
       ELSE Goto(c, "idle") /\ tried' = [tried EXCEPT ![c] = <<>>]

\* The coroutine is cancelled; the cleanup of its job goes on without it.
CancelCall(c) == Abandon(c) /\ End(c)

\* total_chat_timeout_seconds: the call is detached.
Deadline(c) ==
  /\ c \in Replies \cap awaited
  /\ step[c] \in {"refreshing", "attempting"} \/ (step[c] = "unwinding" /\ ~Describing(c))
  /\ failure' = IF tried[c] = <<>> THEN failure ELSE Failed(Last(tried[c]), Task(c))
  /\ sticky' = Cleared(Key(c))
  /\ CancelCall(c)

\* A shutdown, or /profile for a reflection.
Cancel(c) ==
  /\ c \in awaited
  /\ CancelCall(c)
  /\ UNCHANGED router

-----------------------------------------------------------------------------

Horde(c) == (Accept(c) \/ RemoteEnds(c)) /\ UNCHANGED <<router, calls>>
Forget   == (EvictIdle \/ FailureFades) /\ UNCHANGED <<jobs, calls>>

Prepare(c) == Interrogate(c) \/ Attached(c)

\* The awaits that end by themselves: a request by the timeout of the session, polling
\* by timeout_seconds, a cleanup by its grace, an attempt and attachments by wait_for.
AwaitEnds(c) ==
  \/ Prepare(c) \/ Refresh(c) \/ RefreshFails(c) \/ PostAnswered(c)
  \/ GiveUp(c) \/ AttemptTimeout(c) \/ Cleanup(c)

Next ==
  \/ \E c \in Calls :
       \/ Start(c) \/ AwaitEnds(c) \/ PollEnds(c) \/ PollError(c)
       \/ Deadline(c) \/ Cancel(c) \/ Horde(c)
  \/ Forget

Spec     == Init /\ [][Next]_vars
FairSpec == Spec /\ \A c \in Calls : WF_vars(AwaitEnds(c))

-----------------------------------------------------------------------------
(* Properties.                                                             *)

Entries == [key : {Key(c) : c \in Calls}, model : Models]

\* The states of a call, its job and the router; a call that has ended is awaited
\* by nobody, and a job is in hand exactly while its call works on it or a cleanup
\* goes on after it.
TypeOK ==
  /\ ToSet(sticky) \subseteq Entries /\ Len(sticky) <= MaxSelections
  /\ failure = Nothing \/ failure \in [model : Models, task : {"chat", "reflection"}]
  /\ step \in [Calls -> Steps] /\ awaited \subseteq Calls
  /\ \A c \in Calls :
       /\ step[c] = "idle" => c \notin awaited /\ job[c] \in {"none", "shielded"}
       /\ Waiting(c) => job[c] \in {"posting", "open", "closing"}
       /\ step[c] = "unwinding" => job[c] = "shielded"
       /\ step[c] \in {"attaching", "refreshing"} => job[c] = "none"

\* A call makes at most two attempts, the second with another model, although the
\* metadata, the sticky selections and the last failure may change in between
\* (HordeProvider._generate_routed_inner excludes the first model).
AlternativeDiffers ==
  \A c \in Calls : Len(tried[c]) <= 2 /\ IsInjective(tried[c])

\* Once its deadline or a cancellation has ended the wait for a call, it submits no
\* job: discovery and both attempts share the total deadline of the chat
\* (HordeProvider._generate_routed).
LateCallsSubmitNothing ==
  [][\A c \in Calls : job[c] = "none" /\ job'[c] = "posting" => c \in awaited]_vars

\* A job whose id is known is not dropped while it runs at the Horde, by no timeout,
\* cancellation or failure, except where a poll is refused or makes no sense
\* (HordeClient.generate, interrogate_image).
JobsAreClosed ==
  [][\A c \in Calls : job[c] = "open" /\ job'[c] = "none" /\ remote[c] = "running"
                        => PollError(c)]_vars

\* Every call ends, whatever the Horde does or does not answer.
EveryCallEnds == \A c \in Calls : c \in awaited ~> c \notin awaited
=============================================================================
