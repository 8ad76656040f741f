------------------------------ MODULE HordeJob ------------------------------
(***************************************************************************)
(* One request of agentbot/horde_client.py to AI Horde, for a text or for  *)
(* the description of an image: submitted, polled, and cancelled when its  *)
(* result is not awaited to the end.  "job" is what the client does with   *)
(* it, "remote" what it is at the Horde as long as the client has it:      *)
(*                                                                         *)
(*   posting   the POST is on its way: the client does not know the id     *)
(*   open      the client polls                                            *)
(*   closing   a DELETE before an error is raised; request_id is cleared   *)
(*   shielded  a DELETE after a cancellation, which no other interrupts    *)
(***************************************************************************)
EXTENDS Integers

CONSTANT Calls

VARIABLES job, remote

jobs == <<job, remote>>

JobInit == job = [c \in Calls |-> "none"] /\ remote = [c \in Calls |-> "none"]

JobIs(c, state) == job' = [job EXCEPT ![c] = state]

Submit(c) == JobIs(c, "posting") /\ UNCHANGED remote

\* The client has nothing more to do with it.
Leave(c) == JobIs(c, "none") /\ remote' = [remote EXCEPT ![c] = "none"]

\* The Horde takes the request, and ends it: done, faulted or expired.
Accept(c) ==
  /\ job[c] = "posting" /\ remote[c] = "none"
  /\ remote' = [remote EXCEPT ![c] = "running"]
  /\ UNCHANGED job
RemoteEnds(c) ==
  /\ remote[c] = "running"
  /\ remote' = [remote EXCEPT ![c] = "ended"]
  /\ UNCHANGED job

\* The answer to the POST: an id; or an error, none in time, none that is of use.
Accepted(c)   == job[c] = "posting" /\ remote[c] # "none" /\ JobIs(c, "open") /\ UNCHANGED remote
Unaccepted(c) == job[c] = "posting" /\ Leave(c)

\* A poll says that the request has ended.
PollEnded(c) == job[c] = "open" /\ remote[c] = "ended" /\ Leave(c)
\* A poll is refused, or its answer malformed: HordeClientError.
PollRefused(c) == job[c] = "open" /\ Leave(c)
\* Mutant: polling without a deadline of its own.
PollUntilFault(c) ==
  job[c] = "open" /\ remote[c] = "ended" /\ JobIs(c, "closing") /\ UNCHANGED remote
\* No worker can do it, it has faulted, or timeout_seconds are over.
PollGivesUp(c) == job[c] = "open" /\ JobIs(c, "closing") /\ UNCHANGED remote

\* _cancel_bounded is over: the DELETE was answered, failed or was too slow.
CleanedUp(c) == job[c] \in {"closing", "shielded"} /\ Leave(c)

\* Mutant: the cleanup is left to whoever cancels.
OutlivesBareCancel(state) == state = "shielded"

\* The coroutine is cancelled: only an open job is cleaned up, and a cleanup after
\* a cancellation goes on.
Outlives(state) == state \in {"open", "shielded"}

Abandon(c) ==
  IF Outlives(job[c]) THEN JobIs(c, "shielded") /\ UNCHANGED remote ELSE Leave(c)
=============================================================================
