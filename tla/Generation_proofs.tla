--------------------------- MODULE Generation_proofs ---------------------------
(***************************************************************************)
(* Proofs about Generation for every value of its constants: any number of *)
(* calls, models and scopes.                                               *)
(***************************************************************************)
EXTENDS Generation, SequenceTheorems, WellFoundedInduction, TLAPS

\* What the coroutine of a call is doing determines whether it is awaited, what
\* becomes of its job and how many models it can have tried.
CallOK(c) ==
  /\ tried[c] \in Seq(Models) /\ IsInjective(tried[c]) /\ Len(tried[c]) <= 2
  /\ step[c] = "idle" <=> c \notin awaited
  /\ step[c] = "idle" => job[c] \in {"none", "shielded"}
  /\ step[c] \in {"attaching", "refreshing"} => job[c] = "none"
  /\ step[c] \in {"interrogating", "attempting"} => job[c] \in {"posting", "open", "closing"}
  /\ step[c] = "unwinding" => job[c] = "shielded"
  /\ step[c] \in {"idle", "attaching", "interrogating"} => tried[c] = <<>>
  /\ step[c] = "refreshing" => Len(tried[c]) <= 1
  /\ step[c] = "attempting" => tried[c] # <<>>

CallsInv ==
  /\ step \in [Calls -> Steps]
  /\ job \in [Calls -> {"none", "posting", "open", "closing", "shielded"}]
  /\ remote \in [Calls -> {"none", "running", "ended"}]
  /\ tried \in [Calls -> Seq(Models)]
  /\ awaited \subseteq Calls
  /\ \A c \in Calls : CallOK(c)

\* A step of d leaves the other calls as they are.
Apart(d) ==
  \A c \in Calls \ {d} : /\ step'[c] = step[c] /\ job'[c] = job[c] /\ tried'[c] = tried[c]
                         /\ c \in awaited' <=> c \in awaited

Typed ==
  /\ step' \in [Calls -> Steps]
  /\ job' \in [Calls -> {"none", "posting", "open", "closing", "shielded"}]
  /\ remote' \in [Calls -> {"none", "running", "ended"}]
  /\ tried' \in [Calls -> Seq(Models)]
  /\ awaited' \subseteq Calls

\* The empty sequence, with which every call begins.
LEMMA NothingTried ==
  <<>> \in Seq(Models) /\ IsInjective(<<>>) /\ Len(<<>>) = 0 /\ ToSet(<<>>) = {}
  BY EmptySeq DEF IsInjective, ToSet

\* It is enough to look at the call that takes the step.
LEMMA OthersStay ==
  ASSUME CallsInv, NEW d \in Calls, Apart(d), Typed, CallOK(d)'
  PROVE  CallsInv'
  <1>1. \A c \in Calls \ {d} : CallOK(c)'
    BY DEF CallsInv, CallOK, Apart
  <1>2. QED
    BY <1>1 DEF CallsInv, Typed

\* At first no call is under way.
LEMMA InitCalls == Init => CallsInv
  <1> SUFFICES ASSUME Init PROVE CallsInv
    OBVIOUS
  <1>1. \A c \in Calls : CallOK(c)
    BY NothingTried DEF Init, JobInit, CallOK
  <1>2. QED
    BY <1>1, NothingTried DEF Init, JobInit, RouterInit, CallsInv, Steps

\* The end of a call.
LEMMA EndOK ==
  ASSUME CallsInv, NEW c \in Calls, End(c),
         job' = [job EXCEPT ![c] = job'[c]], job'[c] \in {"none", "shielded"},
         remote' \in [Calls -> {"none", "running", "ended"}]
  PROVE  CallsInv'
  <1>1. /\ step' = [step EXCEPT ![c] = "idle"] /\ tried' = [tried EXCEPT ![c] = <<>>]
        /\ awaited' = awaited \ {c}
    BY DEF End, Goto
  <1>2. Apart(c) /\ Typed
    BY <1>1, NothingTried DEF CallsInv, Apart, Typed, Steps
  <1>3. CallOK(c)'
    BY <1>1, NothingTried DEF CallsInv, CallOK
  <1>4. QED
    BY <1>2, <1>3, OthersStay

\* A failure ends the call or takes it to a selection, with no more than one model
\* tried.
LEMMA FailsOK ==
  ASSUME CallsInv, NEW c \in Calls, step[c] # "idle", Fails(c) \/ Raises(c) \/ Success(c),
         job' = [job EXCEPT ![c] = "none"],
         remote' \in [Calls -> {"none", "running", "ended"}]
  PROVE  CallsInv'
  <1>1. job'[c] = "none" /\ job' = [job EXCEPT ![c] = job'[c]]
    BY DEF CallsInv
  <1>2. CASE End(c)
    BY <1>1, <1>2, EndOK
  <1>3. CASE step' = [step EXCEPT ![c] = "refreshing"] /\ UNCHANGED <<awaited, tried>>
             /\ Len(tried[c]) <= 1
    <2>1. Apart(c) /\ Typed
      BY <1>1, <1>3 DEF CallsInv, Apart, Typed, Steps
    <2>2. CallOK(c)'
      BY <1>1, <1>3 DEF CallsInv, CallOK
    <2>3. QED
      BY <2>1, <2>2, OthersStay
  <1>4. CASE tried[c] = <<>> /\ Described(c)
    <2>1. Len(tried[c]) <= 1
      BY <1>4, NothingTried
    <2>2. QED
      BY <1>3, <1>4, <2>1 DEF Described, Goto
  <1>5. CASE AttemptFails(c)
    <2>1. CASE Len(tried[c]) = 1
      BY <1>3, <1>5, <2>1 DEF AttemptFails, Goto
    <2>2. CASE Len(tried[c]) # 1
      BY <1>2, <1>5, <2>2 DEF AttemptFails
    <2>3. QED
      BY <2>1, <2>2
  <1>6. QED
    BY <1>2, <1>4, <1>5 DEF Fails, Raises, Success, ClientError, Describing

\* Every step of a call keeps its state, its job and its attempts in line.
LEMMA NextCalls ==
  ASSUME CallsInv, [Next]_vars
  PROVE  CallsInv'
  <1>1. CASE UNCHANGED vars
    BY <1>1 DEF vars, router, jobs, calls, CallsInv, CallOK
  <1>2. ASSUME NEW c \in Calls, Start(c) PROVE CallsInv'
    <2>1. /\ step[c] = "idle" /\ job[c] = "none" /\ UNCHANGED <<job, remote, tried>>
          /\ awaited' = awaited \cup {c}
          /\ \/ step' = [step EXCEPT ![c] = "attaching"]
             \/ step' = [step EXCEPT ![c] = "refreshing"]
      BY <1>2 DEF Start, Goto, router, jobs
    <2>2. Apart(c) /\ Typed
      BY <2>1 DEF CallsInv, Apart, Typed, Steps
    <2>3. CallOK(c)'
      BY <2>1, NothingTried DEF CallsInv, CallOK
    <2>4. QED
      BY <2>2, <2>3, OthersStay
  <1>3. ASSUME NEW c \in Calls, Prepare(c) PROVE CallsInv'
    <2>1. CASE Interrogate(c)
      <3>1. /\ step[c] = "attaching" /\ step' = [step EXCEPT ![c] = "interrogating"]
            /\ job' = [job EXCEPT ![c] = "posting"]
            /\ UNCHANGED <<remote, awaited, tried>>
        BY <2>1 DEF Interrogate, Goto, Submit, JobIs, router
      <3>2. Apart(c) /\ Typed
        BY <3>1 DEF CallsInv, Apart, Typed, Steps
      <3>3. CallOK(c)'
        BY <3>1 DEF CallsInv, CallOK
      <3>4. QED
        BY <3>2, <3>3, OthersStay
    <2>2. CASE Attached(c)
      <3>1. /\ step[c] = "attaching" /\ step' = [step EXCEPT ![c] = "refreshing"]
            /\ UNCHANGED <<job, remote, awaited, tried>>
        BY <2>2 DEF Attached, Goto, jobs, router
      <3>2. Apart(c) /\ Typed
        BY <3>1 DEF CallsInv, Apart, Typed, Steps
      <3>3. CallOK(c)'
        BY <3>1, NothingTried DEF CallsInv, CallOK
      <3>4. QED
        BY <3>2, <3>3, OthersStay
    <2>3. QED
      BY <1>3, <2>1, <2>2 DEF Prepare
  <1>4. ASSUME NEW c \in Calls, Refresh(c) PROVE CallsInv'
    <2>1. PICK models \in SUBSET Models : Select(c, models)
      BY <1>4 DEF Refresh
    <2> DEFINE candidates == Candidates(models, ToSet(tried[c]))
    <2>3. CASE End(c) /\ UNCHANGED jobs
      <3>1. job'[c] = "none" /\ job' = [job EXCEPT ![c] = job'[c]] /\ remote' = remote
        BY <1>4, <2>3 DEF Refresh, CallsInv, CallOK, jobs
      <3>2. QED
        BY <2>3, <3>1, EndOK DEF CallsInv
    <2>4. ASSUME NEW timely \in SUBSET candidates, NEW m \in Eligible(Key(c), candidates, timely),
                 candidates # {}, tried' = [tried EXCEPT ![c] = Append(@, m)],
                 Goto(c, "attempting"), Submit(c), UNCHANGED awaited
          PROVE  CallsInv'
      <3>1. m \in candidates
        BY <2>4 DEF Eligible, Kept
      <3>2. m \in Models /\ m \notin ToSet(tried[c])
        BY <3>1 DEF Candidates
      <3>3. /\ tried[c] \in Seq(Models) /\ IsInjective(tried[c]) /\ Len(tried[c]) <= 1
        BY <1>4 DEF Refresh, CallsInv, CallOK
      <3>4. /\ Append(tried[c], m) \in Seq(Models) /\ IsInjective(Append(tried[c], m))
        BY <3>2, <3>3 DEF IsInjective, ToSet
      <3>5. Len(Append(tried[c], m)) <= 2 /\ Append(tried[c], m) # <<>>
        <4>1. Len(Append(tried[c], m)) = Len(tried[c]) + 1 /\ Len(tried[c]) \in Nat
          BY <3>2, <3>3, AppendProperties
        <4>2. Len(Append(tried[c], m)) # 0
          BY <4>1
        <4>3. QED
          BY <3>3, <4>1, <4>2, NothingTried
      <3>6. /\ step' = [step EXCEPT ![c] = "attempting"] /\ job' = [job EXCEPT ![c] = "posting"]
            /\ remote' = remote /\ awaited' = awaited /\ step[c] = "refreshing"
        BY <1>4, <2>4 DEF Refresh, Goto, Submit, JobIs
      <3>7. Apart(c) /\ Typed
        BY <2>4, <3>4, <3>6 DEF CallsInv, Apart, Typed, Steps
      <3>8. CallOK(c)'
        BY <2>4, <3>4, <3>5, <3>6 DEF CallsInv, CallOK
      <3>9. QED
        BY <3>7, <3>8, OthersStay
    <2>5. QED
      BY <2>1, <2>3, <2>4 DEF Select
  <1>5. ASSUME NEW c \in Calls, RefreshFails(c) PROVE CallsInv'
    <2>1. job'[c] = "none" /\ job' = [job EXCEPT ![c] = job'[c]] /\ remote' = remote
      BY <1>5 DEF RefreshFails, CallsInv, CallOK, jobs, router
    <2>2. QED
      BY <1>5, <2>1, EndOK DEF CallsInv, RefreshFails
  <1>6. ASSUME NEW c \in Calls, PostAnswered(c) \/ GiveUp(c) PROVE CallsInv'
    <2>1. CASE Unaccepted(c) /\ (Fails(c) \/ Raises(c))
      <3>1. /\ step[c] # "idle" /\ job' = [job EXCEPT ![c] = "none"]
            /\ remote' \in [Calls -> {"none", "running", "ended"}]
        BY <1>6, <2>1 DEF PostAnswered, GiveUp, Waiting, Unaccepted, Leave, JobIs, CallsInv
      <3>2. QED
        BY <2>1, <3>1, FailsOK
    <2>2. CASE (Accepted(c) \/ PollGivesUp(c)) /\ UNCHANGED <<router, calls>>
      <3>1. /\ Waiting(c) /\ UNCHANGED <<step, awaited, tried, remote>>
            /\ \/ job' = [job EXCEPT ![c] = "open"]
               \/ job' = [job EXCEPT ![c] = "closing"]
        BY <1>6, <2>2 DEF PostAnswered, GiveUp, Accepted, PollGivesUp, JobIs, router, calls
      <3>2. Apart(c) /\ Typed
        BY <3>1 DEF CallsInv, Apart, Typed
      <3>3. CallOK(c)'
        BY <3>1 DEF CallsInv, CallOK, Waiting
      <3>4. QED
        BY <3>2, <3>3, OthersStay
    <2>3. QED
      BY <1>6, <2>1, <2>2 DEF PostAnswered, GiveUp
  <1>7. ASSUME NEW c \in Calls, PollEnds(c) \/ PollError(c) PROVE CallsInv'
    <2>1. /\ step[c] # "idle" /\ job' = [job EXCEPT ![c] = "none"]
          /\ remote' \in [Calls -> {"none", "running", "ended"}]
      BY <1>7 DEF PollEnds, PollError, Waiting, PollEnded, PollRefused, Leave, JobIs, CallsInv
    <2>2. QED
      BY <1>7, <2>1, FailsOK DEF PollEnds, PollError
  <1>8. ASSUME NEW c \in Calls, Cleanup(c) PROVE CallsInv'
    <2>1. /\ job' = [job EXCEPT ![c] = "none"]
          /\ remote' \in [Calls -> {"none", "running", "ended"}]
      BY <1>8 DEF Cleanup, CleanedUp, Leave, JobIs, CallsInv
    <2>2. CASE step[c] = "idle"
      <3>1. UNCHANGED <<step, awaited, tried>>
        BY <1>8, <2>2 DEF Cleanup, router, calls
      <3>2. Apart(c) /\ Typed
        BY <2>1, <3>1 DEF CallsInv, Apart, Typed
      <3>3. CallOK(c)'
        BY <2>1, <2>2, <3>1 DEF CallsInv, CallOK
      <3>4. QED
        BY <3>2, <3>3, OthersStay
    <2>3. CASE step[c] # "idle"
      BY <1>8, <2>1, <2>3, FailsOK DEF Cleanup
    <2>4. QED
      BY <2>2, <2>3
  <1>9. ASSUME NEW c \in Calls, AttemptTimeout(c) PROVE CallsInv'
    <2>1. CASE Outlives(job[c])
      <3>1. /\ Waiting(c) /\ UNCHANGED <<awaited, tried, remote>>
            /\ job' = [job EXCEPT ![c] = "shielded"] /\ step' = [step EXCEPT ![c] = "unwinding"]
        BY <1>9, <2>1 DEF AttemptTimeout, Abandon, JobIs, Goto, router
      <3>2. Apart(c) /\ Typed
        BY <3>1 DEF CallsInv, Apart, Typed, Steps
      <3>3. CallOK(c)'
        BY <3>1 DEF CallsInv, CallOK, Waiting
      <3>4. QED
        BY <3>2, <3>3, OthersStay
    <2>2. CASE ~Outlives(job[c])
      <3>1. /\ step[c] # "idle" /\ job' = [job EXCEPT ![c] = "none"] /\ Fails(c)
            /\ remote' \in [Calls -> {"none", "running", "ended"}]
        BY <1>9, <2>2 DEF AttemptTimeout, Abandon, Waiting, Leave, JobIs, CallsInv
      <3>2. QED
        BY <3>1, FailsOK
    <2>3. QED
      BY <2>1, <2>2
  <1>10. ASSUME NEW c \in Calls, Deadline(c) \/ Cancel(c) PROVE CallsInv'
    <2>1. Abandon(c) /\ End(c)
      BY <1>10 DEF Deadline, Cancel, CancelCall, router
    <2>2. /\ job'[c] \in {"none", "shielded"} /\ job' = [job EXCEPT ![c] = job'[c]]
          /\ remote' \in [Calls -> {"none", "running", "ended"}]
      BY <2>1 DEF Abandon, Leave, JobIs, CallsInv
    <2>3. QED
      BY <2>1, <2>2, EndOK DEF CallsInv
  <1>11. ASSUME NEW c \in Calls, Horde(c) PROVE CallsInv'
    <2>1. /\ UNCHANGED <<job, step, awaited, tried>>
          /\ remote' \in [Calls -> {"none", "running", "ended"}]
      BY <1>11 DEF Horde, Accept, RemoteEnds, router, calls, CallsInv
    <2>2. QED
      BY <2>1 DEF CallsInv, CallOK
  <1>12. CASE Forget
    <2>1. UNCHANGED <<job, remote, step, awaited, tried>>
      BY <1>12 DEF Forget, EvictIdle, FailureFades, jobs, calls
    <2>2. QED
      BY <2>1 DEF CallsInv, CallOK
  <1>13. QED
    BY <1>1, <1>2, <1>3, <1>4, <1>5, <1>6, <1>7, <1>8, <1>9, <1>10, <1>11, <1>12
       DEF Next, AwaitEnds

\* So they are all the time.
LEMMA CallsAlways == Spec => []CallsInv
  <1>1. CallsInv /\ [Next]_vars => CallsInv'
    BY NextCalls
  <1>2. QED
    BY <1>1, InitCalls, PTL DEF Spec

-----------------------------------------------------------------------------
(* The router, which all calls share.                                      *)

\* The last elements of a sequence.
LEMMA SuffixType ==
  ASSUME NEW S, NEW q \in Seq(S), NEW k \in 1..(Len(q) + 1)
  PROVE  SubSeq(q, k, Len(q)) \in Seq(S) /\ Len(SubSeq(q, k, Len(q))) = Len(q) - k + 1
  <1> DEFINE r == SubSeq(q, k, Len(q))
  <1>1. Len(q) \in Nat /\ k \in Nat /\ 1 <= k /\ k <= Len(q) + 1
    OBVIOUS
  <1>2. \A i \in k..Len(q) : q[i] \in S
    BY <1>1
  <1>3. r \in Seq(S) /\ Len(r) = IF k <= Len(q) THEN Len(q) - k + 1 ELSE 0
    BY <1>1, <1>2, SubSeqProperties
  <1> HIDE DEF r
  <1>4. Len(r) = Len(q) - k + 1
    BY <1>1, <1>3
  <1>5. QED
    BY <1>3, <1>4 DEF r

\* A sequence without one of its elements.
LEMMA ShorterType ==
  ASSUME NEW S, NEW q \in Seq(S), NEW k \in 1..Len(q)
  PROVE  RemoveAt(q, k) \in Seq(S) /\ Len(RemoveAt(q, k)) = Len(q) - 1
  <1> DEFINE front == SubSeq(q, 1, k - 1)
             back == SubSeq(q, k + 1, Len(q))
  <1>1. Len(q) \in Nat /\ k \in Nat /\ 1 <= k /\ k <= Len(q) /\ k + 1 \in 1..(Len(q) + 1)
    OBVIOUS
  <1>2. front \in Seq(S) /\ Len(front) = k - 1
    BY <1>1
  <1>3. back \in Seq(S) /\ Len(back) = Len(q) - (k + 1) + 1
    BY <1>1, SuffixType
  <1> HIDE DEF front, back
  <1>4. front \o back \in Seq(S) /\ Len(front \o back) = Len(front) + Len(back)
    BY <1>2, <1>3, ConcatProperties
  <1>5. Len(front) + Len(back) = Len(q) - 1
    BY <1>1, <1>2, <1>3
  <1>6. QED
    BY <1>4, <1>5 DEF RemoveAt, front, back

\* A set of positions that is not empty has a first one.
LEMMA FirstPosition ==
  ASSUME NEW n \in Nat, NEW I \in SUBSET (1..n), I # {}
  PROVE  Min(I) \in I
  <1>1. I \subseteq Nat
    OBVIOUS
  <1>2. PICK i \in I : \A j \in I : ~(<<j, i>> \in OpToRel(<, Nat))
    BY <1>1, NatLessThanWellFounded, WFMin
  <1>3. \A j \in I : ~(j < i)
    BY <1>1, <1>2 DEF OpToRel
  <1>4. \A j \in I : i <= j
    BY <1>1, <1>3
  <1>5. QED
    BY <1>4 DEF Min

\* The table of selections is bounded, and the failure that is remembered is
\* one of a model.
RouterInv ==
  /\ sticky \in Seq(Entries) /\ Len(sticky) <= MaxSelections
  /\ failure = Nothing \/ failure \in [model : Models, task : {"chat", "reflection"}]

\* Forgetting a selection keeps the rest of the table.
LEMMA ClearedType ==
  ASSUME RouterInv, NEW key
  PROVE  Cleared(key) \in Seq(Entries) /\ Len(Cleared(key)) <= Len(sticky)
  <1>1. sticky \in Seq(Entries) /\ Len(sticky) \in Nat
    BY DEF RouterInv
  <1>2. CASE ~\E i \in 1..Len(sticky) : sticky[i].key = key
    BY <1>1, <1>2 DEF Cleared, RemoveFirstMatch
  <1>3. CASE \E i \in 1..Len(sticky) : sticky[i].key = key
    <2> DEFINE k == SelectInSeq(sticky, LAMBDA e : e.key = key)
    <2>1. Cleared(key) = RemoveAt(sticky, k)
      BY <1>3 DEF Cleared, RemoveFirstMatch
    <2>2. k \in 1..Len(sticky)
      <3> DEFINE I == {i \in 1..Len(sticky) : sticky[i].key = key}
      <3>1. I \in SUBSET (1..Len(sticky)) /\ I # {}
        BY <1>3
      <3>2. k = Min(I)
        BY <3>1 DEF SelectInSeq
      <3> HIDE DEF I
      <3>3. Min(I) \in I
        BY <1>1, <3>1, FirstPosition
      <3>4. QED
        BY <3>1, <3>2, <3>3
    <2> HIDE DEF k
    <2>3. RemoveAt(sticky, k) \in Seq(Entries) /\ Len(RemoveAt(sticky, k)) = Len(sticky) - 1
      BY <1>1, <2>2, ShorterType
    <2>4. QED
      BY <1>1, <2>1, <2>3
  <1>4. QED
    BY <1>2, <1>3

\* A new selection evicts the oldest of a full table.
LEMMA SelectedType ==
  ASSUME RouterInv, NEW key \in {Key(c) : c \in Calls}, NEW m \in Models
  PROVE  Selected(key, m) \in Seq(Entries) /\ Len(Selected(key, m)) <= MaxSelections
  <1> DEFINE e == [key |-> key, model |-> m]
             q == Append(Cleared(key), e)
             surplus == Len(q) - MaxSelections
  <1>1. /\ Cleared(key) \in Seq(Entries) /\ Len(Cleared(key)) \in Nat
        /\ Len(Cleared(key)) <= MaxSelections /\ MaxSelections \in Nat \ {0}
    <2>1. Cleared(key) \in Seq(Entries) /\ Len(Cleared(key)) <= Len(sticky)
      BY ClearedType
    <2>2. Len(sticky) \in Nat /\ Len(sticky) <= MaxSelections
      BY DEF RouterInv
    <2>3. Len(Cleared(key)) \in Nat
      BY <2>1
    <2>4. QED
      BY <2>1, <2>2, <2>3, HordeRouterAssumption
  <1>2. e \in Entries
    BY DEF Entries
  <1> HIDE DEF e
  <1>3. q \in Seq(Entries) /\ Len(q) = Len(Cleared(key)) + 1
    BY <1>1, <1>2, AppendProperties
  <1> HIDE DEF q
  <1>4. CASE surplus > 0
    <2>1. surplus \in Int /\ surplus + 1 \in 1..(Len(q) + 1)
      BY <1>1, <1>3, <1>4
    <2>2. /\ SubSeq(q, surplus + 1, Len(q)) \in Seq(Entries)
          /\ Len(SubSeq(q, surplus + 1, Len(q))) = Len(q) - (surplus + 1) + 1
      BY <1>3, <2>1, SuffixType
    <2>3. Selected(key, m) = SubSeq(q, surplus + 1, Len(q))
      BY <1>4 DEF Selected, q, e
    <2>4. Len(q) - (surplus + 1) + 1 = MaxSelections
      BY <1>1, <1>3
    <2>5. QED
      BY <1>1, <2>2, <2>3, <2>4
  <1>5. CASE ~(surplus > 0)
    <2>1. Selected(key, m) = q
      BY <1>5 DEF Selected, q, e
    <2>2. Len(q) <= MaxSelections
      BY <1>1, <1>3, <1>5
    <2>3. QED
      BY <1>3, <2>1, <2>2
  <1>6. QED
    BY <1>4, <1>5

\* What a step may do to the router.
Keeps   == sticky' = sticky
Clears  == \E c \in Calls : sticky' = Cleared(Key(c))
Selects == \E c \in Calls, m \in Models : sticky' = Selected(Key(c), m)
Evicts  == sticky # <<>> /\ sticky' = Tail(sticky)
Records ==
  \/ failure' \in {failure, Nothing}
  \/ \E c \in Calls, m \in Models : failure' = Failed(m, Task(c))

\* The model that was tried last is one.
LEMMA LastTried ==
  ASSUME CallsInv, NEW c \in Calls, tried[c] # <<>>
  PROVE  Last(tried[c]) \in Models
  <1>1. tried[c] \in Seq(Models)
    BY DEF CallsInv
  <1>2. Len(tried[c]) \in 1..Len(tried[c])
    BY <1>1
  <1>3. QED
    BY <1>1, <1>2 DEF Last

\* What the end of an attempt may do to the selections and the last failure.
LEMMA FailsRecord ==
  ASSUME CallsInv, NEW c \in Calls, Fails(c) \/ Raises(c) \/ (~Describing(c) /\ Success(c))
  PROVE  (Keeps \/ Clears) /\ Records
  <1>1. CASE Described(c) \/ ClientError(c)
    BY <1>1 DEF Described, ClientError, router, Keeps, Records
  <1>2. CASE ~Describing(c) /\ AttemptFails(c)
    <2>1. Last(tried[c]) \in Models
      BY <1>2, LastTried DEF Describing
    <2>2. failure' = Failed(Last(tried[c]), Task(c)) /\ sticky' = Cleared(Key(c))
      BY <1>2 DEF AttemptFails
    <2>3. QED
      BY <2>1, <2>2 DEF Clears, Records
  <1>3. CASE Success(c)
    BY <1>3 DEF Success, Succeeded, Keeps, Records
  <1>4. QED
    BY <1>1, <1>2, <1>3 DEF Fails, Raises

\* Every step does one of these.
LEMMA RouterSteps ==
  ASSUME CallsInv, [Next]_vars
  PROVE  (Keeps \/ Clears \/ Selects \/ Evicts) /\ Records
  <1> DEFINE Done == (Keeps \/ Clears \/ Selects \/ Evicts) /\ Records
  <1>1. CASE UNCHANGED router
    BY <1>1 DEF router, Keeps, Records
  <1>2. ASSUME NEW c \in Calls, Refresh(c) PROVE Done
    <2>1. PICK models \in SUBSET Models : Select(c, models)
      BY <1>2 DEF Refresh
    <2>2. failure' = failure
      BY <2>1 DEF Select
    <2>3. Clears \/ Selects
      <3> DEFINE candidates == Candidates(models, ToSet(tried[c]))
      <3>1. CASE sticky' = Cleared(Key(c))
        BY <3>1 DEF Clears
      <3>2. ASSUME NEW timely \in SUBSET candidates,
                   NEW m \in Eligible(Key(c), candidates, timely),
                   sticky' = Selected(Key(c), m)
            PROVE  Selects
        <4>1. m \in candidates
          BY <2>1, <3>2 DEF Eligible, Kept
        <4>2. m \in Models
          BY <4>1 DEF Candidates
        <4>3. QED
          BY <3>2, <4>2 DEF Selects
      <3>3. QED
        BY <2>1, <3>1, <3>2 DEF Select
    <2>4. QED
      BY <2>2, <2>3 DEF Records
  <1>3. ASSUME NEW c \in Calls, Fails(c) \/ Raises(c) \/ (~Describing(c) /\ Success(c))
        PROVE  Done
    BY <1>3, FailsRecord
  <1>4. ASSUME NEW c \in Calls, Deadline(c) PROVE Done
    <2>1. sticky' = Cleared(Key(c))
      BY <1>4 DEF Deadline
    <2>2. Records
      <3>1. CASE tried[c] = <<>>
        BY <1>4, <3>1 DEF Deadline, Records
      <3>2. CASE tried[c] # <<>>
        <4>1. failure' = Failed(Last(tried[c]), Task(c))
          BY <1>4, <3>2 DEF Deadline
        <4>2. QED
          BY <3>2, <4>1, LastTried DEF Records
      <3>3. QED
        BY <3>1, <3>2
    <2>3. QED
      BY <2>1, <2>2 DEF Clears
  <1>5. CASE Forget
    BY <1>5 DEF Forget, EvictIdle, FailureFades, Keeps, Evicts, Records
  <1>6. ASSUME NEW c \in Calls, PostAnswered(c) \/ PollEnds(c) \/ PollError(c) \/ Cleanup(c)
                                  \/ AttemptTimeout(c)
        PROVE  Done
    <2>1. \/ UNCHANGED router
          \/ Fails(c) \/ Raises(c) \/ (~Describing(c) /\ Success(c))
      BY <1>6 DEF PostAnswered, PollEnds, PollError, Cleanup, AttemptTimeout
    <2> HIDE DEF Done
    <2>2. QED
      BY <1>1, <1>3, <2>1 DEF Done
  <1>7. ASSUME NEW c \in Calls, Start(c) \/ Prepare(c) \/ RefreshFails(c) \/ GiveUp(c)
                                  \/ Cancel(c) \/ Horde(c)
        PROVE  UNCHANGED router
    BY <1>7 DEF Start, Prepare, Interrogate, Attached, RefreshFails, GiveUp, Cancel, Horde
  <1>8. CASE UNCHANGED vars
    BY <1>1, <1>8 DEF vars
  <1> HIDE DEF Done
  <1>9. CASE Next
    BY <1>1, <1>2, <1>4, <1>5, <1>6, <1>7, <1>9 DEF Next, AwaitEnds, Done
  <1>10. QED
    BY <1>8, <1>9 DEF Done

\* The table stays within its bound.
LEMMA RouterAlways == Spec => []RouterInv
  <1>1. Init => RouterInv
    <2>1. <<>> \in Seq(Entries) /\ Len(<<>>) = 0
      BY EmptySeq
    <2>2. QED
      BY <2>1, HordeRouterAssumption DEF Init, RouterInit, RouterInv
  <1>2. ASSUME RouterInv, CallsInv, [Next]_vars
        PROVE  RouterInv'
    <2>1. /\ sticky \in Seq(Entries) /\ Len(sticky) <= MaxSelections
          /\ Len(sticky) \in Nat /\ MaxSelections \in Nat
      BY <1>2, HordeRouterAssumption DEF RouterInv
    <2>2. sticky' \in Seq(Entries) /\ Len(sticky') <= MaxSelections
      <3>1. CASE Keeps
        BY <2>1, <3>1 DEF Keeps
      <3>2. CASE Clears
        <4>1. sticky' \in Seq(Entries) /\ Len(sticky') <= Len(sticky)
          BY <1>2, <3>2, ClearedType DEF Clears
        <4>2. Len(sticky') \in Nat
          BY <4>1
        <4>3. QED
          BY <2>1, <4>1, <4>2
      <3>3. CASE Selects
        BY <1>2, <3>3, SelectedType DEF Selects
      <3>4. CASE Evicts
        <4>1. sticky' \in Seq(Entries) /\ Len(sticky') = Len(sticky) - 1
          BY <2>1, <3>4, HeadTailProperties DEF Evicts
        <4>2. QED
          BY <2>1, <4>1
      <3>5. QED
        BY <1>2, <3>1, <3>2, <3>3, <3>4, RouterSteps
    <2>3. failure' = Nothing \/ failure' \in [model : Models, task : {"chat", "reflection"}]
      <3>1. Records
        BY <1>2, RouterSteps
      <3>2. \A c \in Calls, m \in Models :
              Failed(m, Task(c)) \in [model : Models, task : {"chat", "reflection"}]
        BY DEF Failed, Task
      <3>3. QED
        BY <1>2, <3>1, <3>2 DEF Records, RouterInv
    <2>4. QED
      BY <2>2, <2>3 DEF RouterInv
  <1>3. QED
    BY <1>1, <1>2, CallsAlways, PTL DEF Spec

-----------------------------------------------------------------------------
(* The theorems.                                                           *)

\* A call is awaited, and its job in hand, exactly while its coroutine works on
\* them; the router's table stays within its bound (horde_router.py:376-393).
THEOREM TypeCorrect == Spec => []TypeOK
  <1>1. CallsInv /\ RouterInv => TypeOK
    <2> SUFFICES ASSUME CallsInv, RouterInv PROVE TypeOK
      OBVIOUS
    <2>1. ToSet(sticky) \subseteq Entries
      BY DEF RouterInv, ToSet
    <2>2. QED
      BY <2>1 DEF CallsInv, CallOK, RouterInv, TypeOK, Waiting
  <1>2. QED
    BY <1>1, CallsAlways, RouterAlways, PTL

\* However the metadata and the shared selections change, a call tries two models
\* at most, and different ones (llm.py:384-444).
THEOREM AlternativeAlwaysDiffers == Spec => []AlternativeDiffers
  <1>1. CallsInv => AlternativeDiffers
    BY DEF CallsInv, CallOK, AlternativeDiffers
  <1>2. QED
    BY <1>1, CallsAlways, PTL

\* No call that its deadline or a cancellation has detached submits another job
\* (llm.py:446-503).
THEOREM LateCallsNeverSubmit == Spec => LateCallsSubmitNothing
  <1>1. CallsInv /\ [Next]_vars
          => [\A c \in Calls : job[c] = "none" /\ job'[c] = "posting" => c \in awaited]_vars
    <2> SUFFICES ASSUME CallsInv, Next, NEW c \in Calls, job[c] = "none", job'[c] = "posting"
                 PROVE  c \in awaited
      BY DEF vars, jobs
    <2>1. PICK d \in Calls : Interrogate(d) \/ Refresh(d)
      BY DEF Next, AwaitEnds, Prepare, Start, Attached, RefreshFails, PostAnswered, Accepted,
             Unaccepted, GiveUp, PollGivesUp, AttemptTimeout, Abandon, Cleanup, CleanedUp,
             PollEnds, PollEnded, PollError, PollRefused, Deadline, Cancel, CancelCall, Horde,
             Accept, RemoteEnds, Forget, Leave, JobIs, jobs, CallsInv
    <2>2. step[d] # "idle" /\ (job'[c] = job[c] \/ c = d)
      BY <2>1 DEF Interrogate, Refresh, Select, Submit, JobIs, jobs, CallsInv
    <2>3. QED
      BY <2>2 DEF CallsInv, CallOK
  <1>2. QED
    BY <1>1, CallsAlways, PTL DEF Spec, LateCallsSubmitNothing

\* A job that runs at the Horde under a known id is dropped by a refused poll only
\* (horde_client.py:325-474).
THEOREM JobsAlwaysClosed == Spec => JobsAreClosed
  <1>1. CallsInv /\ [Next]_vars
          => [\A c \in Calls : job[c] = "open" /\ job'[c] = "none" /\ remote[c] = "running"
                                 => PollError(c)]_vars
    <2> SUFFICES ASSUME CallsInv, Next, NEW c \in Calls,
                        job[c] = "open", job'[c] = "none", remote[c] = "running"
                 PROVE  PollError(c)
      BY DEF vars, jobs
    <2>1. PICK d \in Calls : \/ PostAnswered(d) /\ Unaccepted(d)
                             \/ PollEnds(d) \/ PollError(d) \/ Cleanup(d)
                             \/ ~Outlives(job[d]) /\ Leave(d)
      BY DEF Next, AwaitEnds, Prepare, Start, Interrogate, Attached, Refresh, Select, Submit,
             RefreshFails, PostAnswered, Accepted, GiveUp, PollGivesUp, AttemptTimeout, Abandon,
             Deadline, Cancel, CancelCall, Horde, Accept, RemoteEnds, Forget, JobIs, jobs,
             CallsInv
    <2>2. c = d
      BY <2>1 DEF PollEnds, PollEnded, PollError, PollRefused, Unaccepted, Cleanup, CleanedUp,
                  Leave, JobIs, CallsInv
    <2>3. QED
      BY <2>1, <2>2 DEF PollEnds, PollEnded, Unaccepted, Cleanup, CleanedUp, Outlives
  <1>2. QED
    BY <1>1, CallsAlways, PTL DEF Spec, JobsAreClosed
=============================================================================
