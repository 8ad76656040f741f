--------------------------- MODULE Proactive_proofs ---------------------------
(***************************************************************************)
(* Proofs about Proactive, for every value of its constants.               *)
(***************************************************************************)
EXTENDS Proactive, TLAPS

(* Days.                                                                   *)

\* A later instant is on no earlier day.
LEMMA DayGrows ==
  ASSUME NEW a \in Nat, NEW b \in Nat, a <= b
  PROVE  Day(a) \in Nat /\ Day(b) \in Nat /\ Day(a) <= Day(b)
  BY ProactiveAssumption DEF Day

\* The least values are there, and the clock shows one of them.
LEMMA Ranges ==
  /\ 0 \in 0..MaxTime /\ Never \in 0..MaxTime /\ 0 \in 0..MaxSaid
  /\ \A n \in 0..MaxSaid : n < MaxSaid => n + 1 \in 0..MaxSaid
  /\ 1 \in Times /\ \A n \in Times : n \in 0..MaxTime /\ n # Never
  /\ \A n \in Times : n < MaxTime => n + 1 \in Times
  BY ProactiveAssumption DEF Never, Times

\* A count more.
LEMMA OneMore ==
  ASSUME NEW D, NEW f \in [D -> Nat], NEW d \in D
  PROVE  [f EXCEPT ![d] = @ + 1] \in [D -> Nat]
  OBVIOUS

-----------------------------------------------------------------------------
(* Type correctness.                                                       *)

\* The sweep's part of TypeOK.
SweepType ==
  /\ sweep \in Sweeps
  /\ sweep.at \in {"locking", "writing", "sending", "sent"} => sweep.channel \in Channels

\* A sweep that stops or leaves its channel has none.
LEMMA SweepWithout ==
  ASSUME TypeOK, Leave \/ sweep' = NoSweep
  PROVE  SweepType'
  <1>1. CASE Leave
    BY <1>1, Ranges DEF Leave, Sweeps, SweepType, TypeOK
  <1>2. CASE sweep' = NoSweep
    BY <1>2, Ranges DEF NoSweep, Sweeps, SweepType
  <1>3. QED
    BY <1>1, <1>2

\* Every variable keeps its type.
THEOREM TypeCorrect == Spec => []TypeOK
  <1>1. Init => TypeOK
    <2> SUFFICES ASSUME Init PROVE TypeOK
      OBVIOUS
    <2>1. sweep \in Sweeps
      BY Ranges DEF Init, NoSweep, Sweeps
    <2>2. QED
      BY <2>1, Ranges DEF Init, TypeOK, NoSweep, RowStates
  <1>2. TypeOK /\ [Next]_vars => TypeOK'
    <2> SUFFICES ASSUME TypeOK, [Next]_vars
                 PROVE  TypeOK'
      OBVIOUS
    <2>1. ASSUME NEW c \in Channels, Speak(c)
          PROVE  TypeOK'
      <3>1. said' \in [Channels -> 0..MaxSaid] /\ known' \in [Channels -> RowStates]
        BY <2>1, Ranges DEF Speak, discord, TypeOK, RowStates
      <3>2. activity' \in [Channels -> 0..MaxTime]
        BY <2>1, Ranges DEF Speak, TypeOK
      <3>3. late' \in [Channels -> [at : 0..MaxTime, number : 0..MaxSaid]]
        <4>1. [at |-> clock, number |-> said'[c]] \in [at : 0..MaxTime, number : 0..MaxSaid]
          BY <3>1, Ranges DEF TypeOK
        <4>2. QED
          BY <2>1, <4>1 DEF Speak, TypeOK
      <3>4. QED
        BY <2>1, <3>1, <3>2, <3>3 DEF Speak, history, TypeOK
    <2>2. ASSUME NEW c \in Channels, TurnStarts(c)
          PROVE  TypeOK'
      <3>1. said' \in [Channels -> 0..MaxSaid] /\ known' \in [Channels -> RowStates]
        BY <2>2, Ranges DEF TurnStarts, discord, TypeOK, RowStates
      <3>2. activity' \in [Channels -> 0..MaxTime]
        BY <2>2, Ranges DEF TurnStarts, TypeOK
      <3>3. late' \in [Channels -> [at : 0..MaxTime, number : 0..MaxSaid]]
        BY <2>2, <3>1, Ranges DEF TurnStarts, NotLate, TypeOK
      <3>4. QED
        BY <2>2, <3>1, <3>2, <3>3 DEF TurnStarts, history, TypeOK
    <2>3. ASSUME NEW c \in Channels, TurnTimesOut(c)
          PROVE  TypeOK'
      <3>1. said' \in [Channels -> 0..MaxSaid] /\ known' \in [Channels -> RowStates]
        <4>1. said[c] \in 0..MaxSaid /\ (said[c] < MaxSaid => said[c] + 1 \in 0..MaxSaid)
          BY Ranges DEF TypeOK
        <4>2. \/ UNCHANGED discord
              \/ /\ known' = [known EXCEPT ![c] = "unstored"]
                 /\ said[c] < MaxSaid /\ said' = [said EXCEPT ![c] = @ + 1]
          BY <2>3 DEF TurnTimesOut
        <4>3. QED
          BY <4>1, <4>2 DEF discord, TypeOK, RowStates
      <3>2. activity' \in [Channels -> 0..MaxTime]
        BY <2>3, Ranges DEF TurnTimesOut, TypeOK
      <3>3. late' \in [Channels -> [at : 0..MaxTime, number : 0..MaxSaid]]
        BY <2>3, <3>1, Ranges DEF TurnTimesOut, NotLate, TypeOK
      <3>4. QED
        BY <2>3, <3>1, <3>2, <3>3 DEF TurnTimesOut, history, TypeOK
    <2>4. ASSUME NEW c \in Channels, TurnEnds(c)
          PROVE  TypeOK'
      <3>1. said' \in [Channels -> 0..MaxSaid] /\ known' \in [Channels -> RowStates]
        <4>1. said[c] \in 0..MaxSaid /\ (said[c] < MaxSaid => said[c] + 1 \in 0..MaxSaid)
          BY Ranges DEF TypeOK
        <4>2. QED
          BY <2>4, <4>1 DEF TurnEnds, discord, TypeOK, RowStates
      <3>2. activity' \in [Channels -> 0..MaxTime]
        BY <2>4, Ranges DEF TurnEnds, TypeOK
      <3>3. late' \in [Channels -> [at : 0..MaxTime, number : 0..MaxSaid]]
        BY <2>4, <3>1, Ranges DEF TurnEnds, TypeOK
      <3>4. QED
        BY <2>4, <3>1, <3>2, <3>3 DEF TurnEnds, history, TypeOK
    <2>5. ASSUME NEW c \in Channels, Forget(c)
          PROVE  TypeOK'
      <3>1. said' \in [Channels -> 0..MaxSaid] /\ known' \in [Channels -> RowStates]
        BY <2>5, Ranges DEF Forget, discord, TypeOK, RowStates
      <3>2. activity' \in [Channels -> 0..MaxTime]
        <4>1. PICK left \in 0..activity[c] : activity' = [activity EXCEPT ![c] = left]
          BY <2>5 DEF Forget
        <4>2. left \in 0..MaxTime
          <5>1. activity[c] \in 0..MaxTime /\ MaxTime \in Nat
            BY ProactiveAssumption DEF TypeOK
          <5>2. QED
            BY <5>1
        <4>3. QED
          BY <4>1, <4>2 DEF TypeOK
      <3>3. late' \in [Channels -> [at : 0..MaxTime, number : 0..MaxSaid]]
        BY <2>5, <3>1, Ranges DEF Forget, TypeOK
      <3>4. QED
        BY <2>5, <3>1, <3>2, <3>3 DEF Forget, history, TypeOK
    <2>6. ASSUME NEW c \in Channels, Pass(c)
          PROVE  TypeOK'
      <3>1. SweepType'
        BY <2>6, Ranges DEF Pass, Sweeps, SweepType, TypeOK
      <3>2. QED
        BY <2>6, <3>1 DEF Pass, SweepType, discord, history, TypeOK
    <2>7. ASSUME NEW c \in Channels, Choose(c)
          PROVE  TypeOK'
      <3>1. SweepType'
        BY <2>7, Ranges DEF Choose, Sweeps, SweepType, TypeOK
      <3>2. QED
        BY <2>7, <3>1 DEF Choose, SweepType, discord, history, TypeOK
    <2>8. CASE Tick
      BY <2>8, Ranges DEF Tick, Sweeps, discord, history, TypeOK
    <2>9. CASE StartSweep
      <3>1. SweepType'
        BY <2>9, Ranges DEF StartSweep, NoSweep, Sweeps, SweepType, TypeOK
      <3>2. QED
        BY <2>9, <3>1 DEF StartSweep, NoSweep, SweepType, discord, history, TypeOK
    <2>10. CASE Write
      <3>1. SweepType'
        <4>1. CASE Leave
          BY <4>1, SweepWithout
        <4>2. CASE sweep' = [sweep EXCEPT !.at = "writing", !.seen = said[sweep.channel]]
          <5>1. sweep.channel \in Channels
            BY <2>10 DEF Write, TypeOK
          <5>2. QED
            BY <4>2, <5>1 DEF Sweeps, SweepType, TypeOK
        <4>3. QED
          BY <2>10, <4>1, <4>2 DEF Write
      <3>2. QED
        BY <2>10, <3>1 DEF Write, SweepType, discord, history, TypeOK
    <2>11. CASE Send
      <3>1. SweepType'
        <4>1. CASE Leave
          BY <4>1, SweepWithout
        <4>2. CASE sweep' = [sweep EXCEPT !.at = "sending"]
          <5>1. sweep.channel \in Channels
            BY <2>11 DEF Send, TypeOK
          <5>2. QED
            BY <4>2, <5>1 DEF Sweeps, SweepType, TypeOK
        <4>3. QED
          BY <2>11, <4>1, <4>2 DEF Send
      <3>2. QED
        BY <2>11, <3>1 DEF Send, SweepType, discord, history, TypeOK
    <2>12. CASE GiveUp
      <3>1. SweepType'
        BY <2>12, SweepWithout DEF GiveUp
      <3>2. QED
        BY <2>12, <3>1 DEF GiveUp, SweepType, discord, history, TypeOK
    <2>13. CASE EndSweep
      <3>1. SweepType'
        BY <2>13, SweepWithout DEF EndSweep
      <3>2. QED
        BY <2>13, <3>1 DEF EndSweep, SweepType, discord, history, TypeOK
    <2>14. CASE Post
      <3>1. SweepType'
        <4>1. sweep.channel \in Channels
          BY <2>14 DEF Post, TypeOK
        <4>2. said[sweep.channel] + 1 \in 0..MaxSaid /\ clock \in 0..MaxTime
          BY <2>14, <4>1, Ranges DEF Post, TypeOK
        <4>3. QED
          BY <2>14, <4>1, <4>2 DEF Post, Sweeps, SweepType, TypeOK
      <3>2. said' \in [Channels -> 0..MaxSaid]
        BY <2>14, Ranges DEF Post, TypeOK
      <3>3. /\ known' \in [Channels -> RowStates] /\ answered' \in [Channels -> BOOLEAN]
            /\ unmarked' \in [Channels -> BOOLEAN]
        BY <2>14 DEF Post, TypeOK, RowStates
      <3>4. UNCHANGED <<clock, activity, late, busy, channelState, restarts, sentOn>>
        BY <2>14 DEF Post
      <3>5. QED
        BY <3>1, <3>2, <3>3, <3>4 DEF SweepType, TypeOK
    <2>15. CASE Record
      <3>1. SweepType'
        BY <2>15, Ranges DEF Record, Sweeps, SweepType, TypeOK
      <3>2. QED
        <4>1. sweep.now \in 0..MaxTime /\ sweep.sentAt \in 0..MaxTime /\ MaxTime \in Nat
          BY ProactiveAssumption DEF Sweeps, TypeOK
        <4>2. Day(sweep.now) \in Nat /\ Day(sweep.now) \in 0..Day(MaxTime)
          BY <4>1, DayGrows
        <4> DEFINE c == sweep.channel
        <4>3. c \in Channels
          BY <2>15 DEF Record, TypeOK
        <4>4. Marked(c) \in [at : 0..MaxTime, day : Int, count : Nat]
          BY <4>1, <4>2, <4>3 DEF Marked, TypeOK
        <4>5. channelState' \in [Channels -> [at : 0..MaxTime, day : Int, count : Nat]]
          BY <2>15, <4>4 DEF Record, TypeOK
        <4>6. sentOn' \in [Channels -> [0..Day(MaxTime) -> Nat]]
          <5> DEFINE counts == [sentOn[c] EXCEPT ![Day(sweep.now)] = @ + 1]
          <5>1. sentOn' = [sentOn EXCEPT ![c] = counts]
            BY <2>15 DEF Record
          <5>2. sentOn \in [Channels -> [0..Day(MaxTime) -> Nat]]
            BY DEF TypeOK
          <5>3. sentOn[c] \in [0..Day(MaxTime) -> Nat]
            BY <4>3, <5>2
          <5>4. counts \in [0..Day(MaxTime) -> Nat]
            BY <4>2, <5>3, OneMore
          <5> HIDE DEF counts
          <5>5. QED
            BY <4>3, <5>1, <5>2, <5>4
        <4>7. QED
          <5>1. /\ known' \in [Channels -> RowStates] /\ unmarked' \in [Channels -> BOOLEAN]
                /\ UNCHANGED <<clock, said, activity, late, busy, restarts, answered>>
            BY <2>15 DEF Record, RecordPost, TypeOK, RowStates
          <5>2. QED
            BY <3>1, <4>5, <4>6, <5>1 DEF SweepType, TypeOK
    <2>16. CASE Restart
      <3>1. SweepType'
        BY <2>16, SweepWithout DEF Restart, Stop
      <3>2. QED
        BY <2>16, <3>1, Ranges DEF Restart, Stop, SweepType, discord, history, TypeOK
    <2>17. CASE RestartBetweenCommits
      <3>1. SweepType'
        BY <2>17, SweepWithout DEF RestartBetweenCommits, Stop
      <3>2. known' \in [Channels -> RowStates]
        BY <2>17 DEF RestartBetweenCommits, RecordPost, TypeOK, RowStates
      <3>3. QED
        BY <2>17, <3>1, <3>2, Ranges
           DEF RestartBetweenCommits, Stop, SweepType, history, TypeOK
    <2>18. CASE UNCHANGED vars
      BY <2>18 DEF vars, discord, history, TypeOK
    <2>19. QED
      BY <2>1, <2>2, <2>3, <2>4, <2>5, <2>6, <2>7, <2>8, <2>9, <2>10, <2>11, <2>12, <2>13,
         <2>14, <2>15, <2>16, <2>17, <2>18
         DEF Next, Sweep
  <1>3. QED
    BY <1>1, <1>2, PTL DEF Spec
-----------------------------------------------------------------------------
(* Posts are grounded.                                                     *)

\* What the types say of the numbers that are compared.
LEMMA Types ==
  ASSUME TypeOK
  PROVE  /\ clock \in Nat \ {0}
         /\ \A c \in Channels :
              /\ said[c] \in Nat /\ activity[c] \in Nat /\ known[c] \in RowStates
              /\ late[c].at \in Nat /\ channelState[c].at \in Nat
              /\ channelState[c].day \in Int /\ channelState[c].count \in Nat
         /\ sweep.now \in Nat /\ sweep.activity \in Nat /\ sweep.seen \in Nat
         /\ sweep.sentAt \in Nat
         /\ DOMAIN said = Channels /\ DOMAIN known = Channels /\ DOMAIN activity = Channels
         /\ DOMAIN late = Channels /\ DOMAIN channelState = Channels
         /\ DOMAIN answered = Channels /\ DOMAIN unmarked = Channels
         /\ sweep.at \in {"locking", "writing", "sending", "sent"} => sweep.channel \in Channels
  <1>1. 0..MaxTime \subseteq Nat /\ 0..MaxSaid \subseteq Nat /\ Times \subseteq Nat \ {0}
    BY ProactiveAssumption DEF Times
  <1>2. QED
    BY <1>1 DEF TypeOK, Sweeps

\* What the steps of the sweep make of its locals.
LEMMA Locals ==
  ASSUME TypeOK
  PROVE  /\ \A c \in Channels : Pass(c) => sweep'.at = "looking" /\ sweep'.now = sweep.now
         /\ \A c \in Channels : Choose(c) =>
              /\ sweep'.at = "locking" /\ sweep'.channel = c
              /\ sweep'.now = sweep.now /\ sweep'.activity = activity[c]
         /\ StartSweep => sweep'.at = "looking" /\ sweep'.now = clock
         /\ Write =>
              /\ sweep'.now = sweep.now
              /\ \/ sweep'.at = "looking"
                 \/ /\ sweep'.at = "writing" /\ sweep'.channel = sweep.channel
                    /\ sweep'.activity = sweep.activity /\ sweep'.seen = said[sweep.channel]
                    /\ activity[sweep.channel] = sweep.activity
                    /\ known[sweep.channel] = "stored"
         /\ Send =>
              /\ sweep'.now = sweep.now
              /\ \/ sweep'.at = "looking"
                 \/ /\ sweep'.at = "sending" /\ sweep'.channel = sweep.channel
                    /\ sweep'.seen = sweep.seen /\ StillQuiet(sweep.channel)
         /\ GiveUp \/ Record => sweep'.at = "looking" /\ sweep'.now = sweep.now
         /\ Post => /\ sweep'.at = "sent" /\ sweep'.channel = sweep.channel
                    /\ sweep'.now = sweep.now /\ sweep'.sentAt = clock
         /\ EndSweep \/ Restart \/ RestartBetweenCommits => sweep'.at = "idle"
  <1>1. ASSUME NEW c \in Channels, Pass(c)
        PROVE  sweep'.at = "looking" /\ sweep'.now = sweep.now
    BY <1>1 DEF Pass, Sweeps, TypeOK
  <1>2. ASSUME NEW c \in Channels, Choose(c)
        PROVE  /\ sweep'.at = "locking" /\ sweep'.channel = c
               /\ sweep'.now = sweep.now /\ sweep'.activity = activity[c]
    BY <1>2 DEF Choose, Sweeps, TypeOK
  <1>3. ASSUME Leave
        PROVE  sweep'.at = "looking" /\ sweep'.now = sweep.now
    BY <1>3 DEF Leave, Sweeps, TypeOK
  <1>4. ASSUME Write, ~Leave
        PROVE  /\ sweep'.at = "writing" /\ sweep'.channel = sweep.channel
               /\ sweep'.now = sweep.now
               /\ sweep'.activity = sweep.activity /\ sweep'.seen = said[sweep.channel]
               /\ activity[sweep.channel] = sweep.activity
                    /\ known[sweep.channel] = "stored"
    BY <1>4 DEF Write, Sweeps, TypeOK
  <1>5. ASSUME Send, ~Leave
        PROVE  /\ sweep'.at = "sending" /\ sweep'.channel = sweep.channel
               /\ sweep'.now = sweep.now
               /\ sweep'.seen = sweep.seen /\ StillQuiet(sweep.channel)
    BY <1>5 DEF Send, Sweeps, TypeOK
  <1>6. ASSUME Post
        PROVE  /\ sweep'.at = "sent" /\ sweep'.channel = sweep.channel
               /\ sweep'.now = sweep.now /\ sweep'.sentAt = clock
    BY <1>6 DEF Post, Sweeps, TypeOK
  <1>7. ASSUME Record
        PROVE  sweep'.at = "looking" /\ sweep'.now = sweep.now
    BY <1>7 DEF Record, Sweeps, TypeOK
  <1>8. ASSUME StartSweep
        PROVE  sweep'.at = "looking" /\ sweep'.now = clock
    BY <1>8 DEF StartSweep, NoSweep
  <1>9. ASSUME EndSweep \/ Restart \/ RestartBetweenCommits
        PROVE  sweep'.at = "idle"
    BY <1>9 DEF EndSweep, Restart, RestartBetweenCommits, Stop, NoSweep
  <1>10. GiveUp => Leave
    BY DEF GiveUp
  <1>11. QED
    BY <1>1, <1>2, <1>3, <1>4, <1>5, <1>6, <1>7, <1>8, <1>9, <1>10

\* While a text is written the turns are kept out of the channel, so the row of
\* its last message, which was there for the prompt, goes only by a deletion.
GroundInv ==
  /\ sweep.at # "idle" => sweep.now <= clock
  /\ sweep.at \in {"locking", "writing"} =>
       sweep.activity # Never /\ clock - sweep.activity >= MinIdle
  /\ sweep.at = "writing" =>
       LET c == sweep.channel
       IN  /\ c \notin busy /\ said[c] >= sweep.seen
           /\ said[c] = sweep.seen => known[c] # "unstored"

\* GroundInv is inductive.
LEMMA GroundAlways == Spec => []GroundInv
  <1>1. Init => GroundInv
    BY DEF Init, NoSweep, GroundInv
  <1>2. TypeOK /\ GroundInv /\ [Next]_vars => GroundInv'
    <2> SUFFICES ASSUME TypeOK, GroundInv, [Next]_vars
                 PROVE  GroundInv'
      OBVIOUS
    <2>1. ASSUME NEW c \in Channels, Speak(c)
          PROVE  GroundInv'
      BY <2>1, Types, Locals DEF Speak, discord, history, GroundInv
    <2>2. ASSUME NEW c \in Channels, TurnStarts(c)
          PROVE  GroundInv'
      BY <2>2, Types, Locals DEF TurnStarts, NotLate, discord, history, GroundInv, Locked
    <2>3. ASSUME NEW c \in Channels, TurnTimesOut(c)
          PROVE  GroundInv'
      BY <2>3, Types, Locals DEF TurnTimesOut, NotLate, discord, history, GroundInv
    <2>4. ASSUME NEW c \in Channels, TurnEnds(c)
          PROVE  GroundInv'
      BY <2>4, Types, Locals DEF TurnEnds, discord, history, GroundInv
    <2>5. ASSUME NEW c \in Channels, Forget(c)
          PROVE  GroundInv'
      BY <2>5, Types, Locals DEF Forget, discord, history, GroundInv
    <2>6. ASSUME NEW c \in Channels, Pass(c)
          PROVE  GroundInv'
      BY <2>6, Types, Locals DEF Pass, discord, history, GroundInv
    <2>7. ASSUME NEW c \in Channels, Choose(c)
          PROVE  GroundInv'
      <3>1. sweep.at = "looking" /\ Eligible(c) /\ clock' = clock
        BY <2>7 DEF Choose
      <3>2. activity[c] # Never /\ clock - activity[c] >= MinIdle
        BY <3>1, Types, ProactiveAssumption DEF Eligible, GroundInv
      <3>3. QED
        BY <2>7, <3>1, <3>2, Locals, Types DEF GroundInv
    <2>8. CASE Tick
      BY <2>8, Types, Locals, ProactiveAssumption DEF Tick, discord, history, GroundInv
    <2>9. CASE StartSweep
      BY <2>9, Types, Locals DEF StartSweep, discord, history, GroundInv
    <2>10. CASE Write
      BY <2>10, Types, Locals DEF Write, discord, history, GroundInv
    <2>11. CASE Send
      BY <2>11, Types, Locals DEF Send, discord, history, GroundInv
    <2>12. CASE GiveUp
      BY <2>12, Types, Locals DEF GiveUp, discord, history, GroundInv
    <2>13. CASE EndSweep
      BY <2>13, Types, Locals DEF EndSweep, discord, history, GroundInv
    <2>14. CASE Post
      BY <2>14, Types, Locals DEF Post, discord, history, GroundInv
    <2>15. CASE Record
      BY <2>15, Types, Locals DEF Record, RecordPost, Marked, discord, history, GroundInv
    <2>16. CASE Restart
      BY <2>16, Types, Locals DEF Restart, Stop, discord, history, GroundInv
    <2>17. CASE RestartBetweenCommits
      BY <2>17, Types, Locals
         DEF RestartBetweenCommits, Stop, RecordPost, discord, history, GroundInv
    <2>18. CASE UNCHANGED vars
      BY <2>18 DEF vars, discord, history, GroundInv
    <2>19. QED
      BY <2>1, <2>2, <2>3, <2>4, <2>5, <2>6, <2>7, <2>8, <2>9, <2>10, <2>11, <2>12, <2>13,
         <2>14, <2>15, <2>16, <2>17, <2>18
         DEF Next, Sweep
  <1>3. QED
    BY <1>1, <1>2, TypeCorrect, PTL DEF Spec

\* Who sends, and who posts.
LEMMA SendersAndPosters ==
  ASSUME TypeOK, [Next]_vars
  PROVE  /\ sweep.at = "writing" /\ sweep'.at = "sending" => Send
         /\ sweep.at = "sending" /\ sweep'.at = "sent" => Post
  <1>1. CASE \E c \in Channels : Pass(c) \/ Choose(c)
    BY <1>1, Locals
  <1>2. CASE StartSweep \/ Write \/ Send \/ GiveUp \/ EndSweep \/ Post \/ Record
               \/ Restart \/ RestartBetweenCommits
    BY <1>2, Locals
  <1>3. CASE \/ Tick \/ UNCHANGED vars
             \/ \E c \in Channels : Speak(c) \/ TurnStarts(c) \/ TurnTimesOut(c)
                                      \/ TurnEnds(c) \/ Forget(c)
    <2>1. UNCHANGED sweep
      BY <1>3 DEF Tick, vars, Speak, TurnStarts, TurnTimesOut, TurnEnds, Forget
    <2>2. QED
      BY <2>1
  <1>4. QED
    BY <1>1, <1>2, <1>3 DEF Next, Sweep

\* Nobody has written in the channel of a post since its prompt was built, the
\* row of its last message has gone by a deletion if at all, and it has been
\* quiet for long enough.
THEOREM PostsAlwaysGrounded == Spec => PostsAreGrounded
  <1>1. TypeOK /\ GroundInv /\ [Next]_vars =>
          [sweep.at = "writing" /\ sweep'.at = "sending" => Grounded(sweep.channel)]_vars
    <2> SUFFICES ASSUME TypeOK, GroundInv, [Next]_vars,
                        sweep.at = "writing", sweep'.at = "sending"
                 PROVE  Grounded(sweep.channel)
      OBVIOUS
    <2>1. StillQuiet(sweep.channel)
      BY SendersAndPosters, Locals
    <2>2. QED
      BY <2>1 DEF StillQuiet, Grounded, GroundInv
  <1>2. QED
    BY <1>1, TypeCorrect, GroundAlways, PTL DEF Spec, PostsAreGrounded

-----------------------------------------------------------------------------
(* Posts do not chain.                                                     *)

\* No row of a participant in c, stored or to be stored, is newer than time.
NotNewer(c, time) == activity[c] <= time /\ late[c].at <= time

\* Where nobody has written since the last post, nothing is newer than its
\* mark; so the sweep chooses only channels that were answered or not marked.
ChainInv ==
  /\ \A c \in Channels :
       /\ NotNewer(c, clock)
       /\ \/ answered[c] \/ unmarked[c]
          \/ channelState[c].at # Never /\ NotNewer(c, channelState[c].at)
  /\ sweep.at \in {"locking", "writing", "sending"} =>
       answered[sweep.channel] \/ unmarked[sweep.channel]
  /\ sweep.at = "sent" =>
       /\ sweep.sentAt # Never
       /\ answered[sweep.channel] \/ NotNewer(sweep.channel, sweep.sentAt)

\* ChainInv is inductive.
LEMMA ChainAlways == Spec => []ChainInv
  <1>1. Init => ChainInv
    BY ProactiveAssumption DEF Init, NoSweep, ChainInv, NotNewer, Never
  <1>2. TypeOK /\ ChainInv /\ [Next]_vars => ChainInv'
    <2> SUFFICES ASSUME TypeOK, ChainInv, [Next]_vars
                 PROVE  ChainInv'
      OBVIOUS
    <2>1. ASSUME NEW c \in Channels, Speak(c)
          PROVE  ChainInv'
      BY <2>1, Types, Locals DEF Speak, discord, history, ChainInv, NotNewer, Never
    <2>2. ASSUME NEW c \in Channels, TurnStarts(c)
          PROVE  ChainInv'
      BY <2>2, Types, Locals
         DEF TurnStarts, NotLate, discord, history, ChainInv, NotNewer, Never
    <2>3. ASSUME NEW c \in Channels, TurnTimesOut(c)
          PROVE  ChainInv'
      BY <2>3, Types, Locals
         DEF TurnTimesOut, NotLate, discord, history, ChainInv, NotNewer, Never
    <2>4. ASSUME NEW c \in Channels, TurnEnds(c)
          PROVE  ChainInv'
      BY <2>4, Types, Locals DEF TurnEnds, discord, history, ChainInv, NotNewer, Never
    <2>5. ASSUME NEW c \in Channels, Forget(c)
          PROVE  ChainInv'
      BY <2>5, Types, Locals DEF Forget, discord, history, ChainInv, NotNewer, Never
    <2>6. ASSUME NEW c \in Channels, Pass(c)
          PROVE  ChainInv'
      BY <2>6, Types, Locals DEF Pass, discord, history, ChainInv, NotNewer, Never
    <2>7. ASSUME NEW c \in Channels, Choose(c)
          PROVE  ChainInv'
      BY <2>7, Types, Locals DEF Choose, discord, history, ChainInv, NotNewer, Never, Eligible
    <2>8. CASE Tick
      BY <2>8, Types, Locals DEF Tick, discord, history, ChainInv, NotNewer, Never
    <2>9. CASE StartSweep
      BY <2>9, Types, Locals DEF StartSweep, discord, history, ChainInv, NotNewer, Never
    <2>10. CASE Write
      BY <2>10, Types, Locals DEF Write, discord, history, ChainInv, NotNewer, Never
    <2>11. CASE Send
      BY <2>11, Types, Locals DEF Send, discord, history, ChainInv, NotNewer, Never
    <2>12. CASE GiveUp
      BY <2>12, Types, Locals DEF GiveUp, discord, history, ChainInv, NotNewer, Never
    <2>13. CASE EndSweep
      BY <2>13, Types, Locals DEF EndSweep, discord, history, ChainInv, NotNewer, Never
    <2>14. CASE Post
      BY <2>14, Types, Locals DEF Post, discord, history, ChainInv, NotNewer, Never
    <2>15. CASE Record
      BY <2>15, Types, Locals
         DEF Record, RecordPost, Marked, discord, history, ChainInv, NotNewer, Never
    <2>16. CASE Restart
      BY <2>16, Types, Locals DEF Restart, Stop, discord, history, ChainInv, NotNewer, Never
    <2>17. CASE RestartBetweenCommits
      BY <2>17, Types, Locals
         DEF RestartBetweenCommits, Stop, RecordPost, discord, history, ChainInv, NotNewer,
             Never
    <2>18. CASE UNCHANGED vars
      BY <2>18 DEF vars, discord, history, ChainInv, NotNewer, Never
    <2>19. QED
      BY <2>1, <2>2, <2>3, <2>4, <2>5, <2>6, <2>7, <2>8, <2>9, <2>10, <2>11, <2>12, <2>13,
         <2>14, <2>15, <2>16, <2>17, <2>18
         DEF Next, Sweep
  <1>3. QED
    BY <1>1, <1>2, TypeCorrect, PTL DEF Spec

\* Of two posts in a channel the first of which is marked, a participant's
\* message lies between.
THEOREM PostsNeverChain == Spec => NoChain
  <1>1. TypeOK /\ ChainInv /\ [Next]_vars =>
          [sweep.at = "sending" /\ sweep'.at = "sent" =>
             answered[sweep.channel] \/ unmarked[sweep.channel]]_vars
    BY DEF ChainInv
  <1>2. QED
    BY <1>1, TypeCorrect, ChainAlways, PTL DEF Spec, NoChain

-----------------------------------------------------------------------------
(* The quota holds.                                                        *)

\* channelState counts the posts of its day, no later day has any, and a channel
\* that has been chosen is below its quota until its post is recorded.
QuotaInv ==
  /\ \A c \in Channels : channelState[c].day <= Day(clock)
  /\ sweep.at # "idle" =>
       /\ sweep.now <= clock
       /\ \A c \in Channels : channelState[c].day <= Day(sweep.now)
  /\ \A c \in Channels : \A d \in 0..Day(MaxTime) :
       /\ d > channelState[c].day => sentOn[c][d] = 0
       /\ d = channelState[c].day => sentOn[c][d] = channelState[c].count
       /\ sentOn[c][d] <= DailyLimit
  /\ sweep.at \in {"locking", "writing", "sending", "sent"} =>
       LET s == channelState[sweep.channel]
       IN  s.day = Day(sweep.now) => s.count < DailyLimit

\* QuotaInv is inductive.
LEMMA QuotaAlways == Spec => []QuotaInv
  <1>1. Init => QuotaInv
    <2> SUFFICES ASSUME Init PROVE QuotaInv
      OBVIOUS
    <2>1. Day(clock) \in Nat /\ DailyLimit \in Nat
      BY DayGrows, ProactiveAssumption DEF Init
    <2>2. QED
      BY <2>1 DEF Init, NoSweep, QuotaInv
  <1>2. TypeOK /\ QuotaInv /\ [Next]_vars => QuotaInv'
    <2> SUFFICES ASSUME TypeOK, QuotaInv, [Next]_vars
                 PROVE  QuotaInv'
      OBVIOUS
    <2>1. ASSUME NEW c \in Channels, Speak(c)
          PROVE  QuotaInv'
      BY <2>1, Types, Locals DEF Speak, discord, history, QuotaInv
    <2>2. ASSUME NEW c \in Channels, TurnStarts(c)
          PROVE  QuotaInv'
      BY <2>2, Types, Locals DEF TurnStarts, NotLate, discord, history, QuotaInv
    <2>3. ASSUME NEW c \in Channels, TurnTimesOut(c)
          PROVE  QuotaInv'
      BY <2>3, Types, Locals DEF TurnTimesOut, NotLate, discord, history, QuotaInv
    <2>4. ASSUME NEW c \in Channels, TurnEnds(c)
          PROVE  QuotaInv'
      BY <2>4, Types, Locals DEF TurnEnds, discord, history, QuotaInv
    <2>5. ASSUME NEW c \in Channels, Forget(c)
          PROVE  QuotaInv'
      BY <2>5, Types, Locals DEF Forget, discord, history, QuotaInv
    <2>6. ASSUME NEW c \in Channels, Pass(c)
          PROVE  QuotaInv'
      BY <2>6, Types, Locals DEF Pass, discord, history, QuotaInv
    <2>7. ASSUME NEW c \in Channels, Choose(c)
          PROVE  QuotaInv'
      <3>1. Eligible(c) /\ sweep.at = "looking" /\ UNCHANGED <<clock, channelState, sentOn>>
        BY <2>7 DEF Choose, history
      <3>2. channelState[c].day = Day(sweep.now) => channelState[c].count < DailyLimit
        BY <3>1, Types, ProactiveAssumption DEF Eligible
      <3>3. QED
        BY <2>7, <3>1, <3>2, Locals DEF QuotaInv
    <2>8. CASE Tick
      BY <2>8, Types, Locals, DayGrows DEF Tick, discord, history, QuotaInv
    <2>9. CASE StartSweep
      BY <2>9, Types, Locals DEF StartSweep, discord, history, QuotaInv
    <2>10. CASE Write
      BY <2>10, Types, Locals DEF Write, discord, history, QuotaInv
    <2>11. CASE Send
      BY <2>11, Types, Locals DEF Send, discord, history, QuotaInv
    <2>12. CASE GiveUp
      BY <2>12, Types, Locals DEF GiveUp, discord, history, QuotaInv
    <2>13. CASE EndSweep
      BY <2>13, Types, Locals DEF EndSweep, discord, history, QuotaInv
    <2>14. CASE Post
      BY <2>14, Types, Locals DEF Post, discord, history, QuotaInv
    <2>15. CASE Record
      <3> DEFINE c == sweep.channel
                 day == Day(sweep.now)
                 s == channelState[c]
      <3>1. sweep.at = "sent" /\ c \in Channels
        BY <2>15, Types DEF Record
      <3>2. day \in 0..Day(MaxTime)
        <4>1. sweep.now \in 0..MaxTime /\ MaxTime \in Nat
          BY ProactiveAssumption DEF TypeOK, Sweeps
        <4>2. QED
          BY <4>1, DayGrows
      <3>3. /\ s.day <= day
            /\ s.day = day => s.count < DailyLimit /\ sentOn[c][day] = s.count
            /\ s.day < day => sentOn[c][day] = 0
        BY <3>1, <3>2, Types DEF QuotaInv
      <3>4. sentOn \in [Channels -> [0..Day(MaxTime) -> Nat]]
        BY DEF TypeOK
      <3>5. sentOn[c][day] < DailyLimit
        BY <3>2, <3>3, Types, <3>1, ProactiveAssumption
      <3>6. /\ channelState' = [channelState EXCEPT ![c] = Marked(c)]
            /\ sentOn' = [sentOn EXCEPT ![c][day] = @ + 1]
            /\ clock' = clock
        BY <2>15 DEF Record
      <3>7. Marked(c).day = day /\ Marked(c).count = sentOn[c][day] + 1
        BY <3>3, <3>1, <3>2, Types DEF Marked
      <3>8. /\ channelState'[c].day = day /\ channelState'[c].count = sentOn[c][day] + 1
            /\ sentOn'[c][day] = sentOn[c][day] + 1
            /\ \A d \in 0..Day(MaxTime) : d # day => sentOn'[c][d] = sentOn[c][d]
            /\ \A e \in Channels : e # c =>
                 channelState'[e] = channelState[e] /\ sentOn'[e] = sentOn[e]
        BY <3>1, <3>2, <3>4, <3>6, <3>7, Types
      <3>9. sweep'.at = "looking" /\ sweep'.now = sweep.now /\ sweep.now <= clock
        BY <3>1, <2>15, Locals DEF QuotaInv
      <3>10. \A e \in Channels : channelState[e].day <= day /\ channelState[e].day <= Day(clock)
        BY <3>1 DEF QuotaInv
      <3>11. day <= Day(clock)
        BY <3>9, DayGrows, Types
      <3>12. \A e \in Channels : channelState'[e].day <= day /\ channelState'[e].day <= Day(clock)
        BY <3>2, <3>8, <3>10, <3>11
      <3>13. ASSUME NEW e \in Channels, NEW d \in 0..Day(MaxTime)
             PROVE  /\ d > channelState'[e].day => sentOn'[e][d] = 0
                    /\ d = channelState'[e].day => sentOn'[e][d] = channelState'[e].count
                    /\ sentOn'[e][d] <= DailyLimit
        <4>1. CASE e # c
          BY <3>8, <4>1 DEF QuotaInv
        <4>2. CASE e = c /\ d # day
          <5>1. d > day => d > s.day
            BY <3>2, <3>3, <3>1, Types
          <5>2. QED
            BY <3>1, <3>8, <4>2, <5>1 DEF QuotaInv
        <4>3. CASE e = c /\ d = day
          <5>1. sentOn[c][day] + 1 <= DailyLimit
            <6>1. sentOn[c][day] \in Nat /\ DailyLimit \in Nat
              BY <3>1, <3>2, <3>4, ProactiveAssumption
            <6>2. QED
              BY <6>1, <3>5
          <5>2. QED
            BY <3>2, <3>8, <4>3, <5>1
        <4>4. QED
          BY <4>1, <4>2, <4>3
      <3>14. QED
        BY <3>6, <3>9, <3>12, <3>13 DEF QuotaInv
    <2>16. CASE Restart
      BY <2>16, Types, Locals DEF Restart, Stop, discord, history, QuotaInv
    <2>17. CASE RestartBetweenCommits
      BY <2>17, Types, Locals
         DEF RestartBetweenCommits, Stop, RecordPost, discord, history, QuotaInv
    <2>18. CASE UNCHANGED vars
      BY <2>18 DEF vars, discord, history, QuotaInv
    <2>19. QED
      BY <2>1, <2>2, <2>3, <2>4, <2>5, <2>6, <2>7, <2>8, <2>9, <2>10, <2>11, <2>12, <2>13,
         <2>14, <2>15, <2>16, <2>17, <2>18
         DEF Next, Sweep
  <1>3. QED
    BY <1>1, <1>2, TypeCorrect, PTL DEF Spec

\* No channel gets more marked posts from the sweeps of a day than the limit.
THEOREM QuotaAlwaysHolds == Spec => []QuotaHolds
  <1>1. QuotaInv => QuotaHolds
    BY DEF QuotaInv, QuotaHolds
  <1>2. QED
    BY <1>1, QuotaAlways, PTL
==============================================================================
