------------------------------ MODULE Proactive ------------------------------
(***************************************************************************)
(* The proactive sweep of agentbot/app.py:835-945: a post that the bot     *)
(* starts by itself in a channel that has been quiet for long enough.      *)
(*                                                                         *)
(* The sweep awaits the channel's lock, the provider and Discord; between  *)
(* two awaits it is atomic.  Beside it participants write, turns answer    *)
(* them under the same lock, and the process may stop at any point, the    *)
(* commit of the posted row and the commit of the channel's proactive      *)
(* state being two.  Times are in units coarse enough that several things  *)
(* happen in one.                                                          *)
(***************************************************************************)
EXTENDS Integers, FiniteSets

CONSTANTS Channels,     \* channels with proactive = 1
          Nothing,      \* no channel
          MinIdle,      \* PROACTIVE_MIN_IDLE_SECONDS
          Lateness,     \* time from a message to the storing of its row: lock
                        \* timeout and attachment deadline
          Cooldown,     \* PROACTIVE_COOLDOWN_SECONDS
          DailyLimit,   \* PROACTIVE_DAILY_LIMIT
          DayLength,    \* time units in a day of PROACTIVE_TIMEZONE
          MaxTime,      \* bound: the clock
          MaxSaid,      \* bound: messages in a channel
          MaxRestarts   \* bound: process restarts

ASSUME ProactiveAssumption ==
  /\ Nothing \notin Channels
  /\ {MinIdle, Cooldown, DailyLimit, DayLength} \subseteq Nat \ {0}
  /\ Lateness \in 0..(MinIdle - 1)
  /\ MaxTime \in Nat \ {0} /\ {MaxSaid, MaxRestarts} \subseteq Nat

Never == 0      \* MAX(created_at) of no row; last_proactive_at of no row
Times == 1..MaxTime
Day(time) == time \div DayLength

VARIABLES
  clock,         \* Discord's and the host's time
  said,          \* messages in each channel; the last one is its last_message_id
  known,         \* of that last message, the row in the channel's scope: "stored",
                 \* "unstored", or "deleted" since it was stored
  activity,      \* created_at of the newest participant's row
  late,          \* [at, number] of a participant's message still to be stored
  busy,          \* channels whose lock a turn holds
  channelState,  \* table channel_state: [at, day, count]
  sweep,         \* the loop's locals; [at |-> "idle"] between sweeps
  restarts,
  answered,      \* history: a participant wrote after the last proactive post,
                 \* or while it was being sent
  unmarked,      \* history: the last proactive post has not been marked: Discord's
                 \* answer was lost, or the process stopped before the commit
  sentOn         \* history: marked posts of the sweeps begun on each day

discord  == <<said, known>>
history  == <<answered, unmarked, sentOn>>
vars     == <<clock, discord, activity, late, busy, channelState, sweep, restarts, history>>

NoSweep == [at |-> "idle", now |-> 0, left |-> {}, posted |-> FALSE,
            channel |-> Nothing, activity |-> Never, seen |-> 0, sentAt |-> 0]

Init ==
  /\ clock = 1
  /\ said = [c \in Channels |-> 0]
  /\ known = [c \in Channels |-> "unstored"]
  /\ activity = [c \in Channels |-> Never]
  /\ late = [c \in Channels |-> [at |-> Never, number |-> 0]]
  /\ busy = {}
  /\ channelState = [c \in Channels |-> [at |-> Never, day |-> -1, count |-> 0]]
  /\ sweep = NoSweep
  /\ restarts = 0
  /\ answered = [c \in Channels |-> TRUE]
  /\ unmarked = [c \in Channels |-> FALSE]
  /\ sentOn = [c \in Channels |-> [d \in 0..Day(MaxTime) |-> 0]]

Locked(c) == c \in busy \/ (sweep.channel = c /\ sweep.at \in {"writing", "sending", "sent"})

-----------------------------------------------------------------------------
(* The channels.                                                           *)

Tick ==
  /\ clock < MaxTime
  /\ \A c \in Channels : late[c].at # Never => clock < late[c].at + Lateness
  /\ clock' = clock + 1
  /\ UNCHANGED <<discord, activity, late, busy, channelState, sweep, restarts, history>>

\* A participant writes.  The row is stored at once (an ambient message), when
\* a turn has the lock and the attachments, or never (storage disabled).  Only
\* the last of several late messages is still stored.
Speak(c) ==
  /\ said[c] < MaxSaid
  /\ said' = [said EXCEPT ![c] = @ + 1]
  /\ answered' = [answered EXCEPT ![c] = TRUE]
  /\ \/ /\ known' = [known EXCEPT ![c] = "stored"]
        /\ activity' = [activity EXCEPT ![c] = clock]
        /\ UNCHANGED late
     \/ /\ known' = [known EXCEPT ![c] = "unstored"]
        /\ late' = [late EXCEPT ![c] = [at |-> clock, number |-> said'[c]]]
        /\ UNCHANGED activity
  /\ UNCHANGED <<clock, busy, channelState, sweep, restarts, unmarked, sentOn>>

NotLate(c) == late' = [late EXCEPT ![c] = [at |-> Never, number |-> 0]]

\* The turn that a late message began takes the channel's lock and, unless its
\* author's storage is disabled, stores the message.
TurnStarts(c) ==
  /\ late[c].at # Never
  /\ ~Locked(c)
  /\ busy' = busy \cup {c}
  /\ NotLate(c)
  /\ \/ /\ activity' = [activity EXCEPT ![c] = IF @ < late[c].at THEN late[c].at ELSE @]
        /\ known' = [known EXCEPT ![c] = IF late[c].number = said[c] THEN "stored" ELSE @]
     \/ UNCHANGED <<known, activity>>
  /\ UNCHANGED <<clock, said, channelState, sweep, restarts, history>>

\* It gives up on the lock, and may say so.
TurnTimesOut(c) ==
  /\ late[c].at # Never
  /\ NotLate(c)
  /\ \/ UNCHANGED discord
     \/ /\ said[c] < MaxSaid
        /\ said' = [said EXCEPT ![c] = @ + 1]
        /\ known' = [known EXCEPT ![c] = "unstored"]
  /\ UNCHANGED <<clock, activity, busy, channelState, sweep, restarts, history>>

\* It answers, and stores the answer unless storage has been disabled since, or
\* it fails.
TurnEnds(c) ==
  /\ c \in busy
  /\ busy' = busy \ {c}
  /\ \/ UNCHANGED discord
     \/ /\ said[c] < MaxSaid
        /\ said' = [said EXCEPT ![c] = @ + 1]
        /\ \E row \in {"stored", "unstored"} : known' = [known EXCEPT ![c] = row]
  /\ UNCHANGED <<clock, activity, late, channelState, sweep, restarts, history>>

\* /memory forget, or a ceiling, deletes rows of the channel.  What is left need
\* not be older: another participant's row may be of the same second as one that
\* is deleted, be it the last message's.
Forget(c) ==
  /\ \E left \in 0..activity[c] : activity' = [activity EXCEPT ![c] = left]
  /\ \/ known' = known
     \/ known[c] = "stored" /\ known' = [known EXCEPT ![c] = "deleted"]
  /\ UNCHANGED <<clock, said, late, busy, channelState, sweep, restarts, history>>

-----------------------------------------------------------------------------
(* The sweep.                                                              *)

StartSweep ==
  /\ sweep.at = "idle"
  /\ sweep' = [NoSweep EXCEPT !.at = "looking", !.now = clock, !.left = Channels]
  /\ UNCHANGED <<clock, discord, activity, late, busy, channelState, restarts, history>>

\* Mutant: activity in the second of the last post counts as newer.
EligibleAtOnce(c) ==
  LET s == channelState[c]
  IN  /\ activity[c] # Never /\ sweep.now - activity[c] >= MinIdle
      /\ ~(s.at # Never /\ activity[c] < s.at)
      /\ s.at = Never \/ sweep.now - s.at >= Cooldown
      /\ ~(s.day = Day(sweep.now) /\ s.count >= DailyLimit)

\* Mutant: the quota is one too many.
EligibleOverQuota(c) ==
  LET s == channelState[c]
  IN  /\ activity[c] # Never /\ sweep.now - activity[c] >= MinIdle
      /\ ~(s.at # Never /\ activity[c] <= s.at)
      /\ s.at = Never \/ sweep.now - s.at >= Cooldown
      /\ ~(s.day = Day(sweep.now) /\ s.count > DailyLimit)

\* Quiet for long enough, with participant activity newer than the last post,
\* out of cooldown and below the day's quota.
Eligible(c) ==
  LET s == channelState[c]
  IN  /\ activity[c] # Never /\ sweep.now - activity[c] >= MinIdle
      /\ ~(s.at # Never /\ activity[c] <= s.at)
      /\ s.at = Never \/ sweep.now - s.at >= Cooldown
      /\ ~(s.day = Day(sweep.now) /\ s.count >= DailyLimit)

\* Mutant: the sweep goes on to wait for a lock it never asked for.
LeaveLocking == sweep' = [NoSweep EXCEPT !.at = "locking"]

Leave == sweep' = [sweep EXCEPT !.at = "looking", !.channel = Nothing,
                                !.activity = Never, !.seen = 0, !.sentAt = 0]

\* Not eligible, no permission to send, or a turn at work in the channel.
Pass(c) ==
  /\ sweep.at = "looking" /\ ~sweep.posted
  /\ c \in sweep.left
  /\ sweep' = [sweep EXCEPT !.left = @ \ {c}]
  /\ UNCHANGED <<clock, discord, activity, late, busy, channelState, restarts, history>>

Choose(c) ==
  /\ sweep.at = "looking" /\ ~sweep.posted
  /\ c \in sweep.left
  /\ Eligible(c)
  /\ c \notin busy
  /\ sweep' = [sweep EXCEPT !.at = "locking", !.left = @ \ {c}, !.channel = c,
                            !.activity = activity[c]]
  /\ UNCHANGED <<clock, discord, activity, late, busy, channelState, restarts, history>>

\* The lock is taken, after any turn that was woken first.  Unless the context
\* is stale the prompt is built and goes to the provider.
Write ==
  /\ sweep.at = "locking"
  /\ LET c == sweep.channel
     IN  /\ c \notin busy
         /\ IF activity[c] = sweep.activity /\ known[c] = "stored"
              THEN sweep' = [sweep EXCEPT !.at = "writing", !.seen = said[c]]
              ELSE Leave
  /\ UNCHANGED <<clock, discord, activity, late, busy, channelState, restarts, history>>

\* Mutant: only stored activity is looked for.
StillQuietInStore(c) == activity[c] = sweep.activity

\* Nothing was said while the text was written, stored or not.
StillQuiet(c) == activity[c] = sweep.activity /\ said[c] = sweep.seen

Send ==
  /\ sweep.at = "writing"
  /\ IF StillQuiet(sweep.channel)
       THEN sweep' = [sweep EXCEPT !.at = "sending"]
       ELSE Leave
  /\ UNCHANGED <<clock, discord, activity, late, busy, channelState, restarts, history>>

\* An empty text, an unexpected failure, or a refusal by Discord, whose answer
\* may also be lost after the post went through.
GiveUp ==
  /\ sweep.at \in {"writing", "sending", "sent"}
  /\ Leave
  /\ UNCHANGED <<clock, discord, activity, late, busy, channelState, restarts, history>>

\* The provider's failure ends the sweep; so do the end of the list and a post.
EndSweep ==
  /\ \/ sweep.at = "writing"
     \/ sweep.at = "looking" /\ (sweep.left = {} \/ sweep.posted)
  /\ sweep' = NoSweep
  /\ UNCHANGED <<clock, discord, activity, late, busy, channelState, restarts, history>>

\* The post is in the channel.
Post ==
  /\ sweep.at = "sending"
  /\ LET c == sweep.channel
     IN  /\ said[c] < MaxSaid
         /\ said' = [said EXCEPT ![c] = @ + 1]
         /\ known' = [known EXCEPT ![c] = "unstored"]
         /\ answered' = [answered EXCEPT ![c] = said[c] # sweep.seen]
  /\ sweep' = [sweep EXCEPT !.at = "sent", !.sentAt = clock, !.seen = said[sweep.channel] + 1]
  /\ unmarked' = [unmarked EXCEPT ![sweep.channel] = TRUE]
  /\ UNCHANGED <<clock, activity, late, busy, channelState, restarts, sentOn>>

\* mark_proactive, with the day of the sweep's start.
Marked(c) ==
  LET s == channelState[c]
  IN  [at |-> sweep.sentAt, day |-> Day(sweep.now),
       count |-> IF s.day = Day(sweep.now) THEN s.count + 1 ELSE 1]

\* record_message, whose row makes the post known if nothing followed it.
RecordPost(c) ==
  known' = [known EXCEPT ![c] = IF sweep.seen = said[c] THEN "stored" ELSE @]

\* Discord's answer is here: the post is recorded and the channel marked.
Record ==
  /\ sweep.at = "sent"
  /\ LET c == sweep.channel
     IN  /\ RecordPost(c)
         /\ channelState' = [channelState EXCEPT ![c] = Marked(c)]
         /\ unmarked' = [unmarked EXCEPT ![c] = FALSE]
         /\ sentOn' = [sentOn EXCEPT ![c][Day(sweep.now)] = @ + 1]
  /\ sweep' = [sweep EXCEPT !.at = "looking", !.posted = TRUE, !.channel = Nothing,
                            !.activity = Never, !.seen = 0, !.sentAt = 0]
  /\ UNCHANGED <<clock, said, activity, late, busy, restarts, answered>>

Stop ==
  /\ restarts < MaxRestarts
  /\ restarts' = restarts + 1
  /\ sweep' = NoSweep
  /\ busy' = {}
  /\ late' = [c \in Channels |-> [at |-> Never, number |-> 0]]

\* The process stops and starts again.
Restart ==
  /\ Stop
  /\ UNCHANGED <<clock, discord, activity, channelState, history>>

\* It stops after the commit of record_message, before that of mark_proactive.
RestartBetweenCommits ==
  /\ sweep.at = "sent"
  /\ Stop
  /\ RecordPost(sweep.channel)
  /\ UNCHANGED <<clock, said, activity, channelState, history>>

Sweep == StartSweep \/ (\E c \in Channels : Pass(c) \/ Choose(c)) \/ Write \/ Send
           \/ GiveUp \/ EndSweep \/ Post \/ Record

Next ==
  \/ \E c \in Channels : Speak(c) \/ TurnStarts(c) \/ TurnTimesOut(c)
                          \/ TurnEnds(c) \/ Forget(c)
  \/ Tick
  \/ Sweep
  \/ Restart \/ RestartBetweenCommits

Spec == Init /\ [][Next]_vars

-----------------------------------------------------------------------------
(* Properties.                                                             *)

Sweeps ==
  [at : {"idle", "looking", "locking", "writing", "sending", "sent"},
   now : 0..MaxTime, left : SUBSET Channels, posted : BOOLEAN,
   channel : Channels \cup {Nothing}, activity : 0..MaxTime,
   seen : 0..MaxSaid, sentAt : 0..MaxTime]

RowStates == {"stored", "unstored", "deleted"}

\* The type of every variable.
TypeOK ==
  /\ clock \in Times
  /\ said \in [Channels -> 0..MaxSaid]
  /\ known \in [Channels -> RowStates]
  /\ activity \in [Channels -> 0..MaxTime]
  /\ late \in [Channels -> [at : 0..MaxTime, number : 0..MaxSaid]]
  /\ busy \subseteq Channels
  /\ channelState \in [Channels -> [at : 0..MaxTime, day : Int, count : Nat]]
  /\ sweep \in Sweeps
  /\ sweep.at \in {"locking", "writing", "sending", "sent"} => sweep.channel \in Channels
  /\ restarts \in Nat
  /\ answered \in [Channels -> BOOLEAN]
  /\ unmarked \in [Channels -> BOOLEAN]
  /\ sentOn \in [Channels -> [0..Day(MaxTime) -> Nat]]

\* Two proactive posts are not chained: a participant has written in between
\* (docs/ARCHITECTURE.md:98-101), across restarts and deletions, once the first
\* of them has been marked.
NoChain ==
  [][sweep.at = "sending" /\ sweep'.at = "sent" =>
       answered[sweep.channel] \/ unmarked[sweep.channel]]_vars

Grounded(c) ==
  /\ said[c] = sweep.seen /\ known[c] # "unstored"
  /\ activity[c] # Never /\ clock - activity[c] >= MinIdle

\* A post is grounded in the channel as it is: from the prompt to the call that
\* sends it nobody has written there, stored or not, and the participants whose
\* rows there are have been quiet for as long as they must (README.md:202).  The
\* last message is in the store, unless it was deleted from there meanwhile:
\* app.py:909-920 does not look for it again as docs/ARCHITECTURE.md:97-99 has it.
PostsAreGrounded ==
  [][sweep.at = "writing" /\ sweep'.at = "sending" => Grounded(sweep.channel)]_vars

\* PROACTIVE_DAILY_LIMIT (SECURITY.md:119) holds for the day on which the sweep
\* began, across midnights and restarts.  A post that is sent after midnight is
\* one of the day before.
QuotaHolds ==
  \A c \in Channels : \A d \in 0..Day(MaxTime) : sentOn[c][d] <= DailyLimit

\* What docs/ARCHITECTURE.md:98-101 says of every post.
OneStarterPerReply ==
  [][sweep.at = "sending" /\ sweep'.at = "sent" => answered[sweep.channel]]_vars
=============================================================================
