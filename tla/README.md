# A formal model of discord-agent-lite

TLA+ specifications of the Discord agent in `src/agentbot`, checked with TLC and, where
stated, proved with TLAPS. File and line references are to the repository; a reference
without a directory is to `src/agentbot`.

The program is one Python process: one asyncio event loop, one SQLite connection, one
HTTP session to AI Horde. Code between two `await`s is atomic; everything hard happens
across them. So the models all have the same grain: **an action is the code between two
awaits**, with every database commit it makes, and the steps of handlers, background
tasks, the proactive sweep, slash commands, timeouts and restarts interleave freely.

## 1. Inventory

| Component | State | Operations | Talks to |
|---|---|---|---|
| Message handling (`app.py:498-833`) | `request_slots`, the handlers' locals: the revisions read at admission, `persist_turn` | `on_message`, `_on_message`, `_handle_generation` | channel locks, limiters, store, `AgentCore.reply`, Discord |
| Channel locks (`app.py:335-356`) | `_channel_locks`: at most 512 `asyncio.Lock`s, least recently used first | `_get_channel_lock`, `acquire` with and without a timeout, `release` | handlers, proactive sweep |
| Conversation memory (`memory.py`) | tables `messages`, `memories`; `_global_message_checks_remaining` | `record_message`, `add_memory`, `delete_memory`, `prune`, reads | handlers, commands, maintenance |
| Privacy and profile epochs (`memory.py`, `commands.py`) | tables `privacy`, `profile_state` | `set_opted_out`, `delete_conversation_memory`, `reset_social_profile`, `delete_social_record` | every write of work in flight |
| Social evidence (`memory.py`) | tables `relationships`, `relationship_events` | `record_relationship_interaction`, `save_relationship_reflection` | handlers, reflections |
| Profile records and journal (`memory.py:2262-2472`) | tables `profile_facts`, `agent_journal` | upsert with supersession, trims, views | reflections, prompts |
| Reflection scheduling (`orchestrator.py:714-846`, `954-1006`) | `_relationship_tasks`, `_relationship_retry_after` | schedule, sweep, reflect, done-callback, cancel | store, semaphores, provider |
| Proactive posting (`app.py:835-945`) | table `channel_state`, the sweep's locals | one sweep every 300 s | store, channel locks, provider, Discord |
| Generation semaphores (`orchestrator.py:141-153`) | a global, a background and a reflection semaphore | enter, leave | replies, reflections, sweep |
| Provider and router (`llm.py`, `horde_router.py`) | metadata and its age, sticky selections, the last failure | two attempts, deadlines, refresh, selection | Horde client |
| Horde client (`horde_client.py`) | one remote job per call | submit, poll, cancel | AI Horde |
| Rate limiting (`policy.py:340-371`) | five bounded tables of sliding windows | `check`, `cleanup` | handlers, commands |
| Slash commands (`commands.py`) | none of their own | `/memory`, `/profile`, `/agent` | store, `AgentCore` |
| Maintenance (`app.py:951-983`) | none | hourly prune, cleanup, sweep of due reflections | store, `AgentCore` |
| Lifecycle (`app.py:989-1113`, `orchestrator.py:982-1006`) | `_shutdown_started`, active tasks, watchdog | ordered shutdown | everything |
| Attachments (`attachments.py`) | temporary files | download, read in a thread, have images described | handlers |
| Schema (`memory.py:520-1192`) | all tables | create, migrate | start |
| Prompts, parsers, settings, character | none that changes | pure functions | |

What is hard in it, and hard to test: revisions read minutes before they are compared;
a done-callback that runs after its key has been reused; a lock that is free but
promised; a ceiling that is not checked on every insert; two commits that belong
together; a clock read at the start of a loop and used at its end; resources to be given
back on a dozen exits. `PROJECT.json` lists each as a hazard, at its line, with the
properties that watch it, or the reason why none does.

What makes each component correct:

* **Message handling**: no exit leaks a slot or a lock; every turn ends; nothing is
  stored against the user's preference, or after a deletion the turn did not see;
  stored answers do not interleave.
* **Epochs**: what a reset erases no work in flight brings back.
* **Reflection**: nothing stale is learned; pending evidence belongs to a relationship;
  what is due is reflected; the number of reflections is bounded.
* **Proactive posting**: posts are grounded in the channel as it is, do not chain, keep
  to the quota, and never coincide with a turn.
* **Message store**: ceilings hold at every commit and only the oldest rows go.
* **Profile records**: corrections form no ring and are not lost to a ceiling; an answer of
  the provider reaches no record but those it was shown, and no other user's; what direct
  messages revealed stays there.
* **Channel locks**: one generation per channel; no wake-up is lost.
* **Provider, router, Horde client**: a retry takes another model; what nobody waits for
  any more submits nothing; an accepted job is not left running; every call ends.
* **Semaphores and limiters**: background work leaves chats a slot; nobody is allowed more
  than the limit in any period.
* **Schema**: an old database is carried over for one identity, with its ids, what belongs
  together merged and what the policy and the ceilings refuse left out, nothing else; it is
  clean before it says that it is.
* **Lifecycle**: the store outlives the work on it; a shutdown ends.

## 2. Modules

```
Rows ---- MessageTable ---- MessageStore ---- MessageStore_proofs
  |            |
  |            +----------+
  |                       |
  +------ ProfileTable ---- ProfileRecords ---- ProfileRecords_proofs
  |                       |
  +------ SocialTable ---- Turn ---- Turn_proofs          Turn implements Erasure (twice)
               |
               +--------- Reflection ---- Reflection_proofs

HordeRouter --+
              +-- Generation ---- Generation_proofs
HordeJob -----+

Limiter ------+
              +-- Process ------- Process_proofs
Schema -------+

Proactive ---- Proactive_proofs          ChannelLocks ---- ChannelLocks_proofs

MC<module>: instances for TLC            <module>_proofs: theorems for TLAPS
```

| Module | Stands for |
|---|---|
| `Rows` | `DELETE ... ORDER BY id DESC LIMIT ... OFFSET n`: what the `_trim_*` methods keep of a set of rows |
| `MessageTable` | `record_message` and `prune` as functions of the table and the amortised counter |
| `SocialTable` | `record_relationship_interaction` as a function of the two social tables |
| `Erasure` | the abstract promise of deletion: work admitted under a key may leave traces until the key is revoked; erasing a key removes its erasable traces and revokes it |
| `Turn` | a gateway message from arrival to stored turn, for any number of concurrent messages, and the commands it races with |
| `Reflection` | background reflections: task table, ready queue of the loop, saves, resets, restarts |
| `Proactive` | the sweep, participants, turns and the clock, in one or more channels |
| `ProfileTable` | `_upsert_profile_record_no_commit` and the trims of `profile_facts` as functions of the table |
| `ProfileRecords` | the table over concurrent reflections, deletions and resets |
| `MessageStore` | the table `messages` over inserts, prunes, deletions and restarts |
| `ChannelLocks` | the lock cache and the waiting rules of `asyncio.Lock` |
| `HordeRouter` | candidates, sticky selections and the last failure of the router |
| `HordeJob` | one request to AI Horde: POST, polling, DELETE, and what a cancellation does to it |
| `Generation` | the provider's calls: attachments before them, metadata, two attempts, three deadlines |
| `Limiter` | `SlidingWindowLimiter` as functions of its table |
| `Schema` | the two transactions that upgrade an old database, as functions of it |
| `Process` | start, rate limit, semaphores and shutdown around all tasks |

`Turn` and `Reflection` share `SocialTable`; the step in which a delivered turn stores an
interaction and may schedule a reflection is atomic in the code, and appears once in
each: `Turn!Deliver` ends where `Reflection!Interact` begins. `Turn` keeps one abstract
lock per channel and `Proactive` its sweep's side of it; `ChannelLocks` is where that
abstraction is examined, and where it fails (section 4). `Generation` looks into what is
one await of `Turn` (`processing` and `generating`) and of `Reflection`; `Process` keeps of
every task only its place in the lines of the semaphores, the delivery after them, and
whether it has been cancelled.

### How state and actions correspond

*Turn.* `pc` is the await a handler is in: `resolving` (the reply reference), `waiting`
(the lock; slot held), `processing` (attachments; lock held), `generating` (provider and
Discord). `snap` holds what `app.py:551-553` read; `MayPersist` is the condition of
`app.py:693-697` and of `777-781`, `ProfileEpochCurrent` that of `800`. `Abort` is every
exit between admission and delivery: a provider error, a failed send, an exception, the
cancellation at shutdown. `Decline` is every early return before admission, limiters
included, so a message may be declined at any time; nothing is assumed of the limiters.
`lapsed` and `disowned` are history: the turns that were in flight when a command bumped
their revision. They are what `Erasure` calls void, and no guard reads them.

*Reflection.* The event loop's ready queue is modelled, because the defect of section 4
lives in it: a task that ends is `done()` at once (`finished`) while its callback waits
in the queue; first steps of new tasks queue in the same order. Anything driven by I/O
(a delivered turn, the sweep, a command) may run between. `table` is
`_relationship_tasks`. `resting` stands for `last_reflected_at` within the minimum
interval and `retryAfter` for keys in their ten minutes; both elapse by actions of their
own. `learned` stands for the profile and journal rows a save writes.

*Proactive.* Time is a counter; several things can happen at one instant. `known` is
about the row of the channel's last message: stored (`has_discord_message_id`), not stored,
or deleted again. `activity` is the newest participant's `created_at` in the store. A
`/memory forget` removes one user's rows, so that `activity` may fall to any earlier time,
or stay if somebody else has written in the same second, with or without the last
message's row (`Forget`). A participant's message is stored at once
(ambient), late (by a turn that has to get the lock and the attachments first), or never
(storage disabled, declined). `unmarked` is history: the last post's mark never reached
the disk. The mutable part of a late message's life is bounded by `Lateness`, section 5.

*ProfileRecords.* `reading` is what a reflection that awaits the provider remembers: the
revision of its batch and the ids of its payload (`orchestrator.py:803-823`). `Save` is one
transaction: the observation, its links, both trims. The provider may answer with any links
at all. A text stands for kind, topic and wording together; `Precedes` is the `ORDER BY` that
trims and payload share. That tasks of one user in two places run side by side comes from
the key of `_relationship_tasks`; neither bumps the revision, so each may find the other's
work in the table. `Abandon` is every other end of a reflection.

*ChannelLocks.* `waiters` and `woken` are the deque of `asyncio.Lock` and its futures
that are done: `release` wakes the first waiter, the lock stays unlocked until it runs,
and `acquire` queues behind any waiter. `asking` is a handler that has the lock object
and has not run `acquire()`: before Python 3.12 `wait_for` makes a task of it.

*Generation.* `step` is the await of a call, `tried` is `attempted_models`, `awaited` the
calls that somebody still waits for. The total deadline of a chat (`llm.py:477-503`) takes
a call out of `awaited` without waiting for it; what is left of it is the DELETE of its
job, which `job[c] = "shielded"` stands for. `remote` is what the Horde makes of a job and
does so by actions of its own. `PollRefused`, a plain `HordeClientError` while polling, is
the one end that leaves an accepted job alone (docs/PROMPTS_AND_PROVIDERS.md:98-99). A
DELETE that is lost cannot be told from one that arrives; a cancellation during `closing`
drops it. Metadata may show any set of models at each look, its age being usable or not;
the order among candidates (tags, waits, workers, size) is any order. The refresh lock is
merged into `Refresh`. `wait_for` is that of Python 3.12: the ones of 3.10 and 3.11 can
lose a cancellation that meets a result, which README.md:95 allows; the mutant
`CancelSwallowed` is that case.

*Process.* `line` holds the lines of the three semaphores: those within the capacity at
the front hold it. A reflection passes three, the sweep two, a chat one. `sending` is a
task between the release and the end of its delivery; what a task does before its first
semaphore is not represented, `Turn` has it. `Resist` makes a cancelled task outlast any
grace, in the phases in which one runs; the seconds of graces are not counted
(tests/test_shutdown.py:252-275 does that).

The task table of the reflections is told by `Listed`: who is alive and not `unseen`. A pair
of guild and user (`PairOf`) may have a new reflection as soon as the old one is done; the
callback of the old one (`ended`, `CalledBack`) then strikes the new one's entry off the
table (`orchestrator.py:769`), and it is `unseen`: a command does not cancel it, `core.close`
neither cancels it nor waits for it. Also `unseen` are the reflections scheduled after
`core.close` has looked at the table, by `on_ready` (`app.py:239-255`), which nothing
registers, or by a reply that resists. From that moment the model does not follow the table
and lets any reflection begin, which is more than the code allows.


`served` is history: the ages of what a user was allowed since it last had a window. A key
that a full table evicts starts anew, and so does `served`; that is what `policy.py:351`
does and no document promises more. The channel's limiter, of the same class, allows or
refuses freely.

*Schema.* A row is its table, id, owner (identity and user), what it says, and what the
policy of today says of its text. A database may be of any version; the first start may find
a legacy one of several identities, of one, or of none. The migration reads its rows one by
one, each table in its order, and all in one transaction (`MigrationBegins`, `CarryOver`,
`MigrationCommits`; a crash between them leaves the old tables). `Upserts` is what
`_upsert_profile_record_no_commit` makes of a fact: refused by the policy or by a full table,
merged with the same fact of another guild, or inserted, upon which a user who has more than
`max_profile_facts_per_user` loses one. `Combined` makes one relationship of a user's several,
with the latest text that is allowed. Abstracted: which fact a trim drops (any of the user's;
`ProfileTable` has the order), the dimensions and counts, and that the quarantine merges facts
which cleaning makes equal. The id of a fact stands for `created_at, id`, that of a
relationship for `last_interaction_at`. The stale backup table that also refuses a database
is one more refusal.

## 3. Runs

Every property of a passing run has a mutant in `PROJECT.json`: a plausible bug in a
mapped definition under which TLC finds that property violated.

| Run | Shows |
|---|---|
| `MCTurnEpochs` | `OptOutHolds`: while storage is disabled nothing of the user's conversation is added, not even by older turns. `RelationshipEarned`: no reset is undone. `ConversationErased`, `ContinuityErased`: `Turn` implements `Erasure`, for conversation traces by guild and user, and for social events by user. |
| `MCTurnChannel` | `ResourcesMatch`: slots and locks are those of the turns in flight. `RepliesDoNotInterleave`. `EveryTurnEnds`, under fairness. |
| `MCReflectionSaves` | `StaleReflectionsLearnNothing`, `RelationshipNeedsInteraction` against a reset, a deletion or a restart at every point; `DueIsReflected`, under fairness, with failures. |
| `MCProactivePosts` | `PostsAreGrounded`: between the prompt and the send nobody has written, and the rows are old enough, deletions notwithstanding (section 4 on the last message's row). `NoChain`, `QuotaHolds`, with a restart anywhere. |
| `MCProfileRecords` | `ChainsEnd`: no ring of supersessions, however often a corrected text is observed again. `CorrectionStands`: the trims of a save never drop the correction it brings. `SaveReaches`: a save touches its own user's records only, sets aside only active ones of its payload, of one kind and topic, and shows no direct message's record in guilds. |
| `MCMessageStore` | `CeilingsHold`, `OldestGoFirst` with both ceilings in play and a look every two inserts. |
| `MCChannelLocksEvictions` | `TurnIsPassedOn` with more channels than cached locks. |
| `MCGeneration` | `AlternativeDiffers`: two attempts at most, on two models, while other calls change what they share. `LateCallsSubmitNothing`: nobody's call submits nothing. `JobsAreClosed`: a running job is dropped by a refused poll only. `EveryCallEnds`, whatever the Horde answers, under fairness. |
| `MCProcess` | `ChatSlotStaysFree`. `LimitHolds`, through cleanups and evictions. `MigrationKeepsOneIdentity`: of one identity everything is kept that the policy and the ceilings let in, relationships and facts of several guilds merged, nothing of the others, and no number twice. `VersionSevenIsClean`, with a crash in and between the transactions and settings that change from start to start. `CloseWaitsForWork`: the store is closed on nobody but who outlasts a grace and the reflections that `core.close` could not find: lost by the table (finding 1) or begun too late. `ProcessEnds`: the watchdog sees to it, under fairness. Deadlock is checked in this run. |

## 4. Where the code and its documents disagree

Three runs expect TLC to find a violation, each of a sentence of the repository.

1. `MCReflectionBounded`. `_relationship_done` (`orchestrator.py:769`)
   pops its key without looking whose entry it is. `maybe_schedule` treats a done task as
   no obstacle, so a delivered turn that runs between the end of a task and its callback
   schedules a second one, whose entry the callback of the first then removes. That
   second reflection is not counted by `MAX_PENDING_REQUESTS` (README.md:389,
   SECURITY.md:89), and `cancel_relationship_reflections_for_user` does not find it
   (SECURITY.md:183). Nor does `core.close` (`orchestrator.py:983`): at shutdown it is
   neither cancelled nor waited for, and the store closes on it (docs/ARCHITECTURE.md:55-57),
   which is why `CloseWaitsForWork` has to exempt it. It can share its batch with a third
   one. What is saved after a reset stays correct, which is what `StaleReflectionsLearnNothing` shows. Comparing the entry
   with the task before the `pop` repairs it. It takes a provider failure or the
   consumption of part of the events, and an I/O event in exactly one round of the loop.
2. `MCProactiveChain`. `record_message` and `mark_proactive` commit separately
   (`app.py:927`, `939`). A stop between the two leaves a known last message and an old
   mark: the next sweep may post again with no reply between
   (docs/ARCHITECTURE.md:98-101). Once both are committed, `NoChain` holds.
3. `MCChannelLocksOvertaken`. Eviction (`app.py:343`) takes any lock that is not
   `locked()`, also one that a handler is about to acquire or that is promised to a woken
   waiter. The next request for that channel gets a fresh lock, and two generations run
   (README.md:399, SECURITY.md:101). It needs 512 other channels to be asked for within
   that moment; a sweep over that many enabled channels does so without an await.

A fourth is a matter of reading and has no run: `day_key` is computed when the sweep begins
(`app.py:841`), so a post sent after midnight is one of the day before. `QuotaHolds` counts
it so; by the clock a day can see one post more than the "two-per-day ceiling" of
SECURITY.md:119.

So is a fifth. docs/ARCHITECTURE.md:97-99 says that the last message's presence in the store
is required "immediately before send" (docs/DATA_MODEL.md:31-33 calls it the stale-tail
guard). `app.py:888-892` requires it before the generation; `app.py:909-920`, after it,
compares only the activity and `last_message_id`. If the author of the last message runs
`/memory forget` meanwhile, and another participant has a row of the same second, neither
changes (`memory.py:3830-3834`, `4068-4077`), and the post is sent although the row it rests
on is gone. `PostsAreGrounded` states what does hold: the last message was in the store when
the post was begun, and no other has come.

Two documents differ on observations: README.md:248 lets a reflection add up to three,
SECURITY.md:59 at most one; `social.py:559` accepts one, and `ProfileRecords` models that.

README.md:389 says without condition that background work cannot occupy every chat slot;
with `GLOBAL_CONCURRENCY=1` there is none to reserve, as README.md:75 has it. So
`ChatSlotStaysFree` is stated for more than one slot. README.md:95 admits Python 3.10,
whose `wait_for` can swallow a cancellation that meets a result: the total deadline of
README.md:385 then passes without effect. `Generation` takes the rules of 3.12.

Two things no document denies, and a reader of the code may not expect: a second SIGINT
during the shutdown leaves the store open until the process is gone; a reflection scheduled
after `core.close` has looked at its table, or one that the table has lost, outlives the close
of the store, and its save then fails.

## 5. Bounds, and why they are enough

* *Turns*: two in `MCTurnEpochs` (one overtaken by the other's commands is the shape of
  every race here), in a guild channel and in direct messages, because the privacy epoch
  is per guild and the profile epoch global; three in `MCTurnChannel`, for two slots and
  one channel, so that one is always turned away or waits. `MaxCommands = 2`: off and on
  again, or forget and reset. The table ceilings are 1 to 3, so that trims happen. The
  theorems of section 6 remove these bounds for all properties but liveness.
* *Reflection*: two tasks, one user in two places (the user is what the revision and the
  relationship belong to, the pair of both what the task is), two interactions, one
  command and one restart; four tasks, three places and no command for the violation.
  `Tasks` bounds the tasks that exist at a time: an interaction that would need one more
  does not happen. `MaxRelationships = 1`. The ceilings on events do not bite here; they do
  in `MCTurnEpochs`, which uses the same `SocialTable`.
* *Proactive*: one channel (channels share only the one-post-per-sweep rule), `MinIdle` 2,
  `Cooldown` 1, a day of 5 units and 8 of them, up to 5 messages: two posts and the answers
  between them, on either side of midnight.
  `Lateness < MinIdle` is an assumption (`ProactiveAssumption`): a participant's row is
  stored within the lock timeout and the attachment deadline (5 s and at most 60 s each),
  the minimum idle time is at least 300 s (`settings.py`). Without it a very late row
  could make an old message look new.
* *Profile records*: two users in a guild and in direct messages, two texts of one topic and
  one of another, two records each and three in all, so that both trims and the refusal of a
  full table happen; two reflections at a time (`MaxReflections`), three saves, which is what
  a ring of two takes, and one command. `MaxTime` 2 lets the clock of the host be set back;
  confidences are high (`Confidences`), so that impressions confirm at the second
  observation, and `EvidenceCap` is 2 for 20.
* *Message store*: the literals of `memory.py:491-500` (128, 64, 10) are constants
  (`AmortiseFrom`, `MaxInterval`, `IntervalShare`), so that a table of five rows is
  amortised; twelve inserts into three conversations of at most two rows. The proofs cover
  every other value.
* *Channel locks*: `Cap` 3 for 512, four channels, two requests and the sweep.
* *Generation*: two replies of one channel, of which the second may come while the first
  one's job is being cancelled, and a reflection; one reply has an image to be described.
  Two models, which is what a retry needs, and room for one sticky selection of the two
  scopes, so that one evicts the other. Every call is made once; calls share the metadata,
  the selections and the last failure, and two are enough to change those under a third.
* *Process*: two slots, so that one is for background work, which a sweep and a reflection
  want; two replies. Two reflections of one pair, so that one may take the other's place and
  be struck off the table. Two users and room for one key, so that every eviction happens, and
  a window of two requests in two units of time. Five databases: a shared old one of two
  identities, the same of one and of none, one of a former version, and one of a later
  release, which is refused. One fact per user and two in all: the old ones have a fact twice,
  one the policy refuses, one too many for its user and one too many for the table, and three
  relationships of one user of which the latest has a text that is refused. 834,202 states.
  `OldestPeriod` is the longest of all limiters' periods;
  with one period they are equal. From the start of a shutdown no message is listened
  to, and the windows are dropped, which only keeps the instance small.

Symmetry is used for turns, tasks, channels, scopes and owners in some runs without
liveness; nothing chooses among them by `CHOOSE` in a way that shows. `CHECK_DEADLOCK FALSE`
in every run but `MCProcess`: the bounded behaviours end, by design of the bounds, and a bot
at rest is legal. In `MCProcess` deadlock is checked: what has stopped may be started again.

### Fairness

* `Turn!FairSpec`: weak fairness of a handler's own steps. Each await has a deadline: the
  reply reference 3 s, the lock 5 s, attachments theirs, the provider the total chat
  timeout, after which the step is `Abort`. Discord's client bounds its own requests.
* `Reflection!FairSpec`: weak fairness of tasks, callbacks, elapsing timers and the hourly
  sweep, which start again with the process; strong fairness of `Save` for each key: a
  provider that fails every time a key is tried is not the program's to repair.
* `Generation!FairSpec`: weak fairness of the end of each call's await: a session request
  has a timeout, polling its own, cleanup its grace, and `wait_for` bounds attempts,
  attachments and the whole (`llm.py:477-503`, `horde_client.py:393-419`). Nothing is
  assumed of what the Horde does to a job.
* `Process!FairSpec`: weak fairness of the watchdog alone, a thread that sleeps apart from
  the loop and ends the process (`app.py:1012-1019`). Tasks may resist, graces may be
  outlasted, and a call of a library may never return.

## 6. What is proved

Every invariant, action property and refinement that a passing run checks is proved for
every value of the constants: any number of users, channels, turns, tasks and calls, and
any ceilings and limits that the settings allow. Only liveness is left to TLC.

| Module | Theorems (the property each states) |
|---|---|
| `Turn_proofs` | `TypeCorrect`; `SlotsAndLocksMatch` (`ResourcesMatch`); `RevisionsAlwaysTell`; `OptOutAlwaysHolds`; `RelationshipAlwaysEarned`; `RepliesNeverInterleave`; the refinements `ConversationIsErased`, `ContinuityIsErased` |
| `MessageStore_proofs` | `TypeCorrect`; `RoomAlwaysLeft`; `CeilingsAlwaysHold`; `OldestAlwaysGoFirst` |
| `Reflection_proofs` | `TypeCorrect`; `RelationshipsNeedInteractions`; `StaleReflectionsNeverLearn` |
| `Proactive_proofs` | `TypeCorrect`; `PostsAlwaysGrounded`; `PostsNeverChain`; `QuotaAlwaysHolds` |
| `ProfileRecords_proofs` | `TypeCorrect`; `ChainsAlwaysEnd`; `CorrectionsAlwaysStand`; `SavesReachOnlyTheirs` |
| `ChannelLocks_proofs` | `TypeCorrect`; `TurnAlwaysPassedOn` |
| `Generation_proofs` | `TypeCorrect`; `AlternativeAlwaysDiffers`; `LateCallsNeverSubmit`; `JobsAlwaysClosed` |
| `Process_proofs` | `TypeCorrect`; `ChatSlotAlwaysFree`; `LimitAlwaysHolds`; `CloseAlwaysWaits`; `VersionSevenAlwaysClean`; `MigrationAlwaysKeepsOne` |

Assumptions: the named `ASSUME`s of the modules (ceilings are natural numbers, a channel's
guild is a place, the sets of tasks are disjoint and finite, a limiter's period is no longer
than what its cleanup keeps, a participant's row is stored within `Lateness < MinIdle`,
`Nothing` is none of the things it is told apart from; of the databases found at the first
start, one of version 7 was written by this code, hence is clean). Bounds such as `MaxTime`,
`MaxCommands` and `MaxRestarts` are any natural number (`MaxTime` a positive one, as time
begins at 1). TLC evaluates the assumptions in every run.

Each proof goes through an invariant that is inductive, which the property seldom is; the
harder ones were checked by TLC before they were proved.

*Turn.* Types first. `ResourcesMatch` is proved from types with a slot-by-slot and
lock-by-lock argument (`HeldInv` adds that the slots are finitely many): each action moves
one handler, and takes or gives back what its new `pc` says. `RevisionsTell` is not
inductive alone: that a turn overtaken sees a *different* revision needs that revisions
only grow past the snapshot, so the invariant carries both, with the type invariant; each
command bumps before it records who was in flight, and a snapshot is taken afresh at
admission. From it the action properties follow without another induction: a write is
guarded by equal revisions, hence by a turn that is not in `lapsed` (or `disowned`). For
the refinements each handler step maps to `Work` by one item or to a stutter, `Forget` to
`Erase`, `SetStorage` to `Revoke`, trims and `/memory delete` to `Discard`; the further
invariant `TracesOwned` says that every trace belongs to an admitted turn, so that what an
erasure must remove is exactly what the `DELETE` selects.

`RepliesDoNotInterleave` speaks of pairs of rows, and the moment that matters is before the
second one exists. `HistoryInv` says it there: as long as a message is being answered,
whatever its channel has stored since is ambient. It needs the lock, through `HeldInv`:
two turns that generate in one channel are one turn (`AloneInChannel`). Trims and erasures
only remove rows, and rows of a turn keep their turn's place.

*Message store.* `RoomForUncheckedInserts` (the counter never promises more inserts than
fit) is itself inductive with types and unique ids: a trim to ceiling minus interval gives
room for the interval, a prune to the ceiling itself sets the counter to one. The lemma
`Amortisation` bounds the interval by the ceiling for every value. `CeilingsHold` follows
with the per-scope bound; `OldestGoFirst` from the lemmas about `Newest`, the row just
inserted having the largest id.

*Reflection.* `LoopType` and `StoreType` are the two halves of the types; they carry that a
finished task has an outcome and that events are finitely many, without which a batch need
not have a last event. `EventsInv`: who has a pending event has a relationship, so that a
save, whose guard asks for its batch to be pending, finds one. `RevisionInv`: the batch of
a running task was read at the present revision or an earlier one, and at an *earlier* one
if a command has overtaken it. It says nothing of the task table, which is the point: the
defect that `MCReflectionBounded` shows cannot break it.

*Proactive.* `GroundInv`: while a text is written no turn is in the channel, and if nobody
has said anything since the sweep looked, then no newer row has come, and the last message
was stored, its row being gone only by a deletion; `StillQuiet` compares just these.
`ChainInv`: where nobody has answered, and the last post was marked, no row is newer than its mark, so the sweep's
comparison of activity with the mark declines the channel. This is where late rows matter:
every row, stored or about to be, is dated no later than now. `QuotaInv`: `channelState`
counts the posts of its own day exactly, and no later day has any, so a day's count starts
at zero when it starts; the sweep's `day` is that of its beginning and never after the
clock's.

*Profile records.* `FactsInv` says that the table is well-formed (`Table`: types, unique
ids, only superseded rows have a link, the ceiling, no ring) at the next id. A ring is
excluded by a choice of sets, not along a path, which would be an induction over data: in
every set of rows some row's link leads out of the set. A save that adds or confirms a row
makes it active, and an active row has no link, so every set that contains it has its way
out, and what it corrects has one that leads to it; a part of a table without rings has
none either, so trims cannot make one. For `CorrectionStands`, a trim that leaves a
superseded row of a user leaves all the active ones, which rank before it (`Precedes` on
six numbers, `TrimKeepsActive`), and the overall trim finds nothing to drop, since a full
table refuses what is new.

*Channel locks.* `CacheType` makes the order of the cache a list of its keys; `WaitInv`
says that each process is in one place, and stands in the queue of its lock exactly while
it waits. `TurnIsPassedOn` is inductive with them: each step of a process changes the queue
of one lock by its head, its tail or one element removed. A lock is fresh because there
are more names than the cache and the processes can hold, by counting (`NewLockType`).

*Generation.* `CallsInv` says what each step implies: whether somebody waits, whether a job
may be open, how many models have been tried and that they differ. It is inductive for each
call alone, since calls share only metadata, selections and the last failure, and none
of these limits what a *tried* model is: exclusion is by the call's own record, which is
why no interference breaks it. The two action properties follow from it step by step.
`RouterInv` types what is shared: selections stay within their bound because a full table
forgets its first one.

*Process.* `ChatSlotStaysFree` rests on `SlotsInv`: a background task in the line of the
global semaphore holds a background slot. Lines are first in, first out, so a place within
the capacity is kept until given back; the lemmas on `Grows` and `Released` say so, and then
fewer background tasks than slots are in the global line, by counting places (`SlotsSuffice`).
`CloseWaitsForWork` needs that each task that is left is one that has outlasted its grace or
is unseen (`SettledInv`), through each phase of the shutdown. The types need that who is in
the books of the shutdown is there (`CancelledInv`, `PhaseInv`, `BooksInv`).

For the migration `DatabaseInv` says that a database of version 7 or more that was accepted
is clean; sanitising is idempotent. `MovedInv` says of a migration under way what
`MigrationKeepsOneIdentity` says of one that commits: `Kept`, of the rows read so far and the
new tables, and that these rows come before the rest in their tables. With this order it is
inductive (`RowJoins`, for each table a lemma: `FactJoins`, `FactStaysAway`,
`RelationshipJoins`). That a fact is missing only where a ceiling is reached survives every
later row, as neither the table nor a user ever has fewer facts again: a trim takes one after
one has come (`OneMore`, by counting).

`LimitHolds` is about history, `served`, which the limiter does not keep. `ServedInv` says
that it need not: what a user was allowed within the period is exactly what the table shows
of it (`Window`), an entry that is not there standing for nothing. For `Cleaned` this takes
that ages fall along a window, so that one whose last event is older than `OldestPeriod`
has no event within `Period`: `CleanedByFirst`, the mutant, fails here. For `Checked` it
takes that a key stands in the table once, so that moving it to the end loses nothing of
the others.

Two invariants are proved and no longer a run's property, being steps of stronger ones:
`RevisionsTell` and `RoomForUncheckedInserts`.

*How the operators are written for it.* The prover's library has no facts about
`SelectSeq` or folds, and knows of a sequence what its length and elements are. So
`popleft` is the `SubSeq` from the first event that is young enough (`Young`), a table's
cleanup the entries at a set of places (`Picked`), the move of a key `RemoveAt` its place;
`ChannelLocks` and `HordeRouter` use `RemoveFirst` and `RemoveFirstMatch`. TLC evaluates
the same definitions.

## 7. Only checked, not modelled, and the plan

*Only model-checked*: `EveryTurnEnds`, `DueIsReflected`, `EveryCallEnds`, `ProcessEnds`.
They are liveness under fairness, whose `ENABLED` is out of the prover's reach. So is the
absence of deadlock in `MCProcess`. The three expected violations are TLC's too.

*Not modelled*: the journal (entries appended under two ceilings); the text of prompts and
replies, sanitising and parsing; Discord permissions and presence; status reports and
views; what is in an attachment, of which only the deadlines and the description of images
are modelled; summaries, group continuity and the attachment cache, which the running bot
no longer writes (`app.py:1163-1171`); a ceiling that an operator lowers between two runs
(the next prune or look trims to it); the simulator and the scripts, which run the same
core without concurrency.

Next, in this order:

1. An abstract window, the requests allowed in the last period and nothing else, and
   `Process` shown to implement it with `ServedInv` as the step: `LimitHolds` would follow
   from the abstraction.
2. A refinement of `Turn`'s abstract lock by `ChannelLocks` under the assumption that no
   lock in use is evicted, which is what finding 3 says the code does not ensure.
3. The ceilings of `profile_facts` as a property of `ProfileRecords`: `FactsInv` has the
   overall one; the one per user holds after a save of that user.
4. The safety halves of the liveness properties: that a turn in flight always has a step
   of its own, stated without `ENABLED`.
5. The journal, beside `ProfileTable`.
