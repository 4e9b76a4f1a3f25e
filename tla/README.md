# TLA+ verification of the TST-Desk daemon

TST-Desk is a desktop coding agent.  A daemon (`src/core/tstd`, Python on one
asyncio loop) holds the sessions, talks to model providers and runs tools.
Windows (`src/ui`, a Tauri host in `src/shell`, an Android app, a command line)
connect to it over a WebSocket, follow the event log of a session and press the
buttons.  This directory models the parts of that system where the order of
steps decides whether it is right, model-checks them with TLC, and proves the
most important results with TLAPS for all values of the constants.

Contents: [inventory](#1-inventory) · [modules](#2-the-modules) ·
[runs](#3-the-runs) · [findings](#4-where-the-code-and-its-words-disagree) ·
[proofs](#5-what-is-proved) · [plan](#6-plan) · [not modelled](#7-what-is-not-modelled)

## 1. Inventory

How the parts meet: a window's message is handled by its connection's handler,
one at a time (`ws.py`, `daemon.py`).  A handler reads and changes the `Session`
object directly, or puts a message in its queue.  The session's loop (`loop.py`)
is a task of its own that takes messages from the queue, calls the provider,
dispatches tools and writes events.  Whatever it needs from a person it puts in
the session's log as an event and waits on a future that a later handler
resolves.  Handlers, the loop, the tasks of a tool batch, a review, the streamer
of each window and the scheduler interleave at every `await`.  The log, the
conversation and the queue reach the disk in worker threads.

| Part | State it keeps | Operations | What is hard | What makes it correct |
| --- | --- | --- | --- | --- |
| Session (`session.py`, `questions.py`, `plan_review.py`, `steer.py`) | state, stop/cancel/resume events, open-turn counter, steer turn, queue, pending approvals, questions and plans | send, steer, Stop, Cancel, Resume, approve, answer, skip-all, pause, park | several tasks share one state and two flags; awaits between reading and writing them | the counter equals the turns owed; a turn is sealed once; "waiting for you" is shown exactly when something waits; Stop hits the turn it was pressed in and no other |
| Turn loop (`loop.py`) | current message, step, last batch | take, assemble, gate, caps, steer, call, batch, done-check, review, seal | the flags are looked at in a dozen places | every way out of a turn seals it; an accepted message gets its turn |
| Tool dispatch (`tools/dispatch.py`) | calls of a batch | parallel and sequential calls, approvals, questions | approvals park beside one another and after a Stop | the session un-parks with the last of them |
| After-write review (`autonomy/verify.py`, `after_write.py`) | pending review | inline, asked (Run, Deny) | it polls the same Stop flag as a turn that starts beside it | it never swallows a turn's Stop |
| Event log, attach (`session.py`, `session_persist.py`, `daemon.py`) | events in memory, events on disk, a streamer per connection and session | add, append, trim, attach, replay, stream, detach | replay, streamer and trim are not one step | a window never skips an event that the log holds, and catches up |
| Window client (`ui/src/lib/client.ts`, `attach-store.ts`) | cursor, attached, detached and awaiting sets | accept, drop, reconnect on a gap, attach, detach, resume | old frames after a detach, reconnects in a replay | the cursor never runs ahead of what is shown |
| Persistence and restart (`session_persist.py`, `queued_messages.py`, `turn_seal.py`, `session_lifecycle.py`) | `events.jsonl`, `conversation.json`, `queued.json` | accept, let go, hold, send, remove, load, seal, restore | a kill between any two writes, failed writes, a log window | an accepted message is never lost and never runs twice; a cut turn is sealed and its tool calls answered |
| Scheduler (`scheduler/`) | job rows, run history, parked runs, retries, claims | tick, arm, Run now, retry, watch and settle a parked run, follow-on, edit, delete, recover after a restart | the row is read before a turn of minutes and written after it; a run that waits for a person is settled by another task, or by the next process | a slot fires once; one run of a job at a time; a parked run is settled once and its outcome stands; an edit or a delete made during a run survives it |
| Provider client (`provider.py`, `fallback.py`, `provider_refresh.py`, `router.py`) | cached client, retry budget, tier | stream, retry, fall back, refresh a key | two calls reject one shared client | a live client is never closed; retries end |
| Drain and shutdown (`daemon.py`, `shutdown_*.py`, `cli_drain.py`) | holds with generations, deadlines | drain, release, supersede, stop | the drain waits for turns while others are asked for | a released or superseded drain holds nothing; nothing starts during a hold |
| Lock, port file, discovery (`data_dir_lock.py`, `port_file.py`, `discovery.py`) and the desktop host (`shell/src/daemon`) | data-dir lock, port file, child process | start, adopt, restart, stop, update | two daemons and two hosts overlap | one daemon serves a data dir, and the host ends what it started |
| Bridge to paired computers (`bridge_*.py`, `hub.py`) | link per computer, lanes, queued verbs | attach, send, relink, back off | a verb waits while the link is replaced | a verb is sent once, a viewer misses nothing |
| Pairing (`remote_devices.py`, `machine_pairing.py`) | device and machine rows | pair, confirm, undo | two computers, one undo | both sides agree or neither is paired |
| Trust and config (`workspace_trust.py`, `config*.py`, `policy.py`) | trust decision, policy rules, file hashes | trust, always-allow, reload | a rule is saved while the file changes | a rule applies only to the file it was trusted in |
| Autonomous sessions (`autonomy/`) | charter, breakers, wake-ups, ledger | run, trip, wake, halt | wake-ups beside turns | a tripped breaker ends the work |
| Checkpoints and rewind (`file_rewind*.py`, `autonomy/checkpoint.py`) | rewind log, snapshots | plan, apply, undo | the plan is applied later than it is made | what changed since is not overwritten |
| Branches and compaction (`compaction*.py`, `session.py` fork and select) | branches of the conversation | fork, select, compact | a turn starts while the conversation is folded | the turn owns the conversation |
| Delegate children, workflows (`tools/delegate*.py`) | child sessions | start, relay, end | a child parks its parent | parent and child end together |
| MCP, LSP, shell jobs, computer use, connectors, Grok engine, audit, notifications, window stores, Android | external processes and I/O | | | |

`PROJECT.json` lists every component with its status, and every hazard with the
line where it bites.

## 2. The modules

| Module | What it is | Used by |
| --- | --- | --- |
| `TurnOrder` | abstract: what a session promises about the messages it accepts | `SessionTurn` |
| `SessionTurn` | a live session: state machine, turn loop, tool batch, Stop, queue in memory | `MCSessionTurn`, `SessionTurnProofs` |
| `SessionTurnProofs`, `SessionOrderProofs` | theorems about it; that it implements `TurnOrder` | |
| `LogView` | abstract: what a window is promised of the log it follows | `EventStream` |
| `EventStream` | one session's log, its file, one connection and one window | `MCEventStream`, `EventStreamProofs` |
| `EventStreamProofs`, `EventStreamViewProofs` | theorems about it; that it implements `LogView` | |
| `SessionRestart` | one session's three files, kills, revival and held messages | `MCSessionRestart`, `SessionRestartProofs` |
| `SessionRestartProofs` | theorems about it | |
| `JobSchedule` | what a fire does to a job's row: slots, retries, grace, edits | `Scheduler` |
| `DrainHold` | the hold of a drain and its generations | `Scheduler` |
| `Scheduler` | jobs, tick, Run now, follow-ons, parked runs, restarts, beside the drain | `MCScheduler`, `SchedulerProofs` |
| `SchedulerProofs`, `SchedulerLineProofs`, `SchedulerSlotProofs` | theorems about it: its rows, its history and cards, its slots | |

The `MC` modules extend a module for TLC and hold what only TLC needs (the
symmetry set of the messages, a state constraint).  The three models of a
session cut it three ways, and each names what it leaves to the others.
`SessionTurn` keeps the queue in memory and the order in which messages wait.
`SessionRestart` keeps what is on disk and forgets that order.  `EventStream`
keeps the numbers of the events and forgets what they say.  `Scheduler` opens
sessions and sees of each what a scheduled run sees: that its turn works, waits
on a card or is over.

A step of a model is the code between two awaits at which another task can
act, or between two points where something becomes durable.  That is why, for
example, `_finish_stopped_turn` (`loop.py:659`) is one step: it clears the flag
and seals the turn with no other look at the flag in between.  Attach is four
(`AttachBegins`, `SendNotice`, `Replay`, `CreateStream`): each send is an await.

Operators whose comment starts with "faulty" belong to no specification.  They
are the plausible bugs that show each property can be broken (`mutants` in
`PROJECT.json`).

### SessionTurn

| Variables | Code |
| --- | --- |
| `state`, `cancelled`, `stopTurn`, `resumed`, `openTurns`, `steerTurn` | `Session._state`, `_cancel_event`, `_stop_turn_event`, `_resume_event`, `_open_turns`, `_steer_turn` |
| `where`, `ticket`, `into` | the way of each message: not sent, in the queue-file write, queued, a turn, steered, ended, refused; its place at the FIFO queue lock; `QueuedUserMessage.steer_into` |
| `pc`, `turn`, `step`, `lastBatch` | where `AgentLoop` is, its `queued`, its model calls, its `last_batch` |
| `call`, `fut` | each tool call of the batch, and the future a parked one waits on |
| `askReview` | an after-write review in ask mode |
| `sealed`, `stopFor` | history for the properties |

| Actions | Code |
| --- | --- |
| `SendMessage`, `SaveSucceeds`, `SaveFails` | the `user_message` handler and `add_user_message` |
| `StopTurn`, `CancelSession`, `Resume`, `Answer`, `SkipAll`, `RunVerify` | `stop_turn`, `SessionRunner.cancel`, `resume`, `resolve_approval` / `answer_question` / `review_plan`, skip-all, `confirm_pending_verify` |
| `Start`, `Dequeue`, `LoopSeesCancel` | the loop between turns: `wait_for_user_message`, `acknowledge_stop_turn`, `begin_steering` |
| `EndWithoutModel` … `InjectSteers` | the loop up to the model call: hooks, imports, caps, `pause_at_cap`, `wait_for_resume`, `inject_steers` |
| `ReplyWithCalls` … `CheckEndsAsking`, `ReviewEnds` | what a model call comes to, the done-check and the review |
| `BeginCall`, `Park`, `Wake`, `TimesOut`, `HandlerReturns`, `BatchEnds` | `dispatch_many`, `request_approval`, `questions.ask`, `plan_review.review`, `enter_awaiting`, `leave_awaiting` |
| `TaskCancelled`, `LoopFails` | the end of the loop's task |

What the model does not tell apart: the text of messages, replies and results;
which code a turn ends with; costs and tiers; which of approve, deny and
deny-with-reason was pressed beyond yes and no.  Whether a cap is hit, a check
fails, a hook blocks or the provider fails is a choice.  An invalid transition
*raises* in the code, so `SetState` is a guard only where the property
`RunningElsewhere` shows that the transition is valid; where it may really be
invalid (`Park` after a cancel) the exception is modelled.

### TurnOrder

The abstract session has one variable for what became of each message, one for
the order of arrival and one for whether the loop has ended.  `SessionTurn`
instantiates it as `Order` (`fate <- Fate`, `arrival <- ticket`,
`over <- ~LoopAlive`) and states `RunsInOrder == Order!OrderSpec`: every step of
the session, whatever lock it holds, file it waits for or review it runs, maps
to one abstract step or to none.

### EventStream

An event is its number.  `log` is the list in memory, `disk` the file,
`unwritten` the events whose `append_event` has not returned.  `stage`, `from`,
`stream`, `seen` and `stale` are the attach handler and the streamer of one
connection, with a cancelled streamer whose clean-up has yet to run.
`requests` and `frames` are the two directions of the socket.  `follows`,
`detached`, `awaiting`, `last` and `shown` are the window.  `strayed` is
history: what the window may be behind for.  It is `"attach"` after an event
that was logged between a replay and its stream, until the next event, and
`"file"` from a restart over a file that lacks an event.  `CatchesUpOrStrayed`
says that there is no third reason.

| Actions | Code |
| --- | --- |
| `Logged`, `AppendEvent`, `AppendFails` | `SessionEventLog.add`, `SessionPersist.append_event` with `_window` and `drop_before`, a failed append |
| `Restart` | `_revive_session`, `SessionEventLog.replace` |
| `AttachBegins`, `SendNotice`, `Replay`, `CreateStream` | `Daemon._handle_attach` |
| `StreamStarts`, `StreamSends`, `Detach`, `StaleCleanup` | `_stream_events` and its `finally`, the detach handler |
| `LoseConnection`, `Reconnect`, `Open`, `Leave`, `ResumePage`, `ReceiveNotice`, `ReceiveEvent` | `client.ts`: socket loss and `forceReconnect`, `hello_ack`, `attach`, `detach`, `resume`, `log_trimmed`, `acceptSequenced` |

### LogView

The abstract window has a cursor and what it shows, the abstract log its newest
number and what it holds.  There are no streams, frames, sockets or files in it.
`EventStream` instantiates it as `View` (`newest <- seq`, `held <- log`,
`cursor <- last`, `lives <- restarts`) and states
`ShowsTheLog == View!ViewSpec`: every step of the log, the attach handler, the
streamer and the window maps to one abstract step or to none.  In particular an
event is shown once (`Show` asks that it is not shown yet), in order, and passed
over (`Skip`) only when the log holds nothing so old any more.

### SessionRestart

`events`, `snap` and `file` are `events.jsonl`, `conversation.json` and
`queued.json`.  `convo`, `held`, `waiting` and `queue` are the session in
memory.  `writing` is the holder of the queue lock, with the rows it took when
it began to write.  `listing` is the held-message actions whose write is done
and whose new list is not logged yet.  `pc` is the place of the loop, or of the
daemon that starts.  The log is trimmed as the file is, and the model keeps of
it the kinds of event that a restart looks for.

| Actions | Code |
| --- | --- |
| `Accept`, `SendHeld`, `RemoveHeld`, `LetGo`, `Written`, `WriteFails`, `ListHeld`, `AttachLists` | `add_user_message`, `send_held`, `remove_held`, `user_turn_logged`, `_save_queue`, `log_held_messages`, `keep_held_visible` |
| `Take`, `InjectSteers`, `LogUserTurn`, `SaveTurn`, `Proceed`, `ReplyWithCalls`, `AppendResults`, `FinishTurn`, `EmitTurnComplete`, `LoopOver` | the durable steps of a turn in `loop.py` and `steer.py` |
| `Crash`, `Load`, `SealCutTurn`, `SaveSealed`, `RestoreHeld`, `ListAfterRestore` | a kill, `_revive_session`, `open_turn`, `repair_cut_conversation`, `_seal_cut_turn`, `restore_queue` |

### Scheduler

An instant is a natural number and a cadence is every `Interval` of them: time
zones and cron phrases are left out.  A row keeps what decides whether and when
a job runs, its follow-on and its park.

| Variables | Code |
| --- | --- |
| `rows`, `line` | `jobs.json`; the `waiting` and settled lines of `history/<job>.jsonl` |
| `phase`, `tickNow`, `arming`, `due` | `Daemon._scheduler_loop` and the lists a tick took when it began |
| `task`, `inFlight` | the frames of the tick's run and of each Run now (`job`, the row it has read, its session, its outcome, the claims it holds); `InFlight` |
| `opened`, `turn` | the sessions that were opened, for which job and slot and in which process; where the turn of each is |
| `watch` | the task that waits for a parked session, or that settles one after a restart |
| `edit` | `_save_job_record` between its read and its write |
| `hold`, `generation`, `drains`, `asked` | `DrainHold` and the handler of each drain |
| `clobbered` | history: jobs whose row was saved from a copy that was no longer true |

| Actions | Code |
| --- | --- |
| `TickStarts`, `Arm`, `TickLists`, `TickClaims`, `TickEnds` | `run_due_jobs`: arm, list, then one due job after the other |
| `SkipIfParked`, `ReadDue`, `SkipSlot` | `skip_if_parked`, `_run_one` up to the turn, grace and the calendar |
| `RunNow`, `StartTurn`, `SessionMoves`, `TurnSeen`, `ReadAgain` | `begin_manual_run`, `run_turn_on_daemon`, the session, `await_turn_or_approval`, the second read of `run_manual_job` |
| `SaveReceipt`, `SavePark`, `AppendWaiting`, `ArmWatch` | the end of `_run_one`, `park_run`, `_arm_park_watch` |
| `StartLinked`, `ReadMiss`, `SaveMiss` | `follow_chain`, `_record_miss` |
| `CloseLine`, `SettleRow` | `_settle`: the history line first, then the row |
| `EditReads`, `EditSaves`, `Delete`, `Crash`, `ReviveLists` | `_save_job_record`, `delete_job`, a stop or kill, `revive_parked` |
| `DrainBegins`, `DrainEnds`, `Release`, `HoldEnds`, `DrainLost` | `_drain_turns`, `DrainHold` |

A session opened for a slot carries that slot (`SlotOf`): the `next` of the row
its run has read, if that instant has come for the tick.  A job that is moved
while the tick goes through its list is still run by it, for no slot.

A row that a task has read is a copy, and saving it overwrites what was written
since.  That is how the code behaves, so the model does it too, and marks the
job `clobbered`.  Most properties except such a job from then on: what its row
says is no longer what the last writer meant, as `sched_deleted` shows.

### Mishaps

`EventStream` and `SessionRestart` take a constant `Mishaps` that names rare events.  Without one, the
event is excluded by a named guard; with it, it may happen.  So the passing runs
say exactly under which exclusions the system is right, and a run of its own
shows what the excluded event does.

| Mishap | Event | Shown by |
| --- | --- | --- |
| `"attach"` | an event is logged between an attach's replay and the streamer's first look | `attach_gap`; `stream_safety` allows it |
| `"hole"` | a restart loads a file in which a failed append left a hole | `restart_hole`; `stream_safety` allows it |
| `"unwritten"` | a kill between the streaming of an event and its append | no run: the design accepts it, and `CursorWithinLog` fails with it |
| `"long_turn"` | one turn fills the log's window | `restart_cut` |
| `"stale_row"` | a `user_turn` leaves the window although its row is still in the queue file | no run: `RunsOnce` fails with it |
| `"killed_while_sealing"` | a kill between the seal and the repaired conversation | no run: the effect is that of `restart_cut` |

### Fairness

The loop, the tool tasks, the disk writes, the streamer and the window's script
are tasks that asyncio, the thread pool and the browser run again when they are
ready: weak fairness of each.  `SessionTurn` has strong fairness of one action,
`PassCaps`: a cap pause that is resumed again and again ends because the person
raises the cap.  Provider and tool calls end because each has a timeout, so
`ModelCall` and `HandlerReturns` are fair.  Nothing that a person does is fair
in `Spec`.  `AttendedSpec` adds that the person answers what is put to them and
resumes a pause: an accepted message cannot be promised its turn without that.
Once they have pressed Stop they answer approvals only, because an approval
that parks after a Stop stays (`stop_approvals`); questions, plans and pauses
have to end by the Stop itself, which is what `StopEndsTurn` is about.
`EventStream` has no fairness for `Logged`, so a window has to catch up without
any later event, and none for what the person does.  `SessionRestart` and `Scheduler`
state safety only.

## 3. The runs

| Run | Question | Instance |
| --- | --- | --- |
| `session_safety` | all interleavings of sends, steers, answers, Stop, Cancel and Resume with turns, a batch and reviews; does it implement `TurnOrder` | 3 messages, 4 calls: a parallel and a sequential approval, a parallel question, an import; timeout on; one continued model call |
| `session_live` | does an accepted message get its turn if the person attends, and does a Stop end the turn it was pressed in | 2 messages, 2 approvals, 2 questions, 1 import, no timeout |
| `stop_approvals` | does Stop end a turn whose calls need approval if nobody answers: violated | 1 message, 2 sequential approvals |
| `stream_safety` | no gap, no event shown twice or out of order (does it implement `LogView`), no window ahead of its log, and no window behind but for the two mishaps | 3 events, cap 2 trimmed to 1, a lost connection, a restart, mishaps `attach` and `hole` |
| `attach_gap` | does a window catch up, with an event in the attach: violated | 2 events |
| `restart_hole` | the same with a hole in the file: violated | 3 events, 1 restart |
| `restart_safety` | nothing lost, nothing twice, every cut turn sealed | 2 messages, window of 5 trimmed to 4, 2 kills |
| `restart_cut` | the same for a turn longer than the window: violated | 1 message, 1 kill |
| `restart_untold` | does the model know every message the log shows as run: violated | 1 message, 1 kill |
| `sched_safety` | all interleavings of the tick, a Run now, a follow-on, parked runs, an edit or delete, a drain and a restart | 2 jobs (one cadenced with a follow-on, one a one-shot with no grace), 1 Run now, 1 drain, 2 instants, 2 sessions, 1 retry, 1 edit or delete, 1 restart |
| `sched_hold` | does nothing fire in a drain's hold: violated | 2 jobs, 1 drain |
| `sched_deleted` | does a deleted job stay deleted: violated | 2 jobs, 1 delete |

What the properties say.

* `OpenTurnsExact`: `turn_in_flight` answers for Delete, fork, compaction,
  `only_if_idle` sends and Stop.  The counter behind it is raised before the
  queue lock and lowered in four places, some of them awaits later.
* `SealedOnce`, `StopHitsItsTurn`, `StopNotLost`: one Stop seals the turn it was
  pressed in, once, and is neither spent on another turn nor cleared by a review.
* `ParkedShows`, `PauseNotLost`, `RunningElsewhere`, `EndedStaysEnded`: what the
  session shows is what its tasks do.  The four together are why no unguarded
  `set_state` of the loop raises.
* `SteeringOpen`, `SteersOwnTurn`: a steer that waits for the disk while turns
  come and go joins the turn it was sent to or none.
* `StopEndsQuestions`, `StopEndsTurn`, `AcceptedIsTaken`: Stop and sends come to
  an end.
* `RunsInOrder`: the session implements `TurnOrder`.  A message waits for a lock
  and for a file before it is queued, and refused saves, steers and stops fall
  in between; still none overtakes another and none joins a younger one's turn.
* `NoGap`, `CursorWithinLog`, `DiskInMemory`: what the window shows, its cursor,
  the log and the file agree.  `CatchesUp` is the promise of the documents, and
  fails in two runs; `CatchesUpOrStrayed` is what the code keeps.
* `ShowsTheLog`: the stream implements `LogView`.  Frames of two streams of one
  connection overlap after a resume, and a notice of a trimmed log can come
  behind events that lie past it; still the cursor does not go back, so nothing
  is shown twice.
* `NeverInNeither`, `RunsOnce`, `NothingOpen`, `CutTurnSealed`, `HeldShown`: the
  order log, conversation, queue file survives a kill at any point and a failed
  write of the queue file.
* `OneRunAtATime`, `SlotOnce`, `ScheduleKept`: the tick, Run now and follow-ons
  claim a job before they run it; a slot opens one session in the life of a
  daemon; and only slots, arming and edits move a schedule.
* `ParkIsFollowed`, `LineIsFollowed`, `WaitsForItsPark`, `CardBlocksSlot`,
  `OutcomeStands`: a run that waits for a person is written in three places (row,
  receipt, history) and settled by a task that may die with the daemon.
* `ReleaseSticks`: a drain that was given up does not hold again when the turn
  it waited for ends.

Why the bounds are enough.

* *Messages.*  The hazards of the queue need one message that runs, one that
  steers or waits behind it, and one that is still being saved: three.  The
  liveness run needs a successor of the stopped or waiting turn: two.
* *Calls.*  Two parked calls are needed to un-park at the wrong one, a parallel
  and a sequential one to park in both ways, a question beside an approval for
  the shared state, an import for the park outside a batch.
* *Steps.*  `MaxSteps = 1` gives two model calls: one with a batch, one after
  it in which steers join.
* *Events.*  A cap of 2 trimmed to 1 makes the second trim meet an attach that
  is under way.  Three events suffice for hole, gap and duplicate.
* *Frames.*  `MaxFrames` bounds what is on its way only while the person acts,
  so the daemon is never held up by it.
* *Window.*  A restart looks for three kinds of event; a window of 5 holds a
  turn with a steer, and the list, and still trims within a run.
* *Kills.*  Two: the second falls into the revival of the first or into the
  sending of a held message.
* *Jobs and sessions.*  A job that recurs and one that runs once take different
  branches of every slot; the first starts the second, so the tick, Run now and
  the chain meet on one job.  Two sessions let one run park while another opens.
  Two instants give a slot, a retry and the slot after it.
* *`Bounded`* (the constraint of `MCScheduler`).  After a drain nothing is edited
  or restarted and one session opens, since no scheduler step but the start of a
  tick looks at the hold; and a behaviour ends with its first lost update, since
  the properties except that job from then on.  `DrainStep` itself comes before
  edits and restarts.  `MaxGeneration` is the generation up to which a release
  may be asked for.
* `CHECK_DEADLOCK FALSE`: an ended session, an idle one whose messages are
  spent, a log at its bound, and a clock at its last instant stop by design.
* *Symmetry.*  `session_safety` takes the messages as symmetric: no definition
  names or orders one (their order is `ticket`).  The liveness run does not.

## 4. Where the code and its words disagree

Each is a run whose property TLC violates; `PROJECT.json` quotes the lines.

* **Stop and approvals** (`stop_approvals`, `session.py:872`).  Stop denies the
  approval that is parked.  The next gated call of the same batch parks afresh:
  `request_approval` does not look at the flag, while `questions.ask` and
  `plan_review.review` do.  The stopped turn waits for a person.
* **An event logged in an attach** (`attach_gap`, `daemon.py:5617`).  It is in
  neither the replay nor the stream.  The window learns of it with the next
  event, so when it is the last one the window stays behind.
* **A hole in the file** (`restart_hole`, `session.py:254`).  A failed append is
  logged and forgotten.  After a restart the window finds the hole, reconnects,
  and finds it again, for ever.
* **A turn longer than the window** (`restart_cut`, `daemon.py:4643`).  Its
  `user_turn` has left the log, so a restart does not see that it was cut, and
  leaves its tool calls unanswered.
* **A message shown and not known** (`restart_untold`, `queued_messages.py:161`).
  After a kill between the log and the conversation, the message counts as
  already run although the model never saw it.

* **A drain's hold and the rest of a tick** (`sched_hold`, `daemon.py:2920`).
  The hold is looked at before a tick begins.  The jobs after the one that runs,
  and any follow-on or Run now claimed before, start their turns in the hold.
* **A deleted job comes back** (`sched_deleted`, `scheduler/runner.py:394`).  A
  scheduled run saves the row it read before its turn.  What was deleted, edited
  or paused meanwhile is as it was.  Run now reads the row again.

## 5. What is proved

### SessionTurnProofs

For every finite set of messages, every set of calls with its subsets, every
`MaxSteps` and either timeout setting.  All safety properties of `SessionTurn`
are theorems:

| Theorem | Statement | From |
| --- | --- | --- |
| `Invariance` | `Spec => []IInv` | `IInv` |
| `TypeCorrectness` | `Spec => []TypeOK` | `IInv` |
| `CountsEveryTurn` | `Spec => []OpenTurnsExact` | `IInv` |
| `SealsOnce` | `Spec => []SealedOnce` | `IInv` |
| `SteersAnOpenTurn` | `Spec => []SteeringOpen` | `IInv` |
| `EndedForGood` | `Spec => EndedStaysEnded` | `Typed` |
| `WaitingIsShown` | `Spec => []ParkedShows` | `ShownInv` |
| `PauseIsShown` | `Spec => []PauseNotLost` | `ShownInv` |
| `RunsAsRunning` | `Spec => []RunningElsewhere` | `ShownInv` |
| `StopHitsOnlyItsTurn` | `Spec => []StopHitsItsTurn` | `StopInv` |
| `QuestionsEndAtStop` | `Spec => []StopEndsQuestions` | `StopInv` |
| `StopIsNotLost` | `Spec => StopNotLost` | `StopInv` |
| `SteersJoinOnlyTheirTurn` | `Spec => SteersOwnTurn` | `StopInv` |

Assumptions: `CallsAssumption` (gated calls, questions, parallel-safe calls and
imports are sets of calls, no call is both gated and a question, imports are
gated), `BoundsAssumption`, and `MessagesAssumption` (finitely many messages).

*Counting.*  `OpenTurnsExact` is not inductive.  When a turn is sealed the
counter goes down by one, and never below zero: that is exact only if the turn
was open and counted.  So `IInv` adds `OneTurn` (the loop has an open turn at
exactly the places of a turn, and no other message is one) and `SealedOnce`
(which makes "was open" say "was not sealed").  `SteeringOpen` needs `OneTurn`
to know which turn a steer was meant for, and `Typed` is `TypeOK` without the
sign of the counter, which only follows from the rest.  The proof has one lemma
for each way a step can touch the counter: not at all (`FrameKeeps`), sealing
(`EmitKeeps`), sending, saving, dequeuing, steering.  `PersonKeeps`, `LoopKeeps`
and `BatchKeeps` then say for every action which of these it is.

*Showing.*  `ParkedShows`, `PauseNotLost` and `RunningElsewhere` hold only
together with the table of what `state` is at every place of the loop
(`StateOfLoop`) and of where calls can be parked (`ParkedCalls`): the first
answer leaves `awaiting_approval` exactly when no other call is registered, and
that is `running` only because the loop is then at its gate or its batch.

*Stop and steering.*  Most steps are `Mild`: they start no turn, and clear Stop
only with the seal of the turn or with no turn in flight.  That the counter is
exact is what makes "no turn in flight" mean "no open turn" when a review
acknowledges a stop, so `StopNotLost` rests on `OpenTurnsExact`.  `Tickets`
orders the arrivals; a steer's target had already arrived because steering was
open for it.

### SessionRestartProofs

For every set of messages, every window with `1 <= TrimTo <= LogMax`, and any number of
kills (`WindowAssumption`, `RestartAssumption`):

| Theorem | Statement | Mishaps it excludes |
| --- | --- | --- |
| `NothingIsLost` | `Spec => []NeverInNeither` | none |
| `EveryTurnIsSealed` | `Spec => []CutTurnSealed` | none |
| `NothingRunsTwice` | `Spec => []RunsOnce` | `"stale_row"` |
| `EveryCallIsAnswered` | `Spec => []NothingOpen` | `"long_turn"`, `"killed_while_sealing"` |

*Never in neither.*  `NeverInNeither` speaks of the file, but a write replaces
the file by rows taken from memory when the write began.  So the invariant says
that the rows being written are what memory holds (`RowsCover`), that memory
holds every accepted message that has not started (`MemoryCovers`), and that
whatever is let go, or found in the log by a restart, has started (`LogCovers`).

*Runs once.*  A message is in one place (`OnePlace`), what waits has not started
(`NotStartedYet`), and a row still in the file of a message that has started is
told by a `user_turn` in the log (`RowsTold`), which `restore_queue` looks for.
The last is what the `"stale_row"` mishap takes away.

*The seal.*  `open_turn` looks for the newest `user_turn` or `turn_complete`
that is left in the window.  `NoTurnOpen` says between turns there is none
open, and `TurnShown` that a turn under way still has its `user_turn` there;
`CallsInTurn` says calls without results exist only in such a turn.  The
`WindowShift` lemmas say what a trim leaves of these.

*The list.*  `HeldIsShown` (`Spec => []HeldShown`, any mishaps) needs that the
list in the log is still the one that was loaded while the daemon starts
(`ListLoaded`).  `RestartTypes` (`Spec => []TypeOK`, without `"stale_row"`)
rests on `OnceInv`: `TypeOK` says too that whatever is queued for the loop has a
row and that nothing is both held and waiting, which is `OnePlace`.

### SessionOrderProofs

`SessionRunsInOrder`: `Spec => RunsInOrder`, for every finite set of messages
and every set of calls.  Every step is shown to be an abstract step or a
stutter.  The invariant `OrderInv` adds to `IInv` and `Tickets` that no two
messages share a place (`OwnTicket`) and that whatever is queued arrived before
whatever is still being saved (`QueuedInOrder`): the lock is FIFO, and a message
leaves it for the queue only from its head.  Then the message that the loop takes
is the oldest of *all* that wait, and one that steers is younger than the turn
it joins.

### EventStreamProofs

For every number of events, every cap and trim, any lost connections and
restarts (`StreamTypes`, `FileInMemory`: any mishaps; the other two assume that
`"unwritten"` is not among them):

| Theorem | Statement | From |
| --- | --- | --- |
| `StreamTypes` | `Spec => []TypeOK` | `Typed`, `Ordered` |
| `FileInMemory` | `Spec => []DiskInMemory` | `Ordered` |
| `NoGaps` | `Spec => []NoGap` | `QuietInv`, `CursorInv` |
| `CursorStaysWithin` | `Spec => []CursorWithinLog` | `QuietInv`, `CursorInv` |

`Frames` is the heart of it: a `log_trimmed` that is on its way names a place
below which the log holds nothing any more, and stays true because the log only
grows at its end and shrinks at its start.  `Ordered` says the file is written
in the order of the events, so that trimming the file and memory cut the same
prefix.  `QuietInv` says nothing is on its way to a window without a socket.
`CursorInv` is `NoGap` with `CursorWithinLog`: an event logged later is above
the cursor, so it opens no gap below it.

### EventStreamViewProofs

`WindowShowsTheLog`: `Spec => ShowsTheLog`, for every number of events, cap and
trim, if `"unwritten"` is not among the mishaps.  The mapping needs of `IInv`
that the file is written in order, so that what a trim drops from memory is a
prefix (`AppendTrims`), and of `QuietInv` that nothing arrives at a window that
neither follows the session nor drops what comes.  `ViewInv` adds two facts.
`NewestHeld`: neither a trim nor a restart loses the newest event, or its number
would be given again.  `ShownPast`: the window shows nothing beyond its cursor,
so the event it takes next is not shown yet; it stays true because no step but
leaving the session takes the cursor back.

### SchedulerProofs

For every set of jobs, Run now tasks and drains, every cadence, delay, number
of retries and bound (`ScheduleAssumption`, `RowAssumption`,
`DrainAssumption`, `SchedulerAssumption`):

| Theorem | Statement | From |
| --- | --- | --- |
| `SchedulerTypes` | `Spec => []TypeOK` | `Typed` |
| `ReleaseHolds` | `Spec => []ReleaseSticks` | `HoldInv` |
| `NoTwoRuns` | `Spec => []OneRunAtATime` | `Claims` |
| `WaitsAreParked` | `Spec => []WaitsForItsPark` | itself, with `OnlyTick` and `RowSteps` |
| `SchedulesStay` | `Spec => ScheduleKept` | `OnlyTick`, `RowSteps` |
| `ParksAreFollowed` | `Spec => []ParkIsFollowed` | itself, with `ParkOwners` |
| `OutcomesStand` | `Spec => OutcomeStands` | `FreshSessions` |

*Types.*  `TypeOK` is not inductive: a run saves a row, so `Underway` says at
which places a run has read one.  *The hold.*  `HoldInv`: every drain that still
waits has a generation that was given out, and after a release an earlier one.
*Overlaps.*  `Claims`: a run holds the claim of its job and no other run holds
it, chains included, because the claims of the parents are released only as
their frames return.  *Rows.*  `RowSteps` states once what any step may make of
a row: `Saved` says it is made from one of its `Copies`, and the job counts as
clobbered unless that copy is the row itself.  With `OnlyTick` (only the tick
fires slots) this gives the two properties of rows.  *Parks.*  `ParkOwners`: a park in a row, and in every copy of one, is a
session of that job, so `SettleRow` lets go of the right one and each park that
is saved is the saver's own, whose watch is armed next.  *Lines.*
`FreshSessions`: a session has neither line nor watch before its own run writes
them, so a `waiting` line never replaces an outcome.

### SchedulerLineProofs and SchedulerSlotProofs

Under the same assumptions:

| Theorem | Statement | From |
| --- | --- | --- |
| `LinesAreFollowed` | `Spec => []LineIsFollowed` | `LineInv`, `BootsPast` |
| `CardsBlockSlots` | `Spec => CardBlocksSlot` | `LineInv`, `CardInv` |
| `SlotsOpenOnce` | `Spec => []SlotOnce` | `SlotsCame`, `SlotsSpent`, `BootsPast` |

*Lines.*  A line that waits is settled by whoever follows the session's park, so
the line has to be tied to the row: `WaitingParked` says that the row of the job
names the session of a waiting line, or that a later run of the job parked as
well.  A step can break that in three places.  The line is written after the row
(`AppendingParked`: the row still has the park then, since the job's claim keeps
every other run out).  The row is let go of after the line (`ClosedLine`: by then
the line says an outcome).  A later run may take the row over, but no run is
older than one that has yet to end (`RunIsNewest`).  A restart follows only
what rows name, so a run that was taken over is excepted from then on; that no
session comes from a later life of the daemon (`BootsPast`) makes the exception
permanent.

*Cards.*  `CardBlocksSlot` relates the look at the row (`skip_if_parked`) to the
session that is opened several steps later.  `OpenIsKept` says that a turn that
is not over is watched by its run, named by its row or overtaken, so a look that
finds no park finds no open turn.  `SlotLooked` keeps that up to the opening,
because the claim of the job keeps other runs from parking.  `TurnsOver`: a watch
that ends a run, or a restart that calls it unanswered, does so of a turn that
is over.

*Slots.*  A slot that has opened a session is spent once the row is saved:
`SlotsSpent` says the row then has nothing armed, and remembers nothing to go
back to after retries, that is as early as the slot (`PastSlot`); until the save
the tick still holds the job.  The lemmas `AdvancePast` to `SavingPast` say
this of each operator of `JobSchedule`.  They need that the slot is not later
than the time the tick works with, which `SlotsCame`
says of every slot that has opened one, and why a run of a job that was moved to a later
slot counts for none.

All of these were checked by TLC as invariants before they were proved: on the
instance of `sched_safety` in full, and by simulation with more sessions, tasks,
restarts and edits.

### Only model-checked

Every safety property of a passing run is a theorem, some of them under the
exclusions named above.  What is left to TLC is liveness (`AcceptedIsTaken`,
`StopEndsTurn`, `CatchesUpOrStrayed`), since TLAPS proves neither liveness under
fairness nor ENABLED.

## 6. Plan

Done: the session with its order, restart and stream, and the scheduler with the
drain; every safety property of their runs is proved.  Next, in this order; each
module comes with its runs.

1. Theorems about the abstract specifications themselves (what follows from
   `TurnOrder` and `LogView` for any implementation), and an abstract mailbox
   that `SessionRestart` implements.
2. `ProviderClient`: shared client, key refresh, retry budget, fallback.
3. `BridgeLane`: verbs, relink, re-attach cursor; it should refine a lossless
   queue per viewer.
4. `HostSupervisor`: start, adopt, restart and stop with the data-dir lock, and
   the phases of a shutdown.
5. `FileRewind`; fork, select and compact against a turn; always-allow against
   trust.

## 7. What is not modelled

* Most of the repository by lines.  The daemon's message types, configuration,
  tools, connectors, computer use, the windows' views and the test and fixture
  generators are sequential code or I/O; what they decide enters the models as a
  choice where it matters.  The models are about the parts in which several
  tasks, processes or restarts meet.
* Text: prompts, context assembly, policy parsing, redaction, costs.  The
  verdicts are choices.
* Autonomous sessions, delegate children, Grok sessions, forks: a session here
  is an interactive one with the built-in loop.  Their use of the queue and Stop
  is the same code, but what they add is not in `SessionTurn`.
* Several windows of one session: handlers of any window are actions of
  `Person` in `SessionTurn`, and `EventStream` has one window because streamers
  share nothing but the log.  That a connection serves one message at a time
  matters for Run on a review (see the hazards) and is not modelled.
* `history` frames beside `log_trimmed`, the session index, pairing, timers and
  the window's views.
* Of the scheduler: creating jobs and templates, ids that do not exist, the cap
  of the history, delivery by mail and window, chains longer than `CHAIN_DEPTH`,
  a Run now that comes before a restart has listed its parks, and what a kill
  between two lines of the history leaves out of a delivery.
* Known of the scheduler and left without a run of its own: the older of two
  parked runs of a job, whose link a Run now took over, is never settled after a
  restart (`LineIsFollowed` excepts it; `docs/tst-desk-backlog.md:6350` says
  nothing parked remains); a job that is paused or moved while a tick goes
  through its list still fires in that tick; and a kill between the end of a
  scheduled turn and the save of its row fires the slot again.
* Of the drain: the verbs a hold refuses, which turns it waits for, and the
  phases of a shutdown.
* Files other than the three of a session (task list, goal, plan, shell jobs).
* External services, operating-system I/O, generated and vendored code.
