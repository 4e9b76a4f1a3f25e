---------------------------- MODULE SessionTurn ----------------------------
(***************************************************************************)
(* One session of the daemon while its loop runs: the state machine of     *)
(* session.py, the turn loop of loop.py, the tool batch it dispatches with *)
(* the approvals and questions that park it, Stop, Cancel, the cap pause,  *)
(* the after-write review, and the queue of user messages with steering.   *)
(*                                                                         *)
(* Everything runs on one asyncio loop, so a step is the code between two  *)
(* awaits that another task can observe.  The actors are the session loop, *)
(* the tasks of a tool batch, the connection handlers (what a person does  *)
(* in a window) and the task that runs a review the person asked for.      *)
(*                                                                         *)
(* Abstracted: what a message, a reply or a tool result says; which turn   *)
(* outcome code is logged; costs and tiers.  A turn makes at most MaxSteps *)
(* model calls that continue it.  Not here: autonomous sessions, delegate  *)
(* children, fork and branch, the queue file on disk (module SessionRestart).*)
(***************************************************************************)
EXTENDS Integers, FiniteSets

CONSTANTS
    Messages,        \* user messages a client may send
    Calls,           \* ids of tool calls and of external imports
    Gated,           \* calls the policy sends to the person for approval
    Questions,       \* ask_user and exit_plan_mode calls
    ParallelSafe,    \* calls of tools dispatched concurrently
    Imports,         \* external imports, approved while a prompt is assembled
    ApprovalTimeout, \* whether policy.approval_timeout_seconds is set
    MaxSteps,        \* bound: model calls that continue one turn
    None             \* no turn

ASSUME CallsAssumption ==
    /\ Gated \subseteq Calls /\ Questions \subseteq Calls
    /\ ParallelSafe \subseteq Calls /\ Imports \subseteq Gated
    /\ Gated \cap Questions = {}
ASSUME BoundsAssumption == MaxSteps \in Nat /\ ApprovalTimeout \in BOOLEAN
ASSUME MessagesAssumption == IsFiniteSet(Messages) /\ None \notin Messages

VARIABLES
    state,      \* Session._state
    cancelled,  \* Session._cancel_event
    stopTurn,   \* Session._stop_turn_event
    resumed,    \* Session._resume_event
    openTurns,  \* Session._open_turns
    steerTurn,  \* Session._steer_turn
    where,      \* where each message is on its way from a client to a turn
    ticket,     \* arrival order of a message at the queue lock
    into,       \* QueuedUserMessage.steer_into
    pc,         \* where the loop is
    turn,       \* the loop's `queued`: the message of its current turn
    step,       \* model calls the turn has made
    lastBatch,  \* the loop's `last_batch` is not empty
    call,       \* progress of each call of the current batch
    fut,        \* the future a parked call waits on
    askReview,  \* a review that waits for, or runs after, the person's Run
    sealed,     \* history: turn_complete events logged for each message
    stopFor     \* history: the turn that was open when Stop was last pressed

session == <<state, cancelled, stopTurn, resumed, openTurns, steerTurn>>
messages == <<where, ticket, into>>
loop == <<pc, turn, step, lastBatch>>
batch == <<call, fut>>
history == <<sealed, stopFor>>
vars == <<session, messages, loop, batch, askReview, history>>

----------------------------------------------------------------------------
\* The state machine of a session.

ValidTransitions ==
    [idle              |-> {"running"},
     running           |-> {"awaiting_approval", "paused", "complete", "failed", "cancelled"},
     awaiting_approval |-> {"running", "cancelled"},
     paused            |-> {"running", "cancelled"},
     complete          |-> {},
     failed            |-> {},
     cancelled         |-> {},
     interrupted       |-> {}]

States == DOMAIN ValidTransitions
Terminal == {s \in States : ValidTransitions[s] = {}}

\* set_state; it raises when the transition is not valid, so a caller that
\* does not look first has to say what a refusal does.
SetState(s) == s \in ValidTransitions[state] /\ state' = s

Saving == {m \in Messages : where[m] = "saving"}
Queued == {m \in Messages : where[m] = "queued"}
TurnOpen == turn # None /\ where[turn] = "turn"
TurnInFlight == state \notin Terminal /\ openTurns > 0
ReviewInFlight == pc = "review" \/ askReview = "running"
LoopAlive == pc # "over"

\* Calls in _pending_approvals, pending_questions or pending_plans.
Registered == {c \in Calls : call[c] \in {"asking", "parked"}}
\* ... whose future nobody has resolved.
Open == {c \in Registered : fut[c] = "open"}
Batch == Calls \ Imports
AtLeastZero(n) == IF n < 0 THEN 0 ELSE n

Init ==
    /\ state = "idle" /\ pc = "unstarted"
    /\ cancelled = FALSE /\ stopTurn = FALSE /\ resumed = FALSE
    /\ openTurns = 0 /\ steerTurn = None
    /\ where = [m \in Messages |-> "new"]
    /\ ticket = [m \in Messages |-> 0]
    /\ into = [m \in Messages |-> None]
    /\ turn = None /\ step = 0 /\ lastBatch = FALSE
    /\ call = [c \in Calls |-> "none"]
    /\ fut = [c \in Calls |-> "none"]
    /\ askReview = "none"
    /\ sealed = [m \in Messages |-> 0] /\ stopFor = None

----------------------------------------------------------------------------
\* Sending a message (the user_message handler and add_user_message).

Arrivals == {m \in Messages : ticket[m] > 0}

CountTurnLater == openTurns    \* faulty: counted only when it is queued
CountTurn == openTurns + 1

\* The handler refuses a session that is terminal or has lost its loop, and
\* an only_if_idle send while a turn is owed.  The turn is counted before
\* the queue lock and the write to the queue file are waited for.
SendMessage(m, steer, onlyIfIdle) ==
    /\ where[m] = "new"
    /\ state \notin Terminal /\ LoopAlive
    /\ onlyIfIdle => ~TurnInFlight
    /\ where' = [where EXCEPT ![m] = "saving"]
    /\ ticket' = [ticket EXCEPT ![m] = Cardinality(Arrivals) + 1]
    /\ into' = [into EXCEPT ![m] = IF steer THEN steerTurn ELSE None]
    /\ openTurns' = CountTurn
    /\ UNCHANGED <<state, cancelled, stopTurn, resumed, steerTurn, loop, batch,
                   askReview, history>>

\* The queue lock is first in, first out.
AnySaving(m) == m \in Saving    \* faulty: whoever is through first
HasQueueLock(m) == m \in Saving /\ \A n \in Saving : ticket[m] <= ticket[n]

\* The queue file is written, and the message goes to the loop's queue.
SaveSucceeds(m) ==
    /\ HasQueueLock(m)
    /\ where' = [where EXCEPT ![m] = "queued"]
    /\ UNCHANGED <<session, ticket, into, loop, batch, askReview, history>>

\* The write failed: the message and its open turn are taken back.
SaveFails(m) ==
    /\ HasQueueLock(m)
    /\ where' = [where EXCEPT ![m] = "refused"]
    /\ openTurns' = openTurns - 1
    /\ UNCHANGED <<state, cancelled, stopTurn, resumed, steerTurn, ticket, into,
                   loop, batch, askReview, history>>

----------------------------------------------------------------------------
\* What a person does from any window.

\* Every parked approval gets this outcome; a question or plan just ends.
ResolveOpen(outcome) ==
    [c \in Calls |-> IF c \notin Open THEN fut[c]
                    ELSE IF c \in Questions THEN "ended" ELSE outcome]

StaysPaused == state    \* faulty: a released pause still shows
LeavePause == IF state = "paused" THEN "running" ELSE state

LeavesLoopParked == resumed' = resumed    \* faulty: the parked loop is not woken
WakeParkedLoop == resumed' = TRUE

\* stop_turn: ignored after a cancel, on a session that is not live, and on
\* a running one with neither a turn owed nor a review open.
StopTurn ==
    /\ ~cancelled
    /\ state \in {"running", "awaiting_approval", "paused"}
    /\ state = "running" => TurnInFlight \/ ReviewInFlight
    /\ stopTurn' = TRUE
    /\ fut' = ResolveOpen("no")
    /\ state' = LeavePause
    /\ WakeParkedLoop
    /\ stopFor' = IF TurnOpen THEN turn ELSE None
    /\ UNCHANGED <<cancelled, openTurns, steerTurn, messages, loop, call, askReview, sealed>>

\* SessionRunner.cancel up to the cancellation of the loop's task.  A task
\* that never ran is gone at once.
CancelSession ==
    /\ ~cancelled /\ LoopAlive
    /\ cancelled' = TRUE
    /\ openTurns' = 0
    /\ fut' = ResolveOpen("cancelled")
    /\ state' = IF "cancelled" \in ValidTransitions[state] THEN "cancelled" ELSE state
    /\ resumed' = TRUE
    /\ pc' = IF pc = "unstarted" THEN "over" ELSE pc
    /\ UNCHANGED <<stopTurn, steerTurn, messages, turn, step, lastBatch, call, askReview, history>>

Resume ==
    /\ LoopAlive
    /\ resumed' = TRUE
    /\ state' = LeavePause
    /\ UNCHANGED <<cancelled, stopTurn, openTurns, steerTurn, messages, loop, batch,
                   askReview, history>>

\* approve, deny, answer_question or review_plan for a call still parked.
Answer(c, reply) ==
    /\ c \in Open
    /\ fut' = [fut EXCEPT ![c] = reply]
    /\ UNCHANGED <<session, messages, loop, call, askReview, history>>

\* Skip-all approves every parked approval; questions stay with the person.
SkipAll ==
    /\ Open \ Questions # {}
    /\ fut' = [c \in Calls |-> IF c \in Open \ Questions THEN "yes" ELSE fut[c]]
    /\ UNCHANGED <<session, messages, loop, call, askReview, history>>

Acknowledge == stopTurn' = FALSE    \* faulty: also a stop that a turn owns
\* acknowledge_stop_turn as the review makes it: a stop that may belong to a
\* turn is the loop's to acknowledge.
AcknowledgeUnlessTurn == stopTurn' = (stopTurn /\ TurnInFlight)

\* Run on an ask-mode review, and the end of that review.
RunVerify ==
    /\ askReview = "pending"
    /\ askReview' = "running"
    /\ AcknowledgeUnlessTurn
    /\ UNCHANGED <<state, cancelled, resumed, openTurns, steerTurn, messages, loop, batch, history>>

AskedReviewEnds ==
    /\ askReview = "running"
    /\ askReview' = "none"
    /\ AcknowledgeUnlessTurn
    /\ UNCHANGED <<state, cancelled, resumed, openTurns, steerTurn, messages, loop, batch, history>>
----------------------------------------------------------------------------
\* The loop between turns.

LoopVars == <<cancelled, resumed, ticket, into, askReview, stopFor>>

Start ==
    /\ pc = "unstarted"
    /\ SetState("running")
    /\ pc' = "waiting"
    /\ UNCHANGED <<cancelled, stopTurn, resumed, openTurns, steerTurn, messages, turn, step,
                   lastBatch, batch, askReview, history>>

KeepStaleStop == stopTurn' = stopTurn    \* faulty
DropStaleStop == stopTurn' = FALSE

\* wait_for_user_message hands over the oldest message.  A stop that landed
\* as the last turn sealed is dropped, and steering opens for this turn.
Dequeue(m) ==
    /\ pc = "waiting" /\ ~cancelled
    /\ m \in Queued /\ \A n \in Queued : ticket[m] <= ticket[n]
    /\ where' = [where EXCEPT ![m] = "turn"]
    /\ turn' = m /\ step' = 0 /\ lastBatch' = FALSE
    /\ DropStaleStop
    /\ steerTurn' = m
    /\ pc' = "opened"
    /\ UNCHANGED <<LoopVars, state, openTurns, batch, sealed>>

\* Faulty: steering stays open after the turn.
EmitWithSteeringOpen ==
    /\ openTurns' = AtLeastZero(openTurns - 1)
    /\ steerTurn' = steerTurn
    /\ where' = [where EXCEPT ![turn] = "ended"]
    /\ sealed' = [sealed EXCEPT ![turn] = @ + 1]

\* turn_complete is logged, and _observe_turn_end hears of it at once.
EmitTurnComplete ==
    /\ openTurns' = AtLeastZero(openTurns - 1)
    /\ steerTurn' = None
    /\ where' = [where EXCEPT ![turn] = "ended"]
    /\ sealed' = [sealed EXCEPT ![turn] = @ + 1]

EndTurn(next) ==
    /\ EmitTurnComplete
    /\ pc' = next
    /\ UNCHANGED <<LoopVars, state, stopTurn, turn, step, lastBatch, batch>>

\* Faulty: the stopped turn is sealed, and the loop goes on with it.
SealStoppedTurnAndGoOn ==
    /\ stopTurn
    /\ state' = LeavePause
    /\ stopTurn' = FALSE
    /\ EmitTurnComplete
    /\ pc' = "top"
    /\ UNCHANGED <<LoopVars, turn, step, lastBatch, batch>>

\* _finish_stopped_turn and the break that follows it.
FinishStoppedTurn ==
    /\ stopTurn
    /\ state' = LeavePause
    /\ stopTurn' = FALSE
    /\ EmitTurnComplete
    /\ pc' = "waiting"
    /\ UNCHANGED <<LoopVars, turn, step, lastBatch, batch>>

Goto(next) ==
    /\ pc' = next
    /\ UNCHANGED <<LoopVars, state, stopTurn, openTurns, steerTurn, where, turn, step, lastBatch,
                   batch, sealed>>

\* Where the loop looks at the two flags before it goes on.
CheckFlags == cancelled \/ stopTurn
BreakOnFlags(at) ==
    /\ pc = at
    /\ \/ cancelled /\ Goto("over")
       \/ ~cancelled /\ FinishStoppedTurn

LoopSeesCancel == pc = "waiting" /\ cancelled /\ Goto("over")

----------------------------------------------------------------------------
\* A turn up to its model call.

\* A user_prompt hook blocked the message, /goal answered it, or no model or
\* key was found: user_turn and turn_complete without a model call.
EndWithoutModel == pc \in {"opened", "gate"} /\ Registered = {} /\ EndTurn("waiting")

OpenTurn == pc = "opened" /\ Goto("top")
BreakAtTop == BreakOnFlags("top")
EnterStep == pc = "top" /\ ~CheckFlags /\ Goto("gate")

\* An external import met for the first time parks the session.
AskImport(c) ==
    /\ pc = "gate" /\ Registered = {}
    /\ c \in Imports /\ call[c] = "none"
    /\ call' = [call EXCEPT ![c] = "asking"]
    /\ fut' = [fut EXCEPT ![c] = "open"]
    /\ UNCHANGED <<session, messages, loop, askReview, history>>

PassGate == pc = "gate" /\ Registered = {} /\ Goto("caps")

BreakAtCaps == BreakOnFlags("caps")
PassCaps == pc = "caps" /\ ~CheckFlags /\ Goto("inject")

\* Faulty: pauses on an event an earlier resume left set.
PauseOnStaleEvent ==
    /\ pc = "caps" /\ ~CheckFlags
    /\ SetState("paused")
    /\ pc' = "paused"
    /\ UNCHANGED <<cancelled, stopTurn, resumed, openTurns, steerTurn, messages, turn, step,
                   lastBatch, batch, askReview, history>>

\* A cap is exceeded or the progress guard gives up: pause_at_cap, then
\* wait_for_resume.
PauseAtCap ==
    /\ pc = "caps" /\ ~CheckFlags
    /\ SetState("paused")
    /\ resumed' = FALSE
    /\ pc' = "paused"
    /\ UNCHANGED <<cancelled, stopTurn, openTurns, steerTurn, messages, turn, step, lastBatch,
                   batch, askReview, history>>

WakeFromPause == pc = "paused" /\ resumed /\ Goto("caps")

\* inject_steers: after a tool batch, the messages marked for this turn join
\* it and give up the turn they were counted for.
EveryQueued == Queued    \* faulty: whatever waits joins the turn
Steers == {m \in Queued : steerTurn # None /\ into[m] = steerTurn}

AfterSteersKept(taken) == openTurns    \* faulty: the steers keep their own turns
AfterSteers(taken) ==
    IF taken = {} THEN openTurns ELSE AtLeastZero(openTurns - Cardinality(taken))

InjectSteers ==
    /\ pc = "inject"
    /\ LET taken == IF lastBatch THEN Steers ELSE {}
       IN /\ where' = [m \in Messages |-> IF m \in taken THEN "steered" ELSE where[m]]
          /\ openTurns' = AfterSteers(taken)
    /\ lastBatch' = FALSE
    /\ pc' = "call"
    /\ UNCHANGED <<LoopVars, state, stopTurn, steerTurn, turn, step, batch, sealed>>

----------------------------------------------------------------------------
\* The model call and the end of a turn.

MayContinue == step < MaxSteps
Continue(next) ==
    /\ MayContinue
    /\ step' = step + 1
    /\ pc' = next
    /\ UNCHANGED <<LoopVars, state, stopTurn, openTurns, steerTurn, where, turn, lastBatch, sealed>>

\* Both flags are looked at with every chunk, so a whole reply means that
\* neither was set; what lands later meets the steps below.
ReplyWithCalls(calls) ==
    /\ pc = "call" /\ ~CheckFlags
    /\ calls # {} /\ calls \subseteq Batch
    /\ call' = [c \in Calls |-> IF c \in calls THEN "todo" ELSE call[c]]
    /\ fut' = fut
    /\ Continue("batch")

ReplyWithText == pc = "call" /\ ~CheckFlags /\ Goto("checking")

\* The request did not fit; it is sent once more, cut down.
ReplyOverflows == pc = "call" /\ ~CheckFlags /\ Continue("top") /\ UNCHANGED batch

ReplyFails ==
    \/ BreakOnFlags("call")
    \/ pc = "call" /\ ~CheckFlags /\ EndTurn("waiting")

\* A reply with neither text nor calls ends the turn as a failed one.
ReplyIsEmpty == pc = "call" /\ ~CheckFlags /\ EndTurn("waiting")

\* The done-check sends the model back to work, or ends the turn.  It looks
\* at the flags only when it ran something; a stop is sealed before a cancel
\* is seen.
CheckStopped ==
    /\ pc = "checking" /\ CheckFlags
    /\ FinishStoppedTurn \/ (~stopTurn /\ Goto("waiting"))

CheckRetries == pc = "checking" /\ ~CheckFlags /\ Continue("top") /\ UNCHANGED batch

CheckEnds ==
    /\ pc = "checking"
    /\ EndTurn("waiting") \/ EndTurn("review")

\* ask mode: the review waits for the person.
CheckEndsAsking ==
    /\ pc = "checking" /\ askReview = "none"
    /\ EmitTurnComplete
    /\ askReview' = "pending"
    /\ pc' = "waiting"
    /\ UNCHANGED <<cancelled, resumed, ticket, into, stopFor, state, stopTurn, turn, step,
                   lastBatch, batch>>

ReviewEnds ==
    /\ pc = "review"
    /\ pc' = "waiting"
    /\ AcknowledgeUnlessTurn
    /\ UNCHANGED <<state, cancelled, resumed, openTurns, steerTurn, messages, turn, step,
                   lastBatch, batch, askReview, history>>
----------------------------------------------------------------------------
\* The tool batch: parallel-safe calls run together, the others one by one
\* once those are through.  dispatch_many does not look at the stop flag.

InBatch(status) == {c \in Batch : call[c] = status}
Unfinished == {c \in Batch : call[c] \in {"todo", "asking", "parked", "running"}}
MayBegin(c) ==
    \/ c \in ParallelSafe
    \/ Unfinished \cap ParallelSafe = {} /\ Unfinished \subseteq InBatch("todo")

BatchVars == <<cancelled, stopTurn, resumed, openTurns, steerTurn, messages, turn, step,
               lastBatch, askReview, history>>

\* Faulty: a question parks although Stop already landed, as an approval does.
FutureIgnoringStop(c) == IF c \in Gated \cup Questions THEN "open" ELSE "none"
FutureOf(c) ==
    IF c \in Gated THEN "open"
    ELSE IF c \notin Questions THEN "none" ELSE IF CheckFlags THEN "ended" ELSE "open"

\* dispatch: the call is refused or runs at once, is put to the person as an
\* approval (request_approval), or asks a question, which ends at once when
\* a stop or cancel landed first (questions.ask, plan_review.review).
BeginCall(c) ==
    /\ pc = "batch" /\ call[c] = "todo" /\ MayBegin(c)
    /\ call' = [call EXCEPT ![c] = IF c \in Gated \cup Questions THEN "asking" ELSE "running"]
    /\ fut' = [fut EXCEPT ![c] = FutureOf(c)]
    /\ UNCHANGED <<BatchVars, state, pc>>

\* The request is on the log: the session parks.  An approval calls set_state
\* unless already parked, and on a cancelled session that raises: the end of
\* the loop, or of a concurrent call alone.
Park(c) ==
    /\ call[c] = "asking" /\ pc # "over"
    /\ \/ /\ state \in {"running", "awaiting_approval"}
          /\ state' = "awaiting_approval"
          /\ call' = [call EXCEPT ![c] = "parked"]
          /\ UNCHANGED pc
       \/ /\ state \notin {"running", "awaiting_approval"} /\ c \in Gated
          /\ pc' = IF c \in ParallelSafe THEN pc ELSE "over"
          /\ call' = [call EXCEPT ![c] = "done"]
          /\ UNCHANGED state
       \/ /\ state \notin {"running", "awaiting_approval"} /\ c \in Questions
          /\ call' = [call EXCEPT ![c] = "parked"]
          /\ UNCHANGED <<state, pc>>
    /\ UNCHANGED <<BatchVars, fut>>

\* Faulty: the first call resolved un-parks the session, or a late one revives it.
UnparkedAtFirst(c) == IF state = "awaiting_approval" THEN "running" ELSE state
UnparkedWhenever(c) == IF Registered = {c} THEN "running" ELSE state
Unparked(c) == IF Registered = {c} /\ state = "awaiting_approval" THEN "running" ELSE state

\* The waiter pops its entry and, when it was the last, un-parks the session
\* (leave_awaiting).  An approved tool call goes on to its handler.
Release(c, approved) ==
    /\ call' = [call EXCEPT ![c] = IF approved THEN "running" ELSE "done"]
    /\ fut' = [fut EXCEPT ![c] = "none"]
    /\ state' = Unparked(c)
    /\ UNCHANGED <<BatchVars, pc>>

Wake(c) ==
    /\ call[c] = "parked" /\ fut[c] \in {"yes", "no", "ended"} /\ pc # "over"
    /\ Release(c, fut[c] = "yes" /\ c \in Gated \ Imports)

\* The configured timeout: an approval is denied, a question unanswered.
TimesOut(c) ==
    /\ ApprovalTimeout
    /\ call[c] = "parked" /\ fut[c] = "open"
    /\ Release(c, FALSE)

HandlerReturns(c) ==
    /\ call[c] = "running"
    /\ call' = [call EXCEPT ![c] = "done"]
    /\ UNCHANGED <<BatchVars, state, pc, fut>>

ClearBatch == call' = [c \in Calls |-> IF c \in Batch THEN "none" ELSE call[c]]

\* A cancel during the reply is seen before anything is dispatched; the
\* flags are looked at again when every result is on the transcript.
BatchEnds ==
    /\ pc = "batch"
    /\ Unfinished = {} \/ (cancelled /\ Unfinished = InBatch("todo"))
    /\ ClearBatch /\ UNCHANGED <<fut, LoopVars, turn, step>>
    /\ \/ /\ cancelled
          /\ pc' = "over"
          /\ UNCHANGED <<state, stopTurn, openTurns, steerTurn, where, lastBatch, sealed>>
       \/ /\ ~cancelled /\ stopTurn
          /\ stopTurn' = FALSE
          /\ EmitTurnComplete
          /\ pc' = "waiting"
          /\ UNCHANGED <<state, lastBatch>>
       \/ /\ ~CheckFlags
          /\ lastBatch' = TRUE
          /\ pc' = "top"
          /\ UNCHANGED <<state, stopTurn, openTurns, steerTurn, where, sealed>>

----------------------------------------------------------------------------
\* The end of the loop's task.

Unwind(s) ==
    /\ state' = s
    /\ pc' = "over"
    /\ call' = [c \in Calls |-> "done"]
    /\ fut' = [c \in Calls |-> "none"]
    /\ UNCHANGED <<BatchVars>>

\* SessionRunner.cancel cancels the task, wherever it waits.
TaskCancelled == cancelled /\ LoopAlive /\ Unwind(state)

\* An unexpected exception: `failed`, where that transition exists.
LoopFails ==
    /\ pc \in {"opened", "gate", "inject", "call", "batch", "checking"}
    /\ Registered = {} /\ InBatch("running") = {}
    /\ Unwind(IF "failed" \in ValidTransitions[state] THEN "failed" ELSE state)

Send == \E m \in Messages, steer, onlyIfIdle \in BOOLEAN : SendMessage(m, steer, onlyIfIdle)
Save == \E m \in Messages : SaveSucceeds(m) \/ SaveFails(m)
Reply == \E c \in Calls, reply \in {"yes", "no"} : Answer(c, reply)

Person == Send \/ StopTurn \/ CancelSession \/ Resume \/ Reply \/ SkipAll \/ RunVerify

BetweenTurns == Start \/ LoopSeesCancel \/ (\E m \in Messages : Dequeue(m)) \/ ReviewEnds
BeforeCall ==
    \/ EndWithoutModel \/ OpenTurn \/ BreakAtTop \/ EnterStep
    \/ (\E c \in Imports : AskImport(c)) \/ PassGate
    \/ BreakAtCaps \/ PauseAtCap \/ WakeFromPause \/ InjectSteers
ModelCall ==
    \/ (\E calls \in SUBSET Batch : ReplyWithCalls(calls))
    \/ ReplyWithText \/ ReplyOverflows \/ ReplyFails \/ ReplyIsEmpty
    \/ CheckStopped \/ CheckRetries \/ CheckEnds \/ CheckEndsAsking
ToolBatch ==
    \/ \E c \in Calls : BeginCall(c) \/ Park(c) \/ Wake(c) \/ TimesOut(c) \/ HandlerReturns(c)
    \/ BatchEnds

Next ==
    \/ Person \/ Save \/ BetweenTurns \/ BeforeCall \/ PassCaps \/ ModelCall \/ ToolBatch
    \/ AskedReviewEnds \/ TaskCancelled \/ LoopFails

\* The loop, its tasks and the disk go on; nobody has to press anything.
\* A call ends because the provider and the tools have timeouts, and a cap
\* pause that the person keeps resuming ends because they raise the cap.
Spec ==
    /\ Init /\ [][Next]_vars
    /\ WF_vars(Save) /\ WF_vars(BetweenTurns) /\ WF_vars(BeforeCall) /\ SF_vars(PassCaps)
    /\ WF_vars(ModelCall)
    /\ \A c \in Calls : WF_vars(Park(c) \/ Wake(c)) /\ WF_vars(BeginCall(c) \/ HandlerReturns(c))
    /\ WF_vars(BatchEnds) /\ WF_vars(AskedReviewEnds) /\ WF_vars(TaskCancelled)

\* ... and the person answers what is put to them and resumes a pause, but
\* once they have pressed Stop they answer nothing but approvals.
Attends(c) ==
    /\ stopTurn => c \in Gated
    /\ \E reply \in {"yes", "no"} : Answer(c, reply)
AttendedSpec ==
    /\ Spec
    /\ \A c \in Calls : WF_vars(Attends(c))
    /\ WF_vars(~stopTurn /\ state = "paused" /\ Resume)
----------------------------------------------------------------------------
\* Safety.

\* Type of every variable; the open-turn counter is never negative while the
\* session can still run turns.
TypeOK ==
    /\ state \in States
    /\ cancelled \in BOOLEAN /\ stopTurn \in BOOLEAN /\ resumed \in BOOLEAN
    /\ openTurns \in Int /\ (~cancelled => openTurns >= 0)
    /\ steerTurn \in Messages \cup {None}
    /\ where \in [Messages ->
                     {"new", "saving", "refused", "queued", "turn", "steered", "ended"}]
    /\ ticket \in [Messages -> Nat]
    /\ into \in [Messages -> Messages \cup {None}]
    /\ pc \in {"unstarted", "waiting", "opened", "top", "gate", "caps", "paused", "inject",
              "call", "checking", "batch", "review", "over"}
    /\ turn \in Messages \cup {None}
    /\ step \in 0..MaxSteps /\ lastBatch \in BOOLEAN
    /\ call \in [Calls -> {"none", "todo", "asking", "parked", "running", "done"}]
    /\ fut \in [Calls -> {"none", "open", "yes", "no", "ended", "cancelled"}]
    /\ askReview \in {"none", "pending", "running"}
    /\ sealed \in [Messages -> Nat] /\ stopFor \in Messages \cup {None}

\* turn_in_flight answers for Delete, fork, compaction, only_if_idle sends and
\* Stop: the counter is the messages still owed a turn, being saved or queued,
\* plus the turn that runs.  A steer, a refused save and every way a turn ends
\* must each change it by exactly one.
OpenTurnsExact ==
    ~cancelled =>
        openTurns = Cardinality(Saving) + Cardinality(Queued) + (IF TurnOpen THEN 1 ELSE 0)

\* A turn is sealed by one turn_complete (_finish_stopped_turn: "so a second
\* check during the await cannot seal the turn twice"), and a message that
\* joined another turn, or was refused, by none.
SealedOnce == \A m \in Messages : sealed[m] = IF where[m] = "ended" THEN 1 ELSE 0

\* A session that shows "waiting for you" has something to answer, and while a
\* call is parked it shows that: concurrent approvals and questions share the
\* one state (enter_awaiting, leave_awaiting).
ParkedShows ==
    /\ state = "awaiting_approval" => Registered # {}
    /\ (\E c \in Calls : call[c] = "parked") /\ ~cancelled => state = "awaiting_approval"

\* A loop that waits for resume is shown as paused, and a session shown as
\* paused has a loop that waits: no Resume, Stop or cancel is lost between
\* pause_at_cap and wait_for_resume.
PauseNotLost ==
    /\ pc = "paused" /\ ~resumed => state = "paused"
    /\ state = "paused" => pc = "paused" /\ ~resumed

\* Everywhere else a live loop runs in state running, so every unguarded
\* set_state it makes (paused, complete, failed, awaiting_approval) is valid.
RunningElsewhere ==
    pc \notin {"unstarted", "paused", "gate", "batch", "over"} /\ ~cancelled => state = "running"

\* "A stop that landed as the previous turn sealed must not abort this one":
\* a stop that the loop still has to act on was pressed during this very turn.
StopHitsItsTurn == stopTurn /\ TurnOpen => stopFor = turn

\* Steering is open exactly for the turn that runs, so a message is never
\* marked for a turn that has already ended.
SteeringOpen == steerTurn # None => TurnOpen /\ steerTurn = turn

\* Stop ends a question, and one that parks after Stop ends at once
\* (questions.ask, plan_review.review).
StopEndsQuestions == CheckFlags /\ TurnOpen => Open \cap Questions = {}

\* Action properties.

\* A stop pressed during a turn is dropped only by the step that seals that
\* turn; the end of a review beside it must leave it alone.
StopNotLost ==
    [][stopTurn /\ ~stopTurn' /\ TurnOpen /\ state \notin Terminal => where'[turn] = "ended"]_vars

\* A message joins a turn only if it was sent to steer that turn while it ran,
\* never a turn that started after it was sent.
SteersOwnTurn ==
    [][\A m \in Messages : where[m] # "steered" /\ where'[m] = "steered"
            => TurnOpen /\ into[m] = turn /\ ticket[m] > ticket[turn]]_vars

\* The session seen from outside: what became of each message.
Fate ==
    LET fateOf == [new |-> "unsent", saving |-> "waiting", queued |-> "waiting",
                   refused |-> "refused", turn |-> "running", steered |-> "joined",
                   ended |-> "done"]
    IN [m \in Messages |-> fateOf[where[m]]]
Order == INSTANCE TurnOrder WITH fate <- Fate, arrival <- ticket, over <- ~LoopAlive

\* Accepted messages run one at a time and in the order they arrived, although
\* each waits for a lock and for the queue file before it is queued; a steer
\* joins the turn of an older message (module TurnOrder).
RunsInOrder == Order!OrderSpec

\* A session that ended stays ended, whatever a waiter, a pause or a stop that
\* was still under way does next.
EndedStaysEnded == [][(state \in Terminal) => (state' = state)]_vars

\* Liveness.

\* An accepted message gets a turn of its own or joins one, unless the session
\* ends first.
AcceptedIsTaken ==
    \A m \in Messages :
        where[m] = "saving" ~> where[m] \in {"refused", "turn", "steered", "ended"} \/ ~LoopAlive

\* Stop ends the turn it was pressed in without anybody doing anything more.
StopEndsTurn ==
    \A m \in Messages :
        (stopTurn /\ where[m] = "turn") ~> (where[m] # "turn" \/ ~LoopAlive)
============================================================================
