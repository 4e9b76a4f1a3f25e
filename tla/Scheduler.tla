----------------------------- MODULE Scheduler -----------------------------
(***************************************************************************)
(* Scheduled jobs: the tick that fires what is due, Run now, the follow-on *)
(* a good run starts, the runs parked on an approval and the watch that    *)
(* settles each, edits and deletes made meanwhile, a restart, and the      *)
(* drain hold that should keep all of it from starting a turn              *)
(* (core/tstd/scheduler and its handlers in daemon.py).                    *)
(*                                                                         *)
(* A step ends where a job file or a history file is written or where the  *)
(* event loop lets another task in.  A row that a task has read is a copy: *)
(* saving it overwrites what anybody wrote since.  A session is one turn,  *)
(* which works, may wait for a person, and is over: how it ended is chosen *)
(* by who reads it, once, and the rest of it is the subject of             *)
(* SessionTurn.  A run that opens no session is one whose turn is over at  *)
(* once.  The history keeps the lines of the runs that parked.  Not here:  *)
(* the cap of the history, delivery, mail and its stamps, creating a job,  *)
(* templates, a row whose id is unknown, chains longer than CHAIN_DEPTH.   *)
(***************************************************************************)
EXTENDS JobSchedule, DrainHold, Sequences, FiniteSets

CONSTANTS
    Linked,      \* jobs that start another one after they end well
    Blockable,   \* jobs with a calendar of days they do not run
    RunNows,     \* tasks of _finish_manual_run
    MaxTime,     \* bound: the last instant
    MaxSessions, \* bound: sessions that are opened
    MaxEdits,    \* bound: edits and deletes
    MaxCrashes   \* bound: times the daemon stops

ASSUME SchedulerAssumption ==
    /\ Linked \subseteq Jobs /\ Blockable \subseteq Jobs
    /\ "tick" \notin RunNows
    /\ MaxTime \in Nat /\ MaxSessions \in Nat /\ MaxEdits \in Nat /\ MaxCrashes \in Nat

VARIABLES
    now,       \* the clock
    rows,      \* jobs.json
    line,      \* history/<job>.jsonl: the line of each session that parked
    opened,    \* history: the job, slot and process of each session opened
    turn,      \* where the turn of each of them is
    phase,     \* of _scheduler_loop: "reviving" or "ticking"
    tickNow,   \* the instant of the running tick
    arming,    \* its listed rows that are to be armed
    due,       \* its listed jobs that are due
    task,      \* the tick's own run and those of Run now
    inFlight,  \* InFlight._ids
    watch,     \* the watch of each parked session
    edit,      \* the row copy of _save_job_record
    clobbered, \* history: jobs saved from a copy that was no longer true
    edits, crashes \* counts towards their bounds

store == <<rows, line, clobbered>>
sessions == <<opened, turn>>
ticking == <<phase, tickNow, arming, due>>
runs == <<task, inFlight>>
counts == <<edits, crashes>>
vars == <<now, store, sessions, ticking, runs, watch, edit, counts, drainVars>>

Tasks == {"tick"} \cup RunNows
Sessions == 1..MaxSessions
Outcomes == {"ok", "transient", "failed"}

Idle == [pc |-> "idle", leg |-> "none", job |-> None, row |-> None, sess |-> None,
         out |-> "none", held |-> {}]
NoEdit == [job |-> None, row |-> None]

Init ==
    /\ now = 0
    /\ \E then \in [Jobs -> Jobs \cup {None}] :
         /\ \A j \in Jobs : then[j] # None <=> j \in Linked
         /\ \A j \in Jobs : then[j] # j /\ (then[j] # None => then[j] \notin Linked)
         /\ rows = [j \in Jobs |-> NewRow(0, then[j])]
    /\ line = [s \in Sessions |-> "none"]
    /\ opened = <<>> /\ turn = [s \in Sessions |-> "none"]
    /\ phase = "ticking" /\ tickNow = 0 /\ arming = {} /\ due = {}
    /\ task = [t \in Tasks |-> Idle] /\ inFlight = {}
    /\ watch = [s \in Sessions |-> "off"]
    /\ edit = NoEdit /\ clobbered = {} /\ edits = 0 /\ crashes = 0
    /\ DrainInit

Clock ==
    /\ now < MaxTime /\ now' = now + 1
    /\ UNCHANGED <<store, sessions, ticking, runs, watch, edit, counts, drainVars>>

----------------------------------------------------------------------------
\* The job file.

\* save_job of a row computed from the copy old.
Save(j, old, new) ==
    /\ rows' = [rows EXCEPT ![j] = new]
    /\ clobbered' = IF rows[j] = old THEN clobbered ELSE clobbered \cup {j}

\* transform_job: read and written under one lock.
Transform(j, new) == rows' = [rows EXCEPT ![j] = new] /\ UNCHANGED clobbered

Parked(j) == rows[j] # None /\ rows[j].parked # None

----------------------------------------------------------------------------
\* The tick.

Move(t, pc) == task' = [task EXCEPT ![t].pc = pc]

\* Every claim of the run is released as its frames return.  Faulty: that
\* of the job alone which ran last.
FinishLast(t) ==
    /\ task' = [task EXCEPT ![t] = Idle]
    /\ inFlight' = inFlight \ {task[t].job}
Finish(t) ==
    /\ task' = [task EXCEPT ![t] = Idle]
    /\ inFlight' = inFlight \ task[t].held

\* _scheduler_loop and run_due_jobs: not during a hold.
TickStarts ==
    /\ phase = "ticking" /\ ~hold
    /\ \A s \in Sessions : watch[s] \notin {"revive", "revive_closed"}
    /\ task["tick"].pc = "idle"
    /\ tickNow' = now
    /\ arming' = {[job |-> j, row |-> rows[j]] :
                    j \in {j \in Jobs : rows[j] # None /\ Unarmed(j, rows[j])}}
    /\ Move("tick", "arming")
    /\ UNCHANGED <<now, store, sessions, phase, due, inFlight, watch, edit, counts, drainVars>>

\* A row with a cadence and no slot gets one, from the copy the tick listed.
Arm ==
    /\ task["tick"].pc = "arming"
    /\ \E copy \in arming :
         /\ Save(copy.job, copy.row, Advance(copy.job, copy.row, tickNow))
         /\ arming' = arming \ {copy}
    /\ UNCHANGED <<now, line, sessions, phase, tickNow, due, runs, watch, edit, counts,
                   drainVars>>

TickLists ==
    /\ task["tick"].pc = "arming" /\ arming = {}
    /\ due' = {j \in Jobs : rows[j] # None /\ Due(rows[j], tickNow)}
    /\ Move("tick", "firing")
    /\ UNCHANGED <<now, store, sessions, phase, tickNow, arming, inFlight, watch, edit, counts,
                   drainVars>>

Claim(t, j, leg, pc) ==
    /\ inFlight' = inFlight \cup {j}
    /\ task' = [task EXCEPT ![t] = [task[t] EXCEPT !.pc = pc, !.leg = leg, !.job = j,
                                                   !.held = @ \cup {j}]]

\* The next due job, unless a run of it is underway: then it is left due.
TickClaims ==
    /\ task["tick"].pc = "firing"
    /\ \E j \in due :
         /\ due' = due \ {j}
         /\ IF j \in inFlight THEN UNCHANGED runs ELSE Claim("tick", j, "schedule", "checking")
    /\ UNCHANGED <<now, store, sessions, phase, tickNow, arming, watch, edit, counts, drainVars>>

TickEnds ==
    /\ task["tick"].pc = "firing" /\ due = {}
    /\ Move("tick", "idle") /\ tickNow' = 0
    /\ UNCHANGED <<now, store, sessions, phase, arming, due, inFlight, watch, edit, counts, drainVars>>

\* The frames of the tick's run return to its loop.
TickBack ==
    /\ task' = [task EXCEPT !["tick"] = [Idle EXCEPT !.pc = "firing"]]
    /\ inFlight' = inFlight \ task["tick"].held
Back(t) == IF t = "tick" THEN TickBack ELSE Finish(t)

\* skip_if_parked: the slot is missed while an earlier run waits for a
\* person.  Faulty: it is not looked at.
NeverMissed(j) == FALSE
SlotMissed(j) == Parked(j)
SkipIfParked ==
    /\ task["tick"].pc = "checking"
    /\ LET j == task["tick"].job
       IN IF SlotMissed(j)
          THEN Transform(j, FinishSlot(j, rows[j], tickNow)) /\ Back("tick")
          ELSE Move("tick", "reading") /\ UNCHANGED <<rows, clobbered, inFlight>>
    /\ UNCHANGED <<now, line, sessions, ticking, watch, edit, counts, drainVars>>

\* _run_one reads the row again.  Grace and the calendar are for a first try.
ReadDue ==
    /\ task["tick"].pc = "reading"
    /\ LET j == task["tick"].job
           late == rows[j].attempt = 0 /\ PastGrace(j, rows[j], tickNow)
           blocked == rows[j].attempt = 0 /\ ~late /\ j \in Blockable /\ rows[j].next # None
           Read(pc) == task' = [task EXCEPT !["tick"] = [@ EXCEPT !.pc = pc, !.row = rows[j]]]
       IN IF rows[j] = None THEN Back("tick")
          ELSE /\ \/ (late \/ blocked) /\ Read("skipping")
                  \/ ~late /\ Read("starting")
               /\ UNCHANGED inFlight
    /\ UNCHANGED <<now, store, sessions, ticking, watch, edit, counts, drainVars>>

\* skip_if_late and skip_for_calendar save their receipt and the next slot.
SkipSlot ==
    /\ task["tick"].pc = "skipping"
    /\ LET j == task["tick"].job
           row == task["tick"].row
       IN Save(j, row, RecordRun([Advance(j, row, tickNow) EXCEPT !.attempt = 0, !.resume = None],
                                 None))
    /\ Back("tick")
    /\ UNCHANGED <<now, line, sessions, ticking, watch, edit, counts, drainVars>>

----------------------------------------------------------------------------
\* Run now.

\* _handle_run_job, refused during a hold; begin_manual_run claims.
RunNow(t) ==
    /\ phase = "ticking" /\ ~hold
    /\ t # "tick" /\ task[t].pc = "idle"
    /\ \E j \in Jobs : rows[j] # None /\ j \notin inFlight /\ Claim(t, j, "manual", "starting")
    /\ UNCHANGED <<now, store, sessions, ticking, watch, edit, counts, drainVars>>

----------------------------------------------------------------------------
\* The turn of a run, of whichever kind.

\* The slot a session was opened for, or None: Run now, a follow-on, a second
\* try and a job that was moved while the tick had it on its list have none.
SlotOf(t) ==
    LET row == task[t].row
    IN IF task[t].leg = "schedule" /\ row.attempt = 0 /\ row.next # None /\ row.next <= tickNow
       THEN row.next ELSE None

\* run_turn_on_daemon opens a session and sends the job's message.
StartTurn(t) ==
    /\ task[t].pc = "starting"
    /\ Len(opened) < MaxSessions
    /\ opened' = Append(opened, [job |-> task[t].job, slot |-> SlotOf(t), boot |-> crashes])
    /\ turn' = [turn EXCEPT ![Len(opened) + 1] = "working"]
    /\ task' = [task EXCEPT ![t].pc = "open", ![t].sess = Len(opened) + 1]
    /\ UNCHANGED <<now, store, ticking, inFlight, watch, edit, counts, drainVars>>

\* What the session does by itself, and what a person does to it.
SessionMoves(s) ==
    /\ \/ turn[s] = "working" /\ \E to \in {"card", "over"} : turn' = [turn EXCEPT ![s] = to]
       \/ turn[s] = "card" /\ \E to \in {"working", "over"} : turn' = [turn EXCEPT ![s] = to]
    /\ UNCHANGED <<now, store, opened, ticking, runs, watch, edit, counts, drainVars>>

\* await_turn_or_approval: an end wins over a card, and past its limit the
\* session is cancelled and the run is a failure that is not tried again.
TurnSeen(t) ==
    /\ task[t].pc = "open"
    /\ LET s == task[t].sess
           See(out) == task' = [task EXCEPT ![t].pc = "ended", ![t].out = out]
       IN \/ turn[s] = "over" /\ (\E out \in Outcomes : See(out)) /\ UNCHANGED turn
          \/ turn[s] = "card" /\ See("waiting") /\ UNCHANGED turn
          \/ turn[s] = "working" /\ See("failed") /\ turn' = [turn EXCEPT ![s] = "over"]
    /\ UNCHANGED <<now, store, opened, ticking, inFlight, watch, edit, counts, drainVars>>

\* run_manual_job and _run_linked read the row again; a deleted job is not
\* written back.  A scheduled run goes on with the row it read before.
ReadAgain(t) ==
    /\ task[t].pc = "ended" /\ task[t].leg # "schedule"
    /\ LET row == rows[task[t].job]
       IN IF row = None THEN Back(t)
          ELSE task' = [task EXCEPT ![t].pc = "saving", ![t].row = row] /\ UNCHANGED inFlight
    /\ UNCHANGED <<now, store, sessions, ticking, watch, edit, counts, drainVars>>

\* The row a run saves.  Faulty: Run now moves the schedule like a slot.
SlotAlways(t, out) == SettleScheduled(task[t].job, task[t].row, tickNow, out)
Schedule(t, out) ==
    IF task[t].leg = "schedule" THEN SettleScheduled(task[t].job, task[t].row, tickNow, out)
    ELSE task[t].row

Saving(t) ==
    \/ task[t].pc = "ended" /\ task[t].leg = "schedule"
    \/ task[t].pc = "saving"

\* park_run: the row is parked on disk before the line is.
SavePark(t) ==
    /\ Saving(t) /\ task[t].out = "waiting"
    /\ LET s == task[t].sess
           row == [RecordRun(Schedule(t, "waiting"), s) EXCEPT !.parked = s]
       IN Save(task[t].job, task[t].row, row)
    /\ Move(t, "appending")
    /\ UNCHANGED <<now, line, sessions, ticking, inFlight, watch, edit, counts, drainVars>>

AppendWaiting(t) ==
    /\ task[t].pc = "appending"
    /\ line' = [line EXCEPT ![task[t].sess] = "waiting"]
    /\ Move(t, "telling")
    /\ UNCHANGED <<now, rows, clobbered, sessions, ticking, inFlight, watch, edit, counts,
                   drainVars>>

\* The waiting line is delivered, then _arm_park_watch.
ArmWatch(t) ==
    /\ task[t].pc = "telling"
    /\ watch' = [watch EXCEPT ![task[t].sess] = "follow"]
    /\ Back(t)
    /\ UNCHANGED <<now, store, sessions, ticking, edit, counts, drainVars>>

\* Any other end: the receipt, then the follow-on if it ended well.
SaveReceipt(t) ==
    /\ Saving(t) /\ task[t].out # "waiting"
    /\ LET row == RecordRun(Schedule(t, task[t].out), None)
       IN /\ Save(task[t].job, task[t].row, row)
          /\ IF task[t].out = "ok" /\ row.then # None
             THEN /\ task' = [task EXCEPT ![t] = [@ EXCEPT !.pc = "chaining", !.leg = "chained",
                                                           !.job = row.then, !.row = None]]
                  /\ UNCHANGED inFlight
             ELSE Back(t)
    /\ UNCHANGED <<now, line, sessions, ticking, watch, edit, counts, drainVars>>

----------------------------------------------------------------------------
\* follow_chain.

\* Faulty: a run of the child that is underway is not looked at.
MissedPaused(j) == rows[j].paused
Missed(j) == rows[j].paused \/ j \in inFlight

\* The claims of the runs before it are still held.
StartLinked(t) ==
    /\ task[t].pc = "chaining"
    /\ LET child == task[t].job
       IN IF rows[child] = None THEN Back(t)
          ELSE IF Missed(child) THEN Move(t, "missing") /\ UNCHANGED inFlight
          ELSE Claim(t, child, "chained", "starting")
    /\ UNCHANGED <<now, store, sessions, ticking, watch, edit, counts, drainVars>>

\* _record_miss reads the row, and saves it in a call of its own.
ReadMiss(t) ==
    /\ task[t].pc = "missing"
    /\ LET row == rows[task[t].job]
       IN IF row = None THEN Back(t)
          ELSE task' = [task EXCEPT ![t].pc = "missed", ![t].row = row] /\ UNCHANGED inFlight
    /\ UNCHANGED <<now, store, sessions, ticking, watch, edit, counts, drainVars>>

SaveMiss(t) ==
    /\ task[t].pc = "missed"
    /\ Save(task[t].job, task[t].row, RecordRun(task[t].row, None))
    /\ Back(t)
    /\ UNCHANGED <<now, line, sessions, ticking, watch, edit, counts, drainVars>>

----------------------------------------------------------------------------
\* _settle, by the watch of a parked run or by revive_parked.

Stage(s, stage) == watch' = [watch EXCEPT ![s] = stage]

\* A watch ends when the turn does; a revived park is not waited for, and
\* one is settled after the other.
MaySettle(s) ==
    \/ watch[s] = "follow" /\ turn[s] = "over"
    \/ watch[s] = "revive" /\ \A r \in Sessions : watch[r] # "revive_closed"

\* close_waiting_run: a line that is settled stays as it is, and one that
\* was never written is written now.  Faulty: settled lines count as well.
AnyLine(s) == TRUE
Unsettled(s) == line[s] \in {"none", "waiting"}

CloseLine(s) ==
    /\ MaySettle(s)
    /\ LET outcome == IF watch[s] = "follow" THEN "settled" ELSE "unanswered"
       IN line' = IF Unsettled(s) THEN [line EXCEPT ![s] = outcome] ELSE line
    /\ Stage(s, IF watch[s] = "follow" THEN "closed" ELSE "revive_closed")
    /\ UNCHANGED <<now, rows, clobbered, sessions, ticking, runs, edit, counts, drainVars>>

\* The row lets go of its own park only.  Faulty: of any.
OwnsAny(s) == Parked(opened[s].job)
Owns(s) == Parked(opened[s].job) /\ rows[opened[s].job].parked = s

\* Its receipt is the outcome from now on, if it was still that of the park.
LetGo(row, s) == [row EXCEPT !.parked = None, !.waits = IF @ = s THEN None ELSE @]

SettleRow(s) ==
    /\ watch[s] \in {"closed", "revive_closed"}
    /\ LET j == opened[s].job
       IN IF Owns(s)
          THEN Transform(j, LetGo(rows[j], s))
          ELSE UNCHANGED <<rows, clobbered>>
    /\ Stage(s, "off")
    /\ UNCHANGED <<now, line, sessions, ticking, runs, edit, counts, drainVars>>

----------------------------------------------------------------------------
\* Edits, deletes and restarts.

\* _save_job_record reads the row in its own thread ...
EditReads ==
    /\ edits < MaxEdits /\ edits' = edits + 1
    /\ edit = NoEdit
    /\ \E j \in Jobs : rows[j] # None /\ edit' = [job |-> j, row |-> rows[j]]
    /\ UNCHANGED <<now, store, sessions, ticking, runs, watch, crashes, drainVars>>

\* ... and saves what apply_job_edit makes of it.
EditSaves ==
    /\ edit # NoEdit
    /\ \E row \in {TogglePause(edit.row), Reschedule(edit.job, edit.row, now)} :
         Save(edit.job, edit.row, row)
    /\ edit' = NoEdit
    /\ UNCHANGED <<now, line, sessions, ticking, runs, watch, counts, drainVars>>

\* delete_job: the row, the links to it and its history.
Delete(j) ==
    /\ edits < MaxEdits /\ edits' = edits + 1
    /\ rows[j] # None
    /\ rows' = [i \in Jobs |-> IF i = j THEN None
                               ELSE IF rows[i] # None /\ rows[i].then = j
                               THEN [rows[i] EXCEPT !.then = None] ELSE rows[i]]
    /\ line' = [s \in Sessions |->
                  IF s \in DOMAIN opened /\ opened[s].job = j THEN "none" ELSE line[s]]
    /\ UNCHANGED <<now, clobbered, sessions, ticking, runs, watch, edit, crashes, drainVars>>

\* The daemon is stopped or killed, and starts again: files are all that is
\* left.  A turn that was open is sealed.
Crash ==
    /\ crashes < MaxCrashes /\ crashes' = crashes + 1
    /\ turn' = [s \in Sessions |-> IF turn[s] = "none" THEN "none" ELSE "over"]
    /\ phase' = "reviving" /\ tickNow' = 0 /\ arming' = {} /\ due' = {}
    /\ task' = [t \in Tasks |-> Idle] /\ inFlight' = {}
    /\ watch' = [s \in Sessions |-> "off"] /\ edit' = NoEdit
    /\ DrainLost
    /\ UNCHANGED <<now, store, opened, edits>>

\* revive_parked lists the parks the last process left.  Faulty: none.
LeftNone == {}
LeftParked == {rows[j].parked : j \in {j \in Jobs : Parked(j)}}

ReviveLists ==
    /\ phase = "reviving" /\ phase' = "ticking"
    /\ watch' = [s \in Sessions |-> IF s \in LeftParked THEN "revive" ELSE watch[s]]
    /\ UNCHANGED <<now, store, sessions, tickNow, arming, due, runs, edit, counts, drainVars>>

----------------------------------------------------------------------------
TaskStep(t) ==
    \/ RunNow(t)
    \/ StartTurn(t)
    \/ TurnSeen(t)
    \/ ReadAgain(t)
    \/ SavePark(t)
    \/ AppendWaiting(t)
    \/ ArmWatch(t)
    \/ SaveReceipt(t)
    \/ StartLinked(t)
    \/ ReadMiss(t)
    \/ SaveMiss(t)

SessionStep(s) ==
    \/ SessionMoves(s)
    \/ CloseLine(s)
    \/ SettleRow(s)

\* Bound: drains come before edits and restarts.
DrainStep ==
    /\ edits + crashes = 0
    /\ DrainNext
    /\ UNCHANGED <<now, store, sessions, ticking, runs, watch, edit, counts>>

Next ==
    \/ Clock
    \/ TickStarts
    \/ Arm
    \/ TickLists
    \/ TickClaims
    \/ TickEnds
    \/ SkipIfParked
    \/ ReadDue
    \/ SkipSlot
    \/ \E t \in Tasks : TaskStep(t)
    \/ \E s \in Sessions : SessionStep(s)
    \/ EditReads
    \/ EditSaves
    \/ \E j \in Jobs : Delete(j)
    \/ Crash
    \/ ReviveLists
    \/ DrainStep

Spec == Init /\ [][Next]_vars

----------------------------------------------------------------------------
TaskState ==
    [pc : {"idle", "arming", "firing", "checking", "reading", "skipping", "starting", "open",
           "ended", "saving", "appending", "telling", "chaining", "missing", "missed"},
     leg : {"none", "schedule", "manual", "chained"},
     job : Jobs \cup {None}, row : Row \cup {None}, sess : Sessions \cup {None},
     out : Outcomes \cup {"none", "waiting"}, held : SUBSET Jobs]

TypeOK ==
    /\ now \in 0..MaxTime /\ tickNow \in 0..MaxTime
    /\ rows \in [Jobs -> Row \cup {None}]
    /\ line \in [Sessions -> {"none", "waiting", "settled", "unanswered"}]
    /\ opened \in Seq([job : Jobs, slot : Instant, boot : 0..MaxCrashes])
    /\ Len(opened) <= MaxSessions
    /\ turn \in [Sessions -> {"none", "working", "card", "over"}]
    /\ phase \in {"reviving", "ticking"}
    /\ arming \subseteq [job : Jobs, row : Row] /\ due \subseteq Jobs
    /\ task \in [Tasks -> TaskState]
    /\ inFlight \subseteq Jobs
    /\ watch \in [Sessions -> {"off", "follow", "closed", "revive", "revive_closed"}]
    /\ edit \in [job : Jobs, row : Row] \cup {NoEdit}
    /\ clobbered \subseteq Jobs
    /\ edits \in 0..MaxEdits /\ crashes \in 0..MaxCrashes
    /\ DrainTypeOK

Running(t) == task[t].pc \notin {"idle", "arming", "firing", "chaining", "missing", "missed"}

\* Two runs of one job never overlap: not the tick's, not Run now, and not a
\* follow-on, whose parent's claim is still held (InFlight).
OneRunAtATime ==
    \A t, u \in Tasks : Running(t) /\ Running(u) /\ task[t].job = task[u].job => t = u

\* Somebody will settle the run that parked as s.
Followed(s) ==
    \/ watch[s] # "off"
    \/ \E t \in Tasks : task[t].pc \in {"appending", "telling"} /\ task[t].sess = s
    \/ phase = "reviving" /\ s \in LeftParked

\* A row does not keep a park that nobody settles: every later slot would be
\* missed.  Excepted is a row that was saved from a copy read before somebody
\* else wrote it (park.py, revive_parked).
ParkIsFollowed ==
    \A j \in Jobs : Parked(j) /\ j \notin clobbered => Followed(rows[j].parked)

SameJob(r, s) == opened[r].job = opened[s].job
Newer(s) == {r \in s + 1 .. Len(opened) : SameJob(r, s)}

\* A line of the history that says it waits will be settled, through any
\* number of restarts.  Excepted, beside lost updates, is a run whose link a
\* Run now that parked as well took over before a restart (park.py, _settle).
LineIsFollowed ==
    \A s \in 1..Len(opened) :
        line[s] = "waiting" /\ rows[opened[s].job] # None /\ opened[s].job \notin clobbered =>
            \/ Followed(s)
            \/ \E r \in Newer(s) : opened[r].boot < crashes /\ (line[r] # "none" \/ Followed(r))

\* A row that says it waits for a person names the park it waits for: a
\* settled run does not leave the receipt of a waiting one behind.
WaitsForItsPark ==
    \A j \in Jobs : rows[j] # None /\ j \notin clobbered =>
        rows[j].waits \in {None, rows[j].parked}

\* A slot opens one session in the life of a daemon, however long the tick
\* takes and whatever is paused, resumed, run by hand or parked meanwhile
\* (schedule.py, advance_job; a kill before the save is another matter).
SlotOnce ==
    \A s \in 1..Len(opened) : \A r \in Newer(s) :
        opened[r].slot = opened[s].slot /\ opened[r].boot = opened[s].boot =>
            opened[s].slot = None \/ opened[s].job \in clobbered

Opens == Len(opened') > Len(opened)

\* What became of a parked run stays what the history says of it: a daemon
\* that is stopped between the line and the row does not call a run that was
\* answered unanswered after the restart (history.py, close_waiting_run).
OutcomeStands == [][
    \A s \in Sessions : line[s] \in {"settled", "unanswered"} =>
        line'[s] \in {line[s], "none"}]_vars

\* A slot does not open a session while the job's last parked run still waits
\* for a person (park.py, skip_if_parked), unless the job was deleted after
\* that was looked at.
CardBlocksSlot == [][
    \A t \in Tasks :
        Opens /\ task'[t].pc = "open" /\ task[t].pc = "starting" /\ task[t].leg = "schedule" =>
            \A s \in 1..Len(opened) :
                opened[s].job = task[t].job /\ turn[s] = "card" =>
                    \/ task[t].job \in clobbered
                    \/ rows[task[t].job] = None
                    \/ \E r \in Newer(s) : line[r] # "none"]_vars

ScheduleOf(row) == <<row.paused, row.next, row.attempt, row.resume>>

\* Run now, a follow-on, a miss and the settling of a park leave the schedule
\* alone: only a slot of the job, its arming and an edit move it (runner.py,
\* run_manual_job).
ScheduleKept == [][
    \A j \in Jobs :
        /\ rows[j] # None /\ rows'[j] # None /\ ScheduleOf(rows'[j]) # ScheduleOf(rows[j])
        /\ j \notin clobbered'
        => \/ edit.job = j
           \/ \E copy \in arming : copy.job = j
           \/ task["tick"].job = j /\ task["tick"].leg = "schedule"]_vars

\* Nothing fires during a drain hold: a due job stays due (daemon.py,
\* run_due_jobs).
NothingFiresInHold == [][Opens => ~hold]_vars

\* A deleted job is gone (architecture.md, delete_job).
DeletedStaysGone == [][\A j \in Jobs : rows[j] = None => rows'[j] = None]_vars
=============================================================================
