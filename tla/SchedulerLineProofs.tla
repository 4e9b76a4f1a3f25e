------------------------ MODULE SchedulerLineProofs ------------------------
(***************************************************************************)
(* The history of a job against its row and its sessions: that a line which *)
(* waits is settled, and that a slot is missed while a person is asked, for *)
(* any jobs, tasks and bounds.                                             *)
(***************************************************************************)
EXTENDS SchedulerProofs

\* A job that was neither deleted nor saved from a copy that was untrue.
Plain(j) == j \notin clobbered /\ rows[j] # None

Closed == {"closed", "revive_closed"}
Final == {"settled", "unanswered"}

LEMMA PlainSteps ==
    ASSUME Typed, OnlyTick, [Next]_vars, NEW j \in Jobs, Plain(j)'
    PROVE  Plain(j) /\ (rows'[j] = rows[j] \/ RowMoves(j, rows[j]))
<1>1. j \notin clobbered /\ rows'[j] # None
  BY ClobberedGrows DEF Plain
<1>2. CASE rows'[j] = rows[j]
  BY <1>1, <1>2 DEF Plain
<1>3. CASE rows'[j] # rows[j]
  <2>1. RowMoves(j, rows[j])
    BY <1>1, <1>3, RowSteps DEF Saved, Plain
  <2> QED BY <1>1, <2>1, RowAssumption DEF RowMoves, Plain
<1> QED BY <1>2, <1>3

\* A park is set by the run of the job and let go of by its watch.
LEMMA ParkSteps ==
    ASSUME Typed, OnlyTick, [Next]_vars, NEW j \in Jobs, Plain(j)'
    PROVE  \/ rows'[j].parked = rows[j].parked
           \/ \E t \in Tasks : /\ task[t].job = j /\ task[t].pc \in {"ended", "saving"}
                               /\ rows'[j].parked = task[t].sess
           \/ \E s \in Sessions : SettleRow(s) /\ opened[s].job = j /\ rows[j].parked = s
BY PlainSteps DEF RowMoves

LEMMA OpenedInSessions ==
    ASSUME Typed
    PROVE  /\ Len(opened) \in Nat /\ 1..Len(opened) \subseteq Sessions
           /\ \A s \in 1..Len(opened) : opened[s].job \in Jobs
<1>1. Len(opened) \in Nat /\ 1..Len(opened) \subseteq Sessions
  BY SchedulerAssumption DEF Sessions, Typed, TypeOK
<1>2. ASSUME NEW s \in 1..Len(opened) PROVE opened[s].job \in Jobs
  <2> DEFINE O == [job : Jobs, slot : Instant, boot : 0..MaxCrashes]
  <2>1. opened \in Seq(O)
    BY DEF Typed, TypeOK
  <2> HIDE DEF O
  <2>2. opened[s] \in O
    BY <1>2, <2>1
  <2> QED BY <2>2 DEF O
<1> QED BY <1>1, <1>2

\* A history is cleared with its job.
LEMMA LineCleared ==
    ASSUME Typed, [Next]_vars, NEW s \in Sessions, line'[s] = "none", line[s] # "none"
    PROVE  s \in DOMAIN opened /\ rows'[opened[s].job] = None
<1>1. ASSUME NEW t \in Tasks, TaskStep(t) PROVE FALSE
  <2>1. line' = line \/ AppendWaiting(t)
    BY <1>1 DEF TaskStep, RunNow, StartTurn, TurnSeen, ReadAgain, SavePark, ArmWatch,
       SaveReceipt, StartLinked, ReadMiss, SaveMiss, store
  <2> QED BY <2>1 DEF AppendWaiting, Typed, TypeOK
<1>2. ASSUME NEW r \in Sessions, SessionStep(r) PROVE FALSE
  <2>1. line' = line \/ CloseLine(r)
    BY <1>2 DEF SessionStep, SessionMoves, SettleRow, store
  <2> QED BY <2>1 DEF CloseLine, Typed, TypeOK
<1>3. ASSUME NEW j \in Jobs, Delete(j)
      PROVE  s \in DOMAIN opened /\ rows'[opened[s].job] = None
  <2>1. s \in DOMAIN opened /\ opened[s].job = j
    BY <1>3 DEF Delete
  <2>2. rows'[j] = None
    BY <1>3 DEF Delete
  <2> QED BY <2>1, <2>2
<1>4. ASSUME ~\E j \in Jobs : Delete(j), ~\E t \in Tasks : TaskStep(t),
             ~\E r \in Sessions : SessionStep(r)
      PROVE  line' = line
  BY <1>4 DEF Next, vars, store, Clock, TickStarts, Arm, TickLists, TickClaims, TickEnds,
     SkipIfParked, ReadDue, SkipSlot, EditReads, EditSaves, DrainStep, Crash, ReviveLists
<1> QED BY <1>1, <1>2, <1>3, <1>4

LEMMA LineStays ==
    ASSUME Typed, [Next]_vars, NEW s \in 1..Len(opened), line[s] # "none",
           rows'[opened[s].job] # None
    PROVE  line'[s] # "none"
BY LineCleared, OpenedInSessions

\* A watch settles the row after it has closed the line.
LEMMA ClosedSteps ==
    ASSUME Typed, [Next]_vars, NEW s \in Sessions, watch'[s] \in Closed
    PROVE  watch[s] \in Closed \/ (CloseLine(s) /\ line'[s] \in Final)
<1> USE DEF Closed
<1>1. ASSUME NEW r \in Sessions, SessionStep(r)
      PROVE  watch[s] \in Closed \/ (CloseLine(s) /\ line'[s] \in Final)
  <2>1. watch' = watch \/ CloseLine(r) \/ SettleRow(r)
    BY <1>1 DEF SessionStep, SessionMoves
  <2>2. CASE CloseLine(r)
    <3>1. watch'[s] = watch[s] \/ r = s
      BY <2>2 DEF CloseLine, Stage, Typed, TypeOK
    <3>2. CASE r = s
      BY <2>2, <3>2 DEF CloseLine, Unsettled, Final, Typed, TypeOK
    <3> QED BY <2>2, <3>1, <3>2
  <2>3. CASE SettleRow(r)
    BY <2>3 DEF SettleRow, Stage, Typed, TypeOK
  <2> QED BY <2>1, <2>2, <2>3
<1>2. ASSUME NEW t \in Tasks, TaskStep(t) PROVE watch[s] \in Closed
  <2>1. watch' = watch \/ ArmWatch(t)
    BY <1>2 DEF TaskStep, RunNow, StartTurn, TurnSeen, ReadAgain, SavePark, AppendWaiting,
       SaveReceipt, StartLinked, ReadMiss, SaveMiss
  <2> QED BY <2>1 DEF ArmWatch, Typed, TypeOK
<1>3. CASE Crash \/ ReviveLists
  BY <1>3 DEF Crash, ReviveLists
<1>4. ASSUME ~Crash, ~ReviveLists, ~\E t \in Tasks : TaskStep(t),
             ~\E r \in Sessions : SessionStep(r)
      PROVE  watch' = watch
  BY <1>4 DEF Next, vars, Clock, TickStarts, Arm, TickLists, TickClaims, TickEnds,
     SkipIfParked, ReadDue, SkipSlot, EditReads, EditSaves, DrainStep, Delete
<1> QED BY <1>1, <1>2, <1>3, <1>4

LEMMA ParkIsSaved ==
    ASSUME Typed, [Next]_vars, NEW t \in Tasks, task'[t].pc = "appending",
           task[t].pc # "appending"
    PROVE  /\ task[t].job \in Jobs /\ task'[t].job = task[t].job /\ task'[t].sess = task[t].sess
           /\ rows'[task[t].job].parked = task[t].sess
<1> DEFINE r == task[t]
<1>0. r \in TaskState
  BY DEF Typed, TypeOK
<1>1. SavePark(t)
  <2>1. ~Crash
    BY DEF Crash, Idle
  <2>2. RunMoves(t, task[t], task'[t])
    BY <2>1, RunSteps
  <2>3. r.pc \in Writing
    BY <2>2, WritersOwn DEF RunMoves, Writing, AtSession
  <2>4. ~Back(t)
    BY DEF Back, TickBack, Finish, Idle, Typed
  <2>5. CASE TaskStep(t)
    <3>1. TurnSeen(t) \/ ReadAgain(t) \/ SaveReceipt(t) \/ SavePark(t)
      BY <2>3, <2>5 DEF TaskStep, RunNow, StartTurn, AppendWaiting, ArmWatch, StartLinked, ReadMiss,
         SaveMiss, Writing, AtSession
    <3>2. ASSUME TurnSeen(t) PROVE task'[t].pc = "ended"
      BY <1>0, <3>2 DEF TurnSeen, Typed, TaskState
    <3>3. ASSUME ReadAgain(t) PROVE task'[t].pc = "saving"
      BY <1>0, <2>4, <3>3 DEF ReadAgain, Typed, TaskState
    <3>4. ASSUME SaveReceipt(t) PROVE task'[t].pc = "chaining"
      BY <1>0, <2>4, <3>4 DEF SaveReceipt, Typed, TaskState
    <3> QED BY <3>1, <3>2, <3>3, <3>4
  <2>6. CASE TickStep /\ t = "tick"
    BY <2>3, <2>4, <2>6 DEF TickStep, TickStarts, Arm, TickLists, TickClaims, TickEnds,
       SkipIfParked, ReadDue, SkipSlot, Writing, AtSession, runs
  <2> QED BY <2>1, <2>5, <2>6, OneTask
<1>2. r.job \in Jobs /\ Schedule(t, "waiting") \in Row
  BY <1>1, SavedTyped DEF SavePark
<1>3. r.sess \in Instant
  BY <1>0, Instants DEF TaskState, Sessions, Instant
<1>4. [RecordRun(Schedule(t, "waiting"), r.sess) EXCEPT !.parked = r.sess].parked = r.sess
  BY <1>2, <1>3, ReceiptKeeps
<1>5. /\ rows'[r.job] = [RecordRun(Schedule(t, "waiting"), r.sess) EXCEPT !.parked = r.sess]
      /\ task' = [task EXCEPT ![t] = [r EXCEPT !.pc = "appending"]]
  BY <1>1, <1>2 DEF SavePark, Save, Move, Typed, TypeOK
<1>6. task'[t].job = r.job /\ task'[t].sess = r.sess
  BY <1>0, <1>5 DEF TaskState, Typed
<1> QED BY <1>2, <1>4, <1>5, <1>6
----------------------------------------------------------------------------
\* Lines that wait.

\* The session of a run is the newest of its job.
RunIsNewest == \A t \in Tasks : task[t].pc \in AtSession => Newer(task[t].sess) = {}

\* Between its row and its line, a run that parks keeps its park.
AppendingParked ==
    \A t \in Tasks : task[t].pc = "appending" /\ Plain(task[t].job) =>
        rows[task[t].job].parked = task[t].sess

\* A watch that has closed a line leaves it closed until it settles the row.
ClosedLine ==
    \A s \in 1..Len(opened) : watch[s] \in Closed /\ Plain(opened[s].job) => line[s] \in Final

\* A later run of the same job parked as well.
Overtaken(s) == \E r \in Newer(s) : line[r] # "none" \/ rows[opened[s].job].parked = r

\* A line that waits has the park of its row, or a later run took it over.
WaitingParked ==
    \A s \in 1..Len(opened) : line[s] = "waiting" /\ Plain(opened[s].job) =>
        rows[opened[s].job].parked = s \/ Overtaken(s)

Base == Typed /\ OnlyTick /\ ParkOwners /\ FreshSessions /\ Claims
LineInv == RunIsNewest /\ AppendingParked /\ ClosedLine /\ WaitingParked

LEMMA NewerSteps ==
    ASSUME Typed, [Next]_vars, NEW s \in 1..Len(opened)
    PROVE  /\ Newer(s) \subseteq Newer(s)' /\ Newer(s) \subseteq 1..Len(opened)
           /\ \A r \in Newer(s)' \ Newer(s) :
                \E t \in Tasks : StartTurn(t) /\ r = Len(opened') /\ task[t].job = opened[s].job
<1>1. /\ Len(opened) \in Nat /\ Len(opened') \in Nat /\ Len(opened) <= Len(opened')
      /\ \A r \in 1..Len(opened) : opened'[r] = opened[r]
  BY OpenedGrows
<1>2. /\ \A r \in s + 1 .. Len(opened) : r \in 1..Len(opened) /\ opened'[r] = opened[r]
      /\ opened'[s] = opened[s]
  BY <1>1
<1>3. Newer(s) \subseteq Newer(s)' /\ Newer(s) \subseteq 1..Len(opened)
  BY <1>1, <1>2 DEF Newer, SameJob
<1>4. ASSUME NEW r \in Newer(s)', r \notin Newer(s)
      PROVE  \E t \in Tasks : StartTurn(t) /\ r = Len(opened') /\ task[t].job = opened[s].job
  <2>1. r \in s + 1 .. Len(opened') /\ opened'[r].job = opened[s].job
    BY <1>2, <1>4 DEF Newer, SameJob
  <2>2. r \notin s + 1 .. Len(opened)
    BY <1>2, <1>4, <2>1 DEF Newer, SameJob
  <2>3. opened' # opened
    BY <2>1, <2>2
  <2>4. PICK t \in Tasks : StartTurn(t)
    BY <2>3, OpenedGrows
  <2>5. Len(opened') = Len(opened) + 1 /\ opened'[Len(opened')].job = task[t].job
    BY <2>4, OpenedGrows
  <2>6. r = Len(opened')
    BY <1>1, <2>1, <2>2, <2>5
  <2> QED BY <2>1, <2>4, <2>5, <2>6
<1> QED BY <1>3, <1>4

\* Two runs of a job are one.
LEMMA OneRun ==
    ASSUME Claims, NEW t \in Tasks, NEW u \in Tasks, Running(t), Running(u),
           task[t].job = task[u].job
    PROVE  t = u
BY DEF Claims

LEMMA NewestKept == ASSUME Base, RunIsNewest, [Next]_vars PROVE RunIsNewest'
<1> SUFFICES ASSUME NEW t \in Tasks, task'[t].pc \in AtSession PROVE Newer(task[t].sess)' = {}
  BY DEF RunIsNewest
<1> USE DEF Base
<1>1. ~Crash
  BY DEF Crash, AtSession, Idle
<1>2. CASE StartTurn(t)
  BY <1>2, OpenedGrows DEF Newer
<1>3. CASE ~StartTurn(t)
  <2>1. task[t].pc \in AtSession /\ task'[t].job = task[t].job /\ task'[t].sess = task[t].sess
    BY <1>1, <1>3, RunSteps DEF RunMoves
  <2>2. Newer(task[t].sess) = {} /\ task[t].sess \in 1..Len(opened)
        /\ opened[task[t].sess].job = task[t].job
    BY <2>1 DEF RunIsNewest, ParkOwners
  <2>3. ASSUME NEW u \in Tasks, StartTurn(u), task[u].job = task[t].job PROVE FALSE
    <3>1. Running(t) /\ Running(u)
      BY <2>1, <2>3, WritersOwn DEF Running, AtSession
    <3> QED BY <1>3, <2>3, <3>1, OneRun
  <2> QED BY <2>1, <2>2, <2>3, NewerSteps DEF Newer
<1> QED BY <1>2, <1>3

LEMMA AppendingKept == ASSUME Base, AppendingParked, [Next]_vars PROVE AppendingParked'
<1> SUFFICES ASSUME NEW t \in Tasks, task'[t].pc = "appending", Plain(task[t].job)'
             PROVE  rows'[task'[t].job].parked = task'[t].sess
  BY DEF AppendingParked
<1> USE DEF Base
<1>1. CASE task[t].pc # "appending"
  BY <1>1, ParkIsSaved
<1>2. CASE task[t].pc = "appending"
  <2> DEFINE j == task[t].job
             s == task[t].sess
  <2>1. ~Crash
    BY DEF Crash, Idle
  <2>2. task'[t].job = j /\ task'[t].sess = s
    BY <1>2, <2>1, RunSteps, WritersOwn DEF RunMoves, AtSession
  <2>3. j \in Jobs /\ s \in Sessions /\ watch[s] = "off"
    BY <1>2, OpenedInSessions DEF Typed, Underway, AtRest, ParkOwners, FreshSessions, AtSession,
       Writing
  <2>4. Plain(j) /\ rows[j].parked = s
    BY <1>2, <2>2, <2>3, PlainSteps DEF AppendingParked
  <2>5. ASSUME NEW u \in Tasks, task[u].job = j, task[u].pc \in {"ended", "saving"} PROVE FALSE
    <3>1. Running(t) /\ Running(u)
      BY <1>2, <2>5 DEF Running
    <3> QED BY <1>2, <2>5, <3>1, OneRun
  <2>6. ~SettleRow(s)
    BY <2>3 DEF SettleRow
  <2> QED BY <2>2, <2>3, <2>4, <2>5, <2>6, ParkSteps
<1> QED BY <1>1, <1>2

LEMMA ClosedKept == ASSUME Base, ClosedLine, [Next]_vars PROVE ClosedLine'
<1> SUFFICES ASSUME NEW s \in 1..Len(opened'), watch'[s] \in Closed, Plain(opened[s].job)'
             PROVE  line'[s] \in Final
  BY DEF ClosedLine
<1> USE DEF Base, Closed, Final
<1>0. s \in Sessions
  BY StepTyped, SchedulerAssumption DEF Sessions, Typed, TypeOK
<1>1. CASE watch[s] \notin Closed
  BY <1>0, <1>1, ClosedSteps
<1>2. CASE watch[s] \in Closed
  <2>1. s \in 1..Len(opened) /\ opened'[s] = opened[s]
    BY <1>0, <1>2, OpenedGrows DEF FreshSessions, Sessions
  <2>2. opened[s].job \in Jobs /\ rows'[opened[s].job] # None
    BY <2>1, OpenedInSessions DEF Plain
  <2>3. line[s] \in Final
    BY <1>2, <2>1, <2>2, PlainSteps DEF ClosedLine
  <2>4. line'[s] # "none"
    BY <2>1, <2>2, <2>3, LineStays DEF Final
  <2>5. ASSUME NEW t \in Tasks, AppendWaiting(t) PROVE task[t].sess # s
    BY <2>3, <2>5, WritersOwn DEF FreshSessions, Writing, AtSession
  <2> QED BY <1>0, <2>3, <2>4, <2>5, LineSteps
<1> QED BY <1>1, <1>2

\* What overtook a run still does.
LEMMA OvertakenKept ==
    ASSUME Base, RunIsNewest, ClosedLine, [Next]_vars, NEW s \in 1..Len(opened),
           Plain(opened[s].job)',
           Overtaken(s) \/ (rows[opened[s].job].parked = s /\ watch[s] \notin Closed)
    PROVE  Overtaken(s)' \/ rows'[opened[s].job].parked = s
<1> DEFINE j == opened[s].job
<1> USE DEF Base
<1>1. /\ j \in Jobs /\ opened'[s] = opened[s]
      /\ Newer(s) \subseteq Newer(s)' /\ Newer(s) \subseteq 1..Len(opened)
  BY OpenedGrows, NewerSteps, OpenedInSessions
<1>2. Plain(j) /\ rows'[j] # None
  BY <1>1, PlainSteps DEF Plain
<1>3. ASSUME NEW r \in Newer(s), line[r] # "none" PROVE Overtaken(s)'
  <2>1. r \in 1..Len(opened) /\ opened[r].job = j
    BY <1>1 DEF Newer, SameJob
  <2>2. line'[r] # "none"
    BY <1>2, <1>3, <2>1, LineStays
  <2> QED BY <1>1, <2>2 DEF Overtaken
<1>4. ASSUME NEW t \in Tasks, task[t].job = j, task[t].pc \in {"ended", "saving"},
             rows'[j].parked = task[t].sess
      PROVE  Overtaken(s)' \/ rows'[j].parked = s
  <2> DEFINE r == task[t].sess
  <2>1. r \in 1..Len(opened) /\ opened[r].job = j /\ Newer(r) = {}
    BY <1>4 DEF ParkOwners, RunIsNewest, AtSession
  <2>2. r = s \/ r \in Newer(s)
    BY <2>1, OpenedInSessions DEF Newer, SameJob
  <2> QED BY <1>1, <1>4, <2>2 DEF Overtaken
<1>5. ASSUME NEW r \in Newer(s), rows[j].parked = r, line[r] = "none"
      PROVE  ~SettleRow(r)
  <2>1. r \in 1..Len(opened) /\ opened[r].job = j
    BY <1>1 DEF Newer, SameJob
  <2>2. watch[r] \notin Closed
    BY <1>2, <1>5, <2>1 DEF ClosedLine, Final
  <2> QED BY <2>2 DEF SettleRow, Closed
<1>6. watch[s] \notin Closed => ~SettleRow(s)
  BY DEF SettleRow, Closed
<1>7. ASSUME NEW r \in Newer(s), rows'[j].parked = r PROVE Overtaken(s)'
  BY <1>1, <1>7 DEF Overtaken
<1> QED BY <1>1, <1>3, <1>4, <1>5, <1>6, <1>7, ParkSteps DEF Overtaken

LEMMA WaitingKept == ASSUME Base, LineInv, [Next]_vars PROVE WaitingParked'
<1> SUFFICES ASSUME NEW s \in 1..Len(opened'), line'[s] = "waiting", Plain(opened[s].job)'
             PROVE  rows'[opened'[s].job].parked = s \/ Overtaken(s)'
  BY DEF WaitingParked
<1> USE DEF Base, LineInv
<1>0. s \in Sessions
  BY StepTyped, SchedulerAssumption DEF Sessions, Typed, TypeOK
<1>1. ASSUME NEW t \in Tasks, AppendWaiting(t), task[t].sess = s
      PROVE  rows'[opened'[s].job].parked = s
  <2>1. task[t].pc = "appending" /\ rows' = rows /\ clobbered' = clobbered
    BY <1>1 DEF AppendWaiting
  <2>2. s \in 1..Len(opened) /\ opened[s].job = task[t].job /\ opened'[s] = opened[s]
    BY <1>1, <2>1, OpenedGrows DEF ParkOwners, AtSession
  <2>3. Plain(task[t].job)
    BY <2>1, <2>2 DEF Plain
  <2> QED BY <1>1, <2>1, <2>2, <2>3 DEF AppendingParked
<1>2. CASE line[s] = "waiting"
  <2>1. s \in 1..Len(opened) /\ opened'[s] = opened[s] /\ opened[s].job \in Jobs
    BY <1>0, <1>2, OpenedGrows, OpenedInSessions DEF FreshSessions, Sessions
  <2>2. Plain(opened[s].job)
    BY <2>1, PlainSteps
  <2>3. rows[opened[s].job].parked = s \/ Overtaken(s)
    BY <1>2, <2>1, <2>2 DEF WaitingParked
  <2>4. watch[s] \notin Closed
    BY <1>2, <2>1, <2>2 DEF ClosedLine, Final
  <2> QED BY <2>1, <2>3, <2>4, OvertakenKept
<1>3. line[s] = "waiting" \/ \E t \in Tasks : AppendWaiting(t) /\ task[t].sess = s
  <2>1. CloseLine(s) => line'[s] # "waiting" \/ line'[s] = line[s]
    BY <1>0 DEF CloseLine, Typed, TypeOK
  <2> QED BY <1>0, <2>1, LineSteps
<1> QED BY <1>1, <1>2, <1>3

\* Short of a restart, whoever is to settle a run stays, or has closed its line.
LEMMA FollowedSteps ==
    ASSUME Base, ClosedLine, [Next]_vars, ~Crash, NEW s \in 1..Len(opened),
           Plain(opened[s].job)', Followed(s)
    PROVE  Followed(s)' \/ line'[s] \in Final
<1> DEFINE j == opened[s].job
<1> USE DEF Base
<1>1. /\ j \in Jobs /\ s \in Sessions /\ opened'[s] = opened[s]
      /\ Plain(j) /\ rows'[j] # None
  BY OpenedGrows, OpenedInSessions, PlainSteps DEF Plain
<1>2. CASE watch[s] # "off"
  <2>1. CASE SettleRow(s)
    <3>1. watch[s] \in Closed /\ line' = line
      BY <2>1 DEF SettleRow, Closed
    <3> QED BY <1>1, <3>1 DEF ClosedLine
  <2>2. CASE ~SettleRow(s)
    BY <1>1, <1>2, <2>2, WatchSteps DEF Followed
  <2> QED BY <2>1, <2>2
<1>3. ASSUME NEW t \in Tasks, task[t].pc \in {"appending", "telling"}, task[t].sess = s
      PROVE  Followed(s)'
  <2>1. CASE ArmWatch(t)
    BY <1>1, <1>3, <2>1 DEF ArmWatch, Followed, Typed, TypeOK
  <2>2. CASE ~ArmWatch(t)
    <3>1. task'[t].pc \in {"appending", "telling"} /\ task'[t].sess = s
      BY <1>3, <2>2, RunSteps DEF RunMoves
    <3> QED BY <3>1 DEF Followed
  <2> QED BY <2>1, <2>2
<1>4. CASE phase = "reviving" /\ s \in LeftParked
  <2>1. PICK i \in Jobs : Parked(i) /\ rows[i].parked = s
    BY <1>4 DEF LeftParked
  <2>2. i = j
    BY <2>1 DEF ParkOwners, Owned, Parked
  <2>3. rows'[j].parked = s
    <3>1. \A t \in Tasks : task[t].pc = "idle"
      BY <1>4 DEF FreshSessions
    <3>2. \A r \in Sessions : ~SettleRow(r)
      BY <1>4 DEF FreshSessions, SettleRow
    <3> QED BY <1>1, <2>1, <2>2, <3>1, <3>2, ParkSteps
  <2>4. s \in LeftParked'
    BY <1>1, <2>1, <2>2, <2>3 DEF LeftParked, Parked
  <2> QED BY <1>1, <1>4, <2>4, WatchSteps DEF Followed
<1> QED BY <1>2, <1>3, <1>4 DEF Followed

\* What LineIsFollowed says of s, and what settles it through a newer run.
Taken(r) == opened[r].boot < crashes /\ (line[r] # "none" \/ Followed(r))

LEMMA BootsKept ==
    ASSUME Typed, [Next]_vars
    PROVE  crashes' \in Nat /\ crashes \in Nat /\ crashes' = IF Crash THEN crashes + 1 ELSE crashes
<1>1. crashes' \in Nat /\ crashes \in Nat
  BY StepTyped, SchedulerAssumption DEF Typed, TypeOK
<1>2. ASSUME NEW t \in Tasks, TaskStep(t) PROVE crashes' = crashes
  BY <1>2 DEF TaskStep, RunNow, StartTurn, TurnSeen, ReadAgain, SavePark, AppendWaiting, ArmWatch,
     SaveReceipt, StartLinked, ReadMiss, SaveMiss, counts
<1>3. ASSUME NEW s \in Sessions, SessionStep(s) PROVE crashes' = crashes
  BY <1>3 DEF SessionStep, SessionMoves, CloseLine, SettleRow, counts
<1>4. Crash => crashes' = crashes + 1
  BY DEF Crash
<1> QED BY <1>1, <1>2, <1>3, <1>4 DEF Next, vars, counts, Clock, TickStarts, Arm, TickLists,
      TickClaims, TickEnds, SkipIfParked, ReadDue, SkipSlot, EditReads, EditSaves, Delete,
      ReviveLists, DrainStep

LEMMA NewSession ==
    ASSUME Typed, NEW t \in Tasks, StartTurn(t)
    PROVE  /\ opened'[Len(opened')].slot = SlotOf(t)
           /\ opened'[Len(opened')].boot = crashes
<1> DEFINE o == [job |-> task[t].job, slot |-> SlotOf(t), boot |-> crashes]
           O == [job : Jobs, slot : Instant, boot : 0..MaxCrashes]
<1>1. opened' = Append(opened, o) /\ opened \in Seq(O)
  BY DEF StartTurn, Typed, TypeOK
<1> HIDE DEF o, O
<1>2. opened'[Len(opened')] = o
  BY <1>1
<1>3. o.slot = SlotOf(t) /\ o.boot = crashes
  BY DEF o
<1> QED BY <1>2, <1>3

\* No session is of a life of the daemon that is yet to come.
BootsPast == \A s \in 1..Len(opened) : opened[s].boot \in Nat /\ opened[s].boot <= crashes

LEMMA BootsPastKept == ASSUME Typed, BootsPast, [Next]_vars PROVE BootsPast'
<1>1. crashes \in Nat /\ crashes' \in Nat /\ crashes <= crashes'
  BY BootsKept
<1>2. ASSUME NEW s \in 1..Len(opened') PROVE opened'[s].boot \in Nat /\ opened'[s].boot <= crashes'
  <2>1. CASE s \in 1..Len(opened)
    <3>1. opened'[s] = opened[s]
      BY <2>1, OpenedGrows
    <3> QED BY <1>1, <2>1, <3>1 DEF BootsPast
  <2>2. CASE s \notin 1..Len(opened)
    <3>1. PICK t \in Tasks : StartTurn(t)
      BY <2>2, OpenedGrows
    <3>2. s = Len(opened')
      BY <2>2, <3>1, OpenedGrows
    <3>3. opened'[s].boot = crashes
      BY <3>1, <3>2, NewSession
    <3> QED BY <1>1, <3>3
  <2> QED BY <2>1, <2>2
<1> QED BY <1>2 DEF BootsPast

LEMMA LineFollowedKept ==
    ASSUME Base, LineInv, WaitingParked', BootsPast, LineIsFollowed, [Next]_vars
    PROVE  LineIsFollowed'
<1> SUFFICES ASSUME NEW s \in 1..Len(opened'), line'[s] = "waiting", Plain(opened[s].job)'
             PROVE  Followed(s)' \/ \E r \in Newer(s)' : Taken(r)'
  BY DEF LineIsFollowed, Plain, Taken
<1> USE DEF Base, LineInv
<1>0. s \in Sessions /\ Typed'
  BY StepTyped, SchedulerAssumption DEF Sessions, Typed, TypeOK
<1>1. CASE Crash
  <2>1. opened' = opened /\ rows' = rows /\ line' = line /\ phase' = "reviving"
    BY <1>1 DEF Crash, store
  <2>2. opened'[s].job \in Jobs /\ Plain(opened[s].job)'
    BY <1>0, <2>1, OpenedInSessions
  <2>3. ASSUME NEW r, rows'[opened'[s].job].parked = r, r # None PROVE Followed(r)'
    <3>1. r \in LeftParked'
      BY <2>2, <2>3 DEF LeftParked, Parked, Plain
    <3> QED BY <2>1, <3>1 DEF Followed
  <2>4. s # None /\ \A r \in Newer(s)' : r # None /\ r \in 1..Len(opened)
    BY <1>0, <2>1, ScheduleAssumption, OpenedInSessions DEF Newer, Sessions
  <2>5. \A r \in 1..Len(opened) : opened'[r].boot < crashes'
    BY <1>1, <2>1, BootsKept DEF BootsPast
  <2>6. rows'[opened'[s].job].parked = s \/ Overtaken(s)'
    BY <2>2 DEF WaitingParked
  <2> QED BY <2>3, <2>4, <2>5, <2>6 DEF Overtaken, Taken
<1>2. CASE ~Crash
  <2>1. ASSUME NEW t \in Tasks, AppendWaiting(t), task[t].sess = s PROVE Followed(s)'
    <3>1. task'[t].pc = "telling" /\ task'[t].sess = s
      BY <2>1 DEF AppendWaiting, Move, Typed, TypeOK, TaskState
    <3> QED BY <3>1 DEF Followed
  <2>2. CASE line[s] = "waiting"
    <3> DEFINE j == opened[s].job
    <3>1. s \in 1..Len(opened) /\ opened'[s] = opened[s]
      BY <1>0, <2>2, OpenedGrows DEF FreshSessions, Sessions
    <3>2. j \in Jobs /\ Plain(j) /\ rows'[j] # None /\ j \notin clobbered'
      BY <3>1, OpenedInSessions, PlainSteps DEF Plain
    <3>3. CASE Followed(s)
      BY <1>2, <2>2, <3>1, <3>3, FollowedSteps DEF Final
    <3>4. ASSUME NEW r \in Newer(s), Taken(r) PROVE r \in Newer(s)' /\ Taken(r)'
      <4>1. /\ r \in Newer(s)' /\ r \in 1..Len(opened) /\ opened[r].job = j
            /\ opened'[r] = opened[r]
        BY <3>1, NewerSteps, OpenedGrows DEF Newer, SameJob
      <4>2. opened'[r].boot < crashes'
        BY <1>2, <3>4, <4>1, BootsKept DEF Taken
      <4>3. line[r] # "none" => line'[r] # "none"
        BY <3>2, <4>1, LineStays
      <4>4. Plain(opened[r].job)'
        BY <3>2, <4>1 DEF Plain
      <4>5. Followed(r) => Followed(r)' \/ line'[r] # "none"
        BY <1>2, <4>1, <4>4, FollowedSteps DEF Final
      <4> QED BY <3>4, <4>1, <4>2, <4>3, <4>5 DEF Taken
    <3>5. Followed(s) \/ \E r \in Newer(s) : Taken(r)
      BY <2>2, <3>1, <3>2 DEF LineIsFollowed, Plain, Taken
    <3> QED BY <3>3, <3>4, <3>5
  <2>3. line[s] = "waiting" \/ \E t \in Tasks : AppendWaiting(t) /\ task[t].sess = s
    <3>1. CloseLine(s) => line'[s] # "waiting" \/ line'[s] = line[s]
      BY <1>0 DEF CloseLine, Typed, TypeOK
    <3> QED BY <1>0, <3>1, LineSteps
  <2> QED BY <2>1, <2>2, <2>3
<1> QED BY <1>1, <1>2

LEMMA LineHistory == Spec => [](Base /\ BootsPast /\ LineInv /\ LineIsFollowed)
<1>1. Init => Claims /\ BootsPast /\ LineInv /\ LineIsFollowed
  <2> SUFFICES ASSUME Init PROVE Claims /\ BootsPast /\ LineInv /\ LineIsFollowed
    OBVIOUS
  <2>1. Len(opened) = 0 /\ \A t \in Tasks : task[t] = Idle
    BY DEF Init
  <2>2. 1..Len(opened) = {}
    BY <2>1
  <2>3. Claims
    BY <2>1 DEF Claims, Idle, Running
  <2> QED BY <2>1, <2>2, <2>3 DEF BootsPast, LineInv, RunIsNewest, AppendingParked, ClosedLine,
        WaitingParked, LineIsFollowed, AtSession, Idle
<1>2. Base /\ BootsPast /\ LineInv /\ LineIsFollowed /\ [Next]_vars
        => Claims' /\ BootsPast' /\ LineInv' /\ LineIsFollowed'
  <2> SUFFICES ASSUME Base, BootsPast, LineInv, LineIsFollowed, [Next]_vars
               PROVE  Claims' /\ BootsPast' /\ LineInv' /\ LineIsFollowed'
    OBVIOUS
  <2>1. Claims' /\ BootsPast'
    BY ClaimsKept, BootsPastKept DEF Base
  <2>2. RunIsNewest' /\ AppendingParked' /\ ClosedLine' /\ WaitingParked'
    BY NewestKept, AppendingKept, ClosedKept, WaitingKept DEF LineInv
  <2>3. LineIsFollowed'
    BY <2>2, LineFollowedKept
  <2> QED BY <2>1, <2>2, <2>3 DEF LineInv
<1> QED BY <1>1, <1>2, LineInvariant, PTL DEF Spec, Base

\* A line of the history that says it waits will be settled, through any
\* number of restarts and edits and whichever runs park meanwhile, unless a
\* later run that parked took its row over before a restart: the row is parked
\* before the line says so, and let go of after the line is settled (park.py,
\* park_run, _settle, revive_parked).
THEOREM LinesAreFollowed == Spec => []LineIsFollowed
<1> QED BY LineHistory, PTL

----------------------------------------------------------------------------
\* Turns that wait for a person.

Open == {"working", "card"}

\* A session that is opened has a turn, and who settles a run as one that was
\* ended, by its turn or by a restart, is right.
TurnsOver ==
    /\ \A s \in Sessions : turn[s] = "none" <=> s > Len(opened)
    /\ phase = "reviving" => \A s \in Sessions : turn[s] \notin Open
    /\ \A s \in Sessions : watch[s] \in {"closed", "revive", "revive_closed"} => turn[s] = "over"

LEMMA TurnSteps ==
    ASSUME Typed, [Next]_vars, NEW s \in Sessions
    PROVE  \/ turn'[s] = turn[s]
           \/ turn[s] \in Open /\ turn'[s] \in Open \cup {"over"}
           \/ turn'[s] = "working" /\ \E t \in Tasks : StartTurn(t) /\ s = Len(opened')
<1> USE DEF Open
<1>1. ASSUME NEW t \in Tasks, StartTurn(t)
      PROVE  turn'[s] = turn[s] \/ (turn'[s] = "working" /\ s = Len(opened'))
  BY <1>1, OpenedGrows DEF StartTurn, Typed, TypeOK
<1>2. ASSUME NEW t \in Tasks, TurnSeen(t)
      PROVE  turn'[s] = turn[s] \/ (turn[s] \in Open /\ turn'[s] = "over")
  BY <1>2 DEF TurnSeen, Typed, TypeOK
<1>3. ASSUME NEW t \in Tasks, TaskStep(t), ~StartTurn(t), ~TurnSeen(t) PROVE turn' = turn
  BY <1>3 DEF TaskStep, RunNow, ReadAgain, SavePark, AppendWaiting, ArmWatch, SaveReceipt,
     StartLinked, ReadMiss, SaveMiss, sessions
<1>4. ASSUME NEW r \in Sessions, SessionStep(r)
      PROVE  turn'[s] = turn[s] \/ (turn[s] \in Open /\ turn'[s] \in Open \cup {"over"})
  <2>1. CASE SessionMoves(r)
    BY <2>1 DEF SessionMoves, Typed, TypeOK
  <2>2. CASE CloseLine(r) \/ SettleRow(r)
    BY <2>2 DEF CloseLine, SettleRow, sessions
  <2> QED BY <1>4, <2>1, <2>2 DEF SessionStep
<1>5. CASE Crash
  <2>1. turn'[s] = IF turn[s] = "none" THEN "none" ELSE "over"
    BY <1>5 DEF Crash
  <2> QED BY <2>1 DEF Typed, TypeOK
<1>6. ASSUME ~Crash, ~\E t \in Tasks : TaskStep(t), ~\E r \in Sessions : SessionStep(r)
      PROVE  turn' = turn
  BY <1>6 DEF Next, vars, sessions, Clock, TickStarts, Arm, TickLists, TickClaims, TickEnds,
     SkipIfParked, ReadDue, SkipSlot, EditReads, EditSaves, Delete, ReviveLists, DrainStep
<1> QED BY <1>1, <1>2, <1>3, <1>4, <1>5, <1>6

\* Whose watch says that the turn is over.
LEMMA WatchEnds ==
    ASSUME Typed, [Next]_vars, NEW s \in Sessions,
           watch'[s] \in {"closed", "revive", "revive_closed"}
    PROVE  \/ watch[s] \in {"closed", "revive", "revive_closed"}
           \/ turn[s] = "over"
           \/ phase = "reviving" /\ s \in LeftParked
<1>1. ASSUME NEW r \in Sessions, SessionStep(r)
      PROVE  watch[s] \in {"closed", "revive", "revive_closed"} \/ turn[s] = "over"
  <2>1. CASE SessionMoves(r)
    BY <2>1 DEF SessionMoves
  <2>2. CASE CloseLine(r)
    <3>1. watch'[s] = watch[s] \/ r = s
      BY <2>2 DEF CloseLine, Stage, Typed, TypeOK
    <3>2. watch[r] \in {"follow", "revive"} /\ (watch[r] = "follow" => turn[r] = "over")
      BY <2>2 DEF CloseLine, MaySettle
    <3> QED BY <3>1, <3>2
  <2>3. CASE SettleRow(r)
    BY <2>3 DEF SettleRow, Stage, Typed, TypeOK
  <2> QED BY <1>1, <2>1, <2>2, <2>3 DEF SessionStep
<1>2. ASSUME NEW t \in Tasks, TaskStep(t) PROVE watch'[s] \in {watch[s], "follow"}
  <2>1. watch' = watch \/ ArmWatch(t)
    BY <1>2 DEF TaskStep, RunNow, StartTurn, TurnSeen, ReadAgain, SavePark, AppendWaiting,
       SaveReceipt, StartLinked, ReadMiss, SaveMiss
  <2> QED BY <2>1 DEF ArmWatch, Typed, TypeOK
<1>3. CASE Crash \/ ReviveLists
  BY <1>3 DEF Crash, ReviveLists
<1>4. ASSUME ~Crash, ~ReviveLists, ~\E t \in Tasks : TaskStep(t),
             ~\E r \in Sessions : SessionStep(r)
      PROVE  watch' = watch
  BY <1>4 DEF Next, vars, Clock, TickStarts, Arm, TickLists, TickClaims, TickEnds,
     SkipIfParked, ReadDue, SkipSlot, EditReads, EditSaves, DrainStep, Delete
<1> QED BY <1>1, <1>2, <1>3, <1>4

LEMMA TurnsOverKept == ASSUME Base, TurnsOver, [Next]_vars PROVE TurnsOver'
<1> USE DEF Base, Open
<1>0. /\ Len(opened) \in Nat /\ Len(opened') \in Nat /\ Len(opened) <= Len(opened')
      /\ Sessions \subseteq Nat
      /\ opened' = opened \/ \E t \in Tasks : StartTurn(t)
  BY OpenedGrows, SchedulerAssumption DEF Sessions
<1>1. ASSUME NEW s \in Sessions PROVE turn'[s] = "none" <=> s > Len(opened')
  <2>1. CASE s > Len(opened')
    <3>1. s > Len(opened) /\ s # Len(opened') /\ turn[s] = "none"
      BY <1>0, <2>1 DEF TurnsOver
    <3> QED BY <2>1, <3>1, TurnSteps
  <2>2. CASE ~(s > Len(opened')) /\ s > Len(opened)
    <3>1. PICK t \in Tasks : StartTurn(t)
      BY <1>0, <2>2
    <3>2. s = Len(opened) + 1
      BY <1>0, <2>2, <3>1, OpenedGrows
    <3>3. turn'[s] = "working"
      BY <3>1, <3>2 DEF StartTurn, Typed, TypeOK
    <3> QED BY <2>2, <3>3
  <2>3. CASE ~(s > Len(opened))
    <3>1. turn[s] # "none" /\ ~(s > Len(opened'))
      BY <1>0, <2>3 DEF TurnsOver
    <3> QED BY <3>1, TurnSteps
  <2> QED BY <2>1, <2>2, <2>3
<1>2. ASSUME NEW s \in Sessions, phase' = "reviving" PROVE turn'[s] \notin Open
  <2>1. CASE Crash
    BY <2>1 DEF Crash
  <2>2. CASE phase = "reviving"
    <3>1. turn[s] \notin Open /\ \A t \in Tasks : ~StartTurn(t)
      BY <2>2, WritersOwn DEF TurnsOver, FreshSessions
    <3> QED BY <3>1, TurnSteps
  <2> QED BY <1>2, <2>1, <2>2, PhaseSteps
<1>3. ASSUME NEW s \in Sessions, watch'[s] \in {"closed", "revive", "revive_closed"}
      PROVE  turn'[s] = "over"
  <2>1. turn[s] = "over"
    <3>1. CASE phase = "reviving" /\ s \in LeftParked
      <4>1. PICK i \in Jobs : Parked(i) /\ rows[i].parked = s
        BY <3>1 DEF LeftParked
      <4>2. s \in 1..Len(opened)
        BY <4>1 DEF ParkOwners, Owned, Parked
      <4>3. turn[s] # "none" /\ turn[s] \notin Open
        BY <1>0, <3>1, <4>2 DEF TurnsOver
      <4> QED BY <4>3 DEF Typed, TypeOK
    <3> QED BY <1>3, <3>1, WatchEnds DEF TurnsOver
  <2>2. s <= Len(opened)
    BY <1>0, <2>1 DEF TurnsOver
  <2>3. ASSUME NEW t \in Tasks, StartTurn(t) PROVE s # Len(opened')
    BY <1>0, <2>2, <2>3, OpenedGrows
  <2> QED BY <2>1, <2>3, TurnSteps
<1> QED BY <1>1, <1>2, <1>3 DEF TurnsOver

\* Somebody looks at the turn of s, or has seen that it waits.
Watched(t, s) ==
    /\ task[t].sess = s
    /\ \/ task[t].pc = "open"
       \/ task[t].pc \in {"ended", "saving"} /\ task[t].out = "waiting"

\* A turn that is not over has its run, or the park of its row, or a later run
\* took that over.
OpenIsKept ==
    \A s \in 1..Len(opened) : turn[s] \in Open /\ Plain(opened[s].job) =>
        \/ \E t \in Tasks : Watched(t, s)
        \/ rows[opened[s].job].parked = s
        \/ Overtaken(s)

LEMMA WatchedSteps ==
    ASSUME Base, [Next]_vars, NEW t \in Tasks, NEW s \in 1..Len(opened), Watched(t, s),
           turn'[s] \in Open, Plain(opened[s].job)'
    PROVE  Watched(t, s)' \/ rows'[opened[s].job].parked = s
<1> USE DEF Base, Open
<1> DEFINE r == task[t]
           j == opened[s].job
<1>0. /\ r \in TaskState /\ r.sess = s /\ r.job = j /\ rows'[j] # None
      /\ r.pc \in {"open", "ended", "saving"}
  BY OpenedGrows DEF Typed, TypeOK, Watched, ParkOwners, AtSession, Plain
<1>1. ~Crash
  <2>1. s \in Sessions
    BY OpenedInSessions
  <2>2. Crash => turn'[s] \in {"none", "over"}
    BY <2>1 DEF Crash
  <2> QED BY <2>2
<1>2. CASE task'[t] = task[t]
  BY <1>2 DEF Watched
<1>3. ~TickStep \/ t # "tick" \/ task'[t] = task[t]
  BY <1>0 DEF TickStep, TickStarts, Arm, TickLists, TickClaims, TickEnds, SkipIfParked, ReadDue,
     SkipSlot
<1>4. CASE TaskStep(t)
  <2>1. \/ r.pc = "open" /\ TurnSeen(t)
        \/ r.pc \in {"ended", "saving"} /\ (ReadAgain(t) \/ SavePark(t) \/ SaveReceipt(t))
    BY <1>0, <1>4 DEF TaskStep, RunNow, StartTurn, TurnSeen, ReadAgain, SavePark, Saving,
       AppendWaiting, ArmWatch, SaveReceipt, StartLinked, ReadMiss, SaveMiss
  <2>2. CASE TurnSeen(t)
    <3>1. turn[s] = "card" /\ task' = [task EXCEPT ![t] = [r EXCEPT !.pc = "ended", !.out = "waiting"]]
      BY <1>0, <2>2, OpenedInSessions DEF TurnSeen, Typed, TypeOK
    <3> QED BY <1>0, <3>1 DEF Typed, TaskState, Watched
  <2>3. CASE r.pc \in {"ended", "saving"} /\ ReadAgain(t)
    <3>1. rows' = rows /\ r.out = "waiting"
      BY <2>3 DEF ReadAgain, store, Watched
    <3>2. task' = [task EXCEPT ![t] = [r EXCEPT !.pc = "saving", !.row = rows[j]]]
      BY <1>0, <2>3, <3>1 DEF ReadAgain
    <3> QED BY <1>0, <3>1, <3>2 DEF Typed, TaskState, Watched
  <2>4. CASE r.pc \in {"ended", "saving"} /\ SavePark(t)
    <3>1. task'[t].pc = "appending" /\ r.pc # "appending"
      BY <1>0, <2>4 DEF SavePark, Move, Typed, TaskState
    <3> QED BY <1>0, <3>1, ParkIsSaved
  <2>5. CASE r.pc \in {"ended", "saving"} /\ SaveReceipt(t)
    BY <2>5 DEF SaveReceipt, Watched
  <2> QED BY <2>1, <2>2, <2>3, <2>4, <2>5
<1> QED BY <1>1, <1>2, <1>3, <1>4, OneTask

LEMMA OpenIsKeptStays ==
    ASSUME Base, LineInv, TurnsOver, OpenIsKept, [Next]_vars PROVE OpenIsKept'
<1> SUFFICES ASSUME NEW s \in 1..Len(opened'), turn'[s] \in Open, Plain(opened[s].job)'
             PROVE  \/ \E t \in Tasks : Watched(t, s)'
                    \/ rows'[opened'[s].job].parked = s
                    \/ Overtaken(s)'
  BY DEF OpenIsKept
<1> USE DEF Base, LineInv
<1>0. s \in Sessions
  BY StepTyped, SchedulerAssumption DEF Sessions, Typed, TypeOK
<1>1. CASE turn[s] \in Open
  <2>1. s \in 1..Len(opened) /\ opened'[s] = opened[s]
    BY <1>0, <1>1, OpenedGrows DEF TurnsOver, Open, Sessions
  <2>2. Plain(opened[s].job)
    BY <2>1, OpenedInSessions, PlainSteps
  <2>3. watch[s] \notin Closed
    BY <1>0, <1>1 DEF TurnsOver, Open, Closed
  <2>4. CASE \E t \in Tasks : Watched(t, s)
    BY <2>1, <2>4, WatchedSteps
  <2>5. CASE rows[opened[s].job].parked = s \/ Overtaken(s)
    BY <2>1, <2>3, <2>5, OvertakenKept
  <2> QED BY <1>1, <2>1, <2>2, <2>4, <2>5 DEF OpenIsKept
<1>2. CASE turn[s] \notin Open
  <2>1. PICK t \in Tasks : StartTurn(t) /\ s = Len(opened')
    BY <1>0, <1>2, TurnSteps
  <2>2. task'[t].pc = "open" /\ task'[t].sess = s
    <3>1. task' = [task EXCEPT ![t] = [task[t] EXCEPT !.pc = "open", !.sess = Len(opened) + 1]]
      BY <2>1 DEF StartTurn
    <3>2. task'[t].pc = "open"
      BY <3>1 DEF Typed, TypeOK, TaskState
    <3> QED BY <2>1, <3>2, OpenedGrows
  <2> QED BY <2>2 DEF Watched
<1> QED BY <1>1, <1>2

\* A slot that is about to open a session has looked: no open turn of its job
\* is the last that parked.
SlotLooked ==
    task["tick"].leg = "schedule" /\ task["tick"].pc \in {"reading", "starting"} =>
        \A s \in 1..Len(opened) :
            opened[s].job = task["tick"].job /\ turn[s] \in Open /\ Plain(opened[s].job) =>
                \E r \in Newer(s) : line[r] # "none"

LEMMA LookSteps ==
    ASSUME Typed, OnlyTick, [Next]_vars, task'["tick"].leg = "schedule",
           task'["tick"].pc \in {"reading", "starting"}
    PROVE  /\ task'["tick"].job = task["tick"].job
           /\ \/ SkipIfParked /\ ~Parked(task["tick"].job) /\ rows' = rows
              \/ task["tick"].leg = "schedule" /\ task["tick"].pc \in {"reading", "starting"}
<1> DEFINE r == task["tick"]
<1>0. "tick" \in Tasks /\ r \in TaskState
  BY DEF Tasks, Typed, TypeOK
<1>1. ~Crash /\ ~Back("tick")
  BY <1>0 DEF Crash, Idle, Back, TickBack, Typed
<1>5. ASSUME NEW pc, Move("tick", pc) PROVE task'["tick"].pc = pc
  <2>1. task'["tick"] = [r EXCEPT !.pc = pc]
    BY <1>0, <1>5 DEF Move, Typed
  <2> QED BY <1>0, <2>1 DEF TaskState
<1>6. ASSUME NEW j, NEW leg, NEW pc, Claim("tick", j, leg, pc)
      PROVE  task'["tick"].pc = pc /\ task'["tick"].leg = leg
  BY <1>0, <1>6 DEF Claim, Typed, TaskState
<1>2. CASE TickStep
  <2>1. CASE TickStarts \/ TickLists \/ TickEnds
    BY <1>5, <2>1 DEF TickStarts, TickLists, TickEnds
  <2>2. CASE Arm
    BY <2>2 DEF Arm, runs
  <2>3. CASE TickClaims
    BY <1>6, <2>3 DEF TickClaims, runs
  <2>4. CASE SkipIfParked
    <3>1. /\ ~Parked(r.job) /\ rows' = rows
          /\ task' = [task EXCEPT !["tick"] = [r EXCEPT !.pc = "reading"]]
      BY <1>1, <2>4 DEF SkipIfParked, SlotMissed, Move
    <3> QED BY <1>0, <2>4, <3>1 DEF Typed, TaskState
  <2>5. CASE ReadDue
    <3>1. \E pc : task' = [task EXCEPT !["tick"] = [r EXCEPT !.pc = pc, !.row = rows[r.job]]]
      BY <1>1, <2>5 DEF ReadDue
    <3> QED BY <1>0, <2>5, <3>1 DEF ReadDue, Typed, TaskState
  <2>6. CASE SkipSlot
    BY <1>1, <2>6 DEF SkipSlot
  <2> QED BY <1>2, <2>1, <2>2, <2>3, <2>4, <2>5, <2>6 DEF TickStep
<1>3. CASE TaskStep("tick")
  <2>2. CASE StartLinked("tick")
    BY <1>1, <1>5, <1>6, <2>2 DEF StartLinked
  <2>3. CASE SaveReceipt("tick")
    BY <1>0, <1>1, <2>3 DEF SaveReceipt, Typed, TaskState
  <2>4. CASE ReadAgain("tick") \/ ReadMiss("tick")
    BY <1>0, <1>1, <2>4 DEF ReadAgain, ReadMiss, Typed, TaskState
  <2>5. CASE SavePark("tick") \/ AppendWaiting("tick")
    BY <1>5, <2>5 DEF SavePark, AppendWaiting
  <2>6. CASE ArmWatch("tick") \/ SaveMiss("tick") \/ RunNow("tick")
    BY <1>1, <2>6 DEF ArmWatch, SaveMiss, RunNow
  <2>7. CASE StartTurn("tick")
    BY <1>0, <2>7 DEF StartTurn, Typed, TaskState
  <2>8. CASE TurnSeen("tick")
    BY <1>0, <2>8 DEF TurnSeen, Typed, TaskState
  <2> QED BY <1>3, <2>2, <2>3, <2>4, <2>5, <2>6, <2>7, <2>8 DEF TaskStep
<1>4. CASE task'["tick"] = task["tick"]
  BY <1>4
<1> QED BY <1>0, <1>1, <1>2, <1>3, <1>4, OneTask

LEMMA SlotLookedKept ==
    ASSUME Base, LineInv, TurnsOver, OpenIsKept, SlotLooked, [Next]_vars PROVE SlotLooked'
<1> SUFFICES ASSUME task'["tick"].leg = "schedule", task'["tick"].pc \in {"reading", "starting"},
                    NEW s \in 1..Len(opened'), opened'[s].job = task'["tick"].job,
                    turn'[s] \in Open, Plain(opened[s].job)'
             PROVE  \E r \in Newer(s)' : line'[r] # "none"
  BY DEF SlotLooked
<1> USE DEF Base, LineInv
<1> DEFINE j == task["tick"].job
<1>0. /\ "tick" \in Tasks /\ s \in Sessions /\ task'["tick"].job = j /\ ~Crash
      /\ task["tick"].pc \in {"checking", "reading", "starting"}
  <2>1. "tick" \in Tasks /\ s \in Sessions
    BY StepTyped, SchedulerAssumption DEF Tasks, Sessions, Typed, TypeOK
  <2>2. ~Crash
    BY <2>1 DEF Crash, Idle
  <2> QED BY <2>1, <2>2, LookSteps DEF SkipIfParked
<1>1. s \in 1..Len(opened) /\ opened'[s] = opened[s] /\ turn[s] \in Open
  <2>1. ASSUME NEW t \in Tasks, StartTurn(t), s = Len(opened') PROVE FALSE
    <3>1. task[t].job = j /\ Running(t)
      BY <1>0, <2>1, OpenedGrows, WritersOwn DEF Running
    <3>2. Running("tick")
      BY <1>0 DEF Running
    <3>3. t = "tick"
      BY <1>0, <3>1, <3>2, OneRun
    <3>4. task'["tick"].pc = "open"
      <4>1. task' = [task EXCEPT !["tick"] = [task["tick"] EXCEPT !.pc = "open",
                                                                  !.sess = Len(opened) + 1]]
        BY <2>1, <3>3 DEF StartTurn
      <4> QED BY <1>0, <4>1 DEF Typed, TypeOK, TaskState
    <3> QED BY <3>4
  <2>2. turn[s] \in Open
    BY <1>0, <2>1, TurnSteps
  <2>3. s \in 1..Len(opened)
    BY <1>0, <2>2, OpenedGrows DEF TurnsOver, Open, Sessions
  <2> QED BY <2>2, <2>3, OpenedGrows
<1>2. opened[s].job = j /\ j \in Jobs /\ Plain(j) /\ rows'[j] # None
  BY <1>0, <1>1, OpenedInSessions, PlainSteps DEF Plain
<1>3. \E r \in Newer(s) : line[r] # "none"
  <2>1. CASE SkipIfParked /\ ~Parked(j) /\ rows' = rows
    <3>1. ASSUME NEW t \in Tasks, Watched(t, s) PROVE FALSE
      <4>1. task[t].job = j /\ Running(t) /\ Running("tick")
        BY <1>0, <1>2, <3>1 DEF Watched, ParkOwners, AtSession, Running
      <4>2. t = "tick"
        BY <1>0, <4>1, OneRun
      <4> QED BY <1>0, <3>1, <4>2 DEF Watched
    <3>2. rows[j].parked = None
      BY <1>2, <2>1 DEF Parked, Plain
    <3>3. None # s /\ None \notin Newer(s)
      BY <1>0, <1>1, ScheduleAssumption, OpenedInSessions DEF Newer, Sessions
    <3>4. Overtaken(s)
      BY <1>1, <1>2, <3>1, <3>2, <3>3 DEF OpenIsKept
    <3> QED BY <1>2, <3>2, <3>3, <3>4 DEF Overtaken
  <2>2. CASE task["tick"].leg = "schedule" /\ task["tick"].pc \in {"reading", "starting"}
    BY <1>1, <1>2, <2>2 DEF SlotLooked
  <2> QED BY <2>1, <2>2, LookSteps
<1>4. PICK r \in Newer(s) : line[r] # "none"
  BY <1>3
<1>5. r \in Newer(s)' /\ r \in 1..Len(opened) /\ opened[r].job = j
  BY <1>1, <1>2, <1>4, NewerSteps DEF Newer, SameJob
<1>6. line'[r] # "none"
  BY <1>2, <1>4, <1>5, LineStays
<1> QED BY <1>5, <1>6

CardInv == TurnsOver /\ OpenIsKept /\ SlotLooked

LEMMA CardInvariant == Spec => [](Base /\ LineInv /\ CardInv)
<1>1. Init => CardInv
  <2> SUFFICES ASSUME Init PROVE CardInv
    OBVIOUS
  <2>1. /\ Len(opened) = 0 /\ phase = "ticking" /\ task["tick"] = Idle
        /\ \A s \in Sessions : turn[s] = "none" /\ watch[s] = "off"
    BY DEF Init, Tasks
  <2>2. 1..Len(opened) = {} /\ \A s \in Sessions : s > 0
    BY <2>1, SchedulerAssumption DEF Sessions
  <2> QED BY <2>1, <2>2 DEF CardInv, TurnsOver, OpenIsKept, SlotLooked, Idle
<1>2. Base /\ LineInv /\ CardInv /\ [Next]_vars => CardInv'
  BY TurnsOverKept, OpenIsKeptStays, SlotLookedKept DEF CardInv
<1> QED BY <1>1, <1>2, LineHistory, PTL DEF Spec

\* A slot does not open a session while the last run of its job that parked
\* still waits for a person, whatever Run now, the follow-ons, the watches and
\* the edits do between the look at the row and the session: the claim of the
\* job keeps every other run of it out, and a park leaves the row only once its
\* turn is over (park.py, skip_if_parked, _settle).
THEOREM CardsBlockSlots == Spec => CardBlocksSlot
<1>1. ASSUME Base, CardInv, Opens, NEW t \in Tasks, task[t].pc = "starting",
             task[t].leg = "schedule", NEW s \in 1..Len(opened), opened[s].job = task[t].job,
             turn[s] = "card", task[t].job \notin clobbered, rows[task[t].job] # None
      PROVE  \E r \in Newer(s) : line[r] # "none"
  <2>1. t = "tick"
    BY <1>1 DEF Base, OnlyTick
  <2> QED BY <1>1, <2>1 DEF CardInv, SlotLooked, Open, Plain
<1>2. Base /\ CardInv =>
        [\A t \in Tasks :
            Opens /\ task'[t].pc = "open" /\ task[t].pc = "starting" /\ task[t].leg = "schedule" =>
                \A s \in 1..Len(opened) :
                    opened[s].job = task[t].job /\ turn[s] = "card" =>
                        \/ task[t].job \in clobbered
                        \/ rows[task[t].job] = None
                        \/ \E r \in Newer(s) : line[r] # "none"]_vars
  BY <1>1
<1> QED BY <1>2, CardInvariant, PTL DEF Spec, CardBlocksSlot
=============================================================================
