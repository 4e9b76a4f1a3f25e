--------------------------- MODULE SchedulerProofs ---------------------------
(***************************************************************************)
(* Theorems about Scheduler, for any set of jobs, of Run now tasks and of  *)
(* drain requests, any cadence and delays, and any bounds.                 *)
(***************************************************************************)
EXTENDS Scheduler, TLAPS

\* Types.

LEMMA Instants ==
    /\ 0 \in 0..Retries /\ None \in Instant /\ Nat \subseteq Instant
    /\ \A t \in Nat : t + 1 \in Instant /\ t + Interval \in Instant /\ t + RetryDelay \in Instant
BY ScheduleAssumption DEF Instant

LEMMA AdvanceTyped ==
    ASSUME NEW j \in Jobs, NEW row \in Row, NEW t \in Nat PROVE Advance(j, row, t) \in Row
<1>1. CASE j \in Cadenced
  BY <1>1, Instants DEF Advance, Row
<1>2. CASE j \notin Cadenced
  <2>1. \A b \in BOOLEAN, i \in Instant : [row EXCEPT !.paused = b, !.next = i] \in Row
    BY DEF Row
  <2> QED BY <1>2, <2>1, Instants DEF Advance
<1> QED BY <1>1, <1>2

LEMMA FinishTyped ==
    ASSUME NEW j \in Jobs, NEW row \in Row, NEW t \in Nat
    PROVE  /\ FinishSlot(j, row, t) \in Row
           /\ Advance(j, row, t) \in Row
           /\ [Advance(j, row, t) EXCEPT !.attempt = 0, !.resume = None] \in Row
<1>1. \A r \in Row : [r EXCEPT !.attempt = 0, !.resume = None] \in Row
  BY Instants DEF Row
<1>2. \A r \in Row : [r EXCEPT !.next = row.resume] \in Row
  BY DEF Row
<1> QED BY <1>1, <1>2, AdvanceTyped DEF FinishSlot

LEMMA SettleTyped ==
    ASSUME NEW j \in Jobs, NEW row \in Row, NEW t \in Nat, NEW out
    PROVE  SettleScheduled(j, row, t, out) \in Row
<1>1. CASE WillRetry(row, out)
  <2>1. row.attempt + 1 \in 0..Retries
    BY <1>1, ScheduleAssumption DEF WillRetry, Row
  <2>2. Advance(j, row, t).next \in Instant /\ row.resume \in Instant
    BY AdvanceTyped DEF Row
  <2>3. \A i, k \in Instant, n \in 0..Retries :
          [row EXCEPT !.next = i, !.attempt = n, !.resume = k] \in Row
    BY DEF Row
  <2>4. [row EXCEPT !.next = t + RetryDelay, !.attempt = row.attempt + 1,
                    !.resume = IF row.attempt > 0 THEN row.resume ELSE Advance(j, row, t).next]
          \in Row
    BY <2>1, <2>2, <2>3, Instants
  <2> QED BY <1>1, <2>4 DEF SettleScheduled
<1> QED BY <1>1, FinishTyped DEF SettleScheduled

LEMMA ReceiptTyped ==
    ASSUME NEW row \in Row, NEW s \in Instant
    PROVE  /\ RecordRun(row, s) \in Row
           /\ [row EXCEPT !.parked = s] \in Row
           /\ [row EXCEPT !.then = None] \in Row
BY DEF RecordRun, Row

LEMMA LetGoTyped == ASSUME NEW row \in Row, NEW s PROVE LetGo(row, s) \in Row
<1>1. \A i, k \in Instant : [row EXCEPT !.parked = i, !.waits = k] \in Row
  BY DEF Row
<1>2. (IF row.waits = s THEN None ELSE row.waits) \in Instant
  BY Instants DEF Row
<1> QED BY <1>1, <1>2, Instants DEF LetGo

LEMMA EditTyped ==
    ASSUME NEW j \in Jobs, NEW row \in Row, NEW t \in Nat
    PROVE  Reschedule(j, row, t) \in Row /\ TogglePause(row) \in Row
<1>1. \A i \in Instant : [row EXCEPT !.next = i, !.attempt = 0, !.resume = None] \in Row
  BY Instants DEF Row
<1>2. TogglePause(row) \in Row
  BY DEF TogglePause, Row
<1> QED BY <1>1, <1>2, Instants DEF Reschedule

\* What a run has read by where it is.
AtRest == {"idle", "arming", "firing"}
Underway ==
    {r \in TaskState :
        /\ r.pc \notin AtRest => r.job \in Jobs
        /\ r.pc \in {"skipping", "saving", "missed"} => r.row \in Row
        /\ r.leg = "schedule" /\ r.pc \in {"starting", "open", "ended"} => r.row \in Row
        /\ r.pc \in {"checking", "reading", "skipping"} => r.leg = "schedule"}

Typed == TypeOK /\ task \in [Tasks -> Underway]

\* A run that claims a job, that moves on, and that is over.
LEMMA ClaimTyped ==
    ASSUME Typed, NEW t \in Tasks, NEW j \in Jobs, NEW leg \in {"schedule", "manual", "chained"},
           NEW pc \in {"checking", "starting"}, leg = "schedule" <=> pc = "checking",
           Claim(t, j, leg, pc)
    PROVE  task' \in [Tasks -> Underway] /\ inFlight' \subseteq Jobs
<1> DEFINE r == task[t]
           claimed == [r EXCEPT !.pc = pc, !.leg = leg, !.job = j, !.held = r.held \cup {j}]
<1>1. claimed \in Underway
  BY DEF Typed, Underway, TaskState, AtRest
<1>2. task' = [task EXCEPT ![t] = claimed] /\ inFlight' = inFlight \cup {j}
  BY DEF Claim
<1> HIDE DEF claimed
<1> QED BY <1>1, <1>2 DEF Typed, TypeOK

LEMMA MoveTyped ==
    ASSUME NEW r \in Underway
    PROVE  /\ r.pc \in AtRest => \A pc \in AtRest : [r EXCEPT !.pc = pc] \in Underway
           /\ r.pc \notin AtRest =>
                \A pc \in {"appending", "telling", "missing"} : [r EXCEPT !.pc = pc] \in Underway
           /\ r.pc = "checking" => [r EXCEPT !.pc = "reading"] \in Underway
           /\ r.pc = "reading" =>
                \A row \in Row : [r EXCEPT !.pc = "skipping", !.row = row] \in Underway
           /\ r.pc = "starting" =>
                \A s \in Sessions : [r EXCEPT !.pc = "open", !.sess = s] \in Underway
           /\ r.pc = "open" =>
                \A out \in Outcomes \cup {"waiting"} :
                    [r EXCEPT !.pc = "ended", !.out = out] \in Underway
           /\ r.pc \notin AtRest =>
                \A row \in Row, pc \in {"starting", "saving", "missed"} :
                    [r EXCEPT !.pc = pc, !.row = row] \in Underway
           /\ r.pc \notin AtRest =>
                \A j \in Jobs : [r EXCEPT !.pc = "chaining", !.leg = "chained", !.job = j,
                                          !.row = None] \in Underway
<1> USE DEF Underway, TaskState, AtRest
<1>1. r.pc \in AtRest => \A pc \in AtRest : [r EXCEPT !.pc = pc] \in Underway
  OBVIOUS
<1>2. r.pc \notin AtRest =>
        \A pc \in {"appending", "telling", "missing"} : [r EXCEPT !.pc = pc] \in Underway
  OBVIOUS
<1>7. r.pc = "checking" => [r EXCEPT !.pc = "reading"] \in Underway
  OBVIOUS
<1>8. r.pc = "reading" => \A row \in Row : [r EXCEPT !.pc = "skipping", !.row = row] \in Underway
  OBVIOUS
<1>3. r.pc = "starting" =>
        \A s \in Sessions : [r EXCEPT !.pc = "open", !.sess = s] \in Underway
  OBVIOUS
<1>4. r.pc = "open" =>
        \A out \in Outcomes \cup {"waiting"} : [r EXCEPT !.pc = "ended", !.out = out] \in Underway
  OBVIOUS
<1>5. r.pc \notin AtRest =>
        \A row \in Row, pc \in {"starting", "saving", "missed"} :
            [r EXCEPT !.pc = pc, !.row = row] \in Underway
  OBVIOUS
<1>6. r.pc \notin AtRest =>
        \A j \in Jobs : [r EXCEPT !.pc = "chaining", !.leg = "chained", !.job = j, !.row = None]
                            \in Underway
  OBVIOUS
<1> HIDE DEF Underway, TaskState, AtRest
<1> QED BY <1>1, <1>2, <1>3, <1>4, <1>5, <1>6, <1>7, <1>8

LEMMA IdleTyped == Idle \in Underway /\ [Idle EXCEPT !.pc = "firing"] \in Underway
BY DEF Idle, Underway, TaskState, AtRest

LEMMA BackTyped ==
    ASSUME Typed, NEW t \in Tasks, Back(t)
    PROVE  task' \in [Tasks -> Underway] /\ inFlight' \subseteq Jobs
BY IdleTyped DEF Typed, TypeOK, Back, TickBack, Finish

LEMMA SaveTyped ==
    ASSUME Typed, NEW j \in Jobs, NEW old, NEW new \in Row, Save(j, old, new)
    PROVE  rows' \in [Jobs -> Row \cup {None}] /\ clobbered' \subseteq Jobs
BY DEF Typed, TypeOK, Save

LEMMA DrainTyped == ASSUME DrainTypeOK, DrainNext PROVE DrainTypeOK'
<1> USE DEF DrainTypeOK
<1>1. ASSUME NEW d \in Drains, DrainBegins(d) PROVE DrainTypeOK'
  BY <1>1 DEF DrainBegins, HoldFor
<1>2. ASSUME NEW d \in Drains, DrainEnds(d) PROVE DrainTypeOK'
  <2>1. hold' \in BOOLEAN /\ generation' \in Nat /\ asked' = asked
    BY <1>2 DEF DrainEnds, HoldFor
  <2>2. drains' = [drains EXCEPT ![d].pc = "answered"]
    BY <1>2 DEF DrainEnds
  <2> QED BY <2>1, <2>2
<1>3. CASE Release
  <2>1. hold' = FALSE /\ generation' = generation + 1 /\ asked' = "release" /\ drains' = drains
    BY <1>3, Zenon DEF Release, HoldFor
  <2>2. hold' \in BOOLEAN
    BY <2>1
  <2>3. generation' \in Nat
    BY <2>1
  <2>4. asked' \in Drains \cup {"none", "release"}
    BY <2>1
  <2>5. drains' \in [Drains -> [pc : {"unasked", "waiting", "answered"}, mine : Nat]]
    BY <2>1
  <2> QED BY <2>2, <2>3, <2>4, <2>5
<1>4. CASE HoldEnds
  <2>1. hold' = FALSE /\ UNCHANGED <<generation, drains, asked>>
    BY <1>4, Zenon DEF HoldEnds
  <2> QED BY <2>1
<1> QED BY <1>1, <1>2, <1>3, <1>4 DEF DrainNext

LEMMA InitTyped == Init => Typed
<1> SUFFICES ASSUME Init PROVE Typed
  OBVIOUS
<1>1. rows \in [Jobs -> Row \cup {None}]
  <2> PICK then \in [Jobs -> Jobs \cup {None}] : rows = [j \in Jobs |-> NewRow(0, then[j])]
    BY DEF Init
  <2>1. \A k \in Jobs \cup {None} : NewRow(0, k) \in Row
    BY Instants DEF NewRow, Row
  <2> QED BY <2>1
<1>2. Idle \in TaskState /\ Idle \in Underway
  BY IdleTyped DEF Underway
<1>3. /\ now \in 0..MaxTime /\ tickNow \in 0..MaxTime
      /\ edits \in 0..MaxEdits /\ crashes \in 0..MaxCrashes
  BY SchedulerAssumption DEF Init
<1>4. opened \in Seq([job : Jobs, slot : Instant, boot : 0..MaxCrashes]) /\ Len(opened) <= MaxSessions
  BY SchedulerAssumption DEF Init
<1>5. DrainTypeOK
  <2>1. hold = FALSE /\ generation = 0 /\ asked = "none" /\ drains = [d \in Drains |-> Unasked]
    BY Zenon DEF Init, DrainInit
  <2>2. hold \in BOOLEAN
    BY <2>1
  <2>3. generation \in Nat /\ asked \in Drains \cup {"none", "release"}
    BY <2>1
  <2>4. drains \in [Drains -> [pc : {"unasked", "waiting", "answered"}, mine : Nat]]
    BY <2>1 DEF Unasked
  <2> QED BY <2>2, <2>3, <2>4 DEF DrainTypeOK
<1> QED BY <1>1, <1>2, <1>3, <1>4, <1>5 DEF Init, Typed, TypeOK

\* The tick.
LEMMA TickTyped ==
    ASSUME Typed, \/ TickStarts \/ Arm \/ TickLists \/ TickClaims
                  \/ TickEnds \/ SkipIfParked \/ ReadDue \/ SkipSlot
    PROVE  Typed'
<1> USE DEF store, sessions, ticking, runs, counts, drainVars
<1>0. tickNow \in Nat /\ now \in Nat /\ "tick" \in Tasks
  BY SchedulerAssumption DEF Typed, TypeOK, Tasks
<1>1. CASE TickStarts
  <2>1. task' \in [Tasks -> Underway]
    BY <1>0, <1>1, MoveTyped DEF Typed, TickStarts, Move, AtRest
  <2>2. arming' \subseteq [job : Jobs, row : Row]
    BY <1>1 DEF Typed, TypeOK, TickStarts
  <2> QED BY <1>1, <2>1, <2>2 DEF Typed, TypeOK, TickStarts, DrainTypeOK, Underway
<1>2. CASE Arm
  <2> PICK copy \in arming : /\ Save(copy.job, copy.row, Advance(copy.job, copy.row, tickNow))
                             /\ arming' = arming \ {copy}
    BY <1>2 DEF Arm
  <2>1. rows' \in [Jobs -> Row \cup {None}] /\ clobbered' \subseteq Jobs
    BY <1>0, AdvanceTyped, SaveTyped DEF Typed, TypeOK
  <2> QED BY <1>2, <2>1 DEF Typed, TypeOK, Arm, DrainTypeOK
<1>3. CASE TickLists
  <2>1. task' \in [Tasks -> Underway]
    BY <1>0, <1>3, MoveTyped DEF Typed, TickLists, Move, AtRest
  <2> QED BY <1>3, <2>1 DEF Typed, TypeOK, TickLists, DrainTypeOK, Underway
<1>4. CASE TickClaims
  <2>1. inFlight' \subseteq Jobs /\ due' \subseteq Jobs
    BY <1>4 DEF Typed, TypeOK, TickClaims, Claim
  <2>3. task' \in [Tasks -> Underway]
    BY <1>0, <1>4, ClaimTyped DEF Typed, TypeOK, TickClaims
  <2> QED BY <1>4, <2>1, <2>3 DEF Typed, TypeOK, TickClaims, DrainTypeOK, Underway
<1>5. CASE TickEnds
  <2>1. task' \in [Tasks -> Underway]
    BY <1>0, <1>5, MoveTyped DEF Typed, TickEnds, Move, AtRest
  <2>2. tickNow' \in 0..MaxTime
    BY <1>5, SchedulerAssumption DEF TickEnds
  <2> QED BY <1>5, <2>1, <2>2 DEF Typed, TypeOK, TickEnds, DrainTypeOK, Underway
<1>6. CASE SkipIfParked
  <2> DEFINE j == task["tick"].job
  <2>1. j \in Jobs /\ task["tick"].pc \notin AtRest
    BY <1>0, <1>6 DEF Typed, SkipIfParked, Underway, AtRest
  <2>2. task' \in [Tasks -> Underway] /\ inFlight' \subseteq Jobs
    <3>1. CASE Back("tick")
      BY <1>0, <3>1, BackTyped
    <3>2. CASE Move("tick", "reading") /\ UNCHANGED inFlight
      BY <1>0, <1>6, <3>2, MoveTyped DEF Typed, TypeOK, Move, SkipIfParked
    <3> QED BY <1>6, <3>1, <3>2 DEF SkipIfParked
  <2>3. rows' \in [Jobs -> Row \cup {None}] /\ clobbered' \subseteq Jobs
    <3>1. CASE SlotMissed(j) /\ Transform(j, FinishSlot(j, rows[j], tickNow))
      <4>1. rows[j] \in Row
        BY <2>1, <3>1 DEF SlotMissed, Parked, Typed, TypeOK
      <4> QED BY <1>0, <2>1, <3>1, <4>1, FinishTyped DEF Typed, TypeOK, Transform
    <3> QED BY <1>6, <3>1 DEF SkipIfParked, Typed, TypeOK
  <2> QED BY <1>6, <2>2, <2>3 DEF Typed, TypeOK, SkipIfParked, DrainTypeOK, Underway
<1>7. CASE ReadDue
  <2> DEFINE j == task["tick"].job
  <2>1. j \in Jobs /\ task["tick"].pc \notin AtRest
    BY <1>0, <1>7 DEF Typed, ReadDue, Underway, AtRest
  <2>2. task' \in [Tasks -> Underway] /\ inFlight' \subseteq Jobs
    <3>1. CASE Back("tick")
      BY <1>0, <3>1, BackTyped
    <3>2. CASE rows[j] # None /\ ~Back("tick")
      <4>1. rows[j] \in Row
        BY <2>1, <3>2 DEF Typed, TypeOK
      <4>2. /\ inFlight' = inFlight
            /\ \E pc \in {"skipping", "starting"} :
                 task' = [task EXCEPT !["tick"] = [@ EXCEPT !.pc = pc, !.row = rows[j]]]
        BY <1>7, <3>2 DEF ReadDue
      <4> HIDE DEF j
      <4>3. \A pc \in {"skipping", "starting"} :
              [task["tick"] EXCEPT !.pc = pc, !.row = rows[j]] \in Underway
        BY <1>0, <1>7, <2>1, <4>1, MoveTyped DEF Typed, ReadDue
      <4>4. task' \in [Tasks -> Underway]
        BY <1>0, <4>2, <4>3 DEF Typed
      <4> QED BY <4>2, <4>4 DEF Typed, TypeOK
    <3> QED BY <1>7, <3>1, <3>2 DEF ReadDue
  <2> QED BY <1>7, <2>2 DEF Typed, TypeOK, ReadDue, DrainTypeOK, Underway
<1>8. CASE SkipSlot
  <2> DEFINE j == task["tick"].job
             row == task["tick"].row
             new == RecordRun([Advance(j, row, tickNow) EXCEPT !.attempt = 0, !.resume = None], None)
  <2>1. j \in Jobs /\ row \in Row
    BY <1>0, <1>8 DEF Typed, SkipSlot, Underway, AtRest
  <2>2. new \in Row
    BY <1>0, <2>1, Instants, FinishTyped, ReceiptTyped
  <2>3. Save(j, row, new) /\ Back("tick")
    BY <1>8 DEF SkipSlot
  <2>4. rows' \in [Jobs -> Row \cup {None}] /\ clobbered' \subseteq Jobs
    BY <2>1, <2>2, <2>3, SaveTyped
  <2>5. task' \in [Tasks -> Underway] /\ inFlight' \subseteq Jobs
    BY <1>0, <2>3, BackTyped
  <2> QED BY <1>8, <2>4, <2>5 DEF Typed, TypeOK, SkipSlot, DrainTypeOK, Underway
<1> QED BY <1>1, <1>2, <1>3, <1>4, <1>5, <1>6, <1>7, <1>8

\* The row a run saves when its turn has ended.
LEMMA SavedTyped ==
    ASSUME Typed, NEW t \in Tasks, Saving(t), NEW out
    PROVE  task[t].job \in Jobs /\ task[t].row \in Row /\ Schedule(t, out) \in Row
<1>1. task[t].job \in Jobs /\ task[t].row \in Row /\ tickNow \in Nat
  BY SchedulerAssumption DEF Typed, TypeOK, Saving, Underway, AtRest
<1> QED BY <1>1, SettleTyped DEF Schedule

\* The run of a task, of whichever kind.
LEMMA TaskTyped == ASSUME Typed, NEW t \in Tasks, TaskStep(t) PROVE Typed'
<1> USE DEF store, sessions, ticking, runs, counts, drainVars
<1>0. task[t] \in Underway
  BY DEF Typed
<1>1. CASE RunNow(t)
  <2>1. task' \in [Tasks -> Underway] /\ inFlight' \subseteq Jobs
    BY <1>1, ClaimTyped DEF RunNow
  <2> QED BY <1>1, <2>1 DEF Typed, TypeOK, RunNow, DrainTypeOK, Underway
<1>2. CASE StartTurn(t)
  <2>1. Len(opened) + 1 \in Sessions
    BY <1>2, SchedulerAssumption DEF StartTurn, Typed, TypeOK, Sessions
  <2>2. task' = [task EXCEPT ![t] = [task[t] EXCEPT !.pc = "open", !.sess = Len(opened) + 1]]
    BY <1>2 DEF StartTurn
  <2>3. task' \in [Tasks -> Underway]
    <3>1. [task[t] EXCEPT !.pc = "open", !.sess = Len(opened) + 1] \in Underway
      BY <1>0, <1>2, <2>1, MoveTyped DEF StartTurn
    <3> QED BY <2>2, <3>1 DEF Typed
  <2>4. turn' \in [Sessions -> {"none", "working", "card", "over"}]
    BY <1>2 DEF Typed, TypeOK, StartTurn
  <2>5. SlotOf(t) \in Instant /\ task[t].job \in Jobs
    BY <1>0, <1>2, Instants DEF StartTurn, SlotOf, Underway, AtRest, Row
  <2>6. [job |-> task[t].job, slot |-> SlotOf(t), boot |-> crashes]
            \in [job : Jobs, slot : Instant, boot : 0..MaxCrashes]
    BY <2>5 DEF Typed, TypeOK
  <2>7. /\ opened' \in Seq([job : Jobs, slot : Instant, boot : 0..MaxCrashes])
        /\ Len(opened') <= MaxSessions
    <3> DEFINE O == [job : Jobs, slot : Instant, boot : 0..MaxCrashes]
               o == [job |-> task[t].job, slot |-> SlotOf(t), boot |-> crashes]
    <3>1. opened' = Append(opened, o) /\ opened \in Seq(O) /\ o \in O /\ Len(opened) < MaxSessions
      BY <1>2, <2>6 DEF StartTurn, Typed, TypeOK
    <3> HIDE DEF O, o
    <3>2. opened' \in Seq(O) /\ Len(opened') = Len(opened) + 1
      BY <3>1
    <3> QED BY <3>1, <3>2, SchedulerAssumption DEF O
  <2> QED BY <1>2, <2>3, <2>4, <2>7 DEF Typed, TypeOK, StartTurn, DrainTypeOK, Underway
<1>3. CASE TurnSeen(t)
  <2>1. task' \in [Tasks -> Underway]
    <3>1. PICK out \in Outcomes \cup {"waiting"} :
            task' = [task EXCEPT ![t] = [task[t] EXCEPT !.pc = "ended", !.out = out]]
      BY <1>3 DEF TurnSeen, Outcomes
    <3> QED BY <1>0, <1>3, <3>1, MoveTyped DEF Typed, TurnSeen
  <2>2. turn' \in [Sessions -> {"none", "working", "card", "over"}]
    BY <1>3 DEF Typed, TypeOK, TurnSeen
  <2> QED BY <1>3, <2>1, <2>2 DEF Typed, TypeOK, TurnSeen, DrainTypeOK, Underway
<1>4. CASE ReadAgain(t)
  <2>1. task' \in [Tasks -> Underway] /\ inFlight' \subseteq Jobs
    <3>1. CASE Back(t)
      BY <3>1, BackTyped
    <3>2. CASE ~Back(t)
      <4>1. /\ rows[task[t].job] # None /\ task[t].pc = "ended" /\ inFlight' = inFlight
            /\ task' = [task EXCEPT ![t] = [task[t] EXCEPT !.pc = "saving",
                                                           !.row = rows[task[t].job]]]
        BY <1>4, <3>2 DEF ReadAgain
      <4>2. rows[task[t].job] \in Row
        BY <1>0, <4>1 DEF Typed, TypeOK, Underway, AtRest
      <4>3. [task[t] EXCEPT !.pc = "saving", !.row = rows[task[t].job]] \in Underway
        BY <1>0, <4>1, <4>2, MoveTyped DEF AtRest
      <4> QED BY <4>1, <4>3 DEF Typed, TypeOK
    <3> QED BY <3>1, <3>2
  <2> QED BY <1>4, <2>1 DEF Typed, TypeOK, ReadAgain, DrainTypeOK, Underway
<1>5. CASE SavePark(t)
  <2> DEFINE s == task[t].sess
             new == [RecordRun(Schedule(t, "waiting"), s) EXCEPT !.parked = s]
  <2>1. /\ Saving(t) /\ Save(task[t].job, task[t].row, new)
        /\ task' = [task EXCEPT ![t] = [task[t] EXCEPT !.pc = "appending"]]
    BY <1>5 DEF SavePark, Move
  <2>2. s \in Instant
    BY <1>0, Instants DEF Underway, TaskState, Sessions, Instant
  <2>3. task[t].job \in Jobs /\ new \in Row
    BY <2>1, <2>2, SavedTyped, ReceiptTyped
  <2>4. rows' \in [Jobs -> Row \cup {None}] /\ clobbered' \subseteq Jobs
    BY <2>1, <2>3, SaveTyped
  <2>5. task' \in [Tasks -> Underway]
    BY <1>0, <2>1, MoveTyped DEF Typed, Saving, AtRest
  <2> QED BY <1>5, <2>4, <2>5 DEF Typed, TypeOK, SavePark, DrainTypeOK, Underway
<1>6. CASE AppendWaiting(t)
  <2>1. task' \in [Tasks -> Underway]
    BY <1>0, <1>6, MoveTyped DEF Typed, AppendWaiting, Move, AtRest
  <2>2. line' \in [Sessions -> {"none", "waiting", "settled", "unanswered"}]
    BY <1>6 DEF Typed, TypeOK, AppendWaiting
  <2> QED BY <1>6, <2>1, <2>2 DEF Typed, TypeOK, AppendWaiting, DrainTypeOK, Underway
<1>7. CASE ArmWatch(t)
  <2>1. task' \in [Tasks -> Underway] /\ inFlight' \subseteq Jobs
    BY <1>7, BackTyped DEF ArmWatch
  <2>2. watch' \in [Sessions -> {"off", "follow", "closed", "revive", "revive_closed"}]
    BY <1>7 DEF Typed, TypeOK, ArmWatch
  <2> QED BY <1>7, <2>1, <2>2 DEF Typed, TypeOK, ArmWatch, DrainTypeOK, Underway
<1>8. CASE SaveReceipt(t)
  <2> DEFINE new == RecordRun(Schedule(t, task[t].out), None)
  <2>1. Saving(t) /\ Save(task[t].job, task[t].row, new)
    BY <1>8 DEF SaveReceipt
  <2>2. task[t].job \in Jobs /\ new \in Row
    BY <2>1, SavedTyped, ReceiptTyped, Instants
  <2>3. rows' \in [Jobs -> Row \cup {None}] /\ clobbered' \subseteq Jobs
    BY <2>1, <2>2, SaveTyped
  <2>4. task' \in [Tasks -> Underway] /\ inFlight' \subseteq Jobs
    <3>1. CASE Back(t)
      BY <3>1, BackTyped
    <3>2. CASE ~Back(t)
      <4> HIDE DEF new
      <4>1. /\ new.then # None /\ inFlight' = inFlight
            /\ task' = [task EXCEPT ![t] = [task[t] EXCEPT !.pc = "chaining", !.leg = "chained",
                                                           !.job = new.then, !.row = None]]
        BY <1>8, <3>2 DEF SaveReceipt, new
      <4>2. new.then \in Jobs
        BY <2>2, <4>1 DEF Row
      <4>3. [task[t] EXCEPT !.pc = "chaining", !.leg = "chained", !.job = new.then, !.row = None]
                \in Underway
        BY <1>0, <2>1, <4>2, MoveTyped DEF Saving, AtRest
      <4> QED BY <4>1, <4>3 DEF Typed, TypeOK
    <3> QED BY <3>1, <3>2
  <2> QED BY <1>8, <2>3, <2>4 DEF Typed, TypeOK, SaveReceipt, DrainTypeOK, Underway
<1>9. CASE StartLinked(t)
  <2>1. task[t].job \in Jobs
    BY <1>0, <1>9 DEF StartLinked, Underway, AtRest
  <2>2. task' \in [Tasks -> Underway] /\ inFlight' \subseteq Jobs
    <3>1. CASE Back(t)
      BY <3>1, BackTyped
    <3>2. CASE Move(t, "missing") /\ UNCHANGED inFlight
      BY <1>0, <1>9, <3>2, MoveTyped DEF Typed, TypeOK, StartLinked, Move, AtRest
    <3>3. CASE Claim(t, task[t].job, "chained", "starting")
      BY <2>1, <3>3, ClaimTyped
    <3> QED BY <1>9, <3>1, <3>2, <3>3 DEF StartLinked
  <2> QED BY <1>9, <2>2 DEF Typed, TypeOK, StartLinked, DrainTypeOK, Underway
<1>10. CASE ReadMiss(t)
  <2>1. task' \in [Tasks -> Underway] /\ inFlight' \subseteq Jobs
    <3>1. CASE Back(t)
      BY <3>1, BackTyped
    <3>2. CASE ~Back(t)
      <4>1. /\ rows[task[t].job] # None /\ task[t].pc = "missing" /\ inFlight' = inFlight
            /\ task' = [task EXCEPT ![t] = [task[t] EXCEPT !.pc = "missed",
                                                           !.row = rows[task[t].job]]]
        BY <1>10, <3>2 DEF ReadMiss
      <4>2. rows[task[t].job] \in Row
        BY <1>0, <4>1 DEF Typed, TypeOK, Underway, AtRest
      <4>3. [task[t] EXCEPT !.pc = "missed", !.row = rows[task[t].job]] \in Underway
        BY <1>0, <4>1, <4>2, MoveTyped DEF AtRest
      <4> QED BY <4>1, <4>3 DEF Typed, TypeOK
    <3> QED BY <3>1, <3>2
  <2> QED BY <1>10, <2>1 DEF Typed, TypeOK, ReadMiss, DrainTypeOK, Underway
<1>11. CASE SaveMiss(t)
  <2>1. Save(task[t].job, task[t].row, RecordRun(task[t].row, None)) /\ Back(t)
    BY <1>11 DEF SaveMiss
  <2>2. task[t].job \in Jobs /\ RecordRun(task[t].row, None) \in Row
    BY <1>0, <1>11, ReceiptTyped, Instants DEF SaveMiss, Underway, AtRest
  <2>3. rows' \in [Jobs -> Row \cup {None}] /\ clobbered' \subseteq Jobs
    BY <2>1, <2>2, SaveTyped
  <2>4. task' \in [Tasks -> Underway] /\ inFlight' \subseteq Jobs
    BY <2>1, BackTyped
  <2> QED BY <1>11, <2>3, <2>4 DEF Typed, TypeOK, SaveMiss, DrainTypeOK, Underway
<1> QED BY <1>1, <1>2, <1>3, <1>4, <1>5, <1>6, <1>7, <1>8, <1>9, <1>10, <1>11 DEF TaskStep

LEMMA SessionTyped == ASSUME Typed, NEW s \in Sessions, SessionStep(s) PROVE Typed'
<1> USE DEF store, sessions, ticking, runs, counts, drainVars
<1>1. CASE SessionMoves(s)
  <2>1. turn' \in [Sessions -> {"none", "working", "card", "over"}]
    BY <1>1 DEF Typed, TypeOK, SessionMoves
  <2> QED BY <1>1, <2>1 DEF Typed, TypeOK, SessionMoves, DrainTypeOK
<1>2. CASE CloseLine(s)
  <2>1. /\ line' \in [Sessions -> {"none", "waiting", "settled", "unanswered"}]
        /\ watch' \in [Sessions -> {"off", "follow", "closed", "revive", "revive_closed"}]
    BY <1>2 DEF Typed, TypeOK, CloseLine, Stage
  <2> QED BY <1>2, <2>1 DEF Typed, TypeOK, CloseLine, DrainTypeOK
<1>3. CASE SettleRow(s)
  <2> DEFINE j == opened[s].job
  <2>1. watch' \in [Sessions -> {"off", "follow", "closed", "revive", "revive_closed"}]
    BY <1>3 DEF Typed, TypeOK, SettleRow, Stage
  <2>2. rows' \in [Jobs -> Row \cup {None}] /\ clobbered' \subseteq Jobs
    <3> HIDE DEF j
    <3>1. CASE rows' = [rows EXCEPT ![j] = LetGo(rows[j], s)] /\ Owns(s) /\ UNCHANGED clobbered
      <4>1. j \in Jobs => rows[j] \in Row
        BY <3>1 DEF Owns, Parked, Typed, TypeOK, j
      <4>2. j \in Jobs => LetGo(rows[j], s) \in Row
        BY <4>1, LetGoTyped
      <4> QED BY <3>1, <4>2 DEF Typed, TypeOK
    <3> QED BY <1>3, <3>1 DEF SettleRow, Transform, Typed, TypeOK, j
  <2> QED BY <1>3, <2>1, <2>2 DEF Typed, TypeOK, SettleRow, DrainTypeOK
<1> QED BY <1>1, <1>2, <1>3 DEF SessionStep

LEMMA OtherTyped ==
    ASSUME Typed, \/ Clock \/ EditReads \/ EditSaves \/ (\E j \in Jobs : Delete(j)) \/ Crash
                  \/ ReviveLists \/ DrainStep
    PROVE  Typed'
<1> USE DEF store, sessions, ticking, runs, counts, drainVars
<1>1. CASE Clock
  <2>1. now' \in 0..MaxTime
    BY <1>1, SchedulerAssumption DEF Clock, Typed, TypeOK
  <2> QED BY <1>1, <2>1 DEF Typed, TypeOK, Clock, DrainTypeOK
<1>2. CASE EditReads
  <2>1. edits' \in 0..MaxEdits
    BY <1>2, SchedulerAssumption DEF EditReads, Typed, TypeOK
  <2>2. edit' \in [job : Jobs, row : Row] \cup {NoEdit}
    BY <1>2 DEF EditReads, Typed, TypeOK
  <2> QED BY <1>2, <2>1, <2>2 DEF Typed, TypeOK, EditReads, DrainTypeOK
<1>3. CASE EditSaves
  <2>1. edit \in [job : Jobs, row : Row] /\ now \in Nat
    BY <1>3, SchedulerAssumption DEF EditSaves, Typed, TypeOK
  <2>2. PICK row \in {TogglePause(edit.row), Reschedule(edit.job, edit.row, now)} :
          Save(edit.job, edit.row, row)
    BY <1>3 DEF EditSaves
  <2>3. row \in Row /\ edit.job \in Jobs
    BY <2>1, EditTyped
  <2>4. rows' \in [Jobs -> Row \cup {None}] /\ clobbered' \subseteq Jobs
    BY <2>2, <2>3, SaveTyped
  <2> QED BY <1>3, <2>4 DEF Typed, TypeOK, EditSaves, DrainTypeOK
<1>4. ASSUME NEW j \in Jobs, Delete(j) PROVE Typed'
  <2>1. edits' \in 0..MaxEdits
    BY <1>4, SchedulerAssumption DEF Delete, Typed, TypeOK
  <2>2. rows' \in [Jobs -> Row \cup {None}]
    <3>1. \A i \in Jobs : rows[i] # None => [rows[i] EXCEPT !.then = None] \in Row
      BY ReceiptTyped, Instants DEF Typed, TypeOK
    <3> QED BY <1>4, <3>1 DEF Delete, Typed, TypeOK
  <2>3. line' \in [Sessions -> {"none", "waiting", "settled", "unanswered"}]
    BY <1>4 DEF Delete, Typed, TypeOK
  <2> QED BY <1>4, <2>1, <2>2, <2>3 DEF Typed, TypeOK, Delete, DrainTypeOK
<1>5. CASE Crash
  <2>1. crashes' \in 0..MaxCrashes /\ tickNow' \in 0..MaxTime
    BY <1>5, SchedulerAssumption DEF Crash, Typed, TypeOK
  <2>2. turn' \in [Sessions -> {"none", "working", "card", "over"}]
    BY <1>5 DEF Crash, Typed, TypeOK
  <2>3. task' \in [Tasks -> Underway] /\ task' \in [Tasks -> TaskState]
    BY <1>5, IdleTyped DEF Crash, Underway
  <2>4. DrainTypeOK'
    BY <1>5 DEF Crash, DrainLost, DrainTypeOK, Typed, TypeOK
  <2>5. opened' \in Seq([job : Jobs, slot : Instant, boot : 0..MaxCrashes])
    BY <1>5 DEF Crash, Typed, TypeOK
  <2> QED BY <1>5, <2>1, <2>2, <2>3, <2>4, <2>5 DEF Typed, TypeOK, Crash
<1>6. CASE ReviveLists
  <2>1. watch' \in [Sessions -> {"off", "follow", "closed", "revive", "revive_closed"}]
    BY <1>6 DEF ReviveLists, Typed, TypeOK
  <2> QED BY <1>6, <2>1 DEF Typed, TypeOK, ReviveLists, DrainTypeOK
<1>7. CASE DrainStep
  BY <1>7, DrainTyped DEF Typed, TypeOK, DrainStep
<1> QED BY <1>1, <1>2, <1>3, <1>4, <1>5, <1>6, <1>7

LEMMA StepTyped == ASSUME Typed, [Next]_vars PROVE Typed'
<1>1. CASE UNCHANGED vars
  BY <1>1 DEF vars, store, sessions, ticking, runs, counts, drainVars, Typed, TypeOK, DrainTypeOK
<1> QED BY <1>1, TickTyped, TaskTyped, SessionTyped, OtherTyped DEF Next

LEMMA TypedAlways == Spec => []Typed
<1> QED BY InitTyped, StepTyped, PTL DEF Spec

\* Every row on disk, every copy of one that a task goes on with, and every
\* claim, park and watch is of its kind, whatever was read before an await and
\* saved after it.
THEOREM SchedulerTypes == Spec => []TypeOK
<1>1. Typed => TypeOK
  BY DEF Typed
<1> QED BY <1>1, TypedAlways, PTL

----------------------------------------------------------------------------
\* The drain hold.

\* A drain that still waits has a generation that was given out; after a
\* release an earlier one.
HoldInv ==
    /\ \A d \in Drains : drains[d].pc = "waiting" => drains[d].mine <= generation
    /\ asked = "release" =>
         hold = FALSE /\ \A d \in Drains : drains[d].pc = "waiting" => Superseded(d)

LEMMA HoldKept == ASSUME Typed, HoldInv, [Next]_vars PROVE HoldInv'
<1> USE DEF Typed, TypeOK, DrainTypeOK
<1>1. CASE UNCHANGED drainVars
  BY <1>1 DEF drainVars, HoldInv, Superseded
<1>2. CASE Crash
  <2>1. asked' = "none" /\ \A d \in Drains : drains'[d].pc # "waiting"
    BY <1>2 DEF Crash, DrainLost
  <2> QED BY <2>1 DEF HoldInv
<1>3. ASSUME NEW d \in Drains, DrainBegins(d) PROVE HoldInv'
  <2>1. /\ drains' = [drains EXCEPT ![d] = [pc |-> "waiting", mine |-> generation + 1]]
        /\ generation' = generation + 1 /\ asked' = d
    BY <1>3 DEF DrainBegins, HoldFor
  <2>2. asked' # "release"
    BY <2>1, DrainAssumption
  <2>3. \A e \in Drains : drains'[e].pc = "waiting" => drains'[e].mine <= generation'
    BY <2>1 DEF HoldInv
  <2> QED BY <2>2, <2>3 DEF HoldInv
<1>4. ASSUME NEW d \in Drains, DrainEnds(d) PROVE HoldInv'
  <2>1. /\ drains[d].pc = "waiting" /\ drains' = [drains EXCEPT ![d].pc = "answered"]
        /\ asked' = asked
    BY <1>4 DEF DrainEnds
  <2>2. \A e \in Drains :
          drains'[e].mine = drains[e].mine /\ (drains'[e].pc = "waiting" => drains[e].pc = "waiting")
    BY <2>1
  <2>3. CASE Superseded(d)
    <3>1. generation' = generation /\ (hold' <=> hold)
      BY <1>4, <2>3 DEF DrainEnds
    <3>2. asked = "release" => hold' = FALSE
      BY <1>4, <2>3 DEF DrainEnds, HoldInv
    <3> QED BY <2>1, <2>2, <3>1, <3>2 DEF HoldInv, Superseded
  <2>4. CASE ~Superseded(d)
    <3>1. asked # "release"
      BY <2>1, <2>4 DEF HoldInv
    <3>2. generation' = generation + 1
      BY <1>4, <2>4 DEF DrainEnds, HoldFor
    <3> QED BY <2>1, <2>2, <3>1, <3>2 DEF HoldInv
  <2> QED BY <2>3, <2>4
<1>5. CASE Release
  <2>1. hold' = FALSE /\ generation' = generation + 1 /\ drains' = drains
    BY <1>5, Zenon DEF Release, HoldFor
  <2> QED BY <2>1 DEF HoldInv, Superseded
<1>6. CASE HoldEnds
  <2>1. hold' = FALSE /\ generation' = generation /\ drains' = drains /\ asked' = asked
    BY <1>6, Zenon DEF HoldEnds
  <2> QED BY <2>1 DEF HoldInv, Superseded
<1>7. CASE DrainStep
  BY <1>3, <1>4, <1>5, <1>6, <1>7 DEF DrainStep, DrainNext
<1>8. CASE ~DrainStep /\ ~Crash
  <2>1. UNCHANGED drainVars
    <3>1. ASSUME NEW t \in Tasks, TaskStep(t) PROVE UNCHANGED drainVars
      BY <3>1 DEF TaskStep, RunNow, StartTurn, TurnSeen, ReadAgain, SavePark, AppendWaiting,
                  ArmWatch, SaveReceipt, StartLinked, ReadMiss, SaveMiss
    <3>2. ASSUME NEW s \in Sessions, SessionStep(s) PROVE UNCHANGED drainVars
      BY <3>2 DEF SessionStep, SessionMoves, CloseLine, SettleRow
    <3> QED BY <1>8, <3>1, <3>2 DEF Next, vars, Clock, TickStarts, Arm, TickLists, TickClaims,
            TickEnds, SkipIfParked, ReadDue, SkipSlot, EditReads, EditSaves, Delete, ReviveLists
  <2> QED BY <1>1, <2>1
<1> QED BY <1>2, <1>7, <1>8

\* After a release nothing is held until somebody asks for a drain again,
\* however many drains overlap and in whatever order their waits end
\* (Daemon._drain_turns compares generations after its wait).
THEOREM ReleaseHolds == Spec => []ReleaseSticks
<1>1. Init => HoldInv
  BY DEF Init, DrainInit, Unasked, HoldInv
<1>2. Typed /\ HoldInv /\ [Next]_vars => HoldInv'
  BY HoldKept
<1>3. HoldInv => ReleaseSticks
  BY DEF HoldInv, ReleaseSticks
<1> QED BY <1>1, <1>2, <1>3, TypedAlways, PTL DEF Spec
----------------------------------------------------------------------------
\* Runs that overlap.

\* A run holds the claim of its job, and no other run does.
Claims ==
    /\ \A t \in Tasks : Running(t) => task[t].job \in task[t].held
    /\ \A t \in Tasks : task[t].held \subseteq inFlight
    /\ \A t, u \in Tasks : t # u => task[t].held \cap task[u].held = {}

\* A step that claims nothing and gives nothing back.
Still ==
    /\ inFlight' = inFlight
    /\ \A t \in Tasks : /\ task'[t].held = task[t].held
                        /\ Running(t)' => Running(t) /\ task'[t].job = task[t].job
                        /\ task'[t].leg \in {task[t].leg, "chained"}

LEMMA MoveIsStill ==
    ASSUME Typed, NEW t \in Tasks, NEW pc, Move(t, pc), UNCHANGED inFlight,
           Running(t) \/ pc \in {"idle", "arming", "firing", "missing"}
    PROVE  Still
BY DEF Typed, Underway, TaskState, Move, Still, Running

LEMMA TickShapes ==
    ASSUME Typed, \/ TickStarts \/ Arm \/ TickLists \/ TickClaims
                  \/ TickEnds \/ SkipIfParked \/ ReadDue \/ SkipSlot
    PROVE  \/ Still \/ Back("tick")
           \/ \E j \in Jobs \ inFlight : Claim("tick", j, "schedule", "checking")
<1> USE DEF runs, AtRest
<1>0. "tick" \in Tasks
  BY DEF Tasks
<1>1. CASE TickStarts \/ TickLists \/ TickEnds
  BY <1>0, <1>1, MoveIsStill DEF TickStarts, TickLists, TickEnds
<1>2. CASE Arm
  BY <1>2 DEF Arm, Still, Running
<1>3. CASE TickClaims
  <2>1. CASE UNCHANGED runs
    BY <2>1 DEF Still, Running
  <2> QED BY <1>3, <2>1 DEF TickClaims, Typed, TypeOK
<1>4. CASE SkipIfParked
  BY <1>0, <1>4, MoveIsStill DEF SkipIfParked, Running
<1>5. CASE ReadDue
  <2>1. CASE ~Back("tick")
    <3>1. /\ task["tick"].pc = "reading" /\ inFlight' = inFlight
          /\ \E pc : task' = [task EXCEPT !["tick"] = [@ EXCEPT !.pc = pc,
                                                               !.row = rows[task["tick"].job]]]
      BY <1>5, <2>1 DEF ReadDue
    <3> QED BY <1>0, <3>1 DEF Typed, Underway, TaskState, Still, Running
  <2> QED BY <2>1
<1>6. CASE SkipSlot
  BY <1>6 DEF SkipSlot
<1> QED BY <1>1, <1>2, <1>3, <1>4, <1>5, <1>6

LEMMA TaskShapes ==
    ASSUME Typed, NEW t \in Tasks, TaskStep(t)
    PROVE  \/ Still \/ Back(t)
           \/ \E j \in Jobs \ inFlight, leg \in {"manual", "chained"} : Claim(t, j, leg, "starting")
<1> USE DEF runs, Running, Saving
<1>0. task[t] \in Underway
  BY DEF Typed
<1>1. CASE RunNow(t)
  BY <1>1 DEF RunNow
<1>2. CASE StartTurn(t)
  <2>1. /\ task[t].pc = "starting" /\ inFlight' = inFlight
        /\ \E s : task' = [task EXCEPT ![t] = [task[t] EXCEPT !.pc = "open", !.sess = s]]
    BY <1>2 DEF StartTurn
  <2> QED BY <1>0, <2>1 DEF Typed, Underway, TaskState, Still
<1>8. CASE TurnSeen(t)
  <2>1. /\ task[t].pc = "open" /\ inFlight' = inFlight
        /\ \E out : task' = [task EXCEPT ![t] = [task[t] EXCEPT !.pc = "ended", !.out = out]]
    BY <1>8 DEF TurnSeen
  <2> QED BY <1>0, <2>1 DEF Typed, Underway, TaskState, Still
<1>3. CASE ReadAgain(t) \/ ReadMiss(t)
  <2>1. CASE ~Back(t)
    <3>1. /\ inFlight' = inFlight
          /\ \E pc, row : /\ task' = [task EXCEPT ![t] = [task[t] EXCEPT !.pc = pc, !.row = row]]
                          /\ Running(t) \/ pc = "missed"
      BY <1>3, <2>1 DEF ReadAgain, ReadMiss
    <3> QED BY <1>0, <3>1 DEF Typed, Underway, TaskState, Still
  <2> QED BY <2>1
<1>4. CASE SavePark(t) \/ AppendWaiting(t)
  BY <1>4, MoveIsStill DEF SavePark, AppendWaiting
<1>5. CASE ArmWatch(t) \/ SaveMiss(t)
  BY <1>5 DEF ArmWatch, SaveMiss
<1>6. CASE SaveReceipt(t)
  <2>1. CASE ~Back(t)
    <3>1. /\ inFlight' = inFlight
          /\ \E j : task' = [task EXCEPT ![t] = [task[t] EXCEPT !.pc = "chaining",
                                                   !.leg = "chained", !.job = j, !.row = None]]
      BY <1>6, <2>1 DEF SaveReceipt
    <3> QED BY <1>0, <3>1 DEF Typed, Underway, TaskState, Still
  <2> QED BY <2>1
<1>7. CASE StartLinked(t)
  <2>1. task[t].job \in Jobs
    BY <1>0, <1>7 DEF StartLinked, Underway, AtRest
  <2>2. CASE Move(t, "missing") /\ UNCHANGED inFlight
    BY <2>2, MoveIsStill
  <2>3. CASE ~Missed(task[t].job) /\ Claim(t, task[t].job, "chained", "starting")
    BY <2>1, <2>3 DEF Missed
  <2> QED BY <1>7, <2>2, <2>3 DEF StartLinked
<1> QED BY <1>1, <1>2, <1>3, <1>4, <1>5, <1>6, <1>7, <1>8 DEF TaskStep

\* What any step does to the claims.
LEMMA Shapes ==
    ASSUME Typed, [Next]_vars
    PROVE  \/ Still \/ Crash \/ (\E t \in Tasks : Back(t))
           \/ \E t \in Tasks, j \in Jobs \ inFlight : \E leg, pc :
                Claim(t, j, leg, pc) /\ (leg = "schedule" => t = "tick")
<1>1. CASE UNCHANGED runs
  BY <1>1 DEF runs, Still, Running
<1>2. ASSUME NEW s \in Sessions, SessionStep(s) PROVE UNCHANGED runs
  BY <1>2 DEF SessionStep, SessionMoves, CloseLine, SettleRow
<1>3. ASSUME \/ Clock \/ EditReads \/ EditSaves \/ (\E j \in Jobs : Delete(j))
             \/ ReviveLists \/ DrainStep \/ UNCHANGED vars
      PROVE  UNCHANGED runs
  BY <1>3 DEF Clock, EditReads, EditSaves, Delete, ReviveLists, DrainStep, vars
<1>4. "tick" \in Tasks
  BY DEF Tasks
<1> QED BY <1>1, <1>2, <1>3, <1>4, TickShapes, TaskShapes DEF Next

LEMMA ClaimsKept == ASSUME Typed, Claims, [Next]_vars PROVE Claims'
<1>1. CASE Still
  BY <1>1 DEF Still, Claims
<1>2. CASE Crash
  <2>1. \A t \in Tasks : task'[t] = Idle
    BY <1>2 DEF Crash
  <2> QED BY <2>1 DEF Claims, Running, Idle
<1>3. ASSUME NEW t \in Tasks, Back(t) PROVE Claims'
  <2>1. /\ inFlight' = inFlight \ task[t].held
        /\ \A u \in Tasks \ {t} : task'[u] = task[u]
        /\ task'[t].held = {} /\ ~Running(t)'
    BY <1>3 DEF Back, TickBack, Finish, Idle, Running, Typed
  <2> QED BY <2>1 DEF Claims, Running
<1>4. ASSUME NEW t \in Tasks, NEW j \in Jobs \ inFlight, NEW leg, NEW pc, Claim(t, j, leg, pc)
      PROVE  Claims'
  <2>1. /\ inFlight' = inFlight \cup {j}
        /\ \A u \in Tasks \ {t} : task'[u] = task[u]
        /\ task'[t].held = task[t].held \cup {j} /\ task'[t].job = j
    BY <1>4 DEF Claim, Typed, Underway, TaskState
  <2> QED BY <2>1 DEF Claims, Running
<1> QED BY <1>1, <1>2, <1>3, <1>4, Shapes

\* Two runs of one job never overlap, however many tasks of Run now there are
\* and however long their chains: the tick, Run now and a follow-on all claim
\* a job before they run it and keep the claims of their parents (InFlight).
THEOREM NoTwoRuns == Spec => []OneRunAtATime
<1>1. Init => Claims
  BY DEF Init, Claims, Idle, Running
<1>2. Typed /\ Claims /\ [Next]_vars => Claims'
  BY ClaimsKept
<1>3. Claims => OneRunAtATime
  BY DEF Claims, OneRunAtATime
<1> QED BY <1>1, <1>2, <1>3, TypedAlways, PTL DEF Spec

----------------------------------------------------------------------------
\* What a step does to a row.

\* Slots are fired by the tick alone.
OnlyTick == \A t \in Tasks \ {"tick"} : task[t].leg # "schedule"

LEMMA OnlyTickKept == ASSUME Typed, OnlyTick, [Next]_vars PROVE OnlyTick'
<1>1. CASE Still
  BY <1>1 DEF Still, OnlyTick
<1>2. CASE Crash
  BY <1>2 DEF Crash, OnlyTick, Idle
<1>3. ASSUME NEW t \in Tasks, Back(t) PROVE OnlyTick'
  <2>1. task'[t].leg = "none" /\ \A u \in Tasks \ {t} : task'[u] = task[u]
    BY <1>3 DEF Back, TickBack, Finish, Idle, Typed
  <2> QED BY <2>1 DEF OnlyTick
<1>4. ASSUME NEW t \in Tasks, NEW j, NEW leg, NEW pc, Claim(t, j, leg, pc),
             leg = "schedule" => t = "tick"
      PROVE  OnlyTick'
  <2>1. task'[t].leg = leg /\ \A u \in Tasks \ {t} : task'[u] = task[u]
    BY <1>4 DEF Claim, Typed, Underway, TaskState
  <2> QED BY <1>4, <2>1 DEF OnlyTick
<1> QED BY <1>1, <1>2, <1>3, <1>4, Shapes

SlotMoves(j) ==
    \/ edit.job = j
    \/ \E copy \in arming : copy.job = j
    \/ task["tick"].job = j /\ task["tick"].leg = "schedule"

\* What the row that is saved has of the one it was computed from: its
\* schedule, the park it keeps and the park it says it waits for.
RowMoves(j, old) ==
    /\ old \in Row /\ rows'[j] \in Row
    /\ SlotMoves(j) \/ ScheduleOf(rows'[j]) = ScheduleOf(old)
    /\ \/ rows'[j].parked = old.parked /\ rows'[j].waits \in {None, old.waits}
       \/ \E t \in Tasks : /\ task[t].job = j /\ task'[t].pc = "appending"
                           /\ task[t].pc \in {"ended", "saving"} /\ task'[t].sess = task[t].sess
                           /\ rows'[j].parked = task[t].sess /\ rows'[j].waits = task[t].sess
       \/ /\ rows'[j].parked = None
          /\ \E s \in Sessions : SettleRow(s) /\ opened[s].job = j /\ old.parked = s
          /\ old.parked # None /\ rows'[j].waits \in {None, old.waits}
          /\ old.waits = old.parked => rows'[j].waits = None

\* Where a task has the row it goes on with.
HasRow(r) ==
    \/ r.pc \in {"skipping", "saving", "missed"}
    \/ r.leg = "schedule" /\ r.pc \in {"starting", "open", "ended"}

\* The copies of a row that somebody may save.
Copies(j) ==
    {rows[j]} \cup {task[t].row : t \in {t \in Tasks : HasRow(task[t]) /\ task[t].job = j}}
              \cup {copy.row : copy \in {copy \in arming : copy.job = j}}
              \cup {row \in {edit.row} : edit # NoEdit /\ edit.job = j}

\* A row is saved from a copy, and counts as clobbered unless the copy is true.
Saved(j) ==
    \E old \in Copies(j) : RowMoves(j, old) /\ (j \notin clobbered' => rows[j] = old)

LEMMA Unlinked ==
    ASSUME NEW row \in Row
    PROVE  /\ ScheduleOf([row EXCEPT !.then = None]) = ScheduleOf(row)
           /\ [row EXCEPT !.then = None].parked = row.parked
           /\ [row EXCEPT !.then = None].waits = row.waits
BY DEF Row, ScheduleOf

\* The arithmetic of the schedule touches neither the park nor the receipt.
LEMMA SlotKeepsPark ==
    ASSUME NEW j \in Jobs, NEW row \in Row, NEW t \in Nat
    PROVE  /\ FinishSlot(j, row, t).parked = row.parked /\ FinishSlot(j, row, t).waits = row.waits
           /\ Advance(j, row, t).parked = row.parked /\ Advance(j, row, t).waits = row.waits
           /\ \A out : /\ SettleScheduled(j, row, t, out).parked = row.parked
                       /\ SettleScheduled(j, row, t, out).waits = row.waits
           /\ Reschedule(j, row, t).parked = row.parked /\ Reschedule(j, row, t).waits = row.waits
           /\ TogglePause(row).parked = row.parked /\ TogglePause(row).waits = row.waits
<1>1. ASSUME NEW r \in Row
      PROVE  Advance(j, r, t).parked = r.parked /\ Advance(j, r, t).waits = r.waits
  BY <1>1 DEF Advance, Row
<1>2. [row EXCEPT !.attempt = 0, !.resume = None] \in Row
  BY Instants DEF Row
<1>3. FinishSlot(j, row, t).parked = row.parked /\ FinishSlot(j, row, t).waits = row.waits
  <2>1. [row EXCEPT !.attempt = 0, !.resume = None].parked = row.parked
    BY DEF Row
  <2>2. [row EXCEPT !.attempt = 0, !.resume = None].waits = row.waits
    BY DEF Row
  <2> QED BY <1>1, <1>2, <2>1, <2>2 DEF FinishSlot, Row
<1>4. ASSUME NEW out
      PROVE  /\ SettleScheduled(j, row, t, out).parked = row.parked
             /\ SettleScheduled(j, row, t, out).waits = row.waits
  BY <1>3 DEF SettleScheduled, Row
<1>5. /\ Reschedule(j, row, t).parked = row.parked /\ Reschedule(j, row, t).waits = row.waits
      /\ TogglePause(row).parked = row.parked /\ TogglePause(row).waits = row.waits
  BY DEF Reschedule, TogglePause, Row
<1> QED BY <1>1, <1>3, <1>4, <1>5

LEMMA ReceiptKeeps ==
    ASSUME NEW row \in Row, NEW s \in Instant
    PROVE  /\ ScheduleOf(RecordRun(row, s)) = ScheduleOf(row)
           /\ RecordRun(row, s).parked = row.parked /\ RecordRun(row, s).waits = s
           /\ ScheduleOf([RecordRun(row, s) EXCEPT !.parked = s]) = ScheduleOf(row)
           /\ [RecordRun(row, s) EXCEPT !.parked = s].parked = s
           /\ [RecordRun(row, s) EXCEPT !.parked = s].waits = s
           /\ ScheduleOf(LetGo(row, s)) = ScheduleOf(row) /\ LetGo(row, s).parked = None
           /\ LetGo(row, s).waits = IF row.waits = s THEN None ELSE row.waits
BY DEF RecordRun, LetGo, ScheduleOf, Row

LEMMA SavesRow ==
    ASSUME Typed, NEW i \in Jobs, NEW old \in Row, NEW new \in Row, Save(i, old, new),
           NEW j \in Jobs, rows'[j] # rows[j]
    PROVE  i = j /\ rows'[j] = new /\ (j \notin clobbered' => rows[j] = old)
BY DEF Typed, TypeOK, Save

LEMMA ClobberedGrows == ASSUME Typed, [Next]_vars PROVE clobbered \subseteq clobbered'
<1>1. ASSUME NEW j, NEW old, NEW new, Save(j, old, new) \/ Transform(j, new)
      PROVE  clobbered \subseteq clobbered'
  BY <1>1 DEF Save, Transform
<1>2. ASSUME NEW t \in Tasks, TaskStep(t) PROVE clobbered \subseteq clobbered'
  BY <1>1, <1>2 DEF TaskStep, RunNow, StartTurn, TurnSeen, ReadAgain, SavePark, AppendWaiting,
     ArmWatch, SaveReceipt, StartLinked, ReadMiss, SaveMiss, store
<1>3. ASSUME NEW s \in Sessions, SessionStep(s) PROVE clobbered \subseteq clobbered'
  BY <1>1, <1>3 DEF SessionStep, SessionMoves, CloseLine, SettleRow, store
<1> QED BY <1>1, <1>2, <1>3 DEF Next, vars, store, Clock, TickStarts, Arm, TickLists, TickClaims,
       TickEnds, SkipIfParked, ReadDue, SkipSlot, EditReads, EditSaves, Delete, Crash, ReviveLists,
       DrainStep

LEMMA RowSteps ==
    ASSUME Typed, OnlyTick, [Next]_vars, NEW j \in Jobs, rows'[j] # None,
           rows'[j] # rows[j]
    PROVE  Saved(j)
<1>0. /\ Typed' /\ rows'[j] \in Row /\ tickNow \in Nat /\ now \in Nat
      /\ "tick" \in Tasks /\ task["tick"] \in Underway
  BY StepTyped, SchedulerAssumption DEF Typed, TypeOK, Tasks
<1> USE DEF SlotMoves, AtRest
<1>1. CASE Arm
  <2> PICK copy \in arming : Save(copy.job, copy.row, Advance(copy.job, copy.row, tickNow))
    BY <1>1 DEF Arm
  <2>1. copy.job \in Jobs /\ copy.row \in Row
    BY DEF Typed, TypeOK
  <2>2. Advance(copy.job, copy.row, tickNow) \in Row
    BY <1>0, <2>1, AdvanceTyped
  <2>3. /\ copy.job = j /\ rows'[j] = Advance(j, copy.row, tickNow)
        /\ j \notin clobbered' => rows[j] = copy.row
    BY <2>1, <2>2, SavesRow
  <2>4. Advance(j, copy.row, tickNow).parked = copy.row.parked
    BY <1>0, <2>1, SlotKeepsPark
  <2>5. Advance(j, copy.row, tickNow).waits = copy.row.waits
    BY <1>0, <2>1, SlotKeepsPark
  <2> QED BY <1>0, <2>1, <2>3, <2>4, <2>5 DEF RowMoves, Saved, Copies, HasRow
<1>2. CASE SkipIfParked
  <2> DEFINE i == task["tick"].job
  <2>1. i \in Jobs /\ task["tick"].leg = "schedule"
    BY <1>0, <1>2 DEF SkipIfParked, Underway
  <2>2. i = j /\ rows[j] \in Row /\ rows'[j] = FinishSlot(j, rows[j], tickNow)
    BY <1>2, <2>1 DEF SkipIfParked, Transform, Typed, TypeOK, SlotMissed, Parked
  <2>3. rows'[j].parked = rows[j].parked /\ rows'[j].waits = rows[j].waits
    BY <1>0, <2>2, SlotKeepsPark
  <2> QED BY <1>0, <2>1, <2>2, <2>3 DEF RowMoves, Saved, Copies, HasRow
<1>3. CASE SkipSlot
  <2> DEFINE i == task["tick"].job
             row == task["tick"].row
             moved == [Advance(i, row, tickNow) EXCEPT !.attempt = 0, !.resume = None]
  <2>1. i \in Jobs /\ row \in Row /\ task["tick"].leg = "schedule"
    BY <1>0, <1>3 DEF SkipSlot, Underway
  <2>2. moved \in Row /\ Advance(i, row, tickNow) \in Row
    BY <1>0, <2>1, FinishTyped
  <2>3. moved.parked = row.parked
    <3>1. \A r \in Row : [r EXCEPT !.attempt = 0, !.resume = None].parked = r.parked
      BY DEF Row
    <3>2. Advance(i, row, tickNow).parked = row.parked
      BY <1>0, <2>1, SlotKeepsPark
    <3> QED BY <2>2, <3>1, <3>2
  <2> HIDE DEF moved
  <2>4. /\ RecordRun(moved, None) \in Row
        /\ RecordRun(moved, None).parked = moved.parked /\ RecordRun(moved, None).waits = None
    BY <2>2, Instants, ReceiptTyped, ReceiptKeeps
  <2>5. Save(i, row, RecordRun(moved, None))
    BY <1>3 DEF SkipSlot, moved
  <2>6. i = j /\ rows'[j] = RecordRun(moved, None) /\ (j \notin clobbered' => rows[j] = row)
    BY <2>1, <2>4, <2>5, SavesRow
  <2>8. RowMoves(j, row)
    BY <1>0, <2>1, <2>3, <2>4, <2>6 DEF RowMoves
  <2>9. row \in Copies(j)
    BY <1>0, <1>3, <2>6 DEF SkipSlot, Copies, HasRow
  <2> QED BY <2>6, <2>8, <2>9 DEF Saved
<1>4. ASSUME NEW t \in Tasks, SavePark(t) PROVE Saved(j)
  <2> DEFINE row == task[t].row
             s == task[t].sess
             set == Schedule(t, "waiting")
             new == [RecordRun(set, s) EXCEPT !.parked = s]
  <2>1. task[t].job \in Jobs /\ row \in Row /\ set \in Row /\ Saving(t)
    BY <1>4, SavedTyped DEF SavePark
  <2>2. s \in Instant
    BY Instants DEF Typed, Underway, TaskState, Sessions, Instant
  <2>3. /\ new \in Row /\ ScheduleOf(new) = ScheduleOf(set)
        /\ new.parked = s /\ new.waits = s
    BY <2>1, <2>2, ReceiptTyped, ReceiptKeeps
  <2>4. Save(task[t].job, row, new)
    BY <1>4 DEF SavePark
  <2>5. task[t].job = j /\ rows'[j] = new /\ (j \notin clobbered' => rows[j] = row)
    BY <2>1, <2>3, <2>4, SavesRow
  <2>6. SlotMoves(j) \/ ScheduleOf(rows'[j]) = ScheduleOf(row)
    <3>1. CASE task[t].leg = "schedule"
      <4>1. t = "tick"
        BY <3>1 DEF OnlyTick
      <4> QED BY <2>5, <3>1, <4>1
    <3>2. CASE task[t].leg # "schedule"
      BY <2>3, <2>5, <3>2 DEF Schedule
    <3> QED BY <3>1, <3>2
  <2>7. /\ task[t].pc \in {"ended", "saving"} /\ task'[t].pc = "appending"
        /\ task'[t].sess = task[t].sess
    BY <1>4, <2>1 DEF SavePark, Saving, Move, Typed, Underway, TaskState
  <2> HIDE DEF new
  <2>8. RowMoves(j, row)
    BY <1>0, <2>1, <2>3, <2>5, <2>6, <2>7 DEF RowMoves
  <2>9. row \in Copies(j)
    BY <2>1, <2>5 DEF Saving, Copies, HasRow
  <2> QED BY <2>5, <2>8, <2>9 DEF Saved
<1>5. ASSUME NEW t \in Tasks, SaveReceipt(t) PROVE Saved(j)
  <2> DEFINE row == task[t].row
             set == Schedule(t, task[t].out)
             new == RecordRun(set, None)
  <2>1. task[t].job \in Jobs /\ row \in Row /\ set \in Row /\ Saving(t)
    BY <1>5, SavedTyped DEF SaveReceipt
  <2>2. /\ new \in Row /\ ScheduleOf(new) = ScheduleOf(set)
        /\ new.parked = set.parked /\ new.waits = None
    BY <2>1, Instants, ReceiptTyped, ReceiptKeeps
  <2>3. Save(task[t].job, row, new)
    BY <1>5 DEF SaveReceipt
  <2>4. task[t].job = j /\ rows'[j] = new /\ (j \notin clobbered' => rows[j] = row)
    BY <2>1, <2>2, <2>3, SavesRow
  <2>5. SlotMoves(j) \/ ScheduleOf(rows'[j]) = ScheduleOf(row)
    <3>1. CASE task[t].leg = "schedule"
      <4>1. t = "tick"
        BY <3>1 DEF OnlyTick
      <4> QED BY <2>4, <3>1, <4>1
    <3>2. CASE task[t].leg # "schedule"
      BY <2>2, <2>4, <3>2 DEF Schedule
    <3> QED BY <3>1, <3>2
  <2>6. set.parked = row.parked
    BY <1>0, <2>1, SlotKeepsPark DEF Schedule
  <2> HIDE DEF new
  <2>8. RowMoves(j, row)
    BY <1>0, <2>1, <2>2, <2>4, <2>5, <2>6 DEF RowMoves
  <2>9. row \in Copies(j)
    BY <2>1, <2>4 DEF Saving, Copies, HasRow
  <2> QED BY <2>4, <2>8, <2>9 DEF Saved
<1>6. ASSUME NEW t \in Tasks, SaveMiss(t) PROVE Saved(j)
  <2> DEFINE row == task[t].row
             new == RecordRun(row, None)
  <2>1. task[t].job \in Jobs /\ row \in Row /\ Save(task[t].job, row, new)
    BY <1>6 DEF SaveMiss, Typed, Underway
  <2>2. /\ new \in Row /\ ScheduleOf(new) = ScheduleOf(row)
        /\ new.parked = row.parked /\ new.waits = None
    BY <2>1, Instants, ReceiptTyped, ReceiptKeeps
  <2>3. task[t].job = j /\ rows'[j] = new /\ (j \notin clobbered' => rows[j] = row)
    BY <2>1, <2>2, SavesRow
  <2> HIDE DEF new
  <2>8. RowMoves(j, row)
    BY <1>0, <2>1, <2>2, <2>3 DEF RowMoves
  <2>9. row \in Copies(j)
    BY <1>6, <2>3 DEF SaveMiss, Copies, HasRow
  <2> QED BY <2>3, <2>8, <2>9 DEF Saved
<1>7. ASSUME NEW s \in Sessions, SettleRow(s) PROVE Saved(j)
  <2>1. /\ rows[j] \in Row /\ rows[j].parked = s /\ s # None
        /\ rows'[j] = LetGo(rows[j], s) /\ opened[s].job = j
    <3>1. /\ Owns(s) /\ rows' = [rows EXCEPT ![opened[s].job] = LetGo(rows[opened[s].job], s)]
      BY <1>7 DEF SettleRow, Transform
    <3>2. opened[s].job = j /\ rows'[j] = LetGo(rows[j], s)
      BY <3>1 DEF Typed, TypeOK
    <3> QED BY <3>1, <3>2 DEF Owns, Parked, Typed, TypeOK
  <2>4. SettleRow(s) /\ opened[s].job = j /\ rows[j].parked = s
    BY <1>7, <2>1
  <2>2. s \in Instant
    BY Instants DEF Sessions, Instant
  <2>3. /\ ScheduleOf(rows'[j]) = ScheduleOf(rows[j]) /\ rows'[j].parked = None
        /\ rows'[j].waits = IF rows[j].waits = s THEN None ELSE rows[j].waits
    <3> DEFINE row == rows[j]
    <3>1. row \in Row /\ rows'[j] = LetGo(row, s)
      BY <2>1
    <3> HIDE DEF row
    <3>2. /\ ScheduleOf(LetGo(row, s)) = ScheduleOf(row) /\ LetGo(row, s).parked = None
          /\ LetGo(row, s).waits = IF row.waits = s THEN None ELSE row.waits
      BY <2>2, <3>1, ReceiptKeeps, Zenon
    <3> QED BY <3>1, <3>2 DEF row
  <2>5. RowMoves(j, rows[j])
    <3> HIDE DEF SlotMoves
    <3> QED BY <1>0, <2>1, <2>3, <2>4 DEF RowMoves
  <2>6. rows[j] \in Copies(j)
    BY DEF Copies
  <2> QED BY <2>5, <2>6 DEF Saved
<1>8. CASE EditSaves
  <2>1. edit.job \in Jobs /\ edit.row \in Row
    BY <1>8 DEF EditSaves, Typed, TypeOK
  <2>2. PICK row \in {TogglePause(edit.row), Reschedule(edit.job, edit.row, now)} :
          Save(edit.job, edit.row, row)
    BY <1>8 DEF EditSaves
  <2>3. row \in Row /\ row.parked = edit.row.parked /\ row.waits = edit.row.waits
    <3>1. CASE row = TogglePause(edit.row)
      BY <1>0, <2>1, <3>1, EditTyped, SlotKeepsPark
    <3>2. CASE row = Reschedule(edit.job, edit.row, now)
      BY <1>0, <2>1, <3>2, EditTyped, SlotKeepsPark
    <3> QED BY <2>2, <3>1, <3>2
  <2>4. edit.job = j /\ rows'[j] = row /\ (j \notin clobbered' => rows[j] = edit.row)
    BY <2>1, <2>2, <2>3, SavesRow
  <2>8. RowMoves(j, edit.row)
    BY <1>0, <2>1, <2>3, <2>4 DEF RowMoves
  <2>9. edit.row \in Copies(j)
    BY <1>8, <2>4 DEF EditSaves, Copies
  <2> QED BY <2>4, <2>8, <2>9 DEF Saved
<1>9. ASSUME NEW i \in Jobs, Delete(i) PROVE Saved(j)
  <2>1. rows[j] # None /\ rows'[j] = [rows[j] EXCEPT !.then = None]
    BY <1>9 DEF Delete
  <2>2. rows[j] \in Row
    BY <2>1 DEF Typed, TypeOK
  <2>3. /\ ScheduleOf(rows'[j]) = ScheduleOf(rows[j])
        /\ rows'[j].parked = rows[j].parked /\ rows'[j].waits = rows[j].waits
    BY <2>1, <2>2, Unlinked
  <2> QED BY <1>0, <2>2, <2>3 DEF RowMoves, Saved, Copies, HasRow
<1>10. ASSUME NEW t \in Tasks, TaskStep(t) PROVE SavePark(t) \/ SaveReceipt(t) \/ SaveMiss(t)
  BY <1>10 DEF TaskStep, RunNow, StartTurn, TurnSeen, ReadAgain, AppendWaiting, ArmWatch,
               StartLinked, ReadMiss, store
<1>11. ASSUME NEW s \in Sessions, SessionStep(s) PROVE SettleRow(s)
  BY <1>11 DEF SessionStep, SessionMoves, CloseLine, store
<1>12. CASE \/ Clock \/ TickStarts \/ TickLists \/ TickClaims \/ TickEnds \/ ReadDue \/ EditReads
            \/ Crash \/ ReviveLists \/ DrainStep \/ UNCHANGED vars
  BY <1>12 DEF Clock, TickStarts, TickLists, TickClaims, TickEnds, ReadDue, EditReads, Crash,
               ReviveLists, DrainStep, vars, store
<1> QED BY <1>1, <1>2, <1>3, <1>4, <1>5, <1>6, <1>7, <1>8, <1>9, <1>10, <1>11, <1>12 DEF Next

\* The last park of a row is the one it says it waits for.
LEMMA WaitsKept == ASSUME Typed, OnlyTick, WaitsForItsPark, [Next]_vars PROVE WaitsForItsPark'
<1> SUFFICES ASSUME NEW j \in Jobs, rows'[j] # None, j \notin clobbered'
             PROVE  rows'[j].waits \in {None, rows'[j].parked}
  BY DEF WaitsForItsPark
<1>1. j \notin clobbered
  BY ClobberedGrows
<1>2. CASE rows'[j] = rows[j]
  BY <1>1, <1>2 DEF WaitsForItsPark
<1>3. CASE rows'[j] # rows[j]
  <2>1. RowMoves(j, rows[j]) /\ rows[j] # None
    BY <1>3, RowSteps, RowAssumption DEF RowMoves, Saved
  <2>2. rows[j].waits \in {None, rows[j].parked}
    BY <1>1, <2>1 DEF WaitsForItsPark
  <2> QED BY <2>1, <2>2 DEF RowMoves
<1> QED BY <1>2, <1>3

LEMMA RowInvariant == Spec => [](Typed /\ OnlyTick /\ WaitsForItsPark)
<1>1. Init => OnlyTick /\ WaitsForItsPark
  <2>1. Init => OnlyTick
    BY DEF Init, OnlyTick, Idle
  <2>2. Init => WaitsForItsPark
    BY DEF Init, WaitsForItsPark, NewRow
  <2> QED BY <2>1, <2>2
<1>2. Typed /\ OnlyTick /\ WaitsForItsPark /\ [Next]_vars => OnlyTick' /\ WaitsForItsPark'
  BY OnlyTickKept, WaitsKept
<1> QED BY <1>1, <1>2, TypedAlways, PTL DEF Spec

\* A job says it waits for a person only while it keeps the park of that very
\* run: the receipt of a run that was settled, or overtaken, does not stay
\* behind (park.py, _settle).
THEOREM WaitsAreParked == Spec => []WaitsForItsPark
<1> QED BY RowInvariant, PTL

\* Run now, a follow-on, a miss and the settling of a park leave the schedule
\* of a job alone, whatever the job and its cadence (runner.py, run_manual_job).
THEOREM SchedulesStay == Spec => ScheduleKept
<1>1. Typed /\ OnlyTick /\ [Next]_vars =>
        [\A j \in Jobs :
            /\ rows[j] # None /\ rows'[j] # None /\ ScheduleOf(rows'[j]) # ScheduleOf(rows[j])
            /\ j \notin clobbered'
            => \/ edit.job = j
               \/ \E copy \in arming : copy.job = j
               \/ task["tick"].job = j /\ task["tick"].leg = "schedule"]_vars
  <2> SUFFICES ASSUME Typed, OnlyTick, [Next]_vars, NEW j \in Jobs, rows'[j] # None,
                      ScheduleOf(rows'[j]) # ScheduleOf(rows[j]), j \notin clobbered'
               PROVE  SlotMoves(j)
    BY DEF SlotMoves
  <2>1. rows'[j] # rows[j]
    OBVIOUS
  <2> QED BY <2>1, RowSteps DEF RowMoves, Saved
<1> QED BY <1>1, RowInvariant, PTL DEF Spec, ScheduleKept

----------------------------------------------------------------------------
\* What a step does to a run.

AtSession == {"open", "ended", "saving", "appending", "telling"}
Writing == AtSession \ {"telling"}

TickStep ==
    \/ TickStarts \/ Arm \/ TickLists \/ TickClaims
    \/ TickEnds \/ SkipIfParked \/ ReadDue \/ SkipSlot

\* r is a run and n what became of it; t is its task.
RunMoves(t, r, n) ==
    /\ HasRow(n) => \/ HasRow(r) /\ n.row = r.row /\ n.job = r.job
                    \/ n.row = rows[n.job] /\ rows[n.job] # None
    /\ n.pc \in AtSession => \/ r.pc \in AtSession /\ n.job = r.job /\ n.sess = r.sess
                             \/ StartTurn(t) /\ n.pc = "open"
    /\ n.pc \in Writing => r.pc \in Writing \/ StartTurn(t)
    /\ r.pc = "appending" => n.pc \in {"appending", "telling"} /\ n.sess = r.sess
    /\ r.pc = "telling" => (n.pc = "telling" /\ n.sess = r.sess) \/ ArmWatch(t)
    /\ phase = "reviving" /\ r.pc = "idle" => n.pc = "idle"

LEMMA OthersRest ==
    ASSUME Typed, NEW u \in Tasks, TaskStep(u) \/ (TickStep /\ u = "tick"), NEW t \in Tasks \ {u}
    PROVE  task'[t] = task[t]
<1>1. ASSUME Back(u) PROVE task'[t] = task[t]
  BY <1>1 DEF Typed, Back, TickBack, Finish
<1>2. ASSUME NEW j, NEW leg, NEW pc, Claim(u, j, leg, pc) PROVE task'[t] = task[t]
  BY <1>2 DEF Typed, Claim
<1>3. ASSUME NEW pc, Move(u, pc) PROVE task'[t] = task[t]
  BY <1>3 DEF Typed, Move
<1>4. CASE TickStep /\ u = "tick"
  BY <1>1, <1>2, <1>3, <1>4 DEF TickStep, TickStarts, Arm, TickLists, TickClaims, TickEnds,
     SkipIfParked, ReadDue, SkipSlot, runs, Typed
<1>5. CASE TaskStep(u)
  BY <1>1, <1>2, <1>3, <1>5 DEF TaskStep, RunNow, StartTurn, TurnSeen, ReadAgain, SavePark,
     AppendWaiting, ArmWatch, SaveReceipt, StartLinked, ReadMiss, SaveMiss, Typed
<1> QED BY <1>4, <1>5

LEMMA OneTask ==
    ASSUME Typed, [Next]_vars, NEW t \in Tasks
    PROVE  task'[t] = task[t] \/ Crash \/ (TickStep /\ t = "tick") \/ TaskStep(t)
<1>1. "tick" \in Tasks
  BY DEF Tasks
<1>2. ASSUME NEW s \in Sessions, SessionStep(s) PROVE UNCHANGED task
  BY <1>2 DEF SessionStep, SessionMoves, CloseLine, SettleRow, runs
<1>3. ASSUME \/ Clock \/ EditReads \/ EditSaves \/ (\E j \in Jobs : Delete(j))
             \/ ReviveLists \/ DrainStep \/ UNCHANGED vars
      PROVE  UNCHANGED task
  BY <1>3 DEF Clock, EditReads, EditSaves, Delete, ReviveLists, DrainStep, vars, runs
<1> QED BY <1>1, <1>2, <1>3, OthersRest DEF Next, TickStep

LEMMA BackMoves ==
    ASSUME Typed, NEW t \in Tasks, Back(t),
           task[t].pc \notin {"idle", "appending"}, task[t].pc = "telling" => ArmWatch(t)
    PROVE  RunMoves(t, task[t], task'[t])
<1>1. task'[t].pc \in {"idle", "firing"}
  BY DEF Typed, Back, TickBack, Finish, Idle
<1> QED BY <1>1 DEF RunMoves, HasRow, AtSession, Writing

LEMMA RunSteps ==
    ASSUME Typed, [Next]_vars, ~Crash, NEW t \in Tasks PROVE RunMoves(t, task[t], task'[t])
<1> DEFINE r == task[t]
           n == task'[t]
<1> USE DEF HasRow, AtSession, Writing
<1>0. r \in TaskState
  BY DEF Typed, TypeOK
<1>1. CASE n = r
  BY <1>1 DEF RunMoves
<1>2. ASSUME NEW pc, Move(t, pc) PROVE n = [r EXCEPT !.pc = pc]
  BY <1>2 DEF Move, Typed
<1>3. CASE TickStep /\ t = "tick"
  <2>1. CASE TickStarts \/ TickLists \/ TickEnds
    <3>1. /\ r.pc \in {"idle", "arming", "firing"} /\ (r.pc = "idle" => phase # "reviving")
          /\ \E pc \in {"idle", "arming", "firing"} : n = [r EXCEPT !.pc = pc]
      BY <1>2, <1>3, <2>1 DEF TickStarts, TickLists, TickEnds
    <3> QED BY <1>0, <3>1 DEF RunMoves, TaskState
  <2>2. CASE Arm
    BY <1>1, <1>3, <2>2 DEF Arm, runs
  <2>3. CASE TickClaims
    <3>1. CASE \E j : Claim("tick", j, "schedule", "checking")
      <4>1. r.pc = "firing" /\ n.pc = "checking"
        BY <1>0, <1>3, <2>3, <3>1 DEF TickClaims, Claim, Typed, TaskState
      <4> QED BY <4>1 DEF RunMoves
    <3> QED BY <1>1, <1>3, <2>3, <3>1 DEF TickClaims, runs
  <2>4. CASE SkipIfParked
    <3>1. CASE Back(t)
      BY <1>3, <2>4, <3>1, BackMoves DEF SkipIfParked
    <3>2. CASE Move(t, "reading")
      <4>1. r.pc = "checking" /\ n = [r EXCEPT !.pc = "reading"]
        BY <1>2, <1>3, <2>4, <3>2 DEF SkipIfParked
      <4> QED BY <1>0, <4>1 DEF RunMoves, TaskState
    <3> QED BY <1>3, <2>4, <3>1, <3>2 DEF SkipIfParked
  <2>5. CASE ReadDue
    <3>1. CASE Back(t)
      BY <1>3, <2>5, <3>1, BackMoves DEF ReadDue
    <3>2. CASE ~Back(t)
      <4>1. /\ rows[r.job] # None /\ r.pc = "reading"
            /\ \E pc \in {"skipping", "starting"} :
                 n = [r EXCEPT !.pc = pc, !.row = rows[r.job]]
        BY <1>3, <2>5, <3>2 DEF ReadDue, Typed
      <4> QED BY <1>0, <4>1 DEF RunMoves, TaskState
    <3> QED BY <3>1, <3>2
  <2>6. CASE SkipSlot
    BY <1>3, <2>6, BackMoves DEF SkipSlot
  <2> QED BY <1>3, <2>1, <2>2, <2>3, <2>4, <2>5, <2>6 DEF TickStep
<1>4. CASE TaskStep(t)
  <2>1. CASE RunNow(t)
    <3>1. r.pc = "idle" /\ n.pc = "starting" /\ n.leg = "manual" /\ phase # "reviving"
      BY <1>0, <2>1 DEF RunNow, Claim, Typed, TaskState
    <3> QED BY <3>1 DEF RunMoves
  <2>2. CASE StartTurn(t)
    <3>1. r.pc = "starting" /\ \E s : n = [r EXCEPT !.pc = "open", !.sess = s]
      BY <2>2 DEF StartTurn, Typed
    <3> QED BY <1>0, <2>2, <3>1 DEF RunMoves, TaskState
  <2>3. CASE TurnSeen(t)
    <3>1. r.pc = "open" /\ \E out : n = [r EXCEPT !.pc = "ended", !.out = out]
      BY <2>3 DEF TurnSeen, Typed
    <3> QED BY <1>0, <3>1 DEF RunMoves, TaskState
  <2>4. CASE ReadAgain(t) \/ ReadMiss(t)
    <3>1. CASE Back(t)
      BY <2>4, <3>1, BackMoves DEF ReadAgain, ReadMiss
    <3>2. CASE ~Back(t)
      <4>1. /\ rows[r.job] # None
            /\ \/ r.pc = "ended" /\ n = [r EXCEPT !.pc = "saving", !.row = rows[r.job]]
               \/ r.pc = "missing" /\ n = [r EXCEPT !.pc = "missed", !.row = rows[r.job]]
        BY <2>4, <3>2 DEF ReadAgain, ReadMiss, Typed
      <4> QED BY <1>0, <4>1 DEF RunMoves, TaskState
    <3> QED BY <3>1, <3>2
  <2>5. CASE SavePark(t)
    <3>1. r.pc \in {"ended", "saving"} /\ n = [r EXCEPT !.pc = "appending"]
      BY <1>2, <2>5 DEF SavePark, Saving
    <3> QED BY <1>0, <3>1 DEF RunMoves, TaskState
  <2>6. CASE AppendWaiting(t)
    <3>1. r.pc = "appending" /\ n = [r EXCEPT !.pc = "telling"]
      BY <1>2, <2>6 DEF AppendWaiting
    <3> QED BY <1>0, <3>1 DEF RunMoves, TaskState
  <2>7. CASE ArmWatch(t) \/ SaveMiss(t)
    BY <2>7, BackMoves DEF ArmWatch, SaveMiss
  <2>8. CASE SaveReceipt(t)
    <3>1. CASE Back(t)
      BY <2>8, <3>1, BackMoves DEF SaveReceipt, Saving
    <3>2. CASE ~Back(t)
      <4>1. r.pc \in {"ended", "saving"} /\ n.pc = "chaining"
        BY <1>0, <2>8, <3>2 DEF SaveReceipt, Saving, Typed, TaskState
      <4> QED BY <4>1 DEF RunMoves
    <3> QED BY <3>1, <3>2
  <2>9. CASE StartLinked(t)
    <3>1. CASE Back(t)
      BY <2>9, <3>1, BackMoves DEF StartLinked
    <3>2. CASE Move(t, "missing")
      <4>1. r.pc = "chaining" /\ n = [r EXCEPT !.pc = "missing"]
        BY <1>2, <2>9, <3>2 DEF StartLinked
      <4> QED BY <1>0, <4>1 DEF RunMoves, TaskState
    <3>3. CASE Claim(t, r.job, "chained", "starting")
      <4>1. r.pc = "chaining" /\ n.pc = "starting" /\ n.leg = "chained"
        BY <1>0, <2>9, <3>3 DEF StartLinked, Claim, Typed, TaskState
      <4> QED BY <4>1 DEF RunMoves
    <3> QED BY <2>9, <3>1, <3>2, <3>3 DEF StartLinked
  <2> QED BY <1>4, <2>1, <2>2, <2>3, <2>4, <2>5, <2>6, <2>7, <2>8, <2>9 DEF TaskStep
<1> QED BY <1>1, <1>3, <1>4, OneTask

LEMMA OpenedGrows ==
    ASSUME Typed, [Next]_vars
    PROVE  /\ Len(opened) \in Nat /\ Len(opened') \in Nat /\ Len(opened) <= Len(opened')
           /\ \A s \in 1..Len(opened) : opened'[s] = opened[s]
           /\ \A t \in Tasks : StartTurn(t) =>
                /\ Len(opened') = Len(opened) + 1 /\ Len(opened') \in Sessions
                /\ opened'[Len(opened')].job = task[t].job
                /\ task'[t].sess = Len(opened') /\ task'[t].job = task[t].job
           /\ opened' = opened \/ \E t \in Tasks : StartTurn(t)
<1> DEFINE O == [job : Jobs, slot : Instant, boot : 0..MaxCrashes]
<1>1. opened \in Seq(O) /\ Len(opened) \in Nat
  BY DEF Typed, TypeOK
<1>2. ASSUME NEW t \in Tasks, StartTurn(t)
      PROVE  /\ Len(opened') = Len(opened) + 1 /\ Len(opened') \in Sessions
             /\ opened'[Len(opened')].job = task[t].job
             /\ \A s \in 1..Len(opened) : opened'[s] = opened[s]
             /\ task'[t].sess = Len(opened') /\ task'[t].job = task[t].job
  <2> DEFINE o == [job |-> task[t].job, slot |-> SlotOf(t), boot |-> crashes]
  <2>1. opened' = Append(opened, o) /\ Len(opened) < MaxSessions /\ o.job = task[t].job
    BY <1>2 DEF StartTurn
  <2>2. opened' \in Seq(O) /\ Len(opened) \in Nat
    BY <1>2, StepTyped DEF Typed, TypeOK
  <2> HIDE DEF o
  <2>3. /\ Len(opened') = Len(opened) + 1 /\ opened'[Len(opened) + 1] = o
        /\ \A s \in 1..Len(opened) : opened'[s] = opened[s]
    BY <1>1, <2>1
  <2>4. Len(opened') \in Sessions
    BY <2>1, <2>2, <2>3, SchedulerAssumption DEF Sessions
  <2>5. task' = [task EXCEPT ![t] = [task[t] EXCEPT !.pc = "open", !.sess = Len(opened) + 1]]
    BY <1>2 DEF StartTurn
  <2>6. task'[t].sess = Len(opened) + 1 /\ task'[t].job = task[t].job
    BY <2>5 DEF Typed, TypeOK, TaskState
  <2> QED BY <2>1, <2>3, <2>4, <2>6
<1>3. opened' = opened \/ \E t \in Tasks : StartTurn(t)
  <2>1. ASSUME NEW t \in Tasks, TaskStep(t), ~StartTurn(t) PROVE opened' = opened
    BY <2>1 DEF TaskStep, RunNow, TurnSeen, ReadAgain, SavePark, AppendWaiting, ArmWatch,
       SaveReceipt, StartLinked, ReadMiss, SaveMiss, sessions
  <2>2. ASSUME NEW s \in Sessions, SessionStep(s) PROVE opened' = opened
    BY <2>2 DEF SessionStep, SessionMoves, CloseLine, SettleRow, sessions
  <2> QED BY <2>1, <2>2 DEF Next, vars, sessions, Clock, TickStarts, Arm, TickLists, TickClaims,
        TickEnds, SkipIfParked, ReadDue, SkipSlot, EditReads, EditSaves, Delete, Crash,
        ReviveLists, DrainStep
<1> QED BY <1>1, <1>2, <1>3

----------------------------------------------------------------------------
\* Parks.

\* A park a row keeps is a session that was opened for its job.
Owned(j, row) ==
    row.parked # None => row.parked \in 1..Len(opened) /\ opened[row.parked].job = j

\* So is the park of every copy, and what a run opened.
ParkOwners ==
    /\ \A j \in Jobs : rows[j] # None => Owned(j, rows[j])
    /\ \A t \in Tasks : HasRow(task[t]) => Owned(task[t].job, task[t].row)
    /\ \A copy \in arming : Owned(copy.job, copy.row)
    /\ edit # NoEdit => Owned(edit.job, edit.row)
    /\ \A t \in Tasks : task[t].pc \in AtSession =>
         task[t].sess \in 1..Len(opened) /\ opened[task[t].sess].job = task[t].job

LEMMA CopiesOwned ==
    ASSUME ParkOwners, NEW j \in Jobs, NEW row \in Copies(j), row # None PROVE Owned(j, row)
BY DEF ParkOwners, Copies

LEMMA OwnersKept == ASSUME Typed, OnlyTick, ParkOwners, [Next]_vars PROVE ParkOwners'
<1>1. ASSUME NEW j, NEW row, Owned(j, row)
      PROVE  row.parked # None => row.parked \in 1..Len(opened') /\ opened'[row.parked].job = j
  BY <1>1, OpenedGrows DEF Owned
<1>2. ASSUME NEW j \in Jobs, rows'[j] # None PROVE Owned(j, rows[j])'
  <2>1. CASE rows'[j] = rows[j]
    BY <1>1, <1>2, <2>1 DEF ParkOwners, Owned
  <2>2. CASE rows'[j] # rows[j]
    <3>1. PICK old \in Copies(j) : RowMoves(j, old)
      BY <1>2, <2>2, RowSteps DEF Saved
    <3>2. old # None /\ Owned(j, old)
      BY <3>1, CopiesOwned, RowAssumption DEF RowMoves
    <3>3. CASE rows'[j].parked = old.parked \/ rows'[j].parked = None
      BY <1>1, <3>2, <3>3 DEF Owned
    <3>4. CASE \E t \in Tasks : /\ task[t].job = j /\ task[t].pc \in {"ended", "saving"}
                                /\ rows'[j].parked = task[t].sess
      BY <3>4, OpenedGrows DEF ParkOwners, AtSession, Owned
    <3> QED BY <3>1, <3>3, <3>4 DEF RowMoves
  <2> QED BY <2>1, <2>2
<1>3. ASSUME NEW t \in Tasks, HasRow(task'[t]) PROVE Owned(task[t].job, task[t].row)'
  <2>1. ~Crash
    BY <1>3 DEF Crash, HasRow, Idle
  <2>2. CASE HasRow(task[t]) /\ task'[t].row = task[t].row /\ task'[t].job = task[t].job
    <3>1. Owned(task[t].job, task[t].row)
      BY <2>2 DEF ParkOwners
    <3>2. task[t].row.parked # None =>
            task[t].row.parked \in 1..Len(opened') /\ opened'[task[t].row.parked].job = task[t].job
      BY <1>1, <3>1
    <3> QED BY <2>2, <3>2 DEF Owned
  <2>3. CASE task'[t].row = rows[task'[t].job] /\ rows[task'[t].job] # None
    <3>1. task'[t].job \in Jobs
      BY <1>3, StepTyped DEF Typed, Underway, HasRow, AtRest
    <3>2. Owned(task'[t].job, task'[t].row)
      BY <2>3, <3>1 DEF ParkOwners
    <3> QED BY <1>1, <3>2 DEF Owned
  <2> QED BY <1>3, <2>1, <2>2, <2>3, RunSteps DEF RunMoves
<1>4. ASSUME NEW copy \in arming' PROVE Owned(copy.job, copy.row)'
  <2>1. copy \in arming \/ (copy.job \in Jobs /\ copy.row = rows[copy.job] /\ copy.row # None)
    <3>1. CASE TickStarts
      BY <1>4, <3>1 DEF TickStarts
    <3>2. CASE ~TickStarts
      <4>1. arming' \subseteq arming
        <5>1. ASSUME NEW t \in Tasks, TaskStep(t) PROVE arming' \subseteq arming
          BY <5>1 DEF TaskStep, RunNow, StartTurn, TurnSeen, ReadAgain, SavePark, AppendWaiting,
             ArmWatch, SaveReceipt, StartLinked, ReadMiss, SaveMiss, ticking
        <5>2. ASSUME NEW s \in Sessions, SessionStep(s) PROVE arming' \subseteq arming
          BY <5>2 DEF SessionStep, SessionMoves, CloseLine, SettleRow, ticking
        <5> QED BY <3>2, <5>1, <5>2 DEF Next, vars, ticking, Clock, Arm, TickLists, TickClaims,
              TickEnds, SkipIfParked, ReadDue, SkipSlot, EditReads, EditSaves, Delete, Crash,
              ReviveLists, DrainStep
      <4> QED BY <1>4, <4>1
    <3> QED BY <3>1, <3>2
  <2>2. Owned(copy.job, copy.row)
    BY <2>1 DEF ParkOwners
  <2> QED BY <1>1, <2>2 DEF Owned
<1>5. ASSUME edit' # NoEdit PROVE Owned(edit.job, edit.row)'
  <2>1. \/ edit' = edit
        \/ edit'.job \in Jobs /\ edit'.row = rows[edit'.job] /\ edit'.row # None
    <3>1. CASE EditReads
      BY <3>1 DEF EditReads
    <3>2. CASE ~EditReads
      <4>1. ASSUME NEW t \in Tasks, TaskStep(t) PROVE edit' = edit
        BY <4>1 DEF TaskStep, RunNow, StartTurn, TurnSeen, ReadAgain, SavePark, AppendWaiting,
           ArmWatch, SaveReceipt, StartLinked, ReadMiss, SaveMiss
      <4>2. ASSUME NEW s \in Sessions, SessionStep(s) PROVE edit' = edit
        BY <4>2 DEF SessionStep, SessionMoves, CloseLine, SettleRow
      <4> QED BY <1>5, <3>2, <4>1, <4>2 DEF Next, vars, Clock, TickStarts, Arm, TickLists,
            TickClaims, TickEnds, SkipIfParked, ReadDue, SkipSlot, EditSaves, Delete, Crash,
            ReviveLists, DrainStep
    <3> QED BY <3>1, <3>2
  <2>2. Owned(edit'.job, edit'.row)
    BY <1>5, <2>1 DEF ParkOwners
  <2> QED BY <1>1, <2>2 DEF Owned
<1>6. ASSUME NEW t \in Tasks, task'[t].pc \in AtSession
      PROVE  task'[t].sess \in 1..Len(opened') /\ opened'[task'[t].sess].job = task'[t].job
  <2>1. ~Crash
    BY <1>6 DEF Crash, AtSession, Idle
  <2>2. CASE StartTurn(t)
    BY <2>2, OpenedGrows
  <2>3. CASE /\ task[t].pc \in AtSession /\ task'[t].job = task[t].job
             /\ task'[t].sess = task[t].sess
    BY <2>3, OpenedGrows DEF ParkOwners
  <2> QED BY <1>6, <2>1, <2>2, <2>3, RunSteps DEF RunMoves
<1> QED BY <1>2, <1>3, <1>4, <1>5, <1>6 DEF ParkOwners

LEMMA WatchSteps ==
    ASSUME Typed, [Next]_vars, ~Crash, NEW s \in Sessions
    PROVE  /\ watch[s] # "off" => watch'[s] # "off" \/ SettleRow(s)
           /\ phase = "reviving" =>
                phase' = "reviving" \/ (s \in LeftParked => watch'[s] = "revive")
<1>1. CASE UNCHANGED <<watch, phase>>
  BY <1>1
<1>2. CASE ReviveLists
  BY <1>2 DEF ReviveLists, Typed, TypeOK
<1>3. ASSUME NEW t \in Tasks, TaskStep(t)
      PROVE  UNCHANGED <<watch, phase>> \/ (ArmWatch(t) /\ phase' = phase)
  BY <1>3 DEF TaskStep, RunNow, StartTurn, TurnSeen, ReadAgain, SavePark, AppendWaiting, ArmWatch,
     SaveReceipt, StartLinked, ReadMiss, SaveMiss, ticking
<1>4. ASSUME NEW t \in Tasks, ArmWatch(t) PROVE watch[s] # "off" => watch'[s] # "off"
  BY <1>4 DEF ArmWatch, Typed, TypeOK
<1>5. ASSUME NEW r \in Sessions, SessionStep(r)
      PROVE  phase' = phase /\ (watch[s] # "off" => watch'[s] # "off" \/ SettleRow(s))
  BY <1>5 DEF SessionStep, SessionMoves, CloseLine, SettleRow, Stage, ticking, Typed, TypeOK
<1>6. ASSUME ~ReviveLists, ~\E t \in Tasks : TaskStep(t), ~\E r \in Sessions : SessionStep(r)
      PROVE  UNCHANGED <<watch, phase>>
  BY <1>6 DEF Next, vars, ticking, Clock, TickStarts, Arm, TickLists, TickClaims, TickEnds,
     SkipIfParked, ReadDue, SkipSlot, EditReads, EditSaves, Delete, DrainStep
<1> QED BY <1>1, <1>2, <1>3, <1>4, <1>5, <1>6

LEMMA FollowedKept ==
    ASSUME Typed, OnlyTick, ParkOwners, ParkIsFollowed, [Next]_vars PROVE ParkIsFollowed'
<1> SUFFICES ASSUME NEW j \in Jobs, NEW s, s = rows'[j].parked, Parked(j)', j \notin clobbered'
             PROVE  Followed(s)'
  BY DEF ParkIsFollowed, Followed
<1>1. rows'[j] # None /\ s # None /\ j \notin clobbered
  BY ClobberedGrows DEF Parked
<1>2. s \in LeftParked'
  BY DEF LeftParked
<1>3. CASE Crash
  BY <1>2, <1>3 DEF Crash, Followed
<1>4. CASE ~Crash /\ rows[j] # None /\ rows[j].parked = s
  <2>1. Followed(s) /\ Owned(j, rows[j])
    BY <1>1, <1>4 DEF ParkIsFollowed, Parked, ParkOwners
  <2>2. s \in 1..Len(opened) /\ opened[s].job = j
    BY <1>1, <1>4, <2>1 DEF Owned
  <2>3. s \in Sessions
    BY <2>2, SchedulerAssumption DEF Sessions, Typed, TypeOK
  <2>4. ~SettleRow(s)
    <3>1. SettleRow(s) => rows'[j] = LetGo(rows[j], s)
      BY <1>1, <1>4, <2>2 DEF SettleRow, Owns, Parked, Transform, Typed, TypeOK
    <3>2. rows[j] \in Row /\ s \in Instant
      BY <1>4, <2>3 DEF Typed, TypeOK, Sessions, Instant
    <3>3. LetGo(rows[j], s).parked = None
      BY <3>2, ReceiptKeeps
    <3> QED BY <1>1, <3>1, <3>3
  <2>5. CASE watch[s] # "off"
    BY <1>4, <2>3, <2>4, <2>5, WatchSteps DEF Followed
  <2>6. ASSUME NEW t \in Tasks, task[t].pc \in {"appending", "telling"}, task[t].sess = s
        PROVE  Followed(s)'
    <3>1. CASE ArmWatch(t)
      BY <2>3, <2>6, <3>1 DEF ArmWatch, Followed, Typed, TypeOK
    <3>2. CASE ~ArmWatch(t)
      <4>1. task'[t].pc \in {"appending", "telling"} /\ task'[t].sess = s
        BY <1>4, <2>6, <3>2, RunSteps DEF RunMoves
      <4> QED BY <4>1 DEF Followed
    <3> QED BY <3>1, <3>2
  <2>7. CASE phase = "reviving" /\ s \in LeftParked
    BY <1>2, <1>4, <2>3, <2>7, WatchSteps DEF Followed
  <2> QED BY <2>1, <2>5, <2>6, <2>7 DEF Followed
<1>5. CASE ~Crash /\ ~(rows[j] # None /\ rows[j].parked = s)
  <2>1. RowMoves(j, rows[j]) /\ rows[j] # None
    BY <1>1, <1>5, RowSteps, RowAssumption DEF Saved, RowMoves
  <2>2. \E t \in Tasks : task'[t].pc = "appending" /\ task'[t].sess = s
    BY <1>1, <1>5, <2>1 DEF RowMoves
  <2> QED BY <2>2 DEF Followed
<1> QED BY <1>3, <1>4, <1>5

LEMMA ParkInvariant == Spec => [](Typed /\ OnlyTick /\ ParkOwners /\ ParkIsFollowed)
<1>1. Init => ParkOwners /\ ParkIsFollowed
  <2> SUFFICES ASSUME Init PROVE ParkOwners /\ ParkIsFollowed
    OBVIOUS
  <2>1. \A j \in Jobs : rows[j].parked = None
    <3>1. PICK then \in [Jobs -> Jobs \cup {None}] : rows = [j \in Jobs |-> NewRow(0, then[j])]
      BY DEF Init
    <3> QED BY <3>1 DEF NewRow
  <2>2. arming = {} /\ edit = NoEdit /\ \A t \in Tasks : task[t].pc = "idle"
    BY DEF Init, Idle
  <2> QED BY <2>1, <2>2 DEF ParkOwners, ParkIsFollowed, Parked, Owned, HasRow, AtSession
<1>2. Typed /\ OnlyTick /\ ParkOwners /\ ParkIsFollowed /\ [Next]_vars
        => ParkOwners' /\ ParkIsFollowed'
  BY OwnersKept, FollowedKept
<1> QED BY <1>1, <1>2, RowInvariant, PTL DEF Spec

\* A row does not keep a park that nobody will settle, whatever ends first,
\* the turn, the daemon or the next run of the job: no slot is missed for a
\* person who is no longer asked (park.py, _arm_park_watch, revive_parked).
THEOREM ParksAreFollowed == Spec => []ParkIsFollowed
<1> QED BY ParkInvariant, PTL

----------------------------------------------------------------------------
\* Lines.

\* The session of a run has neither line nor watch before the run writes its
\* own, and no other run has it.
FreshSessions ==
    /\ \A t \in Tasks : task[t].pc \in Writing =>
         line[task[t].sess] = "none" /\ watch[task[t].sess] = "off"
    /\ \A t, u \in Tasks :
         task[t].pc \in AtSession /\ task[u].pc \in AtSession /\ task[t].sess = task[u].sess => t = u
    /\ \A s \in Sessions : s > Len(opened) => line[s] = "none" /\ watch[s] = "off"
    /\ phase = "reviving" =>
         /\ \A t \in Tasks : task[t].pc = "idle"
         /\ \A s \in Sessions : watch[s] = "off"

\* Who writes lines, and who sets watches.
LEMMA LineSteps ==
    ASSUME Typed, [Next]_vars, NEW s \in Sessions
    PROVE  /\ \/ line'[s] \in {line[s], "none"}
              \/ CloseLine(s) /\ line[s] \in {"none", "waiting"}
              \/ \E t \in Tasks : AppendWaiting(t) /\ task[t].sess = s
           /\ \/ watch'[s] \in {watch[s], "off"}
              \/ watch[s] # "off"
              \/ ReviveLists /\ s \in LeftParked
              \/ \E t \in Tasks : ArmWatch(t) /\ task[t].sess = s
           /\ phase' = "reviving" => Crash \/ phase = "reviving"
           /\ CloseLine(s) => watch[s] # "off"
<1>1. ASSUME NEW t \in Tasks, TaskStep(t)
      PROVE  /\ line'[s] = line[s] \/ (AppendWaiting(t) /\ task[t].sess = s)
             /\ watch'[s] = watch[s] \/ (ArmWatch(t) /\ task[t].sess = s)
             /\ phase' = phase
  <2>1. AppendWaiting(t) => line'[s] = line[s] \/ task[t].sess = s
    BY DEF AppendWaiting, Typed, TypeOK
  <2>2. ArmWatch(t) => watch'[s] = watch[s] \/ task[t].sess = s
    BY DEF ArmWatch, Typed, TypeOK
  <2>3. (~AppendWaiting(t) => line' = line) /\ (~ArmWatch(t) => watch' = watch)
    BY <1>1 DEF TaskStep, RunNow, StartTurn, TurnSeen, ReadAgain, SavePark, ArmWatch,
       AppendWaiting, SaveReceipt, StartLinked, ReadMiss, SaveMiss, store
  <2>4. (AppendWaiting(t) => watch' = watch) /\ (ArmWatch(t) => line' = line)
    BY DEF AppendWaiting, ArmWatch, store
  <2>5. phase' = phase
    BY <1>1 DEF TaskStep, RunNow, StartTurn, TurnSeen, ReadAgain, SavePark, ArmWatch,
       AppendWaiting, SaveReceipt, StartLinked, ReadMiss, SaveMiss, ticking
  <2> QED BY <2>1, <2>2, <2>3, <2>4, <2>5
<1>2. ASSUME NEW r \in Sessions, SessionStep(r)
      PROVE  /\ line'[s] = line[s] \/ (CloseLine(s) /\ line[s] \in {"none", "waiting"})
             /\ watch'[s] = watch[s] \/ watch[s] # "off"
             /\ phase' = phase
  BY <1>2 DEF ticking, SessionStep, SessionMoves, CloseLine, SettleRow, MaySettle, Unsettled, Stage, store,
     Typed, TypeOK
<1>3. ASSUME Crash \/ ReviveLists \/ \E j \in Jobs : Delete(j)
      PROVE  /\ line'[s] \in {line[s], "none"}
             /\ watch'[s] \in {watch[s], "off"} \/ (ReviveLists /\ s \in LeftParked)
             /\ phase' = "reviving" => Crash \/ phase = "reviving"
  BY <1>3 DEF Crash, ReviveLists, Delete, store, ticking, Typed, TypeOK
<1>4. ASSUME ~Crash, ~ReviveLists, ~\E j \in Jobs : Delete(j), ~\E t \in Tasks : TaskStep(t),
             ~\E r \in Sessions : SessionStep(r)
      PROVE  UNCHANGED <<line, watch, phase>>
  BY <1>4 DEF Next, vars, store, ticking, Clock, TickStarts, Arm, TickLists, TickClaims, TickEnds,
     SkipIfParked, ReadDue, SkipSlot, EditReads, EditSaves, DrainStep
<1>5. CloseLine(s) => watch[s] # "off"
  BY DEF CloseLine, MaySettle
<1> QED BY <1>1, <1>2, <1>3, <1>4, <1>5

LEMMA WritersOwn ==
    ASSUME Typed, NEW t \in Tasks
    PROVE  /\ AppendWaiting(t) => task[t].pc = "appending" /\ task'[t].pc = "telling"
           /\ ArmWatch(t) => task[t].pc = "telling"
           /\ StartTurn(t) => task[t].pc = "starting" /\ UNCHANGED <<line, watch>>
BY DEF AppendWaiting, ArmWatch, StartTurn, Move, store, Typed, TypeOK, TaskState

\* The daemon is back in reviving only by a restart.
LEMMA PhaseSteps == ASSUME [Next]_vars, phase' = "reviving" PROVE Crash \/ phase = "reviving"
<1>1. ASSUME NEW t \in Tasks, TaskStep(t) PROVE phase' = phase
  BY <1>1 DEF TaskStep, RunNow, StartTurn, TurnSeen, ReadAgain, SavePark, ArmWatch, AppendWaiting,
     SaveReceipt, StartLinked, ReadMiss, SaveMiss, ticking
<1>2. ASSUME NEW s \in Sessions, SessionStep(s) PROVE phase' = phase
  BY <1>2 DEF SessionStep, SessionMoves, CloseLine, SettleRow, ticking
<1>3. CASE ReviveLists
  BY <1>3 DEF ReviveLists
<1> QED BY <1>1, <1>2, <1>3 DEF Next, vars, ticking, Clock, TickStarts, Arm, TickLists, TickClaims,
      TickEnds, SkipIfParked, ReadDue, SkipSlot, EditReads, EditSaves, Delete, DrainStep

LEMMA FreshKept ==
    ASSUME Typed, OnlyTick, ParkOwners, FreshSessions, [Next]_vars PROVE FreshSessions'
<1> USE DEF AtSession, Writing
<1>1. CASE Crash
  <2>1. /\ \A t \in Tasks : task'[t].pc = "idle"
        /\ \A s \in Sessions : watch'[s] = "off"
        /\ line' = line /\ opened' = opened
    BY <1>1 DEF Crash, Idle, store
  <2> QED BY <2>1 DEF FreshSessions
<1>2. CASE ~Crash
  <2>1. ASSUME NEW t \in Tasks, task'[t].pc \in Writing
        PROVE  line'[task'[t].sess] = "none" /\ watch'[task'[t].sess] = "off"
    <3>1. CASE StartTurn(t)
      BY <3>1, OpenedGrows, WritersOwn DEF FreshSessions
    <3>2. CASE ~StartTurn(t)
      <4> DEFINE s == task[t].sess
      <4>1. task[t].pc \in Writing /\ task'[t].sess = s
        BY <1>2, <2>1, <3>2, RunSteps DEF RunMoves
      <4>2. line[s] = "none" /\ watch[s] = "off" /\ s \in Sessions /\ phase # "reviving"
        BY <4>1, SchedulerAssumption DEF FreshSessions, ParkOwners, Sessions, Typed, TypeOK
      <4>3. ASSUME NEW u \in Tasks, AppendWaiting(u) \/ ArmWatch(u), task[u].sess = s PROVE FALSE
        <5>1. u = t
          BY <4>1, <4>3, WritersOwn DEF FreshSessions
        <5> QED BY <2>1, <4>1, <4>3, <5>1, WritersOwn
      <4>4. ~ReviveLists
        BY <4>2 DEF ReviveLists
      <4> QED BY <4>1, <4>2, <4>3, <4>4, LineSteps
    <3> QED BY <3>1, <3>2
  <2>2. ASSUME NEW t \in Tasks, NEW u \in Tasks, task'[t].pc \in AtSession,
               task'[u].pc \in AtSession, task'[t].sess = task'[u].sess, t # u
        PROVE  FALSE
    <3>1. ASSUME NEW x \in Tasks, NEW y \in Tasks, x # y, StartTurn(x), task'[y].pc \in AtSession
          PROVE  task'[x].sess # task'[y].sess
      <4>1. task'[y] = task[y]
        BY <3>1, OthersRest DEF TaskStep
      <4>2. task'[y].sess \in 1..Len(opened)
        BY <3>1, <4>1 DEF ParkOwners
      <4> QED BY <3>1, <4>2, OpenedGrows
    <3>2. ~StartTurn(t) /\ ~StartTurn(u)
      BY <2>2, <3>1
    <3>3. /\ task[t].pc \in AtSession /\ task'[t].sess = task[t].sess
          /\ task[u].pc \in AtSession /\ task'[u].sess = task[u].sess
      BY <1>2, <2>2, <3>2, RunSteps DEF RunMoves
    <3> QED BY <2>2, <3>3 DEF FreshSessions
  <2>3. ASSUME NEW s \in Sessions, s > Len(opened')
        PROVE  line'[s] = "none" /\ watch'[s] = "off"
    <3>1. s > Len(opened)
      BY <2>3, OpenedGrows DEF Sessions
    <3>2. line[s] = "none" /\ watch[s] = "off"
      BY <3>1 DEF FreshSessions
    <3>3. ASSUME NEW t \in Tasks, AppendWaiting(t) \/ ArmWatch(t) PROVE task[t].sess # s
      BY <3>1, <3>3, WritersOwn, OpenedGrows DEF ParkOwners
    <3>4. s \notin LeftParked
      <4>1. ASSUME NEW j \in Jobs, Parked(j) PROVE rows[j].parked # s
        BY <3>1, <4>1, OpenedGrows DEF ParkOwners, Owned, Parked
      <4> QED BY <4>1 DEF LeftParked
    <3> QED BY <3>2, <3>3, <3>4, LineSteps
  <2>4. ASSUME phase' = "reviving"
        PROVE  /\ \A t \in Tasks : task'[t].pc = "idle"
               /\ \A s \in Sessions : watch'[s] = "off"
    <3>1. phase = "reviving"
      BY <1>2, <2>4, PhaseSteps
    <3>2. \A t \in Tasks : task[t].pc = "idle" /\ task'[t].pc = "idle"
      BY <1>2, <3>1, RunSteps DEF FreshSessions, RunMoves
    <3>3. ~ReviveLists
      BY <2>4 DEF ReviveLists
    <3>4. ASSUME NEW s \in Sessions PROVE watch'[s] = "off"
      BY <3>1, <3>2, <3>3, LineSteps, WritersOwn DEF FreshSessions
    <3> QED BY <3>2, <3>4
  <2> QED BY <2>1, <2>2, <2>3, <2>4 DEF FreshSessions
<1> QED BY <1>1, <1>2

LEMMA LineInvariant == Spec => [](Typed /\ OnlyTick /\ ParkOwners /\ FreshSessions)
<1>1. Init => FreshSessions
  BY DEF Init, FreshSessions, Idle, Writing, AtSession
<1>2. Typed /\ OnlyTick /\ ParkOwners /\ FreshSessions /\ [Next]_vars => FreshSessions'
  BY FreshKept
<1> QED BY <1>1, <1>2, ParkInvariant, PTL DEF Spec

\* What the history says became of a parked run stays so, until the job is
\* deleted: neither a restart between the line and the row, nor a run that
\* parks meanwhile, makes an answered run an unanswered one (history.py,
\* close_waiting_run).
THEOREM OutcomesStand == Spec => OutcomeStands
<1>1. ASSUME Typed, FreshSessions, ParkOwners, [Next]_vars, NEW s \in Sessions,
             line[s] \in {"settled", "unanswered"}
      PROVE  line'[s] \in {line[s], "none"}
  <2>1. ASSUME NEW t \in Tasks, AppendWaiting(t) PROVE task[t].sess # s
    BY <1>1, <2>1, WritersOwn DEF FreshSessions, Writing, AtSession
  <2> QED BY <1>1, <2>1, LineSteps
<1>2. Typed /\ ParkOwners /\ FreshSessions /\ [Next]_vars
        => [\A s \in Sessions : line[s] \in {"settled", "unanswered"} =>
              line'[s] \in {line[s], "none"}]_vars
  BY <1>1
<1> QED BY <1>2, LineInvariant, PTL DEF Spec, OutcomeStands
=============================================================================
