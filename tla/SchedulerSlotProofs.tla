------------------------ MODULE SchedulerSlotProofs ------------------------
(***************************************************************************)
(* The slots of a job: that one opens a single session in the life of a    *)
(* daemon, for any cadence, delays, tries, tasks and bounds.               *)
(***************************************************************************)
EXTENDS SchedulerLineProofs

\* Nothing that the row has armed, or remembers, is as early as x.
PastSlot(row, x) ==
    /\ row.resume = None \/ row.resume > x
    /\ row.attempt > 0 \/ row.next = None \/ row.next > x

LEMMA AdvancePast ==
    ASSUME NEW j \in Jobs, NEW row \in Row, NEW t \in Nat, NEW x \in Nat, x <= t,
           row.resume = None \/ row.resume > x
    PROVE  PastSlot(Advance(j, row, t), x)
<1>1. t + Interval > x /\ t + Interval \in Nat /\ t + Interval # None
  BY ScheduleAssumption
<1> QED BY <1>1 DEF PastSlot, Advance, Row

LEMMA FinishPast ==
    ASSUME NEW j \in Jobs, NEW row \in Row, NEW t \in Nat, NEW x \in Nat, x <= t,
           row.attempt > 0 => row.resume = None \/ row.resume > x
    PROVE  PastSlot(FinishSlot(j, row, t), x)
<1> DEFINE fresh == [row EXCEPT !.attempt = 0, !.resume = None]
<1>1. fresh \in Row /\ fresh.resume = None
  BY Instants DEF Row
<1>2. CASE row.attempt > 0 /\ row.resume # None
  BY <1>2 DEF FinishSlot, PastSlot, Row
<1>3. CASE ~(row.attempt > 0 /\ row.resume # None)
  BY <1>1, <1>3, AdvancePast DEF FinishSlot
<1> QED BY <1>2, <1>3

LEMMA SettlePast ==
    ASSUME NEW j \in Jobs, NEW row \in Row, NEW t \in Nat, NEW x \in Nat, x <= t, NEW out,
           row.attempt > 0 => row.resume = None \/ row.resume > x
    PROVE  PastSlot(SettleScheduled(j, row, t, out), x)
<1>1. CASE ~WillRetry(row, out)
  BY <1>1, FinishPast DEF SettleScheduled
<1>2. CASE WillRetry(row, out)
  <2> DEFINE resume == IF row.attempt > 0 THEN row.resume ELSE Advance(j, row, t).next
             new == [row EXCEPT !.next = t + RetryDelay, !.attempt = row.attempt + 1,
                                !.resume = resume]
  <2>1. row.attempt + 1 > 0
    BY ScheduleAssumption DEF Row
  <2>2. Advance(j, row, t).next = None \/ Advance(j, row, t).next > x
    BY ScheduleAssumption DEF Advance, Row
  <2>3. resume = None \/ resume > x
    BY <2>2
  <2> HIDE DEF resume
  <2>4. new.resume = resume /\ new.attempt = row.attempt + 1
    BY DEF Row
  <2>5. SettleScheduled(j, row, t, out) = new
    BY <1>2 DEF SettleScheduled, resume
  <2> HIDE DEF new
  <2> QED BY <2>1, <2>3, <2>4, <2>5 DEF PastSlot
<1> QED BY <1>1, <1>2

LEMMA SkipPast ==
    ASSUME NEW j \in Jobs, NEW row \in Row, NEW t \in Nat, NEW x \in Nat, x <= t, PastSlot(row, x)
    PROVE  PastSlot([Advance(j, row, t) EXCEPT !.attempt = 0, !.resume = None], x)
<1> DEFINE moved == Advance(j, row, t)
<1>1. moved \in Row
  BY AdvanceTyped
<1>2. moved.next = None \/ moved.next > x
  BY ScheduleAssumption DEF Advance, Row
<1> HIDE DEF moved
<1>3. \A r \in Row : [r EXCEPT !.attempt = 0, !.resume = None].next = r.next
  BY DEF Row
<1>4. \A r \in Row : [r EXCEPT !.attempt = 0, !.resume = None].resume = None
  BY DEF Row
<1> QED BY <1>1, <1>2, <1>3, <1>4 DEF PastSlot, moved

LEMMA EditPast ==
    ASSUME NEW j \in Jobs, NEW row \in Row, NEW t \in Nat, NEW x \in Nat, x <= t, PastSlot(row, x)
    PROVE  PastSlot(Reschedule(j, row, t), x) /\ PastSlot(TogglePause(row), x)
<1>1. PastSlot(Reschedule(j, row, t), x)
  BY DEF PastSlot, Reschedule, Row
<1>2. PastSlot(TogglePause(row), x)
  BY DEF PastSlot, TogglePause, Row
<1> QED BY <1>1, <1>2

LEMMA SamePast ==
    ASSUME NEW row, NEW new, ScheduleOf(new) = ScheduleOf(row), NEW x
    PROVE  PastSlot(row, x) => PastSlot(new, x)
BY DEF ScheduleOf, PastSlot

\* A row that a run saves is past the slot that its copy was past, and past the
\* slot of the run itself.
LEMMA SavingPast ==
    ASSUME Typed, OnlyTick, NEW t \in Tasks, Saving(t), NEW out, NEW x \in Nat,
           t = "tick" => x <= tickNow,
           \/ PastSlot(task[t].row, x)
           \/ task[t].leg = "schedule" /\ task[t].row.attempt = 0
    PROVE  PastSlot(Schedule(t, out), x)
<1>1. task[t].job \in Jobs /\ task[t].row \in Row /\ tickNow \in Nat
  <2>1. tickNow \in Nat
    BY SchedulerAssumption DEF Typed, TypeOK
  <2> QED BY <2>1, SavedTyped
<1>2. CASE task[t].leg = "schedule"
  <2>1. t = "tick"
    BY <1>2 DEF OnlyTick
  <2>2. task[t].row.attempt > 0 => task[t].row.resume = None \/ task[t].row.resume > x
    BY DEF PastSlot
  <2> QED BY <1>1, <1>2, <2>1, <2>2, SettlePast DEF Schedule
<1>3. CASE task[t].leg # "schedule"
  BY <1>3 DEF Schedule
<1> QED BY <1>2, <1>3

\* What is saved at the end of a run.
LEMMA RunSaves ==
    ASSUME Typed, NEW t \in Tasks, SavePark(t) \/ SaveReceipt(t)
    PROVE  /\ Saving(t) /\ task[t].job \in Jobs /\ task[t].row \in Row
           /\ \E new \in Row : \E out : /\ Save(task[t].job, task[t].row, new)
                                         /\ ScheduleOf(new) = ScheduleOf(Schedule(t, out))
<1>1. Saving(t)
  BY DEF SavePark, SaveReceipt
<1>2. /\ task[t].job \in Jobs /\ task[t].row \in Row /\ task[t].sess \in Instant
      /\ \A out : Schedule(t, out) \in Row
  <2>1. task[t].sess \in Instant
    BY Instants DEF Typed, Underway, TaskState, Sessions, Instant
  <2> QED BY <1>1, <2>1, SavedTyped
<1>3. CASE SavePark(t)
  <2> DEFINE set == Schedule(t, "waiting")
             new == [RecordRun(set, task[t].sess) EXCEPT !.parked = task[t].sess]
  <2>1. Save(task[t].job, task[t].row, new)
    BY <1>3 DEF SavePark
  <2>2. set \in Row
    BY <1>2
  <2> HIDE DEF set
  <2>3. new \in Row /\ ScheduleOf(new) = ScheduleOf(set)
    BY <1>2, <2>2, ReceiptTyped, ReceiptKeeps
  <2> HIDE DEF new
  <2> QED BY <1>1, <1>2, <2>1, <2>3 DEF set
<1>4. CASE SaveReceipt(t)
  <2> DEFINE set == Schedule(t, task[t].out)
             new == RecordRun(set, None)
  <2>1. Save(task[t].job, task[t].row, new)
    BY <1>4 DEF SaveReceipt
  <2>2. set \in Row
    BY <1>2
  <2> HIDE DEF set
  <2>3. new \in Row /\ ScheduleOf(new) = ScheduleOf(set)
    BY <2>2, Instants, ReceiptTyped, ReceiptKeeps
  <2> HIDE DEF new
  <2> QED BY <1>1, <1>2, <2>1, <2>3 DEF set
<1> QED BY <1>3, <1>4

\* A row that is past a slot stays past it, whoever saves it.
LEMMA PastKept ==
    ASSUME Typed, OnlyTick, [Next]_vars, NEW j \in Jobs, Plain(j)', NEW x \in Nat, x <= now,
           task["tick"].pc # "idle" => x <= tickNow, PastSlot(rows[j], x)
    PROVE  PastSlot(rows'[j], x)
<1>0. /\ "tick" \in Tasks /\ tickNow \in Nat /\ now \in Nat
      /\ rows'[j] # None /\ j \notin clobbered' /\ rows[j] \in Row
  BY PlainSteps, SchedulerAssumption DEF Tasks, Typed, TypeOK, Plain
<1>1. CASE rows'[j] = rows[j]
  BY <1>1
<1>2. ASSUME NEW i \in Jobs, NEW old \in Row, NEW new \in Row, Save(i, old, new),
             rows'[j] # rows[j]
      PROVE  i = j /\ rows'[j] = new /\ old = rows[j]
  BY <1>0, <1>2, SavesRow
<1>3. CASE Arm
  <2> PICK copy \in arming : Save(copy.job, copy.row, Advance(copy.job, copy.row, tickNow))
    BY <1>3 DEF Arm
  <2>1. /\ copy.job \in Jobs /\ copy.row \in Row
        /\ Advance(copy.job, copy.row, tickNow) \in Row /\ x <= tickNow
    BY <1>0, <1>3, AdvanceTyped DEF Arm, Typed, TypeOK
  <2>2. rows'[j] # rows[j] => rows'[j] = Advance(j, rows[j], tickNow)
    BY <1>2, <2>1
  <2>3. rows[j].resume = None \/ rows[j].resume > x
    BY DEF PastSlot
  <2>4. PastSlot(Advance(j, rows[j], tickNow), x)
    BY <1>0, <2>1, <2>3, AdvancePast
  <2> QED BY <1>1, <2>2, <2>4
<1>4. CASE SkipIfParked
  <2>1. rows'[j] # rows[j] => rows'[j] = FinishSlot(j, rows[j], tickNow)
    BY <1>4 DEF SkipIfParked, Transform, Typed, TypeOK
  <2>2. x <= tickNow /\ (rows[j].attempt > 0 => rows[j].resume = None \/ rows[j].resume > x)
    BY <1>4 DEF SkipIfParked, PastSlot
  <2>3. PastSlot(FinishSlot(j, rows[j], tickNow), x)
    BY <1>0, <2>2, FinishPast
  <2> QED BY <1>1, <2>1, <2>3
<1>5. CASE SkipSlot
  <2> DEFINE i == task["tick"].job
             row == task["tick"].row
             moved == [Advance(i, row, tickNow) EXCEPT !.attempt = 0, !.resume = None]
  <2>1. i \in Jobs /\ row \in Row /\ moved \in Row /\ x <= tickNow
    BY <1>0, <1>5, FinishTyped DEF SkipSlot, Typed, Underway, AtRest
  <2>2. Save(i, row, RecordRun(moved, None))
    BY <1>5 DEF SkipSlot
  <2>3. PastSlot(row, x) => PastSlot(moved, x)
    BY <1>0, <2>1, SkipPast
  <2> HIDE DEF i, row, moved
  <2>4. /\ RecordRun(moved, None) \in Row
        /\ ScheduleOf(RecordRun(moved, None)) = ScheduleOf(moved)
    BY <2>1, Instants, ReceiptTyped, ReceiptKeeps
  <2>5. rows'[j] # rows[j] => rows'[j] = RecordRun(moved, None) /\ rows[j] = row
    BY <1>2, <2>1, <2>2, <2>4
  <2> QED BY <1>1, <2>3, <2>4, <2>5, SamePast
<1>6. ASSUME NEW t \in Tasks, SavePark(t) \/ SaveReceipt(t) PROVE PastSlot(rows'[j], x)
  <2>1. PICK new \in Row :
          \E out : /\ Save(task[t].job, task[t].row, new)
                   /\ ScheduleOf(new) = ScheduleOf(Schedule(t, out))
    BY <1>6, RunSaves
  <2>2. PICK out : /\ Save(task[t].job, task[t].row, new)
                   /\ ScheduleOf(new) = ScheduleOf(Schedule(t, out))
    BY <2>1
  <2>3. Saving(t) /\ task[t].job \in Jobs /\ task[t].row \in Row
    BY <1>6, RunSaves
  <2>4. t = "tick" => x <= tickNow
    BY <2>3 DEF Saving
  <2>5. rows'[j] # rows[j] => rows'[j] = new /\ task[t].row = rows[j]
    BY <1>2, <2>2, <2>3
  <2>6. PastSlot(task[t].row, x) => PastSlot(Schedule(t, out), x)
    BY <2>3, <2>4, SavingPast
  <2> QED BY <1>1, <2>2, <2>5, <2>6, SamePast
<1>7. ASSUME NEW t \in Tasks, SaveMiss(t) PROVE PastSlot(rows'[j], x)
  <2>1. /\ task[t].job \in Jobs /\ task[t].row \in Row
        /\ Save(task[t].job, task[t].row, RecordRun(task[t].row, None))
    BY <1>7 DEF SaveMiss, Typed, Underway, AtRest
  <2>2. /\ RecordRun(task[t].row, None) \in Row
        /\ ScheduleOf(RecordRun(task[t].row, None)) = ScheduleOf(task[t].row)
    BY <2>1, Instants, ReceiptTyped, ReceiptKeeps
  <2>3. rows'[j] # rows[j] => rows'[j] = RecordRun(task[t].row, None) /\ task[t].row = rows[j]
    BY <1>2, <2>1, <2>2
  <2> QED BY <1>1, <2>2, <2>3, SamePast
<1>8. ASSUME NEW r \in Sessions, SettleRow(r) PROVE PastSlot(rows'[j], x)
  <2>1. rows'[j] # rows[j] => rows'[j] = LetGo(rows[j], r)
    BY <1>8 DEF SettleRow, Transform, Typed, TypeOK
  <2>2. r \in Instant
    BY Instants DEF Sessions, Instant
  <2>3. ScheduleOf(LetGo(rows[j], r)) = ScheduleOf(rows[j])
    BY <1>0, <2>2, ReceiptKeeps
  <2> QED BY <1>1, <2>1, <2>3, SamePast
<1>9. ASSUME NEW i \in Jobs, Delete(i) PROVE PastSlot(rows'[j], x)
  <2>1. rows'[j] # rows[j] => rows'[j] = [rows[j] EXCEPT !.then = None]
    BY <1>0, <1>9 DEF Delete
  <2> QED BY <1>0, <1>1, <2>1, Unlinked, SamePast
<1>10. CASE EditSaves
  <2>1. edit.job \in Jobs /\ edit.row \in Row
    BY <1>10 DEF EditSaves, Typed, TypeOK
  <2>2. PICK row \in {TogglePause(edit.row), Reschedule(edit.job, edit.row, now)} :
          Save(edit.job, edit.row, row)
    BY <1>10 DEF EditSaves
  <2>3. row \in Row
    BY <1>0, <2>1, <2>2, EditTyped
  <2>4. PastSlot(edit.row, x) => PastSlot(row, x)
    BY <1>0, <2>1, <2>2, EditPast
  <2>5. rows'[j] # rows[j] => rows'[j] = row /\ edit.row = rows[j]
    BY <1>2, <2>1, <2>2, <2>3
  <2> QED BY <1>1, <2>4, <2>5
<1>11. ASSUME NEW t \in Tasks, TaskStep(t)
       PROVE  SavePark(t) \/ SaveReceipt(t) \/ SaveMiss(t) \/ rows' = rows
  BY <1>11 DEF TaskStep, RunNow, StartTurn, TurnSeen, ReadAgain, AppendWaiting, ArmWatch,
               StartLinked, ReadMiss, store
<1>12. ASSUME NEW r \in Sessions, SessionStep(r) PROVE SettleRow(r) \/ rows' = rows
  BY <1>12 DEF SessionStep, SessionMoves, CloseLine, store
<1>13. CASE \/ Clock \/ TickStarts \/ TickLists \/ TickClaims \/ TickEnds \/ ReadDue \/ EditReads
            \/ Crash \/ ReviveLists \/ DrainStep \/ UNCHANGED vars
  BY <1>13 DEF Clock, TickStarts, TickLists, TickClaims, TickEnds, ReadDue, EditReads, Crash,
               ReviveLists, DrainStep, vars, store
<1> QED BY <1>1, <1>3, <1>4, <1>5, <1>6, <1>7, <1>8, <1>9, <1>10, <1>11, <1>12, <1>13 DEF Next

----------------------------------------------------------------------------
\* The clock and the tick.

LEMMA TickClock ==
    ASSUME Typed, [Next]_vars
    PROVE  /\ now \in Nat /\ now' \in Nat /\ tickNow \in Nat /\ tickNow' \in Nat
           /\ now <= now' /\ tickNow' \in {tickNow, now, 0}
           /\ task'["tick"].pc # "idle" =>
                (task["tick"].pc # "idle" /\ tickNow' = tickNow) \/ tickNow' = now
<1>0. /\ now \in Nat /\ now' \in Nat /\ tickNow \in Nat /\ tickNow' \in Nat
      /\ "tick" \in Tasks /\ task["tick"] \in TaskState
  BY StepTyped, SchedulerAssumption DEF Tasks, Typed, TypeOK
<1> USE DEF ticking
<1>1. ASSUME NEW t \in Tasks, TaskStep(t)
      PROVE  now' = now /\ tickNow' = tickNow /\ (task["tick"].pc = "idle" => task'["tick"].pc = "idle")
  <2>1. now' = now /\ tickNow' = tickNow
    BY <1>1 DEF TaskStep, RunNow, StartTurn, TurnSeen, ReadAgain, SavePark, AppendWaiting, ArmWatch,
       SaveReceipt, StartLinked, ReadMiss, SaveMiss
  <2>2. t = "tick" => task["tick"].pc # "idle"
    BY <1>1 DEF TaskStep, RunNow, StartTurn, TurnSeen, ReadAgain, SavePark, Saving, AppendWaiting,
       ArmWatch, SaveReceipt, StartLinked, ReadMiss, SaveMiss
  <2>3. t # "tick" => task'["tick"] = task["tick"]
    BY <1>0, <1>1, OthersRest
  <2> QED BY <2>1, <2>2, <2>3
<1>2. ASSUME NEW s \in Sessions, SessionStep(s)
      PROVE  now' = now /\ tickNow' = tickNow /\ task' = task
  BY <1>2 DEF SessionStep, SessionMoves, CloseLine, SettleRow, runs
<1>3. CASE TickStarts
  BY <1>0, <1>3 DEF TickStarts
<1>4. CASE TickEnds
  <2>1. task' = [task EXCEPT !["tick"] = [task["tick"] EXCEPT !.pc = "idle"]]
    BY <1>4 DEF TickEnds, Move
  <2>2. task'["tick"].pc = "idle"
    BY <1>0, <2>1 DEF Typed, TaskState
  <2> QED BY <1>0, <1>4, <2>2 DEF TickEnds
<1>5. CASE Arm \/ TickLists \/ TickClaims \/ SkipIfParked \/ ReadDue \/ SkipSlot
  BY <1>0, <1>5 DEF Arm, TickLists, TickClaims, SkipIfParked, ReadDue, SkipSlot
<1>6. CASE Crash
  <2>1. task'["tick"].pc = "idle"
    BY <1>0, <1>6 DEF Crash, Idle
  <2> QED BY <1>0, <1>6, <2>1 DEF Crash
<1>7. CASE Clock
  BY <1>0, <1>7 DEF Clock, runs
<1>8. CASE \/ EditReads \/ EditSaves \/ (\E j \in Jobs : Delete(j)) \/ ReviveLists \/ DrainStep
           \/ UNCHANGED vars
  BY <1>0, <1>8 DEF EditReads, EditSaves, Delete, ReviveLists, DrainStep, vars, runs
<1> QED BY <1>0, <1>1, <1>2, <1>3, <1>4, <1>5, <1>6, <1>7, <1>8 DEF Next

\* A session of this life of the daemon that was opened for a slot.
Slotted(s) == opened[s].slot # None /\ opened[s].boot = crashes

\* A slot that opened a session has come.
SlotsCame ==
    /\ tickNow <= now
    /\ \A s \in 1..Len(opened) : Slotted(s) =>
         /\ opened[s].slot \in Nat /\ opened[s].slot <= now
         /\ task["tick"].pc # "idle" => opened[s].slot <= tickNow

\* A session that is new to the step.
LEMMA NewSlot ==
    ASSUME Typed, OnlyTick, [Next]_vars, NEW s \in 1..Len(opened'), s \notin 1..Len(opened)
    PROVE  \E t \in Tasks :
             /\ StartTurn(t) /\ opened'[s].job = task[t].job /\ s = Len(opened')
             /\ opened'[s].slot = SlotOf(t) /\ opened'[s].boot = crashes /\ crashes' = crashes
             /\ SlotOf(t) # None => /\ t = "tick" /\ task[t].leg = "schedule" /\ SlotOf(t) \in Nat
                                     /\ task[t].row.attempt = 0 /\ task[t].row.next = SlotOf(t)
                                     /\ SlotOf(t) <= tickNow
<1>1. PICK t \in Tasks : StartTurn(t)
  BY OpenedGrows
<1>2. s = Len(opened')
  BY <1>1, OpenedGrows
<1>3. opened'[s].job = task[t].job /\ opened'[s].slot = SlotOf(t) /\ opened'[s].boot = crashes
  BY <1>1, <1>2, OpenedGrows, NewSession
<1>4. crashes' = crashes
  BY <1>1 DEF StartTurn, counts
<1>5. ASSUME SlotOf(t) # None
      PROVE  /\ t = "tick" /\ task[t].leg = "schedule" /\ SlotOf(t) \in Nat
             /\ task[t].row.attempt = 0 /\ task[t].row.next = SlotOf(t) /\ SlotOf(t) <= tickNow
  <2>1. /\ task[t].leg = "schedule" /\ task[t].row.attempt = 0 /\ task[t].row.next = SlotOf(t)
        /\ SlotOf(t) <= tickNow
    BY <1>5 DEF SlotOf
  <2>2. task[t].row \in Row
    BY <1>1, <2>1, WritersOwn DEF Typed, Underway
  <2> QED BY <1>5, <2>1, <2>2 DEF OnlyTick, Row, Instant
<1> QED BY <1>1, <1>2, <1>3, <1>4, <1>5

\* An old session of this life is one of this life before the step.
LEMMA OldSlot ==
    ASSUME Typed, BootsPast, [Next]_vars, NEW s \in 1..Len(opened), Slotted(s)'
    PROVE  Slotted(s) /\ opened'[s] = opened[s] /\ ~Crash
<1>1. opened'[s] = opened[s] /\ s \in 1..Len(opened)
  BY OpenedGrows
<1>2. ~Crash
  BY <1>1, BootsKept DEF BootsPast, Slotted
<1> QED BY <1>1, <1>2, BootsKept DEF Slotted

LEMMA SlotsCameKept ==
    ASSUME Typed, OnlyTick, BootsPast, SlotsCame, [Next]_vars PROVE SlotsCame'
<1>1. tickNow' <= now'
  BY TickClock DEF SlotsCame
<1>2. ASSUME NEW s \in 1..Len(opened'), Slotted(s)'
      PROVE  /\ opened'[s].slot \in Nat /\ opened'[s].slot <= now'
             /\ task'["tick"].pc # "idle" => opened'[s].slot <= tickNow'
  <2>1. CASE s \in 1..Len(opened)
    BY <1>2, <2>1, OldSlot, TickClock DEF SlotsCame
  <2>2. CASE s \notin 1..Len(opened)
    <3>1. PICK t \in Tasks :
            /\ StartTurn(t) /\ opened'[s].slot = SlotOf(t)
            /\ SlotOf(t) # None => SlotOf(t) \in Nat /\ SlotOf(t) <= tickNow
      BY <2>2, NewSlot
    <3>2. opened'[s].slot \in Nat /\ opened'[s].slot <= tickNow
      BY <1>2, <3>1 DEF Slotted
    <3>3. tickNow' = tickNow /\ now' = now
      BY <3>1 DEF StartTurn, ticking
    <3> QED BY <3>2, <3>3, TickClock DEF SlotsCame
  <2> QED BY <2>1, <2>2
<1> QED BY <1>1, <1>2 DEF SlotsCame

----------------------------------------------------------------------------
\* Slots that are spent.

\* The tick has opened s for a slot and has not saved the row yet.
Unsaved(s) ==
    /\ task["tick"].leg = "schedule" /\ task["tick"].pc \in {"open", "ended"}
    /\ task["tick"].sess = s /\ task["tick"].row.attempt = 0

\* The job will not fire for x again: neither its row nor the copy of it that
\* the tick is about to start a run with has anything armed that early.
Past(j, x) ==
    /\ rows[j] # None => PastSlot(rows[j], x)
    /\ task["tick"].pc = "starting" /\ task["tick"].leg = "schedule" /\ task["tick"].job = j =>
         PastSlot(task["tick"].row, x)

SlotsSpent ==
    \A s \in 1..Len(opened) : Slotted(s) /\ opened[s].job \notin clobbered =>
        Unsaved(s) \/ Past(opened[s].job, opened[s].slot)

LEMMA UnsavedSteps ==
    ASSUME Base, [Next]_vars, ~Crash, NEW s \in 1..Len(opened), Unsaved(s),
           NEW j \in Jobs, j = opened[s].job, NEW x \in Nat, x <= tickNow
    PROVE  Unsaved(s)' \/ Past(j, x)'
<1> USE DEF Base
<1> DEFINE r == task["tick"]
<1>0. "tick" \in Tasks /\ r \in TaskState /\ r.job = j
  BY DEF Tasks, Typed, TypeOK, Unsaved, ParkOwners, AtSession
<1>1. CASE task'["tick"] = r
  BY <1>1 DEF Unsaved
<1>2. ~TickStep
  BY DEF Unsaved, TickStep, TickStarts, Arm, TickLists, TickClaims, TickEnds, SkipIfParked, ReadDue,
     SkipSlot
<1>3. CASE TaskStep("tick")
  <2>1. TurnSeen("tick") \/ SavePark("tick") \/ SaveReceipt("tick")
    BY <1>3 DEF Unsaved, TaskStep, RunNow, StartTurn, ReadAgain, Saving, AppendWaiting, ArmWatch,
       StartLinked, ReadMiss, SaveMiss
  <2>2. CASE TurnSeen("tick")
    <3>1. PICK out : task' = [task EXCEPT !["tick"] = [r EXCEPT !.pc = "ended", !.out = out]]
      BY <2>2 DEF TurnSeen
    <3> QED BY <1>0, <3>1 DEF Unsaved, Typed, TaskState
  <2>3. CASE SavePark("tick") \/ SaveReceipt("tick")
    <3>1. PICK new \in Row :
            \E out : /\ Save(r.job, r.row, new)
                     /\ ScheduleOf(new) = ScheduleOf(Schedule("tick", out))
      BY <1>0, <2>3, RunSaves
    <3>2. PICK out : /\ Save(r.job, r.row, new)
                     /\ ScheduleOf(new) = ScheduleOf(Schedule("tick", out))
      BY <3>1
    <3>3. PastSlot(Schedule("tick", out), x)
      BY <1>0, <2>3, RunSaves, SavingPast DEF Unsaved
    <3>4. rows'[j] = new
      BY <1>0, <3>2 DEF Save, Typed, TypeOK
    <3>5. PastSlot(rows'[j], x)
      BY <3>2, <3>3, <3>4, SamePast
    <3>6. task'["tick"].pc # "starting"
      <4>1. CASE SavePark("tick")
        <5>1. task' = [task EXCEPT !["tick"] = [r EXCEPT !.pc = "appending"]]
          BY <4>1 DEF SavePark, Move
        <5> QED BY <1>0, <5>1 DEF Typed, TaskState
      <4>2. CASE SaveReceipt("tick") /\ Back("tick")
        BY <1>0, <4>2 DEF Back, TickBack, Idle, Typed
      <4>3. CASE SaveReceipt("tick") /\ ~Back("tick")
        <5>1. \E i : task' = [task EXCEPT !["tick"] = [r EXCEPT !.pc = "chaining",
                                 !.leg = "chained", !.job = i, !.row = None]]
          BY <4>3 DEF SaveReceipt
        <5> QED BY <1>0, <5>1 DEF Typed, TaskState
      <4> QED BY <2>3, <4>1, <4>2, <4>3
    <3> QED BY <1>0, <3>5, <3>6 DEF Past
  <2> QED BY <2>1, <2>2, <2>3
<1> QED BY <1>0, <1>1, <1>2, <1>3, OneTask

LEMMA PastSteps ==
    ASSUME Base, [Next]_vars, ~Crash, NEW j \in Jobs, j \notin clobbered', NEW x \in Nat, x <= now,
           task["tick"].pc # "idle" => x <= tickNow, Past(j, x)
    PROVE  Past(j, x)'
<1> USE DEF Base
<1>1. rows'[j] # None => PastSlot(rows'[j], x)
  <2>1. rows'[j] # None => Plain(j) /\ Plain(j)'
    BY PlainSteps DEF Plain
  <2> QED BY <2>1, PastKept DEF Past, Plain
<1>2. ASSUME task'["tick"].pc = "starting", task'["tick"].leg = "schedule",
             task'["tick"].job = j
      PROVE  PastSlot(task'["tick"].row, x)
  <2> DEFINE r == task["tick"]
  <2>1. r.job = j /\ (r.pc = "checking" \/ (r.leg = "schedule" /\ r.pc \in {"reading", "starting"}))
    BY <1>2, LookSteps DEF SkipIfParked
  <2>2. \/ HasRow(r) /\ task'["tick"].row = r.row
        \/ task'["tick"].row = rows[j] /\ rows[j] # None
    BY <1>2, RunSteps DEF RunMoves, HasRow, Tasks
  <2> QED BY <2>1, <2>2 DEF HasRow, Past
<1> QED BY <1>1, <1>2 DEF Past

LEMMA SlotsSpentKept ==
    ASSUME Base, BootsPast, SlotsCame, SlotsSpent, [Next]_vars PROVE SlotsSpent'
<1> SUFFICES ASSUME NEW s \in 1..Len(opened'), Slotted(s)', opened'[s].job \notin clobbered'
             PROVE  Unsaved(s)' \/ Past(opened[s].job, opened[s].slot)'
  BY DEF SlotsSpent
<1> USE DEF Base
<1>1. CASE s \in 1..Len(opened)
  <2>1. Slotted(s) /\ opened'[s] = opened[s] /\ ~Crash
    BY <1>1, OldSlot
  <2>2. PICK j \in Jobs : j = opened[s].job
    BY <1>1, OpenedInSessions
  <2>3. PICK x \in Nat : x = opened[s].slot
    BY <1>1, <2>1 DEF SlotsCame
  <2>4. j \notin clobbered' /\ x <= now /\ (task["tick"].pc # "idle" => x <= tickNow)
    BY <1>1, <2>1, <2>2, <2>3 DEF SlotsCame
  <2>5. Unsaved(s) \/ Past(j, x)
    BY <1>1, <2>1, <2>2, <2>3, <2>4, ClobberedGrows DEF SlotsSpent
  <2>6. Unsaved(s) => Unsaved(s)' \/ Past(j, x)'
    BY <1>1, <2>1, <2>2, <2>4, UnsavedSteps DEF Unsaved
  <2>7. Past(j, x) => Past(j, x)'
    BY <2>1, <2>4, PastSteps
  <2>8. Past(j, x)' => Past(opened[s].job, opened[s].slot)'
    BY <2>1, <2>2, <2>3 DEF Past
  <2> QED BY <2>5, <2>6, <2>7, <2>8
<1>2. CASE s \notin 1..Len(opened)
  <2>1. PICK t \in Tasks :
          /\ StartTurn(t) /\ s = Len(opened') /\ opened'[s].slot = SlotOf(t)
          /\ SlotOf(t) # None => /\ t = "tick" /\ task[t].leg = "schedule"
                                  /\ task[t].row.attempt = 0
    BY <1>2, NewSlot
  <2>2. t = "tick" /\ task["tick"].leg = "schedule" /\ task["tick"].row.attempt = 0
    BY <2>1 DEF Slotted
  <2>3. task' = [task EXCEPT !["tick"] = [task["tick"] EXCEPT !.pc = "open", !.sess = Len(opened) + 1]]
    BY <2>1, <2>2 DEF StartTurn
  <2>4. s = Len(opened) + 1
    BY <2>1, OpenedGrows
  <2>5. Unsaved(s)'
    BY <2>2, <2>3, <2>4 DEF Unsaved, Typed, TypeOK, TaskState, Tasks
  <2> QED BY <2>5
<1> QED BY <1>1, <1>2

LEMMA SlotOnceKept ==
    ASSUME Base, BootsPast, SlotsCame, SlotsSpent, SlotOnce, [Next]_vars PROVE SlotOnce'
<1> SUFFICES ASSUME NEW s \in 1..Len(opened'), NEW r \in Newer(s)',
                    opened'[r].slot = opened'[s].slot, opened'[r].boot = opened'[s].boot,
                    opened'[s].slot # None, opened'[s].job \notin clobbered'
             PROVE  FALSE
  BY DEF SlotOnce
<1> USE DEF Base
<1>0. /\ r \in 1..Len(opened') /\ s < r /\ opened'[r].job = opened'[s].job
      /\ Len(opened) \in Nat /\ Len(opened') \in Nat
  BY OpenedGrows DEF Newer, SameJob
<1>1. CASE r \in 1..Len(opened)
  <2>1. /\ s \in 1..Len(opened) /\ opened'[s] = opened[s] /\ opened'[r] = opened[r]
        /\ opened[s].job \notin clobbered
    BY <1>0, <1>1, OpenedGrows, ClobberedGrows
  <2>2. r \in Newer(s)
    BY <1>0, <1>1, <2>1 DEF Newer, SameJob
  <2> QED BY <2>1, <2>2 DEF SlotOnce
<1>2. CASE r \notin 1..Len(opened)
  <2>1. PICK t \in Tasks :
          /\ StartTurn(t) /\ opened'[r].job = task[t].job /\ r = Len(opened')
          /\ opened'[r].slot = SlotOf(t) /\ opened'[r].boot = crashes
          /\ SlotOf(t) # None => /\ t = "tick" /\ task[t].leg = "schedule" /\ SlotOf(t) \in Nat
                                  /\ task[t].row.attempt = 0 /\ task[t].row.next = SlotOf(t)
    BY <1>0, <1>2, NewSlot
  <2>2. /\ task["tick"].pc = "starting" /\ task["tick"].leg = "schedule"
        /\ task["tick"].job = opened'[s].job /\ task["tick"].row.attempt = 0
        /\ task["tick"].row.next = opened'[s].slot /\ opened'[s].slot \in Nat
    BY <1>0, <2>1, WritersOwn
  <2>3. s \in 1..Len(opened) /\ opened'[s] = opened[s] /\ Slotted(s)
    <3>1. s \in 1..Len(opened)
      BY <1>0, <2>1, OpenedGrows
    <3> QED BY <2>1, <3>1, OpenedGrows DEF Slotted
  <2>4. opened[s].job \notin clobbered
    BY <2>3, ClobberedGrows
  <2>5. Past(opened[s].job, opened[s].slot)
    BY <2>2, <2>3, <2>4 DEF SlotsSpent, Unsaved
  <2>6. PastSlot(task["tick"].row, opened[s].slot)
    BY <2>2, <2>3, <2>5 DEF Past
  <2> QED BY <2>2, <2>3, <2>6, ScheduleAssumption DEF PastSlot
<1> QED BY <1>1, <1>2

\* A slot opens one session in the life of a daemon, for any cadence, any
\* number of tries and however the tick, Run now, pauses, edits and parks
\* interleave: when the run is saved, whatever the row has armed or remembers
\* is later than the slot, and nothing that saves the row afterwards takes that
\* back (schedule.py, advance_job; retry.py, settle_scheduled).
THEOREM SlotsOpenOnce == Spec => []SlotOnce
<1>1. Init => SlotsCame /\ SlotsSpent /\ SlotOnce
  <2> SUFFICES ASSUME Init PROVE SlotsCame /\ SlotsSpent /\ SlotOnce
    OBVIOUS
  <2>1. Len(opened) = 0 /\ now = 0 /\ tickNow = 0
    BY DEF Init
  <2>2. 1..Len(opened) = {}
    BY <2>1
  <2> QED BY <2>1, <2>2 DEF SlotsCame, SlotsSpent, SlotOnce
<1>2. Base /\ BootsPast /\ SlotsCame /\ SlotsSpent /\ SlotOnce /\ [Next]_vars
        => SlotsCame' /\ SlotsSpent' /\ SlotOnce'
  BY SlotsCameKept, SlotsSpentKept, SlotOnceKept DEF Base
<1> QED BY <1>1, <1>2, LineHistory, PTL DEF Spec
=============================================================================
