---------------------------- MODULE JobSchedule ----------------------------
(***************************************************************************)
(* What a fire does to a scheduled job's row: the arithmetic of            *)
(* scheduler/schedule.py, retry.py, edit.py and grace.py.                  *)
(*                                                                         *)
(* An instant is a natural number and a cadence is every Interval of them: *)
(* cron expressions, time zones and phrases are left out, and with them    *)
(* the instants a zone skips.  Every job retries Retries times.  A row     *)
(* keeps of its receipt only which session it says it waits for.           *)
(***************************************************************************)
EXTENDS Integers

CONSTANTS
    Jobs,       \* ids of jobs
    Cadenced,   \* those that recur: the others run once
    Graced,     \* those whose grace is nothing at all
    Interval,   \* instants between two slots
    RetryDelay, \* instants between two tries
    Retries,    \* tries after the first
    None        \* no instant, job, session or row

ASSUME ScheduleAssumption ==
    /\ Cadenced \subseteq Jobs /\ Graced \subseteq Jobs
    /\ Interval \in Nat \ {0} /\ RetryDelay \in Nat \ {0} /\ Retries \in Nat
    /\ None \notin Nat \cup Jobs

Instant == Nat \cup {None}

\* A row of jobs.json.  waits is last_session_id while last_status is waiting.
Row == [paused : BOOLEAN, next : Instant, attempt : 0..Retries, resume : Instant,
        then : Jobs \cup {None}, parked : Instant, waits : Instant]

\* A row is not to be taken for a missing one.
ASSUME RowAssumption == None \notin Row

NewRow(slot, then) ==
    [paused |-> FALSE, next |-> slot, attempt |-> 0, resume |-> None,
     then |-> then, parked |-> None, waits |-> None]

Due(row, t) == ~row.paused /\ row.next # None /\ row.next <= t
Unarmed(j, row) == j \in Cadenced /\ ~row.paused /\ row.next = None
PastGrace(j, row, t) == j \in Graced /\ row.next # None /\ t > row.next

\* The slot after t.  Faulty: a spent one-shot keeps its slot.
AdvanceKeeps(j, row, t) ==
    IF j \in Cadenced THEN [row EXCEPT !.next = t + Interval] ELSE [row EXCEPT !.paused = TRUE]
Advance(j, row, t) ==
    IF j \in Cadenced THEN [row EXCEPT !.next = t + Interval]
    ELSE [row EXCEPT !.paused = TRUE, !.next = None]

\* The end of a slot, by a try that is not tried again, a park or a miss.
FinishSlot(j, row, t) ==
    LET fresh == [row EXCEPT !.attempt = 0, !.resume = None]
    IN IF row.attempt > 0 /\ row.resume # None
       THEN [fresh EXCEPT !.next = row.resume]
       ELSE Advance(j, fresh, t)

\* Faulty: one try too many.
RetriesOnceMore(row, outcome) == outcome = "transient" /\ row.attempt <= Retries
WillRetry(row, outcome) == outcome = "transient" /\ row.attempt + 1 <= Retries

\* One scheduled try is over: try again later, or finish the slot.
SettleScheduled(j, row, t, outcome) ==
    IF ~WillRetry(row, outcome) THEN FinishSlot(j, row, t)
    ELSE [row EXCEPT !.next = t + RetryDelay, !.attempt = @ + 1,
                     !.resume = IF row.attempt > 0 THEN @ ELSE Advance(j, row, t).next]

\* record_run: a new receipt, which waits for s or for nothing.
RecordRun(row, s) == [row EXCEPT !.waits = s]

\* An edit of the cadence, or of the one slot, as apply_job_edit merges it.
Reschedule(j, row, t) ==
    [row EXCEPT !.next = IF j \in Cadenced THEN None ELSE t + 1, !.attempt = 0, !.resume = None]
TogglePause(row) == [row EXCEPT !.paused = ~@]
=============================================================================
