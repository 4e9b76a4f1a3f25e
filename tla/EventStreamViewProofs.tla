----------------------- MODULE EventStreamViewProofs -----------------------
(***************************************************************************)
(* EventStream implements LogView: the window shows each event once and in *)
(* order, for any cap and any number of events, reconnects and restarts.   *)
(***************************************************************************)
EXTENDS EventStreamProofs

\* Neither a trim nor a restart loses the newest event.
NewestHeld == seq = 0 \/ seq \in log

\* The window shows nothing that it has yet to come to.
ShownPast == \A s \in shown : s <= last

ViewInv == IInv /\ QuietInv /\ CursorInv /\ NewestHeld /\ ShownPast

\* What a trim of the file drops from memory is a prefix.
LEMMA AppendTrims ==
    ASSUME IInv, AppendEvent
    PROVE  log' = log \/ \E n \in 1..seq : log' = From(log, n)
<1> DEFINE next == Lowest(unwritten)
           kept == Kept(disk \cup {next})
<1>1. /\ MaxEvents \in Nat /\ log \subseteq 1..MaxEvents /\ log \subseteq 1..seq
      /\ unwritten \in SUBSET (1..MaxEvents) /\ unwritten # {} /\ disk \subseteq 1..MaxEvents
      /\ disk \subseteq log /\ unwritten \subseteq log /\ \A d \in disk, u \in unwritten : d < u
  BY StreamBounds DEF IInv, Typed, Plain, Fields, Ordered, AppendEvent
<1>2. next \in unwritten
  BY <1>1, LowestIn
<1>3. log' = log \/ log' = From(log, Lowest(kept))
  BY DEF AppendEvent, DropBefore
<1> HIDE DEF next
<1>4. \A r \in disk \cup {next} : r <= next
  BY <1>1, <1>2
<1>5. disk \cup {next} \in SUBSET (1..MaxEvents)
  BY <1>1, <1>2
<1>6. kept \subseteq disk \cup {next} /\ next \in kept
  BY <1>4, <1>5, KeptIn
<1> HIDE DEF kept
<1>7. Lowest(kept) \in kept
  BY <1>1, <1>5, <1>6, LowestIn
<1>8. Lowest(kept) \in 1..seq
  BY <1>1, <1>2, <1>6, <1>7
<1> QED BY <1>3, <1>8

LEMMA AppendShows ==
    ASSUME IInv, NewestHeld, AppendEvent
    PROVE  NewestHeld' /\ [View!ViewNext]_(View!viewVars)
<1>1. /\ UNCHANGED <<seq, last, shown, restarts>> /\ seq \in Nat /\ log \subseteq 1..seq
      /\ seq # 0
  <2>1. seq \in Nat /\ log \subseteq 1..seq /\ unwritten # {} /\ unwritten \subseteq log
    BY DEF AppendEvent, IInv, Typed, Plain, Fields, Ordered
  <2>2. UNCHANGED <<seq, last, shown, restarts>>
    BY DEF AppendEvent, window, bounds
  <2>3. seq # 0
    <3>1. PICK u \in unwritten : u \in 1..seq
      BY <2>1
    <3> QED BY <2>1, <3>1
  <2> QED BY <2>1, <2>2, <2>3
<1>2. CASE log' = log
  <2>1. UNCHANGED <<seq, log, last, shown, restarts>>
    BY <1>1, <1>2
  <2> QED BY <2>1 DEF NewestHeld, View!viewVars
<1>3. ASSUME NEW n \in 1..seq, log' = From(log, n)
      PROVE  seq \in log' /\ View!Trim
  <2>1. log' \subseteq log /\ seq \in log'
    BY <1>1, <1>3 DEF NewestHeld, From
  <2>2. \A s \in log, r \in log' : r < s => s \in log'
    BY <1>1, <1>3 DEF From
  <2> QED BY <1>1, <2>1, <2>2 DEF View!Trim
<1>4. CASE log' # log
  <2>1. seq \in log' /\ View!Trim
    BY <1>3, <1>4, AppendTrims
  <2> QED BY <1>1, <2>1 DEF NewestHeld, View!ViewNext
<1> QED BY <1>2, <1>4

LEMMA RestartShows ==
    ASSUME "unwritten" \notin Mishaps, IInv, Restart
    PROVE  NewestHeld' /\ View!ComeBack
<1>1. seq' = seq /\ log' = disk /\ seq \in disk \cup {0} /\ UNCHANGED <<last, shown>>
  BY SeqReturns DEF Restart, window
<1>2. disk \subseteq log /\ restarts' = restarts + 1
  BY DEF Restart, IInv, Ordered
<1> QED BY <1>1, <1>2 DEF NewestHeld, View!ComeBack

\* A notice moves the cursor over what the log has no longer.
LEMMA NoticeShows ==
    ASSUME ViewInv, ReceiveNotice
    PROVE  NewestHeld' /\ ShownPast' /\ [View!ViewNext]_(View!viewVars)
<1> DEFINE n == Head(frames).trim
<1>1. /\ last \in Nat /\ seq \in Nat /\ log \subseteq 1..seq /\ shown \subseteq 1..MaxEvents
      /\ Typed
  BY DEF ViewInv, IInv, Typed, Plain, Fields
<1>2. UNCHANGED <<seq, log, shown, restarts>> /\ last' \in {last, Jump(n)}
  BY DEF ReceiveNotice, store, bounds
<1>3. n \in Nat /\ n <= seq /\ \A s \in log : n <= s
  <2>1. Head(frames) \in Frames
    BY <1>1, HeadFrame DEF ReceiveNotice
  <2> QED BY <2>1, StreamBounds DEF Frames
<1> HIDE DEF n
<1>4. last' = last \/ (last' = n - 1 /\ n - 1 > last)
  BY <1>2 DEF Jump
<1>5. CASE last' = last
  BY <1>2, <1>5 DEF ViewInv, NewestHeld, ShownPast, View!viewVars
<1>6. CASE last' = n - 1 /\ n - 1 > last
  <2>1. last' \in last + 1..seq - 1 /\ \A s \in log : s > last'
    BY <1>1, <1>3, <1>6
  <2>2. ShownPast'
    <3>1. \A s \in shown : s \in Nat /\ s <= last
      BY <1>1, StreamBounds DEF ViewInv, ShownPast
    <3> QED BY <1>1, <1>2, <2>1, <3>1 DEF ShownPast
  <2> QED BY <1>2, <2>1, <2>2 DEF ViewInv, NewestHeld, View!ViewNext, View!Skip
<1> QED BY <1>4, <1>5, <1>6

\* An event is shown when it is next, and only then.
LEMMA EventShows ==
    ASSUME ViewInv, ReceiveEvent
    PROVE  NewestHeld' /\ ShownPast' /\ [View!ViewNext]_(View!viewVars)
<1> DEFINE s == Lowest(Head(frames).run)
<1>1. /\ last \in Nat /\ seq \in Nat /\ shown \subseteq 1..MaxEvents /\ MaxEvents \in Nat
      /\ Typed /\ \A r \in shown : r <= last
  BY StreamBounds DEF ViewInv, IInv, Typed, Plain, Fields, ShownPast
<1>2. /\ UNCHANGED <<seq, log, restarts>> /\ up /\ frames # <<>> /\ Head(frames).trim = 0
  BY DEF ReceiveEvent, store, bounds
<1>3. s \in 1..seq
  BY <1>1, <1>2, HeadFrame
<1>4. CASE UNCHANGED <<last, shown>>
  BY <1>2, <1>4 DEF ViewInv, NewestHeld, ShownPast, View!viewVars
<1>5. CASE ~LeftBehind /\ s = last + 1 /\ last' = s /\ shown' = IF follows THEN shown \cup {s} ELSE shown
  <2>1. follows
    BY <1>2, <1>5 DEF ViewInv, QuietInv, Quiet, LeftBehind
  <2> HIDE DEF s
  <2>2. last < seq /\ last + 1 \notin shown
    BY <1>1, <1>3, <1>5
  <2>3. last' = last + 1 /\ shown' = shown \cup {last + 1}
    BY <1>5, <2>1
  <2>4. ShownPast'
    BY <1>1, <2>3 DEF ShownPast
  <2> QED BY <1>2, <2>2, <2>3, <2>4 DEF ViewInv, NewestHeld, View!ViewNext, View!Show
<1> QED BY <1>4, <1>5 DEF ReceiveEvent

LEMMA ViewStep ==
    ASSUME "unwritten" \notin Mishaps, ViewInv, [Next]_vars
    PROVE  NewestHeld' /\ ShownPast' /\ [View!ViewNext]_(View!viewVars)
<1> USE DEF store, server, wire, window, bounds
<1>1. CASE Logged
  <2>1. seq' = seq + 1 /\ log' = log \cup {seq + 1} /\ UNCHANGED <<last, shown, restarts>>
    BY <1>1 DEF Logged
  <2> QED BY <2>1 DEF ViewInv, NewestHeld, ShownPast, View!ViewNext, View!Log
<1>2. CASE AppendEvent
  <2>1. UNCHANGED <<last, shown>>
    BY <1>2 DEF AppendEvent
  <2> QED BY <1>2, <2>1, AppendShows DEF ViewInv, ShownPast
<1>3. CASE Restart
  <2>1. UNCHANGED <<last, shown>>
    BY <1>3 DEF Restart
  <2> QED BY <1>3, <2>1, RestartShows DEF ViewInv, ShownPast, View!ViewNext
<1>4. CASE Receive
  BY <1>4, NoticeShows, EventShows DEF Receive
<1>5. CASE Leave
  <2>1. last' = 0 /\ shown' = {} /\ UNCHANGED <<seq, log, restarts>>
    BY <1>5 DEF Leave
  <2> QED BY <2>1 DEF ViewInv, NewestHeld, ShownPast, View!ViewNext, View!Forget
<1>6. CASE UNCHANGED vars \/ AppendFails \/ Serve \/ LoseConnection \/ Reconnect \/ Open \/ ResumePage
  <2>1. UNCHANGED <<seq, log, last, shown, restarts>>
    BY <1>6 DEF vars, AppendFails, Serve, AttachBegins, SendNotice, Replay, CreateStream,
       StreamStarts, StreamSends, Detach, StaleCleanup, LoseConnection, Reconnect, Open, ResumePage
  <2> QED BY <2>1 DEF ViewInv, NewestHeld, ShownPast, View!viewVars
<1> QED BY <1>1, <1>2, <1>3, <1>4, <1>5, <1>6 DEF Next, Person

\* Replays, live streams, resumes, trims, reconnects and restarts in any order
\* come to this for the window: it shows each event once and in order, passes
\* over one only when the log has dropped it, and no number is given twice, if
\* the file has the newest event at each restart (client.ts, acceptSequenced
\* and log_trimmed): the stream implements LogView.
THEOREM WindowShowsTheLog == ASSUME "unwritten" \notin Mishaps PROVE Spec => ShowsTheLog
<1>1. Init => View!ViewInit /\ ViewInv
  <2>1. Init => NewestHeld /\ ShownPast /\ QuietInv /\ CursorInv /\ View!ViewInit
    BY DEF Init, NewestHeld, ShownPast, QuietInv, CursorInv, NoGap, CursorWithinLog, View!ViewInit
  <2> QED BY <2>1, InitTyped DEF ViewInv
<1>2. ViewInv /\ [Next]_vars => ViewInv' /\ [View!ViewNext]_(View!viewVars)
  BY IInvStep, QuietKept, CursorKept, ViewStep DEF ViewInv
<1> QED BY <1>1, <1>2, PTL DEF Spec, ShowsTheLog, View!ViewSpec
=============================================================================
