------------------------ MODULE SessionRestartProofs ------------------------
(***************************************************************************)
(* Theorems about SessionRestart, for any set of messages, any window of   *)
(* the log and any number of kills.                                        *)
(***************************************************************************)
EXTENDS SessionRestart, SequenceTheorems, TLAPS

Events ==
    [kind : {"user_turn", "turn_complete", "queued_messages", "other"},
     m : Messages \cup {None}, held : SUBSET Messages]

Writes ==
    [op : {"accept", "accept_anyway", "send", "remove", "logged"},
     m : Messages, rows : SUBSET Messages]

\* The types that the proofs need.
Typed ==
    /\ events \in Seq(Events) /\ loaded \in Seq(Events)
    /\ file \subseteq Messages /\ held \subseteq Messages /\ waiting \subseteq Messages
    /\ listing \subseteq [op : {"send", "remove"}, m : Messages]
    /\ queue \subseteq Messages /\ taken \subseteq Messages /\ logged \subseteq Messages
    /\ writing \in Writes \cup {NoWrite}
    /\ status \in [Messages -> {"new", "saving", "accepted", "refused", "unsaved", "removed",
                               "lost"}]
    /\ ran \in [Messages -> Nat]

\* The window is what is left of a log without its first d events, and never
\* loses the newest.
LEMMA WindowShift ==
    ASSUME NEW log \in Seq(Events)
    PROVE  /\ Window(log) \in Seq(Events)
           /\ \E d \in Nat :
                /\ Len(Window(log)) = Len(log) - d
                /\ Len(log) > 0 => d < Len(log)
                /\ \A i \in DOMAIN Window(log) :
                      d + i \in DOMAIN log /\ Window(log)[i] = log[d + i]
<1>1. CASE Len(log) <= LogMax
  <2>1. Window(log) = log /\ DOMAIN log = 1..Len(log) /\ Len(log) \in Nat
    BY <1>1, LenProperties DEF Window
  <2>2. /\ Len(log) = Len(log) - 0 /\ \A i \in DOMAIN log : 0 + i = i
    BY <2>1
  <2> QED BY <2>1, <2>2
<1>2. CASE Len(log) > LogMax
  <2> DEFINE d == Len(log) - TrimTo
             w == SubSeq(log, d + 1, Len(log))
  <2>1. /\ Len(log) \in Nat /\ d \in Nat /\ d < Len(log)
        /\ DOMAIN log = 1..Len(log) /\ d + 1 \in 1..Len(log) + 1 /\ Len(log) \in d..Len(log)
    BY <1>2, WindowAssumption, LenProperties
  <2>2. Window(log) = w
    BY <1>2, WindowAssumption, LenProperties DEF Window
  <2>3. /\ w \in Seq(Events) /\ Len(w) = Len(log) - d
        /\ \A i \in 1..Len(w) : w[i] = log[d + i]
    BY <2>1, SubSeqProperties
  <2> HIDE DEF d, w
  <2>4. DOMAIN w = 1..Len(w)
    BY <2>3, LenProperties
  <2> QED BY <2>1, <2>2, <2>3, <2>4
<1> QED BY <1>1, <1>2, WindowAssumption, LenProperties

\* What a step that logs an event does to the messages that the log shows as
\* started: it adds at most the one it logs, whatever the window drops.
LEMMA WindowOf ==
    ASSUME NEW log \in Seq(Events)
    PROVE  Window(log) \in Seq(Events) /\ Started(Window(log)) \subseteq Started(log)
BY WindowShift DEF Started, Of

LEMMA AppendStarts ==
    ASSUME NEW log \in Seq(Events), NEW event \in Events
    PROVE  /\ Append(log, event) \in Seq(Events)
           /\ Started(Append(log, event)) =
                  Started(log) \cup (IF event.kind = "user_turn" THEN {event.m} ELSE {})
<1>1. /\ Append(log, event) \in Seq(Events)
      /\ DOMAIN Append(log, event) = DOMAIN log \cup {Len(log) + 1}
      /\ \A i \in DOMAIN log : Append(log, event)[i] = log[i]
      /\ Append(log, event)[Len(log) + 1] = event
  BY AppendProperties, LenProperties
<1> QED BY <1>1 DEF Started, Of

LEMMA LogStarts ==
    ASSUME Typed, NEW event \in Events, Log(event)
    PROVE  /\ events' \in Seq(Events)
           /\ Started(events') \subseteq
                  Started(events) \cup (IF event.kind = "user_turn" THEN {event.m} ELSE {})
<1>1. events' = Window(Append(events, event))
  BY DEF Log
<1>2. events \in Seq(Events)
  BY DEF Typed
<1> DEFINE log == Append(events, event)
<1>3. /\ log \in Seq(Events)
      /\ Started(log) = Started(events) \cup (IF event.kind = "user_turn" THEN {event.m} ELSE {})
  BY <1>2, AppendStarts
<1>4. Window(log) \in Seq(Events) /\ Started(Window(log)) \subseteq Started(log)
  <2> HIDE DEF log
  <2> QED BY <1>3, WindowOf
<1> QED BY <1>1, <1>3, <1>4

\* The events the code logs, with what they start.
LEMMA KindsOfEvents ==
    /\ TurnComplete \in Events /\ TurnComplete.kind = "turn_complete"
    /\ Other \in Events /\ Other.kind = "other"
    /\ \A m \in Messages :
        UserTurn(m) \in Events /\ UserTurn(m).kind = "user_turn" /\ UserTurn(m).m = m
    /\ \A S \in SUBSET Messages :
        QueuedMessages(S) \in Events /\ QueuedMessages(S).kind = "queued_messages"
BY DEF Events, TurnComplete, Other, UserTurn, QueuedMessages

\* The types are inductive.
LEMMA WriteTyped ==
    ASSUME Typed, NEW op \in {"accept", "accept_anyway", "send", "remove", "logged"},
           NEW m \in Messages, NEW h \in SUBSET Messages, NEW w \in SUBSET Messages,
           Write(op, m, h, w)
    PROVE  held' \subseteq Messages /\ waiting' \subseteq Messages /\ writing' \in Writes
BY DEF Write, Writes, Rows

LEMMA TypedStep == Typed /\ [Next]_vars => Typed'
<1> SUFFICES ASSUME Typed, [Next]_vars PROVE Typed'
  OBVIOUS
<1> USE DEF disk, lists, loop, history
<1>1. CASE UNCHANGED vars
  BY <1>1 DEF Typed, vars
<1>2. ASSUME NEW event \in Events, Log(event), queue' \subseteq Messages,
             logged' \subseteq Messages, ran' \in [Messages -> Nat], loaded' \in Seq(Events),
             listing' \subseteq listing,
             UNCHANGED <<file, held, waiting, writing, taken, status>>
      PROVE  Typed'
  BY <1>2, LogStarts DEF Typed
<1>3. CASE LogOther
  <2>1. Log(Other) /\ UNCHANGED <<file, lists, writing, listing, loop, loaded, history>>
    BY <1>3 DEF LogOther
  <2> QED BY <1>2, <2>1, KindsOfEvents DEF Typed
<1>4. CASE Sending \/ Holding
  <2>1. ASSUME NEW m \in Messages, NEW strict \in BOOLEAN, Accept(m, strict) PROVE Typed'
    <3>1. PICK op \in {"accept", "accept_anyway"} : Write(op, m, held, waiting \cup {m})
      BY <2>1 DEF Accept
    <3>2. held' \subseteq Messages /\ waiting' \subseteq Messages /\ writing' \in Writes
      BY <3>1, WriteTyped DEF Typed
    <3> QED BY <2>1, <3>2 DEF Accept, Typed
  <2>2. ASSUME NEW m \in Messages, SendHeld(m) PROVE Typed'
    BY <2>2, WriteTyped DEF SendHeld, Typed
  <2>3. ASSUME NEW m \in Messages, RemoveHeld(m) PROVE Typed'
    BY <2>3, WriteTyped DEF RemoveHeld, Typed
  <2> QED BY <1>4, <2>1, <2>2, <2>3 DEF Sending, Holding
<1>5. CASE Written \/ WriteFails
  <2>1. ASSUME NEW ok \in BOOLEAN, writing # NoWrite, AfterWrite(ok), file' \subseteq Messages,
               UNCHANGED <<events, held, logged, loaded, ran>>
        PROVE  Typed'
    BY <2>1 DEF Typed, AfterWrite, Writes
  <2>2. CASE Written
    <3>1. file' \subseteq Messages
      BY <2>2 DEF Written, Typed, Writes
    <3> QED BY <2>1, <2>2, <3>1 DEF Written
  <2>3. CASE WriteFails
    BY <2>1, <2>3 DEF WriteFails, Typed
  <2> QED BY <1>5, <2>2, <2>3
<1>6. CASE Listing
  <2>1. QueuedMessages(held) \in Events
    BY KindsOfEvents DEF Typed
  <2>2. ASSUME NEW action \in listing, ListHeld(action) PROVE Typed'
    BY <1>2, <2>1, <2>2 DEF ListHeld, Typed
  <2>3. CASE AttachLists
    <3>1. /\ Log(QueuedMessages(held))
          /\ UNCHANGED <<file, lists, writing, listing, loop, loaded, history>>
      BY <2>3 DEF AttachLists
    <3> QED BY <1>2, <2>1, <3>1 DEF Typed
  <2> QED BY <1>6, <2>2, <2>3 DEF Listing, Typed
<1>7. CASE Turn
  <2>1. ASSUME NEW m \in Messages, Take(m) PROVE Typed'
    BY <2>1 DEF Take, Typed
  <2>2. ASSUME NEW m \in Messages, NEW block \in BOOLEAN, LogUserTurn(m, block) PROVE Typed'
    <3>1. /\ Log(UserTurn(m)) /\ logged' = logged \cup {m} /\ ran' = [ran EXCEPT ![m] = @ + 1]
          /\ UNCHANGED <<file, lists, writing, listing, taken, loaded, status>>
      BY <2>2 DEF LogUserTurn
    <3>2. logged' \subseteq Messages /\ ran' \in [Messages -> Nat]
      BY <3>1 DEF Typed
    <3> QED BY <1>2, <3>1, <3>2, KindsOfEvents DEF Typed
  <2>3. ASSUME NEW m \in Messages, LetGo(m) PROVE Typed'
    BY <2>3, WriteTyped DEF LetGo, Typed
  <2>4. ASSUME NEW S \in SUBSET Messages, InjectSteers(S) PROVE Typed'
    BY <2>4 DEF InjectSteers, Typed
  <2>5. CASE SaveTurn \/ Proceed \/ LoopOver
    BY <2>5 DEF SaveTurn, Proceed, LoopOver, Typed
  <2>6. CASE ReplyWithCalls \/ AppendResults \/ FinishTurn
    BY <2>6 DEF ReplyWithCalls, AppendResults, FinishTurn, SaveConversation, Typed
  <2>7. CASE EmitTurnComplete
    <3>1. /\ Log(TurnComplete)
          /\ UNCHANGED <<file, lists, writing, listing, taken, logged, loaded, history>>
      BY <2>7 DEF EmitTurnComplete
    <3> QED BY <1>2, <3>1, KindsOfEvents DEF Typed
  <2> QED BY <1>7, <2>1, <2>2, <2>3, <2>4, <2>5, <2>6, <2>7 DEF Turn
<1>8. CASE Crash
  BY <1>8 DEF Crash, Typed
<1>9. CASE Revive
  <2>1. CASE Load \/ SaveSealed
    BY <2>1 DEF Load, SaveSealed, Typed
  <2>2. CASE SealCutTurn
    <3>1. /\ Log(TurnComplete)
          /\ UNCHANGED <<file, lists, writing, listing, taken, logged, loaded, history>>
      BY <2>2 DEF SealCutTurn
    <3> QED BY <1>2, <3>1, KindsOfEvents DEF Typed
  <2>3. CASE RestoreHeld
    BY <2>3 DEF RestoreHeld, NotStarted, Typed
  <2>4. CASE ListAfterRestore
    <3>1. /\ Log(QueuedMessages(held)) \/ events' = events
          /\ loaded' = <<>>
          /\ UNCHANGED <<file, lists, writing, listing, taken, logged, history>>
      BY <2>4 DEF ListAfterRestore
    <3>2. loaded' \in Seq(Events)
      BY <3>1
    <3>3. CASE Log(QueuedMessages(held))
      BY <1>2, <3>1, <3>2, <3>3, KindsOfEvents DEF Typed
    <3>4. CASE events' = events
      BY <3>1, <3>2, <3>4 DEF Typed
    <3> QED BY <3>1, <3>3, <3>4
  <2> QED BY <1>9, <2>1, <2>2, <2>3, <2>4 DEF Revive
<1> QED BY <1>1, <1>3, <1>4, <1>5, <1>6, <1>7, <1>8, <1>9 DEF Next

----------------------------------------------------------------------------
\* An accepted message is in the log or in the queue file.

\* Where a message that has not started is kept in memory.
Kept(m) == m \in held \cup waiting
Accepted(m) == status[m] = "accepted" /\ ran[m] = 0

\* The rows that are being written are what is held and what waits, for as long
\* as the queue lock is held, and a message being accepted is one of them.
RowsCover ==
    /\ writing # NoWrite => writing.rows = held \cup waiting
    /\ writing.op \in {"accept", "accept_anyway"} => writing.m \in waiting
    /\ ~Up => writing = NoWrite

\* While the queue can be written, every accepted message is among its rows.
MemoryCovers ==
    Up \/ pc = "listing_held" => \A m \in Messages : Accepted(m) => Kept(m)

\* Only messages that have started leave the queue or are found in the log.
LogCovers ==
    /\ \A m \in logged : ran[m] > 0
    /\ pc = "letting_go" => \A m \in taken : ran[m] > 0
    /\ \A m \in Messages \cap (Started(events) \cup Started(loaded)) : ran[m] > 0

IInv == Typed /\ NeverInNeither /\ RowsCover /\ MemoryCovers /\ LogCovers

LEMMA InitIInv == Init => IInv
<1> SUFFICES ASSUME Init PROVE IInv
  OBVIOUS
<1>1. Started(<<>>) = {}
  BY DEF Started, Of
<1>2. Typed
  BY DEF Init, Typed
<1> QED BY <1>1, <1>2 DEF Init, IInv, NeverInNeither, RowsCover, MemoryCovers, LogCovers,
   Accepted, Kept, NoWrite, Up

\* A step that writes no file but the log, and starts no message, keeps the
\* invariant.
LEMMA QuietKeeps ==
    ASSUME IInv, Typed', UNCHANGED <<file, held, waiting, writing, status, ran>>,
           Started(events') \subseteq Started(events),
           Started(loaded') \subseteq Started(events) \cup Started(loaded),
           Up' => Up \/ pc = "listing_held",
           Up => Up',
           pc' = "listing_held" => pc = "listing_held",
           logged' \subseteq logged,
           pc' = "letting_go" => \A m \in taken' : ran[m] > 0
    PROVE  IInv'
<1>1. NeverInNeither'
  BY DEF IInv, NeverInNeither
<1>2. RowsCover'
  BY DEF IInv, RowsCover
<1>3. MemoryCovers'
  BY DEF IInv, MemoryCovers, Accepted, Kept
<1>4. LogCovers'
  BY DEF IInv, LogCovers
<1> QED BY <1>1, <1>2, <1>3, <1>4 DEF IInv

\* What is logged here starts no message.
LEMMA QuietLog ==
    ASSUME IInv, Log(Other) \/ Log(TurnComplete) \/ Log(QueuedMessages(held))
    PROVE  Started(events') \subseteq Started(events)
<1>1. Typed /\ held \in SUBSET Messages
  BY DEF IInv, Typed
<1>2. PICK event \in Events : Log(event) /\ event.kind # "user_turn"
  BY <1>1, KindsOfEvents
<1> QED BY <1>1, <1>2, LogStarts

\* The steps of the loop that start no message, and the other quiet ones.
LEMMA QuietSteps ==
    ASSUME IInv, Typed',
           \/ LogOther \/ Listing \/ SaveTurn \/ Proceed \/ LoopOver \/ EmitTurnComplete
           \/ ReplyWithCalls \/ AppendResults \/ FinishTurn
           \/ (\E m \in Messages : Take(m)) \/ (\E S \in SUBSET Messages : InjectSteers(S))
           \/ Load \/ SealCutTurn \/ SaveSealed \/ ListAfterRestore
    PROVE  IInv'
<1> USE DEF disk, lists, loop, history, Up
<1>1. CASE LogOther
  BY <1>1, QuietLog, QuietKeeps DEF LogOther, IInv, LogCovers
<1>2. CASE Listing
  BY <1>2, QuietLog, QuietKeeps DEF Listing, ListHeld, AttachLists, IInv, LogCovers
<1>3. CASE SaveTurn
  BY <1>3, QuietKeeps DEF SaveTurn, IInv, LogCovers
<1>4. CASE Proceed \/ LoopOver
  BY <1>4, QuietKeeps DEF Proceed, LoopOver, Live
<1>5. CASE EmitTurnComplete
  BY <1>5, QuietLog, QuietKeeps DEF EmitTurnComplete
<1>6. CASE ReplyWithCalls \/ AppendResults \/ FinishTurn
  BY <1>6, QuietKeeps DEF ReplyWithCalls, AppendResults, FinishTurn, SaveConversation
<1>7. ASSUME NEW m \in Messages, Take(m) PROVE IInv'
  BY <1>7, QuietKeeps DEF Take
<1>8. ASSUME NEW S \in SUBSET Messages, InjectSteers(S) PROVE IInv'
  BY <1>8, QuietKeeps DEF InjectSteers
<1>9. CASE Load \/ SaveSealed
  BY <1>9, QuietKeeps DEF Load, SaveSealed
<1>10. CASE SealCutTurn
  BY <1>10, QuietLog, QuietKeeps DEF SealCutTurn
<1>11. CASE ListAfterRestore
  <2>1. Started(<<>>) = {}
    BY DEF Started, Of
  <2>2. Started(events') \subseteq Started(events)
    BY <1>11, QuietLog DEF ListAfterRestore
  <2> QED BY <1>11, <2>1, <2>2, QuietKeeps DEF ListAfterRestore
<1> QED BY <1>1, <1>2, <1>3, <1>4, <1>5, <1>6, <1>7, <1>8, <1>9, <1>10, <1>11

\* A message starts: from then on the log has it.
LEMMA StartKeeps ==
    ASSUME IInv, Typed', NEW m \in Messages, NEW block \in BOOLEAN, LogUserTurn(m, block)
    PROVE  IInv'
<1>1. /\ Log(UserTurn(m)) /\ pc = "logging" /\ pc' = pc /\ logged' = logged \cup {m}
      /\ UNCHANGED <<file, held, waiting, writing, loaded, status>>
  BY DEF LogUserTurn, lists
<1>2. \A n \in Messages : ran'[n] >= ran[n] /\ (n = m => ran'[n] > 0)
  BY DEF LogUserTurn, IInv, Typed
<1>3. Started(events') \subseteq Started(events) \cup {m}
  BY <1>1, KindsOfEvents, LogStarts DEF IInv
<1>4. /\ logged \subseteq Messages /\ \A n \in Messages : ran[n] \in Nat /\ ran'[n] \in Nat
  BY DEF IInv, Typed
<1>5. NeverInNeither' /\ RowsCover' /\ MemoryCovers'
  BY <1>1, <1>2, <1>4 DEF IInv, NeverInNeither, RowsCover, MemoryCovers, Accepted, Kept, Up
<1>6. LogCovers'
  BY <1>1, <1>2, <1>3, <1>4 DEF IInv, LogCovers
<1> QED BY <1>5, <1>6 DEF IInv

\* The holder of the queue lock begins to write.  Only a message that has
\* started is left out, or one that a person removed.
LEMMA BeginWriteKeeps ==
    ASSUME IInv, Typed', Sending \/ Holding \/ (\E m \in Messages : LetGo(m))
    PROVE  IInv'
<1> USE DEF disk, lists, loop, history
<1>1. ASSUME NEW op \in {"accept", "accept_anyway", "send", "remove", "logged"}, NEW m \in Messages,
             NEW h \in SUBSET Messages, NEW w \in SUBSET Messages, Write(op, m, h, w), Up,
             op \in {"accept", "accept_anyway"} => m \in w,
             \A n \in Messages :
                 n \in held \cup waiting => n \in h \cup w \/ ran[n] > 0 \/ status'[n] = "removed",
             \A n \in Messages : status'[n] = "accepted" => status[n] = "accepted",
             UNCHANGED <<events, file, loaded, pc, taken, logged, ran>>
      PROVE  IInv'
  <2>1. /\ held' = h /\ waiting' = w /\ writing' = [op |-> op, m |-> m, rows |-> h \cup w]
    BY <1>1 DEF Write, Rows
  <2>2. NeverInNeither' /\ LogCovers'
    BY <1>1 DEF IInv, NeverInNeither, LogCovers
  <2>3. RowsCover'
    BY <1>1, <2>1 DEF RowsCover, Up
  <2>4. MemoryCovers'
    <3>1. ASSUME NEW n \in Messages, Accepted(n)' PROVE Kept(n)'
      <4>1. Accepted(n) /\ ran[n] = 0 /\ status'[n] # "removed"
        BY <1>1, <3>1 DEF Accepted
      <4>2. n \in held \cup waiting
        BY <1>1, <4>1 DEF IInv, MemoryCovers, Kept
      <4>3. n \in h \cup w
        BY <1>1, <4>1, <4>2
      <4> QED BY <2>1, <4>3 DEF Kept
    <3> QED BY <3>1 DEF MemoryCovers
  <2> QED BY <2>2, <2>3, <2>4 DEF IInv
<1>2. held \in SUBSET Messages /\ waiting \in SUBSET Messages /\ taken \subseteq Messages
  BY DEF IInv, Typed
<1>3. ASSUME NEW m \in Messages, NEW strict \in BOOLEAN, Accept(m, strict) PROVE IInv'
  <2>1. PICK op \in {"accept", "accept_anyway"} : Write(op, m, held, waiting \cup {m})
    BY <1>3 DEF Accept
  <2>2. /\ Up /\ UNCHANGED <<events, file, loaded, pc, taken, logged, ran>>
        /\ \A n \in Messages : status'[n] = "accepted" => status[n] = "accepted"
    BY <1>3 DEF Accept, Live, IInv, Typed
  <2> QED BY <1>1, <1>2, <2>1, <2>2
<1>4. ASSUME NEW m \in Messages, SendHeld(m) PROVE IInv'
  <2>1. Write("send", m, held \ {m}, waiting \cup {m})
    BY <1>4 DEF SendHeld
  <2>2. Up /\ UNCHANGED <<events, file, loaded, pc, taken, logged, ran, status>>
    BY <1>4 DEF SendHeld, Live
  <2> QED BY <1>1, <1>2, <2>1, <2>2
<1>5. ASSUME NEW m \in Messages, RemoveHeld(m) PROVE IInv'
  <2>1. Write("remove", m, held \ {m}, waiting)
    BY <1>5 DEF RemoveHeld
  <2>2. /\ Up /\ status'[m] = "removed"
        /\ UNCHANGED <<events, file, loaded, pc, taken, logged, ran>>
        /\ \A n \in Messages : status'[n] = "accepted" => status[n] = "accepted"
    BY <1>5 DEF RemoveHeld, IInv, Typed
  <2> QED BY <1>1, <1>2, <2>1, <2>2
<1>6. ASSUME NEW m \in Messages, LetGo(m) PROVE IInv'
  <2>1. Write("logged", m, held, waiting \ {m})
    BY <1>6 DEF LetGo
  <2>2. Up /\ UNCHANGED <<events, file, loaded, pc, taken, logged, ran, status>> /\ ran[m] > 0
    BY <1>6 DEF LetGo, Up, IInv, LogCovers
  <2> QED BY <1>1, <1>2, <2>1, <2>2
<1> QED BY <1>3, <1>4, <1>5, <1>6 DEF Sending, Holding

\* The write of the queue file succeeds or fails.
LEMMA EndWriteKeeps == ASSUME IInv, Typed', Written \/ WriteFails PROVE IInv'
<1>1. PICK ok \in BOOLEAN : AfterWrite(ok) /\ file' = IF ok THEN writing.rows ELSE file
  BY DEF Written, WriteFails, disk
<1>2. /\ writing # NoWrite /\ writing \in Writes /\ writing.rows = held \cup waiting /\ Up
      /\ UNCHANGED <<events, held, pc, logged, loaded, ran>>
  BY DEF Written, WriteFails, disk, IInv, Typed, RowsCover
<1>3. /\ writing' = NoWrite /\ taken' \subseteq taken
      /\ waiting' = waiting \/ (waiting' = waiting \ {writing.m} /\ status'[writing.m] = "refused")
      /\ \A n \in Messages : status'[n] = "accepted" =>
            status[n] = "accepted" \/ (ok /\ n \in waiting)
  BY <1>1, <1>2 DEF AfterWrite, IInv, Typed, Writes, RowsCover
<1>4. MemoryCovers'
  BY <1>2, <1>3 DEF IInv, MemoryCovers, Accepted, Kept, Up
<1>5. NeverInNeither'
  <2>1. CASE ok
    <3>1. file' = held \cup waiting /\ \A m \in Messages : ran[m] \in Nat
      BY <1>1, <1>2, <2>1 DEF IInv, Typed
    <3> QED BY <1>2, <1>3, <3>1 DEF IInv, MemoryCovers, Accepted, Kept, NeverInNeither
  <2>2. CASE ~ok
    BY <1>1, <1>2, <1>3, <2>2 DEF IInv, NeverInNeither
  <2> QED BY <2>1, <2>2
<1>6. RowsCover' /\ LogCovers'
  BY <1>2, <1>3 DEF IInv, RowsCover, LogCovers, NoWrite
<1> QED BY <1>4, <1>5, <1>6 DEF IInv

\* A kill, and the rows that the next daemon holds.
LEMMA CrashKeeps == ASSUME IInv, Typed', Crash PROVE IInv'
<1>1. Started(<<>>) = {}
  BY DEF Started, Of
<1> QED BY <1>1 DEF Crash, disk, IInv, Typed, NeverInNeither, RowsCover, MemoryCovers, LogCovers,
   NoWrite, Up

LEMMA RestoreKeeps == ASSUME IInv, Typed', RestoreHeld PROVE IInv'
<1>1. /\ held' = file \ Started(loaded) /\ file' \in {file, file \ Started(loaded)}
      /\ pc = "restoring" /\ pc' = "listing_held"
      /\ UNCHANGED <<events, waiting, writing, taken, logged, loaded, status, ran>>
  BY DEF RestoreHeld, NotStarted, history
<1>2. \A m \in Messages : m \in Started(loaded) => ran[m] > 0
  BY DEF IInv, LogCovers
<1>3. \A m \in Messages : ran[m] \in Nat
  BY DEF IInv, Typed
<1>4. NeverInNeither' /\ MemoryCovers'
  BY <1>1, <1>2, <1>3 DEF IInv, NeverInNeither, MemoryCovers, Accepted, Kept, Up
<1>5. RowsCover' /\ LogCovers'
  BY <1>1 DEF IInv, RowsCover, LogCovers, Up, NoWrite
<1> QED BY <1>4, <1>5 DEF IInv

LEMMA IInvStep == IInv /\ [Next]_vars => IInv'
<1> SUFFICES ASSUME IInv, [Next]_vars PROVE IInv'
  OBVIOUS
<1>1. Typed'
  BY TypedStep DEF IInv
<1>2. CASE UNCHANGED vars
  BY <1>1, <1>2, QuietKeeps DEF vars, disk, lists, loop, history, Up, IInv, LogCovers
<1>3. CASE Turn
  BY <1>1, <1>3, QuietSteps, StartKeeps, BeginWriteKeeps DEF Turn
<1>4. CASE Revive
  BY <1>1, <1>4, QuietSteps, RestoreKeeps DEF Revive
<1> QED BY <1>1, <1>2, <1>3, <1>4, QuietSteps, BeginWriteKeeps, EndWriteKeeps, CrashKeeps DEF Next

\* IInv holds in every reachable state.
THEOREM Invariance == Spec => []IInv
BY InitIInv, IInvStep, PTL DEF Spec

\* "A stop between any two of those writes finds the message in the log or in the
\* queue file, never in neither" (Session.user_turn_logged): whatever writes of
\* the file fail, wherever the daemon is killed, and however short the window.
THEOREM NothingIsLost == Spec => []NeverInNeither
<1>1. IInv => NeverInNeither
  BY DEF IInv
<1> QED BY <1>1, Invariance, PTL

----------------------------------------------------------------------------
\* A message runs once, unless the window drops the start of one whose row is
\* still in the queue file.

\* The four places a message passes on its way from a client, or from the held
\* ones, to a turn.
InWrite == IF writing.op \in {"accept", "accept_anyway", "send"} THEN {writing.m} ELSE {}
InListing == {action.m : action \in {a \in listing : a.op = "send"}}
ToLog == IF pc = "logging" THEN taken \ logged ELSE {}
OnItsWay == InWrite \cup InListing \cup queue \cup ToLog

\* It is in one of them at a time, and it waits; what is held does not wait.
OnePlace ==
    /\ InWrite \cap InListing = {} /\ InWrite \cap queue = {} /\ InWrite \cap ToLog = {}
    /\ InListing \cap queue = {} /\ InListing \cap ToLog = {} /\ queue \cap ToLog = {}
    /\ OnItsWay \subseteq waiting
    /\ held \cap waiting = {}

\* Nothing on its way, or held, has started, and nothing starts twice.
NotStartedYet ==
    /\ \A m \in OnItsWay \cup held : ran[m] = 0
    /\ \A m \in Messages : ran[m] <= 1

\* What has started and still has a row is found in the log.
RowsTold ==
    /\ \A m \in waiting \cup file : ran[m] > 0 => m \in Started(events)
    /\ pc \in {"sealing", "saving_seal", "restoring"} =>
           \A m \in file : ran[m] > 0 => m \in Started(loaded)

NewIsNowhere ==
    \A m \in Messages :
        status[m] = "new" => ran[m] = 0 /\ m \notin file \cup waiting \cup held

\* A daemon that starts has nothing in memory until it restores the queue.
StartsEmpty ==
    /\ ~Up => waiting = {} /\ queue = {} /\ listing = {}
    /\ ~Up /\ pc # "listing_held" => held = {}

OnceInv == OnePlace /\ NotStartedYet /\ RowsTold /\ NewIsNowhere /\ StartsEmpty

LEMMA InitOnce == Init => OnceInv
BY DEF Init, OnceInv, OnePlace, NotStartedYet, RowsTold, NewIsNowhere, StartsEmpty, OnItsWay,
   InWrite, InListing, ToLog, NoWrite, Up

\* The newest event stays in the window.
LEMMA WindowEnds ==
    ASSUME NEW log \in Seq(Events), Len(log) > 0
    PROVE  /\ Len(Window(log)) \in DOMAIN Window(log)
           /\ Window(log)[Len(Window(log))] = log[Len(log)]
           /\ log[Len(log)].kind = "user_turn" => log[Len(log)].m \in Started(Window(log))
<1> DEFINE w == Window(log)
<1>1. Len(w) \in DOMAIN w /\ w[Len(w)] = log[Len(log)]
  <2>1. PICK d \in Nat :
           /\ Len(w) = Len(log) - d /\ d < Len(log)
           /\ \A i \in DOMAIN w : w[i] = log[d + i]
    BY WindowShift
  <2>2. w \in Seq(Events)
    BY WindowShift
  <2> HIDE DEF w
  <2>3. DOMAIN w = 1..Len(w) /\ Len(w) \in Nat /\ Len(log) \in Nat
    BY <2>2, LenProperties
  <2> QED BY <2>1, <2>3
<1> HIDE DEF w
<1>2. w[Len(w)].kind = "user_turn" => w[Len(w)].m \in Started(w)
  BY <1>1 DEF Started, Of
<1> QED BY <1>1, <1>2 DEF w

\* What is logged does not hide the start of a message that still has a row.
LEMMA LogTells ==
    ASSUME "stale_row" \notin Mishaps, Typed, NEW event \in Events, Log(event)
    PROVE  /\ Started(events) \cap (waiting \cup file) \subseteq Started(events')
           /\ event.kind = "user_turn" => event.m \in Started(events')
<1>1. /\ events' = Window(Append(events, event))
      /\ Started(events) \cap (waiting \cup file) \subseteq Started(events')
  BY DEF Log
<1> DEFINE log == Append(events, event)
<1>2. log \in Seq(Events) /\ Len(log) > 0 /\ log[Len(log)] = event
  BY AppendProperties, LenProperties DEF Typed
<1> HIDE DEF log
<1>3. event.kind = "user_turn" => event.m \in Started(Window(log))
  BY <1>2, WindowEnds
<1> QED BY <1>1, <1>3 DEF log

\* A step that moves no message keeps the invariant.
LEMMA StillKeeps ==
    ASSUME OnceInv, UNCHANGED <<file, held, waiting, queue, writing, listing, status, ran>>,
           ToLog' \subseteq ToLog,
           Started(events) \cap (waiting \cup file) \subseteq Started(events'),
           pc' \in {"sealing", "saving_seal", "restoring"} =>
               \A m \in file : ran[m] > 0 => m \in Started(loaded'),
           ~Up' => ~Up /\ (pc' = "listing_held" \/ pc # "listing_held")
    PROVE  OnceInv'
<1>1. OnePlace'
  BY DEF OnceInv, OnePlace, OnItsWay, InWrite, InListing
<1>2. NotStartedYet'
  BY DEF OnceInv, NotStartedYet, OnItsWay, InWrite, InListing
<1>3. RowsTold'
  BY DEF OnceInv, RowsTold
<1>4. NewIsNowhere' /\ StartsEmpty'
  BY DEF OnceInv, NewIsNowhere, StartsEmpty
<1> QED BY <1>1, <1>2, <1>3, <1>4 DEF OnceInv

LEMMA StillSteps ==
    ASSUME "stale_row" \notin Mishaps, IInv, OnceInv,
           \/ LogOther \/ AttachLists \/ SaveTurn \/ Proceed \/ LoopOver \/ EmitTurnComplete
           \/ ReplyWithCalls \/ AppendResults \/ FinishTurn
           \/ Load \/ SealCutTurn \/ SaveSealed \/ ListAfterRestore
    PROVE  OnceInv'
<1> USE DEF disk, lists, loop, history, Up, ToLog
<1>1. ASSUME Log(Other) \/ Log(TurnComplete) \/ Log(QueuedMessages(held)) \/ events' = events
      PROVE  Started(events) \cap (waiting \cup file) \subseteq Started(events')
  <2>1. Typed /\ held \in SUBSET Messages
    BY DEF IInv, Typed
  <2> QED BY <1>1, <2>1, KindsOfEvents, LogTells
<1>2. CASE LogOther \/ AttachLists
  BY <1>1, <1>2, StillKeeps DEF LogOther, AttachLists, OnceInv, RowsTold
<1>3. CASE SaveTurn \/ Proceed \/ LoopOver
  BY <1>3, StillKeeps DEF SaveTurn, Proceed, LoopOver, Live
<1>4. CASE EmitTurnComplete
  BY <1>1, <1>4, StillKeeps DEF EmitTurnComplete
<1>5. CASE ReplyWithCalls \/ AppendResults \/ FinishTurn
  BY <1>5, StillKeeps DEF ReplyWithCalls, AppendResults, FinishTurn, SaveConversation
<1>6. CASE Load
  BY <1>6, StillKeeps DEF Load, OnceInv, RowsTold
<1>7. CASE SealCutTurn
  BY <1>1, <1>7, StillKeeps DEF SealCutTurn, OnceInv, RowsTold
<1>8. CASE SaveSealed
  BY <1>8, StillKeeps DEF SaveSealed, OnceInv, RowsTold
<1>9. CASE ListAfterRestore
  BY <1>1, <1>9, StillKeeps DEF ListAfterRestore
<1> QED BY <1>2, <1>3, <1>4, <1>5, <1>6, <1>7, <1>8, <1>9

\* The loop takes messages from its queue.
LEMMA TakeOnce ==
    ASSUME IInv, OnceInv,
           (\E m \in Messages : Take(m)) \/ (\E S \in SUBSET Messages : InjectSteers(S))
    PROVE  OnceInv'
<1>1. PICK S \in SUBSET Messages :
          /\ S \subseteq queue /\ queue' = queue \ S /\ ToLog' = S /\ ToLog = {} /\ Up /\ Up'
          /\ pc' = "logging"
          /\ UNCHANGED <<events, file, held, waiting, writing, listing, loaded, status, ran>>
  <2>1. ASSUME NEW m \in Messages, Take(m)
        PROVE  /\ {m} \subseteq queue /\ queue' = queue \ {m} /\ ToLog' = {m} /\ ToLog = {}
               /\ Up /\ Up' /\ pc' = "logging"
               /\ UNCHANGED <<events, file, held, waiting, writing, listing, loaded, status, ran>>
    BY <2>1 DEF Take, ToLog, Up, disk, history
  <2>2. ASSUME NEW S \in SUBSET Messages, InjectSteers(S)
        PROVE  /\ S \subseteq queue /\ queue' = queue \ S /\ ToLog' = S /\ ToLog = {}
               /\ Up /\ Up' /\ pc' = "logging"
               /\ UNCHANGED <<events, file, held, waiting, writing, listing, loaded, status, ran>>
    BY <2>2 DEF InjectSteers, ToLog, Up, disk, history
  <2> QED BY <2>1, <2>2
<1>2. InWrite' = InWrite /\ InListing' = InListing
  BY <1>1 DEF InWrite, InListing
<1>3. OnePlace' /\ NotStartedYet'
  BY <1>1, <1>2 DEF OnceInv, OnePlace, NotStartedYet, OnItsWay
<1>4. RowsTold' /\ NewIsNowhere' /\ StartsEmpty'
  BY <1>1 DEF OnceInv, RowsTold, NewIsNowhere, StartsEmpty
<1> QED BY <1>3, <1>4 DEF OnceInv

\* A message starts for the first and last time.
LEMMA StartOnce ==
    ASSUME "stale_row" \notin Mishaps, IInv, OnceInv,
           NEW m \in Messages, NEW block \in BOOLEAN, LogUserTurn(m, block)
    PROVE  OnceInv'
<1>1. /\ Log(UserTurn(m)) /\ pc = "logging" /\ pc' = "logging"
      /\ m \in ToLog /\ ToLog' = ToLog \ {m}
      /\ UNCHANGED <<file, held, waiting, queue, writing, listing, loaded, status>>
  BY DEF LogUserTurn, ToLog, lists
<1>2. ran' = [n \in Messages |-> IF n = m THEN ran[n] + 1 ELSE ran[n]]
  BY Zenon DEF LogUserTurn, IInv, Typed
<1>3. /\ m \in waiting /\ ran[m] = 0 /\ m \notin held
      /\ m \notin InWrite \cup InListing \cup queue
  BY <1>1 DEF OnceInv, OnePlace, OnItsWay, NotStartedYet
<1>4. /\ Started(events) \cap (waiting \cup file) \subseteq Started(events')
      /\ m \in Started(events')
  BY <1>1, KindsOfEvents, LogTells DEF IInv
<1>5. InWrite' = InWrite /\ InListing' = InListing
  BY <1>1 DEF InWrite, InListing
<1>6. OnePlace'
  BY <1>1, <1>5 DEF OnceInv, OnePlace, OnItsWay
<1>7. NotStartedYet'
  <2>1. OnItsWay \cup held \subseteq Messages
    BY DEF OnceInv, OnePlace, IInv, Typed
  <2>2. OnItsWay' \cup held' \subseteq (OnItsWay \cup held) \ {m}
    BY <1>1, <1>3, <1>5 DEF OnItsWay
  <2> QED BY <1>2, <1>3, <2>1, <2>2 DEF OnceInv, NotStartedYet
<1>8. RowsTold'
  <2>1. waiting \cup file \subseteq Messages
    BY DEF IInv, Typed
  <2> QED BY <1>1, <1>2, <1>4, <2>1 DEF OnceInv, RowsTold
<1>9. NewIsNowhere' /\ StartsEmpty'
  BY <1>1, <1>2, <1>3 DEF OnceInv, NewIsNowhere, StartsEmpty, Up
<1> QED BY <1>6, <1>7, <1>8, <1>9 DEF OnceInv

\* A write begins with a new message, with one that was held, or without one.
LEMMA BeginWriteOnce ==
    ASSUME IInv, OnceInv, Sending \/ Holding \/ (\E m \in Messages : LetGo(m))
    PROVE  OnceInv'
<1> USE DEF disk, lists, loop, history
<1> DEFINE Frame == UNCHANGED <<events, file, queue, listing, loaded, pc, taken, logged, ran>>
<1>1. ToLog \subseteq waiting /\ (\A n \in Messages : ran[n] \in Nat)
  BY DEF OnceInv, OnePlace, OnItsWay, IInv, Typed
<1>2. ASSUME NEW m \in Messages, NEW strict \in BOOLEAN, Accept(m, strict) PROVE OnceInv'
  <2>1. /\ writing = NoWrite /\ held' = held /\ waiting' = waiting \cup {m} /\ InWrite' = {m}
        /\ status[m] = "new" /\ status' = [status EXCEPT ![m] = "saving"] /\ Up /\ Frame
    BY <1>2 DEF Accept, Write, InWrite, Live
  <2>2. ran[m] = 0 /\ m \notin file \cup waiting \cup held /\ InWrite = {}
    BY <2>1 DEF OnceInv, NewIsNowhere, InWrite, NoWrite
  <2>3. ToLog' = ToLog /\ InListing' = InListing
    BY <2>1 DEF ToLog, InListing
  <2>4. OnePlace' /\ NotStartedYet'
    BY <2>1, <2>2, <2>3 DEF OnceInv, OnePlace, OnItsWay, NotStartedYet
  <2>5. RowsTold' /\ NewIsNowhere' /\ StartsEmpty'
    BY <2>1, <2>2 DEF OnceInv, RowsTold, NewIsNowhere, StartsEmpty, Up, IInv, Typed
  <2> QED BY <2>4, <2>5 DEF OnceInv
<1>3. ASSUME NEW m \in Messages, SendHeld(m) PROVE OnceInv'
  <2>1. /\ writing = NoWrite /\ m \in held /\ held' = held \ {m} /\ waiting' = waiting \cup {m}
        /\ InWrite' = {m} /\ status' = status /\ Up /\ Frame
    BY <1>3 DEF SendHeld, Write, InWrite, Live
  <2>2. ran[m] = 0 /\ m \notin waiting /\ InWrite = {}
    BY <2>1 DEF OnceInv, OnePlace, NotStartedYet, InWrite, NoWrite
  <2>3. ToLog' = ToLog /\ InListing' = InListing
    BY <2>1 DEF ToLog, InListing
  <2>4. OnePlace' /\ NotStartedYet'
    BY <2>1, <2>2, <2>3 DEF OnceInv, OnePlace, OnItsWay, NotStartedYet
  <2>5. RowsTold' /\ NewIsNowhere' /\ StartsEmpty'
    BY <2>1, <2>2 DEF OnceInv, RowsTold, NewIsNowhere, StartsEmpty, Up
  <2> QED BY <2>4, <2>5 DEF OnceInv
<1>4. ASSUME NEW m \in Messages, RemoveHeld(m) PROVE OnceInv'
  <2>1. /\ writing = NoWrite /\ held' = held \ {m} /\ waiting' = waiting /\ InWrite' = {}
        /\ status' = [status EXCEPT ![m] = "removed"] /\ Up /\ Frame
    BY <1>4 DEF RemoveHeld, Write, InWrite, Live
  <2>2. InWrite = {} /\ ToLog' = ToLog /\ InListing' = InListing
    BY <2>1 DEF ToLog, InListing, InWrite, NoWrite
  <2>3. OnePlace' /\ NotStartedYet'
    BY <2>1, <2>2 DEF OnceInv, OnePlace, OnItsWay, NotStartedYet
  <2>4. RowsTold' /\ NewIsNowhere' /\ StartsEmpty'
    BY <2>1 DEF OnceInv, RowsTold, NewIsNowhere, StartsEmpty, Up, IInv, Typed
  <2> QED BY <2>3, <2>4 DEF OnceInv
<1>5. ASSUME NEW m \in Messages, LetGo(m) PROVE OnceInv'
  <2>1. /\ writing = NoWrite /\ held' = held /\ waiting' = waiting \ {m} /\ InWrite' = {}
        /\ status' = status /\ pc = "letting_go" /\ m \in taken /\ Frame
    BY <1>5 DEF LetGo, Write, InWrite
  <2>2. InWrite = {} /\ ToLog' = ToLog /\ InListing' = InListing
    BY <2>1 DEF ToLog, InListing, InWrite, NoWrite
  <2>3. ran[m] > 0
    BY <2>1 DEF IInv, LogCovers
  <2>4. m \notin OnItsWay
    BY <2>3 DEF OnceInv, NotStartedYet
  <2>5. OnePlace' /\ NotStartedYet'
    BY <2>1, <2>2, <2>4 DEF OnceInv, OnePlace, OnItsWay, NotStartedYet
  <2>6. RowsTold' /\ NewIsNowhere' /\ StartsEmpty'
    BY <2>1 DEF OnceInv, RowsTold, NewIsNowhere, StartsEmpty, Up
  <2> QED BY <2>5, <2>6 DEF OnceInv
<1> QED BY <1>2, <1>3, <1>4, <1>5 DEF Sending, Holding

\* The write ends: a message goes on to the loop's queue or to the listing of
\* the held ones, or is refused.
LEMMA EndWriteOnce == ASSUME IInv, OnceInv, Written \/ WriteFails PROVE OnceInv'
<1> DEFINE m == writing.m
<1>1. PICK ok \in BOOLEAN : AfterWrite(ok) /\ file' = IF ok THEN writing.rows ELSE file
  BY DEF Written, WriteFails, disk
<1>2. /\ writing \in Writes /\ writing.rows = held \cup waiting /\ Up
      /\ UNCHANGED <<events, held, pc, logged, loaded, ran>>
  BY DEF Written, WriteFails, disk, IInv, Typed, RowsCover
<1>3. InWrite' = {} /\ ToLog' \subseteq ToLog
  BY <1>1, <1>2 DEF AfterWrite, InWrite, ToLog, NoWrite
<1>4. OnePlace' /\ OnItsWay' \subseteq OnItsWay
  <2>1. CASE writing.op \in {"accept", "accept_anyway"}
    <3>1. /\ InWrite = {m} /\ listing' = listing
          /\ \/ queue' = queue \cup {m} /\ waiting' = waiting
             \/ queue' = queue /\ waiting' = waiting \ {m}
      BY <1>1, <1>2, <2>1 DEF AfterWrite, InWrite
    <3>2. InListing' = InListing
      BY <3>1 DEF InListing
    <3> QED BY <1>2, <1>3, <3>1, <3>2 DEF OnceInv, OnePlace, OnItsWay
  <2>2. CASE writing.op = "send"
    <3>1. /\ InWrite = {m} /\ queue' = queue /\ waiting' = waiting
          /\ listing' = listing \cup {[op |-> "send", m |-> m]}
      BY <1>1, <1>2, <2>2 DEF AfterWrite, InWrite
    <3>2. InListing' = InListing \cup {m}
      <4> DEFINE sent == [op |-> "send", m |-> m]
      <4>1. sent.op = "send" /\ sent.m = m
        OBVIOUS
      <4>2. {a \in listing' : a.op = "send"} = {a \in listing : a.op = "send"} \cup {sent}
        BY <3>1, <4>1
      <4> HIDE DEF sent
      <4> QED BY <4>1, <4>2 DEF InListing
    <3> QED BY <1>2, <1>3, <3>1, <3>2 DEF OnceInv, OnePlace, OnItsWay
  <2>3. CASE writing.op \in {"remove", "logged"}
    <3>1. /\ queue' = queue /\ waiting' = waiting
          /\ listing' \in {listing, listing \cup {[op |-> "remove", m |-> m]}}
      BY <1>1, <1>2, <2>3 DEF AfterWrite
    <3>2. InListing' = InListing
      BY <3>1 DEF InListing
    <3> QED BY <1>2, <1>3, <3>1, <3>2 DEF OnceInv, OnePlace, OnItsWay
  <2> QED BY <1>2, <2>1, <2>2, <2>3 DEF Writes
<1>5. /\ waiting' \subseteq waiting /\ file' \subseteq file \cup held \cup waiting
      /\ \A n \in Messages : status'[n] = "new" => status[n] = "new"
  BY <1>1, <1>2 DEF AfterWrite, IInv, Typed, Writes
<1>6. NotStartedYet' /\ RowsTold' /\ NewIsNowhere' /\ StartsEmpty'
  <2>1. held \cup waiting \cup file \subseteq Messages
    BY DEF IInv, Typed
  <2>2. NotStartedYet' /\ NewIsNowhere' /\ StartsEmpty'
    BY <1>2, <1>4, <1>5 DEF OnceInv, NotStartedYet, NewIsNowhere, StartsEmpty, Up
  <2>3. RowsTold'
    BY <1>2, <1>5 DEF OnceInv, RowsTold, NotStartedYet, Up
  <2> QED BY <2>2, <2>3
<1> QED BY <1>4, <1>6 DEF OnceInv

\* The new list of held messages is logged.
LEMMA ListOnce ==
    ASSUME "stale_row" \notin Mishaps, IInv, OnceInv, NEW action \in listing, ListHeld(action)
    PROVE  OnceInv'
<1>1. /\ Log(QueuedMessages(held)) /\ listing' = listing \ {action}
      /\ queue' = IF action.op = "send" THEN queue \cup {action.m} ELSE queue
      /\ UNCHANGED <<file, held, waiting, writing, pc, taken, logged, loaded, status, ran>>
  BY DEF ListHeld, loop, history
<1>2. Started(events) \cap (waiting \cup file) \subseteq Started(events')
  <2>1. Typed /\ held \in SUBSET Messages
    BY DEF IInv, Typed
  <2> QED BY <1>1, <2>1, KindsOfEvents, LogTells
<1>3. InWrite' = InWrite /\ ToLog' = ToLog
  BY <1>1 DEF InWrite, ToLog
<1>4. InListing' = IF action.op = "send" THEN InListing \ {action.m} ELSE InListing
  <2>1. listing \subseteq [op : {"send", "remove"}, m : Messages]
    BY DEF IInv, Typed
  <2>2. \A a \in listing : a.op = action.op /\ a.m = action.m => a = action
    BY <2>1
  <2> QED BY <1>1, <2>2 DEF InListing
<1>5. action.op = "send" => action.m \in InListing
  BY DEF InListing
<1>6. OnePlace' /\ NotStartedYet'
  BY <1>1, <1>3, <1>4, <1>5 DEF OnceInv, OnePlace, OnItsWay, NotStartedYet
<1>7. RowsTold' /\ NewIsNowhere' /\ StartsEmpty'
  BY <1>1, <1>2 DEF OnceInv, RowsTold, NewIsNowhere, StartsEmpty, Up
<1> QED BY <1>6, <1>7 DEF OnceInv

LEMMA CrashOnce == ASSUME OnceInv, Crash PROVE OnceInv'
<1>1. /\ pc' = "down" /\ held' = {} /\ waiting' = {} /\ queue' = {} /\ writing' = NoWrite
      /\ listing' = {} /\ UNCHANGED <<events, file, ran>>
      /\ \A m \in Messages : status'[m] = "new" => status[m] = "new"
  BY DEF Crash, disk
<1>2. OnItsWay' = {} /\ InWrite' = {} /\ InListing' = {} /\ ToLog' = {}
  BY <1>1 DEF OnItsWay, InWrite, InListing, ToLog, NoWrite
<1> QED BY <1>1, <1>2 DEF OnceInv, OnePlace, NotStartedYet, RowsTold, NewIsNowhere, StartsEmpty, Up

\* What is held after a restart has not started: the rest was found in the log.
LEMMA RestoreOnce == ASSUME IInv, OnceInv, RestoreHeld PROVE OnceInv'
<1>1. /\ held' = file \ Started(loaded) /\ file' \subseteq file
      /\ pc = "restoring" /\ pc' = "listing_held"
      /\ UNCHANGED <<events, waiting, queue, writing, listing, status, ran>>
  BY DEF RestoreHeld, NotStarted, history
<1>2. waiting = {} /\ OnItsWay' = OnItsWay
  BY <1>1 DEF OnceInv, StartsEmpty, Up, OnItsWay, InWrite, InListing, ToLog
<1>3. \A m \in held' : ran[m] = 0
  <2>1. \A m \in file : ran[m] \in Nat
    BY DEF IInv, Typed
  <2> QED BY <1>1, <2>1 DEF OnceInv, RowsTold
<1>4. OnePlace' /\ NotStartedYet'
  BY <1>1, <1>2, <1>3 DEF OnceInv, OnePlace, NotStartedYet, OnItsWay, InWrite, InListing, ToLog
<1>5. RowsTold' /\ NewIsNowhere' /\ StartsEmpty'
  BY <1>1 DEF OnceInv, RowsTold, NewIsNowhere, StartsEmpty, Up
<1> QED BY <1>4, <1>5 DEF OnceInv

LEMMA OnceStep ==
    ASSUME "stale_row" \notin Mishaps, IInv, OnceInv, [Next]_vars PROVE OnceInv'
<1>1. CASE UNCHANGED vars
  <2>1. UNCHANGED <<file, held, waiting, queue, writing, listing, status, ran, events, loaded, pc,
                    taken, logged>>
    BY <1>1 DEF vars, disk, lists, loop, history
  <2>2. ToLog' = ToLog /\ (Up' <=> Up)
    BY <2>1 DEF ToLog, Up
  <2>3. RowsTold
    BY DEF OnceInv
  <2> QED BY <2>1, <2>2, <2>3, StillKeeps DEF RowsTold
<1>2. CASE Listing
  BY <1>2, ListOnce, StillSteps DEF Listing
<1>3. CASE Turn
  BY <1>3, StillSteps, TakeOnce, StartOnce, BeginWriteOnce DEF Turn
<1>4. CASE Revive
  BY <1>4, StillSteps, RestoreOnce DEF Revive
<1> QED BY <1>1, <1>2, <1>3, <1>4, StillSteps, BeginWriteOnce, EndWriteOnce, CrashOnce DEF Next

\* A message starts once, and what has started is never held for the person to
\* send again (restore_queue), through any kills and failed writes, as long as
\* a user_turn whose row the queue file still has does not leave the window.
THEOREM NothingRunsTwice == ASSUME "stale_row" \notin Mishaps PROVE Spec => []RunsOnce
<1>1. Init => OnceInv
  BY InitOnce
<1>2. IInv /\ OnceInv /\ [Next]_vars => OnceInv'
  BY OnceStep
<1>3. IInv /\ OnceInv => RunsOnce
  BY DEF IInv, Typed, OnceInv, NotStartedYet, RunsOnce
<1> QED BY <1>1, <1>2, <1>3, Invariance, PTL DEF Spec

----------------------------------------------------------------------------
\* Between turns nothing is open: no turn in the log, no call in the conversation.

\* Where no turn is open in the log.
NoTurnOpen ==
    pc \in {"waiting", "saving_seal", "restoring", "listing_held"} => ~OpenTurn(events)

\* Where the log shows the turn that the loop is in.
TurnShown ==
    /\ pc \in {"letting_go", "running", "ending"} => OpenTurn(events)
    /\ pc = "logging" => taken # {} /\ (logged # {} => OpenTurn(events))
    /\ writing.op = "logged" => pc = "letting_go"

\* Calls are unanswered only inside such a turn, and a restart that finds some
\* in the saved conversation finds the turn too.
CallsInTurn ==
    /\ {convo, snap} \subseteq [has : SUBSET Messages, open : BOOLEAN]
    /\ convo.open => pc \in {"running", "over"}
    /\ pc = "running" => snap.open = convo.open
    /\ pc \in {"waiting", "logging", "letting_go", "ending"} => ~snap.open
    /\ snap.open => OpenTurn(events) \/ pc = "saving_seal"

\* A window shows no turn as open that the log does not.
LEMMA WindowTurn ==
    ASSUME NEW log \in Seq(Events), OpenTurn(Window(log)) PROVE OpenTurn(log)
<1> DEFINE w == Window(log)
<1>1. PICK d \in Nat :
         /\ Len(w) = Len(log) - d
         /\ \A i \in DOMAIN w : d + i \in DOMAIN log /\ w[i] = log[d + i]
  BY WindowShift
<1>2. /\ w \in Seq(Events) /\ DOMAIN w = 1..Len(w) /\ Len(w) \in Nat
      /\ DOMAIN log = 1..Len(log) /\ Len(log) \in Nat
  BY WindowShift, LenProperties
<1>3. PICK i \in Of(w, "user_turn") : \A j \in Of(w, "turn_complete") : j < i
  BY DEF OpenTurn
<1> HIDE DEF w
<1>4. d + i \in Of(log, "user_turn") /\ i \in DOMAIN w
  BY <1>1, <1>3 DEF Of
<1>5. ASSUME NEW j \in Of(log, "turn_complete") PROVE j < d + i
  <2>1. j \in 1..Len(log) /\ log[j].kind = "turn_complete"
    BY <1>2, <1>5 DEF Of
  <2>2. CASE j <= d
    BY <1>2, <1>4, <2>1, <2>2
  <2>3. CASE j > d
    <3>1. j - d \in DOMAIN w /\ d + (j - d) = j
      BY <1>1, <1>2, <2>1, <2>3
    <3>2. j - d \in Of(w, "turn_complete")
      BY <1>1, <2>1, <3>1 DEF Of
    <3> QED BY <1>2, <1>3, <1>4, <2>1, <3>2
  <2> QED BY <1>2, <2>1, <2>2, <2>3
<1> QED BY <1>4, <1>5 DEF OpenTurn

\* What logging an event makes of the open turn.
LEMMA LogTurn ==
    ASSUME Typed, NEW event \in Events, Log(event)
    PROVE  /\ event.kind = "user_turn" => OpenTurn(events')
           /\ event.kind = "turn_complete" => ~OpenTurn(events')
           /\ event.kind # "user_turn" /\ OpenTurn(events') => OpenTurn(events)
           /\ "long_turn" \notin Mishaps /\ event # TurnComplete /\ OpenTurn(events) =>
                  OpenTurn(events')
<1> DEFINE log == Append(events, event)
<1>1. /\ events' = Window(log)
      /\ "long_turn" \notin Mishaps /\ event # TurnComplete /\ OpenTurn(events) =>
             OpenTurn(events')
  BY DEF Log
<1>2. /\ log \in Seq(Events) /\ Len(log) = Len(events) + 1 /\ log[Len(log)] = event
      /\ DOMAIN log = 1..Len(log) /\ DOMAIN events = 1..Len(events) /\ Len(events) \in Nat
      /\ \A i \in DOMAIN events : log[i] = events[i]
  BY AppendProperties, LenProperties DEF Typed
<1> HIDE DEF log
<1>3. ASSUME event.kind = "user_turn" PROVE OpenTurn(Window(log))
  <2> DEFINE w == Window(log)
  <2>1. /\ w \in Seq(Events) /\ Len(w) \in DOMAIN w /\ w[Len(w)] = event
    <3>1. Len(log) > 0
      BY <1>2
    <3> QED BY <1>2, <3>1, WindowShift, WindowEnds
  <2>2. DOMAIN w = 1..Len(w) /\ Len(w) \in Nat
    BY <2>1, LenProperties
  <2> HIDE DEF w
  <2>3. Len(w) \in Of(w, "user_turn")
    BY <1>3, <2>1 DEF Of
  <2>4. ASSUME NEW j \in Of(w, "turn_complete") PROVE j < Len(w)
    BY <1>3, <2>1, <2>2, <2>4 DEF Of
  <2>5. OpenTurn(w)
    BY <2>3, <2>4 DEF OpenTurn
  <2> QED BY <2>5 DEF w
<1>4. ASSUME event.kind = "turn_complete" PROVE ~OpenTurn(log)
  <2>1. Len(log) \in Of(log, "turn_complete")
    BY <1>2, <1>4 DEF Of
  <2>2. ASSUME NEW i \in Of(log, "user_turn") PROVE ~(Len(log) < i)
    BY <1>2, <2>2 DEF Of
  <2> QED BY <2>1, <2>2 DEF OpenTurn
<1>5. ASSUME event.kind # "user_turn", OpenTurn(log) PROVE OpenTurn(events)
  <2>1. PICK i \in Of(log, "user_turn") : \A j \in Of(log, "turn_complete") : j < i
    BY <1>5 DEF OpenTurn
  <2>2. i \in Of(events, "user_turn")
    BY <1>2, <1>5, <2>1 DEF Of
  <2>3. Of(events, "turn_complete") \subseteq Of(log, "turn_complete")
    BY <1>2 DEF Of
  <2> QED BY <2>1, <2>2, <2>3 DEF OpenTurn
<1> QED BY <1>1, <1>2, <1>3, <1>4, <1>5, WindowTurn

LEMMA NoTurnStep == ASSUME IInv, NoTurnOpen, [Next]_vars PROVE NoTurnOpen'
<1> USE DEF NoTurnOpen
<1>1. Typed /\ held \in SUBSET Messages
  BY DEF IInv, Typed
<1>2. ASSUME pc' = pc, Log(Other) \/ Log(QueuedMessages(held)) \/ events' = events
      PROVE  NoTurnOpen'
  BY <1>1, <1>2, KindsOfEvents, LogTurn
<1>3. CASE UNCHANGED vars
  BY <1>2, <1>3 DEF vars, disk, loop
<1>4. CASE LogOther \/ Listing
  BY <1>2, <1>4 DEF LogOther, Listing, ListHeld, AttachLists, loop
<1>5. CASE Sending \/ Holding
  BY <1>2, <1>5 DEF Sending, Holding, Accept, SendHeld, RemoveHeld, disk, loop
<1>6. CASE Written \/ WriteFails
  BY <1>2, <1>6 DEF Written, WriteFails, disk
<1>7. CASE Turn
  <2>1. CASE EmitTurnComplete
    BY <1>1, <2>1, KindsOfEvents, LogTurn DEF EmitTurnComplete
  <2>2. ASSUME NEW m \in Messages, Take(m) \/ LogUserTurn(m, TRUE) \/ LogUserTurn(m, FALSE)
        PROVE  NoTurnOpen'
    BY <2>2 DEF Take, LogUserTurn
  <2>3. ASSUME NEW m \in Messages, LetGo(m) PROVE NoTurnOpen'
    BY <1>2, <2>3 DEF LetGo, disk, loop
  <2>4. CASE \/ (\E S \in SUBSET Messages : InjectSteers(S)) \/ SaveTurn \/ Proceed \/ FinishTurn
             \/ LoopOver
    BY <2>4 DEF InjectSteers, SaveTurn, Proceed, FinishTurn, LoopOver
  <2>5. CASE ReplyWithCalls \/ AppendResults
    BY <1>2, <2>5 DEF ReplyWithCalls, AppendResults, SaveConversation
  <2> QED BY <1>7, <2>1, <2>2, <2>3, <2>4, <2>5 DEF Turn
<1>8. CASE Crash
  BY <1>8 DEF Crash
<1>9. CASE Revive
  <2>1. CASE Load
    BY <2>1 DEF Load, disk
  <2>2. CASE SealCutTurn
    BY <1>1, <2>2, KindsOfEvents, LogTurn DEF SealCutTurn
  <2>3. CASE SaveSealed \/ RestoreHeld
    BY <2>3 DEF SaveSealed, RestoreHeld
  <2>4. CASE ListAfterRestore
    BY <1>1, <2>4, KindsOfEvents, LogTurn DEF ListAfterRestore
  <2> QED BY <1>9, <2>1, <2>2, <2>3, <2>4 DEF Revive
<1> QED BY <1>3, <1>4, <1>5, <1>6, <1>7, <1>8, <1>9 DEF Next

\* Whatever was killed, a loop that waits for a message has a log in which every
\* turn is sealed (_seal_cut_turn).
THEOREM EveryTurnIsSealed == Spec => []CutTurnSealed
<1>1. Init => NoTurnOpen
  BY DEF Init, NoTurnOpen, OpenTurn, Of
<1>2. IInv /\ NoTurnOpen /\ [Next]_vars => NoTurnOpen'
  BY NoTurnStep
<1>3. NoTurnOpen => CutTurnSealed
  BY DEF NoTurnOpen, CutTurnSealed
<1> QED BY <1>1, <1>2, <1>3, Invariance, PTL DEF Spec

LEMMA CallsStep ==
    ASSUME {"long_turn", "killed_while_sealing"} \cap Mishaps = {},
           IInv, NoTurnOpen, TurnShown, CallsInTurn, [Next]_vars
    PROVE  TurnShown' /\ CallsInTurn'
<1> USE DEF TurnShown, CallsInTurn
<1>1. Typed /\ held \in SUBSET Messages
  BY DEF IInv, Typed
<1>2. ASSUME UNCHANGED <<snap, convo, pc, taken, logged>>,
             OpenTurn(events) => OpenTurn(events'),
             writing'.op = "logged" => writing.op = "logged"
      PROVE  TurnShown' /\ CallsInTurn'
  BY <1>2
<1>3. ASSUME Log(Other) \/ Log(QueuedMessages(held)) \/ events' = events
      PROVE  OpenTurn(events) => OpenTurn(events')
  <2>1. Other # TurnComplete /\ QueuedMessages(held) # TurnComplete
    BY DEF Other, TurnComplete, QueuedMessages
  <2> QED BY <1>1, <1>3, <2>1, KindsOfEvents, LogTurn
<1>4. CASE UNCHANGED vars
  BY <1>2, <1>4 DEF vars, disk, loop
<1>5. CASE LogOther \/ Listing
  BY <1>2, <1>3, <1>5 DEF LogOther, Listing, ListHeld, AttachLists, loop
<1>6. CASE Sending \/ Holding
  <2>1. ASSUME NEW m \in Messages, NEW strict \in BOOLEAN, Accept(m, strict)
        PROVE  UNCHANGED <<disk, convo, loop>> /\ writing'.op \in {"accept", "accept_anyway"}
    BY <2>1 DEF Accept, Write
  <2>2. ASSUME NEW m \in Messages, SendHeld(m) \/ RemoveHeld(m)
        PROVE  UNCHANGED <<disk, convo, loop>> /\ writing'.op \in {"send", "remove"}
    BY <2>2 DEF SendHeld, RemoveHeld, Write
  <2>3. UNCHANGED <<disk, convo, loop>> /\ writing'.op # "logged"
    BY <1>6, <2>1, <2>2 DEF Sending, Holding
  <2> QED BY <1>2, <2>3 DEF disk, loop
<1>7. CASE Written \/ WriteFails
  <2>1. /\ UNCHANGED <<events, snap, convo, pc, logged>> /\ writing'.op # "logged"
        /\ writing.op # "logged" => taken' = taken
    BY <1>7 DEF Written, WriteFails, AfterWrite, NoWrite, disk
  <2>2. CASE writing.op = "logged"
    BY <2>1, <2>2
  <2> QED BY <1>2, <2>1, <2>2
<1>8. CASE Turn
  <2>1. ASSUME NEW m \in Messages, Take(m) PROVE TurnShown' /\ CallsInTurn'
    BY <2>1 DEF Take, disk
  <2>2. ASSUME NEW m \in Messages, NEW block \in BOOLEAN, LogUserTurn(m, block)
        PROVE  TurnShown' /\ CallsInTurn'
    <3>1. OpenTurn(events')
      BY <1>1, <2>2, KindsOfEvents, LogTurn DEF LogUserTurn
    <3>2. /\ pc = "logging" /\ m \in taken /\ UNCHANGED <<snap, writing, pc, taken>>
          /\ convo' = [convo EXCEPT !.has = @ \cup {m}] \/ convo' = convo
      BY <2>2 DEF LogUserTurn
    <3>3. convo' \in [has : SUBSET Messages, open : BOOLEAN] /\ convo'.open = convo.open
      BY <3>2
    <3> QED BY <3>1, <3>2, <3>3
  <2>3. ASSUME NEW m \in Messages, LetGo(m) PROVE TurnShown' /\ CallsInTurn'
    BY <2>3 DEF LetGo, disk, loop
  <2>4. ASSUME NEW S \in SUBSET Messages, InjectSteers(S) PROVE TurnShown' /\ CallsInTurn'
    BY <2>4 DEF InjectSteers, disk
  <2>5. CASE SaveTurn \/ Proceed
    BY <2>5 DEF SaveTurn, Proceed, disk
  <2>6. ASSUME NEW open \in BOOLEAN, SaveConversation(open), pc = "running",
               pc' = "running" \/ (pc' = "ending" /\ ~open)
        PROVE  TurnShown' /\ CallsInTurn'
    <3>1. /\ convo' \in [has : SUBSET Messages, open : BOOLEAN] /\ convo'.open = open
          /\ snap' = convo' /\ UNCHANGED <<events, writing, taken, logged>>
      BY <2>6 DEF SaveConversation
    <3> QED BY <2>6, <3>1
  <2>7. CASE ReplyWithCalls \/ AppendResults \/ FinishTurn
    BY <2>6, <2>7 DEF ReplyWithCalls, AppendResults, FinishTurn
  <2>8. CASE EmitTurnComplete
    BY <2>8 DEF EmitTurnComplete
  <2>9. CASE LoopOver
    BY <2>9 DEF LoopOver, Live, Up, disk
  <2> QED BY <1>8, <2>1, <2>2, <2>3, <2>4, <2>5, <2>7, <2>8, <2>9 DEF Turn
<1>9. CASE Crash
  BY <1>9 DEF Crash, Empty, NoWrite, disk
<1>10. CASE Revive
  <2>1. CASE Load
    <3>1. /\ convo' = [snap EXCEPT !.open = @ /\ ~OpenTurn(events)] /\ pc = "down"
          /\ pc' \in {"sealing", "restoring"}
          /\ UNCHANGED <<events, snap, writing>>
      BY <2>1 DEF Load, Repaired, disk
    <3>2. convo' \in [has : SUBSET Messages, open : BOOLEAN] /\ ~convo'.open
      BY <3>1
    <3> QED BY <3>1, <3>2
  <2>2. CASE SealCutTurn
    BY <2>2 DEF SealCutTurn
  <2>3. CASE SaveSealed
    BY <2>3 DEF SaveSealed
  <2>4. CASE RestoreHeld
    BY <2>4 DEF RestoreHeld
  <2>5. CASE ListAfterRestore
    BY <2>5 DEF ListAfterRestore, NoTurnOpen
  <2> QED BY <1>10, <2>1, <2>2, <2>3, <2>4, <2>5 DEF Revive
<1> QED BY <1>4, <1>5, <1>6, <1>7, <1>8, <1>9, <1>10 DEF Next

\* "Providers refuse" a conversation whose calls have no result (turn_seal.py):
\* between turns it has none, in memory or as saved, wherever the daemon was
\* killed except between a seal and its conversation, if no turn fills the
\* window.
THEOREM EveryCallIsAnswered ==
    ASSUME {"long_turn", "killed_while_sealing"} \cap Mishaps = {} PROVE Spec => []NothingOpen
<1>1. Init => NoTurnOpen /\ TurnShown /\ CallsInTurn
  BY DEF Init, NoTurnOpen, TurnShown, CallsInTurn, OpenTurn, Of, Empty, NoWrite
<1>2. IInv /\ NoTurnOpen /\ TurnShown /\ CallsInTurn /\ [Next]_vars
          => NoTurnOpen' /\ TurnShown' /\ CallsInTurn'
  BY NoTurnStep, CallsStep
<1>3. CallsInTurn => NothingOpen
  BY DEF CallsInTurn, NothingOpen
<1> QED BY <1>1, <1>2, <1>3, Invariance, PTL DEF Spec

----------------------------------------------------------------------------
\* The newest list in the log is the list that is held.

NewestOf(log) ==
    LET listed == Of(log, "queued_messages")
    IN {i \in listed : \A j \in listed : j <= i}

LEMMA ListOf == \A log, m : m \in LastList(log) <=> \E i \in NewestOf(log) : m \in log[i].held
BY DEF LastList, NewestOf

\* What logging an event makes of the newest list.
LEMMA LogList ==
    ASSUME Typed, NEW event \in Events, Log(event)
    PROVE  IF event.kind = "queued_messages" THEN LastList(events') = event.held
           ELSE Of(events', "queued_messages") # {} =>
                  Of(events, "queued_messages") # {} /\ LastList(events') = LastList(events)
<1> DEFINE log == Append(events, event)
           w == Window(log)
<1>1. events' = w
  BY DEF Log
<1>2. /\ log \in Seq(Events) /\ Len(log) = Len(events) + 1 /\ log[Len(log)] = event
      /\ DOMAIN log = 1..Len(log) /\ DOMAIN events = 1..Len(events) /\ Len(events) \in Nat
      /\ \A i \in DOMAIN events : log[i] = events[i]
  BY AppendProperties, LenProperties DEF Typed
<1> HIDE DEF log
<1>3. PICK d \in Nat :
         /\ Len(w) = Len(log) - d /\ d < Len(log)
         /\ \A i \in DOMAIN w : d + i \in DOMAIN log /\ w[i] = log[d + i]
  <2>1. Len(log) > 0
    BY <1>2
  <2> QED BY <1>2, <2>1, WindowShift
<1>4. w \in Seq(Events) /\ DOMAIN w = 1..Len(w) /\ Len(w) \in Nat
  BY <1>2, WindowShift, LenProperties
<1> HIDE DEF w
<1>5. CASE event.kind = "queued_messages"
  <2>1. Len(w) \in DOMAIN w /\ w[Len(w)] = event
    <3>1. Len(w) \in DOMAIN w /\ d + Len(w) = Len(log)
      BY <1>2, <1>3, <1>4
    <3> QED BY <1>2, <1>3, <3>1
  <2>2. Len(w) \in Of(w, "queued_messages") /\ \A j \in Of(w, "queued_messages") : j <= Len(w)
    BY <1>4, <1>5, <2>1 DEF Of
  <2>3. \A i \in NewestOf(w) : i = Len(w)
    <3>1. \A i \in NewestOf(w) : i \in DOMAIN w /\ i <= Len(w) /\ Len(w) <= i
      BY <2>2 DEF NewestOf, Of
    <3> QED BY <1>4, <3>1
  <2>4. Len(w) \in NewestOf(w)
    BY <2>2 DEF NewestOf
  <2>5. \A m : m \in LastList(w) <=> m \in event.held
    BY <2>1, <2>3, <2>4, ListOf
  <2>6. LastList(w) = event.held
    BY <2>5
  <2> QED BY <1>1, <1>5, <2>6
<1>6. CASE event.kind # "queued_messages" /\ Of(w, "queued_messages") # {}
  <2>1. ASSUME NEW i \in Of(w, "queued_messages")
        PROVE  d + i \in Of(events, "queued_messages") /\ w[i] = events[d + i]
    <3>1. i \in DOMAIN w /\ w[i] = log[d + i] /\ d + i \in DOMAIN log
          /\ w[i].kind = "queued_messages"
      BY <1>3, <2>1 DEF Of
    <3>2. d + i \in DOMAIN events
      BY <1>2, <1>6, <3>1
    <3> QED BY <1>2, <3>1, <3>2 DEF Of
  <2>2. ASSUME NEW k \in Of(events, "queued_messages"), k > d
        PROVE  k - d \in Of(w, "queued_messages") /\ d + (k - d) = k
    <3>1. k - d \in DOMAIN w /\ d + (k - d) = k /\ k \in DOMAIN events
      BY <1>2, <1>3, <1>4, <2>2 DEF Of
    <3> QED BY <1>2, <1>3, <2>2, <3>1 DEF Of
  <2>3. PICK one \in Of(w, "queued_messages") : TRUE
    BY <1>6
  <2>4. Of(events, "queued_messages") \subseteq Nat /\ Of(w, "queued_messages") \subseteq Nat \ {0}
    BY <1>2, <1>4 DEF Of
  <2>5. ASSUME NEW i \in NewestOf(w) PROVE d + i \in NewestOf(events) /\ w[i] = events[d + i]
    <3>1. i \in Of(w, "queued_messages")
      BY DEF NewestOf
    <3>2. ASSUME NEW k \in Of(events, "queued_messages") PROVE k <= d + i
      <4>1. CASE k <= d
        BY <2>4, <3>1, <4>1
      <4>2. CASE k > d
        <5>1. k - d <= i
          BY <2>2, <4>2 DEF NewestOf
        <5> QED BY <2>4, <3>1, <5>1
      <4> QED BY <2>4, <4>1, <4>2
    <3> QED BY <2>1, <3>1, <3>2 DEF NewestOf
  <2>6. ASSUME NEW k \in NewestOf(events) PROVE k - d \in NewestOf(w) /\ w[k - d] = events[k]
    <3>1. k \in Of(events, "queued_messages") /\ d + one <= k
      BY <2>1, <2>3 DEF NewestOf
    <3>2. k > d
      BY <2>3, <2>4, <3>1
    <3>3. k - d \in Of(w, "queued_messages") /\ d + (k - d) = k
      BY <2>2, <3>1, <3>2
    <3>4. ASSUME NEW j \in Of(w, "queued_messages") PROVE j <= k - d
      <4>1. d + j <= k
        BY <2>1 DEF NewestOf
      <4> QED BY <2>4, <3>1, <4>1
    <3> QED BY <2>1, <3>3, <3>4 DEF NewestOf
  <2>7. \A m : m \in LastList(w) <=> m \in LastList(events)
    BY <2>5, <2>6, ListOf
  <2>8. LastList(w) = LastList(events)
    BY <2>7
  <2>9. Of(events, "queued_messages") # {}
    BY <2>1, <2>3
  <2> QED BY <1>1, <1>6, <2>8, <2>9
<1> QED BY <1>1, <1>5, <1>6

\* While the daemon starts, the list it looks at is still that of the log.
ListLoaded ==
    pc \in {"sealing", "saving_seal", "restoring", "listing_held"} =>
        (Of(events, "queued_messages") # {} => LastList(events) = LastList(loaded))

ListInv == HeldShown /\ ListLoaded /\ (~Up => listing = {})

\* A step that logs no list, changes none and is no part of a start.
LEMMA ListStays ==
    ASSUME ListInv, Up' => Up, Up \/ pc' = pc, Up => Up', loaded' = loaded,
           ~Up' => listing' = {}, UNCHANGED held \/ ~Up' \/ writing'.op \in {"send", "remove"},
           writing'.op \in {"send", "remove"} \/ listing' # {}
               \/ (writing.op \notin {"send", "remove"} /\ listing' = listing),
           Of(events', "queued_messages") # {} =>
               Of(events, "queued_messages") # {} /\ LastList(events') = LastList(events)
    PROVE  ListInv'
BY DEF ListInv, HeldShown, ListLoaded, Up

LEMMA OtherLog ==
    ASSUME IInv, Log(Other) \/ Log(TurnComplete) \/ \E m \in Messages : Log(UserTurn(m))
    PROVE  Of(events', "queued_messages") # {} =>
               Of(events, "queued_messages") # {} /\ LastList(events') = LastList(events)
<1>1. PICK event \in Events : Log(event) /\ event.kind # "queued_messages"
  BY KindsOfEvents
<1> QED BY <1>1, LogList DEF IInv

LEMMA HeldLog ==
    ASSUME IInv, Log(QueuedMessages(held)) PROVE LastList(events') = held
<1>1. held \in SUBSET Messages
  BY DEF IInv, Typed
<1>2. QueuedMessages(held) \in Events /\ QueuedMessages(held).kind = "queued_messages"
      /\ QueuedMessages(held).held = held
  BY <1>1, KindsOfEvents DEF QueuedMessages
<1> QED BY <1>2, LogList DEF IInv

LEMMA ListStep == ASSUME IInv, ListInv, [Next]_vars PROVE ListInv'
<1> USE DEF disk, lists, loop, history, NoWrite
<1>1. CASE UNCHANGED vars
  <2>1. writing.op \in {"send", "remove"} \/ writing.op \notin {"send", "remove"}
    OBVIOUS
  <2> QED BY <1>1, <2>1, ListStays DEF vars, Up, ListInv
<1>2. CASE LogOther
  BY <1>2, OtherLog, ListStays DEF LogOther, Up
<1>3. CASE Sending \/ Holding
  <2>1. /\ UNCHANGED <<events, listing, loaded, pc>> /\ Up
        /\ writing.op \notin {"send", "remove"}
        /\ held' = held \/ writing'.op \in {"send", "remove"}
    <3>1. ASSUME NEW m \in Messages, NEW strict \in BOOLEAN, Accept(m, strict)
          PROVE  /\ UNCHANGED <<events, listing, loaded, pc, held>> /\ Up
                 /\ writing.op \notin {"send", "remove"}
      BY <3>1 DEF Accept, Write, Live
    <3>2. ASSUME NEW m \in Messages, SendHeld(m) \/ RemoveHeld(m)
          PROVE  /\ UNCHANGED <<events, listing, loaded, pc>> /\ Up
                 /\ writing.op \notin {"send", "remove"} /\ writing'.op \in {"send", "remove"}
      BY <3>2 DEF SendHeld, RemoveHeld, Write, Live
    <3> QED BY <1>3, <3>1, <3>2 DEF Sending, Holding
  <2> QED BY <2>1, ListStays DEF Up, ListInv
<1>4. CASE Written \/ WriteFails
  <2>1. /\ UNCHANGED <<events, held, loaded, pc>>
        /\ writing.op \in {"send", "remove"} => listing' # {}
        /\ Up
        /\ writing.op \notin {"send", "remove"} => listing' = listing
    BY <1>4 DEF Written, WriteFails, AfterWrite, IInv, RowsCover
  <2>2. writing.op \in {"send", "remove"} \/ writing.op \notin {"send", "remove"}
    OBVIOUS
  <2> QED BY <2>1, <2>2, ListStays DEF Up
<1>5. CASE Listing
  <2>1. LastList(events') = held /\ held' = held /\ pc' = pc
    BY <1>5, HeldLog DEF Listing, ListHeld, AttachLists
  <2>2. Up
    BY <1>5 DEF Listing, AttachLists, ListInv
  <2> QED BY <2>1, <2>2 DEF ListInv, HeldShown, ListLoaded, Up
<1>6. CASE Turn
  <2>1. /\ UNCHANGED <<held, listing, loaded>> /\ Up /\ Up'
        /\ writing'.op \in {"send", "remove"} <=> writing.op \in {"send", "remove"}
    <3>1. ASSUME NEW m \in Messages, LetGo(m)
          PROVE  writing.op \notin {"send", "remove"} /\ writing'.op \notin {"send", "remove"}
      BY <3>1 DEF LetGo, Write
    <3>2. (~\E m \in Messages : LetGo(m)) => writing' = writing
      BY <1>6 DEF Turn, Take, LogUserTurn, InjectSteers, SaveTurn, Proceed, ReplyWithCalls,
         AppendResults, FinishTurn, SaveConversation, EmitTurnComplete, LoopOver
    <3>3. UNCHANGED <<held, listing, loaded>>
      BY <1>6 DEF Turn, Take, LogUserTurn, LetGo, Write, InjectSteers, SaveTurn, Proceed,
         ReplyWithCalls, AppendResults, FinishTurn, SaveConversation, EmitTurnComplete, LoopOver
    <3>4. Up /\ Up'
      BY <1>6 DEF Turn, Take, LogUserTurn, LetGo, Write, InjectSteers, SaveTurn, Proceed,
         ReplyWithCalls, AppendResults, FinishTurn, SaveConversation, EmitTurnComplete, LoopOver,
         Live, Up
    <3> QED BY <3>1, <3>2, <3>3, <3>4
  <2>2. \/ events' = events \/ Log(TurnComplete)
        \/ \E m \in Messages : Log(UserTurn(m))
    BY <1>6 DEF Turn, Take, LogUserTurn, LetGo, Write, InjectSteers, SaveTurn, Proceed,
       ReplyWithCalls, AppendResults, FinishTurn, SaveConversation, EmitTurnComplete, LoopOver
  <2> QED BY <2>1, <2>2, OtherLog, ListStays
<1>7. CASE Crash
  BY <1>7 DEF Crash, ListInv, HeldShown, ListLoaded, Up
<1>8. CASE Load
  BY <1>8 DEF Load, ListInv, HeldShown, ListLoaded, Up
<1>9. CASE SealCutTurn
  BY <1>9, OtherLog DEF SealCutTurn, ListInv, HeldShown, ListLoaded, Up
<1>10. CASE SaveSealed \/ RestoreHeld
  BY <1>10 DEF SaveSealed, RestoreHeld, ListInv, HeldShown, ListLoaded, Up
<1>11. CASE ListAfterRestore
  <2>1. Of(events', "queued_messages") # {} => LastList(events') = held
    BY <1>11, HeldLog DEF ListAfterRestore, ListRestored, ListInv, ListLoaded
  <2>2. held' = held /\ pc' = "waiting"
    BY <1>11 DEF ListAfterRestore
  <2> QED BY <2>1, <2>2 DEF ListInv, HeldShown, ListLoaded, Up
<1> QED BY <1>1, <1>2, <1>3, <1>4, <1>5, <1>6, <1>7, <1>8, <1>9, <1>10, <1>11 DEF Next, Revive

\* The newest list in the log is the list that is held, as soon as the last
\* action on a held message is listed: through kills, a log that was trimmed in
\* between and a start that seals a turn first (restore_queue,
\* keep_held_visible).
THEOREM HeldIsShown == Spec => []HeldShown
<1>1. Init => ListInv
  BY DEF Init, ListInv, HeldShown, ListLoaded, Of, Up
<1>2. IInv /\ ListInv /\ [Next]_vars => ListInv'
  BY ListStep
<1>3. ListInv => HeldShown
  BY DEF ListInv
<1> QED BY <1>1, <1>2, <1>3, Invariance, PTL DEF Spec

----------------------------------------------------------------------------
\* Types.

Kinds ==
    {UserTurn(m) : m \in Messages} \cup {TurnComplete, Other}
        \cup {QueuedMessages(S) : S \in SUBSET Messages}

\* The rest of the types.
TypeInv ==
    /\ events \in Seq(Kinds) /\ Len(events) <= LogMax
    /\ snap \in [has : SUBSET Messages, open : BOOLEAN]
    /\ convo \in [has : SUBSET Messages, open : BOOLEAN]
    /\ turn \in Messages \cup {None} /\ blocked \subseteq Messages
    /\ crashes \in 0..MaxCrashes

LEMMA LogKinds ==
    ASSUME TypeInv, NEW event \in Kinds, Log(event)
    PROVE  events' \in Seq(Kinds) /\ Len(events') <= LogMax
<1> DEFINE log == Append(events, event)
<1>1. events' = Window(log)
  BY DEF Log
<1>2. log \in Seq(Kinds) /\ Len(log) \in Nat
  BY AppendProperties, LenProperties DEF TypeInv
<1>3. LogMax \in Nat /\ TrimTo \in 1..LogMax
  BY WindowAssumption
<1> HIDE DEF log
<1>4. CASE Len(log) <= LogMax
  BY <1>1, <1>2, <1>4 DEF Window
<1>5. CASE Len(log) > LogMax
  <2> DEFINE low == Len(log) - TrimTo + 1
  <2>1. low \in Int /\ Len(log) \in Int /\ low >= 1 /\ Len(log) - low + 1 = TrimTo
    BY <1>2, <1>3, <1>5
  <2>2. \A i \in low..Len(log) : log[i] \in Kinds
    BY <1>2, <2>1, ElementOfSeq
  <2>3. events' = SubSeq(log, low, Len(log))
    BY <1>1, <1>2, <1>3, <1>5 DEF Window
  <2> HIDE DEF low
  <2>4. events' \in Seq(Kinds) /\ Len(events') = IF low <= Len(log) THEN Len(log) - low + 1 ELSE 0
    BY <2>1, <2>2, <2>3, SubSeqProperties
  <2> QED BY <1>3, <2>1, <2>4
<1> QED BY <1>2, <1>3, <1>4, <1>5

LEMMA LoggedKinds ==
    ASSUME IInv, TypeInv,
           \/ events' = events \/ Log(Other) \/ Log(TurnComplete) \/ Log(QueuedMessages(held))
           \/ \E m \in Messages : Log(UserTurn(m))
    PROVE  events' \in Seq(Kinds) /\ Len(events') <= LogMax
<1>1. held \in SUBSET Messages
  BY DEF IInv, Typed
<1>2. /\ Other \in Kinds /\ TurnComplete \in Kinds /\ QueuedMessages(held) \in Kinds
      /\ \A m \in Messages : UserTurn(m) \in Kinds
  BY <1>1 DEF Kinds
<1> QED BY <1>2, LogKinds DEF TypeInv

LEMMA TypeStep == ASSUME IInv, TypeInv, [Next]_vars PROVE TypeInv'
<1> USE DEF disk, lists, loop, history
<1>1. events' \in Seq(Kinds) /\ Len(events') <= LogMax
  <2>1. ASSUME Turn
        PROVE  \/ events' = events \/ Log(TurnComplete)
               \/ \E m \in Messages : Log(UserTurn(m))
    BY <2>1 DEF Turn, Take, LogUserTurn, LetGo, Write, InjectSteers, SaveTurn, Proceed,
       ReplyWithCalls, AppendResults, FinishTurn, SaveConversation, EmitTurnComplete, LoopOver
  <2>2. ASSUME ~Turn
        PROVE  events' = events \/ Log(Other) \/ Log(TurnComplete) \/ Log(QueuedMessages(held))
    BY <2>2 DEF Next, vars, LogOther, Sending, Holding, Accept, SendHeld, RemoveHeld, Write,
       Written, WriteFails, AfterWrite, Listing, ListHeld, AttachLists, Crash, Revive, Load,
       SealCutTurn, SaveSealed, RestoreHeld, ListAfterRestore
  <2> QED BY <2>1, <2>2, LoggedKinds
<1>2. CASE Turn
  <2>1. turn' \in Messages \cup {None} /\ blocked' \subseteq Messages /\ crashes' = crashes
    BY <1>2 DEF TypeInv, Turn, Take, LogUserTurn, LetGo, Write, InjectSteers, SaveTurn, Proceed,
       ReplyWithCalls, AppendResults, FinishTurn, SaveConversation, EmitTurnComplete, LoopOver
  <2>2. ASSUME NEW open \in BOOLEAN, SaveConversation(open)
        PROVE  {convo', snap'} \subseteq [has : SUBSET Messages, open : BOOLEAN]
    BY <2>2 DEF SaveConversation, TypeInv
  <2>3. ASSUME NEW m \in Messages, NEW block \in BOOLEAN, LogUserTurn(m, block)
        PROVE  {convo', snap'} \subseteq [has : SUBSET Messages, open : BOOLEAN]
    BY <2>3 DEF LogUserTurn, TypeInv
  <2>4. ASSUME ~\E open \in BOOLEAN : SaveConversation(open),
               ~\E m \in Messages, block \in BOOLEAN : LogUserTurn(m, block)
        PROVE  convo' = convo /\ snap' \in {snap, convo}
    BY <1>2, <2>4 DEF Turn, Take, LetGo, Write, InjectSteers, SaveTurn, Proceed, ReplyWithCalls,
       AppendResults, FinishTurn, EmitTurnComplete, LoopOver
  <2>5. {convo', snap'} \subseteq [has : SUBSET Messages, open : BOOLEAN]
    BY <2>2, <2>3, <2>4 DEF TypeInv
  <2> QED BY <1>1, <2>1, <2>5 DEF TypeInv
<1>3. CASE Crash
  <2>1. crashes' \in 0..MaxCrashes
    BY <1>3, RestartAssumption DEF Crash, TypeInv
  <2>2. Empty \in [has : SUBSET Messages, open : BOOLEAN]
    BY DEF Empty
  <2> QED BY <1>1, <1>3, <2>1, <2>2 DEF Crash, TypeInv
<1>4. CASE Load
  <2>1. Repaired \in [has : SUBSET Messages, open : BOOLEAN]
    BY DEF Repaired, TypeInv
  <2> QED BY <1>1, <1>4, <2>1 DEF Load, TypeInv
<1>5. CASE SaveSealed
  BY <1>1, <1>5 DEF SaveSealed, TypeInv
<1>6. CASE ~Turn /\ ~Crash /\ ~Load /\ ~SaveSealed
  <2>1. UNCHANGED <<snap, convo, turn, blocked, crashes>>
    BY <1>6 DEF Next, vars, LogOther, Sending, Holding, Accept, SendHeld, RemoveHeld, Write,
       Written, WriteFails, AfterWrite, Listing, ListHeld, AttachLists, Revive, SealCutTurn,
       RestoreHeld, ListAfterRestore
  <2> QED BY <1>1, <2>1 DEF TypeInv
<1> QED BY <1>2, <1>3, <1>4, <1>5, <1>6

\* Every variable keeps its type; a message waits in the loop's queue only while
\* it has a row, and none is both held and waiting (session.py).
THEOREM RestartTypes == ASSUME "stale_row" \notin Mishaps PROVE Spec => []TypeOK
<1>1. Init => OnceInv /\ TypeInv
  <2>1. Empty \in [has : SUBSET Messages, open : BOOLEAN]
    BY DEF Empty
  <2>2. ASSUME Init PROVE events \in Seq(Kinds) /\ Len(events) = 0
    BY <2>2, EmptySeq DEF Init
  <2>3. ASSUME Init PROVE TypeInv
    BY <2>1, <2>2, <2>3, WindowAssumption, RestartAssumption DEF Init, TypeInv
  <2> QED BY <2>3, InitOnce
<1>2. IInv /\ OnceInv /\ TypeInv /\ [Next]_vars => OnceInv' /\ TypeInv'
  BY OnceStep, TypeStep
<1>3. IInv /\ OnceInv /\ TypeInv => TypeOK
  BY DEF IInv, Typed, OnceInv, OnePlace, OnItsWay, TypeInv, Kinds, TypeOK
<1> QED BY <1>1, <1>2, <1>3, Invariance, PTL DEF Spec
=============================================================================
