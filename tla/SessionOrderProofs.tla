------------------------- MODULE SessionOrderProofs -------------------------
(***************************************************************************)
(* SessionTurn implements TurnOrder, for any finite set of messages.       *)
(***************************************************************************)
EXTENDS SessionTurnProofs

\* Messages reach the loop's queue in the order they arrived.
QueuedInOrder == \A m \in Queued, n \in Saving : ticket[m] < ticket[n]

\* No two of them have one place in that order.
OwnTicket == \A m, n \in Messages : ticket[m] = ticket[n] => m = n \/ ticket[m] = 0

OrderInv == IInv /\ Tickets /\ OwnTicket /\ QueuedInOrder

\* What a step does to the messages and to whether the loop lives.
Quiet == UNCHANGED <<where, ticket>> /\ (pc = "over" => pc' = "over")
Seals == pc \in AtTurn /\ pc' # "over" /\ EmitTurnComplete /\ UNCHANGED <<ticket, turn>>

LEMMA LoopShapes ==
    ASSUME BetweenTurns \/ BeforeCall \/ PassCaps \/ ModelCall
    PROVE  Quiet \/ Seals \/ (\E m \in Messages : Dequeue(m)) \/ InjectSteers
<1> USE DEF LoopVars, messages, history
<1>1. ASSUME NEW next, Goto(next), pc # "over" PROVE Quiet
  BY <1>1 DEF Goto, Quiet
<1>2. ASSUME NEW next, EndTurn(next), pc \in AtTurn, next # "over" PROVE Seals
  BY <1>2 DEF EndTurn, Seals
<1>3. ASSUME FinishStoppedTurn, pc \in AtTurn PROVE Seals
  BY <1>3 DEF FinishStoppedTurn, Seals
<1>4. ASSUME NEW at \in AtTurn, BreakOnFlags(at) PROVE Quiet \/ Seals
  BY <1>1, <1>3, <1>4 DEF BreakOnFlags, AtTurn
<1>5. CASE BetweenTurns
  <2>1. CASE ReviewEnds \/ Start
    BY <2>1 DEF ReviewEnds, Start, Quiet
  <2> QED BY <1>1, <1>5, <2>1 DEF BetweenTurns, LoopSeesCancel
<1>6. CASE BeforeCall
  <2>1. CASE (\E c \in Imports : AskImport(c)) \/ PauseAtCap
    BY <2>1 DEF AskImport, PauseAtCap, loop, Quiet
  <2>2. CASE EndWithoutModel
    BY <1>2, <2>2 DEF EndWithoutModel, AtTurn
  <2>3. CASE BreakAtTop \/ BreakAtCaps
    BY <1>4, <2>3 DEF BreakAtTop, BreakAtCaps, AtTurn
  <2>4. CASE OpenTurn \/ EnterStep \/ PassGate \/ WakeFromPause
    BY <1>1, <2>4 DEF OpenTurn, EnterStep, PassGate, WakeFromPause
  <2> QED BY <1>6, <2>1, <2>2, <2>3, <2>4 DEF BeforeCall
<1>7. CASE PassCaps
  BY <1>1, <1>7 DEF PassCaps
<1>8. CASE ModelCall
  <2>1. ASSUME NEW next, Continue(next), pc # "over" PROVE Quiet
    BY <2>1 DEF Continue, Quiet
  <2>2. CASE CheckStopped
    BY <1>1, <1>3, <2>2 DEF CheckStopped, AtTurn
  <2>3. CASE CheckEndsAsking
    BY <2>3 DEF CheckEndsAsking, Seals, AtTurn
  <2>4. CASE ReplyFails
    BY <1>2, <1>4, <2>4 DEF ReplyFails, AtTurn
  <2>5. CASE ReplyIsEmpty \/ CheckEnds
    BY <1>2, <2>5 DEF ReplyIsEmpty, CheckEnds, AtTurn
  <2>6. CASE ReplyWithText
    BY <1>1, <2>6 DEF ReplyWithText
  <2>7. CASE ReplyOverflows \/ CheckRetries \/ \E calls \in SUBSET Batch : ReplyWithCalls(calls)
    BY <2>1, <2>7 DEF ReplyOverflows, CheckRetries, ReplyWithCalls
  <2> QED BY <1>8, <2>2, <2>3, <2>4, <2>5, <2>6, <2>7 DEF ModelCall
<1> QED BY <1>5, <1>6, <1>7, <1>8

LEMMA BatchShapes ==
    ASSUME ToolBatch \/ AskedReviewEnds \/ TaskCancelled \/ LoopFails PROVE Quiet \/ Seals
<1> USE DEF BatchVars, messages, history
<1>1. ASSUME NEW c \in Calls,
             BeginCall(c) \/ Park(c) \/ Wake(c) \/ TimesOut(c) \/ HandlerReturns(c)
      PROVE  Quiet
  BY <1>1 DEF BeginCall, Park, Wake, TimesOut, HandlerReturns, Release, Quiet
<1>2. CASE BatchEnds
  BY <1>2 DEF BatchEnds, LoopVars, Quiet, Seals, AtTurn
<1>3. CASE AskedReviewEnds
  BY <1>3 DEF AskedReviewEnds, loop, Quiet
<1>4. CASE TaskCancelled \/ LoopFails
  BY <1>4 DEF TaskCancelled, LoopFails, Unwind, Quiet
<1> QED BY <1>1, <1>2, <1>3, <1>4 DEF ToolBatch

\* Every step has one of these shapes.
LEMMA Shapes ==
    ASSUME [Next]_vars
    PROVE  Quiet \/ Seals \/ (\E m \in Messages : Dequeue(m)) \/ InjectSteers \/ Send \/ Save
<1> USE DEF session, messages, loop, history
<1>1. CASE StopTurn \/ CancelSession \/ Resume \/ Reply \/ SkipAll \/ RunVerify
  BY <1>1 DEF StopTurn, CancelSession, Resume, Reply, Answer, SkipAll, RunVerify, Quiet
<1>2. CASE UNCHANGED vars
  BY <1>2 DEF vars, Quiet
<1> QED BY <1>1, <1>2, LoopShapes, BatchShapes DEF Next, Person

\* A message that arrives gets a place after every other.
LEMMA Arrives ==
    ASSUME OrderInv, NEW m \in Messages, NEW steer \in BOOLEAN, NEW onlyIfIdle \in BOOLEAN,
           SendMessage(m, steer, onlyIfIdle)
    PROVE  /\ where[m] = "new" /\ where' = [where EXCEPT ![m] = "saving"]
           /\ \A n \in Messages \ {m} : ticket'[n] = ticket[n] /\ ticket[n] < ticket'[m]
<1>1. /\ where[m] = "new" /\ where' = [where EXCEPT ![m] = "saving"]
      /\ ticket' = [ticket EXCEPT ![m] = Cardinality(Arrivals) + 1]
  BY DEF SendMessage
<1>2. Cardinality(Arrivals) \in Nat
  BY MessagesAssumption, FS_Subset, FS_CardinalityType DEF Arrivals
<1>3. ASSUME NEW n \in Messages \ {m} PROVE ticket'[n] = ticket[n] /\ ticket[n] < ticket'[m]
  BY <1>1, <1>2 DEF OrderInv, IInv, Tickets, Typed
<1> QED BY <1>1, <1>3

LEMMA TicketsStay ==
    ASSUME [Next]_vars, ~Send PROVE UNCHANGED ticket
<1>1. ASSUME NEW m \in Messages, SaveSucceeds(m) \/ SaveFails(m) PROVE UNCHANGED ticket
  BY <1>1 DEF SaveSucceeds, SaveFails
<1> QED BY <1>1, Shapes DEF Quiet, Seals, Dequeue, InjectSteers, LoopVars, Save

LEMMA TicketsOwned == ASSUME OrderInv, [Next]_vars PROVE OwnTicket'
<1>1. CASE ~Send
  BY <1>1, TicketsStay DEF OrderInv, OwnTicket
<1>2. CASE Send
  <2> PICK m \in Messages, steer, onlyIfIdle \in BOOLEAN : SendMessage(m, steer, onlyIfIdle)
    BY <1>2 DEF Send
  <2>1. \A n \in Messages : ticket[n] \in Nat
    BY DEF OrderInv, IInv, Typed
  <2> QED BY <2>1, Arrives DEF OrderInv, OwnTicket
<1> QED BY <1>1, <1>2

\* A message waits in the state it was left in, or is further on its way.
LEMMA OrderKept == ASSUME OrderInv, [Next]_vars PROVE QueuedInOrder'
<1> USE DEF OrderInv, IInv
<1>0. Typed'
  BY NextTyped
<1>1. ASSUME UNCHANGED ticket, Queued' \subseteq Queued, Saving' \subseteq Saving
      PROVE  QueuedInOrder'
  BY <1>1 DEF QueuedInOrder
<1>2. CASE Quiet
  BY <1>1, <1>2 DEF Quiet, Queued, Saving
<1>3. CASE Seals
  BY <1>1, <1>3 DEF Seals, EmitTurnComplete, Queued, Saving, Typed
<1>4. CASE \E m \in Messages : Dequeue(m)
  BY <1>1, <1>4, DequeueFresh DEF Queued, Saving, Typed
<1>5. CASE InjectSteers
  BY <1>1, <1>5 DEF InjectSteers, LoopVars, Queued, Saving, Typed
<1>6. CASE Send
  <2> PICK m \in Messages, steer, onlyIfIdle \in BOOLEAN : SendMessage(m, steer, onlyIfIdle)
    BY <1>6 DEF Send
  <2>1. /\ where[m] = "new" /\ where' = [where EXCEPT ![m] = "saving"]
        /\ \A n \in Messages \ {m} : ticket'[n] = ticket[n] /\ ticket[n] < ticket'[m]
    BY Arrives
  <2>2. Queued' = Queued /\ Saving' = Saving \cup {m} /\ m \notin Queued
    BY <2>1 DEF Queued, Saving, Typed
  <2>3. Queued \subseteq Messages \ {m} /\ Saving \subseteq Messages \ {m}
    BY <2>1 DEF Queued, Saving
  <2> QED BY <2>1, <2>2, <2>3 DEF QueuedInOrder
<1>7. ASSUME NEW m \in Messages, SaveSucceeds(m) PROVE QueuedInOrder'
  <2>1. /\ m \in Saving /\ \A n \in Saving : ticket[m] <= ticket[n]
        /\ where' = [where EXCEPT ![m] = "queued"] /\ ticket' = ticket
    BY <1>7 DEF SaveSucceeds, HasQueueLock
  <2>2. Queued' = Queued \cup {m} /\ Saving' = Saving \ {m}
    BY <2>1 DEF Queued, Saving, Typed
  <2>3. \A n \in Saving \ {m} : ticket[m] # ticket[n]
    BY <2>1 DEF OwnTicket, Tickets, OnItsWay, Saving
  <2> QED BY <2>1, <2>2, <2>3 DEF QueuedInOrder, Typed, Saving
<1>8. ASSUME NEW m \in Messages, SaveFails(m) PROVE QueuedInOrder'
  BY <1>1, <1>8 DEF SaveFails, Queued, Saving, Typed
<1> QED BY <1>2, <1>3, <1>4, <1>5, <1>6, <1>7, <1>8, Shapes DEF Save

LEMMA OrderInvariant == Spec => []OrderInv
<1>1. Init => OrderInv
  <2> SUFFICES ASSUME Init PROVE OrderInv
    OBVIOUS
  <2>1. Tickets
    <3>1. Arrivals = {} /\ Cardinality(Arrivals) = 0 /\ OnItsWay = {}
      BY FS_EmptySet DEF Init, Arrivals, OnItsWay
    <3> QED BY <3>1 DEF Init, Tickets
  <2>2. OwnTicket /\ QueuedInOrder
    BY DEF Init, OwnTicket, QueuedInOrder, Queued
  <2> QED BY <2>1, <2>2, InitIInv DEF OrderInv
<1>2. OrderInv /\ [Next]_vars => OrderInv'
  BY NextKeeps, TicketsKeep, TicketsOwned, OrderKept DEF OrderInv
<1> QED BY <1>1, <1>2, PTL DEF Spec
----------------------------------------------------------------------------
\* The refinement.

FateOf(place) ==
    CASE place = "new" -> "unsent"
      [] place \in {"saving", "queued"} -> "waiting"
      [] place = "refused" -> "refused"
      [] place = "turn" -> "running"
      [] place = "steered" -> "joined"
      [] place = "ended" -> "done"

LEMMA FateIs ==
    ASSUME Typed PROVE Fate = [m \in Messages |-> FateOf(where[m])]
BY DEF Typed, Fate, FateOf

LEMMA FatesMap ==
    ASSUME Typed
    PROVE  /\ Order!At("unsent") = {m \in Messages : where[m] = "new"}
           /\ Order!At("waiting") = Saving \cup Queued
           /\ Order!At("running") = {m \in Messages : where[m] = "turn"}
BY FateIs DEF Typed, Order!At, FateOf, Saving, Queued

\* A message that moves changes its fate and no other's.
LEMMA MoveMaps ==
    ASSUME Typed, Typed', NEW m \in Messages, NEW to, where' = [where EXCEPT ![m] = to]
    PROVE  Fate' = [Fate EXCEPT ![m] = FateOf(to)]
<1>1. Fate' = [n \in Messages |-> FateOf(where'[n])]
  BY DEF Typed, Fate, FateOf
<1> QED BY <1>1, FateIs DEF Typed

LEMMA SealFinishes == ASSUME OrderInv, OrderInv', Seals PROVE Order!OrderNext
<1> USE DEF OrderInv, IInv
<1>1. turn \in Messages /\ where[turn] = "turn"
  BY DEF Seals, OneTurn, TurnOpen, Typed
<1>2. Fate' = [Fate EXCEPT ![turn] = "done"]
  BY <1>1, MoveMaps DEF Seals, EmitTurnComplete, FateOf
<1> QED BY <1>1, <1>2, FatesMap DEF Seals, AtTurn, LoopAlive, Order!OrderNext, Order!Finish

LEMMA DequeueRuns ==
    ASSUME OrderInv, OrderInv', NEW m \in Messages, Dequeue(m) PROVE Order!OrderNext
<1> USE DEF OrderInv, IInv
<1>1. /\ ~TurnOpen /\ where[m] = "queued" /\ where' = [where EXCEPT ![m] = "turn"]
      /\ UNCHANGED ticket
  BY DequeueFresh
<1>2. pc = "waiting" /\ pc' = "opened" /\ m \in Queued /\ \A n \in Queued : ticket[m] <= ticket[n]
  BY DEF Dequeue
<1>3. \A n \in Saving \cup Queued : ticket[m] <= ticket[n]
  BY <1>2 DEF QueuedInOrder, Saving, Queued, Typed
<1>4. {n \in Messages : where[n] = "turn"} = {}
  BY <1>1, MessagesAssumption DEF OneTurn, TurnOpen
<1>5. Fate' = [Fate EXCEPT ![m] = "running"]
  BY <1>1, MoveMaps DEF FateOf
<1> QED BY <1>1, <1>2, <1>3, <1>4, <1>5, FatesMap
        DEF LoopAlive, Order!OrderNext, Order!Run

LEMMA SteersJoin == ASSUME OrderInv, OrderInv', InjectSteers PROVE Order!OrderNext
<1> USE DEF OrderInv, IInv
<1> DEFINE taken == IF lastBatch THEN Steers ELSE {}
<1>1. /\ pc = "inject" /\ pc' = "call" /\ UNCHANGED ticket
      /\ where' = [m \in Messages |-> IF m \in taken THEN "steered" ELSE where[m]]
  BY DEF InjectSteers, LoopVars
<1>2. turn \in Messages /\ where[turn] = "turn"
  BY <1>1 DEF OneTurn, AtTurn, TurnOpen, Typed
<1>3. taken \subseteq Queued /\ \A m \in taken : into[m] = turn
  BY DEF Steers, SteeringOpen
<1>4. \A m \in taken : ticket[turn] < ticket[m]
  BY <1>2, <1>3, MessagesAssumption DEF Tickets, Queued
<1>5. taken \subseteq Messages
  BY <1>3 DEF Queued
<1> HIDE DEF taken
<1>6. Fate' = [m \in Messages |-> IF m \in taken THEN "joined" ELSE Fate[m]]
  <2>1. Fate' = [m \in Messages |-> FateOf(where'[m])]
    BY DEF Typed, Fate, FateOf
  <2>2. \A m \in Messages : FateOf(where'[m]) = IF m \in taken THEN "joined" ELSE Fate[m]
    BY <1>1, FateIs DEF FateOf
  <2> QED BY <2>1, <2>2
<1>7. Order!Join(taken)
  <2>1. taken \subseteq Order!At("waiting") /\ turn \in Order!At("running")
    BY <1>2, <1>3, FatesMap
  <2> QED BY <1>1, <1>4, <1>6, <2>1 DEF LoopAlive, Order!Join
<1> QED BY <1>5, <1>7 DEF Order!OrderNext

LEMMA SendAccepts == ASSUME OrderInv, OrderInv', Send PROVE Order!OrderNext
<1> USE DEF OrderInv, IInv
<1> PICK m \in Messages, steer, onlyIfIdle \in BOOLEAN : SendMessage(m, steer, onlyIfIdle)
  BY DEF Send
<1>1. /\ where[m] = "new" /\ where' = [where EXCEPT ![m] = "saving"]
      /\ \A n \in Messages \ {m} : ticket'[n] = ticket[n] /\ ticket[n] < ticket'[m]
  BY Arrives
<1>2. pc # "over" /\ pc' = pc
  BY DEF SendMessage, LoopAlive, loop
<1>3. Fate' = [Fate EXCEPT ![m] = "waiting"]
  BY <1>1, MoveMaps DEF FateOf
<1> QED BY <1>1, <1>2, <1>3, FatesMap DEF LoopAlive, Order!OrderNext, Order!Accept

LEMMA SaveRefuses ==
    ASSUME OrderInv, OrderInv', Save PROVE [Order!OrderNext]_(Order!orderVars)
<1> USE DEF OrderInv, IInv
<1> PICK m \in Messages : SaveSucceeds(m) \/ SaveFails(m)
  BY DEF Save
<1>1. m \in Saving /\ where[m] = "saving" /\ UNCHANGED <<ticket, pc>>
  BY DEF SaveSucceeds, SaveFails, HasQueueLock, Saving, loop
<1>2. CASE where' = [where EXCEPT ![m] = "queued"]
  <2>1. Fate' = [Fate EXCEPT ![m] = "waiting"]
    BY <1>2, MoveMaps DEF FateOf
  <2>2. Fate[m] = "waiting"
    BY <1>1, FateIs DEF FateOf
  <2>3. Fate' = Fate
    BY <2>1, <2>2, FateIs
  <2> QED BY <1>1, <2>3 DEF Order!orderVars, LoopAlive
<1>3. CASE where' = [where EXCEPT ![m] = "refused"]
  <2>1. Fate' = [Fate EXCEPT ![m] = "refused"]
    BY <1>3, MoveMaps DEF FateOf
  <2> QED BY <1>1, <2>1, FatesMap DEF LoopAlive, Order!OrderNext, Order!Refuse
<1> QED BY <1>2, <1>3 DEF SaveSucceeds, SaveFails

LEMMA QuietStutters ==
    ASSUME OrderInv, Quiet PROVE [Order!OrderNext]_(Order!orderVars)
<1>1. Fate' = Fate
  BY DEF Quiet, Fate
<1> QED BY <1>1 DEF Quiet, LoopAlive, Order!OrderNext, Order!GiveUp, Order!orderVars

\* Whatever order saves, steers, stops and cancels land in, accepted messages
\* run one at a time and in the order they arrived, and only a message that
\* was marked for a turn joins it (add_user_message, wait_for_user_message,
\* inject_steers): a session implements TurnOrder.
THEOREM SessionRunsInOrder == Spec => RunsInOrder
<1>1. Init => Order!OrderInit
  BY DEF Init, Order!OrderInit, Fate, LoopAlive
<1>2. OrderInv /\ OrderInv' /\ [Next]_vars => [Order!OrderNext]_(Order!orderVars)
  BY Shapes, SealFinishes, DequeueRuns, SteersJoin, SendAccepts, SaveRefuses, QuietStutters
<1> QED BY <1>1, <1>2, OrderInvariant, PTL DEF Spec, RunsInOrder, Order!OrderSpec
=============================================================================
