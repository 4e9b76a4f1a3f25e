------------------------- MODULE SessionTurnProofs -------------------------
(***************************************************************************)
(* Theorems about SessionTurn, for any finite set of messages, any set of  *)
(* calls and any bound on the model calls of a turn.                       *)
(***************************************************************************)
EXTENDS SessionTurn, FiniteSetTheorems, TLAPS

\* Types.

\* Type correctness without the sign of the counter, which needs IInv.
Typed ==
    /\ state \in States
    /\ cancelled \in BOOLEAN /\ stopTurn \in BOOLEAN /\ resumed \in BOOLEAN
    /\ openTurns \in Int
    /\ steerTurn \in Messages \cup {None}
    /\ where \in [Messages ->
                     {"new", "saving", "refused", "queued", "turn", "steered", "ended"}]
    /\ ticket \in [Messages -> Nat]
    /\ into \in [Messages -> Messages \cup {None}]
    /\ pc \in {"unstarted", "waiting", "opened", "top", "gate", "caps", "paused", "inject",
              "call", "checking", "batch", "review", "over"}
    /\ turn \in Messages \cup {None}
    /\ step \in 0..MaxSteps /\ lastBatch \in BOOLEAN
    /\ call \in [Calls -> {"none", "todo", "asking", "parked", "running", "done"}]
    /\ fut \in [Calls -> {"none", "open", "yes", "no", "ended", "cancelled"}]
    /\ askReview \in {"none", "pending", "running"}
    /\ sealed \in [Messages -> Nat] /\ stopFor \in Messages \cup {None}

\* The states that can run a turn, and the eight states by name.
LEMMA StatesNamed ==
    /\ States = {"idle", "running", "awaiting_approval", "paused", "complete", "failed",
                 "cancelled", "interrupted"}
    /\ Terminal = {"complete", "failed", "cancelled", "interrupted"}
    /\ \A s \in States : ValidTransitions[s] \subseteq States
    /\ \A s \in Terminal : ValidTransitions[s] = {}
<1>1. States = {"idle", "running", "awaiting_approval", "paused", "complete", "failed",
                "cancelled", "interrupted"}
  BY DEF States, ValidTransitions
<1>2. Terminal = {"complete", "failed", "cancelled", "interrupted"}
  BY <1>1, SMTT(30) DEF Terminal, ValidTransitions
<1>3. \A s \in States : ValidTransitions[s] \subseteq States
  BY <1>1, SMTT(30) DEF ValidTransitions
<1>4. \A s \in Terminal : ValidTransitions[s] = {}
  BY DEF Terminal
<1> QED BY <1>1, <1>2, <1>3, <1>4

\* The handlers of a person's requests and of the queue file keep the types.
LEMMA PersonTyped == Typed /\ (Person \/ Save) => Typed'
<1> SUFFICES ASSUME Typed, Person \/ Save PROVE Typed'
  OBVIOUS
<1> USE StatesNamed DEF Typed, session, messages, loop, batch, history
<1>1. CASE Send
  <2> PICK m \in Messages, steer, onlyIfIdle \in BOOLEAN : SendMessage(m, steer, onlyIfIdle)
    BY <1>1 DEF Send
  <2>1. Cardinality(Arrivals) + 1 \in Nat
    <3>1. IsFiniteSet(Arrivals)
      BY MessagesAssumption, FS_Subset DEF Arrivals
    <3> QED BY <3>1, FS_CardinalityType
  <2> QED BY <2>1 DEF SendMessage, CountTurn
<1>2. CASE StopTurn
  BY <1>2 DEF StopTurn, ResolveOpen, LeavePause, WakeParkedLoop, TurnOpen
<1>3. CASE CancelSession
  BY <1>3 DEF CancelSession, ResolveOpen
<1>4. CASE Resume
  BY <1>4 DEF Resume, LeavePause
<1>5. CASE Reply
  BY <1>5 DEF Reply, Answer, Open, Registered
<1>6. CASE SkipAll
  BY <1>6 DEF SkipAll
<1>7. CASE RunVerify
  BY <1>7 DEF RunVerify, AcknowledgeUnlessTurn
<1>8. CASE Save
  BY <1>8 DEF Save, SaveSucceeds, SaveFails
<1> QED BY <1>1, <1>2, <1>3, <1>4, <1>5, <1>6, <1>7, <1>8 DEF Person

\* The three ways the loop's own steps move it on keep the types.
LEMMA EmitTyped ==
    Typed /\ EmitTurnComplete =>
        /\ openTurns' \in Int /\ steerTurn' \in Messages \cup {None}
        /\ where' \in [Messages ->
                         {"new", "saving", "refused", "queued", "turn", "steered", "ended"}]
        /\ sealed' \in [Messages -> Nat]
<1> SUFFICES ASSUME Typed, EmitTurnComplete
             PROVE  /\ openTurns' \in Int /\ steerTurn' \in Messages \cup {None}
                    /\ where' \in [Messages -> {"new", "saving", "refused", "queued", "turn",
                                               "steered", "ended"}]
                    /\ sealed' \in [Messages -> Nat]
  OBVIOUS
<1> USE DEF Typed, EmitTurnComplete
<1>1. openTurns' \in Int /\ steerTurn' \in Messages \cup {None}
  BY DEF AtLeastZero
<1>2. where' \in [Messages ->
                     {"new", "saving", "refused", "queued", "turn", "steered", "ended"}]
  OBVIOUS
<1>3. sealed' \in [Messages -> Nat]
  <2>1. sealed' = [m \in Messages |-> IF m = turn THEN sealed[m] + 1 ELSE sealed[m]]
    BY Zenon
  <2>2. \A m \in Messages : sealed[m] \in Nat
    OBVIOUS
  <2> HIDE DEF Typed, EmitTurnComplete
  <2> QED BY <2>1, <2>2
<1> QED BY <1>1, <1>2, <1>3

LEMMA GotoTyped ==
    ASSUME Typed, NEW next \in {"over", "waiting", "top", "gate", "caps", "checking", "review"},
           Goto(next) \/ EndTurn(next)
    PROVE  Typed'
<1>1. CASE Goto(next)
  BY <1>1 DEF Typed, Goto, LoopVars, batch
<1>2. CASE EndTurn(next)
  BY <1>2, EmitTyped DEF Typed, EndTurn, LoopVars, batch
<1> QED BY <1>1, <1>2

LEMMA StopTyped == Typed /\ FinishStoppedTurn => Typed'
BY EmitTyped, StatesNamed DEF Typed, FinishStoppedTurn, LeavePause, LoopVars, batch

\* The loop outside its tool batch keeps the types.
LEMMA LoopTyped == Typed /\ (BetweenTurns \/ BeforeCall \/ PassCaps \/ ModelCall) => Typed'
<1> SUFFICES ASSUME Typed, BetweenTurns \/ BeforeCall \/ PassCaps \/ ModelCall PROVE Typed'
  OBVIOUS
<1> USE StatesNamed DEF Typed, session, messages, loop, batch, history, LoopVars
<1>1. CASE BetweenTurns
  <2>1. CASE Start \/ ReviewEnds
    BY <2>1 DEF Start, SetState, ReviewEnds, AcknowledgeUnlessTurn
  <2>2. CASE LoopSeesCancel
    BY <2>2, GotoTyped DEF LoopSeesCancel
  <2>3. ASSUME NEW m \in Messages, Dequeue(m) PROVE Typed'
    <3>1. UNCHANGED <<LoopVars, state, openTurns, batch, sealed>>
      BY <2>3 DEF Dequeue
    <3>2. where' \in [Messages ->
                         {"new", "saving", "refused", "queued", "turn", "steered", "ended"}]
      BY <2>3 DEF Dequeue
    <3>3. /\ turn' \in Messages /\ step' \in 0..MaxSteps /\ lastBatch' = FALSE
          /\ stopTurn' = FALSE /\ steerTurn' \in Messages /\ pc' = "opened"
      BY <2>3, BoundsAssumption DEF Dequeue, DropStaleStop
    <3> QED BY <3>1, <3>2, <3>3
  <2> QED BY <1>1, <2>1, <2>2, <2>3 DEF BetweenTurns
<1>2. CASE BeforeCall
  <2>1. CASE EndWithoutModel
    BY <2>1, GotoTyped DEF EndWithoutModel
  <2>2. CASE OpenTurn \/ EnterStep \/ PassGate \/ WakeFromPause
    BY <2>2, GotoTyped DEF OpenTurn, EnterStep, PassGate, WakeFromPause
  <2>3. CASE BreakAtTop \/ BreakAtCaps
    BY <2>3, GotoTyped, StopTyped DEF BreakAtTop, BreakAtCaps, BreakOnFlags
  <2>4. ASSUME NEW c \in Imports, AskImport(c) PROVE Typed'
    BY <2>4 DEF AskImport
  <2>5. CASE PauseAtCap
    BY <2>5 DEF PauseAtCap, SetState
  <2>6. CASE InjectSteers
    <3>1. LET taken == IF lastBatch THEN Steers ELSE {} IN AfterSteers(taken) \in Int
      <4>1. IsFiniteSet(Steers) /\ IsFiniteSet({})
        BY MessagesAssumption, FS_Subset, FS_EmptySet DEF Steers, Queued
      <4> QED BY <4>1, FS_CardinalityType DEF AfterSteers, AtLeastZero
    <3> QED BY <2>6, <3>1 DEF InjectSteers
  <2> QED BY <1>2, <2>1, <2>2, <2>3, <2>4, <2>5, <2>6 DEF BeforeCall
<1>3. CASE PassCaps
  <2>1. ASSUME Goto("inject") PROVE Typed'
    BY <2>1 DEF Goto
  <2> QED BY <1>3, <2>1 DEF PassCaps
<1>4. CASE ModelCall
  <2>1. ASSUME NEW calls \in SUBSET Batch, ReplyWithCalls(calls) PROVE Typed'
    BY <2>1, BoundsAssumption DEF ReplyWithCalls, Continue, MayContinue
  <2>2. CASE ReplyWithText \/ ReplyIsEmpty
    BY <2>2, GotoTyped DEF ReplyWithText, ReplyIsEmpty
  <2>3. CASE ReplyOverflows \/ CheckRetries
    BY <2>3, BoundsAssumption DEF ReplyOverflows, CheckRetries, Continue, MayContinue
  <2>4. CASE ReplyFails \/ CheckStopped
    BY <2>4, GotoTyped, StopTyped DEF ReplyFails, CheckStopped, BreakOnFlags
  <2>5. CASE CheckEnds \/ CheckEndsAsking
    BY <2>5, GotoTyped, EmitTyped DEF CheckEnds, CheckEndsAsking
  <2> QED BY <1>4, <2>1, <2>2, <2>3, <2>4, <2>5 DEF ModelCall
<1> QED BY <1>1, <1>2, <1>3, <1>4

\* So do the tool batch, the reviews and the end of the loop's task.
LEMMA BatchTyped ==
    Typed /\ (ToolBatch \/ AskedReviewEnds \/ TaskCancelled \/ LoopFails) => Typed'
<1> SUFFICES ASSUME Typed, ToolBatch \/ AskedReviewEnds \/ TaskCancelled \/ LoopFails
             PROVE  Typed'
  OBVIOUS
<1> USE StatesNamed DEF Typed, session, messages, loop, batch, history, LoopVars, BatchVars
<1>1. ASSUME NEW c \in Calls, BeginCall(c) \/ Park(c) PROVE Typed'
  BY <1>1 DEF BeginCall, FutureOf, Park
<1>2. ASSUME NEW c \in Calls, Wake(c) \/ TimesOut(c) \/ HandlerReturns(c) PROVE Typed'
  BY <1>2 DEF Wake, TimesOut, HandlerReturns, Release, Unparked
<1>3. CASE BatchEnds
  <2>1. call' \in [Calls -> {"none", "todo", "asking", "parked", "running", "done"}]
    BY <1>3 DEF BatchEnds, ClearBatch
  <2>2. UNCHANGED <<fut, LoopVars, turn, step>>
    BY <1>3 DEF BatchEnds
  <2>3. CASE cancelled
    BY <1>3, <2>1, <2>2, <2>3 DEF BatchEnds, CheckFlags
  <2>4. CASE ~cancelled /\ stopTurn
    BY <1>3, <2>1, <2>2, <2>4, EmitTyped DEF BatchEnds, CheckFlags
  <2>5. CASE ~cancelled /\ ~stopTurn
    BY <1>3, <2>1, <2>2, <2>5 DEF BatchEnds, CheckFlags
  <2> QED BY <2>3, <2>4, <2>5
<1>4. CASE AskedReviewEnds
  BY <1>4 DEF AskedReviewEnds, AcknowledgeUnlessTurn
<1>5. CASE TaskCancelled \/ LoopFails
  BY <1>5 DEF TaskCancelled, LoopFails, Unwind
<1> QED BY <1>1, <1>2, <1>3, <1>4, <1>5 DEF ToolBatch

----------------------------------------------------------------------------
\* The inductive invariant.

AtTurn == {"opened", "top", "gate", "caps", "paused", "inject", "call", "checking", "batch"}
BetweenTurnsAt == {"unstarted", "waiting", "review"}

\* There is a turn exactly where the loop works on one, and never a second one.
\* A cancelled loop may leave its turn unsealed.
OneTurn ==
    /\ pc \in AtTurn => TurnOpen
    /\ pc \in BetweenTurnsAt /\ ~cancelled => ~TurnOpen
    /\ \A m \in Messages : where[m] = "turn" => m = turn

IInv == Typed /\ OneTurn /\ SealedOnce /\ SteeringOpen /\ OpenTurnsExact

LEMMA InitIInv == Init => IInv
<1> SUFFICES ASSUME Init PROVE IInv
  OBVIOUS
<1> USE DEF Init
<1>1. Typed
  <2>1. state \in States
    BY StatesNamed
  <2>2. step \in 0..MaxSteps
    BY BoundsAssumption
  <2>3. /\ where \in [Messages -> {"new", "saving", "refused", "queued", "turn", "steered",
                                   "ended"}]
        /\ ticket \in [Messages -> Nat] /\ into \in [Messages -> Messages \cup {None}]
        /\ sealed \in [Messages -> Nat]
    <3>1. \A m \in Messages : 0 \in Nat /\ None \in Messages \cup {None}
      OBVIOUS
    <3> QED BY <3>1
  <2>4. /\ call \in [Calls -> {"none", "todo", "asking", "parked", "running", "done"}]
        /\ fut \in [Calls -> {"none", "open", "yes", "no", "ended", "cancelled"}]
    OBVIOUS
  <2>5. openTurns \in Int
    OBVIOUS
  <2>6. /\ cancelled \in BOOLEAN /\ stopTurn \in BOOLEAN /\ resumed \in BOOLEAN
        /\ lastBatch \in BOOLEAN
    BY Zenon
  <2>7. /\ turn \in Messages \cup {None} /\ steerTurn \in Messages \cup {None}
        /\ stopFor \in Messages \cup {None} /\ pc = "unstarted" /\ askReview = "none"
    OBVIOUS
  <2> HIDE DEF Init
  <2> QED BY <2>1, <2>2, <2>3, <2>4, <2>5, <2>6, <2>7 DEF Typed
<1>2. OneTurn /\ SealedOnce /\ SteeringOpen
  BY MessagesAssumption DEF OneTurn, AtTurn, BetweenTurnsAt, TurnOpen, SealedOnce, SteeringOpen
<1>3. OpenTurnsExact
  <2>1. Saving = {} /\ Queued = {} /\ ~TurnOpen
    BY DEF Saving, Queued, TurnOpen
  <2> QED BY <2>1, FS_EmptySet DEF OpenTurnsExact
<1> QED BY <1>1, <1>2, <1>3 DEF IInv

\* A step that moves no message and does not count, and takes the loop
\* neither into a turn nor out of one that goes on, keeps the invariant.
LEMMA FrameKeeps ==
    ASSUME IInv, Typed', UNCHANGED <<openTurns, steerTurn, where, turn, sealed>>,
           cancelled => cancelled',
           pc' \in AtTurn => pc \in AtTurn,
           pc' \in BetweenTurnsAt /\ ~cancelled' => pc \in BetweenTurnsAt
    PROVE  IInv'
<1>1. OneTurn' /\ SealedOnce' /\ SteeringOpen'
  BY DEF IInv, OneTurn, TurnOpen, SealedOnce, SteeringOpen, AtTurn, BetweenTurnsAt
<1>2. OpenTurnsExact'
  BY DEF IInv, OpenTurnsExact, Saving, Queued, TurnOpen
<1> QED BY <1>1, <1>2 DEF IInv

\* The step that seals a turn keeps it: the turn was open, so it counted.
LEMMA EmitKeeps ==
    ASSUME IInv, Typed', EmitTurnComplete, UNCHANGED <<cancelled, turn>>,
           pc \in AtTurn, pc' \in BetweenTurnsAt \cup {"over"}
    PROVE  IInv'
<1>1. turn \in Messages /\ where[turn] = "turn" /\ sealed[turn] = 0
  BY DEF IInv, OneTurn, TurnOpen, Typed, SealedOnce
<1>2. ~TurnOpen'
  BY <1>1 DEF IInv, Typed, EmitTurnComplete, TurnOpen
<1>3. OneTurn' /\ SteeringOpen'
  <2>1. pc' \notin AtTurn
    BY DEF AtTurn, BetweenTurnsAt
  <2>2. \A m \in Messages : where'[m] = "turn" => m = turn
    BY <1>1 DEF IInv, OneTurn, Typed, EmitTurnComplete
  <2> QED BY <1>2, <2>1, <2>2 DEF OneTurn, SteeringOpen, EmitTurnComplete
<1>4. SealedOnce'
  <2>1. sealed' = [m \in Messages |-> IF m = turn THEN sealed[m] + 1 ELSE sealed[m]]
    BY Zenon DEF IInv, Typed, EmitTurnComplete
  <2>2. where' = [m \in Messages |-> IF m = turn THEN "ended" ELSE where[m]]
    BY Zenon DEF IInv, Typed, EmitTurnComplete
  <2> QED BY <1>1, <2>1, <2>2 DEF IInv, SealedOnce
<1>5. OpenTurnsExact'
  <2>1. UNCHANGED <<Saving, Queued>>
    BY <1>1 DEF IInv, Typed, Saving, Queued, EmitTurnComplete
  <2>2. Cardinality(Saving) \in Nat /\ Cardinality(Queued) \in Nat
    BY MessagesAssumption, FS_Subset, FS_CardinalityType DEF Saving, Queued
  <2>3. ~cancelled => openTurns = Cardinality(Saving) + Cardinality(Queued) + 1
    BY <1>1 DEF IInv, OpenTurnsExact, OneTurn
  <2>4. openTurns' = AtLeastZero(openTurns - 1)
    BY DEF EmitTurnComplete
  <2> QED BY <1>2, <2>1, <2>2, <2>3, <2>4 DEF OpenTurnsExact, AtLeastZero
<1> QED BY <1>3, <1>4, <1>5 DEF IInv

\* The steps that move messages.
LEMMA MessageCounts ==
    /\ IsFiniteSet(Saving) /\ IsFiniteSet(Queued)
    /\ Cardinality(Saving) \in Nat /\ Cardinality(Queued) \in Nat
BY MessagesAssumption, FS_Subset, FS_CardinalityType DEF Saving, Queued

LEMMA SendKeeps ==
    ASSUME IInv, Typed', NEW m \in Messages, NEW steer \in BOOLEAN, NEW onlyIfIdle \in BOOLEAN,
           SendMessage(m, steer, onlyIfIdle)
    PROVE  IInv'
<1> USE DEF SendMessage, loop, history
<1>1. where[m] = "new" /\ where' = [n \in Messages |-> IF n = m THEN "saving" ELSE where[n]]
  BY Zenon DEF IInv, Typed
<1>2. OneTurn' /\ SealedOnce' /\ SteeringOpen'
  BY <1>1 DEF IInv, Typed, OneTurn, TurnOpen, SealedOnce, SteeringOpen
<1>3. OpenTurnsExact'
  <2>1. Saving' = Saving \cup {m} /\ m \notin Saving /\ Queued' = Queued /\ TurnOpen' = TurnOpen
    BY <1>1 DEF IInv, Typed, Saving, Queued, TurnOpen
  <2>2. Cardinality(Saving') = Cardinality(Saving) + 1
    BY <2>1, MessageCounts, FS_AddElement
  <2> QED BY <2>1, <2>2, MessageCounts DEF IInv, OpenTurnsExact, CountTurn
<1> QED BY <1>2, <1>3 DEF IInv

LEMMA SaveKeeps ==
    ASSUME IInv, Typed', NEW m \in Messages, SaveSucceeds(m) \/ SaveFails(m)
    PROVE  IInv'
<1> USE DEF SaveSucceeds, SaveFails, session, loop, history
<1>1. /\ where[m] = "saving"
      /\ \A n \in Messages : n # m => where'[n] = where[n]
      /\ where'[m] \in {"queued", "refused"}
      /\ where'[m] = "queued" => openTurns' = openTurns
      /\ where'[m] = "refused" => openTurns' = openTurns - 1
  <2>1. where[m] = "saving" /\ m \in DOMAIN where
    BY DEF IInv, Typed, HasQueueLock, Saving
  <2>2. CASE SaveSucceeds(m)
    <3>1. where' = [where EXCEPT ![m] = "queued"] /\ openTurns' = openTurns
      BY <2>2
    <3> QED BY <2>1, <3>1 DEF IInv, Typed
  <2>3. CASE SaveFails(m)
    <3>1. where' = [where EXCEPT ![m] = "refused"] /\ openTurns' = openTurns - 1
      BY <2>3
    <3> QED BY <2>1, <3>1 DEF IInv, Typed
  <2> QED BY <2>2, <2>3
<1>2. UNCHANGED <<pc, turn, cancelled, sealed, steerTurn>>
  OBVIOUS
<1> HIDE DEF SaveSucceeds, SaveFails
<1>3. OneTurn' /\ SealedOnce' /\ SteeringOpen'
  BY <1>1, <1>2 DEF IInv, Typed, OneTurn, TurnOpen, SealedOnce, SteeringOpen
<1>4. OpenTurnsExact'
  <2>1. Saving' = Saving \ {m} /\ m \in Saving /\ TurnOpen' = TurnOpen
    BY <1>1, <1>2 DEF IInv, Typed, Saving, TurnOpen
  <2>2. Cardinality(Saving') = Cardinality(Saving) - 1
    BY <2>1, MessageCounts, FS_RemoveElement
  <2>3. CASE where'[m] = "queued"
    <3>1. Queued' = Queued \cup {m} /\ m \notin Queued
      BY <1>1, <2>3 DEF Queued
    <3>2. Cardinality(Queued') = Cardinality(Queued) + 1
      BY <3>1, MessageCounts, FS_AddElement
    <3> QED BY <1>1, <1>2, <2>1, <2>2, <2>3, <3>2, MessageCounts DEF IInv, OpenTurnsExact
  <2>4. CASE where'[m] = "refused"
    <3>1. Queued' = Queued
      BY <1>1, <2>4 DEF Queued
    <3> QED BY <1>1, <1>2, <2>1, <2>2, <2>4, <3>1, MessageCounts DEF IInv, OpenTurnsExact
  <2> QED BY <1>1, <2>3, <2>4
<1> QED BY <1>3, <1>4 DEF IInv

\* The message that starts a turn moves from the queue to the turn.
LEMMA DequeueKeeps ==
    ASSUME IInv, Typed', NEW m \in Messages, Dequeue(m)
    PROVE  IInv'
<1>1. /\ where[m] = "queued" /\ where' = [n \in Messages |-> IF n = m THEN "turn" ELSE where[n]]
      /\ turn' = m /\ pc' = "opened" /\ pc = "waiting" /\ ~cancelled /\ steerTurn' = m
      /\ UNCHANGED <<openTurns, cancelled, sealed>>
  <2>1. where' = [n \in Messages |-> IF n = m THEN "turn" ELSE where[n]]
    BY Zenon DEF IInv, Typed, Dequeue
  <2> QED BY <2>1 DEF Dequeue, Queued, LoopVars
<1>2. ~TurnOpen /\ \A n \in Messages : where[n] # "turn"
  BY <1>1, MessagesAssumption DEF IInv, OneTurn, BetweenTurnsAt, TurnOpen
<1>3. TurnOpen'
  BY <1>1, MessagesAssumption DEF TurnOpen
<1>4. OneTurn' /\ SealedOnce' /\ SteeringOpen'
  BY <1>1, <1>2, <1>3 DEF IInv, OneTurn, SealedOnce, SteeringOpen, BetweenTurnsAt
<1>5. OpenTurnsExact'
  <2>1. Queued' = Queued \ {m} /\ m \in Queued /\ Saving' = Saving
    BY <1>1 DEF Queued, Saving
  <2>2. Cardinality(Queued') = Cardinality(Queued) - 1
    BY <2>1, MessageCounts, FS_RemoveElement
  <2> QED BY <1>1, <1>2, <1>3, <2>1, <2>2, MessageCounts DEF IInv, OpenTurnsExact
<1> QED BY <1>4, <1>5 DEF IInv

\* Steers leave the queue together, each with the turn it was counted for.
LEMMA InjectKeeps == ASSUME IInv, Typed', InjectSteers PROVE IInv'
<1> DEFINE taken == IF lastBatch THEN Steers ELSE {}
<1>1. /\ where' = [m \in Messages |-> IF m \in taken THEN "steered" ELSE where[m]]
      /\ openTurns' = AfterSteers(taken)
      /\ UNCHANGED <<cancelled, steerTurn, turn, sealed>> /\ pc = "inject" /\ pc' = "call"
  BY DEF InjectSteers, LoopVars
<1>2. taken \subseteq Queued
  BY DEF Steers
<1>3. TurnOpen /\ turn \in Messages /\ where[turn] = "turn"
  BY <1>1 DEF IInv, OneTurn, AtTurn, TurnOpen, Typed
<1>4. TurnOpen'
  BY <1>1, <1>2, <1>3 DEF TurnOpen, Queued
<1> HIDE DEF taken
<1>5. OneTurn' /\ SealedOnce' /\ SteeringOpen'
  BY <1>1, <1>2, <1>3, <1>4 DEF IInv, OneTurn, SealedOnce, SteeringOpen, Queued, BetweenTurnsAt
<1>6. OpenTurnsExact'
  <2>1. Queued' = Queued \ taken /\ Saving' = Saving /\ Queued \cap taken = taken
    BY <1>1, <1>2 DEF Queued, Saving
  <2>2. /\ Cardinality(Queued') = Cardinality(Queued) - Cardinality(taken)
        /\ Cardinality(taken) \in Nat /\ Cardinality(taken) <= Cardinality(Queued)
    <3>1. IsFiniteSet(taken) /\ Cardinality(taken) <= Cardinality(Queued)
      BY <1>2, MessageCounts, FS_Subset
    <3>2. Cardinality(Queued \ taken) = Cardinality(Queued) - Cardinality(Queued \cap taken)
      BY MessageCounts, FS_Difference
    <3>3. Cardinality(taken) \in Nat
      BY <3>1, FS_CardinalityType
    <3> QED BY <2>1, <3>1, <3>2, <3>3
  <2>3. taken = {} => Cardinality(taken) = 0
    BY FS_EmptySet
  <2>4. ~cancelled => openTurns = Cardinality(Saving) + Cardinality(Queued) + 1
    BY <1>3 DEF IInv, OpenTurnsExact
  <2>5. ~cancelled => openTurns' = openTurns - Cardinality(taken)
    BY <1>1, <2>2, <2>3, <2>4, MessageCounts DEF AfterSteers, AtLeastZero
  <2> QED BY <1>1, <1>4, <2>1, <2>2, <2>4, <2>5, MessageCounts DEF OpenTurnsExact
<1> QED BY <1>5, <1>6 DEF IInv

\* One step per action: which of the lemmas above it is an instance of.
LEMMA NextTyped == Typed /\ [Next]_vars => Typed'
<1>1. Typed /\ UNCHANGED vars => Typed'
  BY DEF Typed, vars, session, messages, loop, batch, history
<1> QED BY <1>1, PersonTyped, LoopTyped, BatchTyped DEF Next

LEMMA PersonKeeps == ASSUME IInv, Typed', Person \/ Save PROVE IInv'
<1>1. CASE Send
  BY <1>1, SendKeeps DEF Send
<1>2. CASE StopTurn \/ Resume \/ Reply \/ SkipAll \/ RunVerify
  BY <1>2, FrameKeeps DEF StopTurn, Resume, Reply, Answer, SkipAll, RunVerify, session, messages,
     loop, history
<1>3. CASE CancelSession
  <2>1. /\ UNCHANGED <<steerTurn, where, turn, sealed>> /\ cancelled'
        /\ pc' \in {pc, "over"}
    BY <1>3 DEF CancelSession, messages, history
  <2>2. OneTurn' /\ SealedOnce' /\ SteeringOpen'
    BY <2>1 DEF IInv, OneTurn, TurnOpen, SealedOnce, SteeringOpen, AtTurn
  <2>3. OpenTurnsExact'
    BY <2>1 DEF OpenTurnsExact
  <2> QED BY <2>2, <2>3 DEF IInv
<1>4. CASE Save
  BY <1>4, SaveKeeps DEF Save
<1> QED BY <1>1, <1>2, <1>3, <1>4 DEF Person

LEMMA GotoKeeps ==
    ASSUME IInv, Typed', NEW next, Goto(next), pc \in AtTurn, next \in AtTurn \cup {"over"}
    PROVE  IInv'
BY FrameKeeps DEF Goto, LoopVars, AtTurn, BetweenTurnsAt

LEMMA StopKeeps == ASSUME IInv, Typed', FinishStoppedTurn, pc \in AtTurn PROVE IInv'
BY EmitKeeps DEF FinishStoppedTurn, LoopVars, BetweenTurnsAt

LEMMA LoopKeeps ==
    ASSUME IInv, Typed', BetweenTurns \/ BeforeCall \/ PassCaps \/ ModelCall PROVE IInv'
<1>1. CASE BetweenTurns
  <2>1. CASE Start \/ ReviewEnds
    BY <2>1, FrameKeeps DEF Start, ReviewEnds, messages, history, BetweenTurnsAt, AtTurn
  <2>2. CASE LoopSeesCancel
    BY <2>2, FrameKeeps DEF LoopSeesCancel, Goto, LoopVars, BetweenTurnsAt, AtTurn
  <2> QED BY <1>1, <2>1, <2>2, DequeueKeeps DEF BetweenTurns
<1>2. CASE BeforeCall
  <2>1. CASE EndWithoutModel
    BY <2>1, EmitKeeps DEF EndWithoutModel, EndTurn, LoopVars, BetweenTurnsAt, AtTurn
  <2>2. CASE OpenTurn \/ EnterStep \/ PassGate \/ WakeFromPause
    BY <2>2, GotoKeeps DEF OpenTurn, EnterStep, PassGate, WakeFromPause, AtTurn
  <2>3. CASE BreakAtTop \/ BreakAtCaps
    BY <2>3, GotoKeeps, StopKeeps DEF BreakAtTop, BreakAtCaps, BreakOnFlags, AtTurn
  <2>4. ASSUME NEW c \in Imports, AskImport(c) PROVE IInv'
    BY <2>4, FrameKeeps DEF AskImport, session, messages, loop, history
  <2>5. CASE PauseAtCap
    BY <2>5, FrameKeeps DEF PauseAtCap, messages, history, AtTurn, BetweenTurnsAt
  <2> QED BY <1>2, <2>1, <2>2, <2>3, <2>4, <2>5, InjectKeeps DEF BeforeCall
<1>3. CASE PassCaps
  BY <1>3, GotoKeeps DEF PassCaps, AtTurn
<1>4. CASE ModelCall
  <2>1. ASSUME NEW calls \in SUBSET Batch, ReplyWithCalls(calls) PROVE IInv'
    BY <2>1, FrameKeeps DEF ReplyWithCalls, Continue, LoopVars, AtTurn, BetweenTurnsAt
  <2>2. CASE ReplyWithText
    BY <2>2, GotoKeeps DEF ReplyWithText, AtTurn
  <2>3. CASE ReplyOverflows \/ CheckRetries
    BY <2>3, FrameKeeps DEF ReplyOverflows, CheckRetries, Continue, LoopVars, AtTurn,
       BetweenTurnsAt
  <2>4. CASE ReplyIsEmpty \/ CheckEnds
    BY <2>4, EmitKeeps DEF ReplyIsEmpty, CheckEnds, EndTurn, LoopVars, AtTurn, BetweenTurnsAt
  <2>5. CASE ReplyFails
    <3>1. CASE BreakOnFlags("call")
      BY <3>1, GotoKeeps, StopKeeps DEF BreakOnFlags, AtTurn
    <3>2. CASE pc = "call" /\ EndTurn("waiting")
      BY <3>2, EmitKeeps DEF EndTurn, LoopVars, AtTurn, BetweenTurnsAt
    <3> QED BY <2>5, <3>1, <3>2 DEF ReplyFails
  <2>6. CASE CheckStopped
    <3>1. CASE FinishStoppedTurn
      BY <2>6, <3>1, StopKeeps DEF CheckStopped, AtTurn
    <3>2. CASE cancelled /\ Goto("waiting")
      BY <2>6, <3>2, FrameKeeps DEF CheckStopped, Goto, LoopVars, AtTurn
    <3> QED BY <2>6, <3>1, <3>2 DEF CheckStopped, CheckFlags
  <2>7. CASE CheckEndsAsking
    BY <2>7, EmitKeeps DEF CheckEndsAsking, AtTurn, BetweenTurnsAt
  <2> QED BY <1>4, <2>1, <2>2, <2>3, <2>4, <2>5, <2>6, <2>7 DEF ModelCall
<1> QED BY <1>1, <1>2, <1>3, <1>4

LEMMA BatchKeeps ==
    ASSUME IInv, Typed', ToolBatch \/ AskedReviewEnds \/ TaskCancelled \/ LoopFails PROVE IInv'
<1>1. ASSUME NEW c \in Calls,
             BeginCall(c) \/ Wake(c) \/ TimesOut(c) \/ HandlerReturns(c)
      PROVE  IInv'
  BY <1>1, FrameKeeps DEF BeginCall, Wake, TimesOut, HandlerReturns, Release, BatchVars, messages,
     history
<1>2. ASSUME NEW c \in Calls, Park(c) PROVE IInv'
  <2>1. pc' \in {pc, "over"} /\ UNCHANGED BatchVars
    BY <1>2 DEF Park
  <2> QED BY <2>1, FrameKeeps DEF BatchVars, messages, history, AtTurn, BetweenTurnsAt
<1>3. CASE BatchEnds
  <2>1. pc = "batch" /\ UNCHANGED <<cancelled, turn>>
    BY <1>3 DEF BatchEnds, LoopVars
  <2>2. CASE EmitTurnComplete /\ pc' = "waiting"
    BY <2>1, <2>2, EmitKeeps DEF AtTurn, BetweenTurnsAt
  <2>3. CASE UNCHANGED <<openTurns, steerTurn, where, sealed>> /\ pc' \in {"over", "top"}
    BY <2>1, <2>3, FrameKeeps DEF AtTurn, BetweenTurnsAt
  <2> QED BY <1>3, <2>2, <2>3 DEF BatchEnds
<1>4. CASE AskedReviewEnds
  BY <1>4, FrameKeeps DEF AskedReviewEnds, messages, loop, history
<1>5. CASE TaskCancelled \/ LoopFails
  BY <1>5, FrameKeeps DEF TaskCancelled, LoopFails, Unwind, BatchVars, messages, history, AtTurn,
     BetweenTurnsAt
<1> QED BY <1>1, <1>2, <1>3, <1>4, <1>5 DEF ToolBatch

LEMMA NextKeeps == IInv /\ [Next]_vars => IInv'
<1> SUFFICES ASSUME IInv, [Next]_vars PROVE IInv'
  OBVIOUS
<1>1. Typed'
  BY NextTyped DEF IInv
<1>2. CASE UNCHANGED vars
  BY <1>1, <1>2, FrameKeeps DEF vars, session, messages, loop, history
<1> QED BY <1>1, <1>2, PersonKeeps, LoopKeeps, BatchKeeps DEF Next

----------------------------------------------------------------------------
\* The theorems.

\* IInv holds in every reachable state.
THEOREM Invariance == Spec => []IInv
BY InitIInv, NextKeeps, PTL DEF Spec

\* Type correctness; the counter that turn_in_flight reads never goes below
\* zero while the session can run turns.
THEOREM TypeCorrectness == Spec => []TypeOK
<1>1. IInv => TypeOK
  BY MessageCounts DEF IInv, Typed, TypeOK, OpenTurnsExact
<1> QED BY <1>1, Invariance, PTL

\* turn_in_flight counts exactly the turns still owed, so what asks it (Stop,
\* Delete, fork, compaction, an only_if_idle send) is never answered wrongly.
THEOREM CountsEveryTurn == Spec => []OpenTurnsExact
<1>1. IInv => OpenTurnsExact
  BY DEF IInv
<1> QED BY <1>1, Invariance, PTL

\* No turn is sealed twice, and no message that joined another turn is.
THEOREM SealsOnce == Spec => []SealedOnce
<1>1. IInv => SealedOnce
  BY DEF IInv
<1> QED BY <1>1, Invariance, PTL

\* Steering is open exactly while the turn it names runs.
THEOREM SteersAnOpenTurn == Spec => []SteeringOpen
<1>1. IInv => SteeringOpen
  BY DEF IInv
<1> QED BY <1>1, Invariance, PTL

\* No step takes a session out of a state that has no way out.
LEMMA EndedKeeps == ASSUME Typed, [Next]_vars, state \in Terminal PROVE state' = state
<1> USE StatesNamed DEF LoopVars, BatchVars, history
<1>1. state \notin {"idle", "running", "awaiting_approval", "paused"} /\ LeavePause = state
  BY DEF LeavePause
<1>2. CASE UNCHANGED vars
  BY <1>2 DEF vars, session
<1>3. CASE Person \/ Save
  BY <1>1, <1>3 DEF Person, Save, Send, SendMessage, StopTurn, CancelSession, Resume, Reply, Answer,
     SkipAll, RunVerify, SaveSucceeds, SaveFails, session
<1>4. CASE BetweenTurns \/ BeforeCall
  <2>1. ~\E s \in States : SetState(s)
    BY DEF SetState
  <2>2. CASE BetweenTurns
    BY <2>1, <2>2 DEF BetweenTurns, Start, LoopSeesCancel, Goto, Dequeue, ReviewEnds
  <2>3. CASE BeforeCall
    BY <1>1, <2>1, <2>3 DEF BeforeCall, EndWithoutModel, EndTurn, OpenTurn, BreakAtTop, BreakAtCaps,
       BreakOnFlags, FinishStoppedTurn, EnterStep, AskImport, session, PassGate, PauseAtCap,
       WakeFromPause, InjectSteers, Goto
  <2> QED BY <1>4, <2>2, <2>3
<1>5. CASE PassCaps \/ ModelCall
  BY <1>1, <1>5 DEF PassCaps, ModelCall, ReplyWithCalls, Continue, ReplyWithText, ReplyOverflows,
     ReplyFails, BreakOnFlags, FinishStoppedTurn, ReplyIsEmpty, EndTurn, CheckStopped, CheckRetries,
     CheckEnds, CheckEndsAsking, Goto
<1>6. CASE ToolBatch
  BY <1>1, <1>6 DEF ToolBatch, BeginCall, Park, Wake, TimesOut, Release, Unparked, HandlerReturns,
     BatchEnds
<1>7. CASE AskedReviewEnds \/ TaskCancelled \/ LoopFails
  BY <1>1, <1>7 DEF AskedReviewEnds, TaskCancelled, LoopFails, Unwind
<1> QED BY <1>2, <1>3, <1>4, <1>5, <1>6, <1>7 DEF Next

\* A session that is complete, failed or cancelled stays so, whatever a waiter
\* that wakes late, a Stop or a Resume does (leave_awaiting, stop_turn).
THEOREM EndedForGood == Spec => EndedStaysEnded
<1>1. Typed /\ [Next]_vars => [(state \in Terminal) => (state' = state)]_vars
  BY EndedKeeps
<1>2. Spec => []Typed
  <2>1. IInv => Typed
    BY DEF IInv
  <2> QED BY <2>1, Invariance, PTL
<1> QED BY <1>1, <1>2, PTL DEF Spec, EndedStaysEnded
----------------------------------------------------------------------------
\* What the session shows is what its tasks do.

\* Where the loop neither waits for a person nor has ended.
AtWork == {"waiting", "opened", "top", "caps", "inject", "call", "checking", "review"}

\* What the session shows, by where its loop is.
StateOfLoop ==
    /\ pc = "unstarted" => state = "idle" /\ ~cancelled
    /\ pc \in AtWork /\ ~cancelled => state = "running"
    /\ pc = "paused" /\ ~cancelled => state = IF resumed THEN "running" ELSE "paused"
    /\ pc \in {"gate", "batch"} /\ ~cancelled => state \in {"running", "awaiting_approval"}
    /\ pc = "over" => state \in {"idle", "cancelled", "failed"}
    /\ cancelled => state \in {"idle", "cancelled"} /\ resumed

\* Calls are parked by a batch, imports while a prompt is assembled, and the
\* session shows it.
ParkedCalls ==
    ~cancelled =>
        /\ pc \notin {"gate", "batch"} => Registered = {}
        /\ pc = "gate" => Registered \subseteq Imports
        /\ pc = "batch" => Registered \subseteq Batch
        /\ state = "awaiting_approval" => Registered # {}
        /\ \A c \in Calls : call[c] = "parked" => state = "awaiting_approval"
        /\ \A c \in Calls : call[c] = "todo" => c \in Batch

ShownInv == Typed /\ StateOfLoop /\ ParkedCalls

LEMMA InitShown == Init => ShownInv
<1> SUFFICES ASSUME Init PROVE ShownInv
  OBVIOUS
<1>1. Typed
  BY InitIInv DEF IInv
<1>2. Registered = {} /\ \A c \in Calls : call[c] = "none"
  BY DEF Init, Registered
<1>3. StateOfLoop /\ ParkedCalls
  BY <1>2 DEF Init, StateOfLoop, ParkedCalls, AtWork
<1> QED BY <1>1, <1>3 DEF ShownInv

\* Steps that touch neither what the session shows, its flags nor its calls,
\* and leave the loop where it is or take it from work to work.
LEMMA WorkKeepsShown ==
    ASSUME ShownInv, Typed', UNCHANGED <<state, cancelled, resumed, call>>,
           \/ pc' = pc
           \/ pc \in AtWork /\ pc' \in AtWork \cup {"over"} /\ (pc' = "over" => cancelled)
    PROVE  ShownInv'
<1>1. Registered' = Registered
  BY DEF Registered
<1> QED BY <1>1 DEF ShownInv, StateOfLoop, ParkedCalls, AtWork

LEMMA PersonKeepsShown == ASSUME ShownInv, Typed', Person \/ Save PROVE ShownInv'
<1>1. CASE Send \/ Save \/ Reply \/ SkipAll \/ RunVerify
  BY <1>1, WorkKeepsShown DEF Send, SendMessage, Save, SaveSucceeds, SaveFails, Reply, Answer,
     SkipAll, RunVerify, session, loop, batch
<1>2. CASE StopTurn \/ Resume
  <2>1. /\ state' = LeavePause /\ resumed' = TRUE /\ UNCHANGED <<cancelled, call, pc>>
        /\ Registered' = Registered
    BY <1>2 DEF StopTurn, Resume, WakeParkedLoop, loop, batch, Registered
  <2> QED BY <2>1 DEF ShownInv, StateOfLoop, ParkedCalls, AtWork, LeavePause
<1>3. CASE CancelSession
  <2>1. /\ ~cancelled /\ cancelled' /\ resumed' = TRUE /\ pc # "over" /\ pc' # "unstarted"
        /\ state' = IF "cancelled" \in ValidTransitions[state] THEN "cancelled" ELSE state
    BY <1>3 DEF CancelSession, LoopAlive
  <2>2. state \in {"idle", "running", "awaiting_approval", "paused"}
    BY <2>1 DEF ShownInv, Typed, StateOfLoop, AtWork
  <2>3. state' \in {"idle", "cancelled"}
    BY <2>1, <2>2 DEF ValidTransitions
  <2> QED BY <2>1, <2>3 DEF ShownInv, StateOfLoop, ParkedCalls
<1> QED BY <1>1, <1>2, <1>3 DEF Person

\* The ways the loop goes on at work.
LEMMA GotoShown ==
    ASSUME ShownInv, Typed', NEW next, Goto(next) \/ EndTurn(next),
           pc \in AtWork, next \in AtWork \cup {"over"}, next = "over" => cancelled
    PROVE  ShownInv'
BY WorkKeepsShown DEF Goto, EndTurn, LoopVars, batch

LEMMA StopShown ==
    ASSUME ShownInv, Typed', FinishStoppedTurn, pc \in AtWork
    PROVE  ShownInv'
<1>1. LeavePause = state
  BY DEF LeavePause, ShownInv, StateOfLoop
<1> QED BY <1>1, WorkKeepsShown DEF FinishStoppedTurn, LoopVars, batch, AtWork

LEMMA BreakShown ==
    ASSUME ShownInv, Typed', NEW at \in AtWork, BreakOnFlags(at)
    PROVE  ShownInv'
BY GotoShown, StopShown DEF BreakOnFlags

\* Steps at the two places where calls park, once none is left.
LEMMA NothingParkedShows ==
    ASSUME ShownInv, pc \in {"gate", "batch"}, Registered = {}, ~cancelled
    PROVE  state = "running"
BY DEF ShownInv, StateOfLoop, ParkedCalls

LEMMA LeaveGateShown ==
    ASSUME ShownInv, Typed', pc \in {"gate", "batch"}, pc' \in AtWork, Registered = {},
           Registered' = {}, UNCHANGED <<state, cancelled, resumed>>,
           \A c \in Calls : call'[c] \in {call[c], "none"}
    PROVE  ShownInv'
<1>1. \A c \in Calls : call'[c] # "parked"
  BY DEF Registered
<1> QED BY <1>1, NothingParkedShows DEF ShownInv, StateOfLoop, ParkedCalls, AtWork

LEMMA LoopKeepsShown ==
    ASSUME ShownInv, Typed', BetweenTurns \/ BeforeCall \/ PassCaps \/ ModelCall
    PROVE  ShownInv'
<1> USE DEF AtWork
<1>1. CASE BetweenTurns
  <2>1. CASE Start
    <3>1. /\ pc = "unstarted" /\ pc' = "waiting" /\ state' = "running"
          /\ UNCHANGED <<cancelled, resumed, call>> /\ Registered' = Registered
      BY <2>1 DEF Start, SetState, batch, Registered
    <3> QED BY <3>1 DEF ShownInv, StateOfLoop, ParkedCalls
  <2>2. CASE ReviewEnds
    BY <2>2, WorkKeepsShown DEF ReviewEnds, batch
  <2>3. CASE LoopSeesCancel
    BY <2>3, GotoShown DEF LoopSeesCancel
  <2>4. ASSUME NEW m \in Messages, Dequeue(m) PROVE ShownInv'
    BY <2>4, WorkKeepsShown DEF Dequeue, LoopVars, batch
  <2> QED BY <1>1, <2>1, <2>2, <2>3, <2>4 DEF BetweenTurns
<1>2. CASE BeforeCall
  <2>1. CASE EndWithoutModel \/ PassGate
    <3>1. /\ pc \in {"opened", "gate"} /\ pc' \in {"waiting", "caps"} /\ Registered = {}
          /\ UNCHANGED <<state, cancelled, resumed, call>> /\ Registered' = Registered
      BY <2>1 DEF EndWithoutModel, EndTurn, PassGate, Goto, LoopVars, batch, Registered
    <3> QED BY <3>1, WorkKeepsShown, LeaveGateShown
  <2>2. CASE OpenTurn
    BY <2>2, GotoShown DEF OpenTurn
  <2>3. CASE BreakAtTop \/ BreakAtCaps
    BY <2>3, BreakShown DEF BreakAtTop, BreakAtCaps
  <2>4. CASE EnterStep
    <3>1. /\ pc = "top" /\ pc' = "gate" /\ UNCHANGED <<state, cancelled, resumed, call>>
          /\ ~cancelled /\ Registered' = Registered
      BY <2>4 DEF EnterStep, Goto, LoopVars, batch, CheckFlags, Registered
    <3> QED BY <3>1 DEF ShownInv, StateOfLoop, ParkedCalls
  <2>5. ASSUME NEW c \in Imports, AskImport(c) PROVE ShownInv'
    <3>1. /\ pc = "gate" /\ UNCHANGED <<pc, state, cancelled, resumed>> /\ Registered = {}
          /\ call' = [call EXCEPT ![c] = "asking"]
      BY <2>5 DEF AskImport, session, loop
    <3>2. /\ Registered' \subseteq Imports /\ \A d \in Calls : call'[d] # "parked"
          /\ \A d \in Calls : call'[d] \in {call[d], "asking"}
      BY <3>1 DEF ShownInv, Typed, Registered
    <3>3. ~cancelled => state = "running"
      BY <3>1, NothingParkedShows
    <3> QED BY <3>1, <3>2, <3>3 DEF ShownInv, StateOfLoop, ParkedCalls
  <2>6. CASE PauseAtCap
    <3>1. /\ pc = "caps" /\ pc' = "paused" /\ state' = "paused" /\ resumed' = FALSE
          /\ ~cancelled /\ UNCHANGED <<cancelled, call>> /\ Registered' = Registered
      BY <2>6 DEF PauseAtCap, SetState, CheckFlags, batch, Registered
    <3> QED BY <3>1 DEF ShownInv, StateOfLoop, ParkedCalls
  <2>7. CASE WakeFromPause
    <3>1. /\ pc = "paused" /\ resumed /\ pc' = "caps" /\ Registered' = Registered
          /\ UNCHANGED <<state, cancelled, resumed, call>>
      BY <2>7 DEF WakeFromPause, Goto, LoopVars, batch, Registered
    <3> QED BY <3>1 DEF ShownInv, StateOfLoop, ParkedCalls
  <2>8. CASE InjectSteers
    BY <2>8, WorkKeepsShown DEF InjectSteers, LoopVars, batch
  <2> QED BY <1>2, <2>1, <2>2, <2>3, <2>4, <2>5, <2>6, <2>7, <2>8 DEF BeforeCall
<1>3. CASE PassCaps
  BY <1>3, GotoShown DEF PassCaps
<1>4. CASE ModelCall
  <2>1. ASSUME NEW calls \in SUBSET Batch, ReplyWithCalls(calls) PROVE ShownInv'
    <3>1. /\ pc = "call" /\ pc' = "batch" /\ UNCHANGED <<state, cancelled, resumed>> /\ ~cancelled
          /\ call' = [c \in Calls |-> IF c \in calls THEN "todo" ELSE call[c]]
      BY <2>1 DEF ReplyWithCalls, Continue, LoopVars, CheckFlags
    <3>2. Registered = {} /\ state = "running"
      BY <3>1 DEF ShownInv, StateOfLoop, ParkedCalls
    <3>3. Registered' = {} /\ \A c \in Calls : call'[c] # "parked"
      BY <3>1, <3>2 DEF Registered
    <3>4. \A c \in Calls : call'[c] = "todo" => c \in Batch
      BY <3>1, <3>2 DEF ShownInv, ParkedCalls
    <3> QED BY <3>1, <3>2, <3>3, <3>4 DEF ShownInv, StateOfLoop, ParkedCalls
  <2>2. CASE ReplyWithText \/ ReplyIsEmpty \/ CheckEnds
    BY <2>2, GotoShown DEF ReplyWithText, ReplyIsEmpty, CheckEnds
  <2>3. CASE ReplyOverflows \/ CheckRetries \/ CheckEndsAsking
    BY <2>3, WorkKeepsShown DEF ReplyOverflows, CheckRetries, Continue, CheckEndsAsking, LoopVars,
       batch
  <2>4. CASE ReplyFails
    BY <2>4, BreakShown, GotoShown DEF ReplyFails
  <2>5. CASE CheckStopped
    BY <2>5, StopShown, GotoShown DEF CheckStopped
  <2> QED BY <1>4, <2>1, <2>2, <2>3, <2>4, <2>5 DEF ModelCall
<1> QED BY <1>1, <1>2, <1>3, <1>4

\* A call of the batch, or an import, that asks, parks or is let go.
LEMMA CallKeepsShown ==
    ASSUME ShownInv, Typed', NEW c \in Calls,
           BeginCall(c) \/ Park(c) \/ Wake(c) \/ TimesOut(c) \/ HandlerReturns(c)
    PROVE  ShownInv'
<1>1. /\ UNCHANGED <<cancelled, resumed>>
      /\ \E status : call' = [call EXCEPT ![c] = status]
      /\ \A d \in Calls : d # c => call'[d] = call[d]
      /\ \A d \in Calls : d # c => (d \in Registered' <=> d \in Registered)
  <2>1. UNCHANGED <<cancelled, resumed>> /\ \E status : call' = [call EXCEPT ![c] = status]
    BY DEF BeginCall, Park, Wake, TimesOut, HandlerReturns, Release, BatchVars
  <2> QED BY <2>1 DEF ShownInv, Typed, Registered
<1>2. CASE BeginCall(c)
  <2>1. /\ pc = "batch" /\ UNCHANGED <<pc, state>> /\ c \notin Registered
        /\ call[c] = "todo" /\ call'[c] \in {"asking", "running"}
    BY <1>2 DEF BeginCall, Registered, ShownInv, Typed
  <2>2. ~cancelled => c \in Batch
    BY <2>1 DEF ShownInv, ParkedCalls
  <2>3. Registered \subseteq Registered' /\ Registered' \subseteq Registered \cup {c}
    BY <1>1, <2>1 DEF Registered
  <2>4. StateOfLoop'
    BY <1>1, <2>1 DEF ShownInv, StateOfLoop, AtWork
  <2>5. ParkedCalls'
    BY <1>1, <2>1, <2>2, <2>3 DEF ShownInv, ParkedCalls
  <2> QED BY <2>4, <2>5 DEF ShownInv
<1>3. CASE Park(c)
  <2>1. c \in Registered /\ pc # "over" /\ call[c] = "asking"
    BY <1>3 DEF Park, Registered
  <2>2. ~cancelled => pc \in {"gate", "batch"} /\ state \in {"running", "awaiting_approval"}
    BY <2>1 DEF ShownInv, StateOfLoop, ParkedCalls
  <2>3. CASE state \in {"running", "awaiting_approval"}
    <3>1. state' = "awaiting_approval" /\ call'[c] = "parked" /\ UNCHANGED pc
      BY <1>3, <2>3 DEF Park, ShownInv, Typed
    <3>2. ~cancelled
      BY <2>3 DEF ShownInv, StateOfLoop
    <3>3. Registered' = Registered
      BY <1>1, <2>1, <3>1 DEF Registered
    <3> QED BY <1>1, <2>1, <2>2, <3>1, <3>2, <3>3 DEF ShownInv, StateOfLoop, ParkedCalls, AtWork
  <2>4. CASE state \notin {"running", "awaiting_approval"}
    <3>1. UNCHANGED state /\ pc' \in {pc, "over"} /\ cancelled
      BY <1>3, <2>2, <2>4 DEF Park
    <3> QED BY <1>1, <3>1 DEF ShownInv, StateOfLoop, ParkedCalls, AtWork
  <2> QED BY <2>3, <2>4
<1>4. CASE Wake(c) \/ TimesOut(c)
  <2>1. call[c] = "parked" /\ c \in Registered /\ state' = Unparked(c) /\ UNCHANGED pc
    BY <1>4 DEF Wake, TimesOut, Release, Registered
  <2>2. call'[c] \in {"running", "done"} /\ c \notin Registered'
    BY <1>4 DEF Wake, TimesOut, Release, Registered, ShownInv, Typed
  <2>3. CASE cancelled
    BY <1>1, <2>1, <2>3 DEF Unparked, ShownInv, StateOfLoop, ParkedCalls, AtWork
  <2>4. CASE ~cancelled
    <3>1. pc \in {"gate", "batch"} /\ state = "awaiting_approval"
      BY <2>1, <2>4 DEF ShownInv, StateOfLoop, ParkedCalls
    <3>2. Registered' = Registered \ {c}
      BY <1>1, <2>2 DEF Registered
    <3>3. CASE Registered = {c}
      <4>1. Registered' = {} /\ state' = "running" /\ \A d \in Calls : call'[d] # "parked"
        BY <2>1, <3>1, <3>2, <3>3 DEF Unparked, Registered
      <4> QED BY <1>1, <2>1, <2>2, <2>4, <3>1, <4>1 DEF ShownInv, StateOfLoop, ParkedCalls, AtWork
    <3>4. CASE Registered # {c}
      <4>1. Registered' # {} /\ state' = "awaiting_approval"
        BY <2>1, <3>1, <3>2, <3>4 DEF Unparked
      <4> QED BY <1>1, <2>1, <2>2, <2>4, <3>1, <3>2, <4>1 DEF ShownInv, StateOfLoop, ParkedCalls,
                AtWork
    <3> QED BY <3>3, <3>4
  <2> QED BY <2>3, <2>4
<1>5. CASE HandlerReturns(c)
  <2>1. /\ UNCHANGED <<pc, state>> /\ c \notin Registered /\ c \notin Registered'
        /\ call'[c] = "done"
    BY <1>5 DEF HandlerReturns, Registered, ShownInv, Typed
  <2>2. Registered' = Registered
    BY <1>1, <2>1 DEF Registered
  <2> QED BY <1>1, <2>1, <2>2 DEF ShownInv, StateOfLoop, ParkedCalls, AtWork
<1> QED BY <1>2, <1>3, <1>4, <1>5

LEMMA BatchKeepsShown ==
    ASSUME ShownInv, Typed', ToolBatch \/ AskedReviewEnds \/ TaskCancelled \/ LoopFails
    PROVE  ShownInv'
<1>1. CASE BatchEnds
  <2>1. /\ pc = "batch" /\ pc' \in {"over", "waiting", "top"} /\ (pc' = "over" => cancelled)
        /\ UNCHANGED <<state, cancelled, resumed>>
        /\ call' = [c \in Calls |-> IF c \in Batch THEN "none" ELSE call[c]]
    BY <1>1 DEF BatchEnds, LoopVars, ClearBatch
  <2>2. CASE cancelled
    BY <2>1, <2>2 DEF ShownInv, StateOfLoop, ParkedCalls, AtWork
  <2>3. CASE ~cancelled
    <3>1. Registered = {} /\ Registered' = {}
      <4>1. Registered \subseteq Batch
        BY <2>1, <2>3 DEF ShownInv, ParkedCalls
      <4>2. Unfinished = {}
        BY <1>1, <2>3 DEF BatchEnds
      <4>3. Registered = {}
        BY <4>1, <4>2 DEF Registered, Unfinished
      <4> QED BY <2>1, <4>3 DEF Registered
    <3> QED BY <2>1, <2>3, <3>1, LeaveGateShown DEF AtWork
  <2> QED BY <2>2, <2>3
<1>2. CASE AskedReviewEnds
  BY <1>2, WorkKeepsShown DEF AskedReviewEnds, loop, batch
<1>3. CASE TaskCancelled \/ LoopFails
  <2>1. /\ pc' = "over" /\ UNCHANGED <<cancelled, resumed>>
        /\ Registered' = {} /\ \A c \in Calls : call'[c] = "done"
    BY <1>3 DEF TaskCancelled, LoopFails, Unwind, BatchVars, Registered
  <2>2. CASE cancelled
    <3>1. state \in {"idle", "cancelled"} /\ resumed
      BY <2>2 DEF ShownInv, StateOfLoop
    <3>2. state' = state
      BY <1>3, <3>1 DEF TaskCancelled, LoopFails, Unwind, ValidTransitions
    <3> QED BY <2>1, <2>2, <3>1, <3>2 DEF ShownInv, StateOfLoop, ParkedCalls, AtWork
  <2>3. CASE ~cancelled
    <3>1. state = "running"
      BY <1>3, <2>3, NothingParkedShows DEF TaskCancelled, LoopFails, ShownInv, StateOfLoop, AtWork
    <3>2. state' = "failed"
      BY <1>3, <2>3, <3>1 DEF TaskCancelled, LoopFails, Unwind, ValidTransitions
    <3> QED BY <2>1, <2>3, <3>2 DEF ShownInv, StateOfLoop, ParkedCalls, AtWork
  <2> QED BY <2>2, <2>3
<1> QED BY <1>1, <1>2, <1>3, CallKeepsShown DEF ToolBatch

\* What the session shows stays what its loop and its calls do.
LEMMA ShownStep == ASSUME ShownInv, [Next]_vars PROVE ShownInv'
<1>1. Typed'
  BY NextTyped DEF ShownInv
<1>2. CASE UNCHANGED vars
  BY <1>1, <1>2, WorkKeepsShown DEF vars, session, loop, batch
<1> QED BY <1>1, <1>2, PersonKeepsShown, LoopKeepsShown, BatchKeepsShown DEF Next

LEMMA ShownInvariant == Spec => []ShownInv
<1>1. ShownInv /\ [Next]_vars => ShownInv'
  BY ShownStep
<1> QED BY <1>1, InitShown, PTL DEF Spec

\* "Waiting for you" is shown exactly while something waits, however many
\* approvals, questions and imports come and go (enter_awaiting, leave_awaiting).
THEOREM WaitingIsShown == Spec => []ParkedShows
<1>1. ShownInv => ParkedShows
  BY DEF ShownInv, StateOfLoop, ParkedCalls, ParkedShows
<1> QED BY <1>1, ShownInvariant, PTL

\* No Resume, Stop or cancel is lost between pause_at_cap and wait_for_resume.
THEOREM PauseIsShown == Spec => []PauseNotLost
<1>1. ShownInv => PauseNotLost
  BY DEF ShownInv, Typed, StateOfLoop, PauseNotLost, AtWork
<1> QED BY <1>1, ShownInvariant, PTL

\* Between its pauses and parks a live loop runs in state running, so every
\* set_state it makes without looking is valid.
THEOREM RunsAsRunning == Spec => []RunningElsewhere
<1>1. ShownInv => RunningElsewhere
  BY DEF ShownInv, Typed, StateOfLoop, RunningElsewhere, AtWork
<1> QED BY <1>1, ShownInvariant, PTL
----------------------------------------------------------------------------
\* Stop and steering.

\* Messages that were accepted and whose turn has not ended.
OnItsWay == {m \in Messages : where[m] \in {"saving", "queued", "turn"}}

\* Steps of the loop that seal its turn or leave all messages alone.
LEMMA EmitEnds ==
    ASSUME Typed, EmitTurnComplete
    PROVE  /\ \A m \in Messages : where'[m] = "turn" => where[m] = "turn"
           /\ TurnOpen => where'[turn] = "ended"
           /\ \A m \in Messages : where'[m] = "steered" => where[m] = "steered"
           /\ \A m \in Messages : where'[m] = "new" => where[m] = "new"
           /\ OnItsWay' \subseteq OnItsWay
BY DEF Typed, EmitTurnComplete, TurnOpen, OnItsWay

\* What a step outside the queue and the steers does to messages, Stop and
\* cancel: it starts no turn, and clears Stop only as it seals the turn or
\* where no turn is in flight.
Mild ==
    /\ UNCHANGED <<turn, ticket, into, stopFor>>
    /\ \A m \in Messages : where'[m] = "turn" => where[m] = "turn"
    /\ \A m \in Messages : where'[m] = "steered" => where[m] = "steered"
    /\ \A m \in Messages : where'[m] = "new" => where[m] = "new"
    /\ OnItsWay' \subseteq OnItsWay
    /\ stopTurn' => stopTurn
    /\ stopTurn /\ ~stopTurn' /\ TurnOpen => where'[turn] = "ended" \/ ~TurnInFlight
    /\ UNCHANGED cancelled

LEMMA SealsMildly ==
    ASSUME Typed, UNCHANGED <<turn, ticket, into, stopFor, cancelled>>,
           \/ EmitTurnComplete /\ (stopTurn' => stopTurn)
           \/ UNCHANGED <<where, stopTurn>>
    PROVE  Mild
BY EmitEnds DEF Mild, OnItsWay

LEMMA AcknowledgesMildly ==
    ASSUME Typed, UNCHANGED <<turn, ticket, into, stopFor, cancelled, where>>,
           AcknowledgeUnlessTurn
    PROVE  Mild
BY DEF Typed, Mild, AcknowledgeUnlessTurn, OnItsWay

LEMMA LoopIsMild ==
    ASSUME Typed, BetweenTurns \/ BeforeCall \/ PassCaps \/ ModelCall
    PROVE  Mild \/ (\E m \in Messages : Dequeue(m)) \/ InjectSteers
<1> USE DEF LoopVars, messages, history
<1>1. ASSUME NEW next, Goto(next) \/ EndTurn(next) PROVE Mild
  BY <1>1, SealsMildly DEF Goto, EndTurn
<1>2. ASSUME NEW at, BreakOnFlags(at) PROVE Mild
  <2>1. CASE FinishStoppedTurn
    BY <2>1, SealsMildly DEF FinishStoppedTurn
  <2> QED BY <1>1, <1>2, <2>1 DEF BreakOnFlags
<1>3. CASE BetweenTurns
  <2>1. CASE ReviewEnds
    BY <2>1, AcknowledgesMildly DEF ReviewEnds
  <2>2. CASE Start
    BY <2>2, SealsMildly DEF Start
  <2> QED BY <1>1, <1>3, <2>1, <2>2 DEF BetweenTurns, LoopSeesCancel
<1>4. CASE BeforeCall
  <2>1. CASE (\E c \in Imports : AskImport(c)) \/ PauseAtCap
    BY <2>1, SealsMildly DEF AskImport, PauseAtCap, session, loop
  <2> QED BY <1>1, <1>2, <1>4, <2>1 DEF BeforeCall, EndWithoutModel, OpenTurn, BreakAtTop,
             EnterStep, PassGate, BreakAtCaps, WakeFromPause
<1>5. CASE PassCaps
  BY <1>1, <1>5 DEF PassCaps
<1>6. CASE ModelCall
  <2>1. ASSUME NEW next, Continue(next) PROVE Mild
    BY <2>1, SealsMildly DEF Continue
  <2>2. CASE CheckStopped
    <3>1. CASE FinishStoppedTurn
      BY <3>1, SealsMildly DEF FinishStoppedTurn
    <3> QED BY <1>1, <2>2, <3>1 DEF CheckStopped
  <2>3. CASE CheckEndsAsking
    BY <2>3, SealsMildly DEF CheckEndsAsking
  <2> QED BY <1>1, <1>2, <1>6, <2>1, <2>2, <2>3 DEF ModelCall, ReplyWithCalls, ReplyWithText,
             ReplyOverflows, ReplyFails, ReplyIsEmpty, CheckRetries, CheckEnds
<1> QED BY <1>3, <1>4, <1>5, <1>6

LEMMA BatchIsMild ==
    ASSUME Typed, ToolBatch \/ AskedReviewEnds \/ TaskCancelled \/ LoopFails PROVE Mild
<1> USE DEF BatchVars, messages, history
<1>1. ASSUME NEW c \in Calls,
             BeginCall(c) \/ Park(c) \/ Wake(c) \/ TimesOut(c) \/ HandlerReturns(c)
      PROVE  Mild
  BY <1>1, SealsMildly DEF BeginCall, Park, Wake, TimesOut, HandlerReturns, Release
<1>2. CASE BatchEnds
  BY <1>2, SealsMildly DEF BatchEnds, LoopVars
<1>3. CASE AskedReviewEnds
  BY <1>3, AcknowledgesMildly DEF AskedReviewEnds, loop
<1>4. CASE TaskCancelled \/ LoopFails
  BY <1>4, SealsMildly DEF TaskCancelled, LoopFails, Unwind
<1> QED BY <1>1, <1>2, <1>3, <1>4 DEF ToolBatch

LEMMA SaveIsMild ==
    ASSUME Typed, NEW m \in Messages, SaveSucceeds(m) \/ SaveFails(m) PROVE Mild
<1>1. /\ UNCHANGED <<turn, ticket, into, stopFor, stopTurn, cancelled>>
      /\ \E to \in {"queued", "refused"} : where' = [where EXCEPT ![m] = to]
  BY DEF SaveSucceeds, SaveFails, session, loop, history
<1>2. where[m] = "saving"
  BY DEF SaveSucceeds, SaveFails, HasQueueLock, Saving
<1> QED BY <1>1, <1>2 DEF Mild, Typed, OnItsWay

\* Every step is mild or one of those that are about messages, Stop or cancel.
LEMMA MildSteps ==
    ASSUME Typed, [Next]_vars
    PROVE  \/ Mild \/ (\E m \in Messages : Dequeue(m)) \/ InjectSteers \/ StopTurn
           \/ CancelSession \/ Send
<1> USE DEF session, messages, loop, history
<1>1. CASE Resume \/ Reply \/ SkipAll
  BY <1>1, SealsMildly DEF Resume, Reply, Answer, SkipAll
<1>2. CASE RunVerify
  BY <1>2, AcknowledgesMildly DEF RunVerify
<1>3. CASE Save
  BY <1>3, SaveIsMild DEF Save
<1>4. CASE UNCHANGED vars
  BY <1>4, SealsMildly DEF vars
<1> QED BY <1>1, <1>2, <1>3, <1>4, LoopIsMild, BatchIsMild DEF Next, Person

\* The message that starts a turn was no turn before, and finds no stop.
LEMMA DequeueFresh ==
    ASSUME IInv, NEW m \in Messages, Dequeue(m)
    PROVE  /\ ~TurnOpen /\ ~CheckFlags' /\ turn' = m /\ where[m] = "queued"
           /\ where' = [where EXCEPT ![m] = "turn"] /\ UNCHANGED <<ticket, into>>
BY DEF Dequeue, DropStaleStop, CheckFlags, Queued, LoopVars, IInv, OneTurn, BetweenTurnsAt

\* A stop the loop has yet to act on was pressed during its turn.
LEMMA StopHitsKeeps ==
    ASSUME IInv, StopHitsItsTurn, [Next]_vars PROVE StopHitsItsTurn'
<1>1. CASE Mild
  <2>1. TurnOpen' => TurnOpen
    BY <1>1 DEF Mild, TurnOpen, IInv, Typed
  <2> QED BY <1>1, <2>1 DEF Mild, StopHitsItsTurn
<1>2. ASSUME NEW m \in Messages, Dequeue(m) PROVE StopHitsItsTurn'
  BY <1>2, DequeueFresh DEF StopHitsItsTurn, CheckFlags
<1>3. CASE InjectSteers
  <2>1. UNCHANGED <<turn, stopTurn, stopFor>> /\ (TurnOpen' => TurnOpen)
    BY <1>3 DEF InjectSteers, LoopVars, TurnOpen, IInv, Typed
  <2> QED BY <2>1 DEF StopHitsItsTurn
<1>4. CASE StopTurn
  BY <1>4 DEF StopTurn, StopHitsItsTurn, TurnOpen, messages, loop
<1>5. CASE CancelSession
  BY <1>5 DEF CancelSession, StopHitsItsTurn, TurnOpen, messages, history
<1>6. CASE Send
  <2>1. UNCHANGED <<turn, stopTurn, stopFor>> /\ (TurnOpen' => TurnOpen)
    BY <1>6 DEF Send, SendMessage, loop, history, TurnOpen, IInv, Typed
  <2> QED BY <2>1 DEF StopHitsItsTurn
<1> QED BY <1>1, <1>2, <1>3, <1>4, <1>5, <1>6, MildSteps DEF IInv

\* A session that is still idle has never had a turn.
IdleIsFresh == state = "idle" => turn = None

\* A stop of an open turn goes only as that turn is sealed.
LEMMA StopKept ==
    ASSUME IInv, ShownInv, IdleIsFresh, [Next]_vars,
           stopTurn, ~stopTurn', TurnOpen, state \notin Terminal
    PROVE  where'[turn] = "ended"
<1>1. TurnInFlight
  <2>1. ~cancelled
    BY StatesNamed DEF ShownInv, StateOfLoop, IdleIsFresh, TurnOpen
  <2> QED BY <2>1, MessageCounts DEF IInv, OpenTurnsExact, TurnInFlight
<1>2. ~\E m \in Messages : Dequeue(m)
  BY DequeueFresh
<1>3. ~InjectSteers /\ ~StopTurn /\ ~CancelSession /\ ~Send
  BY DEF InjectSteers, StopTurn, CancelSession, Send, SendMessage, history
<1> QED BY <1>1, <1>2, <1>3, MildSteps DEF IInv, Mild

\* No step takes a session back to idle.
LEMMA NoWayToIdle == ASSUME Typed, [Next]_vars, state' = "idle" PROVE state = "idle"
<1> USE StatesNamed DEF LoopVars, BatchVars, history
<1>1. \A s \in States : "idle" \notin ValidTransitions[s]
  BY DEF ValidTransitions
<1>2. LeavePause = "idle" => state = "idle"
  BY DEF LeavePause
<1>3. CASE UNCHANGED vars
  BY <1>3 DEF vars, session
<1>4. CASE Person \/ Save
  BY <1>2, <1>4 DEF Person, Save, Send, SendMessage, StopTurn, CancelSession, Resume, Reply, Answer,
     SkipAll, RunVerify, SaveSucceeds, SaveFails, session
<1>5. CASE BetweenTurns
  BY <1>5 DEF BetweenTurns, Start, SetState, LoopSeesCancel, Goto, Dequeue, ReviewEnds
<1>6. CASE BeforeCall
  BY <1>2, <1>6 DEF BeforeCall, EndWithoutModel, EndTurn, OpenTurn, BreakAtTop, BreakAtCaps,
     BreakOnFlags, FinishStoppedTurn, EnterStep, AskImport, session, PassGate, PauseAtCap, SetState,
     WakeFromPause, InjectSteers, Goto
<1>7. CASE PassCaps \/ ModelCall
  BY <1>2, <1>7 DEF PassCaps, ModelCall, ReplyWithCalls, Continue, ReplyWithText, ReplyOverflows,
     ReplyFails, BreakOnFlags, FinishStoppedTurn, ReplyIsEmpty, EndTurn, CheckStopped, CheckRetries,
     CheckEnds, CheckEndsAsking, Goto
<1>8. CASE ToolBatch
  BY <1>8 DEF ToolBatch, BeginCall, Park, Wake, TimesOut, Release, Unparked, HandlerReturns,
     BatchEnds
<1>9. CASE AskedReviewEnds \/ TaskCancelled \/ LoopFails
  BY <1>9 DEF AskedReviewEnds, TaskCancelled, LoopFails, Unwind
<1> QED BY <1>3, <1>4, <1>5, <1>6, <1>7, <1>8, <1>9 DEF Next

LEMMA IdleKeeps == ASSUME IInv, ShownInv, IdleIsFresh, [Next]_vars PROVE IdleIsFresh'
<1>1. CASE \E m \in Messages : Dequeue(m)
  BY <1>1 DEF Dequeue, ShownInv, StateOfLoop, AtWork, IdleIsFresh
<1>2. CASE turn' = turn
  BY <1>2, NoWayToIdle DEF IInv, IdleIsFresh
<1>3. InjectSteers \/ StopTurn \/ CancelSession \/ Send => turn' = turn
  BY DEF InjectSteers, StopTurn, CancelSession, Send, SendMessage, LoopVars, loop
<1> QED BY <1>1, <1>2, <1>3, MildSteps DEF IInv, Mild

\* A question stays open, or opens where neither flag is set.
Asked == Open \cap Questions

LEMMA AskedShrinks ==
    ASSUME Typed, [Next]_vars
    PROVE  Asked' \subseteq Asked \/ (\E c \in Calls : BeginCall(c))
<1>1. CASE UNCHANGED batch
  BY <1>1 DEF batch, Asked, Open, Registered
<1>2. CASE Person \/ Save
  <2>1. CASE StopTurn \/ CancelSession
    BY <2>1 DEF StopTurn, CancelSession, ResolveOpen, Asked, Open, Registered
  <2>2. ASSUME NEW c \in Calls, NEW reply \in {"yes", "no"}, Answer(c, reply)
        PROVE  Asked' \subseteq Asked
    BY <2>2 DEF Answer, Asked, Open, Registered, Typed
  <2>3. CASE SkipAll
    BY <2>3 DEF SkipAll, Asked, Open, Registered
  <2> QED BY <1>1, <1>2, <2>1, <2>2, <2>3 DEF Person, Save, Send, SendMessage, Resume, Reply,
             RunVerify, SaveSucceeds, SaveFails
<1>3. CASE BetweenTurns \/ PassCaps
  BY <1>1, <1>3 DEF BetweenTurns, Start, LoopSeesCancel, Goto, Dequeue, ReviewEnds, PassCaps
<1>4. CASE BeforeCall
  <2>1. ASSUME NEW c \in Imports, AskImport(c) PROVE Asked' \subseteq Asked
    <3>1. c \notin Questions
      BY CallsAssumption
    <3> QED BY <2>1, <3>1 DEF AskImport, Asked, Open, Registered, Typed
  <2> QED BY <1>1, <1>4, <2>1 DEF BeforeCall, EndWithoutModel, EndTurn, OpenTurn, BreakAtTop,
             BreakAtCaps, BreakOnFlags, FinishStoppedTurn, EnterStep, PassGate, PauseAtCap,
             WakeFromPause, InjectSteers, Goto
<1>5. CASE ModelCall
  <2>1. ASSUME NEW calls \in SUBSET Batch, ReplyWithCalls(calls) PROVE Asked' \subseteq Asked
    BY <2>1 DEF ReplyWithCalls, Asked, Open, Registered
  <2> QED BY <1>1, <1>5, <2>1 DEF ModelCall, ReplyWithText, ReplyOverflows, ReplyFails,
             BreakOnFlags, FinishStoppedTurn, ReplyIsEmpty, EndTurn, CheckStopped, CheckRetries,
             CheckEnds, CheckEndsAsking, Goto
<1>6. ASSUME NEW c \in Calls, Park(c) \/ Wake(c) \/ TimesOut(c) \/ HandlerReturns(c)
      PROVE  Asked' \subseteq Asked
  BY <1>6 DEF Park, Wake, TimesOut, Release, HandlerReturns, Asked, Open, Registered, Typed
<1>7. CASE BatchEnds \/ TaskCancelled \/ LoopFails
  BY <1>7 DEF BatchEnds, ClearBatch, TaskCancelled, LoopFails, Unwind, Asked, Open, Registered
<1> QED BY <1>1, <1>2, <1>3, <1>4, <1>5, <1>6, <1>7 DEF Next, ToolBatch, AskedReviewEnds, vars

LEMMA QuestionsEnd == ASSUME IInv, StopEndsQuestions, [Next]_vars PROVE StopEndsQuestions'
<1> USE DEF StopEndsQuestions, Asked
<1>1. ASSUME NEW c \in Calls, BeginCall(c) PROVE StopEndsQuestions'
  <2>1. UNCHANGED <<TurnOpen, CheckFlags>>
    BY <1>1 DEF BeginCall, BatchVars, TurnOpen, CheckFlags, messages
  <2>2. CheckFlags => Asked' \subseteq Asked
    <3>1. CheckFlags /\ c \in Questions => FutureOf(c) = "ended"
      BY CallsAssumption DEF FutureOf
    <3> QED BY <1>1, <3>1, CallsAssumption DEF BeginCall, Open, Registered, IInv, Typed
  <2> QED BY <2>1, <2>2
<1>2. CASE Asked' \subseteq Asked
  <2>1. CASE Mild \/ InjectSteers \/ Send
    <3>1. (TurnOpen' => TurnOpen) /\ (CheckFlags' => CheckFlags)
      BY <2>1 DEF Mild, InjectSteers, Send, SendMessage, LoopVars, loop, history, TurnOpen,
         CheckFlags, IInv, Typed
    <3> QED BY <1>2, <3>1
  <2>2. CASE \E m \in Messages : Dequeue(m)
    BY <2>2, DequeueFresh
  <2>3. CASE StopTurn \/ CancelSession
    <3>1. Asked' = {}
      BY <2>3 DEF StopTurn, CancelSession, ResolveOpen, Open, Registered
    <3> QED BY <3>1
  <2> QED BY <2>1, <2>2, <2>3, MildSteps DEF IInv
<1> QED BY <1>1, <1>2, AskedShrinks DEF IInv

\* The order of arrival.  A message sent to steer a turn arrived after the one
\* that started it.
Tickets ==
    /\ \A m \in Messages : ticket[m] <= Cardinality(Arrivals)
    /\ \A m \in Messages : where[m] = "new" => ticket[m] = 0
    /\ \A m \in OnItsWay : 0 < ticket[m]
    /\ \A m \in Messages : into[m] # None => 0 < ticket[into[m]] /\ ticket[into[m]] < ticket[m]

LEMMA TicketsKeep == ASSUME IInv, Tickets, [Next]_vars PROVE Tickets'
<1>0. IsFiniteSet(Arrivals) /\ Cardinality(Arrivals) \in Nat
  BY MessagesAssumption, FS_Subset, FS_CardinalityType DEF Arrivals
<1>1. ASSUME UNCHANGED <<ticket, into>>, OnItsWay' \subseteq OnItsWay,
             \A m \in Messages : where'[m] = "new" => where[m] = "new"
      PROVE  Tickets'
  BY <1>1 DEF Tickets, Arrivals
<1>2. CASE \E m \in Messages : Dequeue(m)
  BY <1>1, <1>2, DequeueFresh DEF IInv, Typed, OnItsWay
<1>3. CASE InjectSteers
  BY <1>1, <1>3 DEF InjectSteers, LoopVars, OnItsWay
<1>4. CASE StopTurn \/ CancelSession
  BY <1>1, <1>4 DEF StopTurn, CancelSession, messages, OnItsWay
<1>5. ASSUME NEW m \in Messages, NEW steer \in BOOLEAN, NEW onlyIfIdle \in BOOLEAN,
             SendMessage(m, steer, onlyIfIdle)
      PROVE  Tickets'
  <2> DEFINE last == Cardinality(Arrivals)
  <2>1. /\ where[m] = "new" /\ ticket[m] = 0
        /\ where' = [where EXCEPT ![m] = "saving"]
        /\ ticket' = [ticket EXCEPT ![m] = last + 1]
        /\ into' = [into EXCEPT ![m] = IF steer THEN steerTurn ELSE None]
    BY <1>5 DEF SendMessage, Tickets
  <2>2. \A n \in Messages : ticket'[n] = IF n = m THEN last + 1 ELSE ticket[n]
    BY <2>1 DEF IInv, Typed
  <2>3. Arrivals' = Arrivals \cup {m} /\ m \notin Arrivals
    <3>1. last + 1 > 0
      BY <1>0
    <3> HIDE DEF last
    <3> QED BY <2>1, <2>2, <3>1 DEF Arrivals
  <2>4. Cardinality(Arrivals') = last + 1
    BY <1>0, <2>3, FS_AddElement
  <2>5. \A n \in Messages : ticket'[n] <= Cardinality(Arrivals')
    BY <1>0, <2>2, <2>4 DEF Tickets, IInv, Typed
  <2>6. /\ \A n \in Messages : where'[n] = "new" => ticket'[n] = 0
        /\ \A n \in OnItsWay' : 0 < ticket'[n]
    BY <1>0, <2>1, <2>2 DEF Tickets, IInv, Typed, OnItsWay
  <2>7. ASSUME NEW n \in Messages, into'[n] # None
        PROVE  0 < ticket'[into'[n]] /\ ticket'[into'[n]] < ticket'[n]
    <3>1. CASE n = m
      <4>1. into'[n] = steerTurn /\ steerTurn # None
        BY <2>1, <2>7, <3>1 DEF IInv, Typed
      <4>2. steerTurn \in Messages /\ where[steerTurn] = "turn"
        BY <4>1 DEF IInv, SteeringOpen, TurnOpen, Typed
      <4>3. 0 < ticket[steerTurn] /\ ticket[steerTurn] <= last /\ steerTurn # m
        BY <2>1, <4>2 DEF Tickets, OnItsWay
      <4> QED BY <1>0, <2>2, <3>1, <4>1, <4>2, <4>3 DEF IInv, Typed
    <3>2. CASE n # m
      <4>1. into'[n] = into[n] /\ into[n] \in Messages
        BY <2>1, <2>7, <3>2 DEF IInv, Typed
      <4>2. into[n] # m
        BY <2>1, <2>7, <4>1 DEF Tickets, IInv, Typed
      <4> QED BY <2>2, <2>7, <3>2, <4>1, <4>2 DEF Tickets
    <3> QED BY <3>1, <3>2
  <2> QED BY <2>5, <2>6, <2>7 DEF Tickets
<1>6. CASE Mild
  BY <1>1, <1>6 DEF Mild
<1> QED BY <1>2, <1>3, <1>4, <1>5, <1>6, MildSteps DEF IInv, Send

\* A message that joins a turn was marked for it while it ran.
LEMMA SteersJoinTheirTurn ==
    ASSUME IInv, Tickets, [Next]_vars, NEW m \in Messages, where[m] # "steered",
           where'[m] = "steered"
    PROVE  TurnOpen /\ into[m] = turn /\ ticket[m] > ticket[turn]
<1>1. InjectSteers
  <2>1. ~Mild /\ ~StopTurn /\ ~CancelSession /\ ~Send
    BY DEF Mild, StopTurn, CancelSession, messages, Send, SendMessage, IInv, Typed
  <2>2. ~\E n \in Messages : Dequeue(n)
    BY DequeueFresh DEF IInv, Typed
  <2> QED BY <2>1, <2>2, MildSteps DEF IInv
<1>2. m \in Steers
  BY <1>1 DEF InjectSteers
<1>3. steerTurn # None /\ into[m] = steerTurn /\ TurnOpen /\ steerTurn = turn
  BY <1>2 DEF Steers, IInv, SteeringOpen
<1> QED BY <1>3 DEF Tickets, IInv, Typed

StopInv == IInv /\ ShownInv /\ IdleIsFresh /\ StopHitsItsTurn /\ StopEndsQuestions /\ Tickets

LEMMA StopInvariant == Spec => []StopInv
<1>1. Init => StopInv
  <2> SUFFICES ASSUME Init PROVE StopInv
    OBVIOUS
  <2>1. IdleIsFresh /\ StopHitsItsTurn /\ StopEndsQuestions
    BY DEF Init, IdleIsFresh, StopHitsItsTurn, StopEndsQuestions, CheckFlags
  <2>2. Tickets
    <3>1. Arrivals = {} /\ Cardinality(Arrivals) = 0 /\ OnItsWay = {}
      BY FS_EmptySet DEF Init, Arrivals, OnItsWay
    <3> QED BY <3>1 DEF Init, Tickets
  <2> QED BY <2>1, <2>2, InitIInv, InitShown DEF StopInv
<1>2. StopInv /\ [Next]_vars => StopInv'
  <2> SUFFICES ASSUME StopInv, [Next]_vars PROVE StopInv'
    OBVIOUS
  <2>1. IInv' /\ IdleIsFresh' /\ StopHitsItsTurn' /\ StopEndsQuestions' /\ Tickets'
    BY NextKeeps, IdleKeeps, StopHitsKeeps, QuestionsEnd, TicketsKeep DEF StopInv
  <2>2. ShownInv'
    BY ShownStep DEF StopInv
  <2> QED BY <2>1, <2>2 DEF StopInv
<1> QED BY <1>1, <1>2, PTL DEF Spec

\* "A stop that landed as the previous turn sealed must not abort this one":
\* a stop the loop has yet to act on was pressed during the turn that runs.
THEOREM StopHitsOnlyItsTurn == Spec => []StopHitsItsTurn
<1>1. StopInv => StopHitsItsTurn
  BY DEF StopInv
<1> QED BY <1>1, StopInvariant, PTL

\* Neither a question that was asked nor one that is asked after Stop or a
\* cancel waits for the person (questions.ask, plan_review.review).
THEOREM QuestionsEndAtStop == Spec => []StopEndsQuestions
<1>1. StopInv => StopEndsQuestions
  BY DEF StopInv
<1> QED BY <1>1, StopInvariant, PTL

\* A stop pressed during a turn is cleared only by the step that seals that
\* turn: the end of a review beside it leaves it alone (acknowledge_stop_turn).
THEOREM StopIsNotLost == Spec => StopNotLost
<1>1. StopInv /\ [Next]_vars =>
        [stopTurn /\ ~stopTurn' /\ TurnOpen /\ state \notin Terminal => where'[turn] = "ended"]_vars
  BY StopKept DEF StopInv
<1> QED BY <1>1, StopInvariant, PTL DEF Spec, StopNotLost

\* A message joins a turn only if it was sent to steer it while it ran, never a
\* turn that started later (steer_into, inject_steers).
THEOREM SteersJoinOnlyTheirTurn == Spec => SteersOwnTurn
<1>1. StopInv /\ [Next]_vars =>
        [\A m \in Messages : where[m] # "steered" /\ where'[m] = "steered"
            => TurnOpen /\ into[m] = turn /\ ticket[m] > ticket[turn]]_vars
  BY SteersJoinTheirTurn DEF StopInv
<1> QED BY <1>1, StopInvariant, PTL DEF Spec, SteersOwnTurn
=============================================================================
