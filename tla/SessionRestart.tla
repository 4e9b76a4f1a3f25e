--------------------------- MODULE SessionRestart ---------------------------
(***************************************************************************)
(* What a session keeps on disk, and what a daemon that starts again makes *)
(* of it: the queue file that a message is written to before it is         *)
(* accepted (session.py, session_persist.py), the log and the conversation *)
(* a turn reaches before the queue file lets its message go (loop.py,      *)
(* steer.py), the messages held through a restart (queued_messages.py) and *)
(* the seal on a turn that a restart cut in half (turn_seal.py, daemon.py).*)
(*                                                                         *)
(* A step ends where something is durable or another task can act, and the *)
(* daemon may be killed between any two of them.  The event log is its     *)
(* window on disk: what is in memory only is the subject of EventStream.   *)
(* The order in which messages wait, and which of them steer, is the       *)
(* subject of SessionTurn: here the loop takes any that waits, and any     *)
(* that wait join its turn.  A conversation is the messages it has and     *)
(* whether its last tool calls are unanswered.  Not here: the Grok engine, *)
(* forks and branches, sessions whose conversation.json is unreadable.     *)
(***************************************************************************)
EXTENDS Integers, Sequences, FiniteSets

CONSTANTS
    Messages,   \* messages people and jobs send
    LogMax,     \* session.log_max_events
    TrimTo,     \* what a trim leaves
    MaxCrashes, \* bound: times the daemon is killed
    Mishaps,    \* what may happen: see Log and Crash
    None        \* no message

ASSUME WindowAssumption == LogMax \in Nat /\ TrimTo \in 1..LogMax
ASSUME RestartAssumption ==
    /\ None \notin Messages /\ MaxCrashes \in Nat
    /\ Mishaps \subseteq {"long_turn", "stale_row", "killed_while_sealing"}

VARIABLES
    events,  \* events.jsonl
    snap,    \* conversation.json
    file,    \* queued.json
    convo,   \* Session.conversation
    held,    \* Session.held_messages
    waiting, \* Session._waiting
    queue,   \* Session._user_message_queue
    writing, \* the holder of _queue_lock and the rows it writes
    listing, \* held-message actions written but not yet listed
    pc,      \* where the loop, or the start of the daemon, is
    turn,    \* the message of the current turn
    taken,   \* messages the loop is logging and letting go
    logged,  \* ... of which their user_turn is logged
    loaded,  \* LoadedSession.events
    status,  \* history: what became of a message's sending
    ran,     \* history: user_turns that reached the disk, of each message
    blocked, \* history: messages a user_prompt hook kept from the model
    crashes  \* counts towards its bound

disk == <<events, snap, file>>
lists == <<held, waiting, queue>>
loop == <<pc, turn, taken, logged>>
history == <<status, ran, blocked>>
vars == <<disk, convo, lists, writing, listing, loop, loaded, history, crashes>>

NoWrite == [op |-> "none", m |-> None, rows |-> {}]
Empty == [has |-> {}, open |-> FALSE]

UserTurn(m) == [kind |-> "user_turn", m |-> m, held |-> {}]
TurnComplete == [kind |-> "turn_complete", m |-> None, held |-> {}]
QueuedMessages(S) == [kind |-> "queued_messages", m |-> None, held |-> S]
Other == [kind |-> "other", m |-> None, held |-> {}]

Of(log, kind) == {i \in DOMAIN log : log[i].kind = kind}
Started(log) == {log[i].m : i \in Of(log, "user_turn")}
\* The list of the newest queued_messages event, or {}.
LastList(log) ==
    LET listed == Of(log, "queued_messages")
    IN UNION {log[i].held : i \in {i \in listed : \A j \in listed : j <= i}}

\* turn_seal.open_turn
OpenTurn(log) ==
    \E i \in Of(log, "user_turn") : \A j \in Of(log, "turn_complete") : j < i

Init ==
    /\ events = <<>> /\ snap = Empty /\ file = {}
    /\ convo = Empty /\ held = {} /\ waiting = {} /\ queue = {}
    /\ writing = NoWrite /\ listing = {}
    /\ pc = "waiting" /\ turn = None /\ taken = {} /\ logged = {}
    /\ loaded = <<>>
    /\ status = [m \in Messages |-> "new"]
    /\ ran = [m \in Messages |-> 0] /\ blocked = {} /\ crashes = 0

----------------------------------------------------------------------------
\* Appending to the log, with the cap of SessionPersist._window.

\* Faulty: trims one event too late.
WindowLate(log) ==
    IF Len(log) <= LogMax + 1 THEN log ELSE SubSeq(log, Len(log) - TrimTo + 1, Len(log))
Window(log) ==
    IF Len(log) <= LogMax THEN log ELSE SubSeq(log, Len(log) - TrimTo + 1, Len(log))

\* The window is thousands of events.  It moves past the user_turn of a turn
\* that is still open only if Mishaps has "long_turn", and past that of a
\* message which the queue file has not let go only if it has "stale_row".
Log(event) ==
    LET log == Window(Append(events, event))
    IN /\ event # TurnComplete /\ OpenTurn(events) /\ ~OpenTurn(log) => "long_turn" \in Mishaps
       /\ Started(events) \cap (waiting \cup file) \subseteq Started(log) \/ "stale_row" \in Mishaps
       /\ events' = log

Up == pc \notin {"down", "sealing", "saving_seal", "restoring", "listing_held"}
Live == Up /\ pc # "over"

\* Deltas, tool results, costs and whatever else a session logs.
LogOther ==
    /\ Up
    /\ Log(Other)
    /\ UNCHANGED <<snap, file, convo, lists, writing, listing, loop, loaded, history, crashes>>

----------------------------------------------------------------------------
\* The queue file, written under the queue lock.

RowsOfWaiting(h, w) == w    \* faulty: the held messages are left out
Rows(h, w) == h \cup w

\* Takes the lock and starts to write what is held and what waits now.
Write(op, m, h, w) ==
    /\ writing = NoWrite
    /\ held' = h /\ waiting' = w
    /\ writing' = [op |-> op, m |-> m, rows |-> Rows(h, w)]

\* add_user_message.  A window's message is refused when it cannot be saved,
\* that of a job or of a schedule runs from memory.
Accept(m, strict) ==
    /\ Live /\ status[m] = "new"
    /\ Write(IF strict THEN "accept" ELSE "accept_anyway", m, held, waiting \cup {m})
    /\ status' = [status EXCEPT ![m] = "saving"]
    /\ UNCHANGED <<disk, convo, queue, listing, loop, loaded, ran, blocked, crashes>>

\* send_held and remove_held, up to the write.
SendHeld(m) ==
    /\ Live /\ m \in held
    /\ Write("send", m, held \ {m}, waiting \cup {m})
    /\ UNCHANGED <<disk, convo, queue, listing, loop, loaded, history, crashes>>

RemoveHeld(m) ==
    /\ Up /\ m \in held
    /\ Write("remove", m, held \ {m}, waiting)
    /\ status' = [status EXCEPT ![m] = "removed"]
    /\ UNCHANGED <<disk, convo, queue, listing, loop, loaded, ran, blocked, crashes>>

\* user_turn_logged, for each message that was taken.
LetGo(m) ==
    /\ pc = "letting_go" /\ m \in taken
    /\ Write("logged", m, held, waiting \ {m})
    /\ UNCHANGED <<disk, convo, queue, listing, loop, loaded, history, crashes>>

\* What the holder of the lock does once the file is, or is not, written.
AfterWrite(ok) ==
    LET m == writing.m
        refused == writing.op = "accept" /\ ~ok
    IN /\ writing' = NoWrite
       /\ queue' = IF writing.op \in {"accept", "accept_anyway"} /\ ~refused
                   THEN queue \cup {m} ELSE queue
       /\ waiting' = IF refused THEN waiting \ {m} ELSE waiting
       /\ listing' = IF writing.op \in {"send", "remove"}
                     THEN listing \cup {[op |-> writing.op, m |-> m]} ELSE listing
       /\ status' = IF writing.op \notin {"accept", "accept_anyway"} THEN status
                    ELSE [status EXCEPT ![m] = IF ok THEN "accepted"
                                               ELSE IF refused THEN "refused" ELSE "unsaved"]
       /\ taken' = IF writing.op = "logged" THEN taken \ {m} ELSE taken

Written ==
    /\ writing # NoWrite
    /\ file' = writing.rows
    /\ AfterWrite(TRUE)
    /\ UNCHANGED <<events, snap, convo, held, pc, turn, logged, loaded, ran, blocked, crashes>>

WriteFails ==
    /\ writing # NoWrite
    /\ AfterWrite(FALSE)
    /\ UNCHANGED <<disk, convo, held, pc, turn, logged, loaded, ran, blocked, crashes>>

\* log_held_messages, and a sent message goes to the loop.
ListHeld(action) ==
    /\ action \in listing
    /\ Log(QueuedMessages(held))
    /\ listing' = listing \ {action}
    /\ queue' = IF action.op = "send" THEN queue \cup {action.m} ELSE queue
    /\ UNCHANGED <<snap, file, convo, held, waiting, writing, loop, loaded, history, crashes>>

\* An attach finds messages held that the log no longer lists
\* (keep_held_visible).
AttachLists ==
    /\ Up /\ held # {} /\ Of(events, "queued_messages") = {}
    /\ Log(QueuedMessages(held))
    /\ UNCHANGED <<snap, file, convo, lists, writing, listing, loop, loaded, history, crashes>>

----------------------------------------------------------------------------
\* The loop: a turn begins, or steers join it.  What is taken is logged, then
\* the conversation is saved, then the queue file lets it go.

Take(m) ==
    /\ pc = "waiting" /\ m \in queue
    /\ queue' = queue \ {m}
    /\ turn' = m /\ taken' = {m} /\ logged' = {}
    /\ pc' = "logging"
    /\ UNCHANGED <<disk, convo, held, waiting, writing, listing, loaded, history, crashes>>

InjectSteers(S) ==
    /\ pc = "running" /\ ~convo.open
    /\ S # {} /\ S \subseteq queue
    /\ queue' = queue \ S
    /\ taken' = S /\ logged' = {}
    /\ pc' = "logging"
    /\ UNCHANGED <<disk, convo, held, waiting, writing, listing, turn, loaded, history, crashes>>

\* A user_prompt hook may keep a message from the model: it is only logged.
LogUserTurn(m, block) ==
    /\ pc = "logging" /\ m \in taken \ logged
    /\ Log(UserTurn(m))
    /\ convo' = IF block THEN convo ELSE [convo EXCEPT !.has = @ \cup {m}]
    /\ blocked' = IF block THEN blocked \cup {m} ELSE blocked
    /\ logged' = logged \cup {m}
    /\ ran' = [ran EXCEPT ![m] = @ + 1]
    /\ UNCHANGED <<snap, file, lists, writing, listing, pc, turn, taken, loaded, status, crashes>>

\* conversation_changed; a turn whose message was blocked does not save.
SaveTurn ==
    /\ pc = "logging" /\ logged = taken
    /\ snap' = IF turn \in blocked THEN snap ELSE convo
    /\ pc' = "letting_go"
    /\ UNCHANGED <<events, file, convo, lists, writing, listing, turn, taken, logged, loaded,
                   history, crashes>>

Proceed ==
    /\ pc = "letting_go" /\ taken = {} /\ writing.op # "logged"
    /\ pc' = IF turn \in blocked THEN "ending" ELSE "running"
    /\ logged' = {}
    /\ UNCHANGED <<disk, convo, lists, writing, listing, turn, taken, loaded, history, crashes>>

SaveConversation(open) ==
    /\ convo' = [convo EXCEPT !.open = open]
    /\ snap' = convo'
    /\ UNCHANGED <<events, file, lists, writing, listing, turn, taken, logged, loaded, history,
                   crashes>>

\* An assistant message with tool calls, and later the results of all of them.
ReplyWithCalls == pc = "running" /\ ~convo.open /\ pc' = pc /\ SaveConversation(TRUE)
AppendResults == pc = "running" /\ convo.open /\ pc' = pc /\ SaveConversation(FALSE)

\* The last reply, a stop or a failure: every call is answered by then.
FinishTurn == pc = "running" /\ ~convo.open /\ pc' = "ending" /\ SaveConversation(FALSE)

EmitTurnComplete ==
    /\ pc = "ending"
    /\ Log(TurnComplete)
    /\ turn' = None /\ pc' = "waiting"
    /\ UNCHANGED <<snap, file, convo, lists, writing, listing, taken, logged, loaded, history,
                   crashes>>

\* The session is cancelled, or an exception ends its loop, wherever it is.
LoopOver ==
    /\ Live /\ writing.op # "logged"
    /\ pc' = "over" /\ turn' = None /\ taken' = {} /\ logged' = {}
    /\ UNCHANGED <<disk, convo, lists, writing, listing, loaded, history, crashes>>

----------------------------------------------------------------------------
\* The daemon is killed and comes back (Daemon._revive_session).  It serves no
\* window before every session is restored.

Crash ==
    /\ crashes < MaxCrashes /\ pc # "down"
    /\ pc = "saving_seal" => "killed_while_sealing" \in Mishaps
    /\ crashes' = crashes + 1
    /\ pc' = "down" /\ turn' = None /\ taken' = {} /\ logged' = {}
    /\ convo' = Empty /\ held' = {} /\ waiting' = {} /\ queue' = {}
    /\ writing' = NoWrite /\ listing' = {} /\ loaded' = <<>>
    /\ status' = [m \in Messages |-> IF status[m] = "saving" THEN "lost" ELSE status[m]]
    /\ UNCHANGED <<disk, ran, blocked>>

AsSaved == snap    \* faulty: the open calls stay open
\* repair_cut_conversation, for a turn that was cut
Repaired == [snap EXCEPT !.open = @ /\ ~OpenTurn(events)]

Load ==
    /\ pc = "down"
    /\ loaded' = events
    /\ convo' = Repaired
    /\ pc' = IF OpenTurn(events) THEN "sealing" ELSE "restoring"
    /\ UNCHANGED <<disk, lists, writing, listing, turn, taken, logged, history, crashes>>

\* Faulty: the conversation is repaired, and the log is left as it was.
RepairOnly ==
    /\ pc = "sealing"
    /\ pc' = "saving_seal"
    /\ UNCHANGED <<disk, convo, lists, writing, listing, turn, taken, logged, loaded, history,
                   crashes>>

\* _seal_cut_turn: the turn_complete first, then the conversation.
SealCutTurn ==
    /\ pc = "sealing"
    /\ Log(TurnComplete)
    /\ pc' = "saving_seal"
    /\ UNCHANGED <<snap, file, convo, lists, writing, listing, turn, taken, logged, loaded,
                   history, crashes>>

SaveSealed ==
    /\ pc = "saving_seal"
    /\ snap' = convo
    /\ pc' = "restoring"
    /\ UNCHANGED <<events, file, convo, lists, writing, listing, turn, taken, logged, loaded,
                   history, crashes>>

HoldEveryRow == file    \* faulty: also what the log shows as started
\* Rows whose user_turn the log holds have started.
NotStarted == file \ Started(loaded)

\* restore_queue: the rows are held, and the file is written again.
RestoreHeld ==
    /\ pc = "restoring"
    /\ held' = NotStarted
    /\ file' = NotStarted \/ file' = file
    /\ pc' = "listing_held"
    /\ UNCHANGED <<events, snap, convo, waiting, queue, writing, listing, turn, taken, logged,
                   loaded, history, crashes>>

ListIfHeld == held # {}    \* faulty: a stale list in the log is not cleared
ListRestored == held # {} \/ LastList(loaded) # {}

ListAfterRestore ==
    /\ pc = "listing_held"
    /\ IF ListRestored THEN Log(QueuedMessages(held)) ELSE events' = events
    /\ loaded' = <<>>
    /\ pc' = "waiting"
    /\ UNCHANGED <<snap, file, convo, lists, writing, listing, turn, taken, logged, history,
                   crashes>>

Sending == \E m \in Messages, strict \in BOOLEAN : Accept(m, strict)
Holding == \E m \in Messages : SendHeld(m) \/ RemoveHeld(m)
Listing == (\E action \in listing : ListHeld(action)) \/ AttachLists
Turn ==
    \/ \E m \in Messages : Take(m) \/ LogUserTurn(m, TRUE) \/ LogUserTurn(m, FALSE) \/ LetGo(m)
    \/ (\E S \in SUBSET Messages : InjectSteers(S)) \/ SaveTurn \/ Proceed
    \/ ReplyWithCalls \/ AppendResults \/ FinishTurn \/ EmitTurnComplete \/ LoopOver
Revive == Load \/ SealCutTurn \/ SaveSealed \/ RestoreHeld \/ ListAfterRestore

Next ==
    LogOther \/ Sending \/ Holding \/ Written \/ WriteFails \/ Listing \/ Turn \/ Crash \/ Revive

Spec == Init /\ [][Next]_vars

----------------------------------------------------------------------------
\* Safety.

\* Type of every variable.
TypeOK ==
    /\ events \in Seq({UserTurn(m) : m \in Messages} \cup {TurnComplete, Other}
                          \cup {QueuedMessages(S) : S \in SUBSET Messages})
    /\ Len(events) <= LogMax
    /\ snap \in [has : SUBSET Messages, open : BOOLEAN]
    /\ convo \in [has : SUBSET Messages, open : BOOLEAN]
    /\ file \subseteq Messages /\ held \subseteq Messages
    /\ waiting \subseteq Messages /\ queue \subseteq waiting
    /\ held \cap waiting = {}
    /\ taken \subseteq Messages /\ logged \subseteq Messages
    /\ turn \in Messages \cup {None}
    /\ status \in [Messages ->
                      {"new", "saving", "accepted", "refused", "unsaved", "removed", "lost"}]
    /\ ran \in [Messages -> Nat] /\ blocked \subseteq Messages /\ crashes \in 0..MaxCrashes

\* A stop at any moment finds an accepted message "in the log or in the queue
\* file, never in neither" (Session.user_turn_logged), whatever writes of the
\* file fail.
NeverInNeither == \A m \in Messages : status[m] = "accepted" => m \in file \/ ran[m] > 0

\* A message reaches the model once: its user_turn is logged once, and what
\* has started is never held again for the person to send (restore_queue).
RunsOnce == \A m \in Messages : ran[m] <= 1 /\ (m \in held => ran[m] = 0)

\* Between turns every tool call in the conversation is answered, or a
\* provider refuses every request from then on (turn_seal.py).
NothingOpen == pc = "waiting" => ~convo.open /\ ~snap.open

\* Between turns the log shows no turn that runs: a turn that a restart cut is
\* sealed.
CutTurnSealed == pc = "waiting" => ~OpenTurn(events)

\* The newest list in the log is the list that is held, so a window never shows
\* a row which is gone, nor misses one (restore_queue, keep_held_visible).
HeldShown ==
    Up /\ listing = {} /\ writing.op \notin {"send", "remove"} /\ Of(events, "queued_messages") # {}
        => LastList(events) = held

\* A message whose user_turn is in the log "already ran": the model has it.
ModelHasIt ==
    pc = "waiting" => \A m \in Started(events) : m \in convo.has \cup blocked
=============================================================================
