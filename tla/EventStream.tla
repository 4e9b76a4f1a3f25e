---------------------------- MODULE EventStream ----------------------------
(***************************************************************************)
(* How the events of one session reach one window: the session's event log *)
(* (session.py SessionEventLog), its copy on disk with the cap that drops  *)
(* the oldest events (session_persist.py), a connection's attach handler   *)
(* with its replay and its streamer (daemon.py), and the cursor with which *)
(* the window accepts what arrives (ui/src/lib/client.ts).                 *)
(*                                                                         *)
(* An event is its seq.  A frame from the daemon stands for a run of       *)
(* events sent in order, or for a log_trimmed notice.  The events that the *)
(* attach handler logs before it replays (a trimmed held-message list,     *)
(* task list, goal or plan) are among those Log adds.  Not here: the       *)
(* history sent beside log_trimmed, events of other sessions, and the      *)
(* replies that carry no place in the log.                                 *)
(***************************************************************************)
EXTENDS Integers, Sequences, FiniteSets

CONSTANTS
    MaxEvents,   \* bound: events ever logged
    LogMax,      \* session.log_max_events
    TrimTo,      \* what a trim leaves
    MaxDrops,    \* bound: connections lost
    MaxRestarts, \* bound: restarts of the daemon
    MaxFrames,   \* bound: frames on their way while the person acts
    Mishaps      \* what may happen: see Logged and Restart

ASSUME CapAssumption == LogMax \in Nat /\ TrimTo \in 1..LogMax
ASSUME MishapsAssumption == Mishaps \subseteq {"attach", "hole", "unwritten"}
ASSUME StreamBounds ==
    MaxEvents \in Nat /\ MaxDrops \in Nat /\ MaxRestarts \in Nat /\ MaxFrames \in Nat

VARIABLES
    seq,       \* SessionEventLog._seq
    log,       \* SessionEventLog._events
    unwritten, \* events whose append_event has not returned
    disk,      \* events.jsonl
    stage,     \* where the attach handler of the connection is
    from,      \* the seq it replays from
    stream,    \* the streamer of the connection: _streaming_tasks
    seen,      \* its seen_seq
    stale,     \* a cancelled streamer has yet to run its cleanup
    up,        \* the window holds an open, handshaken socket
    requests,  \* attach and detach messages on their way to the daemon
    frames,    \* frames on their way to the window
    follows,   \* client.attachedSessions has the session
    detached,  \* client.detachedSessions has it
    awaiting,  \* client.awaitingReplay has it
    last,      \* client.lastSeq
    shown,     \* events in the window's store
    strayed,   \* history: what the window may be behind for, or "no"
    drops, restarts  \* count towards their bounds

store == <<seq, log, unwritten, disk>>
server == <<stage, from, stream, seen, stale>>
wire == <<requests, frames>>
window == <<follows, detached, awaiting, last, shown>>
bounds == <<drops, restarts>>
vars == <<store, server, up, wire, window, strayed, bounds>>

Lowest(S) == CHOOSE s \in S : \A r \in S : s <= r
Highest(S) == CHOOSE s \in S : \A r \in S : r <= s
From(S, n) == {s \in S : s >= n}

\* A frame: a notice that the log starts at `trim`, or the events in `run`.
Trimmed(n) == [trim |-> n, run |-> {}]
Run(S) == IF S = {} THEN <<>> ELSE <<[trim |-> 0, run |-> S]>>

\* A fresh session that the window has opened: attach{from_seq: 1} is sent.
Init ==
    /\ seq = 0 /\ log = {} /\ unwritten = {} /\ disk = {}
    /\ stage = "idle" /\ from = 1 /\ stream = "none" /\ seen = 0 /\ stale = FALSE
    /\ up = TRUE /\ requests = <<1>> /\ frames = <<>>
    /\ follows = TRUE /\ detached = FALSE /\ awaiting = FALSE
    /\ last = 0 /\ shown = {} /\ strayed = "no" /\ drops = 0 /\ restarts = 0

----------------------------------------------------------------------------
\* The log and its file.

\* add: the event is stamped and held, and its append to the file begins.
\* The replay of an attach and the first look of its streamer are separate
\* steps; unless Mishaps has "attach" nothing is logged between them.  What is
\* logged later shows the window that it missed something, if it looks.
BetweenReplayAndStream == stage = "replayed" \/ stream = "created"
Logged ==
    /\ seq < MaxEvents
    /\ BetweenReplayAndStream => "attach" \in Mishaps
    /\ seq' = seq + 1
    /\ log' = log \cup {seq + 1}
    /\ unwritten' = unwritten \cup {seq + 1}
    /\ strayed' = IF strayed = "file" THEN "file"
                  ELSE IF BetweenReplayAndStream \/ (strayed = "attach" /\ awaiting)
                  THEN "attach" ELSE "no"
    /\ UNCHANGED <<disk, server, up, wire, window, bounds>>

\* _window: all of them up to the cap, else the newest TrimTo.
Newest(S, n) == {s \in S : Cardinality({r \in S : r > s}) < n}
Kept(S) == IF Cardinality(S) <= LogMax THEN S ELSE Newest(S, TrimTo)

DropOneMore(kept) == {s \in log : s > Lowest(kept)}    \* faulty: off by one
DropBefore(kept) == From(log, Lowest(kept))

\* A streamer is woken before the append of the event takes to its thread, so
\* it is through with the event when the append returns, unless a send of its
\* own holds it up.
StreamerFirst == stream = "streaming" /\ seq > seen => frames # <<>>

\* append_event under the session's persist lock and so in order; a trim of
\* the file is followed by drop_before.
AppendEvent ==
    /\ unwritten # {} /\ StreamerFirst
    /\ LET next == Lowest(unwritten)
           kept == Kept(disk \cup {next})
       IN /\ disk' = kept
          /\ log' = IF kept = disk \cup {next} THEN log ELSE DropBefore(kept)
          /\ unwritten' = unwritten \ {next}
    /\ UNCHANGED <<seq, server, up, wire, window, strayed, bounds>>

\* The append raised, which `add` logs and forgets.
AppendFails ==
    /\ unwritten # {}
    /\ unwritten' = unwritten \ {Lowest(unwritten)}
    /\ UNCHANGED <<seq, log, disk, server, up, wire, window, strayed, bounds>>

LastByCount == Cardinality(disk)    \* faulty: a trimmed file counts from one again
LastOnDisk == IF disk = {} THEN 0 ELSE Highest(disk)

HasHole(S) == \E s, t \in S : s + 1 < t /\ \A r \in s + 1..t - 1 : r \notin S

\* The daemon stops and comes back: the log is what the file holds
\* (_revive_session, replace).  Unless Mishaps says so, the newest event is in
\* the file, and the file has no event missing between two others.
Restart ==
    /\ restarts < MaxRestarts
    /\ seq \notin disk \cup {0} => "unwritten" \in Mishaps
    /\ HasHole(disk) => "hole" \in Mishaps
    /\ restarts' = restarts + 1
    /\ log' = disk /\ unwritten' = {} /\ seq' = LastOnDisk
    /\ stage' = "idle" /\ stream' = "none" /\ stale' = FALSE
    /\ up' = FALSE /\ requests' = <<>> /\ frames' = <<>>
    /\ strayed' = IF strayed = "file" \/ HasHole(disk) \/ seq \notin disk \cup {0}
                  THEN "file" ELSE "no"
    /\ UNCHANGED <<disk, from, seen, window, drops>>

----------------------------------------------------------------------------
\* A connection of the daemon; its messages are handled one at a time.

\* An attach supersedes the streamer the connection has for the session.
AttachBegins ==
    /\ up /\ stage = "idle" /\ requests # <<>> /\ Head(requests) > 0
    /\ from' = Head(requests)
    /\ requests' = Tail(requests)
    /\ stream' = "none"
    /\ stale' = (stale \/ stream # "none")
    /\ stage' = "attaching"
    /\ UNCHANGED <<store, seen, up, frames, window, strayed, bounds>>

Earliest == IF log = {} THEN 1 ELSE Lowest(log)

\* A prefix that is gone is a notice of its own; the log may move on while it
\* is sent.
SendNotice ==
    /\ stage = "attaching" /\ from < Earliest
    /\ frames' = Append(frames, Trimmed(Earliest))
    /\ from' = Earliest
    /\ stage' = "noticed"
    /\ UNCHANGED <<store, stream, seen, stale, up, requests, window, strayed, bounds>>

\* events_from(max(from_seq, earliest)), and each event is sent.
Replay ==
    /\ stage = "noticed" \/ (stage = "attaching" /\ from >= Earliest)
    /\ frames' = frames \o Run(From(log, from))
    /\ stage' = "replayed"
    /\ UNCHANGED <<store, from, stream, seen, stale, up, requests, window, strayed, bounds>>

\* The streamer's task is created, and the handler is done.
CreateStream ==
    /\ stage = "replayed"
    /\ stream' = "created"
    /\ stage' = "idle"
    /\ UNCHANGED <<store, from, seen, stale, up, wire, window, strayed, bounds>>

\* The task runs for the first time: it takes what is logged by now as seen.
StreamStarts ==
    /\ stream = "created"
    /\ stream' = "streaming"
    /\ seen' = seq
    /\ UNCHANGED <<store, stage, from, stale, up, wire, window, strayed, bounds>>

SeenOneMore == seq + 1    \* faulty: off by one
SeenAfter == seq

StreamSends ==
    /\ stream = "streaming" /\ seq > seen
    /\ frames' = frames \o Run(From(log, seen + 1))
    /\ seen' = SeenAfter
    /\ UNCHANGED <<store, stage, from, stream, stale, up, requests, window, strayed, bounds>>

\* detach: the streamer is cancelled.
Detach ==
    /\ up /\ stage = "idle" /\ requests # <<>> /\ Head(requests) = 0
    /\ requests' = Tail(requests)
    /\ stream' = "none"
    /\ stale' = (stale \/ stream # "none")
    /\ UNCHANGED <<store, stage, from, seen, up, frames, window, strayed, bounds>>

CleanupUnowned == "none"    \* faulty: tears down whatever stream is there
CleanupOwned == stream

\* A cancelled streamer runs its `finally`; the slot is no longer its own.
StaleCleanup ==
    /\ stale
    /\ stale' = FALSE
    /\ stream' = CleanupOwned
    /\ UNCHANGED <<store, stage, from, seen, up, wire, window, strayed, bounds>>

Serve ==
    \/ AttachBegins \/ SendNotice \/ Replay \/ CreateStream \/ StreamStarts
    \/ StreamSends \/ Detach \/ StaleCleanup

----------------------------------------------------------------------------
\* The window.

Gone == stage' = "idle" /\ stream' = "none" /\ stale' = FALSE /\ requests' = <<>> /\ frames' = <<>>

\* The socket closes, or the window disowns it (forceReconnect): nothing on
\* its way on it counts any more.
LoseConnection ==
    /\ up /\ drops < MaxDrops
    /\ drops' = drops + 1
    /\ up' = FALSE /\ Gone
    /\ UNCHANGED <<store, from, seen, window, strayed, restarts>>

\* hello_ack on a new socket: a followed session is attached from where the
\* window is.
Reconnect ==
    /\ ~up
    /\ up' = TRUE
    /\ detached' = FALSE /\ awaiting' = FALSE
    /\ requests' = IF follows THEN <<last + 1>> ELSE <<>>
    /\ UNCHANGED <<store, server, frames, follows, last, shown, strayed, bounds>>

CanAct == requests = <<>> /\ Len(frames) <= MaxFrames
Send(request) == requests' = IF up THEN Append(requests, request) ELSE requests

\* attach: the session is opened in the window.
Open ==
    /\ CanAct
    /\ awaiting' = (awaiting \/ detached) /\ detached' = FALSE
    /\ follows' = TRUE
    /\ Send(last + 1)
    /\ UNCHANGED <<store, server, up, frames, last, shown, strayed, bounds>>

\* detach: another session is opened, and the store forgets this one.
Leave ==
    /\ CanAct /\ follows
    /\ follows' = FALSE /\ last' = 0 /\ shown' = {}
    /\ awaiting' = FALSE /\ detached' = TRUE
    /\ Send(0)
    /\ UNCHANGED <<store, server, up, frames, strayed, bounds>>

\* resume: the page was suspended; attach again from where the window is.
ResumePage ==
    /\ CanAct /\ up /\ follows
    /\ Send(last + 1)
    /\ UNCHANGED <<store, server, up, frames, window, strayed, bounds>>

TakeAll == FALSE    \* faulty: what still comes after a detach counts
LeftBehind == detached

\* Takes the next event of the first frame, or the notice it is.
Rest(s) ==
    LET run == Head(frames).run \ {s}
    IN Run(run) \o Tail(frames)

JumpAlways(n) == n - 1    \* faulty: the cursor goes back
Jump(n) == IF n - 1 > last THEN n - 1 ELSE last

\* The notice moves the cursor to the prefix that is left, whatever is awaited.
ReceiveNotice ==
    /\ up /\ frames # <<>> /\ Head(frames).trim > 0
    /\ frames' = Tail(frames)
    /\ IF LeftBehind THEN UNCHANGED <<awaiting, last>>
       ELSE /\ awaiting' = FALSE
            /\ last' = Jump(Head(frames).trim)
    /\ UNCHANGED <<store, server, up, requests, follows, detached, shown, strayed, bounds>>

\* acceptSequenced: one further is taken, an older one dropped; a gap closes
\* the socket for a fresh one, unless a replay is still awaited.
ReceiveEvent ==
    /\ up /\ frames # <<>> /\ Head(frames).trim = 0
    /\ LET s == Lowest(Head(frames).run)
       IN \/ /\ LeftBehind \/ s <= last \/ (awaiting /\ s # last + 1)
             /\ frames' = Rest(s)
             /\ awaiting' = (awaiting /\ (LeftBehind \/ s # last + 1))
             /\ UNCHANGED <<server, up, requests, last, shown>>
          \/ /\ ~LeftBehind /\ s = last + 1
             /\ frames' = Rest(s)
             /\ awaiting' = FALSE
             /\ last' = s
             /\ shown' = IF follows THEN shown \cup {s} ELSE shown
             /\ UNCHANGED <<server, up, requests>>
          \/ /\ ~LeftBehind /\ ~awaiting /\ s > last + 1
             /\ up' = FALSE /\ Gone
             /\ UNCHANGED <<from, seen, awaiting, last, shown>>
    /\ UNCHANGED <<store, follows, detached, strayed, bounds>>

Receive == ReceiveNotice \/ ReceiveEvent
Person == Open \/ Leave \/ ResumePage

Next ==
    \/ Logged \/ AppendEvent \/ AppendFails \/ Restart
    \/ Serve \/ LoseConnection \/ Reconnect \/ Receive \/ Person

\* The daemon, the socket and the window's script run; nothing need be logged,
\* and the person need do nothing.
Spec ==
    /\ Init /\ [][Next]_vars
    /\ WF_vars(AppendEvent \/ AppendFails) /\ WF_vars(AttachBegins) /\ WF_vars(Detach)
    /\ WF_vars(SendNotice) /\ WF_vars(Replay) /\ WF_vars(CreateStream)
    /\ WF_vars(StreamStarts) /\ WF_vars(StreamSends) /\ WF_vars(StaleCleanup)
    /\ WF_vars(Reconnect) /\ WF_vars(Receive)

----------------------------------------------------------------------------
\* Safety.

\* Type of every variable.
TypeOK ==
    /\ seq \in 0..MaxEvents /\ log \subseteq 1..MaxEvents
    /\ unwritten \subseteq 1..MaxEvents /\ disk \subseteq 1..MaxEvents
    /\ stage \in {"idle", "attaching", "noticed", "replayed"}
    /\ from \in 1..MaxEvents + 1
    /\ stream \in {"none", "created", "streaming"} /\ seen \in 0..MaxEvents
    /\ stale \in BOOLEAN /\ up \in BOOLEAN
    /\ requests \in Seq(0..MaxEvents + 1)
    /\ frames \in Seq([trim : 0..MaxEvents, run : SUBSET (1..MaxEvents)])
    /\ follows \in BOOLEAN /\ detached \in BOOLEAN /\ awaiting \in BOOLEAN
    /\ last \in 0..MaxEvents /\ shown \subseteq 1..MaxEvents
    /\ strayed \in {"no", "attach", "file"}
    /\ drops \in 0..MaxDrops /\ restarts \in 0..MaxRestarts

\* "No gaps" (client.ts acceptSequenced, log_trimmed): the window never moves
\* its cursor over an event that the log still holds and the window does not
\* show, through any order of attach, detach, replay, trim and reconnect.
NoGap == \A s \in log : s <= last => s \in shown

\* The window is never ahead of the log, so no event logged later is taken for
\* a duplicate; seqs go on where the file ends (SessionEventLog.replace).
CursorWithinLog == last <= seq

\* The durable window drops a prefix "so memory matches the on-disk cap": what
\* the file holds can be replayed from memory.
DiskInMemory == disk \subseteq log

View == INSTANCE LogView WITH newest <- seq, held <- log, cursor <- last, lives <- restarts

\* Through replays, live streams, resumes and reconnects that overlap, the
\* window shows each event once and in order, and passes over one only when the
\* log dropped it (client.ts acceptSequenced, "no-gap/no-dup"; module LogView).
ShowsTheLog == View!ViewSpec

\* Liveness.

\* A window that keeps following a session ends up with all of its log, through
\* lost connections, trims and restarts, even if no event is logged any more.
CatchesUp == <>[]follows => <>[](last = seq)

\* The window is behind for ever only after a restart over a file that misses
\* an event, and otherwise at most until the next event: what an attach let
\* slip shows as a gap then, and the window attaches again (client.ts,
\* acceptSequenced), unless it still awaits the first event of a replay that
\* had none.
CatchesUpOrStrayed == <>[]follows => <>[](last = seq \/ strayed # "no")
=============================================================================
