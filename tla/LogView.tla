------------------------------ MODULE LogView ------------------------------
(***************************************************************************)
(* What a window is promised of the event log it follows: it shows each    *)
(* event once and in order, and passes over one only when the log has it   *)
(* no longer.  The log drops its oldest events and never its newest, so a  *)
(* number is given once.  A daemon that comes back may have lost others.   *)
(* Module EventStream implements this.                                     *)
(***************************************************************************)
EXTENDS Integers

VARIABLES
    newest, \* the number of the newest event
    held,   \* the events the log holds
    cursor, \* the place of the window in the log
    shown,  \* the events it shows
    lives   \* how often the daemon came back

viewVars == <<newest, held, cursor, shown, lives>>

ViewInit == newest = 0 /\ held = {} /\ cursor = 0 /\ shown = {} /\ lives = 0

Log ==
    /\ newest' = newest + 1
    /\ held' = held \cup {newest + 1}
    /\ UNCHANGED <<cursor, shown, lives>>

Trim ==
    /\ held' \subseteq held /\ newest \in held'
    /\ \A s \in held, r \in held' : r < s => s \in held'
    /\ UNCHANGED <<newest, cursor, shown, lives>>

\* The daemon is started again, with what the file holds.
ComeBack ==
    /\ lives' = lives + 1
    /\ held' \subseteq held /\ (newest = 0 \/ newest \in held')
    /\ UNCHANGED <<newest, cursor, shown>>

Show ==
    /\ cursor < newest /\ cursor + 1 \notin shown
    /\ cursor' = cursor + 1
    /\ shown' = shown \cup {cursor + 1}
    /\ UNCHANGED <<newest, held, lives>>

\* What the log dropped cannot be shown any more.
Skip ==
    /\ cursor' \in cursor + 1..newest - 1
    /\ \A s \in held : s > cursor'
    /\ UNCHANGED <<newest, held, shown, lives>>

\* The person leaves the session, and the window forgets it.
Forget ==
    /\ cursor' = 0 /\ shown' = {}
    /\ UNCHANGED <<newest, held, lives>>

ViewNext == Log \/ Trim \/ ComeBack \/ Show \/ Skip \/ Forget

ViewSpec == ViewInit /\ [][ViewNext]_viewVars
=============================================================================
