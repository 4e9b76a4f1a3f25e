----------------------------- MODULE TurnOrder -----------------------------
(***************************************************************************)
(* What a session promises about the messages it accepts, whatever else    *)
(* happens to it: they run one at a time and in the order they arrived;    *)
(* one that does not get a turn of its own was refused, or joined the turn *)
(* of a message that arrived before it; a turn ends once.  A session that  *)
(* is over accepts and runs nothing more.  Module SessionTurn implements   *)
(* this.                                                                   *)
(***************************************************************************)
EXTENDS Naturals

CONSTANT Messages

VARIABLES
    fate,    \* what became of each message
    arrival, \* the place of a message in the order of arrival
    over     \* the session's loop has ended

orderVars == <<fate, arrival, over>>

At(f) == {m \in Messages : fate[m] = f}

OrderInit ==
    /\ fate = [m \in Messages |-> "unsent"]
    /\ arrival = [m \in Messages |-> 0]
    /\ over = FALSE

\* A message arrives after every other.
Accept(m) ==
    /\ ~over /\ m \in At("unsent")
    /\ fate' = [fate EXCEPT ![m] = "waiting"]
    /\ \A n \in Messages \ {m} : arrival'[n] = arrival[n] /\ arrival[n] < arrival'[m]
    /\ over' = over

\* It could not be kept, and its sender hears so.
Refuse(m) ==
    /\ m \in At("waiting")
    /\ fate' = [fate EXCEPT ![m] = "refused"]
    /\ UNCHANGED <<arrival, over>>

\* The oldest message that waits gets its turn.
Run(m) ==
    /\ ~over /\ At("running") = {}
    /\ m \in At("waiting") /\ \A n \in At("waiting") : arrival[m] <= arrival[n]
    /\ fate' = [fate EXCEPT ![m] = "running"]
    /\ UNCHANGED <<arrival, over>>

\* Messages that steer join the turn of an older one.
Join(steers) ==
    /\ ~over
    /\ steers \subseteq At("waiting")
    /\ \E r \in At("running") : \A m \in steers : arrival[r] < arrival[m]
    /\ fate' = [m \in Messages |-> IF m \in steers THEN "joined" ELSE fate[m]]
    /\ UNCHANGED <<arrival, over>>

Finish(m) ==
    /\ ~over /\ m \in At("running")
    /\ fate' = [fate EXCEPT ![m] = "done"]
    /\ UNCHANGED <<arrival, over>>

GiveUp ==
    /\ ~over /\ over' = TRUE
    /\ UNCHANGED <<fate, arrival>>

OrderNext ==
    \/ \E m \in Messages : Accept(m) \/ Refuse(m) \/ Run(m) \/ Finish(m)
    \/ \E steers \in SUBSET Messages : Join(steers)
    \/ GiveUp

OrderSpec == OrderInit /\ [][OrderNext]_orderVars
=============================================================================
