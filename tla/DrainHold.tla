----------------------------- MODULE DrainHold -----------------------------
(***************************************************************************)
(* The hold a tst drain puts on new turns before a restart (DrainHold and  *)
(* Daemon._drain_turns in daemon.py).  A drain holds, waits for the turns  *)
(* that are open and holds once more; a release, a later drain or the end  *)
(* of its own time lifts the hold.  How long a drain waits is not modelled:*)
(* its wait may end, or the hold run out, at any step.                     *)
(***************************************************************************)
EXTENDS Integers

CONSTANTS
    Drains,       \* drain requests
    MaxGeneration   \* bound: the generation a release may start from

ASSUME DrainAssumption == MaxGeneration \in Nat /\ "release" \notin Drains

VARIABLES
    hold,       \* DrainHold.active
    generation, \* DrainHold._generation
    drains,     \* [pc, mine] of each request's handler
    asked       \* history: the last request a person made, or "none"

drainVars == <<hold, generation, drains, asked>>

Unasked == [pc |-> "unasked", mine |-> 0]

DrainInit ==
    /\ hold = FALSE /\ generation = 0 /\ asked = "none"
    /\ drains = [d \in Drains |-> Unasked]

HoldFor(held) == hold' = held /\ generation' = generation + 1

DrainBegins(d) ==
    /\ drains[d].pc = "unasked"
    /\ HoldFor(TRUE)
    /\ drains' = [drains EXCEPT ![d] = [pc |-> "waiting", mine |-> generation + 1]]
    /\ asked' = d

NeverSuperseded(d) == FALSE    \* faulty: does not look whether it was replaced
Superseded(d) == drains[d].mine # generation

\* No turn is open any more, the time is up or the drain was replaced.  held
\* is whether it was asked to hold past its wait.
DrainEnds(d) ==
    /\ drains[d].pc = "waiting"
    /\ IF Superseded(d) THEN UNCHANGED <<hold, generation>>
       ELSE \E held \in BOOLEAN : HoldFor(held)
    /\ drains' = [drains EXCEPT ![d].pc = "answered"]
    /\ UNCHANGED asked

Release ==
    /\ generation < MaxGeneration
    /\ HoldFor(FALSE)
    /\ asked' = "release"
    /\ UNCHANGED drains

\* The hold runs out, which it does not while its own drain still waits.
HoldEnds ==
    /\ hold /\ \A d \in Drains : drains[d].pc # "waiting" \/ Superseded(d)
    /\ hold' = FALSE
    /\ UNCHANGED <<generation, drains, asked>>

\* The process ends, and with it the hold and every request.
DrainLost ==
    /\ hold' = FALSE /\ generation' = 0 /\ asked' = "none"
    /\ drains' = [d \in Drains |-> [drains[d] EXCEPT !.pc = IF @ = "waiting" THEN "answered" ELSE @]]

DrainNext ==
    \/ \E d \in Drains : DrainBegins(d) \/ DrainEnds(d)
    \/ Release
    \/ HoldEnds

DrainTypeOK ==
    /\ hold \in BOOLEAN /\ generation \in Nat /\ asked \in Drains \cup {"none", "release"}
    /\ drains \in [Drains -> [pc : {"unasked", "waiting", "answered"}, mine : Nat]]

----------------------------------------------------------------------------
\* After a release nothing is held until somebody asks for a drain again: a
\* drain that is still waiting for a turn it gave up on does not set its hold
\* when that turn ends (Daemon._drain_turns).
ReleaseSticks == asked = "release" => ~hold
=============================================================================
