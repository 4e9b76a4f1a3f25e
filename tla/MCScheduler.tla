---------------------------- MODULE MCScheduler ----------------------------
\* Small instances of Scheduler for TLC.
EXTENDS Scheduler, TLC

Drained == generation > 0 \/ \E d \in Drains : drains[d] # Unasked

\* Bounds: after a drain nothing is edited or restarted and one session opens,
\* and a behaviour ends with its first lost update.
Bounded ==
    /\ Drained => edits + crashes = 0 /\ Len(opened) < 2
    /\ clobbered = {}
=============================================================================
