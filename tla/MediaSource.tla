----------------------------- MODULE MediaSource -----------------------------
(***************************************************************************)
(* What the sources keep of MediaSource, packages/plugin-sdk/src/types.ts:83, *)
(* in which start() begins, stop() is final, and then "no events after stop". *)
(* That last promise they break; what they keep is weaker: the events of ONE   *)
(* piece of media may come after stop(), the segment or the chunk that was in *)
(* hand, however many these events are, or one error; then nothing.  And all  *)
(* they hold (requests, timers, connections) is let go of.                    *)
(***************************************************************************)
EXTENDS Naturals

VARIABLES
    status,          \* "idle", "running", or "stopped" once stop() was called
    busy,            \* a request, a timer or a connection is outstanding
    lateDeliveries   \* pieces of media of which events were delivered after stop()

vars == <<status, busy, lateDeliveries>>

Init ==
    /\ status = "idle"
    /\ busy = FALSE
    /\ lateDeliveries = 0

Start ==
    /\ status = "idle"
    /\ status' = "running"
    /\ busy' \in BOOLEAN
    /\ UNCHANGED lateDeliveries

\* Events are delivered, requests made and answered; a source may end or fail.
Run ==
    /\ status = "running"
    /\ busy' \in BOOLEAN
    /\ UNCHANGED <<status, lateDeliveries>>

\* A listener may call stop() while an event is delivered to the others.
Stop ==
    /\ status # "stopped"
    /\ status' = "stopped"
    /\ busy' \in BOOLEAN
    /\ lateDeliveries' \in {lateDeliveries, 1}

\* What stop() cannot cancel ends by itself.  Nothing new begins.
Drain ==
    /\ status = "stopped"
    /\ busy
    /\ busy' \in BOOLEAN
    /\ lateDeliveries' \in {lateDeliveries, 1}
    /\ UNCHANGED status

Next == Start \/ Run \/ Stop \/ Drain

\* A stopped source ends up holding nothing.
LetsGo == status = "stopped" ~> ~busy

Spec == Init /\ [][Next]_vars /\ LetsGo
=============================================================================
