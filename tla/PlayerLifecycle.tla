--------------------------- MODULE PlayerLifecycle ---------------------------
(***************************************************************************)
(* What a Player (packages/core/src/types.ts) promises its user, with no    *)
(* call stack, timers, pump or sessions: the state it reports and whether   *)
(* there is a stream behind that state.  Module Engine implements it.       *)
(***************************************************************************)
VARIABLES
    state,   \* the state getStats() reports
    link,    \* "none", "opening" or "live": the stream behind it
    final    \* destroy() was called

vars == <<state, link, final>>

Init ==
    /\ state = "idle"
    /\ link = "none"
    /\ final = FALSE

\* play() on a player that has no session: a new one begins.
Begin ==
    /\ ~final
    /\ state \in {"idle", "error", "stopped"}
    /\ state' = "connecting"
    /\ UNCHANGED <<link, final>>

\* The session gets its stream: one that must still open, or is live at once.
Attach ==
    /\ state = "connecting"
    /\ link = "none"
    /\ link' \in {"opening", "live"}
    /\ UNCHANGED <<state, final>>

\* The stream opens under a player the user may have paused and resumed.
Open ==
    /\ link = "opening"
    /\ link' = "live"
    /\ state' = IF state = "connecting" THEN "playing" ELSE state
    /\ UNCHANGED final

\* A stream that is live at once needs no opening.
GoLive ==
    /\ state = "connecting"
    /\ link = "live"
    /\ state' = "playing"
    /\ UNCHANGED <<link, final>>

Pause ==
    /\ state \in {"connecting", "playing"}
    /\ link # "none"
    /\ state' = "paused"
    /\ UNCHANGED <<link, final>>

Resume ==
    /\ state = "paused"
    /\ state' = "playing"
    /\ UNCHANGED <<link, final>>

\* Any failure of a begun session, or of what it left in the decoder.
Fail ==
    /\ ~final
    /\ state \notin {"idle", "error"}
    /\ state' = "error"
    /\ link' = "none"
    /\ UNCHANGED final

\* The peer ends the stream.
End ==
    /\ link # "none"
    /\ state \in {"playing", "paused"}
    /\ state' = "stopped"
    /\ link' = "none"
    /\ UNCHANGED final

Destroy ==
    /\ ~final
    /\ final' = TRUE
    /\ state' = "stopped"
    /\ link' = "none"

Next ==
    Begin \/ Attach \/ Open \/ GoLive \/ Pause \/ Resume \/ Fail \/ End \/ Destroy

Spec == Init /\ [][Next]_vars
=============================================================================
