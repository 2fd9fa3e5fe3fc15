-------------------------------- MODULE Pump --------------------------------
(***************************************************************************)
(* The playback pump of packages/core/src/pump.ts: it drives one callback   *)
(* (the scheduler's tick) from requestAnimationFrame, or from setInterval   *)
(* where there is none, and swaps its driver for a slow interval while the  *)
(* tab is hidden.                                                           *)
(*                                                                          *)
(* `frames' is what the runtime holds: the callbacks requested and neither  *)
(* cancelled nor, for a one-shot driver, already run.  The tick callback    *)
(* runs between Fire and TickReturn (or TickThrows); user code reached from *)
(* it (a 'frame', 'stalled' or 'error' listener) may stop and start the     *)
(* pump before it returns, which is why the tick is not one atomic step.    *)
(***************************************************************************)
EXTENDS Naturals, FiniteSets

CONSTANTS
    FrameIds,         \* handles returned by requestFrame; 0 stands for null
    MaxFrames         \* bound: no start() beyond this many outstanding frames

ASSUME PumpAssumption ==
    /\ FrameIds \subseteq Nat \ {0}
    /\ MaxFrames \in Nat

VARIABLES
    mayThrow,    \* the tick callback may throw: a listener of this player does
    primaryRearm, \* Pump.primaryRearm: one-shot primary driver (rAF, or injected)
    started,     \* Pump.started
    hidden,      \* Pump.hidden: the visibility the current driver was chosen for
    current,     \* Pump.current: "primary" or "slow" (hiddenDrivers)
    frameId,     \* Pump.frameId, 0 for null
    frames,      \* outstanding runtime callbacks [driver, id]
    docHidden,   \* document.hidden
    listening,   \* the visibility listener is attached
    inTick,      \* a tick callback is on the call stack
    haltedInTick \* history: the pump was once stopped from inside its own tick

vars == <<mayThrow, primaryRearm, started, hidden, current, frameId, frames,
          docHidden, listening, inTick, haltedInTick>>

Drivers == {"primary", "slow"}

Frame == [driver : Drivers, id : FrameIds]

\* A one-shot driver consumes its callback when it runs it; an interval keeps it.
OneShot(driver) == driver = "primary" /\ primaryRearm

\* currentRearm: handleTick() requests the next frame itself.
Rearm(driver) == OneShot(driver)

DriverFor(isHidden) == IF isHidden THEN "slow" ELSE "primary"

\* cancelFrame(frameId) on the current driver; an id that already ran is ignored.
Cancelled == {f \in frames : ~(f.driver = current /\ f.id = frameId)}

\* schedule(): the runtime hands out an id none of the `pending' callbacks has.
\* The least one, so that handles are reused; the pump only compares them.
Schedule(driver, pending) ==
    \E id \in FrameIds :
        /\ [driver |-> driver, id |-> id] \notin pending
        /\ \A i \in FrameIds : i < id => [driver |-> driver, id |-> i] \in pending
        /\ frameId' = id
        /\ frames' = pending \cup {[driver |-> driver, id |-> id]}

\* Swap the driver if the visibility differs from the one in use, then schedule.
SwitchDriver(isHidden) ==
    /\ hidden' = isHidden
    /\ current' = IF isHidden = hidden THEN current ELSE DriverFor(isHidden)
    /\ Schedule(current', IF isHidden = hidden THEN frames ELSE Cancelled)

Init ==
    /\ mayThrow \in BOOLEAN
    /\ primaryRearm \in BOOLEAN
    /\ started = FALSE
    /\ hidden = FALSE
    /\ current = "primary"
    /\ frameId = 0
    /\ frames = {}
    /\ docHidden \in BOOLEAN
    /\ listening = TRUE
    /\ inTick = FALSE
    /\ haltedInTick = FALSE

-----------------------------------------------------------------------------
\* Mutant of Start: resumes with the driver it was stopped with.
StartAsBefore ==
    /\ ~started
    /\ started' = TRUE
    /\ SwitchDriver(hidden)
    /\ UNCHANGED <<primaryRearm, docHidden, listening, inTick, haltedInTick>>

Start ==
    /\ ~started
    /\ started' = TRUE
    /\ SwitchDriver(docHidden)
    /\ UNCHANGED <<primaryRearm, docHidden, listening, inTick, haltedInTick>>

\* What stop() does to the pump's own fields, a no-op when not started.
Halt ==
    IF started
    THEN /\ started' = FALSE
         /\ frames' = Cancelled
         /\ frameId' = 0
         /\ haltedInTick' = (haltedInTick \/ inTick)
    ELSE UNCHANGED <<started, frames, frameId, haltedInTick>>

Stop ==
    /\ Halt
    /\ UNCHANGED <<primaryRearm, hidden, current, docHidden, listening, inTick>>

Destroy ==
    /\ Halt
    /\ listening' = FALSE
    /\ UNCHANGED <<primaryRearm, hidden, current, docHidden, inTick>>

\* The runtime runs an outstanding callback: handleTick() up to its tick().
Fire(f) ==
    /\ ~inTick
    /\ f \in frames
    /\ frames' = IF OneShot(f.driver) THEN frames \ {f} ELSE frames
    /\ inTick' = started
    /\ UNCHANGED <<primaryRearm, started, hidden, current, frameId,
                   docHidden, listening, haltedInTick>>

\* Mutant of TickReturn: the next frame is never requested.
TickReturnDone ==
    /\ inTick
    /\ inTick' = FALSE
    /\ UNCHANGED <<primaryRearm, started, hidden, current, frameId,
                   frames, docHidden, listening, haltedInTick>>

\* tick() returned: handleTick() re-arms a one-shot driver.
TickReturn ==
    /\ inTick
    /\ inTick' = FALSE
    /\ IF Rearm(current)
       THEN Schedule(current, frames)
       ELSE UNCHANGED <<frameId, frames>>
    /\ UNCHANGED <<primaryRearm, started, hidden, current, docHidden,
                   listening, haltedInTick>>

\* tick() threw: the exception leaves handleTick() before it re-arms.
TickThrows ==
    /\ mayThrow
    /\ inTick
    /\ inTick' = FALSE
    /\ UNCHANGED <<primaryRearm, started, hidden, current, frameId,
                   frames, docHidden, listening, haltedInTick>>

\* Mutant of VisibilityChange: keeps the driver when the tab is hidden.
VisibilityIgnored ==
    /\ ~inTick
    /\ docHidden' = ~docHidden
    /\ UNCHANGED <<primaryRearm, started, hidden, current, frameId,
                   frames, listening, inTick, haltedInTick>>

\* document.hidden flips and 'visibilitychange' is dispatched, between ticks.
VisibilityChange ==
    /\ ~inTick
    /\ docHidden' = ~docHidden
    /\ IF listening /\ started /\ docHidden' # hidden
       THEN SwitchDriver(docHidden')
       ELSE UNCHANGED <<hidden, current, frameId, frames>>
    /\ UNCHANGED <<primaryRearm, started, listening, inTick, haltedInTick>>

\* Calls arrive between tasks, or inside a tick from the listeners it reaches.
UserCall ==
    \/ Cardinality(frames) < MaxFrames /\ Start
    \/ Stop
    \/ Destroy

Runtime ==
    \/ \E f \in frames : Fire(f)
    \/ TickReturn
    \/ TickThrows
    \/ VisibilityChange

Next == (UserCall \/ Runtime) /\ UNCHANGED mayThrow

Spec == Init /\ [][Next]_vars

\* A hidden page runs no animation frame; every other requested callback is
\* eventually run, and a tick that began returns.
DueFrame(f) ==
    (OneShot(f.driver) => ~docHidden) /\ Fire(f) /\ UNCHANGED mayThrow

FairSpec ==
    /\ Spec
    /\ WF_vars(\E f \in frames : DueFrame(f))
    /\ WF_vars(TickReturn /\ UNCHANGED mayThrow)

-----------------------------------------------------------------------------
TypeOK ==
    /\ mayThrow \in BOOLEAN
    /\ primaryRearm \in BOOLEAN
    /\ started \in BOOLEAN
    /\ hidden \in BOOLEAN
    /\ current \in Drivers
    /\ frameId \in FrameIds \cup {0}
    /\ frames \subseteq Frame
    /\ docHidden \in BOOLEAN
    /\ listening \in BOOLEAN
    /\ inTick \in BOOLEAN
    /\ haltedInTick \in BOOLEAN

\* An interval never stops by itself, so one the pump no longer has the handle
\* of would tick for ever: every outstanding interval is the one cancel() would
\* clear, and none outlives stop().
TrackedInterval ==
    \A f \in frames :
        ~OneShot(f.driver) => started /\ f.driver = current /\ f.id = frameId

\* A started pump never silently dies: while its listeners do not throw, outside
\* a tick the callback it last requested is still outstanding, whatever mixture
\* of stop(), start() and tab switches led here and however many chains those
\* calls left behind.
PumpAlive ==
    ~mayThrow /\ started /\ ~inTick => [driver |-> current, id |-> frameId] \in frames

\* A started pump with its listener attached uses the driver of the tab's
\* actual visibility, also when the tab changed while the pump was stopped.
CadenceFollowsTab ==
    started /\ listening => hidden = docHidden /\ current = DriverFor(docHidden)

\* At most one callback is outstanding, so that each display frame ticks once.
OneOutstandingFrame == \A f, g \in frames : f = g

\* Only one thing can make ticks double or leave a callback behind a stopped
\* pump: stopping a one-shot pump from inside its own tick.  Interval drivers,
\* repeated start() and stop(), tab switches and throwing ticks never do.
DoubleNeedsHaltInTick ==
    ~(primaryRearm /\ haltedInTick) =>
        /\ OneOutstandingFrame
        /\ ~started /\ ~inTick => frames = {}

\* While it stays started, and its listeners do not throw, the pump keeps
\* ticking, in a hidden tab too, where animation frames do not run and only the
\* slow interval does.
KeepsTicking ==
    ~mayThrow /\ started /\ listening ~> inTick \/ ~started \/ ~listening
=============================================================================
