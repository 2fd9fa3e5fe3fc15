---------------------------- MODULE MCScheduling -----------------------------
(* One subject per behaviour: the stall monitor under a clock of its own; the *)
(* scheduler on the wall clock; the scheduler while the audio starts, is       *)
(* suspended and resumes and sessions restart, within smaller bounds.         *)
EXTENDS StallMonitor, Sequences

\* The constants of the scheduler.
CONSTANTS
    Budget, HighWater, Capacity, FatalAfter, WallOrigin, Ahead, DriftWindow, DriftLimit,
    MaxDelay, Wrap, Origins, Events, MaxSwitches, MaxChunks, Horizon,
    ClockChunks, ClockHorizon     \* the smaller bounds

ASSUME SchedulingAssumption ==
    /\ {Budget, Capacity, FatalAfter, DriftWindow, DriftLimit, MaxDelay,
        MaxSwitches, MaxChunks, Horizon, ClockChunks, ClockHorizon} \subseteq Nat
    /\ HighWater \in Nat \ {0}
    /\ Wrap \in Nat \ {0}
    /\ {WallOrigin, Ahead} \subseteq Int
    /\ Origins \subseteq 0..(Wrap - 1)

VARIABLES
    subject,       \* "monitor", "wall" or "clocks"
    time, audio, audioTime, switches, origin, sentLast, arrivals, pumping, jitter,
    overflowed, base, clockReset, decoding, decodedLast, framesDecoded, framesDropped,
    drift, stalls, rebuffered, stalled, dataAt, ticked, stalledSince, reported, outcome

Player == INSTANCE Scheduler
    WITH FatalStall <- FatalAfter, MaxTime <- Horizon,
         clock <- time, episodes <- stalls, rebuffer <- rebuffered, active <- stalled,
         lastDataAt <- dataAt, lastTick <- ticked, episodeStart <- stalledSince,
         fatalReported <- reported, verdict <- outcome

schedulerVars ==
    <<time, audio, audioTime, switches, origin, sentLast, arrivals, pumping, jitter,
      overflowed, base, clockReset, decoding, decodedLast, framesDecoded, framesDropped,
      drift, stalls, rebuffered, stalled, dataAt, ticked, stalledSince, reported, outcome>>

MCInit ==
    /\ subject \in {"monitor", "wall", "clocks"}
    /\ Init
    /\ Player!Init
    /\ subject # "clocks" => origin = 0

\* On the wall clock there is no audio, and the session is the only one.
OnWall == UNCHANGED <<audio, switches>>

WithinSmallerBounds == arrivals' <= ClockChunks /\ time' <= ClockHorizon

MCNext ==
    \/ subject = "monitor" /\ Next /\ UNCHANGED <<subject, schedulerVars>>
    \/ subject = "wall" /\ Player!Next /\ OnWall /\ UNCHANGED <<subject, vars>>
    \/ subject = "clocks" /\ Player!Next /\ WithinSmallerBounds /\ UNCHANGED <<subject, vars>>

MCSpec == MCInit /\ [][MCNext]_<<subject, vars, schedulerVars>>

\* Properties of the scheduler, in either setting.
FramesAccountedOrOverflowed == Player!FramesAccountedOrOverflowed
RebasedDropsOnlyLate == Player!RebasedDropsOnlyLate
StaysNearLive == Player!StaysNearLive
DecodesInOrder == Player!DecodesInOrder
=============================================================================
