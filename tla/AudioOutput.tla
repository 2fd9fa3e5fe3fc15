---------------------------- MODULE AudioOutput ------------------------------
(***************************************************************************)
(* AudioPipeline of packages/core/src/audio-pipeline.ts with its AudioOutput *)
(* (audio-output.ts): decoded buffers are scheduled on the clock of an        *)
(* AudioContext, which the browser may suspend.  The errors reach the engine, *)
(* whose listeners may destroy the player.                                   *)
(*                                                                           *)
(* The decoder delivers the buffers of a stream without gaps, each of some    *)
(* duration.                                                                 *)
(***************************************************************************)
EXTENDS Integers, Sequences

CONSTANTS
    Ahead,         \* SCHEDULE_AHEAD_MS
    Durations,     \* of buffers
    MaxBuffers,    \* bound on the buffers
    MaxTime        \* bound on the clock of the context

VARIABLES
    decoder,       \* AudioPipeline.decoder is not null
    output,        \* AudioPipeline.output is not null
    context,       \* AudioOutput.ctx: "none", "running", "suspended"
    currentTime,   \* of the context
    firstPts,      \* AudioOutput.firstPtsUs; -1 for null
    firstWhen,     \* AudioOutput.firstWhen
    nextWhen,      \* AudioOutput.nextWhen
    isMaster,      \* AudioPipeline.audioMasterActivated
    destroyed,
    \* history
    pts,           \* the timestamp of the next buffer
    buffers,       \* number of buffers decoded
    scheduled      \* the buffers scheduled: [pts, duration, at, when]

scheduleVars == <<firstPts, firstWhen, nextWhen>>
vars == <<decoder, output, context, currentTime, scheduleVars, isMaster, destroyed,
          pts, buffers, scheduled>>

Init ==
    /\ decoder = FALSE
    /\ output = FALSE
    /\ context = "none"
    /\ currentTime = 0
    /\ firstPts = -1
    /\ firstWhen = 0
    /\ nextWhen = 0
    /\ isMaster = FALSE
    /\ destroyed = FALSE
    /\ pts = 0
    /\ buffers = 0
    /\ scheduled = <<>>

-----------------------------------------------------------------------------
\* An audio-config event.
HandleConfig ==
    /\ ~decoder /\ ~destroyed
    /\ decoder' = TRUE
    /\ UNCHANGED <<output, context, currentTime, scheduleVars, isMaster, destroyed,
                   pts, buffers, scheduled>>

\* destroy(): decoder, output and context are closed, the base is cleared.
Teardown ==
    /\ destroyed' = TRUE
    /\ decoder' = FALSE
    /\ output' = FALSE
    /\ context' = "none"
    /\ firstPts' = -1 /\ firstWhen' = 0 /\ nextWhen' = 0

Later(s, t) == IF s >= t THEN s ELSE t

\* Mutant of When: the clock alone decides.
WhenNow == currentTime + Ahead

When == Later(currentTime, nextWhen) + Ahead

\* schedule(), for which a suspended context will do: resume() is tried.
Schedule(duration) ==
    /\ scheduled' = Append(scheduled, [pts |-> pts, duration |-> duration,
                                       at |-> currentTime, when |-> When])
    /\ nextWhen' = When
    /\ firstPts' = IF firstPts = -1 THEN pts ELSE firstPts
    /\ firstWhen' = IF firstPts = -1 THEN When ELSE firstWhen

\* The buffer cannot be copied, or there is no context: an error at most.
Refuse == UNCHANGED <<scheduleVars, scheduled>>

Counted(duration) ==
    /\ buffers < MaxBuffers
    /\ buffers' = buffers + 1
    /\ pts' = pts + duration
    /\ UNCHANGED currentTime

\* handleDecodedFrame() for the first buffer builds the output and its context,
\* if the browser has one; for the next it does not try again.  The master
\* clock is attached whether or not the buffer was scheduled.
FirstDecoded(duration) ==
    /\ decoder /\ ~output
    /\ Counted(duration)
    /\ output' = TRUE
    /\ isMaster' = TRUE
    /\ \/ context' = "none" /\ Refuse
       \/ context' \in {"running", "suspended"} /\ (Schedule(duration) \/ Refuse)
    /\ UNCHANGED <<decoder, destroyed>>

Decoded(duration) ==
    /\ decoder /\ output
    /\ Counted(duration)
    /\ (context # "none" /\ Schedule(duration)) \/ Refuse
    /\ UNCHANGED <<decoder, output, context, isMaster, destroyed>>

\* A listener of the error destroys the player.  That of a missing context does
\* so before the output is used, and an exception ends the call.
RefusedAndDestroyed(duration) ==
    /\ decoder
    /\ Counted(duration)
    /\ Teardown
    /\ isMaster' \in {isMaster, TRUE}
    /\ UNCHANGED scheduled

Destroy ==
    /\ ~destroyed
    /\ Teardown
    /\ UNCHANGED <<currentTime, isMaster, pts, buffers, scheduled>>

-----------------------------------------------------------------------------
(* The AudioContext: its clock runs unless it is suspended.                  *)

Advance ==
    /\ context = "running"
    /\ currentTime < MaxTime
    /\ currentTime' = currentTime + 1
    /\ UNCHANGED <<decoder, output, context, scheduleVars, isMaster, destroyed, pts,
                   buffers, scheduled>>

\* Suspended by the browser; resumed by a resume() the autoplay policy allows.
SuspendOrResume ==
    /\ context # "none"
    /\ context' \in {"running", "suspended"}
    /\ UNCHANGED <<decoder, output, currentTime, scheduleVars, isMaster, destroyed,
                   pts, buffers, scheduled>>

Next ==
    \/ HandleConfig
    \/ \E duration \in Durations : 
           FirstDecoded(duration) \/ Decoded(duration) \/ RefusedAndDestroyed(duration)
    \/ Destroy
    \/ Advance \/ SuspendOrResume

Spec == Init /\ [][Next]_vars

-----------------------------------------------------------------------------
TypeOK ==
    /\ {decoder, output, isMaster, destroyed} \subseteq BOOLEAN
    /\ context \in {"none", "running", "suspended"}
    /\ currentTime \in 0..MaxTime
    /\ firstPts \in -1..pts
    /\ {firstWhen, nextWhen, pts} \subseteq Nat
    /\ buffers \in 0..MaxBuffers
    /\ scheduled \in Seq([pts : Nat, duration : Durations, at : 0..MaxTime, when : Nat])

\* audio-output.ts:20: "keeping scheduling monotonic".  Whatever is suspended,
\* refused or late, a buffer sounds Ahead of the moment it was scheduled or
\* later, and not before the one ahead of it, if that was of up to Ahead, ended.
SoundsInOrder ==
    \A j \in DOMAIN scheduled :
        /\ scheduled[j].at + Ahead <= scheduled[j].when
        /\ \A i \in 1..(j - 1) :
               scheduled[i].duration <= Ahead =>
                   scheduled[i].when + scheduled[i].duration <= scheduled[j].when

\* README.md:205: "queues each decoded `AudioData` 250 ms ahead of the
\* `AudioContext` clock, keeping scheduling monotonic and glitch-free": a buffer
\* that follows the one before sounds when that one ends.
GlitchFree ==
    \A i \in 2..Len(scheduled) :
        scheduled[i].pts = scheduled[i - 1].pts + scheduled[i - 1].duration =>
            scheduled[i].when <= scheduled[i - 1].when + scheduled[i - 1].duration
=============================================================================
