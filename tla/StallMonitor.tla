---------------------------- MODULE StallMonitor ----------------------------
(***************************************************************************)
(* StallMonitor of packages/core/src/qos.ts, the watchdog the scheduler asks *)
(* on every tick whether the pipeline still has data to consume.             *)
(*                                                                           *)
(* `clock' is the reading of the monitor's clock.  In the specification of   *)
(* this module it only goes forward, ticks and data come at any time, and    *)
(* the pump may be paused for as long as it likes (no tick); the scheduler   *)
(* (module Scheduler) gives the monitor a clock that jumps.                  *)
(***************************************************************************)
EXTENDS Integers

CONSTANTS
    StallThreshold,  \* StallMonitorOptions.stallThresholdMs
    FatalStall,      \* StallMonitorOptions.fatalStallMs
    MaxTime          \* bound on the clock

ASSUME StallAssumption ==
    /\ StallThreshold \in Nat
    /\ FatalStall \in Nat
    /\ MaxTime \in Nat

VARIABLES
    clock,
    episodes,      \* StallMonitor.episodes
    rebuffer,      \* StallMonitor.rebufferAccum
    active,        \* StallMonitor.active
    lastDataAt,    \* StallMonitor.lastDataAtMs, NoTime for null
    lastTick,      \* StallMonitor.lastTickMs, NoTime for null
    episodeStart,  \* StallMonitor.episodeStartMs
    fatalReported, \* StallMonitor.fatalReported
    verdict,       \* what the last onTick() returned: "none", "ongoing",
                   \* "cleared", "started" or "fatal"
    stalledTime,   \* history: time that went by in an episode
    evidence,      \* history: when data was last seen, here or by a tick
    fatals         \* history: fatal verdicts since data was last seen

monitorVars == <<episodes, rebuffer, active, lastDataAt, lastTick, episodeStart,
                 fatalReported, verdict>>
historyVars == <<stalledTime, evidence, fatals>>
vars == <<clock, monitorVars, historyVars>>

NoTime == -1
Times == 0..MaxTime
Verdicts == {"none", "ongoing", "cleared", "started", "fatal"}

InitMonitor ==
    /\ episodes = 0
    /\ rebuffer = 0
    /\ active = FALSE
    /\ lastDataAt = NoTime
    /\ lastTick = NoTime
    /\ episodeStart = 0
    /\ fatalReported = FALSE
    /\ verdict = "none"

-----------------------------------------------------------------------------
NoteData ==
    /\ lastDataAt' = clock
    /\ active' = FALSE
    /\ fatalReported' = FALSE
    /\ UNCHANGED <<episodes, rebuffer, lastTick, episodeStart, verdict>>

\* Mutant of Accrue: time outside of episodes is counted.
AccrueAlways ==
    /\ rebuffer' = IF lastTick # NoTime THEN rebuffer + clock - lastTick ELSE rebuffer
    /\ lastTick' = clock

\* The part of onTick() before its returns: an episode accrues the time since
\* the previous tick.
Accrue ==
    /\ rebuffer' = IF active /\ lastTick # NoTime /\ clock > lastTick
                   THEN rebuffer + clock - lastTick
                   ELSE rebuffer
    /\ lastTick' = clock

TickWithData ==
    /\ Accrue
    /\ verdict' = IF active THEN "cleared" ELSE "none"
    /\ active' = FALSE
    /\ fatalReported' = (fatalReported /\ ~active)
    /\ UNCHANGED <<episodes, lastDataAt, episodeStart>>

\* An episode goes on; it is fatal once.
TickStalled ==
    /\ active
    /\ Accrue
    /\ LET fatal == ~fatalReported /\ clock - episodeStart > FatalStall
       IN  /\ verdict' = IF fatal THEN "fatal" ELSE "ongoing"
           /\ fatalReported' = (fatalReported \/ fatal)
    /\ UNCHANGED <<episodes, active, lastDataAt, episodeStart>>

\* Too early to call it a stall, or no data was ever seen.
TickQuiet ==
    /\ ~active
    /\ lastDataAt = NoTime \/ clock - lastDataAt <= StallThreshold
    /\ Accrue
    /\ verdict' = "none"
    /\ UNCHANGED <<episodes, active, lastDataAt, episodeStart, fatalReported>>

\* Mutant of TickStartsEpisode: the start of an earlier episode is kept.
TickStartsStale ==
    /\ ~active
    /\ lastDataAt # NoTime
    /\ clock - lastDataAt > StallThreshold
    /\ Accrue
    /\ active' = TRUE
    /\ episodes' = episodes + 1
    /\ fatalReported' = FALSE
    /\ verdict' = "started"
    /\ UNCHANGED <<lastDataAt, episodeStart>>

TickStartsEpisode ==
    /\ ~active
    /\ lastDataAt # NoTime
    /\ clock - lastDataAt > StallThreshold
    /\ Accrue
    /\ active' = TRUE
    /\ episodes' = episodes + 1
    /\ episodeStart' = clock
    /\ fatalReported' = FALSE
    /\ verdict' = "started"
    /\ UNCHANGED lastDataAt

OnTick(hasData) ==
    IF hasData
    THEN TickWithData
    ELSE TickStalled \/ TickQuiet \/ TickStartsEpisode

-----------------------------------------------------------------------------
Advance ==
    /\ clock < MaxTime
    /\ clock' = clock + 1
    /\ stalledTime' = IF active THEN stalledTime + 1 ELSE stalledTime
    /\ UNCHANGED <<monitorVars, evidence, fatals>>

Data ==
    /\ NoteData
    /\ evidence' = clock
    /\ fatals' = 0
    /\ UNCHANGED <<clock, stalledTime>>

\* The pump's ticks are at least a frame apart: one for a reading of the clock.
Tick(hasData) ==
    /\ lastTick < clock
    /\ OnTick(hasData)
    /\ evidence' = IF hasData THEN clock ELSE evidence
    /\ fatals' = IF hasData THEN 0
                 ELSE IF verdict' = "fatal" THEN fatals + 1 ELSE fatals
    /\ UNCHANGED <<clock, stalledTime>>

Init ==
    /\ clock = 0
    /\ InitMonitor
    /\ stalledTime = 0
    /\ evidence = 0
    /\ fatals = 0

Next ==
    \/ Advance
    \/ Data
    \/ \E hasData \in BOOLEAN : Tick(hasData)

Spec == Init /\ [][Next]_vars

-----------------------------------------------------------------------------
TypeOK ==
    /\ clock \in Times
    /\ episodes \in Nat
    /\ rebuffer \in Nat
    /\ active \in BOOLEAN
    /\ lastDataAt \in Times \cup {NoTime}
    /\ lastTick \in Times \cup {NoTime}
    /\ episodeStart \in Times
    /\ fatalReported \in BOOLEAN
    /\ verdict \in Verdicts
    /\ stalledTime \in Nat
    /\ evidence \in Times
    /\ fatals \in Nat

\* The engine tears the session down on a fatal stall, so it must be real: no
\* data was seen, neither an arrival nor a tick that found some, for longer than
\* fatalStallMs, and the last arrival is stallThresholdMs older still.
FatalIsEarned ==
    [][fatals' > fatals =>
          /\ clock - evidence > FatalStall
          /\ clock - lastDataAt > FatalStall + StallThreshold]_vars

\* However many ticks an episode lasts it is fatal at most once: it takes data
\* before the next fatal verdict.
FatalOncePerEpisode == fatals <= 1

\* The rebuffer time reported never exceeds the time spent in episodes, also
\* when the time since the last tick is still to be added: nothing is counted
\* twice when data, ticks and pauses interleave.
RebufferHonest ==
    /\ rebuffer <= stalledTime
    /\ active => rebuffer + clock - lastTick <= stalledTime

\* An episode starts only after the threshold and ends with the first sign of
\* data, so while one is active nothing was seen since before it started.
ActiveIsDry ==
    active => /\ lastDataAt # NoTime
              /\ episodeStart - lastDataAt > StallThreshold
              /\ evidence <= episodeStart

=============================================================================
