------------------------------ MODULE Scheduler ------------------------------
(***************************************************************************)
(* The scheduler of packages/core/src/scheduler.ts: the jitter buffer        *)
(* (module JitterBuffer), the decoder's queue, the A/V sync clock            *)
(* (av-sync.ts), the stall monitor (module StallMonitor), the master clock   *)
(* they all read (master-clock.ts) and the drift corrector that re-bases the *)
(* sync clock (drift-corrector.ts, Engine.observeDrift()).                   *)
(*                                                                           *)
(* `clock' is real time.  The player reads time through the master clock:    *)
(* the wall clock, `WallOrigin' ahead of real time, or, while the            *)
(* AudioContext runs, the media time of the audio.  A stream stamps what it  *)
(* captures at real time t with t plus its origin; a new session starts a    *)
(* new stream, the player's clocks stay.  Milliseconds and microseconds are  *)
(* one unit here.                                                            *)
(***************************************************************************)
EXTENDS Integers, Sequences, SequencesExt, FiniteSetsExt

CONSTANTS
    Budget,         \* SchedulerOptions.latencyBudgetMs
    HighWater,      \* DECODER_HIGH_WATER
    Capacity,       \* capacity of the jitter buffer
    StallThreshold, FatalStall,
    Wrap,           \* timestamps and their differences are modulo Wrap
    WallOrigin,     \* the wall clock when real time is 0
    Origins,        \* the timestamps a stream may start from
    Events,         \* what may happen: of "start", "suspend" and "resume" of the
                    \* audio, and the "restart" of the player
    Ahead,          \* SCHEDULE_AHEAD_MS of audio-output.ts
    DriftWindow,    \* DriftCorrector.windowSize
    DriftLimit,     \* DriftCorrector.resyncThresholdMs
    MaxDelay,       \* a chunk arrives at most this long after its capture
    MaxChunks,      \* bound on arrivals
    MaxSwitches,    \* bound on suspensions, resumptions and restarts
    MaxTime         \* bound on real time

VARIABLES
    clock,
    audio,         \* "none", "running" or "suspended": the AudioContext
    audioTime,     \* AudioOutput.masterTimeUs()
    switches,      \* history: suspensions, resumptions and restarts so far
    origin,        \* the origin of the current stream
    sentLast,      \* capture time of the last chunk that arrived
    arrivals,      \* number of chunks that arrived
    pumping,       \* the pump drives tick()
    jitter,        \* Scheduler.jitter
    overflowed,    \* history: chunks its overflow dropped
    base,          \* AvSyncClock: basePtsUs, baseTimeMs, baseSet; history: the
                   \* id of the chunk that set it
    clockReset,    \* Scheduler.clockReset
    decoding,      \* the decoder's queue
    decodedLast,   \* history: id of the last chunk handed to the decoder
    framesDecoded, framesDropped,
    drift,         \* DriftCorrector: the offsets in the ring, oldest first
    episodes, rebuffer, active, lastDataAt, lastTick, episodeStart,
    fatalReported, verdict  \* Scheduler.stallMonitor

monitorVars == <<episodes, rebuffer, active, lastDataAt, lastTick, episodeStart,
                 fatalReported, verdict>>
streamVars == <<origin, sentLast, arrivals>>
audioVars == <<audio, audioTime, switches>>
vars == <<clock, audioVars, streamVars, pumping, jitter, overflowed, base,
          clockReset, decoding, decodedLast, framesDecoded, framesDropped,
          drift, monitorVars>>

-----------------------------------------------------------------------------
(* Clocks.                                                                  *)

\* MasterClock.nowMs().
Now == IF audio = "running" THEN audioTime ELSE clock + WallOrigin

J == INSTANCE JitterBuffer
        WITH items <- jitter
M == INSTANCE StallMonitor
        WITH clock <- Now, stalledTime <- 0, evidence <- 0, fatals <- 0

\* Mutant of Lateness: the time elapsed is added.
LatenessAdds(ts) ==
    LET residue == (ts - base.pts) % Wrap
        ptsElapsed == IF 2 * residue > Wrap THEN residue - Wrap ELSE residue
    IN  IF base.set THEN ptsElapsed + (Now - base.time) ELSE 0

\* AvSyncClock.latenessMs(): negative for a late timestamp.
Lateness(ts) ==
    LET residue == (ts - base.pts) % Wrap
        ptsElapsed == IF 2 * residue > Wrap THEN residue - Wrap ELSE residue
    IN  IF base.set THEN ptsElapsed - (Now - base.time) ELSE 0

Late(chunk) == Lateness(chunk.ts) < -Budget

\* DriftCorrector.medianUs(), doubled to stay in the integers.
TwiceMedian(offsets) ==
    LET n == Len(offsets)
        sorted == SortSeq(offsets, <)
    IN  IF n = 0 THEN 0
        ELSE IF n % 2 = 1 THEN 2 * sorted[n \div 2 + 1]
        ELSE sorted[n \div 2] + sorted[n \div 2 + 1]

NeedsResync(offsets) ==
    LET twice == TwiceMedian(offsets)
    IN  twice > 2 * DriftLimit \/ -twice > 2 * DriftLimit

\* DriftCorrector.observe(): the ring keeps the last DriftWindow offsets.
Observe(offset) ==
    LET all == Append(drift, offset)
    IN  IF Len(all) > DriftWindow THEN Tail(all) ELSE all

-----------------------------------------------------------------------------
Init ==
    /\ clock = 0
    /\ audio = "none"
    /\ audioTime = 0
    /\ switches = 0
    /\ origin \in Origins
    /\ sentLast = 0
    /\ arrivals = 0
    /\ pumping = TRUE
    /\ jitter = <<>>
    /\ overflowed = {}
    /\ base = [pts |-> 0, time |-> 0, set |-> FALSE, id |-> 0]
    /\ clockReset = FALSE
    /\ decoding = <<>>
    /\ decodedLast = 0
    /\ framesDecoded = 0
    /\ framesDropped = 0
    /\ drift = <<>>
    /\ M!InitMonitor

Advance ==
    /\ clock < MaxTime
    /\ clock' = clock + 1
    /\ audioTime' = IF audio = "running" THEN audioTime + 1 ELSE audioTime
    /\ UNCHANGED <<audio, switches, streamVars, pumping, jitter, overflowed, base,
                   clockReset, decoding, decodedLast, framesDecoded,
                   framesDropped, drift, monitorVars>>

\* Mutant of Enqueue: the clock is re-based on the wall clock.
EnqueueWall(sent) ==
    LET ts == (sent + origin) % Wrap
    IN  /\ arrivals < MaxChunks
        /\ arrivals' = arrivals + 1
        /\ sentLast' = sent
        /\ base' = IF clockReset THEN base
                   ELSE [pts |-> ts, time |-> clock + WallOrigin, set |-> TRUE,
                         id |-> arrivals']
        /\ clockReset' = TRUE
        /\ J!Push([ts |-> ts, id |-> arrivals', sent |-> sent])
        /\ M!NoteData
        /\ UNCHANGED <<clock, audioVars, origin, pumping, decoding, decodedLast,
                       framesDecoded, framesDropped, drift>>

\* A chunk captured at `sent' arrives, after those captured before it.
Enqueue(sent) ==
    LET ts == (sent + origin) % Wrap
    IN  /\ arrivals < MaxChunks
        /\ arrivals' = arrivals + 1
        /\ sentLast' = sent
        /\ base' = IF clockReset THEN base
                   ELSE [pts |-> ts, time |-> Now, set |-> TRUE, id |-> arrivals']
        /\ clockReset' = TRUE
        /\ J!Push([ts |-> ts, id |-> arrivals', sent |-> sent])
        /\ M!NoteData
        /\ UNCHANGED <<clock, audioVars, origin, pumping, decoding, decodedLast,
                       framesDecoded, framesDropped, drift>>

Arrival ==
    \E sent \in sentLast..clock : clock - sent <= MaxDelay /\ Enqueue(sent)

\* tick()'s loop drops the chunks at the head up to the first that is in time.
LateRun ==
    CHOOSE n \in 0..Len(jitter) :
        /\ \A i \in 1..n : Late(jitter[i])
        /\ n < Len(jitter) => ~Late(jitter[n + 1])

\* Mutant of Counted: a tick counts one chunk.
CountedOnce(late) == framesDropped + (IF late > 0 THEN 1 ELSE 0)

\* Every chunk the loop drops is counted.
Counted(late) == framesDropped + late

Tick ==
    LET kept == SubSeq(jitter, LateRun + 1, Len(jitter))
        pull == kept # <<>> /\ Len(decoding) < HighWater
    IN  /\ pumping
        /\ framesDropped' = Counted(LateRun)
        /\ jitter' = IF pull THEN Tail(kept) ELSE kept
        /\ decoding' = IF pull THEN Append(decoding, Head(kept)) ELSE decoding
        /\ decodedLast' = IF pull THEN Head(kept).id ELSE decodedLast
        /\ M!OnTick(jitter' # <<>> \/ decoding' # <<>>)
        /\ UNCHANGED <<clock, audioVars, streamVars, pumping, overflowed, base,
                       clockReset, framesDecoded, drift>>

\* The drift of a frame against the audio, while that is the master clock.
ObserveDrift(ts) ==
    IF audio # "running"
    THEN UNCHANGED <<drift, clockReset>>
    ELSE LET offsets == Observe(ts - Now)
         IN  IF NeedsResync(offsets)
             THEN drift' = <<>> /\ clockReset' = FALSE
             ELSE drift' = offsets /\ UNCHANGED clockReset

\* handleOutput(): the decoder outputs a frame, the 'frame' listener of the
\* engine observes the drift, and the frame is drawn.
Output ==
    /\ decoding # <<>>
    /\ decoding' = Tail(decoding)
    /\ framesDecoded' = framesDecoded + 1
    /\ M!NoteData
    /\ ObserveDrift(Head(decoding).ts)
    /\ UNCHANGED <<clock, audioVars, streamVars, pumping, jitter, overflowed,
                   base, decodedLast, framesDropped>>

\* pause() and play(); the source keeps feeding the buffer in between.
PauseOrResume ==
    /\ pumping' = ~pumping
    /\ UNCHANGED <<clock, audioVars, streamVars, jitter, overflowed, base,
                   clockReset, decoding, decodedLast, framesDecoded,
                   framesDropped, drift, monitorVars>>

\* The session ended and play() starts another: the engine keeps its scheduler
\* as it is, and the new stream has timestamps of its own.
Restart(newOrigin) ==
    /\ "restart" \in Events
    /\ switches < MaxSwitches
    /\ switches' = switches + 1
    /\ origin' = newOrigin
    /\ sentLast' = clock
    /\ pumping' = TRUE
    /\ UNCHANGED <<clock, audio, audioTime, arrivals, jitter, overflowed, base,
                   clockReset, decoding, decodedLast, framesDecoded,
                   framesDropped, drift, monitorVars>>

-----------------------------------------------------------------------------
(* The audio, whose first frame makes it the master clock.                   *)

StreamUntouched ==
    UNCHANGED <<clock, streamVars, pumping, jitter, overflowed, base, decoding,
                decodedLast, framesDecoded, framesDropped, drift,
                monitorVars>>

\* onFirstAudio: attachAudio() and resync(); the autoplay policy may keep the
\* context suspended.
FirstAudio ==
    /\ "start" \in Events
    /\ audio = "none"
    /\ audio' \in {"running", "suspended"}
    /\ audioTime' = clock + origin - Ahead
    /\ clockReset' = FALSE
    /\ UNCHANGED switches
    /\ StreamUntouched

\* The browser suspends or interrupts the context, or closes it.
AudioSuspends ==
    /\ "suspend" \in Events
    /\ audio = "running"
    /\ audio' = "suspended"
    /\ switches < MaxSwitches
    /\ switches' = switches + 1
    /\ UNCHANGED <<audioTime, clockReset>>
    /\ StreamUntouched

AudioResumes ==
    /\ "resume" \in Events
    /\ audio = "suspended"
    /\ audio' = "running"
    /\ switches < MaxSwitches
    /\ switches' = switches + 1
    /\ UNCHANGED <<audioTime, clockReset>>
    /\ StreamUntouched

Next ==
    \/ Advance
    \/ Arrival
    \/ Tick
    \/ Output
    \/ PauseOrResume
    \/ \E newOrigin \in Origins : Restart(newOrigin)
    \/ FirstAudio
    \/ AudioSuspends
    \/ AudioResumes

Spec == Init /\ [][Next]_vars

-----------------------------------------------------------------------------
Chunk == [ts : 0..(Wrap - 1), id : 1..MaxChunks, sent : 0..MaxTime]

TypeOK ==
    /\ clock \in 0..MaxTime
    /\ audio \in {"none", "running", "suspended"}
    /\ audioTime \in Int
    /\ switches \in 0..MaxSwitches
    /\ origin \in Origins
    /\ sentLast \in 0..MaxTime
    /\ arrivals \in 0..MaxChunks
    /\ pumping \in BOOLEAN
    /\ jitter \in Seq(Chunk) /\ Len(jitter) <= Capacity
    /\ overflowed \subseteq Chunk
    /\ base \in [pts : 0..(Wrap - 1), time : Int, set : BOOLEAN, id : 0..MaxChunks]
    /\ clockReset \in BOOLEAN
    /\ decoding \in Seq(Chunk) /\ Len(decoding) <= HighWater
    /\ decodedLast \in 0..MaxChunks
    /\ framesDecoded \in 0..MaxChunks
    /\ framesDropped \in 0..MaxChunks
    /\ drift \in Seq(Int) /\ Len(drift) <= DriftWindow

\* "Chunks whose PTS is older than latencyBudgetMs [are] discarded", and no
\* other: a tick drops only chunks captured longer than the budget ago.
DropsOnlyLate ==
    [][framesDropped' > framesDropped =>
          \A c \in ToSet(jitter) \ ToSet(jitter' \o decoding') :
              clock - c.sent > Budget]_vars

\* While the audio only starts, and is neither suspended nor resumed, and no
\* session is restarted: once the first chunk after resync() re-based the clock,
\* that chunk and those behind it are judged on the new master clock alone.  None
\* is dropped early, however far the audio is from the wall clock, and resyncs by
\* drift included.
RebasedDropsOnlyLate ==
    [][framesDropped' > framesDropped /\ switches = 0 =>
          \A c \in ToSet(jitter) \ ToSet(jitter' \o decoding') :
              clockReset /\ c.id >= base.id => clock - c.sent > Budget]_vars

\* Without audio the viewer stays near live: whatever pauses and backpressure let
\* the buffer grow, what is handed to the decoder is at most the budget older
\* than the network's own delay.
StaysNearLive ==
    [][decodedLast' # decodedLast /\ audio = "none" /\ switches = 0 =>
          clock - Last(decoding').sent <= Budget + MaxDelay]_vars

\* The chunks of a session, which arrive in order, are decoded in order: the
\* buffer never hands out one that arrived before one it handed out earlier.
DecodesInOrder == [][switches = 0 => decodedLast' >= decodedLast]_vars

\* Every chunk that arrived is buffered, being decoded, counted in the stats, or
\* was dropped by the overflow of the buffer, which is counted nowhere.
FramesAccountedOrOverflowed ==
    arrivals = Len(jitter) + Len(decoding) + framesDecoded + framesDropped
               + Cardinality(overflowed)
=============================================================================
