----------------------------- MODULE Timestamps ------------------------------
(***************************************************************************)
(* The timestamps of the media that the MPEG demuxers emit:                  *)
(* TsDemuxer.adjustedPts() of packages/plugins/hls/src/ts/ts-demuxer.ts and   *)
(* PsDemuxer.resolveWrapTicks() and adjustedPtsUs() of                       *)
(* packages/plugins/ps/src/ps-demuxer.ts.                                    *)
(*                                                                           *)
(* A stream has a clock of its own, and stamps its packets with the clock     *)
(* modulo Modulus, or with nothing.  Ticks and microseconds are not told      *)
(* apart.                                                                    *)
(***************************************************************************)
EXTENDS Integers

CONSTANTS
    Modulus,       \* PTS_MOD, 2^33; a positive number
    Frame,         \* SYNTHETIC_FRAME_US
    Jumps,         \* how far the clock of the stream goes from packet to packet
    MaxPackets     \* bound on the packets

VARIABLES
    unwraps,       \* the demuxer is a PsDemuxer, not a TsDemuxer
    clock,         \* the clock of the stream
    stamp,         \* its last stamp; -1 before the first
    wrapOffset,    \* PsDemuxer.wrapOffsetTicks; lastRawTicks is stamp
    resolved,      \* the last stamp unwrapped
    emitted,       \* lastEmittedPtsUs is not null
    last,          \* its value
    offset,        \* ptsOffsetUs
    packets,       \* number of packets
    \* history
    origin,        \* the clock less what it was first resolved to
    steady         \* the clock never stood back, and every packet had a stamp

vars == <<unwraps, clock, stamp, wrapOffset, resolved, emitted, last, offset, packets,
          origin, steady>>

None == -1

Init ==
    /\ unwraps \in BOOLEAN
    /\ clock \in 0..(Modulus - 1)
    /\ stamp = None
    /\ wrapOffset = 0
    /\ resolved = 0
    /\ emitted = FALSE
    /\ last = 0
    /\ offset = 0
    /\ packets = 0
    /\ origin = 0
    /\ steady = TRUE

-----------------------------------------------------------------------------
\* Mutant of Unwrap: only a counter that starts again is noticed.
UnwrapForward(raw) ==
    IF stamp # None /\ 2 * (raw - stamp) < -Modulus
    THEN wrapOffset + Modulus
    ELSE wrapOffset

\* resolveWrapTicks(): a step of more than half the range is a wrap.
Unwrap(raw) ==
    IF stamp = None THEN wrapOffset
    ELSE IF 2 * (raw - stamp) < -Modulus THEN wrapOffset + Modulus
    ELSE IF 2 * (raw - stamp) > Modulus THEN wrapOffset - Modulus
    ELSE wrapOffset

\* Mutant of Shift: a stamp before the last one is let through.
NoShift(pts) == offset

\* adjustedPts(): a stamp that lies before the last one emitted moves the
\* offset, by so much that it comes a frame behind it.
Shift(pts) == IF emitted /\ pts < last THEN offset + last - pts + Frame ELSE offset

\* The stamp of a packet without one: a frame after the last one emitted.
Synthetic == (IF emitted THEN last ELSE -Frame) + Frame

\* The PsDemuxer adjusts the stamp of a packet that has one when it parses the
\* packet, and what comes out of it again if there is a frame to be emitted.
Emit(pts, twice) ==
    /\ offset' = Shift(pts)
    /\ last' = pts + offset' + (IF twice THEN offset' ELSE 0)
    /\ emitted' = TRUE

\* The media of a packet stamped with the clock of the stream, which moved.
Stamped ==
    /\ packets < MaxPackets
    /\ packets' = packets + 1
    /\ \E jump \in Jumps :
           /\ clock' = clock + jump
           /\ steady' = (steady /\ (jump >= 0 \/ ~emitted))
    /\ stamp' = clock' % Modulus
    /\ wrapOffset' = IF unwraps THEN Unwrap(stamp') ELSE 0
    /\ resolved' = stamp' + wrapOffset'
    /\ origin' = IF stamp = None THEN clock' - resolved' ELSE origin
    /\ \E twice \in {FALSE, unwraps} : Emit(resolved', twice)
    /\ UNCHANGED unwraps

\* The media of a packet without a stamp.
Unstamped ==
    /\ packets < MaxPackets
    /\ packets' = packets + 1
    /\ Emit(Synthetic, FALSE)
    /\ steady' = FALSE
    /\ UNCHANGED <<unwraps, clock, stamp, wrapOffset, resolved, origin>>

Next == Stamped \/ Unstamped

Spec == Init /\ [][Next]_vars

-----------------------------------------------------------------------------
TypeOK ==
    /\ {clock, wrapOffset, resolved, last, origin} \subseteq Int
    /\ offset \in Nat
    /\ stamp \in -1..(Modulus - 1)
    /\ {unwraps, emitted, steady} \subseteq BOOLEAN
    /\ packets \in 0..MaxPackets

\* ts-demuxer.ts:286: "so output timestamps stay monotonic".  Whatever the
\* stream does, no timestamp lies before the one emitted ahead of it.
NeverBack == [][emitted => last' >= last]_vars

\* ps-demuxer.ts:693: "unwrapped so output timestamps stay monotonic".  While
\* the clock moves less than half the range at a time, backwards too, and
\* however often it wraps, the unwrapped stamps keep its pace; and a stream
\* that never went back gets these very timestamps.
UnwrapsExactly ==
    /\ unwraps /\ stamp # None => resolved = clock - origin
    /\ unwraps /\ steady /\ emitted => last = resolved
=============================================================================
