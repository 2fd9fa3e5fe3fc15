------------------------------ MODULE TsDemuxer ------------------------------
(***************************************************************************)
(* TsDemuxer of packages/plugins/hls/src/ts/ts-demuxer.ts over the           *)
(* TsPacketizer of packet.ts: the packets of the streams of a program, each   *)
(* numbered by its continuity counter, are put together to PES packets, one   *)
(* frame each.  Packets may be lost or repeated on their way.                *)
(*                                                                           *)
(* A packet is known by its place in its stream.  The bytes of a packet, the  *)
(* parameter sets (as in PsDemuxer) and the timestamps (Timestamps) are left   *)
(* out.  The tables are taken as one packet, and any of them repeats it.     *)
(* In which order flush() takes the streams is left out.                     *)
(***************************************************************************)
EXTENDS Naturals, Sequences

CONSTANTS
    Pids,          \* the elementary streams of the program
    FrameSize,     \* packets of a frame
    Modulus,       \* of the continuity counter, 16
    MaxPackets     \* bound on the packets of a stream, repeated ones included

VARIABLES
    sent,          \* packets each muxer has sent
    known,         \* TsDemuxer.streamTypeByPid is filled in
    pesBuffers,    \* TsDemuxer.pesBuffers: the packets in them
    continuity,    \* TsPacketizer.continuityByPid; Modulus before the first
    failed,        \* TsDemuxer.failed
    \* history
    frames,        \* each frame emitted of each stream: its packets, whether by flush()
    repeated,      \* a packet arrived twice
    masked         \* packets were lost and the counter did not show it

vars == <<sent, known, pesBuffers, continuity, failed, frames, repeated, masked>>

\* The payload_unit_start_indicator of packet n, the first of a frame.
UnitStart(n) == n % FrameSize = 0

Init ==
    /\ sent = [p \in Pids |-> 0]
    /\ known = FALSE
    /\ pesBuffers = [p \in Pids |-> <<>>]
    /\ continuity = [p \in Pids |-> Modulus]
    /\ failed = FALSE
    /\ frames = [p \in Pids |-> <<>>]
    /\ repeated = FALSE
    /\ masked = FALSE

-----------------------------------------------------------------------------
\* finalizePes(): what does not begin with a PES header is dropped.
Finalized(p, flushed) ==
    LET packets == pesBuffers[p]
    IN  IF packets # <<>> /\ UnitStart(packets[1])
        THEN <<[packets |-> packets, flushed |-> flushed]>>
        ELSE <<>>

\* feedPes(), for the streams of the PMT.
FeedPes(p, n) ==
    IF failed \/ ~known
    THEN UNCHANGED <<pesBuffers, frames>>
    ELSE IF UnitStart(n)
    THEN /\ frames' = [frames EXCEPT ![p] = @ \o Finalized(p, FALSE)]
         /\ pesBuffers' = [pesBuffers EXCEPT ![p] = <<n>>]
    ELSE /\ pesBuffers' = [pesBuffers EXCEPT ![p] = Append(@, n)]
         /\ UNCHANGED frames

\* Mutant of TrackContinuity: a gap is not noticed.
TrackNothing(p, n) ==
    /\ continuity' = [continuity EXCEPT ![p] = n % Modulus]
    /\ UNCHANGED failed

\* trackContinuity(), once the payload is processed: a jump fails the demuxer.
TrackContinuity(p, n) ==
    LET last == continuity[p]
        delta == (n + Modulus - last) % Modulus
    IN  /\ continuity' = [continuity EXCEPT ![p] = n % Modulus]
        /\ failed' = (failed \/ (last # Modulus /\ delta \notin {0, 1}))

Packet(p, n) ==
    /\ FeedPes(p, n)
    /\ TrackContinuity(p, n)
    /\ UNCHANGED known

\* A loss that leaves the counter where it was, taken for a repetition, or one on.
Masks(p, lost) == continuity[p] # Modulus /\ lost > 0 /\ (lost + 1) % Modulus \in {0, 1}

\* The next packet of a stream arrives, `lost' packets after the last one.
Receive(p, lost) ==
    /\ sent[p] + lost < MaxPackets
    /\ sent' = [sent EXCEPT ![p] = @ + lost + 1]
    /\ Packet(p, sent[p] + lost)
    /\ masked' = (masked \/ Masks(p, lost))
    /\ UNCHANGED repeated

\* A packet arrives a second time, which the standard allows.
Repeat(p) ==
    /\ sent[p] > 0 /\ continuity[p] = (sent[p] - 1) % Modulus
    /\ ~repeated
    /\ repeated' = TRUE
    /\ Packet(p, sent[p] - 1)
    /\ UNCHANGED <<sent, masked>>

\* The tables: handlePmt() learns the streams, or fails if it knows none.
Tables ==
    /\ \/ known' = TRUE /\ UNCHANGED failed
       \/ ~known /\ UNCHANGED known /\ failed' = TRUE
    /\ UNCHANGED <<sent, pesBuffers, continuity, frames, repeated, masked>>

\* flush(), after each batch of segments: what is in the buffers is emitted.
Flush ==
    /\ continuity' = [p \in Pids |-> Modulus]
    /\ IF failed
       THEN UNCHANGED <<pesBuffers, frames>>
       ELSE /\ frames' = [p \in Pids |-> frames[p] \o Finalized(p, TRUE)]
            /\ pesBuffers' = [p \in Pids |-> <<>>]
    /\ UNCHANGED <<sent, known, failed, repeated, masked>>

Next ==
    \/ \E p \in Pids, lost \in 0..(MaxPackets - 1) : Receive(p, lost)
    \/ \E p \in Pids : Repeat(p)
    \/ Tables
    \/ Flush

Spec == Init /\ [][Next]_vars

-----------------------------------------------------------------------------
TypeOK ==
    /\ sent \in [Pids -> 0..MaxPackets]
    /\ pesBuffers \in [Pids -> Seq(0..MaxPackets)]
    /\ continuity \in [Pids -> 0..Modulus]
    /\ {known, failed, repeated, masked} \subseteq BOOLEAN
    /\ frames \in [Pids -> Seq([packets : Seq(0..MaxPackets), flushed : BOOLEAN])]

\* However packets are lost, streams interleaved and flushed, no frame is
\* emitted that has a hole or a piece of another one, and none twice or out of
\* order.  It is whole, unless flush() came in the middle of it; or a loss did,
\* then it is the last of its stream and the demuxer failed.  There are two
\* exceptions.  A packet that comes twice is in its frame twice, or cuts it.  And a
\* loss of a multiple of Modulus, or of one less, goes unnoticed.
FramesHaveNoHoles ==
    ~masked => \A p \in Pids : \A i \in DOMAIN frames[p] :
        LET packets == frames[p][i].packets
        IN  /\ UnitStart(packets[1])
            /\ \A k \in 2..Len(packets) :
                   \/ packets[k] = packets[k - 1] + 1 /\ ~UnitStart(packets[k])
                   \/ packets[k] = packets[k - 1] /\ repeated
            /\ \A j \in DOMAIN frames[p] :
                   i < j => packets[1] < frames[p][j].packets[1] \/ repeated
            /\ \/ Len(packets) = FrameSize
               \/ frames[p][i].flushed \/ repeated
               \/ failed /\ i = Len(frames[p])
=============================================================================
