------------------------------ MODULE PsDemuxer ------------------------------
(***************************************************************************)
(* PsDemuxer of packages/plugins/ps/src/ps-demuxer.ts: the packets of an     *)
(* MPEG program stream, cut anywhere into chunks.                            *)
(*                                                                           *)
(* A byte is known by its position in the stream, a packet by its number.    *)
(* Every packet begins with a start code of StartCode bytes, and a header of  *)
(* HeaderSize bytes tells its length.  The bytes between hold no start code,  *)
(* but for the payload of a media packet, which is full of them: whoever     *)
(* scans there may take any for a packet and skip what it seems to contain.  *)
(* A payload may also end like the beginning of a start code, which the next *)
(* byte completes.                                                           *)
(***************************************************************************)
EXTENDS Naturals, Sequences

CONSTANTS
    StartCode, HeaderSize,   \* sizes, the start code with the id behind it
    Kinds,                   \* kinds of packets, see KindSet
    Bodies,                  \* sizes of what follows the header
    MaxPackets               \* bound on the packets of a stream

\* A pack header; a system header, a map or a private stream, which is skipped;
\* a video packet with parameter sets that are good, or bad, or with a frame, or
\* with one that ends like a start code; one that contradicts itself.
KindSet == {"pack", "ignored", "params", "badParams", "frame", "decoy", "malformed"}

Sets == {"params", "badParams"}
VideoFrames == {"frame", "decoy"}

VARIABLES
    packets,       \* the stream: kind and body of each packet
    hevc,          \* its video is HEVC and not H.264
    received,      \* bytes of the stream handed to push()
    first,         \* the position of the first byte of PsDemuxer.buffer
    cursor,        \* the position PsDemuxer.cursor points to
    pending,       \* PsDemuxer.pendingStart is not null
    parsing,       \* parse() is running
    codec,         \* PsDemuxer.videoCodec, "none" while there is none
    stored,        \* VideoStreamState.vps, sps and pps: one of Sets or "none"
    seqEmitted,    \* VideoStreamState.seqEmitted
    \* history
    events,        \* what was emitted, and the packet it came from
    derailed,      \* a malformed packet was met, or a packet taken where none is
    flushed

vars == <<packets, hevc, received, first, cursor, pending, parsing, codec, stored,
          seqEmitted, events, derailed, flushed>>

\* The position of packet n; of the end of the stream for one more.
Start[n \in 1..(MaxPackets + 1)] ==
    IF n = 1 THEN 0 ELSE Start[n - 1] + (HeaderSize + packets[n - 1].body)

StreamEnd == Start[MaxPackets + 1]

Init ==
    /\ packets \in [1..MaxPackets -> [kind : Kinds, body : Bodies]]
    /\ hevc \in BOOLEAN
    /\ received = 0
    /\ first = 0
    /\ cursor = 0
    /\ pending = FALSE
    /\ parsing = FALSE
    /\ codec = "none" /\ stored = "none" /\ seqEmitted = FALSE
    /\ events = <<>>
    /\ derailed = FALSE
    /\ flushed = FALSE

-----------------------------------------------------------------------------
Push(length) ==
    /\ ~parsing /\ ~flushed
    /\ received + length <= StreamEnd
    /\ received' = received + length
    /\ first' = cursor
    /\ pending' = FALSE
    /\ parsing' = TRUE
    /\ UNCHANGED <<packets, hevc, cursor, codec, stored, seqEmitted, events, derailed, flushed>>

\* findNextStartCode(): the packets whose start code is in the buffer.
Ahead == {n \in 1..MaxPackets : Start[n] >= cursor /\ Start[n] + StartCode <= received}

\* What the end of a payload and the bytes behind it make up.
DecoyCode(n) == Start[n + 1] - (StartCode - 1)

Decoys == {n \in 1..MaxPackets : /\ packets[n].kind = "decoy" /\ DecoyCode(n) >= cursor
                                 /\ DecoyCode(n) + StartCode <= received}

Found(n) == n \in Ahead /\ \A m \in Ahead \cup Decoys : n <= m

FoundDecoy(n) == n \in Decoys \ Ahead /\ \A m \in Ahead \cup Decoys : n <= m

WholePacket(n) == Start[n + 1] <= received

\* Mutant of Tail3: what may be half a start code is dropped.
TailDropped == received

\* retainTail(3) keeps what may be the beginning of a start code, wherever the
\* cursor is: it may be the end of a packet that was taken.
Tail3 ==
    LET from == IF received > StartCode - 1 THEN received - (StartCode - 1) ELSE 0
    IN  IF from > first THEN from ELSE first

\* No start code any more: parse() returns.
NothingFound ==
    /\ parsing /\ Ahead = {} /\ Decoys = {}
    /\ first' = Tail3
    /\ cursor' = first'
    /\ pending' = FALSE
    /\ parsing' = FALSE
    /\ UNCHANGED <<packets, hevc, received, codec, stored, seqEmitted, events, derailed,
                   flushed>>

\* A pack or a media packet that is not whole is waited for: retainFrom().
Incomplete(n) ==
    /\ packets[n].kind # "ignored" /\ ~WholePacket(n)
    /\ first' = Start[n]
    /\ cursor' = first'
    /\ pending' = TRUE
    /\ parsing' = FALSE
    /\ UNCHANGED <<codec, stored, seqEmitted, events, derailed>>

\* An ignored packet that is not whole is not: resyncPast().
IncompleteIgnored(n) ==
    /\ packets[n].kind = "ignored" /\ ~WholePacket(n)
    /\ cursor' = Start[n] + 1
    /\ UNCHANGED <<first, pending, parsing, codec, stored, seqEmitted, events, derailed>>

Skip(n) ==
    /\ packets[n].kind \in {"pack", "ignored"} /\ WholePacket(n)
    /\ cursor' = Start[n + 1]
    /\ UNCHANGED <<first, pending, parsing, codec, stored, seqEmitted, events, derailed>>

\* detectVideoCodec(): HEVC that begins without parameter sets is taken for H.264,
\* for good.
Detected(n) == IF codec # "none" THEN codec
               ELSE IF hevc /\ packets[n].kind \in Sets THEN "hevc" ELSE "h264"

Understood(n) == hevc => Detected(n) = "hevc"

StoredWith(n) == IF packets[n].kind \in Sets /\ Understood(n) THEN packets[n].kind ELSE stored

\* processVideo() tries to make the sequence header.
HeaderDue(n) == ~seqEmitted /\ StoredWith(n) # "none"

\* parsePes() and processVideo(): parameter sets make the sequence header.  If they
\* are bad, the error counts as the header for H.264; for HEVC it is repeated with
\* each packet until they are replaced.
TakeVideo(n) ==
    /\ packets[n].kind \in Sets \cup VideoFrames /\ WholePacket(n)
    /\ codec' = Detected(n)
    /\ stored' = StoredWith(n)
    /\ seqEmitted' = (seqEmitted \/ (HeaderDue(n) /\ (hevc => stored' = "params")))
    /\ LET emits(kind) == events' = Append(events, [kind |-> kind, packet |-> n])
       IN  IF HeaderDue(n) THEN emits(IF stored' = "params" THEN "header" ELSE "error")
           ELSE IF seqEmitted /\ packets[n].kind \in VideoFrames THEN emits("frame")
           ELSE UNCHANGED events
    /\ cursor' = Start[n + 1]
    /\ UNCHANGED <<first, pending, parsing, derailed>>

\* The error of a packet that contradicts itself; the scan goes on inside it.
Malformed(n) ==
    /\ packets[n].kind = "malformed" /\ WholePacket(n)
    /\ cursor' \in (Start[n] + 1)..received
    /\ events' = Append(events, [kind |-> "error", packet |-> n])
    /\ derailed' = TRUE
    /\ UNCHANGED <<first, pending, parsing, codec, stored, seqEmitted>>

\* The start code of a packet that is none, with the beginning of the next packet
\* for its length: resyncPast() while it is short, then it is skipped, and the start
\* code of the next packet with it.
TakeDecoy(n) ==
    /\ IF Start[n + 1] + StartCode <= received
       THEN /\ cursor' \in (Start[n + 1] + StartCode)..received
            /\ derailed' = TRUE
       ELSE /\ cursor' = DecoyCode(n) + 1
            /\ UNCHANGED derailed
    /\ UNCHANGED <<first, pending, parsing, codec, stored, seqEmitted, events>>

ParsePacket ==
    /\ parsing
    /\ \E n \in 1..MaxPackets :
           \/ /\ Found(n)
              /\ \/ Incomplete(n) \/ IncompleteIgnored(n) \/ Skip(n)
                 \/ TakeVideo(n) \/ Malformed(n)
           \/ FoundDecoy(n) /\ TakeDecoy(n)
    /\ UNCHANGED <<packets, hevc, received, flushed>>

\* The end of the stream: what is still waited for is an error.  parse() ran
\* to its end after the last push().
Flush ==
    /\ ~parsing /\ ~flushed
    /\ flushed' = TRUE
    /\ events' = IF pending THEN Append(events, [kind |-> "error", packet |-> 0]) ELSE events
    /\ first' = received /\ cursor' = received
    /\ pending' = FALSE
    /\ UNCHANGED <<packets, hevc, received, parsing, codec, stored, seqEmitted, derailed>>

\* close() makes the demuxer ready for another stream, which push() puts at the
\* cursor.  (Called by a listener it comes inside parse(), whose assignment of the
\* cursor is then all that is left behind, and of no effect in an empty buffer.)
Close ==
    /\ received' = 0 /\ first' = 0 /\ cursor' = 0
    /\ pending' = FALSE /\ parsing' = FALSE
    /\ codec' = "none" /\ stored' = "none" /\ seqEmitted' = FALSE
    /\ events' = <<>>
    /\ derailed' = FALSE /\ flushed' = FALSE
    /\ UNCHANGED <<packets, hevc>>

Next ==
    \/ \E length \in 1..StreamEnd : Push(length)
    \/ NothingFound \/ ParsePacket
    \/ Flush \/ Close

Spec == Init /\ [][Next]_vars

-----------------------------------------------------------------------------
TypeOK ==
    /\ packets \in [1..MaxPackets -> [kind : Kinds, body : Bodies]]
    /\ {received, first, cursor} \subseteq 0..StreamEnd
    /\ {hevc, pending, parsing, seqEmitted, derailed, flushed} \subseteq BOOLEAN
    /\ codec \in {"none", "h264", "hevc"} /\ stored \in Sets \cup {"none"}
    /\ events \in Seq([kind : {"header", "error", "frame"}, packet : 0..MaxPackets])

\* The packets that make the sequence header: parameter sets, for HEVC good ones of a
\* stream that began with parameter sets.
MakesHeader(n) ==
    /\ packets[n].kind \in Sets
    /\ hevc => /\ packets[n].kind = "params"
               /\ \E m \in 1..n : /\ packets[m].kind \in Sets
                                  /\ \A k \in 1..(m - 1) : packets[k].kind \notin VideoFrames

\* The frames that a demuxer given the whole stream at once would emit.
Due(n) ==
    /\ packets[n].kind \in VideoFrames /\ WholePacket(n)
    /\ \E m \in 1..(n - 1) : MakesHeader(m)

\* Wherever the stream is cut, packets that are skipped included: every frame
\* is emitted once, in order, as soon as it is whole, behind one header or, in H.264,
\* the error that stands for it, before which there are errors at most, and of HEVC
\* only; and a flush reports a packet cut off, or nothing.
FramesOnce ==
    ~derailed /\ ~parsing =>
        LET frames == {i \in DOMAIN events : events[i].kind = "frame"}
            heads == {i \in DOMAIN events : events[i].kind # "frame" /\ events[i].packet # 0}
        IN  /\ {events[i].packet : i \in frames} = {n \in 1..MaxPackets : Due(n)}
            /\ \A i, j \in frames : i < j => events[i].packet < events[j].packet
            /\ \A j \in heads : \A i \in 1..(j - 1) : hevc /\ events[i].kind = "error"
            /\ \A j \in frames : \E i \in heads :
                   i < j /\ (hevc => events[i].kind = "header")
            /\ pending <=> \E n \in 1..MaxPackets :
                   /\ ~flushed /\ packets[n].kind # "ignored"
                   /\ Start[n] + StartCode <= received /\ ~WholePacket(n)

=============================================================================
