----------------------------- MODULE FlvDemuxer ------------------------------
(***************************************************************************)
(* FlvDemuxer of packages/plugins/flv/src/flv-demuxer.ts: the tags of an FLV *)
(* stream, cut anywhere into chunks, are taken as soon as they are whole.  *)
(*                                                                           *)
(* A byte is known by its position in the stream.  The stream is its header, *)
(* the field PreviousTagSize0, and tags: a tag header, `sizes[n]' bytes of    *)
(* payload and the field PreviousTagSize.  What a tag holds is chosen when    *)
(* the demuxer looks at it.  Read at any other position the bytes mean        *)
(* nothing: they make up a tag of any size and kind.                          *)
(***************************************************************************)
EXTENDS Naturals, Sequences, FiniteSets

CONSTANTS
    HeaderSize, TagHeaderSize, PrevTagSize,   \* as in flv-types.ts
    Sizes,     \* sizes of payloads
    MaxTags    \* bound on the tags of a stream

VARIABLES
    sizes,         \* of the payloads of the stream
    received,      \* bytes of the stream handed to push()
    first,         \* the position of the first byte of FlvDemuxer.queue
    cursor,        \* the position FlvDemuxer.cursor points to
    parsing,       \* parse() is running
    headerParsed, hasSeqHeader, failed,  \* fields of FlvDemuxer
    \* history
    taken,         \* what was parsed: the tag, 0 for garbage, and what it gave
    cutShort,      \* a chunk ended inside PreviousTagSize0 once the header was whole
    flushed        \* the stream ended with flush()

vars == <<sizes, received, first, cursor, parsing, headerParsed, hasSeqHeader, failed,
          taken, cutShort, flushed>>

\* Script data; sequence headers; AVC or HEVC frames, AAC configurations and
\* frames; sequence headers that cannot be read, and other tags that cannot; what
\* is ignored, with or without an error event.
Kinds == {"script", "header", "frame", "audio", "badHeader", "unreadable", "ignored"}

Body(n) == TagHeaderSize + sizes[n] + PrevTagSize

\* The position of tag n; of the end of the stream for one more.
TagStart[n \in 1..(MaxTags + 1)] ==
    IF n = 1 THEN HeaderSize + PrevTagSize ELSE TagStart[n - 1] + Body(n - 1)

StreamEnd == TagStart[MaxTags + 1]

\* The tag at a position; 0 if none starts there.
TagAt(p) == IF \E n \in 1..MaxTags : TagStart[n] = p
            THEN CHOOSE n \in 1..MaxTags : TagStart[n] = p
            ELSE 0

Init ==
    /\ sizes \in [1..MaxTags -> Sizes]
    /\ received = 0
    /\ first = 0
    /\ cursor = 0
    /\ parsing = FALSE
    /\ headerParsed = FALSE
    /\ hasSeqHeader = FALSE
    /\ failed = FALSE
    /\ taken = <<>>
    /\ cutShort = FALSE
    /\ flushed = FALSE

\* Mutant of Kept: the bytes already parsed are kept.
KeptAll == first

\* The queue keeps what is behind the cursor.  A cursor past its end is set to
\* the end: what it was to skip is not skipped.
Kept == IF cursor < received THEN cursor ELSE received

\* push() a chunk of the stream, while no parse() runs.
Push(length) ==
    /\ ~parsing /\ ~failed /\ ~flushed
    /\ received + length <= StreamEnd
    /\ received' = received + length
    /\ first' = Kept
    /\ cursor' = Kept
    /\ parsing' = TRUE
    /\ UNCHANGED <<sizes, headerParsed, hasSeqHeader, failed, taken, cutShort, flushed>>

\* The header is whole; a bad signature fails the demuxer.
ParseHeader ==
    /\ parsing /\ ~headerParsed
    /\ received - first >= HeaderSize
    /\ \/ /\ headerParsed' = TRUE
          /\ cursor' = cursor + HeaderSize + PrevTagSize
          /\ cutShort' = (cursor' > received)
          /\ parsing' = (cursor' <= received)
          /\ UNCHANGED failed
       \/ /\ failed' = TRUE
          /\ parsing' = FALSE
          /\ UNCHANGED <<headerParsed, cursor, cutShort>>
    /\ UNCHANGED <<sizes, received, first, hasSeqHeader, taken, flushed>>

HasTagHeader == headerParsed /\ received >= cursor + TagHeaderSize

\* The sizes that may be read in the tag header at the cursor.
SizesAtCursor == IF TagAt(cursor) > 0 THEN {sizes[TagAt(cursor)]} ELSE Sizes

Whole(size) == HasTagHeader /\ received >= cursor + TagHeaderSize + size + PrevTagSize

NextCursor(size) == cursor + TagHeaderSize + size + PrevTagSize

\* processTag(): what the tag gives.  A frame before the sequence header gives
\* an error that the stream survives.
ProcessTag(kind) ==
    LET gives == IF kind = "frame" /\ ~hasSeqHeader THEN "missing" ELSE kind
    IN  /\ taken' = Append(taken, [tag |-> TagAt(cursor), kind |-> gives])
        /\ hasSeqHeader' = (hasSeqHeader \/ kind \in {"header", "badHeader"})
        /\ failed' = (failed \/ kind \in {"badHeader", "unreadable"})

\* parseNextTag(): true after a tag that failed the demuxer as well, so that the
\* loop goes on with the rest of the chunk.
ParseTag ==
    /\ parsing /\ headerParsed
    /\ \E size \in SizesAtCursor, kind \in Kinds :
           /\ Whole(size)
           /\ cursor' = NextCursor(size)
           /\ ProcessTag(kind)
    /\ UNCHANGED <<sizes, received, first, parsing, headerParsed, cutShort, flushed>>

\* The tag header claims more than the largest tag: never of a tag of the stream.
Oversized ==
    /\ parsing /\ HasTagHeader
    /\ TagAt(cursor) = 0
    /\ failed' = TRUE
    /\ parsing' = FALSE
    /\ UNCHANGED <<sizes, received, first, cursor, headerParsed, hasSeqHeader, taken, cutShort,
                   flushed>>

\* parse() returns for want of bytes.
NeedsMore ==
    /\ parsing
    /\ IF headerParsed THEN \E size \in SizesAtCursor : ~Whole(size)
                       ELSE received - first < HeaderSize
    /\ parsing' = FALSE
    /\ UNCHANGED <<sizes, received, first, cursor, headerParsed, hasSeqHeader, failed,
                   taken, cutShort, flushed>>

\* flush(): parse() finds no more than it did after the last push(), and what
\* is left of a tag is dropped.
Flush ==
    /\ ~parsing /\ ~failed /\ ~flushed
    /\ flushed' = TRUE
    /\ first' = received /\ cursor' = received
    /\ UNCHANGED <<sizes, received, parsing, headerParsed, hasSeqHeader, failed, taken,
                   cutShort>>

\* close(), from a listener perhaps: ready for another stream from its start.
\* Inside the event of a failure it comes too soon: `failed' is set after it.
Close ==
    /\ received' = 0 /\ first' = 0 /\ cursor' = 0
    /\ parsing' = FALSE
    /\ headerParsed' = FALSE /\ hasSeqHeader' = FALSE
    /\ failed' \in {FALSE, parsing}
    /\ taken' = <<>>
    /\ cutShort' = FALSE
    /\ flushed' = FALSE
    /\ UNCHANGED sizes

Next ==
    \/ \E length \in 1..StreamEnd : Push(length)
    \/ ParseHeader \/ ParseTag \/ Oversized \/ NeedsMore
    \/ Flush \/ Close

Spec == Init /\ [][Next]_vars

-----------------------------------------------------------------------------
TypeOK ==
    /\ sizes \in [1..MaxTags -> Sizes]
    /\ received \in 0..StreamEnd
    /\ {first, cursor} \subseteq Nat
    /\ {parsing, headerParsed, hasSeqHeader, failed, cutShort, flushed} \subseteq BOOLEAN
    /\ taken \in Seq([tag : 0..MaxTags, kind : Kinds \cup {"missing"}])

\* The tags received are the tags parsed, each once and in order.
EachTagOnce ==
    ~parsing => [i \in DOMAIN taken |-> taken[i].tag]
                    = [n \in 1..Cardinality({n \in 1..MaxTags : TagStart[n + 1] <= received}) |-> n]

\* Wherever the stream is cut, but inside PreviousTagSize0, each tag is parsed
\* once, those behind a tag that failed the demuxer included, up to the end of the
\* chunk; and no frame comes before a sequence header, which could be read unless
\* the demuxer failed.
TagsParsedOnce ==
    (headerParsed \/ ~failed) /\ ~cutShort =>
        /\ EachTagOnce
        /\ \A j \in DOMAIN taken : taken[j].kind = "frame" =>
               \E i \in 1..(j - 1) : \/ taken[i].kind = "header"
                                     \/ failed /\ taken[i].kind = "badHeader"

\* flv-demuxer.ts:34: "Bytes are buffered internally so a tag split across any
\* number of `push()` calls is emitted exactly once."
TagEmittedOnce == ~failed => EachTagOnce

=============================================================================
