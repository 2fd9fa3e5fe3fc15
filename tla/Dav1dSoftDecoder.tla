-------------------------- MODULE Dav1dSoftDecoder --------------------------
(***************************************************************************)
(* Dav1dSoftDecoder of packages/plugins/dav1d-wasm/src/dav1d-soft-decoder.ts *)
(* over dav1d contexts that module.create() builds asynchronously.  Chunks   *)
(* are held until the first context is there; reset() forgets the context,    *)
(* or the creation in flight, and begins another.                            *)
(*                                                                           *)
(* decode() is synchronous: the frame reaches the engine inside it, and a     *)
(* listener of the player's 'frame' event may close the decoder there.       *)
(***************************************************************************)
EXTENDS Naturals, Sequences, FiniteSets

CONSTANTS
    MaxChunks,     \* bound on decode() calls
    MaxCreates     \* bound on contexts, one more than the reset() calls

VARIABLES
    instance,      \* Dav1dSoftDecoder.instance, a context; 0 for null
    creates,       \* create() calls so far: the contexts are numbered by them
    creating,      \* the contexts whose create() is not settled
    freed,         \* the contexts given to unsafeCleanup()
    buffered,      \* Dav1dSoftDecoder.buffered
    draining,      \* where drain() stands in buffered; 0 when it does not run
    pending,       \* Dav1dSoftDecoder.pending
    closed,        \* Dav1dSoftDecoder.closed
    \* history
    chunks,        \* decode() calls so far
    decodes        \* the chunk and the context of every frame decoded

contextVars == <<creates, creating, freed>>
vars == <<instance, contextVars, buffered, draining, pending, closed, chunks, decodes>>

AtRest == draining = 0

Init ==
    /\ instance = 0
    /\ creates = 1
    /\ creating = {1}
    /\ freed = {}
    /\ buffered = <<>>
    /\ draining = 0
    /\ pending = 0
    /\ closed = FALSE
    /\ chunks = 0
    /\ decodes = <<>>

-----------------------------------------------------------------------------
\* fail(): the context stays as it is, and close() will return early.
Fail ==
    /\ closed' = TRUE
    /\ pending' = 0
    /\ UNCHANGED <<instance, freed, buffered>>

\* close() inside or outside a decode.
Closing ==
    /\ closed' = TRUE
    /\ freed' = IF instance = 0 THEN freed ELSE freed \cup {instance}
    /\ instance' = 0
    /\ buffered' = <<>>
    /\ pending' = 0

\* decodeNow(): the context throws, or the picture is made a frame and reaches
\* the listeners, which may close the decoder.  A picture no frame can be made
\* of fails the decoder, and a null is delivered in place of the frame.
DecodeNow(chunk, queued) ==
    \/ /\ Fail
       /\ UNCHANGED decodes
    \/ /\ decodes' = Append(decodes, [chunk |-> chunk, context |-> instance])
       /\ \/ Fail
          \/ Closing
          \/ /\ pending' = IF queued > 0 THEN queued - 1 ELSE 0
             /\ UNCHANGED <<instance, freed, buffered, closed>>

\* configure() of a codec that is not AV1; any other changes nothing.
ConfigureUnsupported ==
    /\ AtRest /\ ~closed
    /\ Fail
    /\ UNCHANGED <<creates, creating, draining, chunks, decodes>>

Decode ==
    /\ AtRest /\ ~closed
    /\ chunks < MaxChunks
    /\ chunks' = chunks + 1
    /\ IF instance # 0
       THEN DecodeNow(chunks', pending + 1)
       ELSE /\ buffered' = Append(buffered, chunks')
            /\ pending' = pending + 1
            /\ UNCHANGED <<instance, freed, closed, decodes>>
    /\ UNCHANGED <<creates, creating, draining>>

\* create() is answered: the context is wanted, or the decoder was closed.
Created ==
    /\ AtRest
    /\ \E c \in creating :
           /\ creating' = creating \ {c}
           /\ IF closed
              THEN freed' = freed \cup {c} /\ UNCHANGED <<instance, draining>>
              ELSE instance' = c /\ draining' = 1 /\ UNCHANGED freed
    /\ UNCHANGED <<creates, buffered, pending, closed, chunks, decodes>>

CreateFails ==
    /\ AtRest
    /\ \E c \in creating : creating' = creating \ {c}
    /\ IF closed THEN UNCHANGED <<instance, freed, buffered, pending, closed>> ELSE Fail
    /\ UNCHANGED <<creates, draining, chunks, decodes>>

\* Mutant of DrainNext: a decoder closed under the loop is not noticed.
DrainNextClosed ==
    /\ ~AtRest
    /\ draining <= Len(buffered)
    /\ DecodeNow(buffered[draining], pending)
    /\ draining' = draining + 1
    /\ UNCHANGED <<creates, creating, chunks>>

\* An iteration of the loop of drain().
DrainNext ==
    /\ ~AtRest /\ ~closed
    /\ draining <= Len(buffered)
    /\ DecodeNow(buffered[draining], pending)
    /\ draining' = draining + 1
    /\ UNCHANGED <<creates, creating, chunks>>

DrainEnds ==
    /\ ~AtRest
    /\ closed \/ draining > Len(buffered)
    /\ draining' = 0
    /\ buffered' = IF closed THEN buffered ELSE <<>>
    /\ UNCHANGED <<instance, contextVars, pending, closed, chunks, decodes>>

\* flush() with a context drains what is held, without one it does once the
\* creation in flight is settled: Created has drained it by then.
Flush ==
    /\ AtRest /\ ~closed
    /\ instance # 0
    /\ draining' = 1
    /\ UNCHANGED <<instance, contextVars, buffered, pending, closed, chunks, decodes>>

Reset ==
    /\ AtRest /\ ~closed
    /\ creates < MaxCreates
    /\ creates' = creates + 1
    /\ creating' = creating \cup {creates'}
    /\ instance' = 0
    /\ buffered' = <<>>
    /\ pending' = 0
    /\ UNCHANGED <<freed, draining, closed, chunks, decodes>>

Close ==
    /\ AtRest /\ ~closed
    /\ Closing
    /\ UNCHANGED <<creates, creating, draining, chunks, decodes>>

Settle == Created \/ CreateFails
Drain == DrainNext \/ DrainEnds

Next ==
    \/ ConfigureUnsupported \/ Decode \/ Flush \/ Reset \/ Close
    \/ Settle
    \/ Drain

Spec == Init /\ [][Next]_vars

\* The module answers every create(), and a call returns.
FairSpec == Spec /\ WF_vars(Settle) /\ WF_vars(Drain)

-----------------------------------------------------------------------------
TypeOK ==
    /\ {instance, creates} \subseteq 0..MaxCreates
    /\ {creating, freed} \subseteq SUBSET (1..MaxCreates)
    /\ buffered \in Seq(1..MaxChunks)
    /\ {pending, chunks} \subseteq 0..MaxChunks
    /\ draining \in 0..(MaxChunks + 1)
    /\ closed \in BOOLEAN
    /\ decodes \in Seq([chunk : 1..MaxChunks, context : 1..MaxCreates])

\* Whatever creations are in flight, and wherever close() comes, each chunk is
\* decoded at most once, in order, by a decoder that did not fail and was not
\* closed meanwhile, in a context that was not freed; and
\* queueSize, from which the scheduler judges the backpressure, counts exactly
\* the chunks that wait.
DecodesSafely ==
    [][ /\ Len(decodes') > Len(decodes) =>
               LET new == decodes'[Len(decodes')]
               IN  /\ ~closed /\ new.context \notin freed
                   /\ \A i \in DOMAIN decodes : decodes[i].chunk < new.chunk
        /\ AtRest' /\ ~closed' => pending' = Len(buffered') ]_vars

\* Chunks held for a context are decoded or forgotten, whatever becomes of the
\* creation they waited for.
HeldIsReleased == buffered # <<>> ~> buffered = <<>> \/ closed
=============================================================================
