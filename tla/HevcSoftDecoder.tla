--------------------------- MODULE HevcSoftDecoder ---------------------------
(***************************************************************************)
(* HevcSoftDecoder of packages/plugins/hevc-wasm/src/hevc-soft-decoder.ts    *)
(* over a libde265 decoder, which keeps pictures until it is flushed, loses   *)
(* its parameter sets when it is reset, and gives no picture for some access  *)
(* units (the leading pictures after a random access point are skipped).     *)
(*                                                                           *)
(* The calls are synchronous; the frames reach the engine inside them, and a  *)
(* listener of the player's 'frame' event may close the decoder there.  The   *)
(* next use of the native object then throws out of the call.                *)
(***************************************************************************)
EXTENDS Naturals

CONSTANTS
    MaxChunks,     \* bound on decode() calls
    MaxConfigs     \* bound on configure() calls

VARIABLES
    parameterSets, \* HevcSoftDecoder.parameterSets is not null
    paramsPushed,  \* HevcSoftDecoder.paramsPushed
    hasPushed,     \* HevcSoftDecoder.hasPushed
    pending,       \* HevcSoftDecoder.pending
    closed,        \* HevcSoftDecoder.closed
    deleted,       \* the native decoder was deleted
    call,          \* the drain() that runs, see CallSet
    leading,       \* the chunk of decode() carries the parameter sets
    \* libde265
    native,        \* access units pushed whose picture is not out
    nativeParams,  \* it has the parameter sets of the configuration
    \* history
    chunks, configs,
    lost           \* access units that gave no picture, since the last reset

vars == <<parameterSets, paramsPushed, hasPushed, pending, closed, deleted, call,
          leading, native, nativeParams, chunks, configs, lost>>
bounds == <<chunks, configs>>

\* Where a decode() stands: in drain(), at pushData(), in drain(); or a flush().
CallSet == {"none", "beforePush", "push", "afterPush", "flush"}

AtRest == call = "none"

Init ==
    /\ parameterSets = FALSE
    /\ paramsPushed = FALSE
    /\ hasPushed = FALSE
    /\ pending = 0
    /\ closed = FALSE
    /\ deleted = FALSE
    /\ call = "none"
    /\ leading = FALSE
    /\ native = 0
    /\ nativeParams = FALSE
    /\ chunks = 0
    /\ configs = 0
    /\ lost = 0

-----------------------------------------------------------------------------
\* fail(), which leaves the native decoder where it is.
Fail ==
    /\ closed' = TRUE
    /\ pending' = IF closed THEN pending ELSE 0

NoFailure == UNCHANGED <<closed, pending>>

Decremented == IF pending > 0 THEN pending - 1 ELSE 0

\* configure(): another codec, or an hvcC that cannot be parsed, fails.
Configure ==
    /\ AtRest
    /\ configs < MaxConfigs
    /\ configs' = configs + 1
    /\ \/ /\ Fail
          /\ UNCHANGED <<parameterSets, paramsPushed, hasPushed, nativeParams>>
       \/ /\ paramsPushed' = FALSE
          /\ hasPushed' = FALSE
          /\ nativeParams' = FALSE
          /\ \/ parameterSets' \in BOOLEAN /\ NoFailure
             \/ parameterSets' = FALSE /\ Fail
    /\ UNCHANGED <<deleted, call, leading, native, chunks, lost>>

\* decode(): what was pushed before is flushed out first.
Decode ==
    /\ AtRest /\ ~closed
    /\ chunks < MaxChunks
    /\ chunks' = chunks + 1
    /\ leading' = (parameterSets /\ ~paramsPushed)
    /\ paramsPushed' = (paramsPushed \/ parameterSets)
    /\ \/ call' = (IF hasPushed THEN "beforePush" ELSE "push")
          /\ pending' = pending + 1
          /\ UNCHANGED closed
       \/ hasPushed /\ call' = "none" /\ Fail
    /\ UNCHANGED <<parameterSets, hasPushed, deleted, native, nativeParams, configs, lost>>

\* pushData(), taken or refused; even after a failure of the drain() before it.
Push ==
    /\ call = "push"
    /\ hasPushed' = TRUE
    /\ \/ /\ native' = native + 1
          /\ nativeParams' = (nativeParams \/ leading)
          /\ call' = "afterPush"
          /\ NoFailure
       \/ /\ Fail
          /\ call' = "none"
          /\ UNCHANGED <<native, nativeParams>>
    /\ UNCHANGED <<parameterSets, paramsPushed, deleted, leading, bounds, lost>>

Flush ==
    /\ AtRest /\ ~closed
    /\ \/ call' = "flush" /\ NoFailure
       \/ call' = "none" /\ Fail
    /\ UNCHANGED <<parameterSets, paramsPushed, hasPushed, deleted, leading, native,
                   nativeParams, bounds, lost>>

Draining == call \in {"beforePush", "afterPush", "flush"}

\* handleImage(): the frame goes out, and a listener may close the decoder.
\* If no frame can be made of it the decoder fails, and the loop goes on.
Picture ==
    /\ Draining /\ native > 0
    /\ native' = native - 1
    /\ \/ pending' = Decremented /\ UNCHANGED <<closed, deleted, call>>
       \/ Fail /\ UNCHANGED <<deleted, call>>
       \/ /\ ~closed
          /\ closed' = TRUE /\ deleted' = TRUE
          /\ pending' = Decremented
          /\ call' = "none"
    /\ UNCHANGED <<parameterSets, paramsPushed, hasPushed, leading, nativeParams,
                   bounds, lost>>

\* An access unit without a picture leaves libde265: pending still counts it.
NoPicture ==
    /\ Draining /\ native > 0
    /\ native' = native - 1
    /\ lost' = lost + 1
    /\ UNCHANGED <<parameterSets, paramsPushed, hasPushed, pending, closed, deleted,
                   call, leading, nativeParams, bounds>>

\* drain() returns: nothing is left; libde265 waits for input, which a flushed
\* one does not; or it reports an error.  decode() goes on to its push.
DrainEnds ==
    /\ Draining
    /\ \/ NoFailure /\ (call = "afterPush" \/ native = 0)
       \/ Fail
    /\ call' = IF call = "beforePush" THEN "push" ELSE "none"
    /\ UNCHANGED <<parameterSets, paramsPushed, hasPushed, deleted, leading, native,
                   nativeParams, bounds, lost>>

\* Mutant of Reset: what the native decoder forgot is not pushed again.
ResetKeepsParams ==
    /\ AtRest
    /\ pending' = 0
    /\ hasPushed' = FALSE
    /\ native' = 0 /\ nativeParams' = FALSE
    /\ lost' = 0
    /\ UNCHANGED <<parameterSets, paramsPushed, closed, deleted, call, leading, bounds>>

\* reset().  A deleted decoder makes it throw, the queue forgotten.
Reset ==
    /\ AtRest
    /\ pending' = 0
    /\ IF deleted
       THEN UNCHANGED <<paramsPushed, hasPushed, native, nativeParams, lost>>
       ELSE /\ paramsPushed' = FALSE
            /\ hasPushed' = FALSE
            /\ native' = 0 /\ nativeParams' = FALSE
            /\ lost' = 0
    /\ UNCHANGED <<parameterSets, closed, deleted, call, leading, bounds>>

\* After a failure close() does nothing, and the native decoder is not deleted.
Close ==
    /\ AtRest /\ ~closed
    /\ closed' = TRUE /\ deleted' = TRUE
    /\ UNCHANGED <<parameterSets, paramsPushed, hasPushed, pending, call, leading,
                   native, nativeParams, bounds, lost>>

Next ==
    \/ Configure
    \/ Decode \/ Push
    \/ Flush
    \/ Picture \/ NoPicture \/ DrainEnds
    \/ Reset \/ Close

Spec == Init /\ [][Next]_vars

-----------------------------------------------------------------------------
TypeOK ==
    /\ {parameterSets, paramsPushed, hasPushed, closed, deleted, leading,
        nativeParams} \subseteq BOOLEAN
    /\ call \in CallSet
    /\ {pending, native, chunks, lost} \subseteq 0..MaxChunks
    /\ configs \in 0..MaxConfigs

\* hevc-soft-decoder.ts:147: "libde265's reset drops its parameter-set state; the
\* next chunk must carry the VPS/SPS/PPS again".  However configurations,
\* resets, refused pushes and failures follow each other, no access unit
\* reaches libde265 without the parameter sets of its configuration; and
\* queueSize is what libde265 holds and what never came out of it.
SlicesHaveParameters ==
    [][ /\ native' > native /\ parameterSets => nativeParams'
        /\ AtRest' /\ ~closed' => pending' = native' + lost' ]_vars
=============================================================================
