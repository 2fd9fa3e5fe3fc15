----------------------------- MODULE MCDecoding ------------------------------
(* One subject per behaviour: the decoder chain, either soft decoder, or the  *)
(* audio.  The clock and the buffers of the audio are cut into steps of half   *)
(* of SCHEDULE_AHEAD_MS.                                                      *)
EXTENDS CodecRouting

\* The constants of the components.
CONSTANTS
    MaxSubmitted, MaxCreates,                  \* Dav1dSoftDecoder
    MaxUnits, MaxHevcConfigs,                  \* HevcSoftDecoder
    Ahead, Durations, MaxBuffers, MaxTime      \* AudioOutput

ASSUME DecodingAssumption ==
    /\ {MaxSubmitted, MaxUnits, MaxHevcConfigs, Ahead, MaxBuffers, MaxTime} \subseteq Nat
    /\ MaxCreates \in Nat \ {0}
    /\ Durations \subseteq Nat

VARIABLES
    subject,       \* "routing", "dav1d", "hevc" or "audio"
    \* dav1d
    instance, creates, creating, freed, buffered, draining, queued, shut, submitted,
    decodes,
    \* hevc
    parameterSets, paramsPushed, hasPushed, waiting, hevcClosed, deleted, call, leading,
    native, nativeParams, units, hevcConfigs, lost,
    \* audio
    decoder, sink, context, currentTime, firstPts, firstWhen, nextWhen, isMaster,
    destroyed, pts, buffers, scheduled

dav1dVars == <<instance, creates, creating, freed, buffered, draining, queued, shut,
               submitted, decodes>>
hevcVars == <<parameterSets, paramsPushed, hasPushed, waiting, hevcClosed, deleted, call,
              leading, native, nativeParams, units, hevcConfigs, lost>>
audioVars == <<decoder, sink, context, currentTime, firstPts, firstWhen, nextWhen,
               isMaster, destroyed, pts, buffers, scheduled>>
allVars == <<subject, vars, dav1dVars, hevcVars, audioVars>>

Dav1d == INSTANCE Dav1dSoftDecoder
    WITH MaxChunks <- MaxSubmitted, pending <- queued, closed <- shut, chunks <- submitted

Hevc == INSTANCE HevcSoftDecoder
    WITH MaxChunks <- MaxUnits, MaxConfigs <- MaxHevcConfigs, pending <- waiting,
         closed <- hevcClosed, chunks <- units, configs <- hevcConfigs

Audio == INSTANCE AudioOutput WITH output <- sink

MCInit ==
    /\ subject \in {"routing", "dav1d", "hevc", "audio"}
    /\ Init /\ Dav1d!Init /\ Hevc!Init /\ Audio!Init

MCNext ==
    \/ subject = "routing" /\ Next /\ UNCHANGED <<subject, dav1dVars, hevcVars, audioVars>>
    \/ subject = "dav1d" /\ Dav1d!Next /\ UNCHANGED <<subject, vars, hevcVars, audioVars>>
    \/ subject = "hevc" /\ Hevc!Next /\ UNCHANGED <<subject, vars, dav1dVars, audioVars>>
    \/ subject = "audio" /\ Audio!Next /\ UNCHANGED <<subject, vars, dav1dVars, hevcVars>>

\* The fairness of CodecRouting and of Dav1dSoftDecoder.
MCSpec ==
    /\ MCInit /\ [][MCNext]_allVars
    /\ WF_allVars(subject = "routing" /\ Answers /\ UNCHANGED <<subject, dav1dVars, hevcVars, audioVars>>)
    /\ WF_allVars(subject = "routing" /\ Backend /\ UNCHANGED <<subject, dav1dVars, hevcVars, audioVars>>)
    /\ WF_allVars(subject = "dav1d" /\ Dav1d!Settle /\ UNCHANGED <<subject, vars, hevcVars, audioVars>>)
    /\ WF_allVars(subject = "dav1d" /\ Dav1d!Drain /\ UNCHANGED <<subject, vars, hevcVars, audioVars>>)

\* Chunks that the decoder chain or the AV1 decoder holds do not wait for ever.
HeldChunksAreReleased == HeldIsReleased /\ Dav1d!HeldIsReleased

DecodesSafely == Dav1d!DecodesSafely
SlicesHaveParameters == Hevc!SlicesHaveParameters
SoundsInOrder == Audio!SoundsInOrder
=============================================================================
