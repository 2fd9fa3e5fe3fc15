----------------------------- MODULE WhepSource ------------------------------
(***************************************************************************)
(* WhepSource of packages/plugins/whep/src/whep-source.ts, with the encoded  *)
(* pipeline of whep-encoded-pipeline.ts: connect() negotiates a peer         *)
(* connection in a chain of asynchronous steps, while ICE candidates and     *)
(* tracks arrive on their own.                                               *)
(*                                                                           *)
(* stop() closes the connection, whose promises then never resolve, and      *)
(* aborts the requests in flight.  But a listener of an error event may call *)
(* stop() inside a step: the chain then goes on, and its next request has a   *)
(* new AbortController.                                                      *)
(*                                                                           *)
(* Nobody awaits the PATCH of a trickled candidate: when the network rejects  *)
(* it, no error event tells.                                                 *)
(***************************************************************************)
EXTENDS Naturals, FiniteSets

CONSTANTS
    MaxTracks,       \* bound on the tracks of the remote description
    MaxCandidates    \* bound on local ICE candidates

VARIABLES
    encoded,       \* WhepSourceOptions.encoded
    headerInSdp,   \* the remote SDP has the parameter sets of the video
    stopped,       \* WhepSource.stopped
    connection,    \* WhepSource.pc: "none", "open" or "closed"
    awaiting,      \* what connect() awaits: an Await, or "nothing"
    counterOffer,  \* the handshake was a 406 with an offer
    patchUrl,      \* WhepSource.patchUrl is set
    pending,       \* length of WhepSource.pendingCandidates
    trickling,     \* PATCHes of queueCandidate() in flight
    processors,    \* tracks with a processor and a read loop
    processor,     \* the track of WhepSource.processor and .reader; 0 for null
    pipeline,      \* WhepSource.encodedPipeline is set
    attached,      \* its tracks with a transform and a worker
    \* history
    started,
    failed,        \* connect() was rejected
    tracks,        \* tracks announced
    gathered, sent,  \* candidates gathered, and PATCHed
    lost,          \* candidates whose trickled PATCH was rejected
    lateDeliveries   \* dispatches of the pipeline after stop()

mediaVars == <<processors, processor, pipeline, attached, tracks>>
candidateVars == <<pending, trickling, gathered, sent, lost>>
optionVars == <<encoded, headerInSdp>>
vars == <<optionVars, stopped, connection, awaiting, counterOffer, patchUrl,
          candidateVars, mediaVars, started, failed, lateDeliveries>>

Promises == {"createOffer", "setLocal", "setRemote", "createAnswer", "setLocalAnswer"}
Requests == {"post", "patchAnswer", "patchCandidate"}
Await == Promises \cup Requests \cup {"rejection"}

Init ==
    /\ encoded \in BOOLEAN
    /\ headerInSdp \in BOOLEAN
    /\ stopped = FALSE
    /\ connection = "none"
    /\ awaiting = "nothing"
    /\ counterOffer = FALSE
    /\ patchUrl = FALSE
    /\ pending = 0
    /\ trickling = 0
    /\ processors = {}
    /\ processor = 0
    /\ pipeline = FALSE
    /\ attached = {}
    /\ started = FALSE
    /\ failed = FALSE
    /\ tracks = 0
    /\ gathered = 0
    /\ sent = 0
    /\ lost = 0
    /\ lateDeliveries = 0

-----------------------------------------------------------------------------
(* start() and stop().                                                       *)

\* Without WebRTC in the browser connect() is rejected at once.
Start ==
    /\ ~started /\ ~stopped
    /\ started' = TRUE
    /\ \/ connection' = "open" /\ awaiting' = "createOffer"
       \/ connection' = "none" /\ awaiting' = "rejection"
    /\ UNCHANGED <<optionVars, stopped, counterOffer, patchUrl, candidateVars,
                   mediaVars, failed, lateDeliveries>>

\* Mutant of Release: the peer connection is left open.
ReleaseMedia ==
    /\ stopped' = TRUE
    /\ connection' = connection
    /\ trickling' = 0
    /\ processors' = processors \ {processor}
    /\ processor' = 0
    /\ attached' = {}

\* What stop() does, wherever it is called, and to the pipeline below.  It
\* destroys the last processor.
Release ==
    /\ stopped' = TRUE
    /\ connection' = IF connection = "open" THEN "closed" ELSE connection
    /\ trickling' = 0
    /\ processors' = processors \ {processor}
    /\ processor' = 0
    /\ attached' = {}

\* stop() detaches the encoded pipeline and forgets it.
DetachIfStopped == pipeline' = (pipeline /\ ~stopped')

Stop ==
    /\ ~stopped
    /\ Release
    /\ DetachIfStopped
    /\ awaiting' = IF awaiting = "nothing" THEN "nothing" ELSE "rejection"
    /\ UNCHANGED <<optionVars, counterOffer, patchUrl, pending, gathered, sent, lost,
                   tracks, started, failed, lateDeliveries>>

\* An error event is dispatched: its listener stops the source, or not.
Dispatched ==
    \/ Release
    \/ UNCHANGED <<stopped, connection, trickling, processors, processor, attached>>

-----------------------------------------------------------------------------
(* connect(), step by step.                                                  *)

\* The promises of an open connection resolve, one leading to the next.
PromiseResolved ==
    /\ connection = "open"
    /\ \/ awaiting = "createOffer" /\ awaiting' = "setLocal"
       \/ awaiting = "setLocal" /\ awaiting' = "post"
       \/ awaiting = "setRemote" /\ counterOffer /\ awaiting' = "createAnswer"
       \/ awaiting = "createAnswer" /\ awaiting' = "setLocalAnswer"
       \/ awaiting = "setLocalAnswer" /\ awaiting' = "patchAnswer"
    /\ UNCHANGED <<optionVars, stopped, connection, counterOffer, patchUrl,
                   candidateVars, mediaVars, started, failed, lateDeliveries>>

\* postOffer() returned an answer (2xx) or a counter-offer (406).
PostAnswered ==
    /\ awaiting = "post"
    /\ counterOffer' \in BOOLEAN
    /\ patchUrl' = TRUE
    /\ awaiting' = "setRemote"
    /\ UNCHANGED <<optionVars, stopped, connection, candidateVars, mediaVars,
                   started, failed, lateDeliveries>>

\* flushCandidates() takes the next candidate, or connect() is done.
Flush(count) ==
    IF count > 0
    THEN pending' = count - 1 /\ awaiting' = "patchCandidate"
    ELSE pending' = count /\ awaiting' = "nothing"

\* The end of connect(): the encoded pipeline is built, even if stop() was
\* called, and emits the configuration of the SDP.
Finish ==
    /\ Flush(pending)
    /\ pipeline' = encoded
    /\ lateDeliveries' =
           IF stopped' /\ encoded /\ headerInSdp THEN lateDeliveries + 1 ELSE lateDeliveries

Negotiated ==
    /\ awaiting = "setRemote" /\ connection = "open" /\ ~counterOffer
    /\ UNCHANGED stopped
    /\ Finish
    /\ UNCHANGED <<optionVars, connection, counterOffer, patchUrl, trickling,
                   gathered, sent, lost, processors, processor, attached, tracks, started,
                   failed>>

\* The PATCH of the answer: a refusal dispatches an error, and connect() goes on.
AnswerPatched ==
    /\ awaiting = "patchAnswer"
    /\ Dispatched
    /\ Finish
    /\ UNCHANGED <<optionVars, counterOffer, patchUrl, gathered, sent, lost, tracks,
                   started, failed>>

\* Mutant of CandidatePatched: one candidate is flushed.
CandidatePatchedOnce ==
    /\ awaiting = "patchCandidate"
    /\ Dispatched
    /\ DetachIfStopped
    /\ sent' = sent + 1
    /\ awaiting' = "nothing"
    /\ UNCHANGED <<optionVars, pending, counterOffer, patchUrl, gathered, lost, tracks,
                   started, failed, lateDeliveries>>

\* So does flushCandidates() after the refusal of a candidate.
CandidatePatched ==
    /\ awaiting = "patchCandidate"
    /\ Dispatched
    /\ DetachIfStopped
    /\ sent' = sent + 1
    /\ Flush(pending)
    /\ UNCHANGED <<optionVars, counterOffer, patchUrl, gathered, lost, tracks, started,
                   failed, lateDeliveries>>

\* A promise or a request is rejected: connect() ends, with an error event
\* unless the source was stopped.
Rejected ==
    /\ awaiting # "nothing"
    /\ awaiting' = "nothing"
    /\ failed' = TRUE
    /\ IF stopped
       THEN UNCHANGED <<stopped, connection, trickling, processors, processor,
                        pipeline, attached>>
       ELSE Dispatched /\ DetachIfStopped
    /\ UNCHANGED <<optionVars, counterOffer, patchUrl, pending, gathered, sent, lost, tracks,
                   started, lateDeliveries>>

-----------------------------------------------------------------------------
(* What the peer connection announces.                                       *)

\* onicecandidate: queueCandidate().
CandidateGathered ==
    /\ connection = "open"
    /\ awaiting # "createOffer"
    /\ gathered < MaxCandidates
    /\ gathered' = gathered + 1
    /\ IF patchUrl THEN trickling' = trickling + 1 /\ UNCHANGED pending
                   ELSE pending' = pending + 1 /\ UNCHANGED trickling
    /\ UNCHANGED <<optionVars, stopped, connection, awaiting, counterOffer, patchUrl,
                   sent, lost, mediaVars, started, failed, lateDeliveries>>

\* Its PATCH is answered; a refusal dispatches an error.
CandidateTrickled ==
    /\ trickling > 0
    /\ sent' = sent + 1
    /\ \/ /\ trickling' = trickling - 1
          /\ UNCHANGED <<stopped, connection, awaiting, processors, processor,
                         pipeline, attached>>
       \/ /\ Release
          /\ DetachIfStopped
          /\ awaiting' = IF awaiting = "nothing" THEN "nothing" ELSE "rejection"
    /\ UNCHANGED <<optionVars, counterOffer, patchUrl, pending, gathered, lost, tracks,
                   started, failed, lateDeliveries>>

\* Or the network rejects it, and with it the promise that nobody awaits.
CandidateLost ==
    /\ trickling > 0
    /\ trickling' = trickling - 1
    /\ lost' = lost + 1
    /\ UNCHANGED <<optionVars, stopped, connection, awaiting, counterOffer, patchUrl,
                   pending, gathered, sent, mediaVars, started, failed, lateDeliveries>>

\* ontrack, while the remote description is applied or, as the fakes of the
\* tests have it, later.  An encoded track needs the pipeline to be there.
TrackAdded ==
    /\ connection = "open"
    /\ awaiting = "setRemote" \/ (patchUrl /\ ~failed /\ awaiting # "rejection")
    /\ tracks < MaxTracks
    /\ tracks' = tracks + 1
    /\ IF encoded
       THEN /\ attached' = IF pipeline THEN attached \cup {tracks'} ELSE attached
            /\ UNCHANGED <<processors, processor>>
       ELSE /\ processors' = processors \cup {tracks'}
            /\ processor' = tracks'
            /\ UNCHANGED attached
    /\ UNCHANGED <<optionVars, stopped, connection, awaiting, counterOffer, patchUrl,
                   candidateVars, pipeline, started, failed, lateDeliveries>>

\* A closed connection ends its tracks: the read loop of a processor that was
\* not destroyed ends with its stream.
TrackEnds ==
    /\ connection = "closed"
    /\ \E t \in processors : processors' = processors \ {t}
    /\ UNCHANGED <<optionVars, stopped, connection, awaiting, counterOffer, patchUrl,
                   candidateVars, processor, pipeline, attached, tracks, started,
                   failed, lateDeliveries>>

\* handleIceState(): "failed" or "disconnected" is an error event.
IceFails ==
    /\ connection = "open" /\ ~stopped
    /\ Release
    /\ DetachIfStopped
    /\ awaiting' = IF awaiting = "nothing" THEN "nothing" ELSE "rejection"
    /\ UNCHANGED <<optionVars, counterOffer, patchUrl, pending, gathered, sent, lost,
                   tracks, started, failed, lateDeliveries>>

Settled ==
    \/ PromiseResolved \/ PostAnswered \/ Negotiated \/ AnswerPatched
    \/ CandidatePatched \/ Rejected

Trickled == CandidateTrickled \/ CandidateLost

Next ==
    \/ Start \/ Stop
    \/ Settled
    \/ CandidateGathered \/ Trickled
    \/ TrackAdded \/ TrackEnds
    \/ IceFails

Spec == Init /\ [][Next]_vars

\* The browser settles every promise and request, and ends the tracks of a
\* closed connection.
FairSpec == Spec /\ WF_vars(Settled) /\ WF_vars(Trickled) /\ WF_vars(TrackEnds)

-----------------------------------------------------------------------------
TypeOK ==
    /\ {encoded, headerInSdp, stopped, counterOffer, patchUrl, pipeline, started,
        failed} \subseteq BOOLEAN
    /\ connection \in {"none", "open", "closed"}
    /\ awaiting \in Await \cup {"nothing"}
    /\ {pending, trickling, gathered, sent, lost} \subseteq 0..MaxCandidates
    /\ {processors, attached} \subseteq SUBSET (1..MaxTracks)
    /\ {processor, tracks} \subseteq 0..MaxTracks
    /\ lateDeliveries \in Nat

\* No candidate is stranded between the queue and the direct PATCH, whenever it
\* is gathered: once connect() succeeded and the requests are settled, the server
\* has all of them, but those whose direct PATCH the network rejected.
CandidatesReachServer ==
    started /\ awaiting = "nothing" /\ trickling = 0 /\ ~stopped /\ ~failed =>
        sent + lost = gathered

\* whep-source.ts:162: "the workers are wired lazily on `ontrack`": a track of
\* an encoded session that was negotiated has its transform.
EncodedTracksWired ==
    encoded /\ started /\ awaiting = "nothing" /\ ~stopped /\ ~failed =>
        attached = 1..tracks

Source == INSTANCE MediaSource
    WITH status <- IF stopped THEN "stopped" ELSE IF started THEN "running" ELSE "idle",
         busy <- \/ connection = "open" \/ awaiting \in Requests \/ trickling > 0
                 \/ processors # {} \/ attached # {}

\* However connect(), candidates, tracks and errors interleave with stop(), a
\* stopped source delivers at most the configuration of the SDP, once, and lets go of
\* its connection, requests, processors and workers.
ImplementsSource == Source!Spec
=============================================================================
