------------------------------ MODULE MCStreams ------------------------------
(* One subject per behaviour, of the plugins that bring the stream in: the     *)
(* three sources, the transport, the dialog with a GB28181 server, the         *)
(* demuxers and their timestamps.  What a subject chooses at first is fixed   *)
(* in the behaviours of the others.                                          *)
EXTENDS HlsSource

\* The constants of the components, under names of their own where two share one.
CONSTANTS
    MaxTracks, MaxCandidates,                              \* WhepSource
    MaxBlobs,                                              \* PsSource
    AttemptLimits, ListenerCalls, MaxSockets, DelayCap,    \* WsTransport
    MaxRequests,                                           \* Gb28181Session
    FlvHeaderSize, TagHeaderSize, PrevTagSize, Sizes, MaxTags,    \* FlvDemuxer
    StartCode, PsHeaderSize, PacketKinds, Bodies, MaxPsPackets,  \* PsDemuxer
    Pids, FrameSize, CounterModulus, MaxTsPackets,         \* TsDemuxer
    ClockModulus, Frame, Jumps, MaxStamps                  \* Timestamps

ASSUME StreamsAssumption ==
    /\ {MaxTracks, MaxCandidates, MaxBlobs, MaxSockets, DelayCap, MaxRequests, MaxTags,
        MaxPsPackets, MaxTsPackets, MaxStamps, Frame} \subseteq Nat
    /\ {FlvHeaderSize, TagHeaderSize, PrevTagSize, StartCode, PsHeaderSize, FrameSize,
        CounterModulus, ClockModulus} \subseteq Nat \ {0}
    /\ AttemptLimits \cup Sizes \cup Bodies \subseteq Nat
    /\ Jumps \subseteq Int
    /\ 1 < StartCode /\ StartCode < PsHeaderSize

VARIABLES
    subject,       \* one of Subjects
    \* WhepSource
    encoded, headerInSdp, whepStopped, peer, whepAwaiting, counterOffer, patchUrl, queued,
    trickling, processors, processor, pipeline, attached, whepStarted, whepFailed, tracks,
    gathered, sent, unsent, whepLate,
    \* PsSource
    transport, psStarted, psStopped, connection, reader, loop, answer, blobs, psLate,
    \* WsTransport
    reconnect, attemptLimit, state, socket, closed, timer, backoff, attempts, phase,
    opened, explicit, finals, thrown,
    \* Gb28181Session
    dialog, registered, challenged, media, cseq, verdict, streaming, byes, taken, abandoned,
    \* FlvDemuxer
    sizes, received, first, cursor, parsing, headerParsed, hasSeqHeader, flvFailed, tags,
    cutShort, flvFlushed,
    \* PsDemuxer
    packets, hevc, psReceived, psFirst, psCursor, pending, psParsing, codec, stored,
    seqEmitted, events, derailed, flushed,
    \* TsDemuxer
    muxed, known, pesBuffers, continuity, tsFailed, frames, repeated, masked,
    \* Timestamps
    unwraps, clock, stamp, wrapOffset, resolved, emitted, last, offset, stamped, origin,
    steady

whepVars == <<encoded, headerInSdp, whepStopped, peer, whepAwaiting, counterOffer, patchUrl,
              queued, trickling, processors, processor, pipeline, attached, whepStarted,
              whepFailed, tracks, gathered, sent, unsent, whepLate>>
psVars == <<transport, psStarted, psStopped, connection, reader, loop, answer, blobs, psLate>>
wsVars == <<reconnect, attemptLimit, state, socket, closed, timer, backoff, attempts, phase,
            opened, explicit, finals, thrown>>
gbVars == <<dialog, registered, challenged, media, cseq, verdict, streaming, byes, taken,
            abandoned>>
flvVars == <<sizes, received, first, cursor, parsing, headerParsed, hasSeqHeader, flvFailed,
             tags, cutShort, flvFlushed>>
psdVars == <<packets, hevc, psReceived, psFirst, psCursor, pending, psParsing, codec, stored,
             seqEmitted, events, derailed, flushed>>
tsVars == <<muxed, known, pesBuffers, continuity, tsFailed, frames, repeated, masked>>
timeVars == <<unwraps, clock, stamp, wrapOffset, resolved, emitted, last, offset, stamped,
              origin, steady>>
allVars == <<subject, vars, whepVars, psVars, wsVars, gbVars, flvVars, psdVars, tsVars, timeVars>>

Whep == INSTANCE WhepSource
    WITH stopped <- whepStopped, connection <- peer, awaiting <- whepAwaiting,
         pending <- queued, started <- whepStarted, failed <- whepFailed,
         lost <- unsent, lateDeliveries <- whepLate

Ps == INSTANCE PsSource
    WITH started <- psStarted, stopped <- psStopped, lateDeliveries <- psLate

Ws == INSTANCE WsTransport

Gb == INSTANCE Gb28181Session WITH state <- dialog

Flv == INSTANCE FlvDemuxer
    WITH HeaderSize <- FlvHeaderSize, failed <- flvFailed, taken <- tags,
         flushed <- flvFlushed

Psd == INSTANCE PsDemuxer
    WITH HeaderSize <- PsHeaderSize, Kinds <- PacketKinds, MaxPackets <- MaxPsPackets,
         received <- psReceived, first <- psFirst, cursor <- psCursor, parsing <- psParsing

Ts == INSTANCE TsDemuxer
    WITH Modulus <- CounterModulus, MaxPackets <- MaxTsPackets, sent <- muxed,
         failed <- tsFailed

Time == INSTANCE Timestamps
    WITH Modulus <- ClockModulus, MaxPackets <- MaxStamps, packets <- stamped

\* The value of Jumps: less than half of ClockModulus, either way.
MCJumps == -3..3

Subjects == {"hls", "whep", "ps", "ws", "gb28181", "flv", "psDemuxer", "ts", "time"}

MCInit ==
    /\ subject \in Subjects
    /\ Init /\ Gb!Init /\ Ts!Init
    /\ Whep!Init /\ (subject = "whep" \/ (~encoded /\ ~headerInSdp))
    /\ Ps!Init /\ (subject = "ps" \/ transport = "http")
    /\ Ws!Init /\ (subject = "ws" \/ (~reconnect /\ attemptLimit = 0))
    /\ Flv!Init /\ (subject = "flv" \/ sizes = <<0, 0>>)
    /\ Psd!Init
    /\ \/ subject = "psDemuxer"
       \/ /\ ~hevc
          /\ \A n \in DOMAIN packets : packets[n] = [kind |-> "pack", body |-> 1]
    /\ Time!Init /\ (subject = "time" \/ (~unwraps /\ clock = 0))

HlsOnly ==
    /\ subject = "hls"
    /\ UNCHANGED <<subject, whepVars, psVars, wsVars, gbVars, flvVars, psdVars, tsVars, timeVars>>
WhepOnly ==
    /\ subject = "whep"
    /\ UNCHANGED <<subject, vars, psVars, wsVars, gbVars, flvVars, psdVars, tsVars, timeVars>>
PsOnly ==
    /\ subject = "ps"
    /\ UNCHANGED <<subject, vars, whepVars, wsVars, gbVars, flvVars, psdVars, tsVars, timeVars>>
WsOnly ==
    /\ subject = "ws"
    /\ UNCHANGED <<subject, vars, whepVars, psVars, gbVars, flvVars, psdVars, tsVars, timeVars>>
GbOnly ==
    /\ subject = "gb28181"
    /\ UNCHANGED <<subject, vars, whepVars, psVars, wsVars, flvVars, psdVars, tsVars, timeVars>>
FlvOnly ==
    /\ subject = "flv"
    /\ UNCHANGED <<subject, vars, whepVars, psVars, wsVars, gbVars, psdVars, tsVars, timeVars>>
PsdOnly ==
    /\ subject = "psDemuxer"
    /\ UNCHANGED <<subject, vars, whepVars, psVars, wsVars, gbVars, flvVars, tsVars, timeVars>>
TsOnly ==
    /\ subject = "ts"
    /\ UNCHANGED <<subject, vars, whepVars, psVars, wsVars, gbVars, flvVars, psdVars, timeVars>>
TimeOnly ==
    /\ subject = "time"
    /\ UNCHANGED <<subject, vars, whepVars, psVars, wsVars, gbVars, flvVars, psdVars, tsVars>>

MCNext ==
    \/ Next /\ HlsOnly
    \/ Whep!Next /\ WhepOnly
    \/ Ps!Next /\ PsOnly
    \/ Ws!Next /\ WsOnly
    \/ Gb!Next /\ GbOnly
    \/ Flv!Next /\ FlvOnly
    \/ Psd!Next /\ PsdOnly
    \/ Ts!Next /\ TsOnly
    \/ Time!Next /\ TimeOnly

\* The fairness of the three sources, as their modules state it.
MCSpec ==
    /\ MCInit /\ [][MCNext]_allVars
    /\ WF_allVars(Answered /\ HlsOnly) /\ WF_allVars(Reload /\ HlsOnly)
    /\ WF_allVars(Whep!Settled /\ WhepOnly)
    /\ WF_allVars(Whep!Trickled /\ WhepOnly)
    /\ WF_allVars(Whep!TrackEnds /\ WhepOnly)
    /\ WF_allVars(Ps!Continue /\ PsOnly) /\ WF_allVars(Ps!BlobConverted /\ PsOnly)

-----------------------------------------------------------------------------
\* Every source implements MediaSource: wherever stop() interrupts its promises,
\* timers and listeners, at most the events of the one piece of media in hand, or an
\* error, are delivered after it, nothing begins anew, and everything is let go of.
\* This is less than what plugin-sdk/src/types.ts:85 asks for: NoEventsAfterStop.
SourcesKeepContract ==
    ImplementsSource /\ Whep!ImplementsSource /\ Ps!ImplementsSource

CandidatesReachServer == Whep!CandidatesReachServer
NoStraySocket == Ws!NoStraySocket
EndReportedOnce == Ws!EndReportedOnce
DialogsAgree == Gb!DialogsAgree
EndIsFinal == Gb!EndIsFinal
TagsParsedOnce == Flv!TagsParsedOnce
FramesOnce == Psd!FramesOnce
FramesHaveNoHoles == Ts!FramesHaveNoHoles
NeverBack == Time!NeverBack
UnwrapsExactly == Time!UnwrapsExactly
=============================================================================
