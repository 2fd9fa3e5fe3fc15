------------------------------ MODULE PsSource -------------------------------
(***************************************************************************)
(* PsSource of packages/plugins/ps/src/ps-source.ts: a program stream read   *)
(* from an HTTP body, or from WebSocket messages, into a PsDemuxer whose      *)
(* events are dispatched while push() and flush() run.  A listener may call   *)
(* stop() there: the rest of that chunk is still dispatched.                 *)
(***************************************************************************)
EXTENDS Naturals

CONSTANTS
    MaxBlobs       \* bound on messages being converted at once

VARIABLES
    transport,     \* by the URL and the runtime: a Transport
    started,
    stopped,       \* PsSource.stopped
    connection,    \* the request or the socket: "none", "open" or "closed"
    reader,        \* PsSource.reader is set
    loop,          \* what streamHttp() awaits: "nothing", "fetch" or "read"
    answer,        \* what that promise is settled with; "no" before
    blobs,         \* messages whose arrayBuffer() is not resolved
    lateDeliveries \* chunks, however many events each, and errors dispatched after stop()

loopVars == <<reader, loop, answer>>
vars == <<transport, started, stopped, connection, loopVars, blobs, lateDeliveries>>

Transport == {"http", "ws", "noWebSocket", "badScheme"}

Init ==
    /\ transport \in Transport
    /\ started = FALSE
    /\ stopped = FALSE
    /\ connection = "none"
    /\ reader = FALSE
    /\ loop = "nothing"
    /\ answer = "no"
    /\ blobs = 0
    /\ lateDeliveries = 0

-----------------------------------------------------------------------------
\* The events of a chunk are dispatched, or an error: some of them late if the
\* source is stopped, by then or by one of the listeners.  Nothing in push() or in
\* dispatch() looks at `stopped', so that all the rest of the chunk is delivered.
Dispatch ==
    /\ stopped' \in (IF stopped THEN {TRUE} ELSE BOOLEAN)
    /\ \/ stopped' /\ lateDeliveries' = lateDeliveries + 1
       \/ UNCHANGED lateDeliveries

\* What is left of a connection, which stop() ends.
Left(state) == IF stopped' /\ state = "open" THEN "closed" ELSE state

\* start(); the constructor of a WebSocket may throw, to the caller.
Start ==
    /\ ~started /\ ~stopped
    /\ started' = TRUE
    /\ CASE transport = "http" ->
              /\ connection' = "open" /\ loop' = "fetch"
              /\ UNCHANGED <<stopped, answer, lateDeliveries>>
         [] transport = "ws" ->
              /\ connection' \in {"open", "none"}
              /\ UNCHANGED <<stopped, loop, answer, lateDeliveries>>
         [] transport = "noWebSocket" ->
              /\ Dispatch
              /\ UNCHANGED <<connection, loop, answer>>
         [] transport = "badScheme" ->
              /\ loop' = "fetch" /\ answer' = "rejected"
              /\ UNCHANGED <<stopped, connection, lateDeliveries>>
    /\ UNCHANGED <<transport, reader, blobs>>

\* stop(): a promise in flight is rejected by the abort, or by the cancellation
\* of the reader told that the stream is done.
Stop ==
    /\ ~stopped
    /\ stopped' = TRUE
    /\ connection' = Left(connection)
    /\ reader' = FALSE
    /\ answer' \in IF loop = "nothing" \/ answer # "no" THEN {answer}
                   ELSE IF loop = "fetch" THEN {"rejected"}
                   ELSE {"rejected", "done"}
    /\ UNCHANGED <<transport, started, loop, blobs, lateDeliveries>>

-----------------------------------------------------------------------------
(* streamHttp().                                                             *)

\* The network settles what is awaited; the code runs later.
Answer ==
    /\ loop # "nothing" /\ answer = "no"
    /\ connection = "open"
    /\ answer' \in IF loop = "fetch" THEN {"ok", "refused", "rejected"}
                                     ELSE {"chunk", "done", "rejected"}
    /\ UNCHANGED <<transport, started, stopped, connection, reader, loop, blobs,
                   lateDeliveries>>

\* There is a body: its reader is created and read, which rejects if the
\* request was aborted.
Responded ==
    /\ answer = "ok"
    /\ reader' = TRUE
    /\ loop' = "read"
    /\ answer' = IF stopped THEN "rejected" ELSE "no"
    /\ UNCHANGED <<transport, started, stopped, connection, blobs, lateDeliveries>>

\* A chunk is pushed, even after stop(), which leaves no reader to read on.
ChunkRead ==
    /\ answer = "chunk"
    /\ Dispatch
    /\ connection' = Left(connection)
    /\ reader' = (reader /\ ~stopped')
    /\ answer' = IF reader' THEN "no" ELSE "rejected"
    /\ UNCHANGED <<transport, started, loop, blobs>>

\* The end of the stream flushes the demuxer, after stop() as well.
Done ==
    /\ answer = "done"
    /\ Dispatch
    /\ reader' = FALSE
    /\ loop' = "nothing" /\ answer' = "no"
    /\ connection' = "closed"
    /\ UNCHANGED <<transport, started, blobs>>

\* streamHttp() rejects: an error event, unless the source was stopped.  The
\* body of a refused request is left unread.
Rejected ==
    /\ answer \in {"refused", "rejected"}
    /\ loop' = "nothing" /\ answer' = "no"
    /\ IF stopped THEN UNCHANGED <<stopped, lateDeliveries>> ELSE Dispatch
    /\ connection' = IF answer = "rejected" /\ connection = "open" THEN "closed"
                     ELSE Left(connection)
    /\ reader' = (reader /\ ~stopped')
    /\ UNCHANGED <<transport, started, blobs>>

Continue == Responded \/ ChunkRead \/ Done \/ Rejected

-----------------------------------------------------------------------------
(* openWebSocket().                                                          *)

\* onmessage with bytes, or onerror.
MessageOrError ==
    /\ transport = "ws" /\ connection = "open"
    /\ Dispatch
    /\ connection' = Left(connection)
    /\ UNCHANGED <<transport, started, loopVars, blobs>>

BlobReceived ==
    /\ transport = "ws" /\ connection = "open"
    /\ blobs < MaxBlobs
    /\ blobs' = blobs + 1
    /\ UNCHANGED <<transport, started, stopped, connection, loopVars, lateDeliveries>>

\* Its bytes are there, and pushed unless the source was stopped.
BlobConverted ==
    /\ blobs > 0
    /\ blobs' = blobs - 1
    /\ IF stopped THEN UNCHANGED <<stopped, lateDeliveries>> ELSE Dispatch
    /\ connection' = Left(connection)
    /\ UNCHANGED <<transport, started, loopVars>>

\* onclose flushes the demuxer.
PeerCloses ==
    /\ transport = "ws" /\ connection = "open"
    /\ connection' = "closed"
    /\ Dispatch
    /\ UNCHANGED <<transport, started, loopVars, blobs>>

Next ==
    \/ Start \/ Stop
    \/ Answer \/ Continue
    \/ MessageOrError \/ BlobReceived \/ BlobConverted \/ PeerCloses

Spec == Init /\ [][Next]_vars

\* Continuations run and conversions end.
FairSpec == Spec /\ WF_vars(Continue) /\ WF_vars(BlobConverted)

-----------------------------------------------------------------------------
TypeOK ==
    /\ transport \in Transport
    /\ {started, stopped, reader} \subseteq BOOLEAN
    /\ connection \in {"none", "open", "closed"}
    /\ loop \in {"nothing", "fetch", "read"}
    /\ answer \in {"no", "ok", "refused", "chunk", "done", "rejected"}
    /\ blobs \in 0..MaxBlobs
    /\ lateDeliveries \in 0..1

Source == INSTANCE MediaSource
    WITH status <- IF stopped THEN "stopped" ELSE IF started THEN "running" ELSE "idle",
         busy <- connection = "open" \/ loop # "nothing" \/ blobs > 0

\* Wherever stop() comes between the answer of the network and the code that
\* takes it, or inside that code, at most the events of the chunk in hand, or one
\* error, are still delivered, and nothing stays open.
ImplementsSource == Source!Spec
=============================================================================
