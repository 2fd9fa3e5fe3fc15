------------------------------- MODULE Engine -------------------------------
(***************************************************************************)
(* The player's orchestrator: Engine (packages/core/src/engine.ts) with the *)
(* two branches it drives, TransportPipeline (transport-pipeline.ts) and    *)
(* SourceBranch (source-branch.ts), and its Pump (module Pump).             *)
(*                                                                          *)
(* JavaScript runs one task at a time, but the engine calls user code in    *)
(* the middle of its methods: every setState() emits 'stats', handleError() *)
(* emits 'error', decoded frames emit 'frame', a stall emits 'stalled', all *)
(* synchronously.  A listener may call play(), pause() or destroy() before  *)
(* the method that emitted goes on.  So a method is the sequence of its     *)
(* pieces between emits, and `stack' is the call stack: the continuations   *)
(* still to run, innermost first, "listener" standing for user code that is *)
(* running now.  A new task starts only when the stack is empty.            *)
(* User code catches what play() throws and throws nothing itself.          *)
(*                                                                          *)
(* Every start() is a session, numbered from 1.  Its pump has either kind   *)
(* of driver, and the tab may be hidden or shown between tasks.             *)
(***************************************************************************)
EXTENDS Naturals, Sequences, FiniteSets

CONSTANTS
    Modes,            \* of the player, see ModeSet
    MaxSessions,      \* bound on start() calls
    MaxStack,         \* bound on the depth of re-entrant calls
    FrameIds,
    MaxFrames

BranchSet == {"demuxer", "source", "rejected"}
CallSet == {"play", "pause", "destroy"}

\* What the url and the plugins resolve to; the player methods its listeners
\* may call; whether a source may emit 'error' inside its start().
ModeSet == [branch : BranchSet, calls : SUBSET CallSet, syncError : BOOLEAN]

ASSUME EngineAssumption ==
    /\ Modes \subseteq ModeSet
    /\ MaxSessions \in Nat
    /\ MaxStack \in Nat

VARIABLES
    mode,        \* fixed by the options, plugins and listeners of the player
    state,       \* Engine.state
    destroyed,   \* Engine.destroyed
    session,     \* number of start() calls so far
    transport,   \* TransportPipeline.transport, by session; 0 for null
    timer,       \* TransportPipeline.connectTimer is armed
    source,      \* SourceBranch.source, by session; 0 for null
    phase,       \* of each session's transport or source, as its peer sees it
    fed,         \* media reached the decoder, which may output or fail later
    failures,    \* errors recorded by handleError() since the last start()
    stack,       \* continuations, innermost first
    \* the pump and its tab, see module Pump
    primaryRearm, started, hidden, current, frameId, frames, docHidden,
    listening, inTick, haltedInTick

pumpVars == <<primaryRearm, started, hidden, current, frameId, frames, docHidden,
              listening, inTick, haltedInTick>>
linkVars == <<transport, timer, source, phase>>
vars == <<mode, state, destroyed, session, linkVars, fed, failures, stack, pumpVars>>

P == INSTANCE Pump WITH mayThrow <- FALSE

Sessions == 1..MaxSessions
States == {"idle", "connecting", "playing", "paused", "error", "stopped"}
Phases == {"none", "connecting", "open", "refused", "closed"}
Continuations ==
    {"listener",       \* user code called from emit()
     "start.setup",    \* start() after setState('connecting')
     "source.live",    \* startWithSource() once connect() returned
     "source.pump",    \* startWithSource() after setState('playing')
     "error.emit",     \* handleError() after setState('error')
     "frame.draw",     \* handleOutput() after the 'frame' event
     "tick.decode", "tick.watch",        \* Scheduler.tick()
     "tick.return"}    \* back in Pump.handleTick()

Quiescent == stack = <<>>
Top(k) == stack # <<>> /\ Head(stack) = k

\* Return from the piece on top, into the pieces it calls or continues with.
Resume(pieces) == stack' = pieces \o Tail(stack)

\* User code runs: between tasks, or inside a listener that may call this.
UserRuns(call) == Quiescent \/ (Top("listener") /\ call \in mode.calls)

\* A method called by user code: its pieces go on top.
Call(pieces) ==
    /\ Len(stack) + Len(pieces) <= MaxStack
    /\ stack' = pieces \o stack

\* Connections with a peer, and all those the engine holds: one whose connect()
\* threw is still a connecting one to it.
Peers == {s \in Sessions : phase[s] \in {"connecting", "open"}}
Refused == \E s \in Sessions : phase[s] = "refused"
Live == {s \in Sessions : phase[s] \in {"connecting", "open", "refused"}}

Closed(ss) == [s \in Sessions |-> IF s \in ss THEN "closed" ELSE phase[s]]

Init ==
    /\ mode \in Modes
    /\ state = "idle"
    /\ destroyed = FALSE
    /\ session = 0
    /\ transport = 0
    /\ timer = FALSE
    /\ source = 0
    /\ phase = [s \in Sessions |-> "none"]
    /\ fed = FALSE
    /\ failures = 0
    /\ stack = <<>>
    /\ P!Init

-----------------------------------------------------------------------------
(* Pieces shared by several methods.                                        *)

StartPump == IF started THEN UNCHANGED pumpVars ELSE P!Start
StopPump == P!Stop

\* Mutant of ReleaseBoth: the source is not disconnected.
ReleaseTransport ==
    /\ transport' = 0
    /\ timer' = FALSE
    /\ phase' = Closed({transport})
    /\ UNCHANGED source

\* pipeline.teardown() and sourceBranch.disconnect().
ReleaseBoth ==
    /\ transport' = 0
    /\ timer' = FALSE
    /\ source' = 0
    /\ phase' = Closed({transport, source})

\* Mutant of HandleError: no guard against a second error.
HandleErrorAgain(rest) ==
    /\ failures' = failures + 1
    /\ StopPump
    /\ ReleaseBoth
    /\ state' = "error"
    /\ stack' = <<"listener", "error.emit">> \o rest
    /\ UNCHANGED <<mode, destroyed, session, fed>>

\* handleError(), called by the piece on top or by a new task, which goes on
\* with `rest' once the 'stats' and 'error' listeners returned.
HandleError(rest) ==
    /\ IF state = "error"
       THEN /\ stack' = rest
            /\ UNCHANGED <<state, failures, linkVars, pumpVars>>
       ELSE /\ failures' = failures + 1
            /\ StopPump
            /\ ReleaseBoth
            /\ state' = "error"
            /\ stack' = <<"listener", "error.emit">> \o rest
    /\ UNCHANGED <<mode, destroyed, session, fed>>

-----------------------------------------------------------------------------
(* The player's methods.                                                    *)

\* play() on a paused player.
PlayPaused ==
    /\ UserRuns("play")
    /\ ~destroyed
    /\ state = "paused"
    /\ Cardinality(frames) < MaxFrames
    /\ StartPump
    /\ state' = "playing"
    /\ Call(<<"listener">>)
    /\ UNCHANGED <<mode, destroyed, session, linkVars, fed, failures>>

\* play() on an idle, failed or stopped player: start() up to its first emit.
PlayStart ==
    /\ UserRuns("play")
    /\ ~destroyed
    /\ state \in {"idle", "error", "stopped"}
    /\ session < MaxSessions
    /\ Cardinality(frames) < MaxFrames
    /\ session' = session + 1
    /\ state' = "connecting"
    /\ failures' = 0
    /\ Call(<<"listener", "start.setup">>)
    /\ UNCHANGED <<mode, destroyed, linkVars, fed, pumpVars>>

\* Mutant of Pause: the pump goes on.
PausePumping ==
    /\ UserRuns("pause")
    /\ state \in {"playing", "connecting"}
    /\ state' = "paused"
    /\ Call(<<"listener">>)
    /\ UNCHANGED <<mode, destroyed, session, linkVars, fed, failures, pumpVars>>

Pause ==
    /\ UserRuns("pause")
    /\ state \in {"playing", "connecting"}
    /\ StopPump
    /\ state' = "paused"
    /\ Call(<<"listener">>)
    /\ UNCHANGED <<mode, destroyed, session, linkVars, fed, failures>>

Destroy ==
    /\ UserRuns("destroy")
    /\ ~destroyed
    /\ destroyed' = TRUE
    /\ P!Destroy
    /\ ReleaseBoth
    /\ state' = "stopped"
    /\ UNCHANGED <<mode, session, fed, failures, stack>>

ListenerReturns ==
    /\ Top("listener")
    /\ Resume(<<>>)
    /\ UNCHANGED <<mode, state, destroyed, session, linkVars, fed, failures, pumpVars>>

UserCall == PlayPaused \/ PlayStart \/ Pause \/ Destroy

-----------------------------------------------------------------------------
(* start() after its first emit.                                            *)

\* Registration, url, plugin lookup or create() failed.
SetupRejected ==
    /\ Top("start.setup")
    /\ HandleError(Tail(stack))

\* Mutant of SetupTransport: no connect timeout.
SetupUntimed ==
    /\ Top("start.setup")
    /\ mode.branch = "demuxer"
    /\ transport' = session
    /\ phase' = [phase EXCEPT ![session] = "connecting"]
    /\ StartPump
    /\ Resume(<<>>)
    /\ UNCHANGED <<mode, state, destroyed, session, timer, source, fed, failures>>

\* pipeline.start(): wire, arm the timeout, connect; then startPump().
SetupTransport ==
    /\ Top("start.setup")
    /\ mode.branch = "demuxer"
    /\ transport' = session
    /\ timer' = TRUE
    /\ phase' = [phase EXCEPT ![session] = "connecting"]
    /\ StartPump
    /\ Resume(<<>>)
    /\ UNCHANGED <<mode, state, destroyed, session, source, fed, failures>>

\* transport.connect() throws, for want of a WebSocket or because of the url:
\* through pipeline.start() and play() to the user, who catches it.  What was
\* wired stays, and startPump() is not reached.
SetupThrows ==
    /\ Top("start.setup")
    /\ mode.branch = "demuxer"
    /\ transport' = session
    /\ timer' = TRUE
    /\ phase' = [phase EXCEPT ![session] = "refused"]
    /\ Resume(<<>>)
    /\ UNCHANGED <<mode, state, destroyed, session, source, fed, failures, pumpVars>>

\* sourceBranch.connect() returned: the source is live at once.
SetupSource ==
    /\ Top("start.setup")
    /\ mode.branch = "source"
    /\ source' = session
    /\ phase' = [phase EXCEPT ![session] = "open"]
    /\ Resume(<<"source.live">>)
    /\ UNCHANGED <<mode, state, destroyed, session, transport, timer, fed, failures, pumpVars>>

\* source.start() emitted an 'error' event before it returned: handleError()
\* runs inside connect(), which then returns normally.
SetupSourceFails ==
    /\ mode.syncError
    /\ Top("start.setup")
    /\ mode.branch = "source"
    /\ HandleError(<<"source.live">> \o Tail(stack))

\* startWithSource(): setState('playing'), then startPump().
SourceLive ==
    /\ Top("source.live")
    /\ state' = "playing"
    /\ Resume(<<"listener", "source.pump">>)
    /\ UNCHANGED <<mode, destroyed, session, linkVars, fed, failures, pumpVars>>

SourcePump ==
    /\ Top("source.pump")
    /\ StartPump
    /\ Resume(<<>>)
    /\ UNCHANGED <<mode, state, destroyed, session, linkVars, fed, failures>>

ErrorEmit ==
    /\ Top("error.emit")
    /\ Resume(<<"listener">>)
    /\ UNCHANGED <<mode, state, destroyed, session, linkVars, fed, failures, pumpVars>>

StartPieces ==
    \/ SetupRejected \/ SetupTransport \/ SetupThrows
    \/ SetupSource \/ SetupSourceFails
    \/ SourceLive \/ SourcePump \/ ErrorEmit

-----------------------------------------------------------------------------
(* Transport and source events, each a task of its own.                     *)

\* Mutant of TransportOpen: a player paused in the meantime plays.
TransportOpenPlays(s) ==
    /\ Quiescent
    /\ mode.branch = "demuxer" /\ phase[s] = "connecting"
    /\ phase' = [phase EXCEPT ![s] = "open"]
    /\ timer' = FALSE
    /\ state' = "playing" /\ stack' = <<"listener">>
    /\ UNCHANGED <<mode, destroyed, session, transport, source, fed, failures, pumpVars>>

TransportOpen(s) ==
    /\ Quiescent
    /\ mode.branch = "demuxer" /\ phase[s] = "connecting"
    /\ phase' = [phase EXCEPT ![s] = "open"]
    /\ timer' = FALSE
    /\ IF state = "connecting"
       THEN state' = "playing" /\ stack' = <<"listener">>
       ELSE UNCHANGED <<state, stack>>
    /\ UNCHANGED <<mode, destroyed, session, transport, source, fed, failures, pumpVars>>

\* handlePipelineClose() of a transport that was still connecting.
CloseConnecting(s) ==
    /\ Quiescent
    /\ mode.branch = "demuxer" /\ s \in Peers
    /\ state = "connecting"
    /\ HandleError(<<>>)

\* handlePipelineClose() otherwise: a clean end of stream.
CloseClean(s) ==
    /\ Quiescent
    /\ mode.branch = "demuxer" /\ s \in Peers
    /\ state # "connecting"
    /\ StopPump
    /\ transport' = 0
    /\ timer' = FALSE
    /\ phase' = Closed({s, transport})
    /\ state' = "stopped"
    /\ stack' = <<"listener">>
    /\ UNCHANGED <<mode, destroyed, session, source, fed, failures>>

\* A transport or source 'error' event, a demuxer 'error' event, a decoder that
\* refuses its configuration or a renderer that throws on a direct frame.
StreamError(s) ==
    /\ Quiescent
    /\ s \in Peers
    /\ HandleError(<<>>)

\* Media arrives and goes to the scheduler or the decoder.
StreamData(s) ==
    /\ Quiescent
    /\ phase[s] = "open"
    /\ ~fed
    /\ fed' = TRUE
    /\ UNCHANGED <<mode, state, destroyed, session, linkVars, failures, stack, pumpVars>>

ConnectTimeout ==
    /\ Quiescent
    /\ timer
    /\ HandleError(<<>>)

\* Decoder callbacks: output emits 'frame' and then draws; errors surface.
DecoderOutput ==
    /\ Quiescent
    /\ fed /\ ~destroyed
    /\ stack' = <<"listener", "frame.draw">>
    /\ UNCHANGED <<mode, state, destroyed, session, linkVars, fed, failures, pumpVars>>

DecoderError ==
    /\ Quiescent
    /\ fed /\ ~destroyed
    /\ HandleError(<<>>)

Draw ==
    /\ Top("frame.draw")
    /\ Resume(<<>>)
    /\ UNCHANGED <<mode, state, destroyed, session, linkVars, fed, failures, pumpVars>>

DrawThrows ==
    /\ Top("frame.draw")
    /\ HandleError(Tail(stack))

StreamEvents ==
    \/ \E s \in Sessions :
        TransportOpen(s) \/ CloseConnecting(s) \/ CloseClean(s)
            \/ StreamError(s) \/ StreamData(s)
    \/ ConnectTimeout
    \/ DecoderOutput \/ DecoderError \/ Draw \/ DrawThrows

-----------------------------------------------------------------------------
(* A pump tick: Scheduler.tick() decodes at most one chunk, then watches    *)
(* for a stall.                                                             *)

TickBegins ==
    /\ Quiescent
    /\ \E f \in frames : P!Fire(f)
    /\ stack' = IF inTick' THEN <<"tick.decode", "tick.watch", "tick.return">> ELSE <<>>
    /\ UNCHANGED <<mode, state, destroyed, session, linkVars, fed, failures>>

\* Nothing to decode, or the decoder queued the chunk.
TickDecodes ==
    /\ Top("tick.decode")
    /\ Resume(<<>>)
    /\ UNCHANGED <<mode, state, destroyed, session, linkVars, fed, failures, pumpVars>>

\* A soft decoder delivers the frame before decode() returns.
TickOutputs ==
    /\ Top("tick.decode")
    /\ fed /\ ~destroyed
    /\ Resume(<<"listener", "frame.draw">>)
    /\ UNCHANGED <<mode, state, destroyed, session, linkVars, fed, failures, pumpVars>>

TickDecodeFails ==
    /\ Top("tick.decode")
    /\ fed /\ ~destroyed
    /\ HandleError(Tail(stack))

TickHealthy ==
    /\ Top("tick.watch")
    /\ Resume(<<>>)
    /\ UNCHANGED <<mode, state, destroyed, session, linkVars, fed, failures, pumpVars>>

\* The watchdog has seen data once: without any it never declares a stall.
TickStalled ==
    /\ Top("tick.watch")
    /\ fed
    /\ Resume(<<"listener">>)
    /\ UNCHANGED <<mode, state, destroyed, session, linkVars, fed, failures, pumpVars>>

TickFatalStall ==
    /\ Top("tick.watch")
    /\ fed
    /\ HandleError(Tail(stack))

TickEnds ==
    /\ Top("tick.return")
    /\ P!TickReturn
    /\ Resume(<<>>)
    /\ UNCHANGED <<mode, state, destroyed, session, linkVars, fed, failures>>

TabSwitch ==
    /\ Quiescent
    /\ P!VisibilityChange
    /\ UNCHANGED <<mode, state, destroyed, session, linkVars, fed, failures, stack>>

Tick ==
    \/ TickBegins
    \/ TickDecodes \/ TickOutputs \/ TickDecodeFails
    \/ TickHealthy \/ TickStalled \/ TickFatalStall
    \/ TickEnds

-----------------------------------------------------------------------------
Next == UserCall \/ ListenerReturns \/ StartPieces \/ StreamEvents \/ Tick \/ TabSwitch

Spec == Init /\ [][Next]_vars

\* Every piece of a task that began runs and listeners return.  An armed timer
\* that is not cleared expires, and the event loop gets to it even though other
\* tasks keep arriving: strong fairness.  Nothing else is owed to the player.
Fairness ==
    /\ WF_vars(ListenerReturns)
    /\ WF_vars(StartPieces)
    /\ WF_vars(Draw)
    /\ WF_vars(TickDecodes) /\ WF_vars(TickHealthy) /\ WF_vars(TickEnds)
    /\ SF_vars(ConnectTimeout)

FairSpec == Spec /\ Fairness

-----------------------------------------------------------------------------
TypeOK ==
    /\ mode \in Modes
    /\ state \in States
    /\ destroyed \in BOOLEAN
    /\ session \in 0..MaxSessions
    /\ transport \in 0..MaxSessions
    /\ timer \in BOOLEAN
    /\ source \in 0..MaxSessions
    /\ phase \in [Sessions -> Phases]
    /\ fed \in BOOLEAN
    /\ failures \in Nat
    /\ stack \in Seq(Continuations)
    /\ P!TypeOK

\* A player whose listeners do not pause it and whose sources do not refuse
\* before their start() returned: both end in states no other player is in.
Ordinary == "pause" \notin mode.calls /\ ~mode.syncError

\* No connection is ever lost track of: between tasks each live transport or
\* source is the one the engine would close, and one that failed, stopped or was
\* destroyed has none, no armed timeout and no running pump, however restarts,
\* listeners and late events interleaved.
NoOrphan ==
    Quiescent =>
        /\ Live \subseteq {transport, source}
        /\ destroyed => state = "stopped"
        /\ state \in {"idle", "error", "stopped"} => Live = {} /\ ~timer /\ ~started

\* A player that says it plays or is paused holds a connection or a source.
ActiveMeansLive ==
    Quiescent /\ state \in {"playing", "paused"} => Live # {}

\* The pump runs exactly while the player connects or plays, except while it
\* waits for the timeout of a connect() that threw: pausing, from between tasks,
\* leaves no pump behind, and playing is never stuck.
PumpMatchesState ==
    Quiescent /\ Ordinary =>
        (started <=> state = "playing" \/ (state = "connecting" /\ ~Refused))

\* A session reports at most one error, whatever races with its teardown.
OneErrorPerSession == Ordinary => failures <= 1

\* No player connects for ever: it opens, fails, or the user takes it elsewhere.
ConnectingEnds == state = "connecting" ~> state # "connecting"

-----------------------------------------------------------------------------
\* The stream behind the player, as its user could observe it.
Link ==
    IF Live = {} THEN "none"
    ELSE IF \E s \in Live : phase[s] = "open" THEN "live" ELSE "opening"

Lifecycle == INSTANCE PlayerLifecycle
    WITH state <- IF Ordinary THEN state ELSE "idle",
         link <- IF Ordinary THEN Link ELSE "none",
         final <- destroyed /\ Ordinary

\* The engine of an ordinary player implements the player's life cycle step by
\* step: every piece of every method, wherever a listener's play() interrupts
\* it, is one of its steps or invisible.
ImplementsLifecycle == Lifecycle!Spec
=============================================================================
