----------------------------- MODULE WsTransport -----------------------------
(***************************************************************************)
(* WebSocketTransport of packages/plugins/ws/src/ws-transport.ts, its        *)
(* sockets and its listener.  Every socket the transport ever opened is      *)
(* known by a number: its own events come whenever the network pleases.      *)
(* Nothing of the transport runs after an event it emits, but for the final  *)
(* 'close': there a listener's call comes in the middle of finalClose().     *)
(* (A constructor that throws to that listener's connect() is left out.)      *)
(***************************************************************************)
EXTENDS Naturals, FiniteSets

CONSTANTS
    AttemptLimits,   \* values of reconnectMaxAttempts; 0 is no limit
    ListenerCalls,   \* methods the listener of the final 'close' may call
    MaxSockets,      \* bound on the sockets opened
    DelayCap         \* reconnectMaxDelayMs, in doublings of reconnectDelayMs

VARIABLES
    reconnect, attemptLimit,   \* WebSocketTransportOptions
    state,       \* WebSocketTransport.state
    socket,      \* WebSocketTransport.socket; 0 for null
    closed,      \* WebSocketTransport.closed
    timer,       \* WebSocketTransport.reconnectTimer is armed
    backoff,     \* its delay, in doublings
    attempts,    \* WebSocketTransport.reconnectAttempts
    phase,       \* readyState of each socket
    \* history
    opened,      \* sockets opened so far
    explicit,    \* close() was called
    finals,      \* 'close' events emitted
    thrown       \* the constructor threw to attemptReconnect()

optionVars == <<reconnect, attemptLimit>>
vars == <<optionVars, state, socket, closed, timer, backoff, attempts, phase, opened,
          explicit, finals, thrown>>

Sockets == 1..MaxSockets
LiveSockets == {s \in Sockets : phase[s] \in {"connecting", "open"}}

Init ==
    /\ reconnect \in BOOLEAN
    /\ attemptLimit \in AttemptLimits
    /\ state = "idle"
    /\ socket = 0
    /\ closed = FALSE
    /\ timer = FALSE
    /\ backoff = 0
    /\ attempts = 0
    /\ phase = [s \in Sockets |-> "none"]
    /\ opened = 0
    /\ explicit = FALSE
    /\ finals = 0
    /\ thrown = FALSE

NewSocket(phases) ==
    /\ opened < MaxSockets
    /\ opened' = opened + 1
    /\ socket' = opened'
    /\ phase' = [phases EXCEPT ![opened'] = "connecting"]

\* connect(); the constructor of the socket may throw, to the caller.
Connect ==
    /\ ~closed /\ socket = 0 /\ state # "reconnecting"
    /\ state' = "connecting"
    /\ NewSocket(phase) \/ UNCHANGED <<opened, socket, phase>>
    /\ UNCHANGED <<optionVars, closed, timer, backoff, attempts, explicit, finals,
                   thrown>>

\* Mutant of Close: the backoff timer goes on and the socket with it.
CloseLeavesTimer ==
    /\ closed' = TRUE
    /\ explicit' = TRUE
    /\ state' = "closed"
    /\ phase' = IF socket \in LiveSockets THEN [phase EXCEPT ![socket] = "closing"] ELSE phase
    /\ UNCHANGED <<optionVars, socket, timer, backoff, attempts, opened, finals, thrown>>

Close ==
    /\ closed' = TRUE
    /\ explicit' = TRUE
    /\ state' = "closed"
    /\ timer' = FALSE
    /\ phase' = IF socket \in LiveSockets THEN [phase EXCEPT ![socket] = "closing"] ELSE phase
    /\ UNCHANGED <<optionVars, socket, backoff, attempts, opened, finals, thrown>>

\* finalClose(), given what became of the sockets.  The listener of its event
\* finds the transport not closed yet.
FinalClose(phases) ==
    /\ finals' = finals + 1
    /\ closed' = TRUE
    /\ \/ /\ "connect" \in ListenerCalls
          /\ state' = "connecting"
          /\ NewSocket(phases)
          /\ UNCHANGED explicit
       \/ /\ state' = "closed"
          /\ socket' = 0
          /\ phase' = phases
          /\ explicit' \in {explicit, "close" \in ListenerCalls}
          /\ UNCHANGED opened
    /\ UNCHANGED <<backoff, attempts>>

SocketOpens(s) ==
    /\ phase[s] = "connecting"
    /\ phase' = [phase EXCEPT ![s] = "open"]
    /\ state' = "open"
    /\ UNCHANGED <<optionVars, socket, closed, timer, backoff, attempts, opened,
                   explicit, finals, thrown>>

\* Mutant of GivesUp: the first connection counts as an attempt.
GivesUpEarly == ~reconnect \/ (attemptLimit > 0 /\ attempts + 1 >= attemptLimit)

GivesUp == ~reconnect \/ (attemptLimit > 0 /\ attempts >= attemptLimit)

\* Its delay doubles with each attempt, up to the cap: backoffDelay().
ScheduleReconnect(phases) ==
    /\ socket' = 0
    /\ backoff' = IF attempts < DelayCap THEN attempts ELSE DelayCap
    /\ attempts' = attempts + 1
    /\ state' = "reconnecting"
    /\ timer' = TRUE
    /\ phase' = phases
    /\ UNCHANGED <<closed, opened, explicit, finals>>

\* onSocketClose().
SocketDropped(phases) ==
    IF closed
    THEN /\ phase' = phases
         /\ UNCHANGED <<state, socket, closed, timer, backoff, attempts, opened,
                        explicit, finals>>
    ELSE IF GivesUp THEN FinalClose(phases) /\ UNCHANGED timer
    ELSE ScheduleReconnect(phases)

SocketCloses(s) ==
    /\ phase[s] \in {"connecting", "open", "closing"}
    /\ SocketDropped([phase EXCEPT ![s] = "closed"])
    /\ UNCHANGED <<optionVars, thrown>>

\* attemptReconnect(): the constructor of the socket may throw, which is final.
TimerFires ==
    /\ timer
    /\ timer' = FALSE
    /\ IF closed
       THEN UNCHANGED <<state, socket, closed, backoff, attempts, phase, opened,
                        explicit, finals, thrown>>
       ELSE \/ /\ NewSocket(phase)
               /\ UNCHANGED <<state, closed, backoff, attempts, explicit, finals, thrown>>
            \/ FinalClose(phase) /\ thrown' = TRUE
    /\ UNCHANGED optionVars

Next ==
    \/ Connect \/ Close
    \/ \E s \in Sockets : SocketOpens(s) \/ SocketCloses(s)
    \/ TimerFires

Spec == Init /\ [][Next]_vars

-----------------------------------------------------------------------------
TypeOK ==
    /\ reconnect \in BOOLEAN /\ attemptLimit \in AttemptLimits
    /\ state \in {"idle", "connecting", "open", "reconnecting", "closed"}
    /\ socket \in 0..MaxSockets
    /\ {closed, timer, explicit, thrown} \subseteq BOOLEAN
    /\ backoff \in 0..DelayCap
    /\ attempts \in 0..MaxSockets
    /\ phase \in [Sockets -> {"none", "connecting", "open", "closing", "closed"}]
    /\ opened \in 0..MaxSockets
    /\ finals \in Nat

\* No socket escapes close(): whatever drops, reconnects and listeners did, the
\* socket that lives is the one it would close, and after an explicit close()
\* none lives, no timer is armed and none ever opens again.
NoStraySocket ==
    /\ LiveSockets \subseteq {socket}
    /\ explicit => LiveSockets = {} /\ ~timer

\* A transport that gives up says so exactly once, and not before it may: it was
\* not to reconnect, the constructor of a socket threw, or it made every attempt
\* of its limit, each with a socket of its own beside the first one.
EndReportedOnce ==
    /\ finals <= 1
    /\ closed /\ ~explicit => finals = 1
    /\ closed => state # "reconnecting"
    /\ finals = 1 /\ reconnect /\ ~thrown =>
           attemptLimit > 0 /\ attempts = attemptLimit /\ opened > attemptLimit

=============================================================================
