----------------------------- MODULE MqttClient -----------------------------
(***************************************************************************)
(* The MQTT client of packages/plugins/mqtt/src/client.ts: the life of one    *)
(* client over one WebSocket, the calls that wait for an acknowledgement, the *)
(* QoS 1 and 2 handshakes of publish() and the keep-alive.                    *)
(*                                                                           *)
(* JavaScript runs one job at a time.  `job' and `frame' hold what the        *)
(* current one still has to do while the listeners of an event run, which may *)
(* call the client back; every other action is a task of its own.             *)
(*                                                                           *)
(* The broker answers what it was sent, each request at most once, in any     *)
(* order and after any delay, until it dies in silence.  The topics, the      *)
(* payloads and the set inboundQos2, written and never read, are left out.    *)
(***************************************************************************)
EXTENDS Integers, Sequences, FiniteSets, FiniteSetsExt

CONSTANTS
    MaxId,        \* the largest packet id, 0xffff
    Kinds,        \* the calls the application makes, see KindSet
    MaxCalls,     \* bound on its calls
    MaxMessages,  \* bound on the PUBLISH packets of the broker
    Listeners     \* what the listeners do inside an event: "close", "call"

\* The acknowledgement a call waits for; publish() with QoS 0 waits for none.
KindSet == {"none", "puback", "pubrec", "suback", "unsuback"}

ASSUME MqttAssumption ==
    /\ MaxId \in Nat \ {0}
    /\ {MaxCalls, MaxMessages} \subseteq Nat
    /\ Kinds \subseteq KindSet
    /\ Listeners \subseteq {"close", "call"}

VARIABLES
    state,          \* MqttClient._state
    socket,         \* readyState of the WebSocket: "none" before it is built,
                    \* "aborting" when it closes without having been open
    attached,       \* MqttClient.socket is not null
    explicitClose,
    connecting,     \* the promise of connect()
    connectTimer, pingTimer,
    pingOutstanding, pingMissed,
    traffic,        \* Date.now() - lastTrafficMs at the next ping tick: less
                    \* than the interval, about the interval, or more
    packetId,       \* packetIdCounter
    pending,        \* MqttClient.pending, with the timer of each waiter
    calls,          \* the promise of each call: "thrown" when the exception of
                    \* a packet builder rejected it and left its waiter behind
    job, frame,
    alive, owed,    \* the broker, and the packets it may still send on this socket
    messages,       \* number of PUBLISH packets it sent
    acked,          \* history: calls the broker acknowledged in full
    reused,         \* history: a packet id was reused with an answer under way
    unanswered,     \* history: PINGREQs sent since the last PINGRESP
    closes,         \* history: `close' events
    reentered       \* history: close() was called inside failConnection()

connectionVars == <<state, socket, attached, explicitClose, connecting,
                    connectTimer, pingTimer>>
pingVars == <<pingOutstanding, pingMissed, unanswered>>
callVars == <<packetId, pending, calls, reused>>
brokerVars == <<alive, owed, messages>>
vars == <<connectionVars, pingVars, traffic, callVars, job, frame, brokerVars,
          acked, closes, reentered>>

Packet(type, id, call) == [type |-> type, id |-> id, call |-> call]

Handshake == {Packet("connack", 0, 0), Packet("refused", 0, 0)}

\* The broker was asked for this packet.
Owing(packet) == IF alive THEN owed \cup {packet} ELSE owed

\* No job is under way: a timer, an event of the socket or the application may
\* run.
Idle == job = "idle" /\ frame = <<>>

\* The application calls the client: in a job of its own, or in a listener.
CallsFrom(what) ==
    \/ Idle
    \/ job \in {"errorEvent", "failing", "message"} /\ what \in Listeners

CanSend == attached /\ socket = "open"

Init ==
    /\ state = "idle"
    /\ socket = "none"
    /\ attached = FALSE
    /\ explicitClose = FALSE
    /\ connecting = "none"
    /\ connectTimer = FALSE
    /\ pingTimer = FALSE
    /\ pingOutstanding = FALSE
    /\ pingMissed = FALSE
    /\ unanswered = 0
    /\ traffic = "old"
    /\ packetId = 0
    /\ pending = <<>>
    /\ calls = <<>>
    /\ reused = FALSE
    /\ job = "idle"
    /\ frame = <<>>
    /\ alive = TRUE
    /\ owed = {}
    /\ messages = 0
    /\ acked = {}
    /\ closes = 0
    /\ reentered = FALSE

-----------------------------------------------------------------------------
(* Closing.                                                                 *)

Waiting(call) == \E id \in DOMAIN pending : pending[id].call = call

\* finishClose().
FinishClose ==
    /\ state' = "closed"
    /\ connectTimer' = FALSE
    /\ pingTimer' = FALSE
    /\ pending' = <<>>
    /\ calls' = [c \in DOMAIN calls |->
                    IF Waiting(c) /\ calls[c] = "waiting" THEN "rejected" ELSE calls[c]]
    /\ closes' = closes + 1

\* The end of close() and of failConnection(): the socket closes, now or later.
ShutDown(connectTimerLeft, pingTimerLeft) ==
    /\ explicitClose' = TRUE
    /\ IF attached /\ socket # "closed"
       THEN /\ socket' = IF socket = "connecting" THEN "aborting" ELSE "closing"
            /\ state' = "closing"
            /\ connectTimer' = connectTimerLeft
            /\ pingTimer' = pingTimerLeft
            /\ UNCHANGED <<pending, calls, closes>>
       ELSE FinishClose /\ UNCHANGED socket
    /\ UNCHANGED <<attached, connecting, packetId, reused>>

\* settle(error) of connect(): the socket is let go of, not closed.
SettleRejects ==
    /\ connecting' = "rejected"
    /\ connectTimer' = FALSE
    /\ state' = "closed"
    /\ attached' = FALSE
    /\ UNCHANGED <<socket, explicitClose, pingTimer>>

\* Mutant of SettleResolves: no keep-alive.
SettleWithoutPing ==
    /\ connecting' = "resolved"
    /\ connectTimer' = FALSE
    /\ state' = "connected"
    /\ UNCHANGED <<socket, attached, explicitClose, pingTimer>>

\* settle(null).
SettleResolves ==
    /\ connecting' = "resolved"
    /\ connectTimer' = FALSE
    /\ state' = "connected"
    /\ pingTimer' = TRUE
    /\ UNCHANGED <<socket, attached, explicitClose>>

-----------------------------------------------------------------------------
(* The application.                                                          *)

\* connect(); the constructor of the WebSocket may throw.
Connect ==
    /\ Idle
    /\ state = "idle"
    /\ \/ /\ state' = "connecting"
          /\ connecting' = "pending"
          /\ socket' = "connecting"
          /\ attached' = TRUE
          /\ connectTimer' = TRUE
          /\ UNCHANGED <<explicitClose, pingTimer>>
       \/ SettleRejects
    /\ UNCHANGED <<pingVars, traffic, callVars, job, frame, brokerVars, acked,
                   closes, reentered>>

\* close() and end().
Close ==
    /\ CallsFrom("close")
    /\ state \notin {"closed", "closing"}
    /\ ShutDown(FALSE, FALSE)
    /\ reentered' = (reentered \/ job = "failing")
    /\ UNCHANGED <<pingVars, traffic, job, frame, brokerVars, acked>>

\* nextPacketId(): the first id after packetIdCounter that is not pending.
Successor(k) == ((packetId + k - 1) % MaxId) + 1

FreeSteps == {k \in 1..MaxId : Successor(k) \notin DOMAIN pending}

\* Mutant of NextPacketId: ids that are pending are not skipped.
NextPacketIdBlind == Successor(1)

NextPacketId == Successor(Min(FreeSteps))

\* An answer to this packet id is under way.
UnderWay(id) == (\E p \in owed : p.id = id) \/ \E i \in DOMAIN frame : frame[i].id = id

WithWaiter(id, kind, call) ==
    [i \in DOMAIN pending \cup {id} |->
        IF i = id THEN [kind |-> kind, call |-> call] ELSE pending[i]]

\* The waiter of a call, and the packet the broker will answer it with.
Send(kind, call) ==
    LET id == NextPacketId
    IN  /\ packetId' = id
        /\ IF CanSend
           THEN /\ pending' = WithWaiter(id, kind, call)
                /\ calls' = Append(calls, "waiting")
                /\ owed' = Owing(Packet(kind, id, call))
                /\ reused' = (reused \/ UnderWay(id))
                /\ traffic' = "recent"
           ELSE /\ calls' = Append(calls, "rejected")
                /\ UNCHANGED <<pending, owed, reused, traffic>>

\* The packet cannot be built, the topic or the list being empty: the exception
\* rejects the promise, and the waiter is left with its id and its timer.
BuildThrows(kind, call) ==
    LET id == NextPacketId
    IN  /\ packetId' = id
        /\ pending' = WithWaiter(id, kind, call)
        /\ calls' = Append(calls, "thrown")
        /\ reused' = (reused \/ UnderWay(id))
        /\ UNCHANGED <<owed, traffic>>

\* publish() with QoS 0: it fails over a socket that is not open, and with a
\* packet that cannot be built.
SendUnacknowledged ==
    /\ \/ CanSend /\ calls' = Append(calls, "resolved") /\ traffic' = "recent"
       \/ calls' = Append(calls, "rejected") /\ UNCHANGED traffic
    /\ UNCHANGED <<packetId, pending, owed, reused>>

\* publish(), subscribe() and unsubscribe(); unless the client is connected they
\* throw and change nothing.
Call(kind) ==
    /\ CallsFrom("call")
    /\ state = "connected"
    /\ Len(calls) < MaxCalls
    /\ \/ /\ kind = "none"
          /\ SendUnacknowledged
          /\ acked' = acked \cup {Len(calls) + 1}
       \/ /\ kind # "none"
          /\ FreeSteps = {}
          /\ calls' = Append(calls, "rejected")
          /\ UNCHANGED <<packetId, pending, owed, reused, traffic, acked>>
       \/ /\ kind # "none"
          /\ FreeSteps # {}
          /\ Send(kind, Len(calls) + 1) \/ BuildThrows(kind, Len(calls) + 1)
          /\ UNCHANGED acked
    /\ UNCHANGED <<connectionVars, pingVars, job, frame, alive, messages, closes,
                   reentered>>

-----------------------------------------------------------------------------
(* Events of the socket.                                                     *)

\* onopen: CONNECT is sent, unless connect() has given up.
SocketOpens ==
    /\ Idle
    /\ socket = "connecting"
    /\ socket' = "open"
    /\ owed' = IF attached /\ alive THEN Handshake ELSE owed
    /\ traffic' = IF attached THEN "recent" ELSE traffic
    /\ UNCHANGED <<state, attached, explicitClose, connecting, connectTimer,
                   pingTimer, pingVars, callVars, job, frame, alive, messages,
                   acked, closes, reentered>>

\* The peer starts to close the connection.
PeerCloses ==
    /\ Idle
    /\ alive
    /\ socket = "open"
    /\ socket' = "closing"
    /\ UNCHANGED <<state, attached, explicitClose, connecting, connectTimer,
                   pingTimer, pingVars, traffic, callVars, job, frame, brokerVars,
                   acked, closes, reentered>>

\* The connection is gone: the browser fires `error', when it failed, and
\* `close'.
SocketEnds ==
    /\ Idle
    /\ socket \in {"connecting", "open", "aborting", "closing"}
    /\ socket' = "closed"
    /\ job' \in IF socket \in {"connecting", "aborting"} THEN {"errorEvent"} ELSE {"errorEvent", "closeEvent"}
    /\ owed' = {}
    /\ UNCHANGED <<state, attached, explicitClose, connecting, connectTimer,
                   pingTimer, pingVars, traffic, callVars, frame, alive, messages,
                   acked, closes, reentered>>

\* onerror: its listeners returned, and connect() fails if it is still pending.
ErrorEventReturns ==
    /\ job = "errorEvent"
    /\ job' = "closeEvent"
    /\ IF connecting = "pending" THEN SettleRejects ELSE UNCHANGED connectionVars
    /\ UNCHANGED <<pingVars, traffic, callVars, frame, brokerVars, acked, closes,
                   reentered>>

\* Mutant of CloseEvent: a client that is closed already is closed again.
CloseEventAgain ==
    /\ job = "closeEvent"
    /\ state # "connecting"
    /\ FinishClose
    /\ job' = "idle"
    /\ UNCHANGED <<socket, attached, explicitClose, connecting, pingVars, traffic,
                   packetId, reused, frame, brokerVars, acked, reentered>>

\* onSocketClose().
CloseEvent ==
    /\ job = "closeEvent"
    /\ \/ /\ state = "closed"
          /\ job' = "idle"
          /\ UNCHANGED <<connectionVars, pending, calls, closes>>
       \/ /\ state = "connecting"
          /\ SettleRejects
          /\ job' = "idle"
          /\ UNCHANGED <<pending, calls, closes>>
       \/ /\ state \notin {"closed", "connecting"}
          /\ ~explicitClose
          /\ job' = "failing"
          /\ UNCHANGED <<connectionVars, pending, calls, closes>>
       \/ /\ state \notin {"closed", "connecting"}
          /\ explicitClose
          /\ FinishClose
          /\ job' = "idle"
          /\ UNCHANGED <<socket, attached, explicitClose, connecting>>
    /\ UNCHANGED <<pingVars, traffic, packetId, reused, frame, brokerVars, acked,
                   reentered>>

\* failConnection(): its `error' listeners returned.
FailConnection ==
    /\ job = "failing"
    /\ job' = "idle"
    /\ ShutDown(connectTimer, pingTimer)
    /\ UNCHANGED <<pingVars, traffic, frame, brokerVars, acked, reentered>>

-----------------------------------------------------------------------------
(* Timers.                                                                   *)

ConnectTimeout ==
    /\ Idle
    /\ connectTimer
    /\ SettleRejects
    /\ UNCHANGED <<pingVars, traffic, callVars, job, frame, brokerVars, acked,
                   closes, reentered>>

\* settleWaiter() with an outcome; a promise that is rejected already stays so.
SettleWaiter(id, outcome) ==
    /\ pending' = [i \in DOMAIN pending \ {id} |-> pending[i]]
    /\ calls' = [calls EXCEPT ![pending[id].call] = IF @ = "waiting" THEN outcome ELSE @]

AckTimeout(id) ==
    /\ Idle
    /\ id \in DOMAIN pending
    /\ SettleWaiter(id, "rejected")
    /\ UNCHANGED <<connectionVars, pingVars, traffic, packetId, reused, job,
                   frame, brokerVars, acked, closes, reentered>>

\* onPingTick() sends a PINGREQ, or sends it again.
SendPing ==
    /\ ~(pingOutstanding /\ pingMissed)
    /\ pingOutstanding' = TRUE
    /\ pingMissed' = (pingMissed \/ pingOutstanding)
    /\ IF CanSend
       THEN /\ unanswered' = unanswered + 1
            /\ owed' = Owing(Packet("pingresp", 0, 0))
            /\ traffic' = "tick"
       ELSE /\ traffic' = "old"
            /\ UNCHANGED <<unanswered, owed>>
    /\ UNCHANGED job

PingMissed ==
    /\ pingOutstanding /\ pingMissed
    /\ job' = "failing"
    /\ UNCHANGED <<pingVars, owed, traffic>>

\* onPingTick(): the interval fires; what is as old as the interval may be seen
\* on either side of it.
PingTick ==
    /\ Idle
    /\ pingTimer
    /\ state = "connected"
    /\ \/ /\ traffic \in {"recent", "tick"}
          /\ traffic' = IF traffic = "recent" THEN "tick" ELSE "old"
          /\ UNCHANGED <<pingVars, owed, job>>
       \/ /\ traffic \in {"tick", "old"}
          /\ SendPing \/ PingMissed
    /\ UNCHANGED <<connectionVars, callVars, frame, alive, messages, acked,
                   closes, reentered>>

-----------------------------------------------------------------------------
(* Packets of the broker.                                                    *)

BrokerDies ==
    /\ Idle
    /\ alive
    /\ alive' = FALSE
    /\ owed' = {}
    /\ UNCHANGED <<connectionVars, pingVars, traffic, callVars, job, frame, messages,
                   acked, closes, reentered>>

\* What the broker still owes once it sent some packets; it accepts a connection
\* or refuses it.
Answered(packets) == (owed \ packets) \ (IF packets \cap Handshake # {} THEN Handshake ELSE {})

Message == Packet("publish", 0, 0)

\* onSocketData(): the broker sends a frame of one packet, or of two.
Deliver(packets) ==
    /\ Idle
    /\ alive
    /\ socket = "open"
    /\ \A i, j \in DOMAIN packets :
          packets[i] = packets[j] => i = j \/ packets[i] = Message
    /\ Cardinality({i \in DOMAIN packets : packets[i] \in Handshake}) <= 1
    /\ messages' = messages + Cardinality({i \in DOMAIN packets : packets[i] = Message})
    /\ messages' <= MaxMessages
    /\ owed' = Answered({packets[i] : i \in DOMAIN packets})
    /\ frame' = packets
    /\ traffic' = "recent"
    /\ UNCHANGED <<connectionVars, pingVars, callVars, job, alive, acked, closes,
                   reentered>>

\* handlePacket() handles the next packet of the frame.
Handling(type) ==
    /\ job = "idle"
    /\ frame # <<>>
    /\ Head(frame).type = type
    /\ frame' = Tail(frame)

\* CONNACK; it starts the keep-alive.
ConnAck ==
    /\ \/ Handling("connack") /\ IF state = "connecting" THEN SettleResolves ELSE UNCHANGED connectionVars
       \/ Handling("refused") /\ IF state = "connecting" THEN SettleRejects ELSE UNCHANGED connectionVars
    /\ UNCHANGED <<pingVars, traffic, callVars, job, brokerVars, acked, closes,
                   reentered>>

\* PUBLISH: the `message' listeners run, and may call the client, before the
\* acknowledgement is sent.
Publish ==
    /\ Handling("publish")
    /\ job' = "message"
    /\ UNCHANGED <<connectionVars, pingVars, traffic, callVars, brokerVars, acked,
                   closes, reentered>>

MessageReturns ==
    /\ job = "message"
    /\ job' = "idle"
    /\ UNCHANGED <<connectionVars, pingVars, traffic, callVars, frame, brokerVars,
                   acked, closes, reentered>>

\* Mutant of PingResp: the missed PINGREQ is remembered.
PingRespHalf ==
    /\ Handling("pingresp")
    /\ pingOutstanding' = FALSE
    /\ unanswered' = 0
    /\ UNCHANGED <<pingMissed, connectionVars, traffic, callVars, job, brokerVars,
                   acked, closes, reentered>>

PingResp ==
    /\ Handling("pingresp")
    /\ pingOutstanding' = FALSE
    /\ pingMissed' = FALSE
    /\ unanswered' = 0
    /\ UNCHANGED <<connectionVars, traffic, callVars, job, brokerVars, acked,
                   closes, reentered>>

\* Mutant of Release: the publish is resolved.
ReleaseResolves(id) ==
    /\ SettleWaiter(id, "resolved")
    /\ owed' = IF CanSend THEN Owing(Packet("pubcomp", id, pending[id].call)) ELSE owed

\* resolveAck() of the first acknowledgement of a QoS 2 publish: PUBREL is sent
\* and the waiter, with its timer, waits for PUBCOMP.
Release(id) ==
    /\ pending' = [pending EXCEPT ![id] = [kind |-> "pubcomp", call |-> pending[id].call]]
    /\ owed' = IF CanSend THEN Owing(Packet("pubcomp", id, pending[id].call)) ELSE owed
    /\ UNCHANGED calls

\* PUBACK, PUBREC, PUBCOMP, SUBACK, UNSUBACK.
Ack(type) ==
    /\ Handling(type)
    /\ LET id == Head(frame).id
           waiter == pending[id]
       IN  \/ /\ id \notin DOMAIN pending
              /\ UNCHANGED <<pending, calls, owed>>
           \/ /\ id \in DOMAIN pending
              /\ waiter.kind = type
              /\ type = "pubrec"
              /\ Release(id)
           \/ /\ id \in DOMAIN pending
              /\ waiter.kind = type
              /\ type # "pubrec"
              /\ SettleWaiter(id, "resolved")
              /\ UNCHANGED owed
           \/ /\ id \in DOMAIN pending
              /\ waiter.kind # type
              /\ IF type \in {"suback", "unsuback"} THEN UNCHANGED <<pending, calls>>
                 ELSE SettleWaiter(id, "rejected")
              /\ UNCHANGED owed
    /\ acked' = IF type = "pubrec" THEN acked ELSE acked \cup {Head(frame).call}
    /\ UNCHANGED <<connectionVars, pingVars, traffic, packetId, reused, job,
                   alive, messages, closes, reentered>>

-----------------------------------------------------------------------------
AckTypes == {"puback", "pubrec", "pubcomp", "suback", "unsuback"}

Frames ==
    LET packets == owed \cup {Message}
    IN  {<<p>> : p \in packets} \cup (packets \X packets)

Application ==
    \/ Connect
    \/ Close
    \/ \E kind \in Kinds : Call(kind)

Socket ==
    \/ SocketOpens
    \/ PeerCloses
    \/ SocketEnds

Timers ==
    \/ ConnectTimeout
    \/ \E id \in 1..MaxId : AckTimeout(id)
    \/ PingTick

\* What the current job does next.
Continue ==
    \/ ErrorEventReturns
    \/ CloseEvent
    \/ FailConnection
    \/ ConnAck
    \/ Publish
    \/ MessageReturns
    \/ PingResp
    \/ \E type \in AckTypes : Ack(type)

Broker ==
    \/ BrokerDies
    \/ \E packets \in Frames : Deliver(packets)

Next == Application \/ Socket \/ Timers \/ Continue \/ Broker

Spec == Init /\ [][Next]_vars

\* A job that runs goes on, a timer that is due fires, and a socket that is
\* closing ends up closed.
Fairness ==
    /\ WF_vars(Continue)
    /\ WF_vars(ConnectTimeout)
    /\ WF_vars(PingTick)
    /\ WF_vars(socket \in {"aborting", "closing"} /\ SocketEnds)

FairSpec == Spec /\ Fairness

-----------------------------------------------------------------------------
TypeOK ==
    /\ state \in {"idle", "connecting", "connected", "closing", "closed"}
    /\ socket \in {"none", "connecting", "open", "aborting", "closing", "closed"}
    /\ {attached, explicitClose, connectTimer, pingTimer, pingOutstanding,
        pingMissed, reused, alive, reentered} \subseteq BOOLEAN
    /\ connecting \in {"none", "pending", "resolved", "rejected"}
    /\ traffic \in {"old", "tick", "recent"}
    /\ packetId \in 0..MaxId
    /\ DOMAIN pending \subseteq 1..MaxId
    /\ \A id \in DOMAIN pending :
          pending[id] \in [kind : AckTypes, call : DOMAIN calls]
    /\ calls \in Seq({"waiting", "resolved", "rejected", "thrown"}) /\ Len(calls) <= MaxCalls
    /\ job \in {"idle", "errorEvent", "closeEvent", "failing", "message"}
    /\ frame \in Seq([type : AckTypes \cup {"connack", "refused", "publish", "pingresp"},
                      id : 0..MaxId, call : 0..MaxCalls])
    /\ acked \subseteq 1..MaxCalls
    /\ unanswered \in 0..2
    /\ closes \in 0..2

\* A call is resolved only when the broker acknowledged that very call, in full
\* for QoS 2, as long as no packet id is reused with an answer under way.
ResolvedMeansAcked ==
    ~reused => \A c \in DOMAIN calls : calls[c] = "resolved" => c \in acked

\* "A PINGREQ was outstanding for two full intervals with no reply": on an open
\* socket the keep-alive gives up only after two PINGREQs went unanswered.
GivesUpOnSilence ==
    [][job = "idle" /\ job' = "failing" /\ socket = "open" => unanswered = 2]_vars

\* The end of a connection that was established is reported once; twice only if
\* an `error' listener of the failing connection called close().
CloseReportedOnce ==
    connecting = "resolved" /\ state = "closed" =>
        closes = 1 \/ (reentered /\ closes = 2)

\* A call whose promise is pending has a waiter, whose timer rejects it at last:
\* packet ids that come round again, two-phase handshakes and the ways a
\* connection ends forget none.  A waiter of a settled call is one that a packet
\* builder's exception left behind.
NoCallForgotten ==
    \A c \in DOMAIN calls : calls[c] = "waiting" <=> Waiting(c) /\ calls[c] # "thrown"

\* Once the application stops sending, a broker that died in silence is noticed.
DeadPeerNoticed == (state = "connected" /\ ~alive) ~> state # "connected"

\* connect() resolves, or rejects with a failure or a timeout.
ConnectSettles == (connecting = "pending") ~> (connecting # "pending")
=============================================================================
