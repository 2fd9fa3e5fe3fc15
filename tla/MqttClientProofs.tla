-------------------------- MODULE MqttClientProofs --------------------------
(***************************************************************************)
(* No call is forgotten by the MQTT client, and the end of its connection is *)
(* reported once, for every number of packet ids, calls and messages and     *)
(* whatever its listeners do.  A call is resolved by its own acknowledgement  *)
(* as long as no packet id is reused with an answer on its way, and the       *)
(* keep-alive gives up only when two PINGREQs went unanswered.                *)
(*                                                                         *)
(* Every waiter waits for a call of its own (OneWaiter), and while no id is  *)
(* reused too early, a packet on its way with the id of a waiter answers it  *)
(* (Matched).  Until CONNACK nothing is reported (Before), from then on the  *)
(* client keeps its socket until it has handled its end (Established).  The  *)
(* flags of the keep-alive count the unanswered PINGREQs (Counted).          *)
(***************************************************************************)
EXTENDS MqttClient, TLAPS, WellFoundedInduction

Outcomes == {"waiting", "resolved", "rejected", "thrown"}

Waiters == [kind : AckTypes, call : Nat]

CallTypes ==
    /\ packetId \in 0..MaxId
    /\ calls \in Seq(Outcomes)
    /\ pending \in [DOMAIN pending -> Waiters]
    /\ DOMAIN pending \subseteq 1..MaxId
    /\ \A id \in DOMAIN pending : pending[id].call \in DOMAIN calls

\* No two waiters wait for the same call.
OneWaiter ==
    \A i, j \in DOMAIN pending : pending[i].call = pending[j].call => i = j

CallsInv == CallTypes /\ OneWaiter /\ NoCallForgotten

callState == <<packetId, pending, calls>>

\* A step that changes none of these keeps the invariant.
LEMMA UntouchedCalls == CallsInv /\ UNCHANGED callState => CallsInv'
BY DEF CallsInv, callState, CallTypes, OneWaiter, NoCallForgotten, Waiting

\* settleWaiter() takes the one waiter of the call away.
LEMMA SettleKeeps ==
    ASSUME CallsInv, NEW id \in DOMAIN pending, NEW outcome \in {"resolved", "rejected"},
           SettleWaiter(id, outcome), packetId' = packetId
    PROVE  CallsInv'
<1>1. /\ pending' = [i \in DOMAIN pending \ {id} |-> pending[i]]
      /\ calls' = [calls EXCEPT ![pending[id].call] =
                      IF @ = "waiting" THEN outcome ELSE @]
  BY DEF SettleWaiter
<1>2. /\ DOMAIN calls' = DOMAIN calls
      /\ calls' \in Seq(Outcomes)
      /\ Len(calls') = Len(calls)
  BY <1>1 DEF CallsInv, CallTypes, Outcomes
<1>3. DOMAIN pending' = DOMAIN pending \ {id}
  BY <1>1
<1>4. CallTypes'
  BY <1>1, <1>2, <1>3 DEF CallsInv, CallTypes
<1>5. OneWaiter'
  BY <1>1, <1>3 DEF CallsInv, OneWaiter
<1>6. NoCallForgotten'
  BY <1>1, <1>2, <1>3 DEF CallsInv, CallTypes, OneWaiter, NoCallForgotten, Waiting, Outcomes
<1> QED
  BY <1>4, <1>5, <1>6 DEF CallsInv

\* finishClose() rejects every call that waits, and forgets the waiters.
LEMMA FinishKeeps ==
    ASSUME CallsInv, FinishClose, packetId' = packetId
    PROVE  CallsInv'
<1>1. /\ pending' = <<>>
      /\ calls' = [c \in DOMAIN calls |->
                      IF Waiting(c) /\ calls[c] = "waiting" THEN "rejected" ELSE calls[c]]
  BY DEF FinishClose
<1>2. DOMAIN pending' = {} /\ pending' \in [{} -> Waiters]
  BY <1>1
<1>3. calls' \in Seq(Outcomes) /\ DOMAIN calls' = DOMAIN calls
  BY <1>1 DEF CallsInv, CallTypes, Outcomes
<1>4. CallTypes' /\ OneWaiter'
  BY <1>2, <1>3 DEF CallsInv, CallTypes, OneWaiter
<1>5. NoCallForgotten'
  BY <1>1, <1>2, <1>3 DEF CallsInv, NoCallForgotten, Waiting
<1> QED
  BY <1>4, <1>5 DEF CallsInv

\* The first PUBREC changes what a waiter waits for, not for which call.
LEMMA ReleaseKeeps ==
    ASSUME CallsInv, NEW id \in DOMAIN pending, Release(id), packetId' = packetId
    PROVE  CallsInv'
<1>1. /\ pending' = [pending EXCEPT ![id] = [kind |-> "pubcomp", call |-> pending[id].call]]
      /\ calls' = calls
  BY DEF Release
<1>2. /\ DOMAIN pending' = DOMAIN pending
      /\ pending' \in [DOMAIN pending -> Waiters]
      /\ \A i \in DOMAIN pending : pending'[i].call = pending[i].call
  BY <1>1 DEF CallsInv, CallTypes, Waiters, AckTypes
<1> QED
  BY <1>1, <1>2 DEF CallsInv, CallTypes, OneWaiter, NoCallForgotten, Waiting

\* A non-empty set of numbers has a least one, which Min chooses.
LEMMA MinIsMember ==
    ASSUME NEW S, S \subseteq Nat, S # {}
    PROVE  Min(S) \in S
<1>1. PICK x \in S : \A y \in S : <<y, x>> \notin OpToRel(<, Nat)
  BY NatLessThanWellFounded, WFMin, Zenon
<1>2. \A y \in S : ~(y < x)
  BY <1>1, Zenon DEF OpToRel
<1>3. \A y \in S : x <= y
  BY <1>2
<1> QED
  BY <1>3, Zenon DEF Min

\* nextPacketId() finds an id that is in range and not in use.
LEMMA NextIdIsFree ==
    ASSUME CallTypes, FreeSteps # {}
    PROVE  NextPacketId \in 1..MaxId /\ NextPacketId \notin DOMAIN pending
<1>1. MaxId \in Nat \ {0}
  BY MqttAssumption DEF MqttAssumption
<1>2. FreeSteps \subseteq Nat
  BY <1>1 DEF FreeSteps
<1>3. Min(FreeSteps) \in FreeSteps
  BY <1>2, MinIsMember
<1>4. Min(FreeSteps) \in 1..MaxId /\ NextPacketId \notin DOMAIN pending
  BY <1>3 DEF FreeSteps, NextPacketId
<1>5. ASSUME NEW k \in 1..MaxId PROVE Successor(k) \in 1..MaxId
  <2>1. packetId + k - 1 \in Nat
    BY <1>1 DEF CallTypes
  <2>2. (packetId + k - 1) % MaxId \in 0..(MaxId - 1)
    BY <1>1, <2>1
  <2> QED
    BY <1>1, <2>2 DEF Successor
<1> QED
  BY <1>4, <1>5 DEF NextPacketId

\* A call that gets a waiter, under an id of its own: it waits, or an exception
\* rejected it.
LEMMA WaiterKeeps ==
    ASSUME CallsInv, NEW id \in 1..MaxId, id \notin DOMAIN pending, NEW kind \in AckTypes,
           NEW outcome \in {"waiting", "thrown"}, packetId' = id,
           pending' = WithWaiter(id, kind, Len(calls) + 1),
           calls' = Append(calls, outcome)
    PROVE  CallsInv'
<1> DEFINE call == Len(calls) + 1
<1>1. calls \in Seq(Outcomes) /\ call \in Nat /\ call \notin DOMAIN calls
  BY DEF CallsInv, CallTypes
<1>2. pending' = [i \in DOMAIN pending \cup {id} |->
                     IF i = id THEN [kind |-> kind, call |-> call] ELSE pending[i]]
  BY DEF WithWaiter
<1>3. /\ calls' \in Seq(Outcomes)
      /\ DOMAIN calls' = DOMAIN calls \cup {call}
      /\ calls'[call] = outcome
      /\ \A c \in DOMAIN calls : calls'[c] = calls[c]
  BY <1>1 DEF Outcomes
<1> HIDE DEF call
<1>4. /\ DOMAIN pending' = DOMAIN pending \cup {id}
      /\ pending'[id] = [kind |-> kind, call |-> call]
      /\ \A i \in DOMAIN pending : pending'[i] = pending[i]
  BY <1>2
<1>5. [kind |-> kind, call |-> call] \in Waiters
  BY <1>1 DEF Waiters
<1>6. pending' \in [DOMAIN pending' -> Waiters]
  BY <1>2, <1>4, <1>5 DEF CallsInv, CallTypes
<1>7. CallTypes'
  <2>1. \A i \in DOMAIN pending' : pending'[i].call \in DOMAIN calls'
    BY <1>3, <1>4 DEF CallsInv, CallTypes
  <2>2. packetId' \in 0..MaxId /\ DOMAIN pending' \subseteq 1..MaxId
    BY <1>4 DEF CallsInv, CallTypes
  <2> QED
    BY <1>3, <1>6, <2>1, <2>2 DEF CallTypes
<1>8. OneWaiter'
  BY <1>1, <1>4 DEF CallsInv, CallTypes, OneWaiter
<1>9. NoCallForgotten'
  <2>1. \E i \in DOMAIN pending' : pending'[i].call = call
    BY <1>4
  <2>2. ASSUME NEW c \in DOMAIN calls
        PROVE  (\E i \in DOMAIN pending' : pending'[i].call = c) <=> Waiting(c)
    BY <1>1, <1>4, <2>2 DEF Waiting
  <2>3. \A c \in DOMAIN calls' : calls'[c] = "waiting" <=>
            (\E i \in DOMAIN pending' : pending'[i].call = c) /\ calls'[c] # "thrown"
    BY <1>3, <2>1, <2>2 DEF CallsInv, NoCallForgotten
  <2> QED
    BY <2>3 DEF NoCallForgotten, Waiting
<1> QED
  BY <1>7, <1>8, <1>9 DEF CallsInv

\* A call whose packet is built: it is sent, or the socket is not open.
LEMMA SendKeeps ==
    ASSUME CallsInv, FreeSteps # {}, NEW kind \in AckTypes, Send(kind, Len(calls) + 1)
    PROVE  CallsInv'
<1> DEFINE id == NextPacketId
           call == Len(calls) + 1
<1>1. id \in 1..MaxId /\ id \notin DOMAIN pending
  BY NextIdIsFree DEF CallsInv
<1>2. packetId' = id
  BY DEF Send
<1>3. CASE CanSend
  <2>1. pending' = WithWaiter(id, kind, call) /\ calls' = Append(calls, "waiting")
    BY <1>3 DEF Send
  <2> QED
    BY <1>1, <1>2, <2>1, WaiterKeeps
<1>4. CASE ~CanSend
  <2>1. pending' = pending /\ calls' = Append(calls, "rejected")
    BY <1>4 DEF Send
  <2>2. calls \in Seq(Outcomes) /\ call \notin DOMAIN calls
    BY DEF CallsInv, CallTypes
  <2> HIDE DEF id
  <2>3. /\ calls' \in Seq(Outcomes)
        /\ DOMAIN calls' = DOMAIN calls \cup {call}
        /\ calls'[call] = "rejected"
        /\ \A c \in DOMAIN calls : calls'[c] = calls[c]
    BY <2>1, <2>2 DEF Outcomes
  <2> HIDE DEF call
  <2> QED
    BY <1>1, <1>2, <2>1, <2>2, <2>3
       DEF CallsInv, CallTypes, OneWaiter, NoCallForgotten, Waiting
<1> QED
  BY <1>3, <1>4

\* A packet that cannot be built leaves the waiter of a call that is rejected.
LEMMA BuildThrowsKeeps ==
    ASSUME CallsInv, FreeSteps # {}, NEW kind \in AckTypes,
           BuildThrows(kind, Len(calls) + 1)
    PROVE  CallsInv'
<1> DEFINE id == NextPacketId
<1>1. id \in 1..MaxId /\ id \notin DOMAIN pending
  BY NextIdIsFree DEF CallsInv
<1>2. /\ packetId' = id
      /\ pending' = WithWaiter(id, kind, Len(calls) + 1)
      /\ calls' = Append(calls, "thrown")
  BY DEF BuildThrows
<1> QED
  BY <1>1, <1>2, WaiterKeeps

\* ShutDown(), the end of close() and of failConnection(), leaves the calls to
\* the event of the socket or finishes.
LEMMA ShutDownKeeps ==
    ASSUME CallsInv, NEW connectTimerLeft, NEW pingTimerLeft,
           ShutDown(connectTimerLeft, pingTimerLeft)
    PROVE  CallsInv'
<1>1. packetId' = packetId
  BY DEF ShutDown
<1>2. CASE attached /\ socket # "closed"
  BY <1>1, <1>2, UntouchedCalls DEF ShutDown, callState
<1>3. CASE ~(attached /\ socket # "closed")
  BY <1>1, <1>3, FinishKeeps DEF ShutDown
<1> QED
  BY <1>2, <1>3

\* A call that is settled at once, as those with no packet id are.
LEMMA SettledAtOnce ==
    ASSUME CallsInv, NEW outcome \in {"resolved", "rejected"},
           calls' = Append(calls, outcome), UNCHANGED <<packetId, pending>>
    PROVE  CallsInv'
<1> DEFINE call == Len(calls) + 1
<1>1. calls \in Seq(Outcomes) /\ call \notin DOMAIN calls
  BY DEF CallsInv, CallTypes
<1>2. /\ calls' \in Seq(Outcomes)
      /\ DOMAIN calls' = DOMAIN calls \cup {call}
      /\ calls'[call] = outcome
      /\ \A c \in DOMAIN calls : calls'[c] = calls[c]
  BY <1>1 DEF Outcomes
<1> HIDE DEF call
<1> QED
  BY <1>1, <1>2 DEF CallsInv, CallTypes, OneWaiter, NoCallForgotten, Waiting

\* publish(), subscribe() and unsubscribe().
LEMMA CallKeeps ==
    ASSUME CallsInv, NEW kind \in Kinds, Call(kind)
    PROVE  CallsInv'
<1>1. CASE SendUnacknowledged
  <2>1. /\ UNCHANGED <<packetId, pending>>
        /\ \E outcome \in {"resolved", "rejected"} : calls' = Append(calls, outcome)
    BY <1>1 DEF SendUnacknowledged
  <2> QED
    BY <2>1, SettledAtOnce
<1>2. CASE calls' = Append(calls, "rejected") /\ UNCHANGED <<packetId, pending>>
  BY <1>2, SettledAtOnce
<1>3. CASE /\ kind # "none" /\ FreeSteps # {}
           /\ Send(kind, Len(calls) + 1) \/ BuildThrows(kind, Len(calls) + 1)
  <2>1. kind \in AckTypes
    BY <1>3, MqttAssumption DEF MqttAssumption, KindSet, AckTypes
  <2> QED
    BY <1>3, <2>1, SendKeeps, BuildThrowsKeeps
<1> QED
  BY <1>1, <1>2, <1>3 DEF Call

\* resolveAck(): nothing, the second phase of QoS 2, or the end of the call.
LEMMA AckKeeps ==
    ASSUME CallsInv, NEW type, Ack(type)
    PROVE  CallsInv'
<1> DEFINE id == Head(frame).id
<1>1. packetId' = packetId
  BY DEF Ack
<1>2. CASE UNCHANGED <<pending, calls>>
  BY <1>1, <1>2, UntouchedCalls DEF callState
<1>3. CASE id \in DOMAIN pending /\ Release(id)
  BY <1>1, <1>3, ReleaseKeeps
<1>4. CASE id \in DOMAIN pending /\ SettleWaiter(id, "resolved")
  BY <1>1, <1>4, SettleKeeps
<1>5. CASE id \in DOMAIN pending /\ SettleWaiter(id, "rejected")
  BY <1>1, <1>5, SettleKeeps
<1> QED
  BY <1>2, <1>3, <1>4, <1>5 DEF Ack

\* The steps that settle no call.
LEMMA OtherSteps ==
    ASSUME CallsInv,
           \/ Connect \/ SocketOpens \/ PeerCloses \/ SocketEnds
           \/ ConnectTimeout \/ PingTick \/ ErrorEventReturns \/ ConnAck
           \/ Publish \/ MessageReturns \/ PingResp \/ BrokerDies
           \/ \E packets \in Frames : Deliver(packets)
    PROVE  CallsInv'
<1>1. UNCHANGED callState
  BY DEF Connect, SocketOpens, PeerCloses, SocketEnds, ConnectTimeout, PingTick,
         ErrorEventReturns, ConnAck, Publish, MessageReturns, PingResp, BrokerDies,
         Deliver, callVars, callState
<1> QED
  BY <1>1, UntouchedCalls

\* onSocketClose() leaves the calls alone or finishes.
LEMMA CloseEventKeeps == CallsInv /\ CloseEvent => CallsInv'
<1> SUFFICES ASSUME CallsInv, CloseEvent PROVE CallsInv'
  OBVIOUS
<1>1. packetId' = packetId
  BY DEF CloseEvent
<1>2. CASE UNCHANGED <<pending, calls>>
  BY <1>1, <1>2, UntouchedCalls DEF callState
<1>3. CASE FinishClose
  BY <1>1, <1>3, FinishKeeps
<1> QED
  BY <1>2, <1>3 DEF CloseEvent

LEMMA CallsInit == Init => CallsInv
<1> SUFFICES ASSUME Init PROVE CallsInv
  OBVIOUS
<1>1. packetId = 0 /\ pending = <<>> /\ calls = <<>>
  BY DEF Init
<1>2. DOMAIN pending = {} /\ pending \in [{} -> Waiters] /\ DOMAIN calls = {}
  BY <1>1
<1>3. packetId \in 0..MaxId
  BY <1>1, MqttAssumption DEF MqttAssumption
<1> QED
  BY <1>1, <1>2, <1>3 DEF CallsInv, CallTypes, OneWaiter, NoCallForgotten

LEMMA CallsStep == CallsInv /\ [Next]_vars => CallsInv'
<1> SUFFICES ASSUME CallsInv, [Next]_vars PROVE CallsInv'
  OBVIOUS
<1>1. CASE Close
  BY <1>1, ShutDownKeeps DEF Close
<1>2. ASSUME NEW kind \in Kinds, Call(kind) PROVE CallsInv'
  BY <1>2, CallKeeps
<1>3. CASE CloseEvent
  BY <1>3, CloseEventKeeps
<1>4. CASE FailConnection
  BY <1>4, ShutDownKeeps DEF FailConnection
<1>5. ASSUME NEW id \in 1..MaxId, AckTimeout(id) PROVE CallsInv'
  BY <1>5, SettleKeeps DEF AckTimeout
<1>6. ASSUME NEW type \in AckTypes, Ack(type) PROVE CallsInv'
  BY <1>6, AckKeeps
<1>7. CASE UNCHANGED vars
  BY <1>7, UntouchedCalls DEF vars, callVars, callState
<1> QED
  BY <1>1, <1>2, <1>3, <1>4, <1>5, <1>6, <1>7, OtherSteps
     DEF Next, Application, Socket, Timers, Continue, Broker

\* Every call of publish(), subscribe() and unsubscribe() that is not settled
\* has a waiter, and every waiter is of a call that is not settled, or of one
\* that the exception of a packet builder rejected: under any number of ids,
\* calls and messages, through the wrap of the packet ids, the second phase of
\* QoS 2, and close() inside a listener.
THEOREM CallsAreKept == Spec => []NoCallForgotten
<1>1. CallsInv => NoCallForgotten
  BY DEF CallsInv
<1> QED
  BY <1>1, CallsInit, CallsStep, PTL DEF Spec

-----------------------------------------------------------------------------
(* A call is resolved by its own acknowledgement.                            *)

\* A packet that answers the call with this packet id, or with none.
Packets == [type : AckTypes \cup {"connack", "refused", "publish", "pingresp"},
            id : 0..MaxId, call : Nat]

\* What the broker owes, and what is left of the frame that was received.
OnTheWay == owed \cup {frame[i] : i \in DOMAIN frame}

\* A packet that is still to come with the id of a waiter answers that waiter.
Matched ==
    \A p \in OnTheWay : p.id \in DOMAIN pending => p.call = pending[p.id].call

WayTypes == owed \subseteq Packets /\ frame \in Seq(Packets)

\* Every call that is resolved, of those that wait for an acknowledgement and of
\* the others, was acknowledged.
Earned == \A c \in DOMAIN calls : calls[c] = "resolved" => c \in acked

AckedInv == CallsInv /\ WayTypes /\ (~reused => Matched /\ Earned)

\* Less is on its way, but for packets that answer no call, and fewer calls wait:
\* what matched still does.
LEMMA FewerMatch ==
    ASSUME Matched, CallTypes,
           \A p \in OnTheWay' : p \in OnTheWay \/ p.id = 0,
           DOMAIN pending' \subseteq DOMAIN pending,
           \A id \in DOMAIN pending' : pending'[id].call = pending[id].call
    PROVE  Matched'
BY MqttAssumption DEF Matched, CallTypes

LEMMA QuietStep ==
    ASSUME AckedInv, CallsInv', WayTypes', ~reused' => ~reused,
           \A p \in OnTheWay' : p \in OnTheWay \/ p.id = 0,
           DOMAIN pending' \subseteq DOMAIN pending,
           \A id \in DOMAIN pending' : pending'[id].call = pending[id].call,
           DOMAIN calls' = DOMAIN calls,
           \A c \in DOMAIN calls' : calls'[c] = "resolved" => calls[c] = "resolved",
           acked' = acked
    PROVE  AckedInv'
<1>1. ASSUME ~reused' PROVE Matched' /\ Earned'
  <2>1. Matched /\ Earned /\ CallTypes
    BY <1>1 DEF AckedInv, CallsInv
  <2> QED
    BY <2>1, FewerMatch DEF Earned
<1> QED
  BY <1>1 DEF AckedInv

\* The broker is asked for one packet more.
LEMMA OwingOne ==
    ASSUME NEW p, owed' = Owing(p)
    PROVE  owed' \subseteq owed \cup {p}
BY DEF Owing

\* What the socket, the timers and the jobs of the client bring.
LEMMA PacketSteps ==
    ASSUME AckedInv, CallsInv',
           \/ Connect \/ SocketOpens \/ PeerCloses \/ SocketEnds
           \/ ConnectTimeout \/ PingTick \/ ErrorEventReturns
           \/ MessageReturns \/ BrokerDies
    PROVE  AckedInv'
<1>1. UNCHANGED <<pending, calls, acked, frame, reused>>
  BY DEF Connect, SocketOpens, PeerCloses, SocketEnds, ConnectTimeout, PingTick,
         ErrorEventReturns, MessageReturns, BrokerDies, callVars
<1>2. owed' \subseteq owed \cup Handshake \cup {Packet("pingresp", 0, 0)}
  <2>1. CASE PingTick
    BY <2>1, OwingOne DEF PingTick, SendPing, PingMissed
  <2>2. CASE \/ Connect \/ SocketOpens \/ PeerCloses \/ SocketEnds \/ ConnectTimeout
             \/ ErrorEventReturns \/ MessageReturns \/ BrokerDies
    BY <2>2
       DEF Connect, SocketOpens, PeerCloses, SocketEnds, ConnectTimeout,
           ErrorEventReturns, MessageReturns, BrokerDies, brokerVars
  <2> QED
    BY <2>1, <2>2
<1>3. \A p \in Handshake \cup {Packet("pingresp", 0, 0)} : p \in Packets /\ p.id = 0
  BY MqttAssumption DEF Handshake, Packet, Packets, AckTypes, MqttAssumption
<1>4. WayTypes' /\ \A p \in OnTheWay' : p \in OnTheWay \/ p.id = 0
  BY <1>1, <1>2, <1>3 DEF AckedInv, WayTypes, OnTheWay
<1> QED
  BY <1>1, <1>4, QuietStep

LEMMA OneOrTwo ==
    ASSUME NEW P, NEW s \in {<<p>> : p \in P} \cup (P \X P)
    PROVE  s \in Seq(P)
<1>1. ASSUME NEW p \in P PROVE <<p>> \in Seq(P)
  OBVIOUS
<1>2. ASSUME NEW p \in P, NEW q \in P PROVE <<p, q>> \in Seq(P)
  OBVIOUS
<1>3. CASE s \in P \X P
  <2>1. \E p \in P : \E q \in P : s = <<p, q>>
    BY <1>3
  <2> QED
    BY <2>1, <1>2
<1> QED
  BY <1>1, <1>3

\* A frame is made of packets the broker owes and of its own messages.
LEMMA DeliverStep ==
    ASSUME AckedInv, CallsInv', NEW packets \in Frames, Deliver(packets)
    PROVE  AckedInv'
<1>1. /\ UNCHANGED <<pending, calls, acked>> /\ (~reused' => ~reused)
      /\ owed' \subseteq owed /\ frame' = packets
  BY Zenon DEF Deliver, callVars, Answered
<1>2. Message \in Packets /\ Message.id = 0
  BY MqttAssumption DEF Message, Packet, Packets, AckTypes, MqttAssumption
<1>3. packets \in Seq(owed \cup {Message})
  BY OneOrTwo DEF Frames
<1>4. \A i \in DOMAIN packets : packets[i] \in owed \cup {Message}
  BY <1>3
<1>5. frame' \in Seq(Packets)
  BY <1>1, <1>2, <1>3 DEF AckedInv, WayTypes
<1>6. WayTypes' /\ \A p \in OnTheWay' : p \in OnTheWay \/ p.id = 0
  BY <1>1, <1>2, <1>4, <1>5 DEF AckedInv, WayTypes, OnTheWay
<1> QED
  BY <1>1, <1>6, QuietStep

\* The packet that is handled leaves the frame.
LEMMA HandlingTakes ==
    ASSUME WayTypes, NEW type, Handling(type)
    PROVE  /\ frame' \in Seq(Packets)
           /\ Head(frame) \in OnTheWay /\ Head(frame) \in Packets
           /\ Head(frame).type = type
           /\ \A i \in DOMAIN frame' : frame'[i] \in OnTheWay
<1>1. frame \in Seq(Packets) /\ frame # <<>> /\ frame' = Tail(frame)
  BY DEF WayTypes, Handling
<1>2. 1 \in DOMAIN frame /\ Head(frame) = frame[1] /\ frame' \in Seq(Packets)
  BY <1>1
<1>3. \A i \in DOMAIN frame' : i + 1 \in DOMAIN frame /\ frame'[i] = frame[i + 1]
  BY <1>1
<1> QED
  BY <1>1, <1>2, <1>3 DEF OnTheWay, Handling

LEMMA HandlingSteps ==
    ASSUME AckedInv, CallsInv', ConnAck \/ Publish \/ PingResp
    PROVE  AckedInv'
<1>1. /\ UNCHANGED <<pending, calls, acked, owed, reused>>
      /\ \E type : Handling(type)
  BY DEF ConnAck, Publish, PingResp, callVars, brokerVars
<1>2. frame' \in Seq(Packets) /\ \A i \in DOMAIN frame' : frame'[i] \in OnTheWay
  BY <1>1, HandlingTakes DEF AckedInv
<1>3. WayTypes' /\ \A p \in OnTheWay' : p \in OnTheWay
  BY <1>1, <1>2 DEF AckedInv, WayTypes, OnTheWay
<1> QED
  BY <1>1, <1>3, QuietStep

\* finishClose() and a timeout only reject.
LEMMA FinishEarnsNothing ==
    ASSUME CallsInv, FinishClose
    PROVE  /\ DOMAIN pending' = {} /\ DOMAIN calls' = DOMAIN calls
           /\ \A c \in DOMAIN calls' : calls'[c] = "resolved" => calls[c] = "resolved"
<1>1. /\ pending' = <<>>
      /\ calls' = [c \in DOMAIN calls |->
                      IF Waiting(c) /\ calls[c] = "waiting" THEN "rejected" ELSE calls[c]]
  BY DEF FinishClose
<1> QED
  BY <1>1

LEMMA SettleShrinks ==
    ASSUME CallsInv, NEW id \in DOMAIN pending, NEW outcome \in {"resolved", "rejected"},
           SettleWaiter(id, outcome)
    PROVE  /\ DOMAIN pending' \subseteq DOMAIN pending
           /\ \A i \in DOMAIN pending' : pending'[i].call = pending[i].call
           /\ DOMAIN calls' = DOMAIN calls
           /\ \A c \in DOMAIN calls' : calls'[c] = "resolved" =>
                 calls[c] = "resolved" \/ (outcome = "resolved" /\ c = pending[id].call)
<1>1. /\ pending' = [i \in DOMAIN pending \ {id} |-> pending[i]]
      /\ calls' = [calls EXCEPT ![pending[id].call] =
                      IF @ = "waiting" THEN outcome ELSE @]
  BY DEF SettleWaiter
<1> QED
  BY <1>1 DEF CallsInv, CallTypes

LEMMA RejectingSteps ==
    ASSUME AckedInv, CallsInv',
           \/ Close \/ CloseEvent \/ FailConnection
           \/ \E id \in 1..MaxId : AckTimeout(id)
    PROVE  AckedInv'
<1>1. UNCHANGED <<acked, owed, frame, reused>>
  BY DEF Close, CloseEvent, FailConnection, AckTimeout, ShutDown, brokerVars
<1>2. WayTypes' /\ OnTheWay' = OnTheWay
  BY <1>1 DEF AckedInv, WayTypes, OnTheWay
<1>3. CallsInv
  BY DEF AckedInv
<1>4. CASE UNCHANGED <<pending, calls>>
  BY <1>1, <1>2, <1>4, QuietStep
<1>5. CASE FinishClose
  BY <1>1, <1>2, <1>3, <1>5, FinishEarnsNothing, QuietStep
<1>6. ASSUME NEW id \in 1..MaxId, AckTimeout(id)
      PROVE  AckedInv'
  <2>1. id \in DOMAIN pending /\ SettleWaiter(id, "rejected")
    BY <1>6 DEF AckTimeout
  <2> QED
    BY <1>1, <1>2, <1>3, <2>1, SettleShrinks, QuietStep
<1>7. Close \/ CloseEvent \/ FailConnection => UNCHANGED <<pending, calls>> \/ FinishClose
  BY DEF Close, CloseEvent, FailConnection, ShutDown
<1> QED
  BY <1>4, <1>5, <1>6, <1>7

\* A call that is settled at once earns its resolution if it has QoS 0.
LEMMA AtOnceStep ==
    ASSUME AckedInv, CallsInv', UNCHANGED <<pending, owed, frame>>, ~reused' => ~reused,
           NEW outcome \in {"resolved", "rejected"}, calls' = Append(calls, outcome),
           acked \subseteq acked', outcome = "resolved" => Len(calls) + 1 \in acked'
    PROVE  AckedInv'
<1>1. WayTypes' /\ OnTheWay' = OnTheWay
  BY DEF AckedInv, WayTypes, OnTheWay
<1>2. calls \in Seq(Outcomes)
  BY DEF AckedInv, CallsInv, CallTypes
<1>3. \A c \in DOMAIN calls' : calls'[c] = "resolved" =>
          (c \in DOMAIN calls /\ calls[c] = "resolved") \/ c \in acked'
  <2>1. /\ DOMAIN calls' = DOMAIN calls \cup {Len(calls) + 1}
        /\ calls'[Len(calls) + 1] = outcome
        /\ \A c \in DOMAIN calls : calls'[c] = calls[c]
    BY <1>2 DEF Outcomes
  <2> QED
    BY <2>1
<1>4. ASSUME ~reused' PROVE Matched' /\ Earned'
  <2>1. Matched /\ Earned
    BY <1>4 DEF AckedInv
  <2> QED
    BY <1>1, <1>3, <2>1 DEF Matched, Earned
<1> QED
  BY <1>1, <1>4 DEF AckedInv

\* A call gets a waiter, and the broker is asked for the packet that answers it
\* or, if that was not built, for none.
LEMMA WaiterStep ==
    ASSUME AckedInv, CallsInv', UNCHANGED <<acked, frame>>,
           NEW id \in 1..MaxId, id \notin DOMAIN pending, NEW kind \in AckTypes,
           pending' = WithWaiter(id, kind, Len(calls) + 1),
           NEW outcome \in {"waiting", "thrown"}, calls' = Append(calls, outcome),
           owed' \subseteq owed \cup {Packet(kind, id, Len(calls) + 1)},
           ~reused' => ~reused /\ ~UnderWay(id)
    PROVE  AckedInv'
<1> DEFINE call == Len(calls) + 1
           p == Packet(kind, id, call)
<1>1. calls \in Seq(Outcomes) /\ call \in Nat
  BY DEF AckedInv, CallsInv, CallTypes
<1>2. /\ DOMAIN pending' = DOMAIN pending \cup {id}
      /\ pending'[id].call = call
      /\ \A i \in DOMAIN pending : pending'[i] = pending[i]
  BY DEF WithWaiter
<1>3. \A c \in DOMAIN calls' : calls'[c] = "resolved" =>
          c \in DOMAIN calls /\ calls[c] = "resolved"
  BY <1>1 DEF Outcomes
<1>4. p \in Packets /\ p.id = id /\ p.call = call
  BY <1>1, MqttAssumption DEF Packet, Packets, AckTypes, MqttAssumption
<1> HIDE DEF call, p
<1>5. owed' \subseteq owed \cup {p}
  BY DEF call, p
<1>6. WayTypes' /\ \A q \in OnTheWay' : q \in OnTheWay \/ q = p
  BY <1>4, <1>5 DEF AckedInv, WayTypes, OnTheWay
<1>7. ASSUME ~reused' PROVE Matched' /\ Earned'
  <2>1. Matched /\ Earned /\ ~UnderWay(id)
    BY <1>7 DEF AckedInv
  <2>2. \A q \in OnTheWay : q.id # id
    BY <2>1 DEF OnTheWay, UnderWay
  <2>3. Matched'
    BY <1>2, <1>4, <1>6, <2>1, <2>2 DEF Matched
  <2> QED
    BY <1>3, <2>1, <2>3 DEF Earned
<1> QED
  BY <1>6, <1>7 DEF AckedInv

\* The packet that will answer a call bears its number, and unless the id is
\* reused nothing else with that id is on its way.
LEMMA SendStep ==
    ASSUME AckedInv, CallsInv', FreeSteps # {}, NEW kind \in AckTypes,
           Send(kind, Len(calls) + 1), UNCHANGED <<acked, frame>>
    PROVE  AckedInv'
<1> DEFINE id == NextPacketId
           call == Len(calls) + 1
<1>1. id \in 1..MaxId /\ id \notin DOMAIN pending
  BY NextIdIsFree DEF AckedInv, CallsInv
<1>2. CASE CanSend
  <2>1. /\ pending' = WithWaiter(id, kind, call)
        /\ calls' = Append(calls, "waiting")
        /\ owed' = Owing(Packet(kind, id, call))
    BY <1>2 DEF Send
  <2>2. ~reused' => ~reused /\ ~UnderWay(id)
    BY <1>2, Zenon DEF Send
  <2> HIDE DEF id
  <2>3. owed' \subseteq owed \cup {Packet(kind, id, call)}
    BY <2>1, OwingOne
  <2> QED
    BY <1>1, <2>1, <2>2, <2>3, WaiterStep
<1>3. CASE ~CanSend
  <2>1. UNCHANGED <<pending, owed, reused>> /\ calls' = Append(calls, "rejected")
    BY <1>3 DEF Send
  <2> QED
    BY <2>1, AtOnceStep
<1> QED
  BY <1>2, <1>3

\* Nothing will answer a packet that was not built.
LEMMA BuildThrowsStep ==
    ASSUME AckedInv, CallsInv', FreeSteps # {}, NEW kind \in AckTypes,
           BuildThrows(kind, Len(calls) + 1), UNCHANGED <<acked, frame>>
    PROVE  AckedInv'
<1> DEFINE id == NextPacketId
<1>1. id \in 1..MaxId /\ id \notin DOMAIN pending
  BY NextIdIsFree DEF AckedInv, CallsInv
<1>2. /\ pending' = WithWaiter(id, kind, Len(calls) + 1)
      /\ calls' = Append(calls, "thrown")
      /\ owed' = owed
  BY DEF BuildThrows
<1>3. ~reused' => ~reused /\ ~UnderWay(id)
  BY Zenon DEF BuildThrows
<1> HIDE DEF id
<1> QED
  BY <1>1, <1>2, <1>3, WaiterStep

LEMMA CallStep ==
    ASSUME AckedInv, CallsInv', NEW kind \in Kinds, Call(kind)
    PROVE  AckedInv'
<1>1. frame' = frame
  BY DEF Call
<1>2. CASE SendUnacknowledged /\ acked' = acked \cup {Len(calls) + 1}
  <2>1. /\ UNCHANGED <<pending, owed, reused>>
        /\ \E outcome \in {"resolved", "rejected"} : calls' = Append(calls, outcome)
    BY <1>2 DEF SendUnacknowledged
  <2> QED
    BY <1>1, <1>2, <2>1, AtOnceStep
<1>3. CASE calls' = Append(calls, "rejected") /\ UNCHANGED <<pending, owed, reused, acked>>
  BY <1>1, <1>3, AtOnceStep
<1>4. CASE /\ kind # "none" /\ FreeSteps # {} /\ UNCHANGED acked
           /\ Send(kind, Len(calls) + 1) \/ BuildThrows(kind, Len(calls) + 1)
  <2>1. kind \in AckTypes
    BY <1>4, MqttAssumption DEF MqttAssumption, KindSet, AckTypes
  <2> QED
    BY <1>1, <1>4, <2>1, SendStep, BuildThrowsStep
<1> QED
  BY <1>2, <1>3, <1>4 DEF Call

\* An acknowledgement resolves the call it is for; PUBREC only asks for PUBCOMP,
\* which will answer the same call.
LEMMA AckStep ==
    ASSUME AckedInv, CallsInv', NEW type \in AckTypes, Ack(type)
    PROVE  AckedInv'
<1> DEFINE p == Head(frame)
           id == p.id
<1>1. /\ frame' \in Seq(Packets) /\ p \in OnTheWay /\ p \in Packets
      /\ \A i \in DOMAIN frame' : frame'[i] \in OnTheWay
  BY HandlingTakes DEF AckedInv, Ack
<1>2. reused' = reused /\ acked' = IF type = "pubrec" THEN acked ELSE acked \cup {p.call}
  BY DEF Ack
<1>3. CallsInv /\ CallTypes /\ WayTypes
  BY DEF AckedInv, CallsInv
<1> HIDE DEF p
<1>4. CASE /\ UNCHANGED owed
           /\ \/ UNCHANGED <<pending, calls>>
              \/ \E outcome \in {"resolved", "rejected"} :
                    /\ id \in DOMAIN pending
                    /\ SettleWaiter(id, outcome)
                    /\ outcome = "resolved" => type # "pubrec"
  <2>1. WayTypes' /\ \A q \in OnTheWay' : q \in OnTheWay
    BY <1>1, <1>3, <1>4 DEF WayTypes, OnTheWay
  <2>2. CASE UNCHANGED <<pending, calls>>
    <3>1. ASSUME ~reused' PROVE Matched' /\ Earned'
      <4>1. Matched /\ Earned
        BY <1>2, <3>1 DEF AckedInv
      <4>2. Matched'
        BY <1>3, <2>1, <2>2, <4>1, FewerMatch
      <4> QED
        BY <1>2, <2>2, <4>1, <4>2 DEF Earned
    <3> QED
      BY <2>1, <3>1 DEF AckedInv
  <2>3. ASSUME NEW outcome \in {"resolved", "rejected"}, id \in DOMAIN pending,
               SettleWaiter(id, outcome), outcome = "resolved" => type # "pubrec"
        PROVE  AckedInv'
    <3>1. /\ DOMAIN pending' \subseteq DOMAIN pending
          /\ \A i \in DOMAIN pending' : pending'[i].call = pending[i].call
          /\ DOMAIN calls' = DOMAIN calls
          /\ \A c \in DOMAIN calls' : calls'[c] = "resolved" =>
                calls[c] = "resolved" \/ (outcome = "resolved" /\ c = pending[id].call)
      BY <1>3, <2>3, SettleShrinks
    <3>2. ASSUME ~reused' PROVE Matched' /\ Earned'
      <4>1. Matched /\ Earned
        BY <1>2, <3>2 DEF AckedInv
      <4>2. Matched'
        BY <1>3, <2>1, <3>1, <4>1, FewerMatch
      <4>3. p.call = pending[id].call
        BY <1>1, <2>3, <4>1 DEF Matched
      <4> QED
        BY <1>2, <2>3, <3>1, <4>1, <4>2, <4>3 DEF Earned
    <3> QED
      BY <2>1, <3>2 DEF AckedInv
  <2> QED
    BY <1>4, <2>2, <2>3
<1>5. CASE id \in DOMAIN pending /\ type = "pubrec" /\ Release(id)
  <2> DEFINE q == Packet("pubcomp", id, pending[id].call)
  <2>1. /\ calls' = calls /\ acked' = acked
        /\ pending' = [pending EXCEPT ![id] = [kind |-> "pubcomp", call |-> pending[id].call]]
        /\ owed' = IF CanSend THEN Owing(q) ELSE owed
    BY <1>2, <1>5 DEF Release
  <2>2. /\ DOMAIN pending' = DOMAIN pending
        /\ \A i \in DOMAIN pending : pending'[i].call = pending[i].call
    BY <1>3, <1>5, <2>1 DEF CallTypes
  <2>3. owed' \subseteq owed \cup {q}
    BY <2>1, OwingOne
  <2>4. q \in Packets /\ q.id = id /\ q.call = pending[id].call
    BY <1>3, <1>5, MqttAssumption
       DEF CallTypes, Waiters, Packet, Packets, AckTypes, MqttAssumption
  <2>5. WayTypes' /\ \A r \in OnTheWay' : r \in OnTheWay \/ r = q
    BY <1>1, <1>3, <2>3, <2>4 DEF WayTypes, OnTheWay
  <2> HIDE DEF q
  <2>6. ASSUME ~reused' PROVE Matched' /\ Earned'
    <3>1. Matched /\ Earned
      BY <1>2, <2>6 DEF AckedInv
    <3>2. Matched'
      BY <2>2, <2>4, <2>5, <3>1 DEF Matched
    <3> QED
      BY <2>1, <3>1, <3>2 DEF Earned
  <2> QED
    BY <2>5, <2>6 DEF AckedInv
<1> QED
  BY <1>4, <1>5 DEF Ack, p

LEMMA AckedInit == Init => AckedInv
<1> SUFFICES ASSUME Init PROVE AckedInv
  OBVIOUS
<1>1. /\ calls = <<>> /\ owed = {} /\ frame = <<>> /\ pending = <<>>
      /\ CallsInv
  BY CallsInit DEF Init
<1> QED
  BY <1>1 DEF AckedInv, WayTypes, Matched, Earned, OnTheWay

LEMMA AckedStep == AckedInv /\ [Next]_vars => AckedInv'
<1> SUFFICES ASSUME AckedInv, [Next]_vars PROVE AckedInv'
  OBVIOUS
<1>1. CallsInv'
  BY CallsStep DEF AckedInv
<1>2. ASSUME NEW kind \in Kinds, Call(kind) PROVE AckedInv'
  BY <1>1, <1>2, CallStep
<1>3. ASSUME NEW type \in AckTypes, Ack(type) PROVE AckedInv'
  BY <1>1, <1>3, AckStep
<1>4. ASSUME NEW packets \in Frames, Deliver(packets) PROVE AckedInv'
  BY <1>1, <1>4, DeliverStep
<1>5. CASE UNCHANGED vars
  <2>1. UNCHANGED <<pending, calls, acked, owed, frame, reused>>
    BY <1>5 DEF vars, callVars, brokerVars
  <2>2. WayTypes' /\ OnTheWay' = OnTheWay
    BY <2>1 DEF AckedInv, WayTypes, OnTheWay
  <2> QED
    BY <1>1, <2>1, <2>2, QuietStep
<1> QED
  BY <1>1, <1>2, <1>3, <1>4, <1>5, PacketSteps, HandlingSteps, RejectingSteps
     DEF Next, Application, Socket, Timers, Continue, Broker

\* ResolvedMeansAcked: resolveAck() resolves the promise of a call only with the
\* last acknowledgement of that very call.  The packet ids of MqttClient come
\* round again; the one case in which an answer may settle another call is that
\* an id is taken again while an answer to its former call is on its way.
THEOREM ResolvedIsEarned == Spec => []ResolvedMeansAcked
<1>1. AckedInv => ResolvedMeansAcked
  BY DEF AckedInv, Earned, ResolvedMeansAcked
<1> QED
  BY <1>1, AckedInit, AckedStep, PTL DEF Spec

-----------------------------------------------------------------------------
(* The end of the connection is reported once.                               *)

\* Until CONNACK nothing was reported, and the handlers of connect() end a
\* handshake whose socket is gone.
Before ==
    /\ state = "idle" =>
          socket = "none" /\ job = "idle" /\ frame = <<>> /\ connecting = "none" /\ closes = 0
    /\ state = "connecting" =>
          /\ attached /\ connecting = "pending" /\ closes = 0
          /\ job # "failing"
          /\ socket = "closed" => job \in {"errorEvent", "closeEvent"}
    /\ job \in {"errorEvent", "closeEvent"} => socket = "closed"

\* From then on the client keeps its socket, the event of whose end it is still
\* to handle unless the client is closed.
Established ==
    connecting = "resolved" =>
        /\ attached /\ ~connectTimer
        /\ state \in {"connected", "closing", "closed"}
        /\ state # "closed" => closes = 0
        /\ socket = "closed" /\ state # "closed" =>
              job \in {"errorEvent", "closeEvent", "failing"}
        /\ state = "closed" => socket = "closed"
        /\ state = "closed" /\ job = "failing" => reentered /\ closes = 1

OnceInv == Before /\ Established /\ CloseReportedOnce

LEMMA OnceInit == Init => OnceInv
BY DEF Init, OnceInv, Before, Established, CloseReportedOnce

LEMMA OnceStep == OnceInv /\ [Next]_vars => OnceInv'
<1> SUFFICES ASSUME OnceInv, [Next]_vars PROVE OnceInv'
  OBVIOUS
<1> USE DEF OnceInv, Before, Established, CloseReportedOnce
<1>1. CASE Connect
  BY <1>1 DEF Connect, SettleRejects
<1>2. CASE Close
  <2>1. job = "failing" => reentered'
    BY <1>2, Zenon DEF Close
  <2>2. /\ state \notin {"closed", "closing"}
        /\ job \in {"idle", "errorEvent", "failing", "message"}
        /\ UNCHANGED <<attached, connecting, job, frame>>
        /\ \/ /\ state' = "closing" /\ closes' = closes /\ connectTimer' = FALSE
              /\ socket # "closed" /\ socket' \in {"aborting", "closing"}
           \/ /\ state' = "closed" /\ closes' = closes + 1 /\ connectTimer' = FALSE
              /\ ~(attached /\ socket # "closed") /\ socket' = socket
    BY <1>2 DEF Close, ShutDown, FinishClose, CallsFrom, Idle
  <2> QED
    BY <2>1, <2>2
<1>3. ASSUME NEW kind \in Kinds, Call(kind) PROVE OnceInv'
  BY <1>3 DEF Call, connectionVars
<1>4. CASE SocketOpens
  BY <1>4 DEF SocketOpens, callVars
<1>5. CASE PeerCloses
  BY <1>5 DEF PeerCloses, callVars
<1>6. CASE SocketEnds
  BY <1>6 DEF SocketEnds, Idle
<1>7. CASE ErrorEventReturns
  BY <1>7 DEF ErrorEventReturns, SettleRejects, connectionVars
<1>8. CASE CloseEvent
  BY <1>8 DEF CloseEvent, SettleRejects, FinishClose, connectionVars
<1>9. CASE FailConnection
  BY <1>9 DEF FailConnection, ShutDown, FinishClose
<1>10. CASE ConnectTimeout
  BY <1>10 DEF ConnectTimeout, SettleRejects
<1>11. ASSUME NEW id \in 1..MaxId, AckTimeout(id) PROVE OnceInv'
  BY <1>11 DEF AckTimeout, connectionVars
<1>12. CASE PingTick
  BY <1>12 DEF PingTick, SendPing, PingMissed, Idle, connectionVars
<1>13. CASE ConnAck
  BY <1>13 DEF ConnAck, Handling, SettleResolves, SettleRejects, connectionVars
<1>14. CASE Publish
  BY <1>14 DEF Publish, Handling, connectionVars
<1>15. CASE MessageReturns
  BY <1>15 DEF MessageReturns, connectionVars
<1>16. CASE PingResp
  BY <1>16 DEF PingResp, Handling, connectionVars
<1>17. ASSUME NEW type \in AckTypes, Ack(type) PROVE OnceInv'
  BY <1>17 DEF Ack, Handling, connectionVars
<1>18. CASE BrokerDies
  BY <1>18 DEF BrokerDies, connectionVars
<1>19. ASSUME NEW packets \in Frames, Deliver(packets) PROVE OnceInv'
  BY <1>19 DEF Deliver, connectionVars
<1>20. CASE UNCHANGED vars
  BY <1>20 DEF vars, connectionVars
<1> QED
  BY <1>1, <1>2, <1>3, <1>4, <1>5, <1>6, <1>7, <1>8, <1>9, <1>10, <1>11, <1>12,
     <1>13, <1>14, <1>15, <1>16, <1>17, <1>18, <1>19, <1>20
     DEF Next, Application, Socket, Timers, Continue, Broker

\* A connection that was established and is closed reported its end once; twice
\* only if close() was called inside failConnection().
THEOREM ReportedOnce == Spec => []CloseReportedOnce
<1>1. OnceInv => CloseReportedOnce
  BY DEF OnceInv
<1> QED
  BY <1>1, OnceInit, OnceStep, PTL DEF Spec

-----------------------------------------------------------------------------
(* The keep-alive gives up only when two PINGREQs went unanswered.           *)

PingTypes == unanswered \in Nat /\ pingOutstanding \in BOOLEAN /\ pingMissed \in BOOLEAN

\* Until the socket leaves the state "open" the flags of the keep-alive count the
\* PINGREQs that went unanswered.
Counted ==
    socket \in {"none", "connecting", "open"} =>
        /\ ~pingOutstanding => ~pingMissed /\ unanswered = 0
        /\ pingOutstanding /\ ~pingMissed => unanswered = 1
        /\ pingOutstanding /\ pingMissed => unanswered = 2

\* A client that is connected has a socket that was opened; packets come on it.
Opened ==
    /\ state = "connected" => attached /\ socket \notin {"none", "connecting"}
    /\ frame # <<>> => socket \notin {"none", "connecting"}

PingInv == OnceInv /\ PingTypes /\ Opened /\ Counted
\* A step that sends no PINGREQ and takes no answer to one.
LEMMA SamePings ==
    ASSUME PingTypes, Counted, UNCHANGED pingVars,
           socket' \in {"none", "connecting", "open"} => socket \in {"none", "connecting", "open"}
    PROVE  PingTypes' /\ Counted'
<1>1. PingTypes'
  BY Zenon DEF PingTypes, pingVars
<1>2. UNCHANGED <<pingMissed, pingOutstanding, unanswered>>
  BY DEF pingVars
<1>3. Counted'
  BY <1>2, Zenon DEF Counted
<1> QED
  BY <1>1, <1>3

LEMMA PingTickKeeps ==
    ASSUME PingInv, PingTick
    PROVE  PingTypes' /\ Counted'
<1>1. state = "connected" /\ UNCHANGED <<socket, attached>>
  BY DEF PingTick, connectionVars
<1>2. CASE UNCHANGED pingVars
  BY <1>1, <1>2, SamePings DEF PingInv
<1>3. CASE SendPing
  <2>1. /\ ~(pingOutstanding /\ pingMissed)
        /\ pingOutstanding'
        /\ (pingMissed' <=> pingMissed \/ pingOutstanding)
        /\ pingMissed' \in BOOLEAN /\ pingOutstanding' \in BOOLEAN
    BY <1>3, Zenon DEF SendPing, PingInv, PingTypes
  <2>2. unanswered' \in Nat
    BY <1>3 DEF SendPing, PingInv, PingTypes
  <2>3. PingTypes'
    BY <2>1, <2>2, Zenon DEF PingTypes
  <2>4. CASE socket = "open"
    <3>1. unanswered' = unanswered + 1
      BY <1>1, <1>3, <2>4 DEF SendPing, CanSend, PingInv, Opened
    <3>2. /\ ~pingOutstanding => ~pingMissed /\ unanswered = 0
          /\ pingOutstanding /\ ~pingMissed => unanswered = 1
      BY <2>4, Zenon DEF PingInv, Counted
    <3>3. CASE pingOutstanding
      <4>1. unanswered = 1 /\ pingMissed'
        BY <2>1, <3>2, <3>3
      <4>2. unanswered' = 2
        BY <3>1, <4>1
      <4> QED
        BY <2>1, <2>3, <3>3, <4>1, <4>2, Zenon DEF Counted
    <3>4. CASE ~pingOutstanding
      <4>1. unanswered = 0 /\ ~pingMissed'
        BY <2>1, <3>2, <3>4
      <4>2. unanswered' = 1
        BY <3>1, <4>1
      <4> QED
        BY <2>1, <2>3, <3>4, <4>1, <4>2, Zenon DEF Counted
    <3> QED
      BY <3>3, <3>4
  <2>5. CASE socket # "open"
    <3>1. socket' \notin {"none", "connecting", "open"}
      BY <1>1, <2>5 DEF PingInv, Opened
    <3> QED
      BY <2>3, <3>1 DEF Counted
  <2> QED
    BY <2>4, <2>5
<1> QED
  BY <1>2, <1>3 DEF PingTick, PingMissed

LEMMA PingRespKeeps ==
    ASSUME PingInv, PingResp
    PROVE  PingTypes' /\ Counted'
<1>1. pingOutstanding' = FALSE /\ pingMissed' = FALSE /\ unanswered' = 0
  BY DEF PingResp
<1> QED
  BY <1>1 DEF PingTypes, Counted

\* The socket is open once packets come, and the client is connected by one.
LEMMA OpenedStep ==
    ASSUME OnceInv, Opened, [Next]_vars
    PROVE  /\ Opened'
           /\ socket' \in {"none", "connecting", "open"} => socket \in {"none", "connecting", "open"}
<1> USE DEF OnceInv, Before, Opened
<1>1. CASE Connect
  BY <1>1 DEF Connect, SettleRejects
<1>2. CASE Close \/ FailConnection
  <2>1. frame' = frame /\ \E ct, pt : ShutDown(ct, pt)
    BY <1>2 DEF Close, FailConnection
  <2>2. /\ attached' = attached
        /\ state' \in {"closing", "closed"}
        /\ socket' \in {socket, "aborting", "closing"}
    BY <2>1 DEF ShutDown, FinishClose
  <2> QED
    BY <2>1, <2>2
<1>3. ASSUME NEW kind \in Kinds, Call(kind) PROVE UNCHANGED <<connectionVars, frame>>
  BY <1>3 DEF Call
<1>4. CASE SocketOpens
  BY <1>4 DEF SocketOpens
<1>5. CASE PeerCloses
  BY <1>5 DEF PeerCloses
<1>6. CASE SocketEnds
  BY <1>6 DEF SocketEnds
<1>7. CASE ErrorEventReturns
  BY <1>7 DEF ErrorEventReturns, SettleRejects, connectionVars
<1>8. CASE CloseEvent
  BY <1>8 DEF CloseEvent, SettleRejects, FinishClose, connectionVars
<1>9. CASE ConnectTimeout
  BY <1>9 DEF ConnectTimeout, SettleRejects
<1>10. ASSUME NEW id \in 1..MaxId, AckTimeout(id) PROVE UNCHANGED <<connectionVars, frame>>
  BY <1>10 DEF AckTimeout
<1>11. CASE PingTick \/ MessageReturns \/ BrokerDies \/ UNCHANGED vars
  BY <1>11 DEF PingTick, MessageReturns, BrokerDies, vars, connectionVars
<1>12. CASE ConnAck
  BY <1>12 DEF ConnAck, Handling, SettleResolves, SettleRejects, connectionVars
<1>13. CASE Publish \/ PingResp \/ \E type \in AckTypes : Ack(type)
  <2>1. UNCHANGED connectionVars /\ frame # <<>>
    BY <1>13 DEF Publish, PingResp, Ack, Handling
  <2> QED
    BY <2>1 DEF connectionVars
<1>14. ASSUME NEW packets \in Frames, Deliver(packets)
       PROVE  UNCHANGED connectionVars /\ socket = "open"
  BY <1>14 DEF Deliver
<1> QED
  BY <1>1, <1>2, <1>3, <1>4, <1>5, <1>6, <1>7, <1>8, <1>9, <1>10, <1>11, <1>12, <1>13, <1>14
     DEF Next, Application, Socket, Timers, Continue, Broker, connectionVars

LEMMA PingStep == PingInv /\ [Next]_vars => PingInv'
<1> SUFFICES ASSUME PingInv, [Next]_vars PROVE PingInv'
  OBVIOUS
<1>1. OnceInv' /\ Opened'
  BY OnceStep, OpenedStep DEF PingInv
<1>2. CASE UNCHANGED pingVars
  <2>1. PingTypes' /\ Counted'
    BY <1>2, OpenedStep, SamePings DEF PingInv
  <2> QED
    BY <1>1, <2>1 DEF PingInv
<1>3. UNCHANGED pingVars \/ PingTick \/ PingResp
  BY DEF Next, Application, Socket, Timers, Continue, Broker, Connect, Close, Call,
         SocketOpens, PeerCloses, SocketEnds, ConnectTimeout, AckTimeout,
         ErrorEventReturns, CloseEvent, FailConnection, ConnAck, Publish, MessageReturns,
         Ack, BrokerDies, Deliver, vars
<1> QED
  BY <1>1, <1>2, <1>3, PingTickKeeps, PingRespKeeps DEF PingInv

LEMMA PingInit == Init => PingInv
<1> SUFFICES ASSUME Init PROVE PingInv
  OBVIOUS
<1>1. PingTypes /\ Counted
  BY Zenon DEF Init, PingTypes, Counted
<1>2. Opened
  BY DEF Init, Opened
<1> QED
  BY <1>1, <1>2, OnceInit DEF PingInv

\* GivesUpOnSilence: onPingTick() fails the connection over an open socket only
\* when two PINGREQs were sent and no PINGRESP came, however the ticks fall
\* between the packets of the application and of the broker; other packets may
\* have come in between.
THEOREM SilenceBeforeGivingUp == Spec => GivesUpOnSilence
<1>1. PingInv /\ [Next]_vars =>
          [job = "idle" /\ job' = "failing" /\ socket = "open" => unanswered = 2]_vars
  <2> SUFFICES ASSUME PingInv, Next, job = "idle", job' = "failing", socket = "open"
               PROVE  unanswered = 2
    OBVIOUS
  <2>1. PingTick
    BY DEF Next, Application, Socket, Timers, Continue, Broker, Connect, Close, Call,
           SocketOpens, PeerCloses, SocketEnds, ConnectTimeout, AckTimeout,
           ErrorEventReturns, CloseEvent, FailConnection, ConnAck, Publish, MessageReturns,
           PingResp, Ack, BrokerDies, Deliver
  <2>2. pingOutstanding /\ pingMissed
    BY <2>1 DEF PingTick, SendPing, PingMissed
  <2> QED
    BY <2>2, Zenon DEF PingInv, Counted
<1> QED
  BY <1>1, PingInit, PingStep, PTL DEF Spec, GivesUpOnSilence
=============================================================================
