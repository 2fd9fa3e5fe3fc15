---------------------------- MODULE NetworkProofs ----------------------------
(***************************************************************************)
(* The connections of MCStreams, the WebSocketTransport and the dialog of a   *)
(* Gb28181Session: no socket escapes the close() of the transport and its end *)
(* is reported once, whatever the limit of attempts, the delay, the number of *)
(* sockets and what the listener of the final 'close' calls; an ended session *)
(* has ended, and client and server agree on their dialog, for every number   *)
(* of requests and whatever becomes of their responses.  And the sources that *)
(* connect, WhepSource and PsSource, keep the contract of a MediaSource.      *)
(*                                                                           *)
(* The transport has a live socket, or a timer, or neither, never both:       *)
(* OneWay.  A socket is told to close only by a close() that lasts, so the    *)
(* drop of an old one finds the transport closed.  And it opened one socket    *)
(* more than it counts attempts, unless it waits for the timer (Tried).        *)
(*                                                                           *)
(* The session never looks at the number of the INVITE a response answers.    *)
(* What saves it is Dialogs: every INVITE but the last was refused, so that a *)
(* 2xx can only answer the last one; and no BYE was built before its dialog,  *)
(* so that a 2xx to a BYE means that the server stopped streaming.           *)
(*                                                                           *)
(* WhepSource counts its candidates: each gathered one is queued, in a PATCH, *)
(* sent or lost with its PATCH, and patchUrl is set before anything waits for the queue to be     *)
(* flushed (Candidates).  That stop() is final rests on what is left after it *)
(* (WhepLeft, PsLeft): no connection, so no promise that could resolve, and a *)
(* late delivery only from the last step of a chain.                         *)
(***************************************************************************)
EXTENDS MCStreams, TLAPS

LEMMA NetworkBounds == MaxSockets \in Nat /\ MaxRequests \in Nat /\ AttemptLimits \subseteq Nat
BY StreamsAssumption DEF StreamsAssumption

-----------------------------------------------------------------------------
(* WebSocketTransport.                                                       *)

Phases == {"none", "connecting", "open", "closing", "closed"}

SocketsOK ==
    /\ opened \in Nat
    /\ socket \in Nat
    /\ finals \in Nat
    /\ phase \in [Ws!Sockets -> Phases]

FlagsOK == closed \in BOOLEAN /\ timer \in BOOLEAN

\* One socket lives, the one the transport knows, or the timer runs.
OneWay ==
    /\ Ws!LiveSockets \subseteq {socket}
    /\ timer => socket = 0 /\ ~closed /\ state = "reconnecting"

\* close() lasts: an explicit one, and the final one, which was reported.
Lasting ==
    /\ explicit => closed /\ Ws!LiveSockets = {}
    /\ \A s \in Ws!Sockets : phase[s] = "closing" => closed
    /\ ~closed => finals = 0
    /\ closed => finals <= 1 /\ state # "reconnecting"
    /\ closed /\ ~explicit => finals = 1

WsInv == SocketsOK /\ FlagsOK /\ OneWay /\ Lasting

-----------------------------------------------------------------------------
Quiet(phases) == \A s \in Ws!Sockets : phases[s] \notin {"connecting", "open"}

LEMMA NewSocketLives ==
    ASSUME MaxSockets \in Nat, SocketsOK, NEW phases \in [Ws!Sockets -> Phases],
           Quiet(phases), Ws!NewSocket(phases)
    PROVE  /\ opened' \in Nat /\ socket' \in Nat
           /\ phase' \in [Ws!Sockets -> Phases]
           /\ Ws!LiveSockets' \subseteq {socket'}
           /\ \A s \in Ws!Sockets : phase'[s] = "closing" => phases[s] = "closing"
<1>1. /\ opened' \in Ws!Sockets /\ opened' \in Nat /\ socket' = opened'
      /\ phase' = [phases EXCEPT ![opened'] = "connecting"]
  BY DEF SocketsOK, Ws!NewSocket, Ws!Sockets
<1>2. /\ phase'[opened'] = "connecting"
      /\ \A s \in Ws!Sockets : s # opened' => phase'[s] = phases[s]
      /\ phase' \in [Ws!Sockets -> Phases]
  BY <1>1 DEF Phases
<1> QED
  BY <1>1, <1>2 DEF Ws!LiveSockets, Quiet

\* The end, when nothing lives: what the listener opens is the transport's own.
LEMMA FinalCloseStep ==
    ASSUME MaxSockets \in Nat, WsInv, ~closed, NEW phases \in [Ws!Sockets -> Phases],
           Quiet(phases), Ws!FinalClose(phases), timer' = FALSE
    PROVE  WsInv'
<1>1. closed' = TRUE /\ finals' = 1
  BY DEF WsInv, Lasting, Ws!FinalClose
<1>2. CASE /\ state' = "connecting"
           /\ Ws!NewSocket(phases)
           /\ UNCHANGED explicit
  <2>1. ~explicit'
    BY <1>2 DEF WsInv, Lasting
  <2>2. /\ opened' \in Nat /\ socket' \in Nat
        /\ phase' \in [Ws!Sockets -> Phases]
        /\ Ws!LiveSockets' \subseteq {socket'}
    BY <1>2, NewSocketLives DEF WsInv
  <2>3. SocketsOK' /\ FlagsOK'
    BY <1>1, <2>2 DEF SocketsOK, FlagsOK
  <2> QED
    BY <1>1, <1>2, <2>1, <2>2, <2>3 DEF WsInv, OneWay, Lasting
<1>3. CASE /\ state' = "closed"
           /\ socket' = 0
           /\ phase' = phases
           /\ explicit' \in {explicit, "close" \in ListenerCalls}
           /\ UNCHANGED opened
  <2>1. Ws!LiveSockets' = {}
    BY <1>3 DEF Ws!LiveSockets, Quiet
  <2>2. SocketsOK' /\ FlagsOK'
    BY <1>1, <1>3 DEF WsInv, SocketsOK, FlagsOK
  <2> QED
    BY <1>1, <1>3, <2>1, <2>2 DEF WsInv, OneWay, Lasting
<1> QED
  BY <1>2, <1>3 DEF Ws!FinalClose

LEMMA ReconnectStep ==
    ASSUME WsInv, ~closed, NEW phases \in [Ws!Sockets -> Phases], Quiet(phases),
           \A s \in Ws!Sockets : phases[s] = "closing" => phase[s] = "closing",
           Ws!ScheduleReconnect(phases)
    PROVE  WsInv'
<1>1. /\ socket' = 0 /\ state' = "reconnecting" /\ timer' = TRUE /\ phase' = phases
      /\ UNCHANGED <<closed, opened, explicit, finals>>
  BY DEF Ws!ScheduleReconnect
<1>2. Ws!LiveSockets' = {}
  BY <1>1 DEF Ws!LiveSockets, Quiet
<1> QED
  BY <1>1, <1>2 DEF WsInv, SocketsOK, FlagsOK, OneWay, Lasting

LEMMA ConnectStep ==
    ASSUME MaxSockets \in Nat, WsInv, Ws!Connect
    PROVE  WsInv'
<1>1. /\ ~closed /\ socket = 0 /\ state' = "connecting"
      /\ ~timer
      /\ UNCHANGED <<closed, timer, explicit, finals>>
  BY DEF Ws!Connect, WsInv, OneWay
<1>2. Quiet(phase)
  BY <1>1 DEF WsInv, OneWay, Ws!LiveSockets, Ws!Sockets, Quiet
<1>3. CASE Ws!NewSocket(phase)
  BY <1>1, <1>2, <1>3, NewSocketLives DEF WsInv, SocketsOK, FlagsOK, OneWay, Lasting
<1>4. CASE UNCHANGED <<opened, socket, phase>>
  BY <1>1, <1>4 DEF WsInv, SocketsOK, FlagsOK, OneWay, Lasting, Ws!LiveSockets
<1> QED
  BY <1>3, <1>4 DEF Ws!Connect

LEMMA CloseStep ==
    ASSUME WsInv, Ws!Close
    PROVE  WsInv'
<1>1. /\ closed' = TRUE /\ explicit' = TRUE /\ state' = "closed" /\ timer' = FALSE
      /\ phase' = IF socket \in Ws!LiveSockets THEN [phase EXCEPT ![socket] = "closing"] ELSE phase
      /\ UNCHANGED <<socket, opened, finals>>
  BY DEF Ws!Close
<1>2. phase' \in [Ws!Sockets -> Phases]
  BY <1>1 DEF WsInv, SocketsOK, Phases
<1>3. Ws!LiveSockets' = {}
  BY <1>1, <1>2 DEF WsInv, SocketsOK, OneWay, Ws!LiveSockets
<1>4. finals <= 1
  BY DEF WsInv, Lasting, FlagsOK, SocketsOK
<1> QED
  BY <1>1, <1>2, <1>3, <1>4 DEF WsInv, SocketsOK, FlagsOK, OneWay, Lasting

LEMMA OpensStep ==
    ASSUME WsInv, NEW s \in Ws!Sockets, Ws!SocketOpens(s)
    PROVE  WsInv'
<1>1. /\ phase[s] = "connecting" /\ state' = "open"
      /\ phase' = [phase EXCEPT ![s] = "open"]
      /\ UNCHANGED <<socket, closed, timer, opened, explicit, finals>>
  BY DEF Ws!SocketOpens
<1>2. /\ phase' \in [Ws!Sockets -> Phases] /\ phase'[s] = "open"
      /\ \A t \in Ws!Sockets : t # s => phase'[t] = phase[t]
  BY <1>1 DEF WsInv, SocketsOK, Phases
<1>3. Ws!LiveSockets' = Ws!LiveSockets /\ s \in Ws!LiveSockets
  BY <1>1, <1>2 DEF Ws!LiveSockets
<1>4. socket # 0
  BY <1>3 DEF WsInv, OneWay, Ws!Sockets
<1> QED
  BY <1>1, <1>2, <1>3, <1>4 DEF WsInv, SocketsOK, FlagsOK, OneWay, Lasting

\* The drop of a socket that is not the transport's finds the transport closed.
LEMMA ClosesStep ==
    ASSUME MaxSockets \in Nat, WsInv, NEW s \in Ws!Sockets, Ws!SocketCloses(s)
    PROVE  WsInv'
<1> DEFINE phases == [phase EXCEPT ![s] = "closed"]
<1>1. /\ phases \in [Ws!Sockets -> Phases] /\ phases[s] = "closed"
      /\ \A t \in Ws!Sockets : t # s => phases[t] = phase[t]
  BY DEF WsInv, SocketsOK, Phases
<1>2. phase[s] \in {"connecting", "open", "closing"} /\ Ws!SocketDropped(phases)
  BY DEF Ws!SocketCloses
<1>3. CASE closed
  <2>1. /\ phase' = phases
        /\ UNCHANGED <<state, socket, closed, timer, opened, explicit, finals>>
    BY <1>2, <1>3 DEF Ws!SocketDropped
  <2>2. Ws!LiveSockets' \subseteq Ws!LiveSockets
    BY <1>1, <2>1 DEF Ws!LiveSockets
  <2> QED
    BY <1>1, <1>3, <2>1, <2>2 DEF WsInv, SocketsOK, FlagsOK, OneWay, Lasting
<1>4. CASE ~closed
  <2>1. s \in Ws!LiveSockets
    BY <1>2, <1>4 DEF WsInv, Lasting, Ws!LiveSockets
  <2>2. s = socket /\ s # 0
    BY <2>1 DEF WsInv, OneWay, Ws!Sockets
  <2>3. Quiet(phases)
    BY <1>1, <2>2 DEF WsInv, OneWay, Ws!LiveSockets, Quiet
  <2>4. \A t \in Ws!Sockets : phases[t] = "closing" => phase[t] = "closing"
    BY <1>1
  <2>5. timer = FALSE
    BY <2>2 DEF WsInv, OneWay, FlagsOK
  <2>6. CASE Ws!FinalClose(phases) /\ UNCHANGED timer
    BY <1>1, <1>4, <2>3, <2>5, <2>6, FinalCloseStep
  <2>7. CASE Ws!ScheduleReconnect(phases)
    BY <1>1, <1>4, <2>3, <2>4, <2>7, ReconnectStep
  <2> QED
    BY <1>2, <1>4, <2>6, <2>7 DEF Ws!SocketDropped
<1> QED
  BY <1>3, <1>4

LEMMA TimerStep ==
    ASSUME MaxSockets \in Nat, WsInv, Ws!TimerFires
    PROVE  WsInv'
<1>1. timer /\ timer' = FALSE
  BY DEF Ws!TimerFires
<1>2. ~closed /\ ~explicit /\ socket = 0
  BY <1>1 DEF WsInv, OneWay, Lasting
<1>3. Quiet(phase) /\ phase \in [Ws!Sockets -> Phases]
  BY <1>2 DEF WsInv, SocketsOK, OneWay, Ws!LiveSockets, Ws!Sockets, Quiet
<1>4. CASE Ws!NewSocket(phase) /\ UNCHANGED <<state, closed, explicit, finals>>
  BY <1>1, <1>2, <1>3, <1>4, NewSocketLives DEF WsInv, SocketsOK, FlagsOK, OneWay, Lasting
<1>5. CASE Ws!FinalClose(phase)
  BY <1>1, <1>2, <1>3, <1>5, FinalCloseStep
<1> QED
  BY <1>2, <1>4, <1>5 DEF Ws!TimerFires

LEMMA WsInit == Ws!Init => WsInv
<1> SUFFICES ASSUME Ws!Init
             PROVE  WsInv
  OBVIOUS
<1>1. FlagsOK
  BY Zenon DEF Ws!Init, FlagsOK
<1>2. Ws!LiveSockets = {}
  BY DEF Ws!Init, Ws!LiveSockets
<1> QED
  BY <1>1, <1>2 DEF Ws!Init, WsInv, SocketsOK, OneWay, Lasting, Phases

LEMMA WsStep == MaxSockets \in Nat /\ WsInv /\ [Ws!Next]_(Ws!vars) => WsInv'
<1> SUFFICES ASSUME MaxSockets \in Nat, WsInv, [Ws!Next]_(Ws!vars)
             PROVE  WsInv'
  OBVIOUS
<1>1. CASE UNCHANGED Ws!vars
  BY <1>1 DEF Ws!vars, WsInv, SocketsOK, FlagsOK, OneWay, Lasting, Ws!LiveSockets
<1> QED
  BY <1>1, ConnectStep, CloseStep, OpensStep, ClosesStep, TimerStep DEF Ws!Next

\* NoStraySocket: however drops, backoffs and calls of WebSocketTransport follow
\* each other, the one socket that lives is the one its close() would close.
THEOREM NothingStrays == Ws!Spec => []NoStraySocket
<1>1. WsInv => NoStraySocket
  BY DEF WsInv, OneWay, Lasting, NoStraySocket, Ws!NoStraySocket
<1> QED
  BY <1>1, WsInit, WsStep, NetworkBounds, PTL DEF Ws!Spec

\* Until it is closed the transport opened as many sockets as it counts attempts,
\* and one more unless it waits for the timer, or nothing was opened; the count stays
\* within the limit, and is the limit when it gives up.
Tried ==
    /\ attempts \in Nat /\ attemptLimit \in Nat
    /\ ~closed =>
          /\ timer => opened = attempts
          /\ socket # 0 => opened = attempts + 1
          /\ socket = 0 /\ ~timer => opened = 0 /\ attempts = 0
          /\ attemptLimit > 0 => attempts <= attemptLimit
    /\ finals = 1 /\ reconnect /\ ~thrown =>
          attemptLimit > 0 /\ attempts = attemptLimit /\ opened > attemptLimit

\* The end of a transport that may give up, given what it opened.
LEMMA FinalCloseTried ==
    ASSUME WsInv, Tried, ~closed, NEW phases, Ws!FinalClose(phases),
           \/ thrown'
           \/ /\ Ws!GivesUp /\ opened = attempts + 1
              /\ UNCHANGED <<reconnect, attemptLimit, thrown>>,
           UNCHANGED <<reconnect, attemptLimit>>
    PROVE  Tried'
<1>1. closed' = TRUE /\ UNCHANGED attempts /\ opened \in Nat
  BY DEF Ws!FinalClose, WsInv, SocketsOK
<1>2. opened' = opened \/ opened' = opened + 1
  BY DEF Ws!FinalClose, Ws!NewSocket
<1> QED
  BY <1>1, <1>2 DEF Tried, Ws!GivesUp

LEMMA DropTried ==
    ASSUME WsInv, Tried, NEW s \in Ws!Sockets, Ws!SocketCloses(s)
    PROVE  Tried'
<1> DEFINE phases == [phase EXCEPT ![s] = "closed"]
<1>1. /\ phase[s] \in {"connecting", "open", "closing"} /\ Ws!SocketDropped(phases)
      /\ UNCHANGED <<reconnect, attemptLimit, thrown>>
  BY DEF Ws!SocketCloses, Ws!optionVars
<1>2. CASE closed
  <2>1. UNCHANGED <<closed, attempts, opened, finals>>
    BY <1>1, <1>2 DEF Ws!SocketDropped
  <2> QED
    BY <1>1, <1>2, <2>1 DEF Tried
<1>3. CASE ~closed
  <2>1. s \in Ws!LiveSockets
    BY <1>1, <1>3 DEF WsInv, Lasting, Ws!LiveSockets
  <2>2. socket # 0 /\ opened = attempts + 1 /\ finals = 0
    BY <1>3, <2>1 DEF WsInv, OneWay, Lasting, Ws!Sockets, Tried
  <2>3. CASE Ws!GivesUp /\ Ws!FinalClose(phases)
    BY <1>1, <1>3, <2>2, <2>3, FinalCloseTried
  <2>4. CASE ~Ws!GivesUp /\ Ws!ScheduleReconnect(phases)
    <3>1. /\ socket' = 0 /\ timer' = TRUE /\ attempts' = attempts + 1
          /\ UNCHANGED <<closed, opened, finals>>
      BY <2>4 DEF Ws!ScheduleReconnect
    <3>2. attempts \in Nat /\ attemptLimit \in Nat
          /\ (attemptLimit > 0 => attempts < attemptLimit)
      BY <2>4 DEF Tried, Ws!GivesUp
    <3> QED
      BY <1>1, <1>3, <2>2, <3>1, <3>2 DEF Tried
  <2> QED
    BY <1>1, <1>3, <2>3, <2>4 DEF Ws!SocketDropped
<1> QED
  BY <1>2, <1>3

LEMMA TriedStep == WsInv /\ Tried /\ [Ws!Next]_(Ws!vars) => Tried'
<1> SUFFICES ASSUME WsInv, Tried, [Ws!Next]_(Ws!vars)
             PROVE  Tried'
  OBVIOUS
<1>1. CASE Ws!Connect
  <2>1. /\ ~closed /\ socket = 0 /\ ~timer /\ opened = 0 /\ attempts = 0
        /\ UNCHANGED <<reconnect, attemptLimit, closed, timer, attempts, finals, thrown>>
    BY <1>1 DEF Ws!Connect, Ws!optionVars, WsInv, OneWay, Tried
  <2>2. \/ socket' = 1 /\ opened' = 1
        \/ UNCHANGED <<socket, opened>>
    BY <1>1, <2>1 DEF Ws!Connect, Ws!NewSocket
  <2> QED
    BY <2>1, <2>2 DEF Tried, WsInv, Lasting
<1>2. CASE Ws!Close
  BY <1>2 DEF Ws!Close, Ws!optionVars, Tried
<1>3. ASSUME NEW s \in Ws!Sockets, Ws!SocketOpens(s)
      PROVE  Tried'
  BY <1>3 DEF Ws!SocketOpens, Ws!optionVars, Tried
<1>4. CASE Ws!TimerFires
  <2>1. /\ timer /\ timer' = FALSE /\ ~closed /\ socket = 0 /\ opened = attempts
        /\ finals = 0 /\ UNCHANGED <<reconnect, attemptLimit>>
    BY <1>4 DEF Ws!TimerFires, Ws!optionVars, WsInv, OneWay, Lasting, Tried
  <2>2. CASE Ws!NewSocket(phase) /\ UNCHANGED <<closed, attempts, finals, thrown>>
    <3>1. opened' = attempts + 1 /\ socket' = opened' /\ attempts \in Nat
      BY <2>1, <2>2 DEF Ws!NewSocket, Tried
    <3> QED
      BY <2>1, <2>2, <3>1 DEF Tried
  <2>3. CASE Ws!FinalClose(phase) /\ thrown' = TRUE
    BY <2>1, <2>3, FinalCloseTried
  <2> QED
    BY <1>4, <2>1, <2>2, <2>3 DEF Ws!TimerFires
<1>5. CASE UNCHANGED Ws!vars
  BY <1>5 DEF Ws!vars, Ws!optionVars, Tried
<1> QED
  BY <1>1, <1>2, <1>3, <1>4, <1>5, DropTried DEF Ws!Next

\* EndReportedOnce: finalClose() runs once at most, unless close() was called a
\* transport is closed only by it, and then it is not to reconnect, a constructor
\* threw, or each attempt it is allowed was made, with a socket of its own.
THEOREM ReportedOnce == Ws!Spec => []EndReportedOnce
<1>1. WsInv /\ Tried => EndReportedOnce
  BY DEF WsInv, SocketsOK, FlagsOK, Lasting, Tried, EndReportedOnce, Ws!EndReportedOnce
<1>2. Ws!Init => Tried
  BY NetworkBounds DEF Ws!Init, Tried
<1> QED
  BY <1>1, <1>2, WsInit, WsStep, TriedStep, NetworkBounds, PTL DEF Ws!Spec

-----------------------------------------------------------------------------
(* Gb28181Session.                                                           *)

\* The last INVITE.
Latest == cseq["INVITE"]

Refused == Gb!Kinds \ Gb!Success
InDialog == {"INVITING", "PLAYING", "STOPPING"}

NumbersOK ==
    /\ dialog \in {"IDLE", "REGISTERING"} \cup InDialog \cup Gb!Ended
    /\ abandoned \in BOOLEAN
    /\ cseq \in [Gb!Methods -> 0..MaxRequests]
    /\ byes \in 0..cseq["BYE"]
    /\ verdict \in [Gb!Numbers -> Gb!Kinds \cup {"none"}]
    /\ \A n \in Gb!Numbers : n > Latest => verdict[n] = "none"

\* Which INVITEs the server answered how, and what it streams therefore.
Agreed ==
    /\ \A n \in 1..Latest :
           /\ n < Latest \/ dialog \in {"IDLE", "REGISTERING"} => verdict[n] \in Refused
           /\ dialog = "TERMINATED" => verdict[n] # "none"
    /\ dialog \in InDialog => Latest >= 1
    /\ dialog \in {"PLAYING", "STOPPING"} => verdict[Latest] \in Gb!Success /\ taken = Latest
    /\ dialog \notin {"STOPPING", "TERMINATED"} => cseq["BYE"] = 0
    /\ streaming = IF dialog \in InDialog /\ verdict[Latest] \in Gb!Success /\ byes = 0
                   THEN {Latest} ELSE {}

\* They hold while no dialog was abandoned and no error ended the session.
Dialogs == ~abandoned /\ dialog # "ERROR" => Agreed

MediaTaken == media \in {0, taken}

GbInv == NumbersOK /\ Dialogs /\ MediaTaken

-----------------------------------------------------------------------------
LEMMA NumbersInRange ==
    ASSUME NumbersOK, MaxRequests \in Nat
    PROVE  /\ Latest \in Nat /\ Latest \in 0..MaxRequests
           /\ \A n \in 1..Latest : n \in Gb!Numbers /\ verdict[n] \in Gb!Kinds \cup {"none"}
  BY DEF NumbersOK, Latest, Gb!Methods, Gb!Numbers

\* A request that is built has the next number of its method.
LEMMA BuildCounts ==
    ASSUME NumbersOK, MaxRequests \in Nat, NEW m \in Gb!Methods, Gb!Build(m)
    PROVE  /\ cseq' \in [Gb!Methods -> 0..MaxRequests]
           /\ cseq'[m] = cseq[m] + 1
           /\ \A o \in Gb!Methods : o # m => cseq'[o] = cseq[o]
           /\ byes' \in 0..cseq'["BYE"]
           /\ UNCHANGED Gb!serverVars
<1>1. /\ cseq[m] + 1 \in 0..MaxRequests
      /\ cseq' = [cseq EXCEPT ![m] = @ + 1]
      /\ "BYE" \in Gb!Methods /\ byes' = byes
  BY DEF NumbersOK, Gb!Build, Gb!serverVars, Gb!Methods
<1>2. /\ cseq' \in [Gb!Methods -> 0..MaxRequests]
      /\ cseq'[m] = cseq[m] + 1
      /\ \A o \in Gb!Methods : o # m => cseq'[o] = cseq[o]
  BY <1>1 DEF NumbersOK
<1> QED
  BY <1>1, <1>2 DEF NumbersOK, Gb!Build

LEMMA RegisterStep ==
    ASSUME GbInv, MaxRequests \in Nat, NEW challenge \in BOOLEAN, Gb!Register(challenge)
    PROVE  GbInv'
<1>1. "REGISTER" \in Gb!Methods /\ "INVITE" \in Gb!Methods /\ "BYE" \in Gb!Methods
  BY DEF Gb!Methods
<1>2. /\ cseq' \in [Gb!Methods -> 0..MaxRequests]
      /\ Latest' = Latest /\ cseq'["BYE"] = cseq["BYE"]
      /\ byes' \in 0..cseq'["BYE"]
      /\ UNCHANGED Gb!serverVars
  BY <1>1, BuildCounts DEF GbInv, Gb!Register, Latest
<1>3. dialog \notin Gb!Ended /\ dialog' = "REGISTERING" /\ UNCHANGED <<media, taken>>
  BY DEF Gb!Register
<1>4. abandoned' \in BOOLEAN /\ (~abandoned' => ~abandoned /\ ~Gb!LeavesDialog)
  BY Zenon DEF Gb!Register, GbInv, NumbersOK
<1>5. NumbersOK'
  BY <1>2, <1>3, <1>4 DEF GbInv, NumbersOK, Gb!serverVars
<1>6. ASSUME ~abandoned'
      PROVE  Agreed'
  <2>1. Agreed /\ ~Gb!LeavesDialog
    BY <1>3, <1>4, <1>6 DEF GbInv, Dialogs, Gb!Ended
  <2>2. /\ dialog \in {"IDLE", "REGISTERING", "INVITING"}
        /\ dialog = "INVITING" => verdict[Latest] \notin Gb!Success \cup {"none"}
    BY <1>3, <2>1 DEF GbInv, NumbersOK, Gb!LeavesDialog, Latest, InDialog
  <2>3. \A n \in 1..Latest : verdict[n] \in Refused
    BY <2>1, <2>2, NumbersInRange DEF Agreed, GbInv, Refused
  <2>4. streaming = {} /\ cseq["BYE"] = 0
    BY <2>1, <2>2 DEF Agreed, InDialog
  <2> QED
    BY <1>2, <1>3, <2>3, <2>4 DEF Agreed, InDialog, Gb!serverVars
<1> QED
  BY <1>3, <1>5, <1>6 DEF GbInv, MediaTaken, Dialogs

LEMMA InviteStep ==
    ASSUME GbInv, MaxRequests \in Nat, Gb!Invite
    PROVE  GbInv'
<1>1. "REGISTER" \in Gb!Methods /\ "INVITE" \in Gb!Methods /\ "BYE" \in Gb!Methods
  BY DEF Gb!Methods
<1>2. /\ cseq' \in [Gb!Methods -> 0..MaxRequests]
      /\ Latest' = Latest + 1 /\ cseq'["BYE"] = cseq["BYE"]
      /\ byes' \in 0..cseq'["BYE"]
      /\ UNCHANGED Gb!serverVars
  BY <1>1, BuildCounts DEF GbInv, Gb!Invite, Latest
<1>3. /\ dialog = "IDLE" /\ dialog' = "INVITING"
      /\ media' = 0
      /\ UNCHANGED <<taken, abandoned>>
  BY DEF Gb!Invite
<1>4. NumbersOK'
  <2>1. \A n \in Gb!Numbers : n > Latest' => n > Latest
    BY <1>2, NumbersInRange DEF GbInv, Gb!Numbers
  <2>2. \A n \in Gb!Numbers : n > Latest' => verdict'[n] = "none"
    BY <1>2, <2>1 DEF GbInv, NumbersOK, Gb!serverVars
  <2> QED
    BY <1>2, <1>3, <2>2 DEF GbInv, NumbersOK, Gb!serverVars, InDialog
<1>5. ASSUME ~abandoned'
      PROVE  Agreed'
  <2>1. Agreed
    BY <1>3, <1>5 DEF GbInv, Dialogs
  <2>2. \A n \in 1..Latest' : n < Latest' => n \in 1..Latest
    BY <1>2, NumbersInRange DEF GbInv
  <2>3. \A n \in 1..Latest' : n < Latest' => verdict[n] \in Refused
    BY <1>3, <2>1, <2>2 DEF Agreed
  <2>4. streaming = {} /\ cseq["BYE"] = 0
    BY <1>3, <2>1 DEF Agreed, InDialog
  <2>5. Latest' \in Gb!Numbers /\ Latest' > Latest
    BY <1>2, NumbersInRange DEF GbInv, Gb!Numbers, Latest, Gb!Methods
  <2>6. verdict[Latest'] = "none"
    BY <2>5 DEF GbInv, NumbersOK
  <2>7. Latest' >= 1 /\ verdict' = verdict
    BY <1>2, <2>5 DEF Gb!Numbers, Gb!serverVars
  <2> QED
    BY <1>2, <1>3, <2>3, <2>4, <2>6, <2>7 DEF Agreed, InDialog, Gb!serverVars, Gb!Success
<1> QED
  BY <1>3, <1>4, <1>5 DEF GbInv, MediaTaken, Dialogs

LEMMA ByeStep ==
    ASSUME GbInv, MaxRequests \in Nat, Gb!Bye
    PROVE  GbInv'
<1>1. "REGISTER" \in Gb!Methods /\ "INVITE" \in Gb!Methods /\ "BYE" \in Gb!Methods
  BY DEF Gb!Methods
<1>2. /\ cseq' \in [Gb!Methods -> 0..MaxRequests]
      /\ Latest' = Latest
      /\ byes' \in 0..cseq'["BYE"]
      /\ UNCHANGED Gb!serverVars
  BY <1>1, BuildCounts DEF GbInv, Gb!Bye, Latest
<1>3. /\ dialog = "PLAYING" /\ dialog' = "STOPPING"
      /\ UNCHANGED <<media, taken, abandoned>>
  BY DEF Gb!Bye
<1>4. NumbersOK'
  BY <1>2, <1>3 DEF GbInv, NumbersOK, Gb!serverVars, InDialog
<1>5. Agreed => Agreed'
  BY <1>2, <1>3 DEF Agreed, InDialog, Gb!serverVars
<1> QED
  BY <1>3, <1>4, <1>5 DEF GbInv, MediaTaken, Dialogs

LEMMA TerminateStep ==
    ASSUME GbInv, MaxRequests \in Nat, Gb!Terminate
    PROVE  GbInv'
<1>1. /\ dialog \notin Gb!Ended /\ dialog' = "TERMINATED"
      /\ UNCHANGED <<media, cseq, Gb!serverVars, taken>>
  BY DEF Gb!Terminate
<1>2. abandoned' \in BOOLEAN /\ (~abandoned' => ~abandoned /\ ~Gb!LeavesDialog)
  BY Zenon DEF Gb!Terminate, GbInv, NumbersOK
<1>3. NumbersOK'
  BY <1>1, <1>2 DEF GbInv, NumbersOK, Gb!serverVars, Latest, Gb!Ended
<1>4. ASSUME ~abandoned'
      PROVE  Agreed'
  <2>1. Agreed /\ ~Gb!LeavesDialog
    BY <1>1, <1>2, <1>4 DEF GbInv, Dialogs, Gb!Ended
  <2>2. /\ dialog \in {"IDLE", "REGISTERING", "INVITING"}
        /\ dialog = "INVITING" => verdict[Latest] \notin Gb!Success \cup {"none"}
    BY <1>1, <2>1 DEF GbInv, NumbersOK, Gb!LeavesDialog, Latest, InDialog
  <2>3. \A n \in 1..Latest : verdict[n] \in Refused
    BY <2>1, <2>2, NumbersInRange DEF Agreed, GbInv, Refused
  <2>4. streaming = {}
    BY <2>1, <2>2 DEF Agreed, InDialog
  <2> QED
    BY <1>1, <2>3, <2>4 DEF Agreed, InDialog, Refused, Gb!Kinds, Gb!serverVars, Latest
<1> QED
  BY <1>1, <1>3, <1>4 DEF GbInv, MediaTaken, Dialogs

\* A 2xx to an INVITE answers the last one, and one to a BYE comes when the
\* server has stopped.
LEMMA ReceiveStep ==
    ASSUME GbInv, MaxRequests \in Nat, Gb!Receive
    PROVE  GbInv'
<1>0. PICK m \in Gb!Methods : \E n \in 1..cseq[m], k \in Gb!Kinds :
          /\ Gb!Answered(m, n, k)
          /\ LET a == [method |-> m, number |-> n, kind |-> k]
             IN  Gb!HandleChallenge(a) \/ Gb!HandleRefusal(a) \/ Gb!HandleSuccess(a)
  BY DEF Gb!Receive
<1>1. PICK n \in 1..cseq[m], k \in Gb!Kinds :
          /\ Gb!Answered(m, n, k)
          /\ LET a == [method |-> m, number |-> n, kind |-> k]
             IN  Gb!HandleChallenge(a) \/ Gb!HandleRefusal(a) \/ Gb!HandleSuccess(a)
  BY <1>0
<1> DEFINE a == [method |-> m, number |-> n, kind |-> k]
<1>2. UNCHANGED <<cseq, Gb!serverVars, abandoned>>
  BY DEF Gb!Receive
<1>3. CASE Gb!HandleChallenge(a) \/ Gb!HandleRefusal(a)
  <2>1. dialog' \in {dialog, "ERROR"} /\ UNCHANGED <<media, taken>>
    BY <1>3 DEF Gb!HandleChallenge, Gb!HandleRefusal
  <2>2. NumbersOK'
    BY <1>2, <2>1 DEF GbInv, NumbersOK, Gb!serverVars, Latest, Gb!Ended
  <2>3. dialog' # "ERROR" /\ Agreed => Agreed'
    BY <1>2, <2>1 DEF Agreed, Gb!serverVars, Latest
  <2> QED
    BY <1>2, <2>1, <2>2, <2>3 DEF GbInv, MediaTaken, Dialogs
<1>4. CASE Gb!HandleSuccess(a)
  <2>1. k \in Gb!Success
    BY <1>4 DEF Gb!HandleSuccess, Gb!Success
  <2>2. CASE m = "REGISTER"
    <3>1. dialog = "REGISTERING" /\ dialog' = "IDLE" /\ UNCHANGED <<media, taken>>
      BY <1>4, <2>2 DEF Gb!HandleSuccess
    <3>2. NumbersOK'
      BY <1>2, <3>1 DEF GbInv, NumbersOK, Gb!serverVars, Latest
    <3>3. Agreed => Agreed'
      BY <1>2, <3>1 DEF Agreed, InDialog, Gb!serverVars, Latest
    <3> QED
      BY <1>2, <3>1, <3>2, <3>3 DEF GbInv, MediaTaken, Dialogs
  <2>3. CASE m = "INVITE"
    <3>1. /\ dialog = "INVITING" /\ dialog' = "PLAYING"
          /\ media' \in {0, n} /\ taken' = n
      BY <1>4, <2>3 DEF Gb!HandleSuccess
    <3>2. NumbersOK'
      BY <1>2, <3>1 DEF GbInv, NumbersOK, Gb!serverVars, Latest, InDialog
    <3>3. n \in 1..Latest /\ verdict[n] \in Gb!Success
      BY <1>1, <2>1, <2>3 DEF Gb!Answered, Latest
    <3>4. Agreed => n = Latest
      BY <3>3, NumbersInRange DEF Agreed, Refused, GbInv
    <3>5. Agreed => Agreed'
      BY <1>2, <3>1, <3>3, <3>4 DEF Agreed, InDialog, Gb!serverVars, Latest
    <3> QED
      BY <1>2, <3>1, <3>2, <3>5 DEF GbInv, MediaTaken, Dialogs
  <2>4. CASE m = "BYE"
    <3>1. dialog = "STOPPING" /\ dialog' = "TERMINATED" /\ UNCHANGED <<media, taken>>
      BY <1>4, <2>4 DEF Gb!HandleSuccess
    <3>2. NumbersOK'
      BY <1>2, <3>1 DEF GbInv, NumbersOK, Gb!serverVars, Latest, Gb!Ended
    <3>3. byes # 0
      BY <1>1, <2>1, <2>4 DEF Gb!Answered, GbInv, NumbersOK, Gb!Methods
    <3>4. Agreed => \A i \in 1..Latest : verdict[i] # "none"
      BY <3>1, NumbersInRange DEF Agreed, Refused, Gb!Kinds, Gb!Success, GbInv
    <3>5. Agreed => Agreed'
      BY <1>2, <3>1, <3>3, <3>4 DEF Agreed, InDialog, Gb!serverVars, Latest
    <3> QED
      BY <1>2, <3>1, <3>2, <3>5 DEF GbInv, MediaTaken, Dialogs
  <2> QED
    BY <2>2, <2>3, <2>4 DEF Gb!Methods
<1> QED
  BY <1>1, <1>3, <1>4

LEMMA ServerInvitedStep ==
    ASSUME GbInv, MaxRequests \in Nat, Gb!ServerInvited
    PROVE  GbInv'
<1>1. PICK n \in 1..cseq["INVITE"], k \in Gb!Kinds :
          /\ verdict[n] = "none"
          /\ verdict' = [verdict EXCEPT ![n] = k]
          /\ streaming' = IF k \in Gb!Success THEN streaming \cup {n} ELSE streaming
  BY DEF Gb!ServerInvited
<1>2. UNCHANGED <<dialog, media, cseq, byes, taken, abandoned>>
  BY DEF Gb!ServerInvited
<1>3. n \in 1..Latest /\ n \in Gb!Numbers /\ Latest \in Nat
  BY NumbersInRange DEF GbInv, Latest
<1>4. /\ verdict'[n] = k
      /\ \A i \in Gb!Numbers : i # n => verdict'[i] = verdict[i]
      /\ verdict' \in [Gb!Numbers -> Gb!Kinds \cup {"none"}]
  BY <1>1, <1>3 DEF GbInv, NumbersOK
<1>5. NumbersOK'
  BY <1>2, <1>3, <1>4 DEF GbInv, NumbersOK, Latest
<1>6. ASSUME Agreed, dialog # "ERROR"
      PROVE  Agreed'
  <2>1. n = Latest /\ dialog = "INVITING"
    BY <1>1, <1>3, <1>6
       DEF Agreed, GbInv, NumbersOK, Refused, Gb!Kinds, Gb!Success, InDialog, Gb!Ended
  <2>2. \A i \in 1..Latest : i < Latest => verdict'[i] \in Refused
    BY <1>3, <1>4, <1>6, <2>1, NumbersInRange DEF Agreed, GbInv
  <2>3. streaming = {} /\ cseq["BYE"] = 0 /\ byes = 0
    BY <1>1, <1>6, <2>1 DEF Agreed, Gb!Success, GbInv, NumbersOK
  <2> QED
    BY <1>1, <1>2, <1>3, <1>4, <2>1, <2>2, <2>3 DEF Agreed, InDialog, Latest
<1> QED
  BY <1>2, <1>5, <1>6 DEF GbInv, MediaTaken, Dialogs

LEMMA ServerHangsUpStep ==
    ASSUME GbInv, MaxRequests \in Nat, Gb!ServerHangsUp
    PROVE  GbInv'
<1>1. /\ byes < cseq["BYE"] /\ byes' = byes + 1 /\ streaming' = {}
      /\ UNCHANGED <<dialog, media, cseq, verdict, taken, abandoned>>
  BY DEF Gb!ServerHangsUp
<1>2. cseq["BYE"] \in Nat /\ byes \in Nat /\ byes' # 0 /\ byes' \in 0..cseq["BYE"]
  BY <1>1 DEF GbInv, NumbersOK, Gb!Methods
<1>3. NumbersOK'
  BY <1>1, <1>2 DEF GbInv, NumbersOK, Latest
<1>4. Agreed => Agreed'
  BY <1>1, <1>2 DEF Agreed, Latest
<1> QED
  BY <1>1, <1>3, <1>4 DEF GbInv, MediaTaken, Dialogs

LEMMA GbStep == MaxRequests \in Nat /\ GbInv /\ [Gb!Next]_(Gb!vars) => GbInv'
<1> SUFFICES ASSUME MaxRequests \in Nat, GbInv, [Gb!Next]_(Gb!vars)
             PROVE  GbInv'
  OBVIOUS
<1>1. CASE UNCHANGED Gb!vars
  BY <1>1 DEF Gb!vars, Gb!serverVars, GbInv, NumbersOK, Dialogs, Agreed, MediaTaken, Latest
<1> QED
  BY <1>1, RegisterStep, InviteStep, ByeStep, TerminateStep, ReceiveStep,
     ServerInvitedStep, ServerHangsUpStep DEF Gb!Next

LEMMA GbInit == MaxRequests \in Nat /\ Gb!Init => GbInv
<1> SUFFICES ASSUME MaxRequests \in Nat, Gb!Init
             PROVE  GbInv
  OBVIOUS
<1>1. cseq \in [Gb!Methods -> 0..MaxRequests] /\ Latest = 0 /\ cseq["BYE"] = 0
  BY DEF Gb!Init, Latest, Gb!Methods
<1>2. verdict \in [Gb!Numbers -> Gb!Kinds \cup {"none"}] /\ \A n \in Gb!Numbers : verdict[n] = "none"
  BY DEF Gb!Init
<1>3. NumbersOK
  <2>1. dialog = "IDLE" /\ abandoned \in BOOLEAN
    BY Zenon DEF Gb!Init
  <2>2. byes \in 0..cseq["BYE"]
    BY <1>1 DEF Gb!Init
  <2> QED
    BY <1>1, <1>2, <2>1, <2>2 DEF NumbersOK
<1>4. Agreed /\ MediaTaken
  BY <1>1 DEF Gb!Init, Agreed, MediaTaken, InDialog
<1> QED
  BY <1>3, <1>4 DEF GbInv, Dialogs

\* DialogsAgree: as long as register() and terminate() leave no dialog behind,
\* Gb28181Session.handleMessage() takes the answer to the INVITE it built last, and
\* is told of the end of a dialog only when the server has stopped streaming.
THEOREM ClientAndServerAgree == Gb!Spec => []DialogsAgree
<1>1. Gb!Init => GbInv
  BY GbInit, NetworkBounds
<1>2. GbInv /\ [Gb!Next]_(Gb!vars) => GbInv'
  BY GbStep, NetworkBounds
<1>3. GbInv => DialogsAgree
  <2> SUFFICES ASSUME GbInv, ~abandoned
               PROVE  DialogsAgree
    BY DEF DialogsAgree, Gb!DialogsAgree
  <2>1. dialog = "PLAYING" => streaming = {Latest} /\ taken = Latest
    BY DEF GbInv, Dialogs, Agreed, InDialog, NumbersOK
  <2>2. dialog = "TERMINATED" => streaming = {}
    BY DEF GbInv, Dialogs, Agreed, InDialog
  <2> QED
    BY <2>1, <2>2 DEF DialogsAgree, Gb!DialogsAgree, GbInv, MediaTaken, Latest
<1> QED
  BY <1>1, <1>2, <1>3, PTL DEF Gb!Spec

\* EndIsFinal: in "TERMINATED" and "ERROR" no method of Gb28181Session builds a
\* request and no message brings it back.
THEOREM EndedStaysEnded == Gb!Spec => EndIsFinal
<1>1. [Gb!Next]_(Gb!vars) =>
          [(dialog \in Gb!Ended) => (dialog' \in Gb!Ended /\ cseq' = cseq /\ media' = media)]_(Gb!vars)
  <2> SUFFICES ASSUME Gb!Next, dialog \in Gb!Ended
               PROVE  dialog' \in Gb!Ended /\ cseq' = cseq /\ media' = media
    OBVIOUS
  <2>1. dialog \in {"TERMINATED", "ERROR"}
    BY DEF Gb!Ended
  <2>2. CASE Gb!Receive
    BY <2>1, <2>2 DEF Gb!Receive, Gb!HandleChallenge, Gb!HandleRefusal, Gb!HandleSuccess, Gb!Ended
  <2>3. CASE Gb!ServerInvited \/ Gb!ServerHangsUp
    BY <2>3 DEF Gb!ServerInvited, Gb!ServerHangsUp
  <2>4. ~Gb!Register(TRUE) /\ ~Gb!Register(FALSE) /\ ~Gb!Invite /\ ~Gb!Bye /\ ~Gb!Terminate
    BY <2>1 DEF Gb!Register, Gb!Invite, Gb!Bye, Gb!Terminate, Gb!Ended
  <2> QED
    BY <2>2, <2>3, <2>4 DEF Gb!Next
<1> QED
  BY <1>1, PTL DEF Gb!Spec, EndIsFinal, Gb!EndIsFinal

-----------------------------------------------------------------------------
(* WhepSource.                                                               *)

CountsOK ==
    /\ queued \in Nat /\ trickling \in Nat
    /\ gathered \in Nat /\ sent \in Nat /\ unsent \in Nat

\* The candidate that flushCandidates() took from the queue, if it awaits one.
InFlush == IF whepAwaiting = "patchCandidate" THEN 1 ELSE 0

\* connect() was answered, so that candidates go to the server directly.
AnsweredAwaits == {"setRemote", "createAnswer", "setLocalAnswer", "patchAnswer", "patchCandidate"}

Candidates ==
    /\ CountsOK
    /\ peer = "open" => whepStarted
    /\ ~whepStarted => whepAwaiting = "nothing"
    /\ whepAwaiting \in AnsweredAwaits => patchUrl
    /\ ~whepStopped /\ ~whepFailed =>
          /\ gathered = queued + trickling + sent + unsent + InFlush
          /\ whepStarted /\ whepAwaiting = "nothing" => patchUrl /\ queued = 0

LEMMA CandidatesInit == Whep!Init => Candidates
BY DEF Whep!Init, Candidates, CountsOK, InFlush, AnsweredAwaits

LEMMA CandidatesStep == Candidates /\ [Whep!Next]_(Whep!vars) => Candidates'
<1> SUFFICES ASSUME Candidates, [Whep!Next]_(Whep!vars)
             PROVE  Candidates'
  OBVIOUS
<1> USE DEF Candidates, CountsOK, InFlush, AnsweredAwaits
<1>1. CASE Whep!Start
  BY <1>1 DEF Whep!Start, Whep!candidateVars
<1>2. CASE Whep!Stop \/ Whep!IceFails
  BY <1>2 DEF Whep!Stop, Whep!IceFails, Whep!Release
<1>3. CASE Whep!PromiseResolved
  BY <1>3 DEF Whep!PromiseResolved, Whep!candidateVars
<1>4. CASE Whep!PostAnswered
  BY <1>4 DEF Whep!PostAnswered, Whep!candidateVars
<1>5. CASE Whep!Negotiated
  BY <1>5 DEF Whep!Negotiated, Whep!Finish, Whep!Flush
<1>6. CASE Whep!AnswerPatched
  BY <1>6 DEF Whep!AnswerPatched, Whep!Finish, Whep!Flush, Whep!Dispatched, Whep!Release
<1>7. CASE Whep!CandidatePatched
  BY <1>7 DEF Whep!CandidatePatched, Whep!Flush, Whep!Dispatched, Whep!Release
<1>8. CASE Whep!Rejected
  BY <1>8 DEF Whep!Rejected, Whep!Dispatched, Whep!Release
<1>9. CASE Whep!CandidateGathered
  BY <1>9 DEF Whep!CandidateGathered, Whep!mediaVars
<1>10. CASE Whep!CandidateTrickled
  BY <1>10 DEF Whep!CandidateTrickled, Whep!Release
<1>11. CASE Whep!CandidateLost
  BY <1>11 DEF Whep!CandidateLost, Whep!mediaVars
<1>12. CASE Whep!TrackAdded \/ Whep!TrackEnds \/ UNCHANGED Whep!vars
  BY <1>12 DEF Whep!TrackAdded, Whep!TrackEnds, Whep!vars, Whep!candidateVars
<1> QED
  BY <1>1, <1>2, <1>3, <1>4, <1>5, <1>6, <1>7, <1>8, <1>9, <1>10, <1>11, <1>12
     DEF Whep!Next, Whep!Settled, Whep!Trickled

\* No candidate is stranded between the queue of connect() and the direct PATCH
\* of queueCandidate(), for any number of candidates gathered at any time: once all
\* is settled each was sent, or its direct PATCH was rejected by the network.
THEOREM NoCandidateStranded == Whep!Spec => []CandidatesReachServer
<1>1. Candidates => CandidatesReachServer
  BY DEF Candidates, CountsOK, InFlush, CandidatesReachServer, Whep!CandidatesReachServer
<1> QED
  BY <1>1, CandidatesInit, CandidatesStep, PTL DEF Whep!Spec

-----------------------------------------------------------------------------
\* What is left after stop(): no connection; and what delivered late was the last to
\* do so.
WhepLeft ==
    /\ trickling \in Nat
    /\ whepStopped => peer # "open"
    /\ ~whepStarted => /\ peer = "none" /\ whepAwaiting = "nothing" /\ trickling = 0
                       /\ processors = {} /\ attached = {}
    /\ whepLate \in {0, 1}
    /\ whepLate = 1 => /\ whepStopped
                       /\ whepAwaiting \in {"patchCandidate", "rejection", "nothing"}

WhepStatus == IF whepStopped THEN "stopped" ELSE IF whepStarted THEN "running" ELSE "idle"
WhepBusy ==
    \/ peer = "open" \/ whepAwaiting \in Whep!Requests \/ trickling > 0
    \/ processors # {} \/ attached # {}

\* A step of a source, said of what it is seen as.
SourceStep(status, busy, late, status1, busy1, late1) ==
    \/ status = "idle" /\ status1 = "running" /\ late1 = late
    \/ status = "running" /\ status1 = "running" /\ late1 = late
    \/ status # "stopped" /\ status1 = "stopped" /\ late1 \in {late, 1}
    \/ status = "stopped" /\ busy /\ status1 = "stopped" /\ late1 \in {late, 1}
    \/ status1 = status /\ (busy1 <=> busy) /\ late1 = late

LEMMA WhepMaps ==
    SourceStep(WhepStatus, WhepBusy, whepLate, WhepStatus', WhepBusy', whepLate')
        => [Whep!Source!Next]_(Whep!Source!vars)
<1>1. /\ Whep!Source!Start <=> /\ WhepStatus = "idle" /\ WhepStatus' = "running"
                               /\ WhepBusy' \in BOOLEAN /\ whepLate' = whepLate
      /\ Whep!Source!Run <=> /\ WhepStatus = "running" /\ WhepBusy' \in BOOLEAN
                             /\ WhepStatus' = WhepStatus /\ whepLate' = whepLate
      /\ Whep!Source!Stop <=> /\ WhepStatus # "stopped" /\ WhepStatus' = "stopped"
                              /\ WhepBusy' \in BOOLEAN /\ whepLate' \in {whepLate, 1}
      /\ Whep!Source!Drain <=> /\ WhepStatus = "stopped" /\ WhepBusy /\ WhepBusy' \in BOOLEAN
                               /\ whepLate' \in {whepLate, 1} /\ WhepStatus' = WhepStatus
      /\ UNCHANGED Whep!Source!vars <=> /\ WhepStatus' = WhepStatus /\ WhepBusy' = WhepBusy
                                        /\ whepLate' = whepLate
  BY Zenon DEF Whep!Source!Start, Whep!Source!Run, Whep!Source!Stop, Whep!Source!Drain,
               Whep!Source!vars, WhepStatus, WhepBusy
<1>2. WhepBusy' \in BOOLEAN
  BY Zenon DEF WhepBusy
<1>3. (WhepBusy' <=> WhepBusy) => WhepBusy' = WhepBusy
  BY Zenon DEF WhepBusy
<1> QED
  BY <1>1, <1>2, <1>3, Zenon DEF SourceStep, Whep!Source!Next

LEMMA WhepLeftInit == Whep!Init => WhepLeft
BY DEF Whep!Init, WhepLeft

LEMMA WhepLeftStep ==
    ASSUME WhepLeft, [Whep!Next]_(Whep!vars)
    PROVE  /\ WhepLeft'
           /\ SourceStep(WhepStatus, WhepBusy, whepLate, WhepStatus', WhepBusy', whepLate')
<1> USE DEF WhepLeft, WhepStatus, WhepBusy, SourceStep, Whep!Requests
<1>1. CASE Whep!Start
  BY <1>1 DEF Whep!Start, Whep!candidateVars, Whep!mediaVars
<1>2. CASE Whep!Stop \/ Whep!IceFails
  BY <1>2 DEF Whep!Stop, Whep!IceFails, Whep!Release
<1>3. CASE Whep!PromiseResolved \/ Whep!PostAnswered \/ Whep!CandidateGathered
  BY <1>3 DEF Whep!PromiseResolved, Whep!PostAnswered, Whep!CandidateGathered,
              Whep!candidateVars, Whep!mediaVars
<1>5. CASE Whep!Negotiated
  BY <1>5 DEF Whep!Negotiated, Whep!Finish, Whep!Flush
<1>6. CASE Whep!AnswerPatched
  BY <1>6 DEF Whep!AnswerPatched, Whep!Finish, Whep!Flush, Whep!Dispatched, Whep!Release
<1>7. CASE Whep!CandidatePatched
  BY <1>7 DEF Whep!CandidatePatched, Whep!Flush, Whep!Dispatched, Whep!Release
<1>8. CASE Whep!Rejected
  BY <1>8 DEF Whep!Rejected, Whep!Dispatched, Whep!Release
<1>10. CASE Whep!CandidateTrickled
  BY <1>10 DEF Whep!CandidateTrickled, Whep!Release
<1>11. CASE Whep!CandidateLost
  BY <1>11 DEF Whep!CandidateLost, Whep!mediaVars
<1>12. CASE Whep!TrackAdded \/ Whep!TrackEnds \/ UNCHANGED Whep!vars
  BY <1>12 DEF Whep!TrackAdded, Whep!TrackEnds, Whep!vars, Whep!candidateVars, Whep!mediaVars
<1> QED
  BY <1>1, <1>2, <1>3, <1>5, <1>6, <1>7, <1>8, <1>10, <1>11, <1>12
     DEF Whep!Next, Whep!Settled, Whep!Trickled

\* The safety part of ImplementsSource for WhepSource: after stop() its pipeline
\* dispatches at most once more, the configuration of the SDP.
THEOREM WhepStopIsFinal ==
    Whep!Spec => Whep!Source!Init /\ [][Whep!Source!Next]_(Whep!Source!vars)
<1>1. Whep!Init => Whep!Source!Init
  <2> SUFFICES ASSUME Whep!Init
               PROVE  Whep!Source!Init
    OBVIOUS
  <2>1. WhepStatus = "idle" /\ WhepBusy = FALSE /\ whepLate = 0
    BY DEF Whep!Init, WhepStatus, WhepBusy, Whep!Requests
  <2> QED
    BY <2>1, Zenon DEF Whep!Source!Init, WhepStatus, WhepBusy
<1>2. WhepLeft /\ [Whep!Next]_(Whep!vars) => WhepLeft' /\ [Whep!Source!Next]_(Whep!Source!vars)
  BY WhepLeftStep, WhepMaps
<1> QED
  BY <1>1, <1>2, WhepLeftInit, PTL DEF Whep!Spec

-----------------------------------------------------------------------------
(* PsSource.                                                                 *)

PsLeft ==
    /\ transport \in Ps!Transport
    /\ blobs \in Nat
    /\ psStopped => connection # "open" /\ (loop # "nothing" => answer # "no")
    /\ ~psStarted => connection = "none" /\ loop = "nothing" /\ blobs = 0
    /\ loop = "nothing" => answer = "no"
    /\ transport = "ws" => loop = "nothing"
    /\ blobs > 0 => transport = "ws"
    /\ psLate \in {0, 1}
    /\ psLate = 1 => psStopped /\ answer \in {"no", "rejected"}

PsStatus == IF psStopped THEN "stopped" ELSE IF psStarted THEN "running" ELSE "idle"
PsBusy == connection = "open" \/ loop # "nothing" \/ blobs > 0

LEMMA PsMaps ==
    SourceStep(PsStatus, PsBusy, psLate, PsStatus', PsBusy', psLate')
        => [Ps!Source!Next]_(Ps!Source!vars)
<1>1. /\ Ps!Source!Start <=> /\ PsStatus = "idle" /\ PsStatus' = "running"
                             /\ PsBusy' \in BOOLEAN /\ psLate' = psLate
      /\ Ps!Source!Run <=> /\ PsStatus = "running" /\ PsBusy' \in BOOLEAN
                           /\ PsStatus' = PsStatus /\ psLate' = psLate
      /\ Ps!Source!Stop <=> /\ PsStatus # "stopped" /\ PsStatus' = "stopped"
                            /\ PsBusy' \in BOOLEAN /\ psLate' \in {psLate, 1}
      /\ Ps!Source!Drain <=> /\ PsStatus = "stopped" /\ PsBusy /\ PsBusy' \in BOOLEAN
                             /\ psLate' \in {psLate, 1} /\ PsStatus' = PsStatus
      /\ UNCHANGED Ps!Source!vars <=> /\ PsStatus' = PsStatus /\ PsBusy' = PsBusy
                                      /\ psLate' = psLate
  BY Zenon DEF Ps!Source!Start, Ps!Source!Run, Ps!Source!Stop, Ps!Source!Drain,
               Ps!Source!vars, PsStatus, PsBusy
<1>2. PsBusy' \in BOOLEAN
  BY Zenon DEF PsBusy
<1>3. (PsBusy' <=> PsBusy) => PsBusy' = PsBusy
  BY Zenon DEF PsBusy
<1> QED
  BY <1>1, <1>2, <1>3, Zenon DEF SourceStep, Ps!Source!Next

LEMMA PsLeftInit == Ps!Init => PsLeft
BY DEF Ps!Init, PsLeft, Ps!Transport

LEMMA PsLeftStep ==
    ASSUME PsLeft, [Ps!Next]_(Ps!vars)
    PROVE  /\ PsLeft'
           /\ SourceStep(PsStatus, PsBusy, psLate, PsStatus', PsBusy', psLate')
<1> USE DEF PsLeft, PsStatus, PsBusy, SourceStep
<1>0. \/ psStopped' /\ psLate' \in {psLate, psLate + 1}
      \/ ~psStopped' /\ psLate' = psLate /\ ~psStopped
      \/ ~Ps!Dispatch
  BY DEF Ps!Dispatch
<1>1. CASE Ps!Start
  <2>1. CASE transport = "noWebSocket"
    BY <1>0, <1>1, <2>1 DEF Ps!Start
  <2>2. CASE transport = "http"
    BY <1>1, <2>2 DEF Ps!Start
  <2>3. CASE transport = "ws"
    BY <1>1, <2>3 DEF Ps!Start
  <2>4. CASE transport = "badScheme"
    BY <1>1, <2>4 DEF Ps!Start
  <2> QED
    BY <2>1, <2>2, <2>3, <2>4 DEF Ps!Transport
<1>2. CASE Ps!Stop
  BY <1>2 DEF Ps!Stop, Ps!Left
<1>3. CASE Ps!Answer
  BY <1>3 DEF Ps!Answer
<1>4. CASE Ps!Responded
  BY <1>4 DEF Ps!Responded
<1>5. CASE Ps!ChunkRead
  <2>1. CASE psStopped'
    <3>1. ~reader'
      BY <1>5, <2>1, Zenon DEF Ps!ChunkRead
    <3> QED
      BY <1>5, <1>0, <2>1, <3>1 DEF Ps!ChunkRead, Ps!Left
  <2>2. CASE ~psStopped'
    BY <1>5, <1>0, <2>2 DEF Ps!ChunkRead, Ps!Left
  <2> QED
    BY <2>1, <2>2
<1>6. CASE Ps!Done
  BY <1>6, <1>0 DEF Ps!Done
<1>7. CASE Ps!Rejected
  BY <1>7 DEF Ps!Rejected, Ps!Dispatch, Ps!Left
<1>8. CASE Ps!MessageOrError
  BY <1>8 DEF Ps!MessageOrError, Ps!Dispatch, Ps!Left, Ps!loopVars
<1>9. CASE Ps!BlobReceived
  BY <1>9 DEF Ps!BlobReceived, Ps!loopVars
<1>10. CASE Ps!BlobConverted
  BY <1>10 DEF Ps!BlobConverted, Ps!Dispatch, Ps!Left, Ps!loopVars
<1>11. CASE Ps!PeerCloses
  BY <1>11 DEF Ps!PeerCloses, Ps!Dispatch, Ps!loopVars
<1>12. CASE UNCHANGED Ps!vars
  BY <1>12 DEF Ps!vars, Ps!loopVars
<1> QED
  BY <1>1, <1>2, <1>3, <1>4, <1>5, <1>6, <1>7, <1>8, <1>9, <1>10, <1>11, <1>12
     DEF Ps!Next, Ps!Continue

\* The safety part of ImplementsSource for PsSource: after stop() the events of at
\* most one chunk are dispatched, however many, or one error.
THEOREM PsStopIsFinal ==
    Ps!Spec => Ps!Source!Init /\ [][Ps!Source!Next]_(Ps!Source!vars)
<1>1. Ps!Init => Ps!Source!Init
  <2> SUFFICES ASSUME Ps!Init
               PROVE  Ps!Source!Init
    OBVIOUS
  <2>1. PsStatus = "idle" /\ PsBusy = FALSE /\ psLate = 0
    BY DEF Ps!Init, PsStatus, PsBusy
  <2> QED
    BY <2>1, Zenon DEF Ps!Source!Init, PsStatus, PsBusy
<1>2. PsLeft /\ [Ps!Next]_(Ps!vars) => PsLeft' /\ [Ps!Source!Next]_(Ps!Source!vars)
  BY PsLeftStep, PsMaps
<1> QED
  BY <1>1, <1>2, PsLeftInit, PTL DEF Ps!Spec

-----------------------------------------------------------------------------
(* A behaviour of MCStreams is one of each component, of one that never moves *)
(* unless it is the subject.                                                 *)

LEMMA OneSubject ==
    [MCNext]_allVars => /\ [Ws!Next]_wsVars /\ [Gb!Next]_gbVars
                        /\ [Whep!Next]_whepVars /\ [Ps!Next]_psVars
<1>1. UNCHANGED allVars => UNCHANGED <<wsVars, gbVars, whepVars, psVars>>
  BY DEF allVars
<1> QED
  BY <1>1 DEF MCNext, HlsOnly, WhepOnly, PsOnly, WsOnly, GbOnly, FlvOnly, PsdOnly, TsOnly,
              TimeOnly

LEMMA SameVariables ==
    /\ UNCHANGED wsVars <=> UNCHANGED Ws!vars
    /\ UNCHANGED gbVars <=> UNCHANGED Gb!vars
    /\ UNCHANGED whepVars <=> UNCHANGED Whep!vars
    /\ UNCHANGED psVars <=> UNCHANGED Ps!vars
<1>1. UNCHANGED wsVars <=> UNCHANGED Ws!vars
  BY DEF wsVars, Ws!vars, Ws!optionVars
<1>2. UNCHANGED gbVars <=> UNCHANGED Gb!vars
  BY DEF gbVars, Gb!vars, Gb!serverVars
<1>3. UNCHANGED whepVars <=> UNCHANGED Whep!vars
  BY DEF whepVars, Whep!vars, Whep!optionVars, Whep!candidateVars, Whep!mediaVars
<1>4. UNCHANGED psVars <=> UNCHANGED Ps!vars
  BY DEF psVars, Ps!vars, Ps!loopVars
<1> QED
  BY <1>1, <1>2, <1>3, <1>4

\* The specification that is model-checked implies those the theorems are about,
\* so that what they say of WebSocketTransport, Gb28181Session, WhepSource and
\* PsSource holds in it.
THEOREM ConnectionsOfRun == MCSpec => Ws!Spec /\ Gb!Spec /\ Whep!Spec /\ Ps!Spec
<1>1. MCInit => Ws!Init /\ Gb!Init /\ Whep!Init /\ Ps!Init
  BY DEF MCInit
<1>2. [MCNext]_allVars => /\ [Ws!Next]_(Ws!vars) /\ [Gb!Next]_(Gb!vars)
                          /\ [Whep!Next]_(Whep!vars) /\ [Ps!Next]_(Ps!vars)
  BY OneSubject, SameVariables
<1> QED
  BY <1>1, <1>2, PTL DEF MCSpec, Ws!Spec, Gb!Spec, Whep!Spec, Ps!Spec
=============================================================================
