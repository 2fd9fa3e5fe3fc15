--------------------------- MODULE Gb28181Session ---------------------------
(***************************************************************************)
(* Gb28181Session of packages/plugins/gb28181/src/session.ts: the dialog     *)
(* REGISTER, INVITE, BYE.  The session builds requests and consumes          *)
(* responses; the caller transports them, over UDP perhaps, so any of them is *)
(* lost, repeated, delayed or overtaken by others.  Hence a response is       *)
(* handled any number of times, at any time after its request.                *)
(*                                                                           *)
(* The session matches a response by the method of its CSeq and its own       *)
(* state, never by the CSeq number.                                          *)
(***************************************************************************)
EXTENDS Naturals

CONSTANT MaxRequests   \* bound on the requests of each method

VARIABLES
    state,         \* Gb28181Session.state
    registered,    \* Gb28181Session.registered
    challenged,    \* Gb28181Session.challengeValue is not null
    media,         \* Gb28181Session.mediaInfoValue: the INVITE it answers; 0 for null
    cseq,          \* Gb28181Session.cseq, by method
    \* the server
    verdict,       \* its answer to each INVITE, "none" so far
    streaming,     \* the INVITEs whose media it sends
    byes,          \* BYEs it answered with a 2xx
    \* history
    taken,         \* the INVITE whose 200 was taken last; 0 for none
    abandoned      \* register() or terminate() left an INVITE that the server
                   \* has not refused

serverVars == <<verdict, streaming, byes>>
vars == <<state, registered, challenged, media, cseq, serverVars, taken, abandoned>>

Methods == {"REGISTER", "INVITE", "BYE"}
Ended == {"TERMINATED", "ERROR"}
Numbers == 1..MaxRequests
\* A 2xx, with a media description if it answers an INVITE, or without; a 401 or
\* 407, with a digest in its WWW-Authenticate header, or not; any other error.
Kinds == {"ok", "bare", "challenge", "unreadable", "refusal"}
Success == {"ok", "bare"}

Init ==
    /\ state = "IDLE"
    /\ registered = FALSE
    /\ challenged = FALSE
    /\ media = 0
    /\ cseq = [m \in Methods |-> 0]
    /\ verdict = [n \in Numbers |-> "none"]
    /\ streaming = {}
    /\ byes = 0
    /\ taken = 0
    /\ abandoned = FALSE

\* nextCSeq(): a request is built, and the caller sends it.
Build(method) ==
    /\ cseq[method] < MaxRequests
    /\ cseq' = [cseq EXCEPT ![method] = @ + 1]
    /\ UNCHANGED serverVars

LeavesDialog ==
    \/ state \in {"PLAYING", "STOPPING"}
    \/ state = "INVITING" /\ verdict[cseq["INVITE"]] \in Success \cup {"none"}

\* register(), with a challenge or without one.
Register(challenge) ==
    /\ state \notin Ended
    /\ state = "REGISTERING" => challenge
    /\ state' = "REGISTERING"
    /\ challenged' = (challenged \/ (challenge /\ state = "REGISTERING"))
    /\ abandoned' = (abandoned \/ LeavesDialog)
    /\ Build("REGISTER")
    /\ UNCHANGED <<registered, media, taken>>

\* Mutant of Invite: the state is not looked at.
InviteAgain ==
    /\ state \notin Ended /\ registered
    /\ state' = "INVITING"
    /\ media' = 0
    /\ Build("INVITE")
    /\ UNCHANGED <<registered, challenged, taken, abandoned>>

Invite ==
    /\ state = "IDLE" /\ registered
    /\ state' = "INVITING"
    /\ media' = 0
    /\ Build("INVITE")
    /\ UNCHANGED <<registered, challenged, taken, abandoned>>

Bye ==
    /\ state = "PLAYING"
    /\ state' = "STOPPING"
    /\ Build("BYE")
    /\ UNCHANGED <<registered, challenged, media, taken, abandoned>>

Terminate ==
    /\ state \notin Ended
    /\ state' = "TERMINATED"
    /\ abandoned' = (abandoned \/ LeavesDialog)
    /\ UNCHANGED <<registered, challenged, media, cseq, serverVars, taken>>

-----------------------------------------------------------------------------
(* The responses, handled whenever they arrive: handleMessage().             *)

\* A 401 or 407, in any state.
HandleChallenge(a) ==
    /\ a.kind \in {"challenge", "unreadable"}
    /\ challenged' = (a.kind = "challenge")
    /\ state' = IF a.kind = "challenge" THEN state ELSE "ERROR"
    /\ UNCHANGED <<registered, media, taken>>

\* Any other error, in any state.
HandleRefusal(a) ==
    /\ a.kind = "refusal"
    /\ state' = "ERROR"
    /\ UNCHANGED <<registered, challenged, media, taken>>

\* Mutant of HandleSuccess: the state is not looked at.
HandleSuccessAnyState(a) ==
    /\ a.kind \in {"ok", "bare"}
    /\ \/ /\ a.method = "REGISTER"
          /\ registered' = TRUE /\ state' = "IDLE"
          /\ UNCHANGED <<media, taken>>
       \/ /\ a.method = "INVITE"
          /\ media' = IF a.kind = "ok" THEN a.number ELSE 0
          /\ taken' = a.number /\ state' = "PLAYING"
          /\ UNCHANGED registered
       \/ /\ a.method = "BYE"
          /\ state' = "TERMINATED"
          /\ UNCHANGED <<registered, media, taken>>
    /\ UNCHANGED challenged

\* A 2xx counts only in the state that waits for it.
HandleSuccess(a) ==
    /\ a.kind \in {"ok", "bare"}
    /\ \/ /\ a.method = "REGISTER" /\ state = "REGISTERING"
          /\ registered' = TRUE
          /\ state' = "IDLE"
          /\ UNCHANGED <<media, taken>>
       \/ /\ a.method = "INVITE" /\ state = "INVITING"
          /\ media' = IF a.kind = "ok" THEN a.number ELSE 0
          /\ taken' = a.number
          /\ state' = "PLAYING"
          /\ UNCHANGED registered
       \/ /\ a.method = "BYE" /\ state = "STOPPING"
          /\ state' = "TERMINATED"
          /\ UNCHANGED <<registered, media, taken>>
    /\ UNCHANGED challenged

\* What the server may have answered to request `n' of a method.
Answered(method, n, kind) ==
    CASE method = "INVITE"                    -> kind = verdict[n]
      [] method = "BYE" /\ kind \in Success  -> n <= byes
      [] OTHER                                -> kind \in Kinds

Receive ==
    /\ \E m \in Methods : \E n \in 1..cseq[m], k \in Kinds :
           /\ Answered(m, n, k)
           /\ LET a == [method |-> m, number |-> n, kind |-> k]
              IN  HandleChallenge(a) \/ HandleRefusal(a) \/ HandleSuccess(a)
    /\ UNCHANGED <<cseq, serverVars, abandoned>>

-----------------------------------------------------------------------------
(* The server.                                                               *)

ServerInvited ==
    /\ \E n \in 1..cseq["INVITE"], k \in Kinds :
           /\ verdict[n] = "none"
           /\ verdict' = [verdict EXCEPT ![n] = k]
           /\ streaming' = IF k \in Success THEN streaming \cup {n} ELSE streaming
    /\ UNCHANGED <<state, registered, challenged, media, cseq, byes, taken, abandoned>>

\* The BYE of a session names its one Call-ID: it ends all that is streaming.
ServerHangsUp ==
    /\ byes < cseq["BYE"]
    /\ byes' = byes + 1
    /\ streaming' = {}
    /\ UNCHANGED <<state, registered, challenged, media, cseq, verdict, taken, abandoned>>

Next ==
    \/ \E challenge \in BOOLEAN : Register(challenge)
    \/ Invite \/ Bye \/ Terminate
    \/ Receive
    \/ ServerInvited \/ ServerHangsUp

Spec == Init /\ [][Next]_vars

-----------------------------------------------------------------------------
TypeOK ==
    /\ state \in {"IDLE", "REGISTERING", "INVITING", "PLAYING", "STOPPING"} \cup Ended
    /\ {registered, challenged, abandoned} \subseteq BOOLEAN
    /\ {media, taken, byes} \subseteq 0..MaxRequests
    /\ cseq \in [Methods -> 0..MaxRequests]
    /\ verdict \in [Numbers -> Kinds \cup {"none"}]
    /\ streaming \subseteq Numbers

\* Whatever responses come late, twice or out of order, a session that ended has
\* ended: no response revives it, and it builds no request.
EndIsFinal ==
    [][(state \in Ended) => (state' \in Ended /\ cseq' = cseq /\ media' = media)]_vars

\* As long as the caller left no dialog that the server may have accepted: the
\* session plays what it asked for last, whatever INVITEs were challenged before
\* and whatever answers come late, and when its BYE ended it the server streams
\* nothing more.
DialogsAgree ==
    ~abandoned =>
        /\ state = "PLAYING" => streaming = {cseq["INVITE"]} /\ taken = cseq["INVITE"]
        /\ media \in {0, taken}
        /\ state = "TERMINATED" => streaming = {}

=============================================================================
