---------------------------- MODULE EngineProofs -----------------------------
(***************************************************************************)
(* That the engine loses no connection, reports one error a session, runs its *)
(* pump exactly while it should and implements PlayerLifecycle, for every     *)
(* number of sessions, depth of re-entrant calls and set of frame handles.    *)
(*                                                                           *)
(* The argument is about the call stack.  A start() that is not finished      *)
(* ("start.setup", "source.pump") has nothing but listeners above it, so no   *)
(* error and no event can come between its pieces: Orderly.  While it is      *)
(* pending the player is connecting, playing or paused, and while it has not   *)
(* connected yet there is no connection.  When nothing is pending, an idle,   *)
(* failed or stopped player holds nothing.                                    *)
(***************************************************************************)
EXTENDS Engine, SequenceTheorems, TLAPS

\* No listener destroys the player (one that does is a known departure).
NoneDestroys == \A m \in Modes : "destroy" \notin m.calls

Starters == {"start.setup", "source.pump"}

Has(s, k) == \E i \in DOMAIN s : s[i] = k

Plain(s) == \A i \in DOMAIN s : s[i] \notin Starters

Orderly(s) ==
    \A i \in DOMAIN s : s[i] \in Starters => \A j \in 1..(i - 1) : s[j] = "listener"

-----------------------------------------------------------------------------
(* Stacks.                                                                   *)

Stacks == Seq(Continuations)

LEMMA PushOne ==
    ASSUME NEW s \in Stacks, NEW k \in Continuations
    PROVE  LET t == <<k>> \o s
           IN  /\ t \in Stacks /\ t # <<>> /\ Head(t) = k
               /\ DOMAIN s = 1..Len(s) /\ Len(s) \in Nat
               /\ DOMAIN t = 1..(Len(s) + 1)
               /\ t[1] = k
               /\ \A i \in 1..Len(s) : t[i + 1] = s[i]
<1>1. <<k>> \in Stacks /\ Len(<<k>>) = 1 /\ <<k>>[1] = k
  BY DEF Stacks
<1> QED
  BY <1>1, ConcatProperties, LenProperties DEF Stacks

LEMMA PushTwo ==
    ASSUME NEW s \in Stacks, NEW k \in Continuations, NEW l \in Continuations
    PROVE  LET t == <<k, l>> \o s
           IN  /\ t \in Stacks /\ t # <<>> /\ Head(t) = k
               /\ DOMAIN s = 1..Len(s) /\ Len(s) \in Nat
               /\ DOMAIN t = 1..(Len(s) + 2)
               /\ t[1] = k /\ t[2] = l
               /\ \A i \in 1..Len(s) : t[i + 2] = s[i]
<1>1. <<k, l>> \in Stacks /\ Len(<<k, l>>) = 2 /\ <<k, l>>[1] = k /\ <<k, l>>[2] = l
  BY DEF Stacks
<1> QED
  BY <1>1, ConcatProperties, LenProperties DEF Stacks

\* What is on top is taken off.
LEMMA Pop ==
    ASSUME NEW s \in Stacks, s # <<>>
    PROVE  /\ Tail(s) \in Stacks
           /\ Len(s) \in Nat /\ DOMAIN s = 1..Len(s) /\ s[1] = Head(s) /\ 1 \in DOMAIN s
           /\ DOMAIN Tail(s) = 1..(Len(s) - 1)
           /\ \A i \in 1..(Len(s) - 1) : Tail(s)[i] = s[i + 1]
  BY HeadTailProperties, LenProperties, EmptySeq DEF Stacks

LEMMA PopOther ==
    ASSUME NEW s \in Stacks, s # <<>>, Orderly(s), Head(s) # "listener"
    PROVE  Plain(Tail(s))
<1> SUFFICES ASSUME NEW i \in DOMAIN Tail(s), Tail(s)[i] \in Starters
             PROVE  FALSE
  BY DEF Plain
<1>1. i \in 1..(Len(s) - 1) /\ s[i + 1] \in Starters /\ i + 1 \in DOMAIN s
  BY Pop
<1>2. 1 \in 1..((i + 1) - 1)
  BY <1>1, Pop
<1>3. s[1] = "listener"
  BY <1>1, <1>2 DEF Orderly
<1> QED
  BY <1>3, Pop

LEMMA PopAny ==
    ASSUME NEW s \in Stacks, s # <<>>, Orderly(s)
    PROVE  /\ Orderly(Tail(s))
           /\ \A k : Has(Tail(s), k) => Has(s, k)
           /\ Plain(s) => Plain(Tail(s))
<1>1. \A i \in DOMAIN Tail(s) : i \in Nat \ {0} /\ i + 1 \in DOMAIN s /\ Tail(s)[i] = s[i + 1]
  BY Pop
<1>2. ASSUME NEW i \in DOMAIN Tail(s), Tail(s)[i] \in Starters, NEW j \in 1..(i - 1)
      PROVE  Tail(s)[j] = "listener"
  <2>1. j \in 1..(Len(s) - 1) /\ Tail(s)[j] = s[j + 1]
    BY <1>1, <1>2, Pop
  <2>2. i + 1 \in DOMAIN s /\ s[i + 1] \in Starters /\ j + 1 \in 1..((i + 1) - 1)
    BY <1>1, <1>2
  <2>3. s[j + 1] = "listener"
    BY <2>2 DEF Orderly
  <2> QED
    BY <2>1, <2>3
<1> QED
  BY <1>1, <1>2 DEF Orderly, Has, Plain

LEMMA PushListener ==
    ASSUME NEW s \in Stacks, Orderly(s)
    PROVE  LET t == <<"listener">> \o s
           IN  /\ t \in Stacks /\ Orderly(t)
               /\ Has(t, "start.setup") => Has(s, "start.setup")
               /\ Has(t, "source.live") => Has(s, "source.live")
               /\ Plain(s) => Plain(t)
<1> DEFINE t == <<"listener">> \o s
<1>1. /\ t \in Stacks /\ DOMAIN s = 1..Len(s) /\ Len(s) \in Nat
      /\ DOMAIN t = 1..(Len(s) + 1) /\ t[1] = "listener"
      /\ \A i \in 1..Len(s) : t[i + 1] = s[i]
  BY PushOne DEF Continuations
<1> HIDE DEF t
<1>2. \A i \in DOMAIN t : i = 1 \/ (i - 1 \in DOMAIN s /\ t[i] = s[i - 1])
  <2> SUFFICES ASSUME NEW i \in 1..(Len(s) + 1), i # 1
               PROVE  i - 1 \in 1..Len(s) /\ t[i] = s[i - 1]
    BY <1>1
  <2>1. i - 1 \in 1..Len(s) /\ (i - 1) + 1 = i
    BY <1>1
  <2> QED
    BY <1>1, <2>1
<1>3. ASSUME NEW i \in DOMAIN t, t[i] \in Starters, NEW j \in 1..(i - 1)
      PROVE  t[j] = "listener"
  <2>1. i # 1 /\ i - 1 \in DOMAIN s /\ s[i - 1] \in Starters
    BY <1>1, <1>2, <1>3 DEF Starters
  <2>2. CASE j = 1
    BY <1>1, <2>2
  <2>3. CASE j # 1
    <3>1. j \in DOMAIN t /\ j - 1 \in 1..((i - 1) - 1)
      BY <1>1, <1>3, <2>1, <2>3
    <3>2. s[j - 1] = "listener"
      BY <2>1, <3>1 DEF Orderly
    <3> QED
      BY <1>2, <2>3, <3>1, <3>2
  <2> QED
    BY <2>2, <2>3
<1>4. Plain(s) => Plain(t)
  BY <1>1, <1>2 DEF Plain, Starters
<1>5. ASSUME NEW k, k # "listener", Has(t, k)
      PROVE  Has(s, k)
  BY <1>1, <1>2, <1>5 DEF Has
<1> QED
  BY <1>1, <1>3, <1>4, <1>5 DEF Orderly, t

LEMMA PushPlain ==
    ASSUME NEW s \in Stacks, NEW k \in Continuations \ Starters, Plain(s)
    PROVE  <<k>> \o s \in Stacks /\ Plain(<<k>> \o s)
<1> DEFINE t == <<k>> \o s
<1>1. /\ t \in Stacks /\ DOMAIN s = 1..Len(s) /\ Len(s) \in Nat
      /\ DOMAIN t = 1..(Len(s) + 1) /\ t[1] = k
      /\ \A i \in 1..Len(s) : t[i + 1] = s[i]
  BY PushOne
<1> HIDE DEF t
<1>2. ASSUME NEW i \in DOMAIN t
      PROVE  t[i] \notin Starters
  <2>1. CASE i = 1
    BY <1>1, <2>1
  <2>2. CASE i # 1
    <3>1. i - 1 \in 1..Len(s) /\ (i - 1) + 1 = i
      BY <1>1, <2>2
    <3> QED
      BY <1>1, <3>1 DEF Plain
  <2> QED
    BY <2>1, <2>2
<1> QED
  BY <1>1, <1>2 DEF Plain, t

\* A listener is called, before a piece that is not finished.
LEMMA PushStarter ==
    ASSUME NEW s \in Stacks, NEW k \in Continuations, Plain(s)
    PROVE  LET t == <<"listener", k>> \o s
           IN  /\ t \in Stacks /\ Orderly(t)
               /\ k \notin Starters => Plain(t)
               /\ Has(t, "start.setup") => k = "start.setup"
<1> DEFINE t == <<"listener", k>> \o s
<1>0. "listener" \in Continuations
  BY DEF Continuations
<1>1. /\ t \in Stacks /\ DOMAIN s = 1..Len(s) /\ Len(s) \in Nat
      /\ DOMAIN t = 1..(Len(s) + 2) /\ t[1] = "listener" /\ t[2] = k
      /\ \A i \in 1..Len(s) : t[i + 2] = s[i]
  BY <1>0, PushTwo
<1> HIDE DEF t
<1>2. \A i \in DOMAIN t : i > 2 => t[i] \notin Starters
  <2> SUFFICES ASSUME NEW i \in 1..(Len(s) + 2), i > 2
               PROVE  t[i] \notin Starters
    BY <1>1
  <2>1. i - 2 \in 1..Len(s) /\ (i - 2) + 2 = i
    BY <1>1
  <2> QED
    BY <1>1, <2>1 DEF Plain
<1>3. ASSUME NEW i \in DOMAIN t, t[i] \in Starters
      PROVE  i = 2
  <2>1. i \in Nat /\ i >= 1
    BY <1>1
  <2>2. i # 1
    BY <1>1, <1>3 DEF Starters
  <2> QED
    BY <1>2, <1>3, <2>1, <2>2
<1>4. Orderly(t)
  BY <1>1, <1>3 DEF Orderly
<1>5. k \notin Starters => Plain(t)
  BY <1>1, <1>3 DEF Plain
<1>6. Has(t, "start.setup") => k = "start.setup"
  BY <1>1, <1>3 DEF Has, Starters
<1> QED
  BY <1>1, <1>4, <1>5, <1>6 DEF t

LEMMA PlainIsOrderly ==
    ASSUME NEW s, Plain(s)
    PROVE  Orderly(s) /\ ~Has(s, "start.setup")
  BY DEF Plain, Orderly, Has, Starters

-----------------------------------------------------------------------------
(* The invariant.                                                            *)

Types ==
    /\ mode \in Modes
    /\ session \in 0..MaxSessions
    /\ transport \in 0..MaxSessions
    /\ source \in 0..MaxSessions
    /\ phase \in [Sessions -> Phases]
    /\ stack \in Stacks

EndedStates == {"idle", "error", "stopped"}
ActiveStates == {"connecting", "playing", "paused"}

\* Every live connection is the engine's own; an ended player holds nothing.
Links ==
    /\ Live \subseteq {transport, source}
    /\ mode.branch = "demuxer" => source = 0
    /\ state \in EndedStates => Live = {} /\ ~timer /\ ~started

\* An unfinished start() is undisturbed.
Pending ==
    /\ Orderly(stack)
    /\ ~Plain(stack) => state \in ActiveStates
    /\ Has(stack, "start.setup") => Live = {} /\ ~timer /\ session # 0

Final == destroyed => state = "stopped" /\ stack = <<>>

Owns == Types /\ Links /\ Pending /\ Final

\* The frames of a call stack that is unwound.
LEMMA PopNothing ==
    ASSUME NEW s \in Stacks, s # <<>>
    PROVE  <<>> \o Tail(s) = Tail(s)
<1>1. Tail(s) \in Stacks
  BY Pop
<1> QED
  BY <1>1, ConcatEmptySeq DEF Stacks

LEMMA StopsPump == StopPump => ~started'
  BY DEF StopPump, P!Stop, P!Halt

LEMMA DestroysPump == P!Destroy => ~started'
  BY DEF P!Destroy, P!Halt

\* Whoever closes all that is live has nothing live.
LEMMA ClosesAll ==
    ASSUME phase \in [Sessions -> Phases], NEW ss, Live \subseteq ss, phase' = Closed(ss)
    PROVE  phase' \in [Sessions -> Phases] /\ Live' = {}
<1>1. phase' \in [Sessions -> Phases]
  BY DEF Closed, Phases
<1>2. ASSUME NEW t \in Sessions
      PROVE  phase'[t] \notin {"connecting", "open", "refused"}
  BY DEF Closed, Live
<1> QED
  BY <1>1, <1>2 DEF Live

LEMMA ReleasesBoth ==
    ASSUME Types, Links, ReleaseBoth
    PROVE  /\ transport' = 0 /\ source' = 0 /\ ~timer'
           /\ phase' \in [Sessions -> Phases] /\ Live' = {}
  BY ClosesAll DEF Types, Links, ReleaseBoth

\* Those with a peer are live; nothing live, nothing refused.
LEMMA PeersLive == Peers \subseteq Live /\ (Live = {} => ~Refused)
  BY DEF Peers, Live, Refused

\* handleError() called over a stack with no unfinished start().
LEMMA ErrorOwns ==
    ASSUME Types, Links, ~destroyed, NEW rest \in Stacks, Plain(rest), HandleError(rest)
    PROVE  Owns'
<1>1. destroyed' = destroyed /\ mode' = mode /\ session' = session
  BY DEF HandleError
<1>2. CASE state = "error"
  <2>1. /\ stack' = rest /\ state' = state
        /\ UNCHANGED <<linkVars, pumpVars>>
    BY <1>2 DEF HandleError
  <2>2. Types' /\ Links'
    BY <1>1, <2>1 DEF Types, Links, Live, linkVars, pumpVars
  <2>3. Pending'
    BY <2>1, PlainIsOrderly DEF Pending
  <2> QED
    BY <1>1, <2>2, <2>3 DEF Owns, Final
<1>3. CASE state # "error"
  <2>1. /\ StopPump /\ ReleaseBoth /\ state' = "error"
        /\ stack' = <<"listener", "error.emit">> \o rest
    BY <1>3 DEF HandleError
  <2>2. /\ transport' = 0 /\ source' = 0 /\ ~timer' /\ ~started'
        /\ phase' \in [Sessions -> Phases] /\ Live' = {}
    BY <2>1, ReleasesBoth, StopsPump
  <2>3. "error.emit" \in Continuations \ Starters
    BY DEF Continuations, Starters
  <2>4. stack' \in Stacks /\ Plain(stack')
    BY <2>1, <2>3, PushStarter
  <2>5. Types' /\ Links'
    BY <1>1, <2>1, <2>2, <2>4, EngineAssumption DEF EngineAssumption, Types, Links
  <2>6. Pending'
    BY <2>4, PlainIsOrderly DEF Pending
  <2> QED
    BY <1>1, <2>5, <2>6 DEF Owns, Final
<1> QED
  BY <1>2, <1>3

-----------------------------------------------------------------------------
(* Every action preserves it.                                                *)

LEMMA NoTask ==
    ASSUME Quiescent
    PROVE  stack \in Stacks /\ Plain(stack)
  BY DEF Quiescent, Stacks, Plain

LEMMA CallOwns ==
    ASSUME NoneDestroys, Owns, UserCall
    PROVE  Owns'
<1> USE DEF Owns
<1>1. mode' = mode
  BY DEF UserCall, PlayPaused, PlayStart, Pause, Destroy
<1>2. CASE PlayPaused
  <2>1. /\ ~destroyed /\ state = "paused" /\ state' = "playing"
        /\ stack' = <<"listener">> \o stack
        /\ UNCHANGED <<destroyed, session, linkVars>>
    BY <1>2 DEF PlayPaused, Call
  <2>2. /\ stack' \in Stacks /\ Orderly(stack')
        /\ Has(stack', "start.setup") => Has(stack, "start.setup")
    BY <2>1, PushListener DEF Types, Pending
  <2>3. Types' /\ Links'
    BY <1>1, <2>1, <2>2 DEF Types, Links, Live, linkVars, EndedStates
  <2>4. Pending'
    BY <2>1, <2>2 DEF Pending, Live, linkVars, ActiveStates
  <2> QED
    BY <2>1, <2>3, <2>4 DEF Final
<1>3. CASE PlayStart
  <2>1. /\ ~destroyed /\ state \in EndedStates /\ state' = "connecting"
        /\ session < MaxSessions /\ session' = session + 1
        /\ stack' = <<"listener", "start.setup">> \o stack
        /\ UNCHANGED <<destroyed, linkVars>>
    BY <1>3 DEF PlayStart, Call, EndedStates
  <2>2. Plain(stack) /\ Live = {} /\ ~timer
    BY <2>1 DEF Links, Pending, EndedStates, ActiveStates
  <2>3. "start.setup" \in Continuations
    BY DEF Continuations
  <2>4. stack' \in Stacks /\ Orderly(stack')
    BY <2>1, <2>2, <2>3, PushStarter DEF Types
  <2>5. session' \in 0..MaxSessions
    BY <2>1, EngineAssumption DEF EngineAssumption, Types
  <2>6. Types' /\ Links'
    BY <1>1, <2>1, <2>4, <2>5 DEF Types, Links, Live, linkVars, EndedStates
  <2>7. Pending'
    <3>1. session' # 0
      BY <2>1, EngineAssumption DEF EngineAssumption, Types
    <3> QED
      BY <2>1, <2>2, <2>4, <3>1 DEF Pending, Live, linkVars, ActiveStates
  <2> QED
    BY <2>1, <2>6, <2>7 DEF Final
<1>4. CASE Pause
  <2>1. /\ state \in {"playing", "connecting"} /\ state' = "paused"
        /\ stack' = <<"listener">> \o stack
        /\ UNCHANGED <<destroyed, session, linkVars>>
    BY <1>4 DEF Pause, Call
  <2>2. /\ stack' \in Stacks /\ Orderly(stack')
        /\ Has(stack', "start.setup") => Has(stack, "start.setup")
    BY <2>1, PushListener DEF Types, Pending
  <2>3. Types' /\ Links'
    BY <1>1, <2>1, <2>2 DEF Types, Links, Live, linkVars, EndedStates
  <2>4. Pending'
    BY <2>1, <2>2 DEF Pending, Live, linkVars, ActiveStates
  <2> QED
    BY <2>1, <2>3, <2>4 DEF Final
<1>5. CASE Destroy
  <2>1. stack = <<>>
    BY <1>5 DEF Destroy, UserRuns, Quiescent, NoneDestroys, Types
  <2>2. /\ P!Destroy /\ ReleaseBoth /\ state' = "stopped" /\ stack' = stack
        /\ session' = session
    BY <1>5 DEF Destroy
  <2>3. /\ transport' = 0 /\ source' = 0 /\ ~timer' /\ ~started'
        /\ phase' \in [Sessions -> Phases] /\ Live' = {}
    BY <2>2, ReleasesBoth, DestroysPump
  <2>4. Types' /\ Links'
    BY <1>1, <2>2, <2>3, EngineAssumption DEF EngineAssumption, Types, Links
  <2>5. Plain(stack')
    BY <2>1, <2>2, NoTask DEF Quiescent
  <2>6. Pending'
    BY <2>5, PlainIsOrderly DEF Pending
  <2> QED
    BY <2>1, <2>2, <2>4, <2>6 DEF Final
<1> QED
  BY <1>2, <1>3, <1>4, <1>5 DEF UserCall

\* What a piece that only returns leaves behind.
LEMMA ReturnOwns ==
    ASSUME Owns, stack # <<>>, stack' = Tail(stack),
           UNCHANGED <<mode, state, destroyed, session, linkVars>>,
           started' = started
    PROVE  Owns'
<1> USE DEF Owns
<1>1. /\ stack' \in Stacks /\ Orderly(stack')
      /\ Has(stack', "start.setup") => Has(stack, "start.setup")
      /\ Plain(stack) => Plain(stack')
  BY Pop, PopAny DEF Types, Pending
<1>2. Types' /\ Links'
  BY <1>1 DEF Types, Links, Live, linkVars
<1>3. Pending'
  BY <1>1 DEF Pending, Live, linkVars
<1>4. ~destroyed'
  BY DEF Final
<1> QED
  BY <1>2, <1>3, <1>4 DEF Final

\* A piece that is not part of a start() and continues with no other: it runs
\* while none is pending, so its listeners and pieces find everything in order.
LEMMA PlainOwns ==
    ASSUME Owns, ~destroyed, stack' \in Stacks, Plain(stack'),
           UNCHANGED <<mode, state, destroyed, session, linkVars>>,
           started' = started
    PROVE  Owns'
<1> USE DEF Owns
<1>1. Types' /\ Links'
  BY DEF Types, Links, Live, linkVars
<1>2. Pending'
  BY PlainIsOrderly DEF Pending
<1> QED
  BY <1>1, <1>2 DEF Final

\* The rest of the stack, under a piece that is no listener.
LEMMA Rest ==
    ASSUME Owns, NEW k, Top(k), k # "listener"
    PROVE  Tail(stack) \in Stacks /\ Plain(Tail(stack)) /\ <<>> \o Tail(stack) = Tail(stack)
           /\ ~destroyed
  BY Pop, PopOther, PopNothing DEF Owns, Types, Pending, Final, Top

LEMMA OpensOne ==
    ASSUME phase \in [Sessions -> Phases], Live = {},
           NEW p \in {"connecting", "open", "refused"},
           session \in 0..MaxSessions, phase' = [phase EXCEPT ![session] = p]
    PROVE  /\ phase' \in [Sessions -> Phases] /\ Live' \subseteq {session}
           /\ p # "refused" => ~Refused'
<1>1. p \in Phases
  BY DEF Phases
<1>2. phase' \in [Sessions -> Phases]
  BY <1>1
<1>3. ASSUME NEW s \in Sessions, s # session
      PROVE  phase'[s] \notin {"connecting", "open", "refused"}
  BY <1>3 DEF Live
<1>4. p # "refused" => ~Refused'
  BY <1>2, <1>3 DEF Refused
<1> QED
  BY <1>2, <1>3, <1>4 DEF Live

LEMMA StartOwns ==
    ASSUME Owns, StartPieces
    PROVE  Owns'
<1> USE DEF Owns
<1>1. CASE SetupRejected
  BY <1>1, Rest, ErrorOwns DEF SetupRejected
<1>2. ASSUME Top("start.setup")
      PROVE  /\ Live = {} /\ state \in ActiveStates
             /\ Tail(stack) \in Stacks /\ Plain(Tail(stack)) /\ ~destroyed
             /\ <<>> \o Tail(stack) = Tail(stack)
  <2>1. 1 \in DOMAIN stack /\ stack[1] = "start.setup"
    BY <1>2, Pop DEF Top, Types
  <2>2. Has(stack, "start.setup") /\ ~Plain(stack)
    BY <2>1 DEF Has, Plain, Starters
  <2> QED
    BY <1>2, <2>2, Rest DEF Pending
<1>3. CASE SetupTransport \/ SetupThrows
  <2> DEFINE p == IF SetupTransport THEN "connecting" ELSE "refused"
  <2>1. /\ mode.branch = "demuxer" /\ transport' = session
        /\ phase' = [phase EXCEPT ![session] = p]
        /\ stack' = <<>> \o Tail(stack) /\ Top("start.setup")
        /\ UNCHANGED <<mode, state, destroyed, session, source>>
    BY <1>3 DEF SetupTransport, SetupThrows, Resume
  <2> HIDE DEF p
  <2>0. p \in {"connecting", "open", "refused"}
    BY DEF p
  <2>2. phase' \in [Sessions -> Phases] /\ Live' \subseteq {session}
    BY <1>2, <2>0, <2>1, OpensOne DEF Types
  <2>3. Types' /\ Links'
    BY <1>2, <2>1, <2>2 DEF Types, Links, ActiveStates, EndedStates
  <2>4. Pending'
    BY <1>2, <2>1, PlainIsOrderly DEF Pending
  <2> QED
    BY <1>2, <2>1, <2>3, <2>4 DEF Final
<1>4. CASE SetupSource
  <2>1. /\ mode.branch = "source" /\ source' = session
        /\ phase' = [phase EXCEPT ![session] = "open"]
        /\ stack' = <<"source.live">> \o Tail(stack) /\ Top("start.setup")
        /\ UNCHANGED <<mode, state, destroyed, session, transport>>
    BY <1>4 DEF SetupSource, Resume
  <2>2. phase' \in [Sessions -> Phases] /\ Live' \subseteq {session}
    BY <1>2, <2>1, OpensOne DEF Types
  <2>3. stack' \in Stacks /\ Plain(stack')
    BY <1>2, <2>1, PushPlain DEF Continuations, Starters
  <2>4. Types' /\ Links'
    BY <1>2, <2>1, <2>2, <2>3 DEF Types, Links, ActiveStates, EndedStates
  <2>5. Pending'
    BY <2>3, PlainIsOrderly DEF Pending
  <2> QED
    BY <1>2, <2>1, <2>4, <2>5 DEF Final
<1>5. CASE SetupSourceFails
  <2>1. Top("start.setup") /\ HandleError(<<"source.live">> \o Tail(stack))
    BY <1>5 DEF SetupSourceFails
  <2>2. /\ <<"source.live">> \o Tail(stack) \in Stacks
        /\ Plain(<<"source.live">> \o Tail(stack))
    BY <1>2, <2>1, PushPlain DEF Continuations, Starters
  <2> QED
    BY <1>2, <2>1, <2>2, ErrorOwns
<1>6. CASE SourceLive
  <2>1. /\ Top("source.live") /\ state' = "playing"
        /\ stack' = <<"listener", "source.pump">> \o Tail(stack)
        /\ UNCHANGED <<mode, destroyed, session, linkVars>>
    BY <1>6 DEF SourceLive, Resume
  <2>2. Tail(stack) \in Stacks /\ Plain(Tail(stack)) /\ ~destroyed
    BY <2>1, Rest
  <2>3. /\ stack' \in Stacks /\ Orderly(stack')
        /\ ~Has(stack', "start.setup")
    BY <2>1, <2>2, PushStarter DEF Continuations
  <2>4. Types' /\ Links'
    BY <2>1, <2>3 DEF Types, Links, Live, linkVars, EndedStates
  <2>5. Pending'
    BY <2>1, <2>3 DEF Pending, ActiveStates
  <2> QED
    BY <2>1, <2>2, <2>4, <2>5 DEF Final
<1>7. CASE SourcePump
  <2>1. /\ Top("source.pump") /\ stack' = <<>> \o Tail(stack)
        /\ UNCHANGED <<mode, state, destroyed, session, linkVars>>
    BY <1>7 DEF SourcePump, Resume
  <2>2. Tail(stack) \in Stacks /\ Plain(Tail(stack)) /\ ~destroyed /\ stack' = Tail(stack)
    BY <2>1, Rest
  <2>3. 1 \in DOMAIN stack /\ stack[1] = "source.pump"
    BY <2>1, Pop DEF Top, Types
  <2>4. state \in ActiveStates
    BY <2>3 DEF Pending, Plain, Starters
  <2>5. Types' /\ Links'
    BY <2>1, <2>2, <2>4 DEF Types, Links, Live, linkVars, ActiveStates, EndedStates
  <2>6. Pending'
    BY <2>2, PlainIsOrderly DEF Pending
  <2> QED
    BY <2>1, <2>2, <2>5, <2>6 DEF Final
<1>8. CASE ErrorEmit
  <2>1. /\ Top("error.emit") /\ stack' = <<"listener">> \o Tail(stack)
        /\ UNCHANGED <<mode, state, destroyed, session, linkVars, pumpVars>>
    BY <1>8 DEF ErrorEmit, Resume
  <2>2. Tail(stack) \in Stacks /\ Plain(Tail(stack)) /\ ~destroyed
    BY <2>1, Rest
  <2>3. stack' \in Stacks /\ Plain(stack')
    BY <2>1, <2>2, PushPlain DEF Continuations, Starters
  <2> QED
    BY <2>1, <2>2, <2>3, PlainOwns DEF pumpVars
<1> QED
  BY <1>1, <1>3, <1>4, <1>5, <1>6, <1>7, <1>8 DEF StartPieces

\* The stacks new tasks begin with.
LEMMA FreshStacks ==
    /\ <<"listener">> \in Stacks /\ Plain(<<"listener">>)
    /\ <<"listener", "frame.draw">> \in Stacks /\ Plain(<<"listener", "frame.draw">>)
    /\ <<"tick.decode", "tick.watch", "tick.return">> \in Stacks
    /\ Plain(<<"tick.decode", "tick.watch", "tick.return">>)
    /\ <<>> \in Stacks /\ Plain(<<>>)
<1>1. \A k, l, m \in Continuations :
        <<k>> \in Stacks /\ <<k, l>> \in Stacks /\ <<k, l, m>> \in Stacks /\ <<>> \in Stacks
  BY DEF Stacks
<1>2. /\ "listener" \in Continuations /\ "frame.draw" \in Continuations
      /\ "tick.decode" \in Continuations /\ "tick.watch" \in Continuations
      /\ "tick.return" \in Continuations
  BY DEF Continuations
<1>3. DOMAIN <<"listener">> = 1..1 /\ Plain(<<"listener">>)
  BY DEF Plain, Starters
<1>4. Plain(<<"listener", "frame.draw">>)
  BY DEF Plain, Starters
<1>5. Plain(<<"tick.decode", "tick.watch", "tick.return">>)
  BY DEF Plain, Starters
<1>6. Plain(<<>>)
  BY DEF Plain, Starters
<1> QED
  BY <1>1, <1>2, <1>3, <1>4, <1>5, <1>6

LEMMA StreamOwns ==
    ASSUME Owns, StreamEvents
    PROVE  Owns'
<1> USE DEF Owns
<1>1. Live # {} \/ timer => ~destroyed
  BY DEF Links, Final, EndedStates
<1>2. ASSUME NEW s \in Sessions, TransportOpen(s)
      PROVE  Owns'
  <2>1. /\ phase[s] = "connecting" /\ phase' = [phase EXCEPT ![s] = "open"] /\ ~timer'
        /\ UNCHANGED <<mode, destroyed, session, transport, source, pumpVars>>
        /\ \/ state' = "playing" /\ stack' = <<"listener">>
           \/ state' = state /\ stack' = stack
        /\ Quiescent
    BY <1>2 DEF TransportOpen
  <2>2. s \in Live /\ Live # {}
    BY <2>1 DEF Live
  <2>3. ~destroyed /\ state \notin EndedStates
    BY <1>1, <2>2 DEF Links
  <2>4. phase' \in [Sessions -> Phases]
    BY <2>1 DEF Types, Phases
  <2>5. Live' \subseteq Live
    BY <2>1, <2>2 DEF Live, Types
  <2>6. stack' \in Stacks /\ Plain(stack')
    BY <2>1, FreshStacks, NoTask
  <2>7. Types' /\ Links'
    BY <2>1, <2>3, <2>4, <2>5, <2>6 DEF Types, Links, EndedStates
  <2>8. Pending'
    BY <2>6, PlainIsOrderly DEF Pending
  <2> QED
    BY <2>1, <2>3, <2>7, <2>8 DEF Final
<1>3. ASSUME NEW s \in Sessions, CloseConnecting(s)
      PROVE  Owns'
  <2>1. ~destroyed /\ HandleError(<<>>)
    BY <1>1, <1>3, PeersLive DEF CloseConnecting
  <2> QED
    BY <2>1, FreshStacks, ErrorOwns
<1>4. ASSUME NEW s \in Sessions, CloseClean(s)
      PROVE  Owns'
  <2>1. /\ mode.branch = "demuxer" /\ s \in Live /\ StopPump
        /\ transport' = 0 /\ ~timer' /\ phase' = Closed({s, transport})
        /\ state' = "stopped" /\ stack' = <<"listener">>
        /\ UNCHANGED <<mode, destroyed, session, source>>
    BY <1>4, PeersLive DEF CloseClean
  <2>2. Live \subseteq {s, transport}
    <3>1. source = 0 /\ 0 \notin Live
      BY <2>1 DEF Links, Live, Sessions
    <3> QED
      BY <3>1 DEF Links
  <2>3. phase' \in [Sessions -> Phases] /\ Live' = {} /\ ~started' /\ ~destroyed
    BY <1>1, <2>1, <2>2, ClosesAll, StopsPump DEF Types
  <2>4. Types' /\ Links'
    BY <2>1, <2>3, FreshStacks, EngineAssumption DEF EngineAssumption, Types, Links
  <2>5. Pending'
    BY <2>1, FreshStacks, PlainIsOrderly DEF Pending
  <2> QED
    BY <2>1, <2>3, <2>4, <2>5 DEF Final
<1>5. ASSUME NEW s \in Sessions, StreamError(s)
      PROVE  Owns'
  <2>1. ~destroyed /\ HandleError(<<>>)
    BY <1>1, <1>5, PeersLive DEF StreamError
  <2> QED
    BY <2>1, FreshStacks, ErrorOwns
<1>6. ASSUME NEW s \in Sessions, StreamData(s)
      PROVE  Owns'
  <2>1. s \in Live
    BY <1>6 DEF StreamData, Live
  <2>2. /\ UNCHANGED <<mode, state, destroyed, session, linkVars, pumpVars>>
        /\ stack' = stack /\ Quiescent
    BY <1>6 DEF StreamData
  <2> QED
    BY <1>1, <2>1, <2>2, NoTask, PlainOwns DEF pumpVars
<1>7. CASE ConnectTimeout
  <2>1. ~destroyed /\ HandleError(<<>>)
    BY <1>1, <1>7 DEF ConnectTimeout
  <2> QED
    BY <2>1, FreshStacks, ErrorOwns
<1>8. CASE DecoderOutput
  BY <1>8, FreshStacks, PlainOwns DEF DecoderOutput, pumpVars
<1>9. CASE DecoderError
  BY <1>9, FreshStacks, ErrorOwns DEF DecoderError
<1>10. CASE Draw
  BY <1>10, Rest, PlainOwns DEF Draw, Resume, pumpVars
<1>11. CASE DrawThrows
  BY <1>11, Rest, ErrorOwns DEF DrawThrows
<1> QED
  BY <1>2, <1>3, <1>4, <1>5, <1>6, <1>7, <1>8, <1>9, <1>10, <1>11 DEF StreamEvents

\* A tick's piece, over what remains of the tick.
LEMMA TickOwns ==
    ASSUME Owns, Tick
    PROVE  Owns'
<1> USE DEF Owns
<1>1. CASE TickBegins
  <2>1. /\ Quiescent /\ started' = started /\ inTick' = started
        /\ UNCHANGED <<mode, state, destroyed, session, linkVars>>
        /\ stack' = IF inTick' THEN <<"tick.decode", "tick.watch", "tick.return">> ELSE <<>>
    BY <1>1 DEF TickBegins, P!Fire
  <2>2. CASE destroyed
    <3>1. ~started /\ stack' = <<>>
      BY <2>1, <2>2 DEF Final, Links, EndedStates
    <3>2. stack' = stack /\ stack' \in Stacks /\ Plain(stack')
      BY <2>1, <3>1, FreshStacks DEF Quiescent
    <3>3. Types' /\ Links'
      BY <2>1, <3>2 DEF Types, Links, Live, linkVars
    <3>4. Pending'
      BY <3>2, PlainIsOrderly DEF Pending
    <3> QED
      BY <2>1, <3>1, <3>3, <3>4 DEF Final
  <2>3. CASE ~destroyed
    BY <2>1, <2>3, FreshStacks, PlainOwns
  <2> QED
    BY <2>2, <2>3
<1>2. CASE TickDecodes
  BY <1>2, Rest, PlainOwns DEF TickDecodes, Resume, pumpVars
<1>3. CASE TickOutputs
  <2>1. /\ Top("tick.decode") /\ stack' = <<"listener", "frame.draw">> \o Tail(stack)
        /\ UNCHANGED <<mode, state, destroyed, session, linkVars, pumpVars>>
    BY <1>3 DEF TickOutputs, Resume
  <2>2. stack' \in Stacks /\ Plain(stack') /\ ~destroyed
    BY <2>1, Rest, PushStarter DEF Continuations, Starters
  <2> QED
    BY <2>1, <2>2, PlainOwns DEF pumpVars
<1>4. CASE TickDecodeFails
  BY <1>4, Rest, ErrorOwns DEF TickDecodeFails
<1>5. CASE TickHealthy
  BY <1>5, Rest, PlainOwns DEF TickHealthy, Resume, pumpVars
<1>6. CASE TickStalled
  <2>1. /\ Top("tick.watch") /\ stack' = <<"listener">> \o Tail(stack)
        /\ UNCHANGED <<mode, state, destroyed, session, linkVars, pumpVars>>
    BY <1>6 DEF TickStalled, Resume
  <2>2. stack' \in Stacks /\ Plain(stack') /\ ~destroyed
    BY <2>1, Rest, PushPlain DEF Continuations, Starters
  <2> QED
    BY <2>1, <2>2, PlainOwns DEF pumpVars
<1>7. CASE TickFatalStall
  BY <1>7, Rest, ErrorOwns DEF TickFatalStall
<1>8. CASE TickEnds
  <2>1. started' = started
    BY <1>8 DEF TickEnds, P!TickReturn
  <2> QED
    BY <1>8, <2>1, Rest, PlainOwns DEF TickEnds, Resume
<1> QED
  BY <1>1, <1>2, <1>3, <1>4, <1>5, <1>6, <1>7, <1>8 DEF Tick

LEMMA TabOwns ==
    ASSUME Owns, TabSwitch
    PROVE  Owns'
<1> USE DEF Owns
<1>1. /\ started' = started
      /\ UNCHANGED <<mode, state, destroyed, session, linkVars, stack>>
  BY DEF TabSwitch, P!VisibilityChange
<1> QED
  BY <1>1 DEF Types, Links, Pending, Final, Live, linkVars

LEMMA OwnsInit == Init => Owns
<1> SUFFICES ASSUME Init
             PROVE  Owns
  OBVIOUS
<1>1. phase \in [Sessions -> Phases] /\ Live = {}
  BY DEF Init, Phases, Live
<1>2. stack \in Stacks /\ Plain(stack)
  BY FreshStacks DEF Init
<1>3. Types
  BY <1>1, <1>2, EngineAssumption DEF EngineAssumption, Types, Init
<1>4. Links /\ Pending /\ Final
  BY <1>1, <1>2, PlainIsOrderly DEF Links, Pending, Final, Init, P!Init
<1> QED
  BY <1>3, <1>4 DEF Owns

LEMMA OwnsStep == NoneDestroys /\ Owns /\ [Next]_vars => Owns'
<1> SUFFICES ASSUME NoneDestroys, Owns, [Next]_vars
             PROVE  Owns'
  OBVIOUS
<1>1. CASE UserCall
  BY <1>1, CallOwns
<1>2. CASE ListenerReturns
  <2>1. Top("listener") /\ stack' = <<>> \o Tail(stack)
    BY <1>2 DEF ListenerReturns, Resume
  <2>2. stack # <<>> /\ stack' = Tail(stack)
    BY <2>1, PopNothing DEF Top, Owns, Types
  <2> QED
    BY <1>2, <2>2, ReturnOwns DEF ListenerReturns, pumpVars
<1>3. CASE StartPieces
  BY <1>3, StartOwns
<1>4. CASE StreamEvents
  BY <1>4, StreamOwns
<1>5. CASE Tick
  BY <1>5, TickOwns
<1>6. CASE TabSwitch
  BY <1>6, TabOwns
<1>7. CASE UNCHANGED vars
  BY <1>7 DEF vars, pumpVars, linkVars, Owns, Types, Links, Pending, Final, Live
<1> QED
  BY <1>1, <1>2, <1>3, <1>4, <1>5, <1>6, <1>7 DEF Next

LEMMA OwnsEnough == Owns => NoOrphan
  BY DEF Owns, Links, Final, NoOrphan, EndedStates

\* No connection is ever lost track of (engine.ts:195-260, transport-pipeline.ts:
\* teardown(), source-branch.ts:disconnect()): between tasks each live transport
\* or source is one the engine would close, and a player that failed, stopped or
\* was destroyed has none, for any number of sessions and any depth of re-entrant
\* play() and pause() calls.
THEOREM NothingOrphaned == ASSUME NoneDestroys PROVE Spec => []NoOrphan
<1>1. Init => Owns
  BY OwnsInit
<1>2. Owns /\ [Next]_vars => Owns'
  BY OwnsStep
<1>3. Owns => NoOrphan
  BY OwnsEnough
<1> QED
  BY <1>1, <1>2, <1>3, PTL DEF Spec

-----------------------------------------------------------------------------
(* One session: its error and its pump, for an ordinary player.              *)

Unfinished == Starters \cup {"source.live"}
Running == {"connecting", "playing"}

Setup == Has(stack, "start.setup")

Clear(s) == \A i \in DOMAIN s : s[i] \notin Unfinished
NoLive(s) == \A i \in DOMAIN s : s[i] # "source.live"
LiveOnTop(s) == \A i \in DOMAIN s : s[i] = "source.live" => i = 1

Pumping == state = "playing" \/ (state = "connecting" /\ ~Refused)

\* While a start() is unfinished the player connects or plays, with or without
\* its pump, and before its set-up it connects; otherwise the pump runs exactly
\* while it should.  The one error a session has is what ended it.
Session ==
    /\ LiveOnTop(stack)
    /\ ~Clear(stack) => state \in Running /\ ~Refused
    /\ Setup => state = "connecting" /\ ~started
    /\ Clear(stack) => (started <=> Pumping)
    /\ failures = 0 \/ (failures = 1 /\ (state = "error" \/ destroyed))

Sound == Ordinary => Session

LEMMA Under ==
    ASSUME NEW s \in Stacks, s # <<>>, LiveOnTop(s)
    PROVE  /\ NoLive(Tail(s))
           /\ Head(s) # "source.live" => NoLive(s)
           /\ Clear(s) => Clear(Tail(s))
           /\ Head(s) \notin Unfinished /\ Clear(Tail(s)) => Clear(s)
<1>1. \A i \in DOMAIN Tail(s) : i + 1 \in DOMAIN s /\ i + 1 # 1 /\ Tail(s)[i] = s[i + 1]
  BY Pop
<1>2. \A i \in DOMAIN s : i # 1 => i - 1 \in DOMAIN Tail(s) /\ s[i] = Tail(s)[i - 1]
  <2> SUFFICES ASSUME NEW i \in 1..Len(s), i # 1
               PROVE  i - 1 \in 1..(Len(s) - 1) /\ s[i] = Tail(s)[i - 1]
    BY Pop
  <2>1. Len(s) \in Nat
    BY Pop
  <2>2. i - 1 \in 1..(Len(s) - 1) /\ (i - 1) + 1 = i
    BY <2>1
  <2> QED
    BY <2>2, Pop
<1>3. s[1] = Head(s)
  BY Pop
<1>4. NoLive(Tail(s))
  BY <1>1 DEF NoLive, LiveOnTop
<1>5. Head(s) # "source.live" => NoLive(s)
  BY <1>3 DEF NoLive, LiveOnTop
<1>6. Clear(s) => Clear(Tail(s))
  BY <1>1 DEF Clear
<1>7. ASSUME Head(s) \notin Unfinished, Clear(Tail(s))
      PROVE  Clear(s)
  BY <1>2, <1>3, <1>7 DEF Clear
<1> QED
  BY <1>4, <1>5, <1>6, <1>7

LEMMA OverOne ==
    ASSUME NEW s \in Stacks, NEW k \in Continuations, NoLive(s)
    PROVE  LET t == <<k>> \o s
           IN  /\ t \in Stacks /\ LiveOnTop(t)
               /\ k \notin Unfinished => NoLive(t) /\ (Clear(t) <=> Clear(s))
               /\ k \in Unfinished => ~Clear(t)
<1> DEFINE t == <<k>> \o s
<1>1. /\ t \in Stacks /\ DOMAIN s = 1..Len(s) /\ Len(s) \in Nat
      /\ DOMAIN t = 1..(Len(s) + 1) /\ t[1] = k
      /\ \A i \in 1..Len(s) : t[i + 1] = s[i]
  BY PushOne
<1> HIDE DEF t
<1>2. \A i \in DOMAIN s : i + 1 \in DOMAIN t /\ t[i + 1] = s[i]
  BY <1>1
<1>3. \A i \in DOMAIN t : i # 1 => i - 1 \in DOMAIN s /\ t[i] = s[i - 1]
  <2> SUFFICES ASSUME NEW i \in 1..(Len(s) + 1), i # 1
               PROVE  i - 1 \in 1..Len(s) /\ t[i] = s[i - 1]
    BY <1>1
  <2>1. i - 1 \in 1..Len(s) /\ (i - 1) + 1 = i
    BY <1>1
  <2> QED
    BY <1>1, <2>1
<1>4. 1 \in DOMAIN t
  BY <1>1
<1>5. LiveOnTop(t)
  BY <1>3 DEF LiveOnTop, NoLive
<1>6. ASSUME k \notin Unfinished
      PROVE  NoLive(t) /\ (Clear(t) <=> Clear(s))
  BY <1>1, <1>2, <1>3, <1>6 DEF NoLive, Clear, Unfinished
<1>7. k \in Unfinished => ~Clear(t)
  BY <1>1, <1>4 DEF Clear
<1> QED
  BY <1>1, <1>5, <1>6, <1>7 DEF t

LEMMA OverTwo ==
    ASSUME NEW s \in Stacks, NEW k \in Continuations, k # "source.live", NoLive(s)
    PROVE  LET t == <<"listener", k>> \o s
           IN  /\ t \in Stacks /\ LiveOnTop(t)
               /\ k \notin Unfinished => (Clear(t) <=> Clear(s))
               /\ k \in Unfinished => ~Clear(t)
<1> DEFINE t == <<"listener", k>> \o s
<1>0. "listener" \in Continuations
  BY DEF Continuations
<1>1. /\ t \in Stacks /\ DOMAIN s = 1..Len(s) /\ Len(s) \in Nat
      /\ DOMAIN t = 1..(Len(s) + 2) /\ t[1] = "listener" /\ t[2] = k
      /\ \A i \in 1..Len(s) : t[i + 2] = s[i]
  BY <1>0, PushTwo
<1> HIDE DEF t
<1>2. \A i \in DOMAIN s : i + 2 \in DOMAIN t /\ t[i + 2] = s[i]
  BY <1>1
<1>3. \A i \in DOMAIN t : i = 1 \/ i = 2 \/ (i - 2 \in DOMAIN s /\ t[i] = s[i - 2])
  <2> SUFFICES ASSUME NEW i \in 1..(Len(s) + 2), i # 1, i # 2
               PROVE  i - 2 \in 1..Len(s) /\ t[i] = s[i - 2]
    BY <1>1
  <2>1. i - 2 \in 1..Len(s) /\ (i - 2) + 2 = i
    BY <1>1
  <2> QED
    BY <1>1, <2>1
<1>4. 2 \in DOMAIN t
  BY <1>1
<1>5. LiveOnTop(t)
  BY <1>1, <1>3 DEF LiveOnTop, NoLive
<1>6. ASSUME k \notin Unfinished
      PROVE  Clear(t) <=> Clear(s)
  <2>1. Clear(t) => Clear(s)
    BY <1>2 DEF Clear
  <2>2. Clear(s) => Clear(t)
    BY <1>1, <1>3, <1>6 DEF Clear, Unfinished, Starters
  <2> QED
    BY <2>1, <2>2
<1>7. k \in Unfinished => ~Clear(t)
  BY <1>1, <1>4 DEF Clear
<1> QED
  BY <1>1, <1>5, <1>6, <1>7 DEF t

LEMMA FreshClear ==
    /\ Clear(<<"listener">>) /\ Clear(<<"listener", "frame.draw">>) /\ Clear(<<>>)
    /\ Clear(<<"tick.decode", "tick.watch", "tick.return">>)
<1>1. Clear(<<"listener">>) /\ Clear(<<>>)
  BY DEF Clear, Unfinished, Starters
<1>2. Clear(<<"listener", "frame.draw">>)
  BY DEF Clear, Unfinished, Starters
<1>3. Clear(<<"tick.decode", "tick.watch", "tick.return">>)
  BY DEF Clear, Unfinished, Starters
<1> QED
  BY <1>1, <1>2, <1>3

LEMMA ClearIsPlain ==
    ASSUME NEW s, Clear(s)
    PROVE  Plain(s) /\ NoLive(s) /\ LiveOnTop(s) /\ ~Has(s, "start.setup")
  BY DEF Clear, Plain, NoLive, LiveOnTop, Unfinished, Starters, Has

\* Nothing is unfinished under a piece that is no listener.
LEMMA RestClear ==
    ASSUME Owns, Session, NEW k, Top(k), k # "listener"
    PROVE  Clear(Tail(stack)) /\ (k \notin Unfinished => Clear(stack))
<1>1. stack # <<>> /\ stack \in Stacks /\ Head(stack) = k /\ Plain(Tail(stack))
  BY Rest DEF Top, Owns, Types
<1>2. NoLive(Tail(stack))
  BY <1>1, Under DEF Session
<1>3. Clear(Tail(stack))
  BY <1>1, <1>2 DEF Clear, Plain, NoLive, Unfinished
<1> QED
  BY <1>1, <1>3, Under DEF Session

LEMMA TaskClear ==
    ASSUME Quiescent
    PROVE  Clear(stack)
  BY FreshClear DEF Quiescent

LEMMA PumpStarts == StartPump => started'
  BY DEF StartPump, P!Start, pumpVars

LEMMA ErrorSession ==
    ASSUME Session, ~destroyed, NEW rest \in Stacks, Clear(rest), HandleError(rest)
    PROVE  Session'
<1>1. destroyed' = destroyed
  BY DEF HandleError
<1>2. CASE state = "error"
  <2>1. stack' = rest /\ state' = state /\ failures' = failures /\ started' = started
    BY <1>2 DEF HandleError, pumpVars
  <2>2. Clear(stack) /\ ~started
    BY <1>2 DEF Session, Running, Pumping, Setup
  <2> QED
    BY <1>1, <1>2, <2>1, <2>2, ClearIsPlain DEF Session, Running, Pumping, Setup
<1>3. CASE state # "error"
  <2>1. /\ StopPump /\ state' = "error" /\ failures' = failures + 1
        /\ stack' = <<"listener", "error.emit">> \o rest
    BY <1>3 DEF HandleError
  <2>2. "error.emit" \in Continuations /\ "error.emit" \notin Unfinished
    BY DEF Continuations, Unfinished, Starters
  <2>3. Clear(stack') /\ LiveOnTop(stack') /\ ~started'
    BY <2>1, <2>2, OverTwo, ClearIsPlain, StopsPump
  <2>4. failures' = 1
    BY <1>3, <2>1 DEF Session
  <2> QED
    BY <2>1, <2>3, <2>4, ClearIsPlain DEF Session, Running, Pumping, Setup
<1> QED
  BY <1>2, <1>3

\* A piece that leaves the player as it is, over stacks that are both clear.
LEMMA SameSession ==
    ASSUME Session, Clear(stack), Clear(stack'),
           UNCHANGED <<state, destroyed, failures, phase>>, started' = started
    PROVE  Session'
<1>1. Pumping' <=> Pumping
  BY DEF Pumping, Refused
<1> QED
  BY <1>1, ClearIsPlain DEF Session, Setup

-----------------------------------------------------------------------------
LEMMA CallSession ==
    ASSUME NoneDestroys, Owns, Session, Ordinary, UserCall
    PROVE  Session'
<1>1. stack \in Stacks /\ mode \in Modes
  BY DEF Owns, Types
<1>2. ASSUME NEW call, UserRuns(call)
      PROVE  NoLive(stack)
  <2>1. CASE Quiescent
    BY <2>1, TaskClear, ClearIsPlain
  <2>2. CASE Top("listener")
    BY <1>1, <2>2, Under DEF Top, Session
  <2> QED
    BY <1>2, <2>1, <2>2 DEF UserRuns
<1>3. "listener" \in Continuations \ Unfinished /\ "start.setup" \in Continuations \cap Unfinished
  BY DEF Continuations, Unfinished, Starters
<1>4. CASE PlayPaused
  <2>1. /\ UserRuns("play") /\ ~destroyed /\ state = "paused" /\ state' = "playing"
        /\ StartPump /\ stack' = <<"listener">> \o stack
        /\ failures' = failures /\ destroyed' = destroyed
    BY <1>4 DEF PlayPaused, Call
  <2>2. NoLive(stack) /\ Clear(stack) /\ failures = 0
    BY <1>2, <2>1 DEF Session, Running, Pumping, Setup
  <2>3. LiveOnTop(stack') /\ Clear(stack') /\ started'
    BY <1>1, <1>3, <2>1, <2>2, OverOne, PumpStarts
  <2> QED
    BY <2>1, <2>2, <2>3, ClearIsPlain DEF Session, Running, Pumping, Setup
<1>5. CASE PlayStart
  <2>1. /\ UserRuns("play") /\ state' = "connecting" /\ failures' = 0
        /\ state \in EndedStates /\ phase' = phase /\ started' = started
        /\ stack' = <<"listener", "start.setup">> \o stack
    BY <1>5 DEF PlayStart, Call, EndedStates, linkVars, pumpVars
  <2>2. ~Refused' /\ ~started'
    BY <2>1, PeersLive DEF Owns, Links, Refused
  <2>3. LiveOnTop(stack') /\ ~Clear(stack')
    BY <1>1, <1>2, <1>3, <2>1, OverTwo
  <2> QED
    BY <2>1, <2>2, <2>3 DEF Session, Running
<1>6. CASE Pause
  <2>1. /\ UserRuns("pause") /\ state \in {"playing", "connecting"} /\ state' = "paused"
        /\ StopPump /\ stack' = <<"listener">> \o stack
        /\ failures' = failures
    BY <1>6 DEF Pause, Call
  <2>2. Quiescent
    BY <2>1 DEF UserRuns, Ordinary
  <2>3. NoLive(stack) /\ Clear(stack)
    BY <2>2, TaskClear, ClearIsPlain
  <2>4. LiveOnTop(stack') /\ Clear(stack') /\ ~started'
    BY <1>1, <1>3, <2>1, <2>3, OverOne, StopsPump
  <2>5. failures = 0
    BY <2>1 DEF Session, Owns, Final
  <2> QED
    BY <2>1, <2>4, <2>5, ClearIsPlain DEF Session, Running, Pumping, Setup
<1>7. CASE Destroy
  <2>1. /\ UserRuns("destroy") /\ destroyed' = TRUE /\ P!Destroy /\ state' = "stopped"
        /\ stack' = stack /\ failures' = failures
    BY <1>7 DEF Destroy
  <2>2. Quiescent
    BY <1>1, <2>1 DEF UserRuns, NoneDestroys
  <2>3. Clear(stack') /\ LiveOnTop(stack') /\ ~started'
    BY <2>1, <2>2, TaskClear, ClearIsPlain, DestroysPump
  <2> QED
    BY <2>1, <2>3, ClearIsPlain DEF Session, Running, Pumping, Setup
<1> QED
  BY <1>4, <1>5, <1>6, <1>7 DEF UserCall

LEMMA StartSession ==
    ASSUME Owns, Session, Ordinary, StartPieces
    PROVE  Session'
<1>1. /\ "source.live" \in Continuations \cap Unfinished
      /\ "start.setup" \in Unfinished /\ "source.pump" \in Continuations \cap Unfinished
      /\ "listener" \in Continuations \ Unfinished /\ "error.emit" \notin Unfinished
  BY DEF Continuations, Unfinished, Starters
<1>2. ASSUME NEW k, Top(k), k # "listener"
      PROVE  /\ Tail(stack) \in Stacks /\ Clear(Tail(stack)) /\ NoLive(Tail(stack))
             /\ LiveOnTop(Tail(stack))
             /\ <<>> \o Tail(stack) = Tail(stack) /\ ~destroyed
  BY <1>2, Rest, RestClear, ClearIsPlain
<1>3. ASSUME NEW k \in Unfinished, Top(k)
      PROVE  state \in Running /\ ~Refused /\ failures = 0
  <2>1. 1 \in DOMAIN stack /\ stack[1] = k
    BY <1>3, Pop DEF Top, Owns, Types
  <2>2. ~Clear(stack)
    BY <2>1 DEF Clear
  <2> QED
    BY <1>2, <1>3, <2>2 DEF Session, Running, Pumping, Setup, Unfinished, Starters
<1>4. CASE SetupRejected
  BY <1>2, <1>4, ErrorSession DEF SetupRejected
<1>11. ASSUME Top("start.setup")
       PROVE  /\ state = "connecting" /\ Live = {} /\ failures = 0 /\ ~Clear(stack)
              /\ phase \in [Sessions -> Phases] /\ session \in Sessions /\ ~started
  <2>1. 1 \in DOMAIN stack /\ stack[1] = "start.setup"
    BY <1>11, Pop DEF Top, Owns, Types
  <2>2. Setup /\ ~Clear(stack)
    BY <1>1, <2>1 DEF Setup, Has, Clear
  <2> QED
    BY <1>1, <1>3, <1>11, <2>2, EngineAssumption
       DEF EngineAssumption, Session, Owns, Types, Pending, Setup, Sessions
<1>5. CASE SetupTransport
  <2>1. /\ Top("start.setup") /\ StartPump /\ stack' = <<>> \o Tail(stack)
        /\ phase' = [phase EXCEPT ![session] = "connecting"]
        /\ UNCHANGED <<state, destroyed, failures>>
    BY <1>5 DEF SetupTransport, Resume
  <2>2. started' /\ ~Refused'
    BY <1>11, <2>1, PumpStarts, OpensOne DEF Owns, Types
  <2>3. Clear(stack') /\ LiveOnTop(stack')
    BY <1>2, <2>1
  <2> QED
    BY <1>11, <2>1, <2>2, <2>3, ClearIsPlain DEF Session, Pumping, Setup
<1>12. CASE SetupThrows
  <2>1. /\ Top("start.setup") /\ stack' = <<>> \o Tail(stack)
        /\ phase' = [phase EXCEPT ![session] = "refused"]
        /\ UNCHANGED <<state, destroyed, failures>> /\ started' = started
    BY <1>12 DEF SetupThrows, Resume, pumpVars
  <2>2. Refused'
    BY <1>11, <2>1 DEF Refused
  <2>3. Clear(stack') /\ LiveOnTop(stack')
    BY <1>2, <2>1
  <2> QED
    BY <1>11, <2>1, <2>2, <2>3, ClearIsPlain DEF Session, Pumping, Setup
<1>6. CASE SetupSource
  <2>1. /\ Top("start.setup") /\ stack' = <<"source.live">> \o Tail(stack)
        /\ phase' = [phase EXCEPT ![session] = "open"]
        /\ UNCHANGED <<state, destroyed, failures>>
    BY <1>6 DEF SetupSource, Resume
  <2>2. LiveOnTop(stack') /\ ~Clear(stack')
    BY <1>1, <1>2, <2>1, OverOne
  <2>3. ~Refused'
    BY <1>11, <2>1, OpensOne DEF Owns, Types
  <2>4. ~Setup'
    <3>1. Plain(Tail(stack)) /\ "source.live" \in Continuations \ Starters
      BY <2>1, Rest DEF Continuations, Starters
    <3> QED
      BY <1>2, <2>1, <3>1, PushPlain, PlainIsOrderly DEF Setup
  <2> QED
    BY <1>1, <1>3, <2>1, <2>2, <2>3, <2>4 DEF Session
<1>7. CASE SetupSourceFails
  BY <1>7 DEF SetupSourceFails, Ordinary
<1>8. CASE SourceLive
  <2>1. /\ Top("source.live") /\ state' = "playing"
        /\ stack' = <<"listener", "source.pump">> \o Tail(stack)
        /\ UNCHANGED <<destroyed, failures, phase>>
    BY <1>8 DEF SourceLive, Resume, linkVars
  <2>2. LiveOnTop(stack') /\ ~Clear(stack')
    BY <1>1, <1>2, <2>1, OverTwo
  <2>3. failures = 0 /\ ~Refused'
    BY <1>1, <1>3, <2>1 DEF Refused
  <2>4. ~Setup'
    BY <1>1, <1>2, <2>1, ClearIsPlain, PushStarter DEF Setup
  <2> QED
    BY <2>1, <2>2, <2>3, <2>4 DEF Session, Running
<1>9. CASE SourcePump
  <2>1. /\ Top("source.pump") /\ StartPump /\ stack' = <<>> \o Tail(stack)
        /\ UNCHANGED <<state, destroyed, failures, phase>>
    BY <1>9 DEF SourcePump, Resume, linkVars
  <2>2. started' /\ state \in Running /\ ~Refused' /\ failures = 0
    BY <1>1, <1>3, <2>1, PumpStarts DEF Refused
  <2>3. Clear(stack') /\ LiveOnTop(stack')
    BY <1>2, <2>1
  <2> QED
    BY <2>1, <2>2, <2>3, ClearIsPlain DEF Session, Pumping, Running, Setup
<1>10. CASE ErrorEmit
  <2>1. /\ Top("error.emit") /\ stack' = <<"listener">> \o Tail(stack)
        /\ UNCHANGED <<state, destroyed, failures, phase, pumpVars>>
    BY <1>10 DEF ErrorEmit, Resume, linkVars
  <2>2. Clear(stack') /\ Clear(stack)
    BY <1>1, <1>2, <2>1, OverOne, RestClear
  <2> QED
    BY <2>1, <2>2, SameSession DEF pumpVars, linkVars
<1> QED
  BY <1>4, <1>5, <1>6, <1>7, <1>8, <1>9, <1>10, <1>12 DEF StartPieces

LEMMA StreamSession ==
    ASSUME Owns, Session, StreamEvents
    PROVE  Session'
<1>1. Live # {} \/ timer => ~destroyed /\ state \notin EndedStates
  BY DEF Owns, Links, Final, EndedStates
<1>2. <<>> \in Stacks /\ Clear(<<>>)
  BY FreshClear, FreshStacks
<1>3. ASSUME NEW s \in Sessions, TransportOpen(s)
      PROVE  Session'
  <2>1. /\ Quiescent /\ started' = started
        /\ phase[s] = "connecting" /\ phase' = [phase EXCEPT ![s] = "open"]
        /\ mode.branch = "demuxer"
        /\ UNCHANGED <<destroyed, failures>>
        /\ \/ state = "connecting" /\ state' = "playing" /\ stack' = <<"listener">>
           \/ state # "connecting" /\ state' = state /\ stack' = stack
    BY <1>3 DEF TransportOpen, pumpVars
  <2>2. Clear(stack) /\ Clear(stack') /\ LiveOnTop(stack') /\ ~Setup'
    BY <2>1, TaskClear, FreshClear, ClearIsPlain DEF Setup
  <2>3. s \in Live
    BY <1>3 DEF TransportOpen, Live
  <2>4. failures = 0
    BY <1>1, <2>3 DEF Session, EndedStates
  <2>5. ~Refused
    <3>1. Live \subseteq {s}
      <4>1. source = 0 /\ 0 \notin Live
        BY <2>1 DEF Owns, Links, Live, Sessions
      <4> QED
        BY <2>3, <4>1 DEF Owns, Links
    <3> QED
      BY <2>1, <3>1 DEF Live, Refused
  <2> QED
    BY <2>1, <2>2, <2>4, <2>5 DEF Session, Pumping
<1>4. ASSUME NEW s \in Sessions, CloseConnecting(s)
      PROVE  Session'
  <2>1. ~destroyed /\ HandleError(<<>>)
    BY <1>1, <1>4, PeersLive DEF CloseConnecting
  <2> QED
    BY <1>2, <2>1, ErrorSession
<1>5. ASSUME NEW s \in Sessions, CloseClean(s)
      PROVE  Session'
  <2>1. /\ s \in Live /\ StopPump /\ state' = "stopped" /\ stack' = <<"listener">>
        /\ UNCHANGED <<destroyed, failures>>
    BY <1>5, PeersLive DEF CloseClean
  <2>2. failures = 0 /\ ~started'
    BY <1>1, <2>1, StopsPump DEF Session, EndedStates
  <2>3. Clear(stack') /\ LiveOnTop(stack') /\ ~Setup'
    BY <2>1, FreshClear, ClearIsPlain DEF Setup
  <2> QED
    BY <2>1, <2>2, <2>3 DEF Session, Running, Pumping, Setup
<1>6. ASSUME NEW s \in Sessions, StreamError(s)
      PROVE  Session'
  <2>1. ~destroyed /\ HandleError(<<>>)
    BY <1>1, <1>6, PeersLive DEF StreamError
  <2> QED
    BY <1>2, <2>1, ErrorSession
<1>7. ASSUME NEW s \in Sessions, StreamData(s)
      PROVE  Session'
  BY <1>7, TaskClear, SameSession DEF StreamData, pumpVars, linkVars
<1>8. CASE ConnectTimeout
  <2>1. ~destroyed /\ HandleError(<<>>)
    BY <1>1, <1>8 DEF ConnectTimeout
  <2> QED
    BY <1>2, <2>1, ErrorSession
<1>9. CASE DecoderOutput
  BY <1>9, TaskClear, FreshClear, SameSession DEF DecoderOutput, pumpVars, linkVars
<1>10. CASE DecoderError
  BY <1>2, <1>10, ErrorSession DEF DecoderError
<1>11. "frame.draw" \notin Unfinished /\ "frame.draw" # "listener"
  BY DEF Unfinished, Starters
<1>12. CASE Draw
  BY <1>11, <1>12, Rest, RestClear, SameSession DEF Draw, Resume, pumpVars, linkVars
<1>13. CASE DrawThrows
  BY <1>11, <1>13, Rest, RestClear, ErrorSession DEF DrawThrows
<1> QED
  BY <1>3, <1>4, <1>5, <1>6, <1>7, <1>8, <1>9, <1>10, <1>12, <1>13 DEF StreamEvents

LEMMA TickSession ==
    ASSUME Owns, Session, Tick
    PROVE  Session'
<1>1. /\ "tick.decode" \notin Unfinished /\ "tick.watch" \notin Unfinished
      /\ "tick.return" \notin Unfinished
      /\ "listener" \in Continuations \ Unfinished
      /\ "frame.draw" \in Continuations \ Unfinished /\ "frame.draw" # "source.live"
  BY DEF Continuations, Unfinished, Starters
<1>2. CASE TickBegins
  <2>1. /\ Quiescent /\ started' = started
        /\ UNCHANGED <<state, destroyed, failures, phase>>
        /\ stack' = IF inTick' THEN <<"tick.decode", "tick.watch", "tick.return">> ELSE <<>>
    BY <1>2 DEF TickBegins, P!Fire, linkVars
  <2> QED
    BY <2>1, TaskClear, FreshClear, SameSession
<1>3. CASE TickDecodes
  BY <1>1, <1>3, Rest, RestClear, SameSession DEF TickDecodes, Resume, pumpVars, linkVars
<1>4. CASE TickOutputs
  <2>1. /\ Top("tick.decode") /\ stack' = <<"listener", "frame.draw">> \o Tail(stack)
        /\ UNCHANGED <<state, destroyed, failures, phase>> /\ started' = started
    BY <1>4 DEF TickOutputs, Resume, pumpVars, linkVars
  <2>2. Tail(stack) \in Stacks /\ Clear(Tail(stack)) /\ Clear(stack)
    BY <1>1, <2>1, Rest, RestClear
  <2>3. Clear(stack')
    BY <1>1, <2>1, <2>2, OverTwo, ClearIsPlain
  <2> QED
    BY <2>1, <2>2, <2>3, SameSession
<1>5. CASE TickDecodeFails
  BY <1>1, <1>5, Rest, RestClear, ErrorSession DEF TickDecodeFails
<1>6. CASE TickHealthy
  BY <1>1, <1>6, Rest, RestClear, SameSession DEF TickHealthy, Resume, pumpVars, linkVars
<1>7. CASE TickStalled
  <2>1. /\ Top("tick.watch") /\ stack' = <<"listener">> \o Tail(stack)
        /\ UNCHANGED <<state, destroyed, failures, phase>> /\ started' = started
    BY <1>7 DEF TickStalled, Resume, pumpVars, linkVars
  <2>2. Tail(stack) \in Stacks /\ Clear(Tail(stack)) /\ Clear(stack)
    BY <1>1, <2>1, Rest, RestClear
  <2>3. Clear(stack')
    BY <1>1, <2>1, <2>2, OverOne, ClearIsPlain
  <2> QED
    BY <2>1, <2>2, <2>3, SameSession
<1>8. CASE TickFatalStall
  BY <1>1, <1>8, Rest, RestClear, ErrorSession DEF TickFatalStall
<1>9. CASE TickEnds
  <2>1. started' = started
    BY <1>9 DEF TickEnds, P!TickReturn
  <2> QED
    BY <1>1, <1>9, <2>1, Rest, RestClear, SameSession DEF TickEnds, Resume, linkVars
<1> QED
  BY <1>2, <1>3, <1>4, <1>5, <1>6, <1>7, <1>8, <1>9 DEF Tick

LEMMA ModeStays == [Next]_vars => mode' = mode
  BY DEF Next, vars, UserCall, PlayPaused, PlayStart, Pause, Destroy, ListenerReturns,
         StartPieces, SetupRejected, SetupTransport, SetupThrows, SetupSource, SetupSourceFails,
         SourceLive, SourcePump, ErrorEmit, StreamEvents, TransportOpen, CloseConnecting,
         CloseClean, StreamError, StreamData, ConnectTimeout, DecoderOutput, DecoderError,
         Draw, DrawThrows, Tick, TickBegins, TickDecodes, TickOutputs, TickDecodeFails,
         TickHealthy, TickStalled, TickFatalStall, TickEnds, TabSwitch, HandleError

LEMMA SoundStep == NoneDestroys /\ Owns /\ Sound /\ [Next]_vars => Sound'
<1> SUFFICES ASSUME NoneDestroys, Owns, Sound, [Next]_vars, Ordinary'
             PROVE  Session'
  BY DEF Sound
<1>1. mode' = mode
  BY ModeStays
<1>2. Ordinary /\ Session
  BY <1>1 DEF Ordinary, Sound
<1>3. CASE UserCall
  BY <1>2, <1>3, CallSession
<1>4. CASE ListenerReturns
  <2>1. /\ Top("listener") /\ stack' = <<>> \o Tail(stack) /\ started' = started
        /\ UNCHANGED <<state, destroyed, failures, phase>>
    BY <1>4 DEF ListenerReturns, Resume, pumpVars, linkVars
  <2>2. /\ stack \in Stacks /\ stack # <<>> /\ Head(stack) = "listener"
        /\ stack' = Tail(stack)
    BY <2>1, PopNothing DEF Top, Owns, Types
  <2>3. "listener" \notin Unfinished
    BY DEF Unfinished, Starters
  <2>4. NoLive(stack') /\ (Clear(stack') <=> Clear(stack))
    BY <1>2, <2>2, <2>3, Under DEF Session
  <2>5. (Pumping' <=> Pumping) /\ (Refused' <=> Refused)
    BY <2>1 DEF Pumping, Refused
  <2>6. Setup' => Setup
    BY <2>2, PopAny DEF Setup, Owns, Pending
  <2> QED
    BY <1>2, <2>1, <2>4, <2>5, <2>6 DEF Session, NoLive, LiveOnTop
<1>5. CASE StartPieces
  BY <1>2, <1>5, StartSession
<1>6. CASE StreamEvents
  BY <1>2, <1>6, StreamSession
<1>7. CASE Tick
  BY <1>2, <1>7, TickSession
<1>8. CASE TabSwitch
  <2>1. started' = started /\ UNCHANGED <<state, destroyed, failures, stack, phase>>
    BY <1>8 DEF TabSwitch, P!VisibilityChange, linkVars
  <2> QED
    BY <1>2, <2>1 DEF Session, Pumping, Refused, Setup
<1>9. CASE UNCHANGED vars
  BY <1>2, <1>9 DEF vars, pumpVars, linkVars, Session, Pumping, Refused, Setup
<1> QED
  BY <1>3, <1>4, <1>5, <1>6, <1>7, <1>8, <1>9 DEF Next

LEMMA SoundInit == Init => Sound
  BY FreshClear, ClearIsPlain DEF Init, P!Init, Sound, Session, Pumping, Setup

LEMMA SoundEnough == Sound => OneErrorPerSession /\ PumpMatchesState
<1>1. Sound => OneErrorPerSession
  BY DEF Sound, Session, OneErrorPerSession
<1>2. Sound => PumpMatchesState
  BY TaskClear DEF Sound, Session, PumpMatchesState, Pumping
<1> QED
  BY <1>1, <1>2

\* A session reports at most one error, whatever races with its teardown
\* (engine.ts handleError()): for any number of sessions and any nesting of
\* listeners that play again.
THEOREM OneError == ASSUME NoneDestroys PROVE Spec => []OneErrorPerSession
<1>1. Init => Owns /\ Sound
  BY OwnsInit, SoundInit
<1>2. NoneDestroys /\ Owns /\ Sound /\ [Next]_vars => Owns' /\ Sound'
  BY OwnsStep, SoundStep
<1>3. Sound => OneErrorPerSession
  BY SoundEnough
<1>4. NoneDestroys
  OBVIOUS
<1>5. Owns /\ Sound /\ [Next]_vars => Owns' /\ Sound'
  BY <1>2, <1>4
<1> QED
  BY <1>1, <1>3, <1>5, PTL DEF Spec

\* Between tasks the pump of an ordinary player runs exactly while the player
\* connects or plays (engine.ts startPump(), pump.stop() in pause(), handleError(),
\* handlePipelineClose() and destroy()); except after a connect() that threw, when
\* it connects without a pump until the connect timer fires.
THEOREM PumpFollowsState == ASSUME NoneDestroys PROVE Spec => []PumpMatchesState
<1>1. Init => Owns /\ Sound
  BY OwnsInit, SoundInit
<1>2. NoneDestroys
  OBVIOUS
<1>3. Owns /\ Sound /\ [Next]_vars => Owns' /\ Sound'
  BY <1>2, OwnsStep, SoundStep
<1>4. Sound => PumpMatchesState
  BY SoundEnough
<1> QED
  BY <1>1, <1>3, <1>4, PTL DEF Spec

-----------------------------------------------------------------------------
(* The life cycle of an ordinary player.                                     *)

LEMMA StateStep ==
    ASSUME state \in States, [Next]_vars
    PROVE  state' \in States
  BY DEF States, Next, vars, UserCall, PlayPaused, PlayStart, Pause, Destroy, ListenerReturns,
         StartPieces, SetupRejected, SetupTransport, SetupThrows, SetupSource, SetupSourceFails,
         SourceLive, SourcePump, ErrorEmit, StreamEvents, TransportOpen, CloseConnecting,
         CloseClean, StreamError, StreamData, ConnectTimeout, DecoderOutput, DecoderError,
         Draw, DrawThrows, Tick, TickBegins, TickDecodes, TickOutputs, TickDecodeFails,
         TickHealthy, TickStalled, TickFatalStall, TickEnds, TabSwitch, HandleError

\* A session has a stream behind it once it is set up, and is still connecting
\* when its source starts; before the first session nothing runs.
Stream ==
    /\ Top("source.live") => state = "connecting" /\ Link = "live"
    /\ state \in ActiveStates => session # 0 /\ (Live # {} \/ Setup)
    /\ state = "idle" => stack = <<>> /\ ~fed

\* An ordinary player and what is known of it.
Known == Owns /\ Session /\ Stream /\ Ordinary /\ state \in States

Stutter == UNCHANGED Lifecycle!vars
Mapped == Lifecycle!Next \/ Stutter

LEMMA Silent ==
    ASSUME UNCHANGED <<mode, state, destroyed, phase>>
    PROVE  Stutter
<1>1. (Ordinary' <=> Ordinary) /\ Link' = Link
  BY DEF Ordinary, Link, Live
<1>2. (destroyed /\ Ordinary)' = (destroyed /\ Ordinary)
  BY <1>1
<1> QED
  BY <1>1, <1>2 DEF Stutter, Lifecycle!vars

\* What the life cycle sees of the link.
LEMMA LinkViews ==
    /\ Live = {} => Link = "none"
    /\ Live # {} => Link # "none"
    /\ \A s \in Sessions :
        /\ phase[s] = "open" => Link = "live"
        /\ phase[s] = "connecting" /\ Live \subseteq {s} => Link = "opening"
<1>1. (Live = {} => Link = "none") /\ (Live # {} => Link # "none")
  BY DEF Link
<1>2. ASSUME NEW s \in Sessions, phase[s] = "open"
      PROVE  Link = "live"
  BY <1>2 DEF Link, Live
<1>3. ASSUME NEW s \in Sessions, phase[s] = "connecting", Live \subseteq {s}
      PROVE  Link = "opening"
  <2>1. s \in Live /\ \A t \in Live : phase[t] # "open"
    BY <1>3 DEF Live
  <2> QED
    BY <2>1 DEF Link
<1> QED
  BY <1>1, <1>2, <1>3

LEMMA ClearNoSetup ==
    ASSUME NEW s \in Stacks, Clear(s)
    PROVE  ~Has(s, "start.setup") /\ (s # <<>> => Head(s) # "source.live")
<1>1. s # <<>> => 1 \in DOMAIN s /\ s[1] = Head(s)
  BY Pop
<1> QED
  BY <1>1 DEF Clear, Has, Unfinished, Starters

\* Steps over stacks with no unfinished start() that do not touch the session.
LEMMA ClearStream ==
    ASSUME Stream, stack \in Stacks, Clear(stack), stack' \in Stacks, Clear(stack'),
           UNCHANGED <<state, session, phase>>,
           state = "idle" => stack' = <<>> /\ ~fed'
    PROVE  Stream'
<1>1. ~Setup /\ ~Setup' /\ ~Top("source.live")'
  BY ClearNoSetup DEF Setup, Top
<1>2. Live' = Live
  BY DEF Live
<1> QED
  BY <1>1, <1>2 DEF Stream

\* And those that end it.
LEMMA EndedStream ==
    ASSUME stack' \in Stacks, Clear(stack'), state' \in {"error", "stopped"}
    PROVE  Stream'
<1>1. ~Setup' /\ ~Top("source.live")'
  BY ClearNoSetup DEF Setup, Top
<1> QED
  BY <1>1 DEF Stream, ActiveStates

LEMMA ErrorMaps ==
    ASSUME Known, ~destroyed, state # "idle", NEW rest \in Stacks, Clear(rest),
           HandleError(rest)
    PROVE  Stream' /\ Mapped
<1> USE DEF Known
<1>1. mode' = mode /\ destroyed' = destroyed /\ (Ordinary' <=> Ordinary)
  BY DEF HandleError, Ordinary
<1>2. CASE state = "error"
  <2>1. stack' = rest /\ UNCHANGED <<state, phase>>
    BY <1>2 DEF HandleError, linkVars
  <2>2. Stream'
    BY <1>2, <2>1, EndedStream
  <2> QED
    BY <1>1, <2>1, <2>2, Silent DEF Mapped
<1>3. CASE state # "error"
  <2>1. /\ ReleaseBoth /\ state' = "error"
        /\ stack' = <<"listener", "error.emit">> \o rest
    BY <1>3 DEF HandleError
  <2>2. Live' = {}
    BY <2>1, ReleasesBoth DEF Owns
  <2>3. "error.emit" \in Continuations /\ "error.emit" \notin Unfinished
    BY DEF Continuations, Unfinished, Starters
  <2>4. stack' \in Stacks /\ Clear(stack')
    BY <2>1, <2>3, OverTwo, ClearIsPlain
  <2>5. Stream'
    BY <2>1, <2>4, EndedStream
  <2>6. Link' = "none"
    BY <2>2 DEF Link
  <2>7. (destroyed /\ Ordinary)' = (destroyed /\ Ordinary)
    BY <1>1
  <2>8. Lifecycle!Fail
    BY <1>1, <1>3, <2>1, <2>6, <2>7 DEF Lifecycle!Fail
  <2> QED
    BY <2>5, <2>8 DEF Mapped, Lifecycle!Next
<1> QED
  BY <1>2, <1>3

\* A listener on top of a stack.
LEMMA UnderListener ==
    ASSUME NEW s \in Stacks, s # <<>>, Head(s) = "listener", LiveOnTop(s)
    PROVE  /\ Has(Tail(s), "start.setup") <=> Has(s, "start.setup")
           /\ Tail(s) # <<>> => Head(Tail(s)) # "source.live"
<1>1. /\ Tail(s) \in Stacks /\ Len(s) \in Nat /\ DOMAIN s = 1..Len(s)
      /\ DOMAIN Tail(s) = 1..(Len(s) - 1)
      /\ \A i \in 1..(Len(s) - 1) : Tail(s)[i] = s[i + 1]
      /\ s[1] = "listener"
  BY Pop
<1>2. Has(Tail(s), "start.setup") => Has(s, "start.setup")
  <2>1. \A i \in 1..(Len(s) - 1) : i + 1 \in 1..Len(s)
    BY <1>1
  <2> QED
    BY <1>1, <2>1 DEF Has
<1>3. ASSUME Has(s, "start.setup")
      PROVE  Has(Tail(s), "start.setup")
  <2>1. PICK i \in 1..Len(s) : s[i] = "start.setup"
    BY <1>1, <1>3 DEF Has
  <2>2. i - 1 \in 1..(Len(s) - 1) /\ (i - 1) + 1 = i
    BY <1>1, <2>1
  <2> QED
    BY <1>1, <2>1, <2>2 DEF Has
<1>4. ASSUME Tail(s) # <<>>
      PROVE  Head(Tail(s)) # "source.live"
  <2>1. 1 \in DOMAIN Tail(s) /\ Tail(s)[1] = Head(Tail(s))
    BY <1>1, <1>4, Pop
  <2>2. NoLive(Tail(s))
    BY Under
  <2> QED
    BY <2>1, <2>2 DEF NoLive
<1> QED
  BY <1>2, <1>3, <1>4

\* The call to its listeners by play() and pause().
LEMMA TopListener ==
    ASSUME NEW s \in Stacks, NEW k \in Continuations
    PROVE  /\ Head(<<"listener">> \o s) = "listener"
           /\ Head(<<"listener", k>> \o s) = "listener"
           /\ Has(<<"listener", k>> \o s, k)
<1>1. "listener" \in Continuations
  BY DEF Continuations
<1>2. Head(<<"listener">> \o s) = "listener"
  BY <1>1, PushOne
<1>3. /\ Head(<<"listener", k>> \o s) = "listener"
      /\ Len(s) \in Nat /\ DOMAIN (<<"listener", k>> \o s) = 1..(Len(s) + 2)
      /\ (<<"listener", k>> \o s)[2] = k
  BY <1>1, PushTwo
<1>4. 2 \in 1..(Len(s) + 2)
  BY <1>3
<1> QED
  BY <1>2, <1>3, <1>4 DEF Has

LEMMA CallMaps ==
    ASSUME NoneDestroys, Known, UserCall
    PROVE  Stream' /\ Mapped
<1> USE DEF Known
<1>1. /\ mode' = mode /\ (Ordinary' <=> Ordinary) /\ Ordinary'
      /\ stack \in Stacks /\ mode \in Modes
  BY DEF UserCall, PlayPaused, PlayStart, Pause, Destroy, Ordinary, Owns, Types
<1>2. "start.setup" \in Continuations
  BY DEF Continuations
<1>3. CASE PlayPaused
  <2>1. /\ state = "paused" /\ state' = "playing" /\ stack' = <<"listener">> \o stack
        /\ UNCHANGED <<destroyed, session, phase>>
    BY <1>3 DEF PlayPaused, Call, linkVars
  <2>2. ~Setup /\ session # 0 /\ Live # {}
    BY <2>1 DEF Session, Stream, ActiveStates
  <2>3. ~Setup' /\ ~Top("source.live")'
    BY <1>1, <1>2, <2>1, <2>2, PushListener, TopListener DEF Setup, Top, Owns, Pending
  <2>4. Stream'
    BY <2>1, <2>2, <2>3 DEF Stream, Live
  <2>5. Link' = Link /\ (destroyed /\ Ordinary)' = (destroyed /\ Ordinary)
    BY <1>1, <2>1 DEF Link, Live
  <2>6. Lifecycle!Resume
    BY <1>1, <2>1, <2>5 DEF Lifecycle!Resume
  <2> QED
    BY <2>4, <2>6 DEF Mapped, Lifecycle!Next
<1>4. CASE PlayStart
  <2>1. /\ ~destroyed /\ state \in {"idle", "error", "stopped"} /\ state' = "connecting"
        /\ session' = session + 1 /\ stack' = <<"listener", "start.setup">> \o stack
        /\ UNCHANGED <<destroyed, phase>>
    BY <1>4 DEF PlayStart, Call, linkVars
  <2>2. Setup' /\ ~Top("source.live")'
    BY <1>1, <1>2, <2>1, TopListener DEF Setup, Top
  <2>3. session' # 0
    BY <2>1, EngineAssumption DEF EngineAssumption, Owns, Types
  <2>4. Stream'
    BY <2>1, <2>2, <2>3 DEF Stream
  <2>5. Link' = Link /\ (destroyed /\ Ordinary)' = (destroyed /\ Ordinary)
    BY <1>1, <2>1 DEF Link, Live
  <2>6. Lifecycle!Begin
    BY <1>1, <2>1, <2>5 DEF Lifecycle!Begin
  <2> QED
    BY <2>4, <2>6 DEF Mapped, Lifecycle!Next
<1>5. CASE Pause
  <2>1. /\ UserRuns("pause") /\ state \in {"playing", "connecting"} /\ state' = "paused"
        /\ stack' = <<"listener">> \o stack
        /\ UNCHANGED <<destroyed, session, phase>>
    BY <1>5 DEF Pause, Call, linkVars
  <2>2. Clear(stack)
    BY <2>1, TaskClear DEF UserRuns, Ordinary
  <2>3. ~Setup
    BY <1>1, <2>2, ClearNoSetup DEF Setup
  <2>4. session # 0 /\ Live # {}
    BY <2>1, <2>3 DEF Stream, ActiveStates
  <2>5. ~Setup' /\ ~Top("source.live")'
    BY <1>1, <1>2, <2>1, <2>3, PushListener, TopListener DEF Setup, Top, Owns, Pending
  <2>6. Stream'
    BY <2>1, <2>4, <2>5 DEF Stream, Live
  <2>7. Link' = Link /\ (destroyed /\ Ordinary)' = (destroyed /\ Ordinary) /\ Link # "none"
    BY <1>1, <2>1, <2>4 DEF Link, Live
  <2>8. Lifecycle!Pause
    BY <1>1, <2>1, <2>7 DEF Lifecycle!Pause
  <2> QED
    BY <2>6, <2>8 DEF Mapped, Lifecycle!Next
<1>6. CASE Destroy
  <2>1. /\ UserRuns("destroy") /\ ~destroyed /\ destroyed' = TRUE /\ ReleaseBoth
        /\ state' = "stopped" /\ stack' = stack
    BY <1>6 DEF Destroy
  <2>2. Clear(stack')
    BY <1>1, <2>1, TaskClear DEF UserRuns, NoneDestroys
  <2>3. Stream'
    BY <1>1, <2>1, <2>2, EndedStream
  <2>4. Live' = {}
    BY <2>1, ReleasesBoth DEF Owns
  <2>5. Link' = "none" /\ (destroyed /\ Ordinary)' = TRUE
    BY <1>1, <2>1, <2>4 DEF Link
  <2>6. Lifecycle!Destroy
    BY <1>1, <2>1, <2>5 DEF Lifecycle!Destroy
  <2> QED
    BY <2>3, <2>6 DEF Mapped, Lifecycle!Next
<1> QED
  BY <1>3, <1>4, <1>5, <1>6 DEF UserCall

LEMMA ReturnMaps ==
    ASSUME Known, ListenerReturns
    PROVE  Stream' /\ Mapped
<1> USE DEF Known
<1>1. /\ Top("listener") /\ stack' = <<>> \o Tail(stack)
      /\ UNCHANGED <<mode, state, destroyed, session, phase>>
  BY DEF ListenerReturns, Resume, linkVars
<1>2. stack \in Stacks /\ stack # <<>> /\ Head(stack) = "listener" /\ stack' = Tail(stack)
  BY <1>1, PopNothing DEF Top, Owns, Types
<1>3. (Setup' <=> Setup) /\ ~Top("source.live")'
  BY <1>2, UnderListener DEF Setup, Top, Session
<1>4. Live' = Live /\ state # "idle"
  BY <1>1, <1>2 DEF Live, Stream
<1>5. Stream'
  BY <1>1, <1>3, <1>4 DEF Stream
<1> QED
  BY <1>1, <1>5, Silent DEF Mapped

\* What is on top of an unfinished start() of an ordinary player.
LEMMA OnTop ==
    ASSUME Known, NEW k, Top(k), k # "listener"
    PROVE  /\ stack \in Stacks /\ stack # <<>> /\ state # "idle" /\ ~destroyed
           /\ Tail(stack) \in Stacks /\ Clear(Tail(stack)) /\ Plain(Tail(stack))
           /\ <<>> \o Tail(stack) = Tail(stack)
           /\ Setup <=> k = "start.setup"
<1>1. /\ stack \in Stacks /\ stack # <<>> /\ Head(stack) = k
      /\ Tail(stack) \in Stacks /\ Clear(Tail(stack)) /\ Plain(Tail(stack))
      /\ <<>> \o Tail(stack) = Tail(stack) /\ ~destroyed
  BY Rest, RestClear DEF Known, Top, Owns, Types
<1>2. /\ Len(stack) \in Nat /\ DOMAIN stack = 1..Len(stack) /\ stack[1] = k
      /\ 1 \in DOMAIN stack /\ DOMAIN Tail(stack) = 1..(Len(stack) - 1)
      /\ \A i \in 1..(Len(stack) - 1) : Tail(stack)[i] = stack[i + 1]
  BY <1>1, Pop
<1>3. k = "start.setup" => Setup
  BY <1>2 DEF Setup, Has
<1>4. ASSUME Setup
      PROVE  k = "start.setup"
  <2>1. PICK i \in 1..Len(stack) : stack[i] = "start.setup"
    BY <1>2, <1>4 DEF Setup, Has
  <2>2. CASE i = 1
    BY <1>2, <2>1, <2>2
  <2>3. CASE i # 1
    <3>1. i - 1 \in 1..(Len(stack) - 1) /\ (i - 1) + 1 = i
      BY <1>2, <2>1, <2>3
    <3>2. i - 1 \in DOMAIN Tail(stack) /\ Tail(stack)[i - 1] = "start.setup"
      BY <1>2, <2>1, <3>1
    <3> QED
      BY <1>1, <3>2 DEF Clear, Unfinished, Starters
  <2> QED
    BY <2>2, <2>3
<1>5. state # "idle"
  BY <1>1 DEF Known, Stream
<1> QED
  BY <1>1, <1>3, <1>4, <1>5

LEMMA StartMaps ==
    ASSUME Known, StartPieces
    PROVE  Stream' /\ Mapped
<1> USE DEF Known
<1>1. /\ "source.live" \in Continuations \ Starters /\ "source.pump" \in Continuations
      /\ "error.emit" \notin Unfinished /\ "listener" \in Continuations \ Unfinished
      /\ "source.pump" # "start.setup"
  BY DEF Continuations, Unfinished, Starters
<1>2. CASE SetupRejected
  BY <1>2, OnTop, ErrorMaps DEF SetupRejected
<1>3. ASSUME Top("start.setup")
      PROVE  /\ state = "connecting" /\ session \in Sessions /\ Live = {} /\ Link = "none"
             /\ Setup /\ phase \in [Sessions -> Phases] /\ session \in 0..MaxSessions
  <2>1. Setup
    BY <1>3, OnTop
  <2>2. state = "connecting" /\ session # 0 /\ Live = {}
    BY <2>1 DEF Session, Stream, ActiveStates, Owns, Pending, Setup
  <2>3. session \in Sessions /\ session \in 0..MaxSessions
    BY <2>2, EngineAssumption DEF EngineAssumption, Sessions, Owns, Types
  <2> QED
    BY <2>1, <2>2, <2>3, LinkViews DEF Owns, Types
<1>4. CASE SetupTransport \/ SetupThrows
  <2> DEFINE p == IF SetupTransport THEN "connecting" ELSE "refused"
  <2>1. /\ Top("start.setup") /\ phase' = [phase EXCEPT ![session] = p]
        /\ stack' = <<>> \o Tail(stack)
        /\ UNCHANGED <<mode, state, destroyed, session>>
    BY <1>4 DEF SetupTransport, SetupThrows, Resume
  <2>0. p \in {"connecting", "open", "refused"} /\ p # "open"
    BY DEF p
  <2> HIDE DEF p
  <2>2. Live' \subseteq {session} /\ phase'[session] = p
    BY <1>3, <2>0, <2>1, OpensOne
  <2>3. Live' # {}
    BY <1>3, <2>0, <2>1, <2>2 DEF Live
  <2>4. Link' = "opening"
    <3>1. \A t \in Live' : phase'[t] # "open"
      BY <2>0, <2>2
    <3> QED
      BY <2>3, <3>1 DEF Link
  <2>5. stack' \in Stacks /\ Clear(stack')
    BY <2>1, OnTop
  <2>6. ~Setup' /\ ~Top("source.live")'
    BY <2>5, ClearNoSetup DEF Setup, Top
  <2>7. Stream'
    BY <1>3, <2>1, <2>3, <2>6 DEF Stream, Sessions
  <2>8. (Ordinary' <=> Ordinary) /\ (destroyed /\ Ordinary)' = (destroyed /\ Ordinary)
    BY <2>1 DEF Ordinary
  <2>9. Lifecycle!Attach
    BY <1>3, <2>1, <2>4, <2>8 DEF Lifecycle!Attach
  <2> QED
    BY <2>7, <2>9 DEF Mapped, Lifecycle!Next
<1>5. CASE SetupSource
  <2>1. /\ Top("start.setup") /\ phase' = [phase EXCEPT ![session] = "open"]
        /\ stack' = <<"source.live">> \o Tail(stack)
        /\ UNCHANGED <<mode, state, destroyed, session>>
    BY <1>5 DEF SetupSource, Resume
  <2>2. phase'[session] = "open"
    BY <1>3, <2>1
  <2>3. Live' # {} /\ Link' = "live"
    BY <1>3, <2>1, <2>2 DEF Live, Link
  <2>4. stack' \in Stacks /\ Plain(stack')
    BY <1>1, <2>1, OnTop, PushPlain
  <2>5. ~Setup'
    BY <2>4, PlainIsOrderly DEF Setup
  <2>6. Stream'
    BY <1>3, <2>1, <2>3, <2>5 DEF Stream, Sessions
  <2>7. (Ordinary' <=> Ordinary) /\ (destroyed /\ Ordinary)' = (destroyed /\ Ordinary)
    BY <2>1 DEF Ordinary
  <2>8. Lifecycle!Attach
    BY <1>3, <2>1, <2>3, <2>7 DEF Lifecycle!Attach
  <2> QED
    BY <2>6, <2>8 DEF Mapped, Lifecycle!Next
<1>6. CASE SetupSourceFails
  BY <1>6 DEF SetupSourceFails, Ordinary
<1>7. CASE SourceLive
  <2>1. /\ Top("source.live") /\ state' = "playing"
        /\ stack' = <<"listener", "source.pump">> \o Tail(stack)
        /\ UNCHANGED <<mode, destroyed, session, phase>>
    BY <1>7 DEF SourceLive, Resume, linkVars
  <2>2. state = "connecting" /\ Link = "live" /\ ~Setup
    BY <2>1, OnTop DEF Stream
  <2>3. session # 0 /\ Live # {}
    BY <2>2 DEF Stream, ActiveStates
  <2>4. Tail(stack) \in Stacks /\ Plain(Tail(stack))
    BY <2>1, OnTop
  <2>5. ~Setup' /\ ~Top("source.live")'
    BY <1>1, <2>1, <2>4, PushStarter, TopListener DEF Setup, Top
  <2>6. Link' = Link /\ Live' = Live
    BY <2>1 DEF Link, Live
  <2>7. Stream'
    BY <2>1, <2>3, <2>5, <2>6 DEF Stream
  <2>8. (Ordinary' <=> Ordinary) /\ (destroyed /\ Ordinary)' = (destroyed /\ Ordinary)
    BY <2>1 DEF Ordinary
  <2>9. Lifecycle!GoLive
    BY <2>1, <2>2, <2>6, <2>8 DEF Lifecycle!GoLive
  <2> QED
    BY <2>7, <2>9 DEF Mapped, Lifecycle!Next
<1>8. CASE SourcePump
  <2>1. /\ Top("source.pump") /\ stack' = <<>> \o Tail(stack)
        /\ UNCHANGED <<mode, state, destroyed, session, phase>>
    BY <1>8 DEF SourcePump, Resume, linkVars
  <2>2. ~Setup /\ state # "idle" /\ stack' \in Stacks /\ Clear(stack')
    BY <2>1, OnTop
  <2>3. ~Setup' /\ ~Top("source.live")' /\ Live' = Live
    BY <2>1, <2>2, ClearNoSetup DEF Setup, Top, Live
  <2>4. Stream'
    BY <2>1, <2>2, <2>3 DEF Stream
  <2> QED
    BY <2>1, <2>4, Silent DEF Mapped
<1>9. CASE ErrorEmit
  <2>1. /\ Top("error.emit") /\ stack' = <<"listener">> \o Tail(stack)
        /\ UNCHANGED <<mode, state, destroyed, session, phase>>
    BY <1>9 DEF ErrorEmit, Resume, linkVars
  <2>2. /\ Tail(stack) \in Stacks /\ Clear(Tail(stack)) /\ state # "idle"
        /\ stack \in Stacks /\ Clear(stack)
    BY <1>1, <2>1, OnTop, RestClear
  <2>3. stack' \in Stacks /\ Clear(stack')
    BY <1>1, <2>1, <2>2, OverOne, ClearIsPlain
  <2>4. Stream'
    BY <2>1, <2>2, <2>3, ClearStream
  <2> QED
    BY <2>1, <2>4, Silent DEF Mapped
<1> QED
  BY <1>2, <1>4, <1>5, <1>6, <1>7, <1>8, <1>9 DEF StartPieces

\* Pieces and tasks the life cycle does not see.
LEMMA Unseen ==
    ASSUME Known, state # "idle", Clear(stack), stack' \in Stacks, Clear(stack'),
           UNCHANGED <<mode, state, destroyed, session, phase>>
    PROVE  Stream' /\ Mapped
<1>1. Stream'
  BY ClearStream DEF Known, Owns, Types
<1> QED
  BY <1>1, Silent DEF Mapped

LEMMA StreamMaps ==
    ASSUME Known, StreamEvents
    PROVE  Stream' /\ Mapped
<1> USE DEF Known
<1>1. Live # {} \/ timer => ~destroyed /\ state \notin EndedStates /\ state # "idle"
  BY DEF Owns, Links, Final, EndedStates
<1>2. <<>> \in Stacks /\ Clear(<<>>) /\ <<"listener">> \in Stacks /\ Clear(<<"listener">>)
      /\ <<"listener", "frame.draw">> \in Stacks /\ Clear(<<"listener", "frame.draw">>)
  BY FreshClear, FreshStacks
<1>3. fed => state # "idle"
  BY DEF Stream
<1>4. ASSUME NEW s \in Sessions, TransportOpen(s)
      PROVE  Stream' /\ Mapped
  <2>1. /\ Quiescent /\ mode.branch = "demuxer" /\ phase[s] = "connecting"
        /\ phase' = [phase EXCEPT ![s] = "open"]
        /\ UNCHANGED <<mode, destroyed, session>>
        /\ \/ state = "connecting" /\ state' = "playing" /\ stack' = <<"listener">>
           \/ state # "connecting" /\ state' = state /\ stack' = stack
    BY <1>4 DEF TransportOpen
  <2>2. s \in Live /\ Live # {}
    BY <2>1 DEF Live
  <2>3. Live \subseteq {s}
    <3>1. source = 0 /\ 0 \notin Live
      BY <2>1 DEF Owns, Links, Live, Sessions
    <3> QED
      BY <2>2, <3>1 DEF Owns, Links
  <2>4. Link = "opening"
    BY <2>1, <2>3, LinkViews
  <2>5. phase'[s] = "open"
    BY <2>1 DEF Owns, Types
  <2>6. Live' # {} /\ Link' = "live"
    BY <2>5 DEF Live, Link
  <2>7. Clear(stack) /\ stack' \in Stacks /\ Clear(stack')
    BY <1>2, <2>1, TaskClear DEF Owns, Types
  <2>8. ~Setup /\ ~Setup' /\ ~Top("source.live")'
    BY <2>7, ClearNoSetup DEF Setup, Top, Owns, Types
  <2>9. session # 0 /\ state # "idle" /\ state' # "idle"
    <3>1. state \in ActiveStates
      BY <1>1, <2>2 DEF States, EndedStates, ActiveStates
    <3> QED
      BY <2>1, <3>1 DEF Stream, ActiveStates
  <2>10. Stream'
    BY <2>1, <2>6, <2>8, <2>9 DEF Stream
  <2>11. (Ordinary' <=> Ordinary) /\ (destroyed /\ Ordinary)' = (destroyed /\ Ordinary)
    BY <2>1 DEF Ordinary
  <2>12. Lifecycle!Open
    BY <2>1, <2>4, <2>6, <2>11 DEF Lifecycle!Open
  <2> QED
    BY <2>10, <2>12 DEF Mapped, Lifecycle!Next
<1>5. ASSUME NEW s \in Sessions, CloseConnecting(s)
      PROVE  Stream' /\ Mapped
  <2>1. Live # {} /\ HandleError(<<>>)
    BY <1>5, PeersLive DEF CloseConnecting
  <2> QED
    BY <1>1, <1>2, <2>1, ErrorMaps
<1>6. ASSUME NEW s \in Sessions, CloseClean(s)
      PROVE  Stream' /\ Mapped
  <2>1. /\ mode.branch = "demuxer" /\ s \in Live /\ state # "connecting"
        /\ phase' = Closed({s, transport})
        /\ state' = "stopped" /\ stack' = <<"listener">>
        /\ UNCHANGED <<mode, destroyed>> /\ Quiescent
    BY <1>6, PeersLive DEF CloseClean
  <2>2. Live \subseteq {s, transport}
    <3>1. source = 0 /\ 0 \notin Live
      BY <2>1 DEF Owns, Links, Live, Sessions
    <3> QED
      BY <3>1 DEF Owns, Links
  <2>3. Live' = {} /\ Live # {}
    BY <2>1, <2>2, ClosesAll DEF Owns, Types
  <2>4. Link # "none" /\ Link' = "none"
    BY <2>3, LinkViews DEF Link
  <2>5. state \in {"playing", "paused"}
    BY <1>1, <2>1, <2>3 DEF States, EndedStates
  <2>6. Stream'
    BY <1>2, <2>1, EndedStream
  <2>7. (Ordinary' <=> Ordinary) /\ (destroyed /\ Ordinary)' = (destroyed /\ Ordinary)
    BY <2>1 DEF Ordinary
  <2>8. Lifecycle!End
    BY <2>1, <2>4, <2>5, <2>7 DEF Lifecycle!End
  <2> QED
    BY <2>6, <2>8 DEF Mapped, Lifecycle!Next
<1>7. ASSUME NEW s \in Sessions, StreamError(s)
      PROVE  Stream' /\ Mapped
  <2>1. Live # {} /\ HandleError(<<>>)
    BY <1>7, PeersLive DEF StreamError
  <2> QED
    BY <1>1, <1>2, <2>1, ErrorMaps
<1>8. ASSUME NEW s \in Sessions, StreamData(s)
      PROVE  Stream' /\ Mapped
  <2>1. /\ Quiescent /\ s \in Live /\ stack' = stack
        /\ UNCHANGED <<mode, state, destroyed, session, phase>>
    BY <1>8 DEF StreamData, linkVars, Live
  <2>2. Clear(stack) /\ stack \in Stacks
    BY <2>1, TaskClear DEF Owns, Types
  <2> QED
    BY <1>1, <2>1, <2>2, Unseen
<1>9. CASE ConnectTimeout
  <2>1. timer /\ HandleError(<<>>)
    BY <1>9 DEF ConnectTimeout
  <2> QED
    BY <1>1, <1>2, <2>1, ErrorMaps
<1>10. CASE DecoderOutput
  BY <1>2, <1>3, <1>10, TaskClear, Unseen DEF DecoderOutput, linkVars
<1>11. CASE DecoderError
  BY <1>2, <1>3, <1>11, ErrorMaps DEF DecoderError
<1>12. CASE Draw
  <2>1. /\ Top("frame.draw") /\ stack' = <<>> \o Tail(stack)
        /\ UNCHANGED <<mode, state, destroyed, session, phase>>
    BY <1>12 DEF Draw, Resume, linkVars
  <2> QED
    BY <2>1, OnTop, RestClear, Unseen DEF Unfinished, Starters
<1>13. CASE DrawThrows
  BY <1>13, OnTop, ErrorMaps DEF DrawThrows
<1> QED
  BY <1>4, <1>5, <1>6, <1>7, <1>8, <1>9, <1>10, <1>11, <1>12, <1>13 DEF StreamEvents

LEMMA TickMaps ==
    ASSUME Known, Tick
    PROVE  Stream' /\ Mapped
<1> USE DEF Known
<1>1. /\ "tick.decode" \notin Unfinished /\ "tick.watch" \notin Unfinished
      /\ "tick.return" \notin Unfinished
      /\ "listener" \in Continuations \ Unfinished
      /\ "frame.draw" \in Continuations \ Unfinished /\ "frame.draw" # "source.live"
  BY DEF Continuations, Unfinished, Starters
<1>2. CASE TickBegins
  <2>1. /\ Quiescent /\ inTick' = started
        /\ UNCHANGED <<mode, state, destroyed, session, phase, fed>>
        /\ stack' = IF inTick' THEN <<"tick.decode", "tick.watch", "tick.return">> ELSE <<>>
    BY <1>2 DEF TickBegins, P!Fire, linkVars
  <2>2. Clear(stack) /\ stack' \in Stacks /\ Clear(stack')
    BY <2>1, TaskClear, FreshClear, FreshStacks
  <2>3. state = "idle" => stack' = <<>> /\ ~fed'
    BY <2>1 DEF Owns, Links, EndedStates, Stream
  <2>4. Stream'
    BY <2>1, <2>2, <2>3, ClearStream DEF Owns, Types
  <2> QED
    BY <2>1, <2>4, Silent DEF Mapped
<1>3. ASSUME NEW k \in {"tick.decode", "tick.watch", "tick.return"}, Top(k),
             stack' = <<>> \o Tail(stack),
             UNCHANGED <<mode, state, destroyed, session, phase>>
      PROVE  Stream' /\ Mapped
  BY <1>1, <1>3, OnTop, RestClear, Unseen
<1>4. CASE TickDecodes
  BY <1>3, <1>4 DEF TickDecodes, Resume, linkVars
<1>5. CASE TickOutputs
  <2>1. /\ Top("tick.decode") /\ stack' = <<"listener", "frame.draw">> \o Tail(stack)
        /\ UNCHANGED <<mode, state, destroyed, session, phase>>
    BY <1>5 DEF TickOutputs, Resume, linkVars
  <2>2. Tail(stack) \in Stacks /\ Clear(Tail(stack)) /\ Clear(stack) /\ state # "idle"
    BY <1>1, <2>1, OnTop, RestClear
  <2>3. stack' \in Stacks /\ Clear(stack')
    BY <1>1, <2>1, <2>2, OverTwo, ClearIsPlain
  <2> QED
    BY <2>1, <2>2, <2>3, Unseen
<1>6. CASE TickDecodeFails
  BY <1>6, OnTop, ErrorMaps DEF TickDecodeFails
<1>7. CASE TickHealthy
  BY <1>3, <1>7 DEF TickHealthy, Resume, linkVars
<1>8. CASE TickStalled
  <2>1. /\ Top("tick.watch") /\ stack' = <<"listener">> \o Tail(stack)
        /\ UNCHANGED <<mode, state, destroyed, session, phase>>
    BY <1>8 DEF TickStalled, Resume, linkVars
  <2>2. Tail(stack) \in Stacks /\ Clear(Tail(stack)) /\ Clear(stack) /\ state # "idle"
    BY <1>1, <2>1, OnTop, RestClear
  <2>3. stack' \in Stacks /\ Clear(stack')
    BY <1>1, <2>1, <2>2, OverOne, ClearIsPlain
  <2> QED
    BY <2>1, <2>2, <2>3, Unseen
<1>9. CASE TickFatalStall
  BY <1>9, OnTop, ErrorMaps DEF TickFatalStall
<1>10. CASE TickEnds
  BY <1>3, <1>10 DEF TickEnds, Resume, linkVars
<1> QED
  BY <1>2, <1>4, <1>5, <1>6, <1>7, <1>8, <1>9, <1>10 DEF Tick

LEMMA LifecycleStep ==
    ASSUME NoneDestroys, Known, [Next]_vars
    PROVE  Stream' /\ Mapped
<1> USE DEF Known
<1>1. CASE TabSwitch
  <2>1. UNCHANGED <<mode, state, destroyed, session, phase, fed, stack>>
    BY <1>1 DEF TabSwitch, linkVars
  <2>2. Stream'
    BY <2>1 DEF Stream, Setup, Top, Link, Live
  <2> QED
    BY <2>1, <2>2, Silent DEF Mapped
<1>2. CASE UNCHANGED vars
  <2>1. UNCHANGED <<mode, state, destroyed, session, phase, fed, stack>>
    BY <1>2 DEF vars, linkVars
  <2>2. Stream'
    BY <2>1 DEF Stream, Setup, Top, Link, Live
  <2> QED
    BY <2>1, <2>2, Silent DEF Mapped
<1> QED
  BY <1>1, <1>2, CallMaps, ReturnMaps, StartMaps, StreamMaps, TickMaps DEF Next

LEMMA LifecycleInit == Init => (Ordinary => Stream) /\ Lifecycle!Init
<1> SUFFICES ASSUME Init
             PROVE  (Ordinary => Stream) /\ Lifecycle!Init
  OBVIOUS
<1>1. stack = <<>> /\ state = "idle" /\ ~fed /\ Live = {} /\ ~destroyed
  BY DEF Init, Live
<1>2. ~Setup /\ ~Top("source.live")
  BY <1>1, FreshClear, FreshStacks, ClearNoSetup DEF Setup, Top
<1>3. Stream
  BY <1>1, <1>2 DEF Stream, ActiveStates
<1>4. (destroyed /\ Ordinary) = FALSE /\ Link = "none"
  BY <1>1 DEF Link
<1> QED
  BY <1>1, <1>3, <1>4 DEF Lifecycle!Init

\* The engine of an ordinary player is a player (ImplementsLifecycle): whatever
\* its listeners and its peers do, and however often it is played, it takes only
\* the steps a Player of packages/core/src/types.ts may take.
THEOREM EngineIsPlayer == ASSUME NoneDestroys PROVE Spec => ImplementsLifecycle
<1> DEFINE Story == Owns /\ Sound /\ (Ordinary => Stream) /\ state \in States
<1>1. Init => Story /\ Lifecycle!Init
  BY OwnsInit, SoundInit, LifecycleInit DEF Init, States
<1>2. NoneDestroys
  OBVIOUS
<1>3. ASSUME Story, [Next]_vars
      PROVE  Story' /\ [Lifecycle!Next]_(Lifecycle!vars)
  <2>1. Owns' /\ Sound' /\ state' \in States
    BY <1>2, <1>3, OwnsStep, SoundStep, StateStep
  <2>2. mode' = mode /\ (Ordinary' <=> Ordinary)
    BY <1>3, ModeStays DEF Ordinary
  <2>3. CASE Ordinary
    BY <1>2, <1>3, <2>1, <2>2, <2>3, LifecycleStep DEF Known, Sound, Mapped, Stutter
  <2>4. CASE ~Ordinary
    <3>1. (destroyed /\ Ordinary)' = (destroyed /\ Ordinary)
      BY <2>2, <2>4
    <3>2. UNCHANGED Lifecycle!vars
      BY <2>2, <2>4, <3>1 DEF Lifecycle!vars
    <3> QED
      BY <2>1, <2>2, <2>4, <3>2
  <2> QED
    BY <2>3, <2>4
<1>4. Story /\ [Next]_vars => Story' /\ [Lifecycle!Next]_(Lifecycle!vars)
  BY <1>3
<1> HIDE DEF Story
<1> QED
  BY <1>1, <1>4, PTL DEF Spec, ImplementsLifecycle, Lifecycle!Spec

=============================================================================
