--------------------------- MODULE DecodingProofs ----------------------------
(***************************************************************************)
(* The decoders of MCDecoding, for all numbers of chunks, configurations and *)
(* creations, and listeners that close the decoder anywhere.                 *)
(*                                                                         *)
(* CodecRoutingDecoder: its types; chunks are forwarded, then held, in the   *)
(* order of the calls, and none is held from an implementation (CallOrder);  *)
(* the one question of a stream that keeps its configuration is answered     *)
(* before the one implementation is built (OneDecoder).                      *)
(*                                                                         *)
(* AudioOutput: nothing is scheduled behind nextWhen, and destroy() takes    *)
(* the decoder away with it (LastOne).                                       *)
(*                                                                         *)
(* Dav1dSoftDecoder: a freed context is neither in use nor being created     *)
(* (ContextsApart), and what is held follows what was decoded (HeldInOrder). *)
(* HevcSoftDecoder: parameter sets that count as pushed are in libde265, or  *)
(* in the chunk on its way there (ParamsKnown).                              *)
(***************************************************************************)
EXTENDS MCDecoding, TLAPS

-----------------------------------------------------------------------------
(* CodecRoutingDecoder: its types.                                           *)

Chunk == 1..MaxChunks

\* An implementation of which the queue is replaced, or the state with it.
LEMMA ImplReplaced ==
    ASSUME NEW s \in Seq(Impl), NEW i \in DOMAIN s, NEW q \in Seq(Chunk)
    PROVE  /\ [s EXCEPT ![i].queue = q] \in Seq(Impl)
           /\ Len([s EXCEPT ![i].queue = q]) = Len(s)
<1>1. s[i] \in Impl
  OBVIOUS
<1>2. [s[i] EXCEPT !.queue = q] \in Impl
  BY <1>1 DEF Impl, Chunk
<1>3. [s EXCEPT ![i].queue = q] = [s EXCEPT ![i] = [s[i] EXCEPT !.queue = q]]
  OBVIOUS
<1> QED
  BY <1>2, <1>3

LEMMA NoChunks == <<>> \in Seq(Chunk)
OBVIOUS

LEMMA ImplEmptied ==
    ASSUME NEW s \in Seq(Impl), NEW i \in DOMAIN s, NEW st \in ImplStates
    PROVE  /\ [s EXCEPT ![i].state = st, ![i].queue = <<>>] \in Seq(Impl)
           /\ Len([s EXCEPT ![i].state = st, ![i].queue = <<>>]) = Len(s)
<1> DEFINE q == <<>>
<1>1. q \in Seq(Chunk)
  BY NoChunks
<1> HIDE DEF q
<1>2. /\ [s EXCEPT ![i].state = st, ![i].queue = q] \in Seq(Impl)
      /\ Len([s EXCEPT ![i].state = st, ![i].queue = q]) = Len(s)
  <2>1. s[i] \in Impl
    OBVIOUS
  <2>2. [s[i] EXCEPT !.state = st, !.queue = q] \in Impl
    BY <1>1, <2>1 DEF Impl, Chunk
  <2>3. [s EXCEPT ![i].state = st, ![i].queue = q]
            = [s EXCEPT ![i] = [s[i] EXCEPT !.state = st, !.queue = q]]
    OBVIOUS
  <2> QED
    BY <2>2, <2>3
<1> QED
  BY <1>2, Zenon DEF q

LEMMA ImplFields ==
    ASSUME NEW s \in Seq(Impl), NEW i \in DOMAIN s
    PROVE  /\ s[i].config \in 1..MaxConfigs
           /\ s[i].state \in ImplStates
           /\ s[i].queue \in Seq(Chunk)
<1>1. s[i] \in Impl
  OBVIOUS
<1> QED
  BY <1>1 DEF Impl, Chunk

LEMMA Paired ==
    ASSUME NEW s \in Seq(Chunk), NEW config \in 1..MaxConfigs
    PROVE  [i \in DOMAIN s |-> <<s[i], config>>] \in Seq(Chunk \X (1..MaxConfigs))
<1>1. [i \in 1..Len(s) |-> <<s[i], config>>] \in Seq(Chunk \X (1..MaxConfigs))
  OBVIOUS
<1>2. DOMAIN s = 1..Len(s)
  OBVIOUS
<1> QED
  BY <1>1, <1>2

\* TypeOK, of which only the parts named last concern the implementations.
ImplsOK == impl \in 0..Len(impls) /\ impls \in Seq(Impl)

ForwardedOK == forwarded \in Seq(Chunk \X (1..MaxConfigs)) /\ output \in Seq(Chunk)

StateOK == routing \in {"idle", "probing", "ready", "failed", "closed"}

PendingOK == pending \in Seq(Chunk) /\ Len(pending) < HighWater

CountsOK ==
    /\ probes \subseteq 1..MaxConfigs
    /\ configs \in 0..MaxConfigs
    /\ chunks \in Seq(0..MaxConfigs)
    /\ errors \in 0..1
    /\ wasClosed \in BOOLEAN

RouterOK == StateOK /\ ImplsOK /\ PendingOK /\ ForwardedOK /\ CountsOK

LEMMA RouterParts == TypeOK <=> RouterOK
BY DEF TypeOK, RouterOK, StateOK, ImplsOK, PendingOK, ForwardedOK, CountsOK, Chunk

LEMMA RouterInit == Init => RouterOK
<1> SUFFICES ASSUME Init
             PROVE  RouterOK
  OBVIOUS
<1>1. StateOK /\ CountsOK
  <2>1. chunks \in Seq(0..MaxConfigs)
    BY DEF Init
  <2>2. 0 \in 0..MaxConfigs /\ 0 \in 0..1
    BY RoutingAssumption DEF RoutingAssumption
  <2> QED
    BY <2>1, <2>2, Zenon DEF Init, StateOK, CountsOK
<1>2. ImplsOK
  BY DEF Init, ImplsOK
<1>3. PendingOK
  BY NoChunks, RoutingAssumption DEF RoutingAssumption, Init, PendingOK
<1>4. ForwardedOK
  BY DEF Init, ForwardedOK
<1> QED
  BY <1>1, <1>2, <1>3, <1>4 DEF RouterOK

LEMMA NothingPending == pending' = <<>> => PendingOK'
BY RoutingAssumption DEF RoutingAssumption, PendingOK

\* activateImpl() builds one implementation more and forwards what was held.
LEMMA ActivateTypes ==
    ASSUME RouterOK, NEW config \in 1..MaxConfigs, Activate(config), output' = output
    PROVE  /\ StateOK' /\ ImplsOK' /\ PendingOK' /\ ForwardedOK'
           /\ errors' \in 0..1 /\ wasClosed' \in BOOLEAN
<1> USE DEF RouterOK
<1>1. CASE Activated(config)
  <2> DEFINE held == [i \in DOMAIN pending |-> <<pending[i], config>>]
  <2>1. [config |-> config, state |-> "open", queue |-> pending] \in Impl
    BY DEF PendingOK, Impl, ImplStates, Chunk
  <2>2. held \in Seq(Chunk \X (1..MaxConfigs))
    BY Paired DEF PendingOK
  <2>3. forwarded' = forwarded \o held
    BY <1>1 DEF Activated
  <2> HIDE DEF held
  <2>4. ForwardedOK'
    BY <2>2, <2>3 DEF ForwardedOK
  <2>5. ImplsOK'
    BY <1>1, <2>1 DEF Activated, ImplsOK
  <2> QED
    BY <1>1, <2>4, <2>5, NothingPending DEF Activated, StateOK, CountsOK
<1>2. CASE ActivatedBroken(config)
  <2>1. [config |-> config, state |-> "broken", queue |-> <<>>] \in Impl
    BY DEF Impl, ImplStates
  <2>2. ImplsOK'
    BY <1>2, <2>1 DEF ActivatedBroken, ImplsOK
  <2> QED
    BY <1>2, <2>2, NothingPending DEF ActivatedBroken, StateOK, ForwardedOK, CountsOK
<1>3. CASE ActivatedAndClosed(config)
  <2>1. [config |-> config, state |-> "closed", queue |-> <<>>] \in Impl
    BY DEF Impl, ImplStates
  <2>2. ImplsOK'
    BY <1>3, <2>1 DEF ActivatedAndClosed, ImplsOK
  <2> QED
    BY <1>3, <2>2, NothingPending DEF ActivatedAndClosed, StateOK, ForwardedOK, CountsOK
<1> QED
  BY <1>1, <1>2, <1>3 DEF Activate

LEMMA DecodeTypes ==
    ASSUME RouterOK, Decode
    PROVE  RouterOK'
<1> USE DEF RouterOK
<1>1. chunks' \in Seq(0..MaxConfigs) /\ Len(chunks') \in Chunk
  BY RoutingAssumption DEF Decode, RoutingAssumption, CountsOK, Chunk
<1>2. StateOK' /\ CountsOK' /\ impl' = impl /\ output' = output
  BY <1>1 DEF Decode, StateOK, CountsOK
<1>3. CASE impl = 0
  <2>1. pending' = Append(pending, Len(chunks')) /\ Len(pending) + 1 < HighWater
    BY <1>3, Zenon DEF Decode, QueueSize
  <2>2. HighWater \in Nat /\ pending \in Seq(Chunk)
    BY RoutingAssumption DEF RoutingAssumption, PendingOK
  <2>3. PendingOK'
    BY <1>1, <2>1, <2>2 DEF PendingOK
  <2> QED
    BY <1>2, <1>3, <2>3 DEF Decode, ImplsOK, ForwardedOK
<1>4. CASE impl # 0 /\ impls[impl].state = "open"
  <2> DEFINE q == Append(impls[impl].queue, Len(chunks'))
  <2>1. impl \in DOMAIN impls
    BY <1>4 DEF ImplsOK
  <2>2. impls[impl].config \in 1..MaxConfigs /\ q \in Seq(Chunk)
    BY <1>1, <2>1, ImplFields DEF ImplsOK
  <2>3. impls' = [impls EXCEPT ![impl].queue = q]
    BY <1>4, Zenon DEF Decode
  <2> HIDE DEF q
  <2>4. impls' \in Seq(Impl) /\ Len(impls') = Len(impls)
    BY <2>1, <2>2, <2>3, ImplReplaced DEF ImplsOK, ImplStates
  <2>5. <<Len(chunks'), impls[impl].config>> \in Chunk \X (1..MaxConfigs)
    BY <1>1, <2>2
  <2>6. forwarded' = Append(forwarded, <<Len(chunks'), impls[impl].config>>)
    BY <1>4 DEF Decode
  <2>7. ForwardedOK'
    BY <1>2, <2>5, <2>6 DEF ForwardedOK
  <2> QED
    BY <1>2, <1>4, <2>4, <2>7 DEF Decode, ImplsOK, PendingOK
<1>5. CASE impl # 0 /\ impls[impl].state # "open"
  BY <1>2, <1>5 DEF Decode, ImplsOK, PendingOK, ForwardedOK
<1> QED
  BY <1>3, <1>4, <1>5

LEMMA ResetTypes ==
    ASSUME RouterOK, Reset
    PROVE  RouterOK'
<1> USE DEF RouterOK
<1>1. StateOK' /\ PendingOK' /\ ForwardedOK' /\ CountsOK' /\ impl' = impl
  BY NothingPending DEF Reset, StateOK, ForwardedOK, CountsOK
<1>2. CASE impl = 0
  BY <1>1, <1>2 DEF Reset, ImplsOK
<1>3. CASE impl # 0
  <2>1. impl \in DOMAIN impls
    BY <1>3 DEF ImplsOK
  <2>2. PICK after \in {impls[impl].state, "broken"} :
            impls' = [impls EXCEPT ![impl].state = after, ![impl].queue = <<>>]
    BY <1>3, Zenon DEF Reset
  <2>3. after \in ImplStates
    BY <2>1, <2>2, ImplFields DEF ImplsOK, ImplStates
  <2>4. impls' \in Seq(Impl) /\ Len(impls') = Len(impls)
    BY <2>1, <2>2, <2>3, ImplEmptied, Zenon DEF ImplsOK
  <2> QED
    BY <1>1, <2>4 DEF ImplsOK
<1> QED
  BY <1>2, <1>3

LEMMA CloseTypes ==
    ASSUME RouterOK, Close
    PROVE  RouterOK'
<1> USE DEF RouterOK
<1>1. StateOK' /\ PendingOK' /\ ForwardedOK' /\ CountsOK' /\ impl' = 0
  BY NothingPending DEF Close, StateOK, ForwardedOK, CountsOK
<1>2. CASE impl = 0
  BY <1>1, <1>2 DEF Close, ImplsOK
<1>3. CASE impl # 0
  <2>1. impl \in DOMAIN impls
    BY <1>3 DEF ImplsOK
  <2>2. impls' = [impls EXCEPT ![impl].state = "closed", ![impl].queue = <<>>]
    BY <1>3, Zenon DEF Close
  <2>3. impls' \in Seq(Impl) /\ Len(impls') = Len(impls)
    BY <2>1, <2>2, ImplEmptied, Zenon, "closed" \in ImplStates DEF ImplsOK, ImplStates
  <2> QED
    BY <1>1, <2>3 DEF ImplsOK
<1> QED
  BY <1>2, <1>3

LEMMA CallsTypes ==
    ASSUME RouterOK, Calls
    PROVE  RouterOK'
<1> USE DEF RouterOK
<1>1. CASE ConfigureNow
  <2>1. configs' \in 1..MaxConfigs /\ Activate(configs') /\ output' = output
    BY <1>1, RoutingAssumption DEF ConfigureNow, RoutingAssumption, CountsOK
  <2> QED
    BY <1>1, <2>1, ActivateTypes DEF ConfigureNow, CountsOK
<1>2. CASE ConfigureProbe
  BY <1>2, RoutingAssumption DEF ConfigureProbe, RoutingAssumption, StateOK, ImplsOK, PendingOK,
                                 ForwardedOK, CountsOK
<1> QED
  BY <1>1, <1>2, DecodeTypes, ResetTypes, CloseTypes DEF Calls

LEMMA AnswersTypes ==
    ASSUME RouterOK, Answers
    PROVE  RouterOK'
<1> USE DEF RouterOK
<1>1. PICK c \in probes : ProbeResolves(c)
  BY DEF Answers
<1>2. c \in 1..MaxConfigs /\ probes' \subseteq 1..MaxConfigs /\ output' = output
      /\ configs' = configs /\ chunks' = chunks
  BY <1>1 DEF ProbeResolves, CountsOK
<1>3. CASE routing = "closed" /\ UNCHANGED <<routing, impl, impls, pending, forwarded,
                                              errors, wasClosed>>
  BY <1>2, <1>3 DEF StateOK, ImplsOK, PendingOK, ForwardedOK, CountsOK
<1>4. CASE Activate(c)
  BY <1>2, <1>4, ActivateTypes DEF CountsOK
<1>5. CASE Fail
  BY <1>2, <1>5, NothingPending DEF Fail, StateOK, ImplsOK, ForwardedOK, CountsOK
<1> QED
  BY <1>1, <1>3, <1>4, <1>5 DEF ProbeResolves

LEMMA BackendTypes ==
    ASSUME RouterOK, Backend
    PROVE  RouterOK'
<1> USE DEF RouterOK
<1>1. PICK i \in DOMAIN impls : ImplOutput(i) \/ ImplFails(i)
  BY DEF Backend
<1>2. impls[i].queue \in Seq(Chunk)
  BY <1>1, ImplFields DEF ImplsOK
<1>3. CASE ImplOutput(i)
  <2> DEFINE q == Tail(impls[i].queue)
  <2>1. Head(impls[i].queue) \in Chunk /\ q \in Seq(Chunk)
    BY <1>2, <1>3 DEF ImplOutput
  <2>2. impls' = [impls EXCEPT ![i].queue = q]
    BY <1>3, Zenon DEF ImplOutput
  <2> HIDE DEF q
  <2>3. impls' \in Seq(Impl) /\ Len(impls') = Len(impls)
    BY <1>1, <2>1, <2>2, ImplReplaced DEF ImplsOK, ImplStates
  <2>4. output' \in Seq(Chunk)
    BY <1>3, <2>1 DEF ImplOutput, ForwardedOK
  <2> QED
    BY <1>3, <2>3, <2>4 DEF ImplOutput, StateOK, ImplsOK, PendingOK, ForwardedOK, CountsOK
<1>4. CASE ImplFails(i)
  <2>1. impls' = [impls EXCEPT ![i].state = "broken", ![i].queue = <<>>]
    BY <1>4, Zenon DEF ImplFails
  <2>2. impls' \in Seq(Impl) /\ Len(impls') = Len(impls)
    BY <1>1, <2>1, ImplEmptied, Zenon, "broken" \in ImplStates DEF ImplsOK, ImplStates
  <2> QED
    BY <1>4, <2>2 DEF ImplFails, StateOK, ImplsOK, PendingOK, ForwardedOK, CountsOK
<1> QED
  BY <1>1, <1>3, <1>4

LEMMA RouterStep == RouterOK /\ [Next]_vars => RouterOK'
<1>1. RouterOK /\ UNCHANGED vars => RouterOK'
  BY DEF RouterOK, vars, StateOK, ImplsOK, PendingOK, ForwardedOK, CountsOK
<1> QED
  BY <1>1, CallsTypes, AnswersTypes, BackendTypes DEF Next

\* TypeOK: the router keeps its types, and holds less than the high-water mark
\* of the scheduler, for every number of configurations and chunks.
THEOREM RouterTypes == Spec => []TypeOK
BY RouterInit, RouterStep, RouterParts, PTL DEF Spec

-----------------------------------------------------------------------------
(* CodecRoutingDecoder: the order of the chunks.                             *)

\* Two sequences that ascend, one after the other, up to n.
Ordered(f, g, n) ==
    /\ f \in Seq(Nat) /\ g \in Seq(Nat) /\ n \in Nat
    /\ Ascending(f \o g)
    /\ \A i \in DOMAIN (f \o g) : (f \o g)[i] <= n

LEMMA OrderedForwarded ==
    ASSUME NEW f, NEW g, NEW n, Ordered(f, g, n)
    PROVE  Ordered(f \o g, <<>>, n)
<1>1. f \o g \in Seq(Nat) /\ (f \o g) \o <<>> = f \o g
  BY DEF Ordered
<1> QED
  BY <1>1 DEF Ordered

LEMMA OrderedForgotten ==
    ASSUME NEW f, NEW g, NEW n, Ordered(f, g, n)
    PROVE  Ordered(f, <<>>, n)
<1>1. f \o <<>> = f /\ f \in Seq(Nat) /\ g \in Seq(Nat)
  BY DEF Ordered
<1>2. \A i \in DOMAIN f : (f \o g)[i] = f[i] /\ i \in DOMAIN (f \o g)
  BY <1>1
<1>3. Ascending(f) /\ \A i \in DOMAIN f : f[i] <= n
  BY <1>1, <1>2 DEF Ordered, Ascending
<1> QED
  BY <1>1, <1>3 DEF Ordered

\* A sequence that ascends goes on with a greater number.
LEMMA AscendingAppend ==
    ASSUME NEW s \in Seq(Nat), NEW n \in Nat, Ascending(s), \A i \in DOMAIN s : s[i] <= n
    PROVE  /\ Ascending(Append(s, n + 1))
           /\ \A i \in DOMAIN Append(s, n + 1) : Append(s, n + 1)[i] <= n + 1
BY DEF Ascending

LEMMA OrderedHeld ==
    ASSUME NEW f, NEW g, NEW n, Ordered(f, g, n)
    PROVE  Ordered(f, Append(g, n + 1), n + 1)
<1>1. f \o Append(g, n + 1) = Append(f \o g, n + 1)
  BY DEF Ordered
<1>2. f \o g \in Seq(Nat) /\ Append(g, n + 1) \in Seq(Nat) /\ n + 1 \in Nat
  BY DEF Ordered
<1> QED
  BY <1>1, <1>2, AscendingAppend DEF Ordered

LEMMA OrderedSent ==
    ASSUME NEW f, NEW n, Ordered(f, <<>>, n)
    PROVE  Ordered(Append(f, n + 1), <<>>, n + 1)
<1>1. f \in Seq(Nat) /\ n \in Nat /\ f \o <<>> = f
  BY DEF Ordered
<1>2. Append(f, n + 1) \in Seq(Nat) /\ Append(f, n + 1) \o <<>> = Append(f, n + 1)
  BY <1>1
<1> QED
  BY <1>1, <1>2, AscendingAppend DEF Ordered

LEMMA OrderedLater ==
    ASSUME NEW f, NEW g, NEW n, Ordered(f, g, n)
    PROVE  Ordered(f, g, n + 1)
<1>1. f \o g \in Seq(Nat)
  BY DEF Ordered
<1> QED
  BY <1>1 DEF Ordered

\* The order of the calls so far; and nothing is held from an implementation.
CallOrder ==
    /\ Ordered(ForwardedChunks, pending, Len(chunks))
    /\ impl # 0 => pending = <<>>

LEMMA ForwardedHeld ==
    ASSUME RouterOK, NEW config,
           forwarded' = forwarded \o [i \in DOMAIN pending |-> <<pending[i], config>>]
    PROVE  ForwardedChunks' = ForwardedChunks \o pending
<1> DEFINE held == [i \in DOMAIN pending |-> <<pending[i], config>>]
<1>1. /\ Len(pending) \in Nat /\ Len(forwarded) \in Nat
      /\ DOMAIN pending = 1..Len(pending) /\ DOMAIN forwarded = 1..Len(forwarded)
  BY DEF RouterOK, PendingOK, ForwardedOK
<1>2. Len(held) = Len(pending) /\ \A i \in 1..Len(pending) : held[i][1] = pending[i]
  BY <1>1
<1> HIDE DEF held
<1>3. /\ DOMAIN forwarded' = 1..(Len(forwarded) + Len(pending))
      /\ \A i \in 1..Len(forwarded) : forwarded'[i] = forwarded[i]
      /\ \A i \in (Len(forwarded) + 1)..(Len(forwarded) + Len(pending)) :
             forwarded'[i] = held[i - Len(forwarded)]
  BY <1>1, <1>2 DEF held
<1>4. Len(ForwardedChunks) = Len(forwarded)
  BY <1>1 DEF ForwardedChunks
<1> QED
  BY <1>1, <1>2, <1>3, <1>4 DEF ForwardedChunks

LEMMA ForwardedSent ==
    ASSUME RouterOK, NEW chunk, NEW config, forwarded' = Append(forwarded, <<chunk, config>>)
    PROVE  ForwardedChunks' = Append(ForwardedChunks, chunk)
<1>1. Len(forwarded) \in Nat /\ DOMAIN forwarded = 1..Len(forwarded)
  BY DEF RouterOK, ForwardedOK
<1>2. /\ DOMAIN forwarded' = 1..(Len(forwarded) + 1)
      /\ \A i \in 1..Len(forwarded) : forwarded'[i] = forwarded[i]
      /\ forwarded'[Len(forwarded) + 1][1] = chunk
  BY <1>1
<1>3. Len(ForwardedChunks) = Len(forwarded)
  BY <1>1 DEF ForwardedChunks
<1> QED
  BY <1>1, <1>2, <1>3 DEF ForwardedChunks

\* What is held is forwarded, or forgotten.
LEMMA ActivateOrder ==
    ASSUME RouterOK, CallOrder, NEW config, Activate(config), chunks' = chunks
    PROVE  CallOrder'
<1>1. CASE Activated(config)
  <2>1. ForwardedChunks' = ForwardedChunks \o pending
    BY <1>1, ForwardedHeld DEF Activated
  <2> QED
    BY <1>1, <2>1, OrderedForwarded DEF Activated, CallOrder
<1>2. CASE ActivatedBroken(config) \/ ActivatedAndClosed(config)
  BY <1>2, OrderedForgotten DEF ActivatedBroken, ActivatedAndClosed, CallOrder, ForwardedChunks
<1> QED
  BY <1>1, <1>2 DEF Activate

LEMMA DecodeOrder ==
    ASSUME RouterOK, CallOrder, Decode
    PROVE  CallOrder'
<1> DEFINE n == Len(chunks)
<1>1. n \in Nat /\ Len(chunks') = n + 1 /\ impl' = impl
  BY DEF Decode, RouterOK, CountsOK
<1>2. CASE impl = 0
  <2>1. pending' = Append(pending, n + 1) /\ forwarded' = forwarded
    BY <1>1, <1>2 DEF Decode
  <2> QED
    BY <1>1, <1>2, <2>1, OrderedHeld DEF CallOrder, ForwardedChunks
<1>3. CASE impl # 0 /\ impls[impl].state = "open"
  <2>1. forwarded' = Append(forwarded, <<n + 1, impls[impl].config>>) /\ pending' = pending
    BY <1>1, <1>3 DEF Decode
  <2>2. ForwardedChunks' = Append(ForwardedChunks, n + 1)
    BY <2>1, ForwardedSent
  <2> QED
    BY <1>1, <1>3, <2>1, <2>2, OrderedSent DEF CallOrder
<1>4. CASE impl # 0 /\ impls[impl].state # "open"
  <2>1. forwarded' = forwarded /\ pending' = pending
    BY <1>4 DEF Decode
  <2> QED
    BY <1>1, <1>4, <2>1, OrderedLater DEF CallOrder, ForwardedChunks
<1> QED
  BY <1>2, <1>3, <1>4

LEMMA OrderStep ==
    ASSUME RouterOK, CallOrder, [Next]_vars
    PROVE  CallOrder'
<1>1. CASE ConfigureNow
  BY <1>1, ActivateOrder DEF ConfigureNow
<1>2. CASE ConfigureProbe
  BY <1>2 DEF ConfigureProbe, CallOrder, ForwardedChunks
<1>3. CASE Reset \/ Close
  BY <1>3, OrderedForgotten DEF Reset, Close, CallOrder, ForwardedChunks
<1>4. CASE Answers
  <2>1. PICK c \in probes : ProbeResolves(c)
    BY <1>4 DEF Answers
  <2>2. CASE Activate(c)
    BY <2>1, <2>2, ActivateOrder DEF ProbeResolves
  <2>3. CASE Fail
    BY <2>1, <2>3, OrderedForgotten DEF ProbeResolves, Fail, CallOrder, ForwardedChunks
  <2>4. CASE UNCHANGED <<impl, pending, forwarded>>
    BY <2>1, <2>4 DEF ProbeResolves, CallOrder, ForwardedChunks
  <2> QED
    BY <2>1, <2>2, <2>3, <2>4 DEF ProbeResolves
<1>5. CASE Backend
  BY <1>5 DEF Backend, ImplOutput, ImplFails, CallOrder, ForwardedChunks
<1>6. CASE UNCHANGED vars
  BY <1>6 DEF vars, CallOrder, ForwardedChunks
<1> QED
  BY <1>1, <1>2, <1>3, <1>4, <1>5, <1>6, DecodeOrder DEF Next, Calls

\* DecodedInOrder: chunks reach implementations in the order decode() was called,
\* across every hand-over from the holding queue, and none twice, in whatever order
\* the browser answers.
THEOREM ChunksStayInOrder == Spec => []DecodedInOrder
<1>1. Init => CallOrder
  BY DEF Init, CallOrder, ForwardedChunks, Ordered, Ascending
<1>2. CallOrder => DecodedInOrder
  BY DEF CallOrder, Ordered, DecodedInOrder
<1> QED
  BY <1>1, <1>2, RouterInit, RouterStep, OrderStep, PTL DEF Spec

-----------------------------------------------------------------------------
(* CodecRoutingDecoder: what is left of the decoders of a stream that keeps   *)
(* its configuration.                                                        *)

\* The one question asked is answered before the one implementation is built,
\* of which no other is open than the one in use; and a router that was closed
\* stays so, unless it had built it before.
OneDecoder ==
    /\ configs = 0 => probes = {} /\ impls = <<>>
    /\ configs <= 1 =>
        /\ Len(impls) <= 1
        /\ probes # {} => impls = <<>> /\ probes = {1}
        /\ \A i \in DOMAIN impls : impls[i].state = "open" => i = impl /\ ~wasClosed
        /\ wasClosed /\ impls = <<>> => routing = "closed"
    /\ routing = "closed" => wasClosed
    /\ wasClosed => impl = 0 \/ configs > 1

LEMMA OneDecoderInit == Init => OneDecoder
BY DEF Init, OneDecoder

\* The implementation is the first one.
LEMMA ActivateOne ==
    ASSUME RouterOK, OneDecoder, NEW config, Activate(config), routing # "closed",
           configs' <= 1 => impls = <<>>, configs' <= 1 => probes' = {}, configs' \in Nat \ {0},
           configs' >= configs
    PROVE  OneDecoder'
<1>1. configs \in Nat
  BY DEF RouterOK, CountsOK
<1>2. CASE configs' > 1
  BY <1>1, <1>2 DEF OneDecoder, Activate, Activated, ActivatedBroken, ActivatedAndClosed
<1>3. CASE configs' <= 1
  <2>1. impls = <<>> /\ configs <= 1
    BY <1>1, <1>3
  <2>2. ~wasClosed /\ probes' = {}
    BY <1>3, <2>1 DEF OneDecoder
  <2>3. CASE Activated(config)
    BY <1>3, <2>1, <2>2, <2>3 DEF Activated, OneDecoder
  <2>4. CASE ActivatedBroken(config)
    BY <1>3, <2>1, <2>2, <2>4 DEF ActivatedBroken, OneDecoder
  <2>5. CASE ActivatedAndClosed(config)
    BY <1>3, <2>1, <2>2, <2>5 DEF ActivatedAndClosed, OneDecoder
  <2> QED
    BY <2>3, <2>4, <2>5 DEF Activate
<1> QED
  BY <1>2, <1>3

\* No implementation is opened.
NoneOpens ==
    /\ impls' = <<>> <=> impls = <<>>
    /\ Len(impls') = Len(impls)
    /\ \A i \in DOMAIN impls' :
           i \in DOMAIN impls /\ (impls'[i].state = "open" => impls[i].state = "open")

LEMMA OneStays ==
    ASSUME OneDecoder, NoneOpens, UNCHANGED <<routing, impl, probes, configs, wasClosed>>
    PROVE  OneDecoder'
BY DEF OneDecoder, NoneOpens

\* What changes one implementation, and does not open it, opens none.
LEMMA NotOpened ==
    ASSUME impls \in Seq(Impl), NEW i \in DOMAIN impls, NEW st, NEW q,
           st # "open" \/ st = impls[i].state,
           impls' = [impls EXCEPT ![i].state = st, ![i].queue = q]
    PROVE  NoneOpens /\ impls'[i].state = st
<1>1. impls[i] \in Impl
  OBVIOUS
<1>2. impls'[i].state = st
  BY <1>1 DEF Impl
<1>3. /\ DOMAIN impls' = DOMAIN impls /\ Len(impls') = Len(impls) /\ impls' # <<>>
      /\ \A j \in DOMAIN impls : j # i => impls'[j] = impls[j]
  OBVIOUS
<1> QED
  BY <1>2, <1>3 DEF NoneOpens

LEMMA RequeuedOnly ==
    ASSUME impls \in Seq(Impl), NEW i \in DOMAIN impls, NEW q,
           impls' = [impls EXCEPT ![i].queue = q]
    PROVE  NoneOpens
<1>1. impls[i] \in Impl
  OBVIOUS
<1>2. impls'[i].state = impls[i].state
  BY <1>1 DEF Impl
<1>3. /\ DOMAIN impls' = DOMAIN impls /\ Len(impls') = Len(impls) /\ impls' # <<>>
      /\ \A j \in DOMAIN impls : j # i => impls'[j] = impls[j]
  OBVIOUS
<1> QED
  BY <1>2, <1>3 DEF NoneOpens

LEMMA UntouchedImpls == impls \in Seq(Impl) /\ impls' = impls => NoneOpens
BY DEF NoneOpens

LEMMA DecodeOne ==
    ASSUME RouterOK, OneDecoder, Decode
    PROVE  OneDecoder'
<1>1. UNCHANGED <<routing, impl, probes, configs, wasClosed>> /\ impls \in Seq(Impl)
  BY DEF Decode, RouterOK, ImplsOK
<1>2. CASE impl # 0 /\ impls[impl].state = "open"
  <2>1. impls' = [impls EXCEPT ![impl].queue = Append(@, Len(chunks'))]
    BY <1>2, Zenon DEF Decode
  <2>2. impl \in DOMAIN impls
    BY <1>2 DEF RouterOK, ImplsOK
  <2>3. NoneOpens
    BY <1>1, <2>1, <2>2, RequeuedOnly, Zenon
  <2> QED
    BY <1>1, <2>3, OneStays, Zenon
<1>3. CASE impls' = impls
  BY <1>1, <1>3, UntouchedImpls, OneStays
<1> QED
  BY <1>2, <1>3 DEF Decode

LEMMA ResetOne ==
    ASSUME RouterOK, OneDecoder, Reset
    PROVE  OneDecoder'
<1>1. UNCHANGED <<routing, impl, probes, configs, wasClosed>> /\ impls \in Seq(Impl)
  BY DEF Reset, RouterOK, ImplsOK
<1>2. CASE impl = 0
  BY <1>1, <1>2, UntouchedImpls, OneStays DEF Reset
<1>3. CASE impl # 0
  <2>1. impl \in DOMAIN impls
    BY <1>3 DEF RouterOK, ImplsOK
  <2>2. PICK after \in {impls[impl].state, "broken"} :
            impls' = [impls EXCEPT ![impl].state = after, ![impl].queue = <<>>]
    BY <1>3, Zenon DEF Reset
  <2>3. after # "open" \/ after = impls[impl].state
    BY <2>2
  <2>4. NoneOpens
    BY <1>1, <2>1, <2>2, <2>3, NotOpened, Zenon
  <2> QED
    BY <1>1, <2>4, OneStays, Zenon
<1> QED
  BY <1>2, <1>3

LEMMA CloseOne ==
    ASSUME RouterOK, OneDecoder, Close
    PROVE  OneDecoder'
<1>1. /\ UNCHANGED <<probes, configs>> /\ impls \in Seq(Impl)
      /\ routing' = "closed" /\ wasClosed' /\ impl' = 0
  BY DEF Close, RouterOK, ImplsOK
<1>2. CASE impl = 0
  BY <1>1, <1>2 DEF Close, OneDecoder
<1>3. CASE impl # 0
  <2>1. impl \in DOMAIN impls
    BY <1>3 DEF RouterOK, ImplsOK
  <2>2. impls' = [impls EXCEPT ![impl].state = "closed", ![impl].queue = <<>>]
    BY <1>3, Zenon DEF Close
  <2>3. NoneOpens /\ impls'[impl].state = "closed"
    BY <1>1, <2>1, <2>2, NotOpened, "closed" # "open"
  <2> QED
    BY <1>1, <2>3 DEF OneDecoder, NoneOpens
<1> QED
  BY <1>2, <1>3

LEMMA BackendOne ==
    ASSUME RouterOK, OneDecoder, Backend
    PROVE  OneDecoder'
<1>1. PICK i \in DOMAIN impls : ImplOutput(i) \/ ImplFails(i)
  BY DEF Backend
<1>2. UNCHANGED <<routing, impl, probes, configs, wasClosed>> /\ impls \in Seq(Impl)
  BY <1>1 DEF ImplOutput, ImplFails, RouterOK, ImplsOK
<1>3. NoneOpens
  <2>1. CASE ImplOutput(i)
    BY <1>1, <1>2, <2>1, RequeuedOnly, Zenon DEF ImplOutput
  <2>2. CASE ImplFails(i)
    BY <1>1, <1>2, <2>2, NotOpened, "broken" # "open" DEF ImplFails
  <2> QED
    BY <1>1, <2>1, <2>2
<1> QED
  BY <1>2, <1>3, OneStays, Zenon

LEMMA ConfigureOne ==
    ASSUME RouterOK, OneDecoder, ConfigureNow \/ ConfigureProbe
    PROVE  OneDecoder'
<1>1. configs \in Nat /\ configs' = configs + 1 /\ routing # "closed"
  BY DEF ConfigureNow, ConfigureProbe, RouterOK, CountsOK
<1>2. configs' <= 1 => configs = 0 /\ impls = <<>> /\ probes = {}
  BY <1>1 DEF OneDecoder
<1>3. CASE ConfigureNow
  <2>1. Activate(configs') /\ probes' = probes
    BY <1>3 DEF ConfigureNow
  <2> QED
    BY <1>1, <1>2, <2>1, ActivateOne
<1>4. CASE ConfigureProbe
  <2>1. CASE configs' > 1
    BY <1>1, <1>4, <2>1 DEF ConfigureProbe, OneDecoder
  <2>2. CASE configs' <= 1
    <3>1. probes' = {1} /\ impls' = <<>> /\ configs' = 1
      BY <1>1, <1>2, <1>4, <2>2 DEF ConfigureProbe
    <3>2. wasClosed' = wasClosed /\ ~wasClosed /\ routing' = "probing"
      BY <1>1, <1>2, <1>4, <2>2 DEF ConfigureProbe, OneDecoder
    <3> QED
      BY <3>1, <3>2 DEF OneDecoder
  <2> QED
    BY <1>1, <2>1, <2>2
<1> QED
  BY <1>3, <1>4

LEMMA AnswersOne ==
    ASSUME RouterOK, OneDecoder, Answers
    PROVE  OneDecoder'
<1>1. PICK c \in probes : ProbeResolves(c)
  BY DEF Answers
<1>2. configs' = configs /\ configs \in Nat /\ configs # 0 /\ probes' = probes \ {c}
  BY <1>1 DEF ProbeResolves, RouterOK, CountsOK, OneDecoder
<1>3. configs <= 1 => impls = <<>> /\ probes' = {}
  BY <1>1, <1>2 DEF OneDecoder
<1>4. CASE UNCHANGED <<routing, impl, impls, pending, forwarded, errors, wasClosed>>
  BY <1>2, <1>3, <1>4 DEF OneDecoder
<1>5. CASE routing # "closed" /\ Activate(c)
  BY <1>2, <1>3, <1>5, ActivateOne
<1>6. CASE routing # "closed" /\ Fail
  BY <1>2, <1>3, <1>6 DEF OneDecoder, Fail
<1> QED
  BY <1>1, <1>4, <1>5, <1>6 DEF ProbeResolves

LEMMA OneDecoderStep ==
    ASSUME RouterOK, OneDecoder, [Next]_vars
    PROVE  OneDecoder'
<1>1. CASE UNCHANGED vars
  BY <1>1 DEF vars, OneDecoder
<1> QED
  BY <1>1, ConfigureOne, DecodeOne, ResetOne, CloseOne, AnswersOne, BackendOne DEF Next, Calls

\* NoDecoderLeak: neither close() during the probe or from an error listener nor a
\* late answer leaves a decoder open that is not in use.
THEOREM DecodersAreClosed == Spec => []NoDecoderLeak
<1>1. OneDecoder => NoDecoderLeak
  BY DEF OneDecoder, NoDecoderLeak
<1> QED
  BY <1>1, RouterInit, RouterStep, OneDecoderInit, OneDecoderStep, PTL DEF Spec

\* SilentAfterClose: once close() returned, no frame of a stream with its first
\* configuration reaches the scheduler, whatever answers and frames are on their way.
THEOREM ClosedIsSilent == Spec => SilentAfterClose
<1>1. OneDecoder /\ [Next]_vars => [wasClosed /\ configs <= 1 => UNCHANGED output]_vars
  <2> SUFFICES ASSUME OneDecoder, Next, wasClosed, configs <= 1
               PROVE  UNCHANGED output
    OBVIOUS
  <2>1. \A i \in DOMAIN impls : ~ImplOutput(i)
    BY DEF OneDecoder, ImplOutput
  <2> QED
    BY <2>1 DEF Next, Calls, Answers, Backend, ConfigureNow, ConfigureProbe, Decode, Reset, Close,
                ProbeResolves, ImplFails
<1> QED
  BY <1>1, RouterInit, RouterStep, OneDecoderInit, OneDecoderStep, PTL
     DEF Spec, SilentAfterClose

-----------------------------------------------------------------------------
(* AudioOutput.                                                              *)

Sound == [pts : Nat, duration : Durations, at : Nat, when : Nat]

SoundTypes ==
    /\ scheduled \in Seq(Sound)
    /\ currentTime \in Nat /\ nextWhen \in Nat /\ pts \in Nat

\* No buffer is scheduled behind nextWhen, which destroy() clears; it takes the
\* decoder away that would deliver another one.
LastOne ==
    /\ destroyed => ~decoder
    /\ ~destroyed => \A i \in DOMAIN scheduled : scheduled[i].when <= nextWhen

SoundInv == SoundTypes /\ LastOne /\ SoundsInOrder

LEMMA AudioBounds == Ahead \in Nat /\ Durations \subseteq Nat
BY DecodingAssumption DEF DecodingAssumption

LEMMA WhenIsLater ==
    ASSUME SoundTypes
    PROVE  Audio!When \in Nat /\ Audio!When >= currentTime + Ahead /\ Audio!When >= nextWhen + Ahead
BY AudioBounds DEF SoundTypes, Audio!When, Audio!Later

\* schedule(): the buffer sounds after those before it.
LEMMA ScheduleKeeps ==
    ASSUME SoundInv, decoder, NEW duration \in Durations, Audio!Schedule(duration),
           Audio!Counted(duration), UNCHANGED <<decoder, destroyed>>
    PROVE  SoundInv'
<1> DEFINE sound == [pts |-> pts, duration |-> duration, at |-> currentTime,
                     when |-> Audio!When]
           n == Len(scheduled)
<1>1. /\ scheduled \in Seq(Sound) /\ currentTime \in Nat /\ nextWhen \in Nat /\ pts \in Nat
      /\ \A i \in DOMAIN scheduled : scheduled[i].when <= nextWhen
      /\ duration \in Nat
  BY AudioBounds DEF SoundInv, SoundTypes, LastOne
<1>2. /\ Audio!When \in Nat /\ Audio!When >= currentTime + Ahead
      /\ Audio!When >= nextWhen + Ahead
  BY WhenIsLater DEF SoundInv
<1>3. sound \in Sound /\ sound.at = currentTime /\ sound.when = Audio!When
  BY <1>1, <1>2 DEF Sound
<1>4. /\ scheduled' = Append(scheduled, sound) /\ nextWhen' = Audio!When
      /\ pts' = pts + duration /\ currentTime' = currentTime
  BY DEF Audio!Schedule, Audio!Counted
<1> HIDE DEF sound
<1>5. /\ scheduled' \in Seq(Sound) /\ DOMAIN scheduled' = 1..(n + 1) /\ n \in Nat
      /\ DOMAIN scheduled = 1..n
      /\ \A i \in 1..n : scheduled'[i] = scheduled[i]
      /\ scheduled'[n + 1] = sound
  BY <1>1, <1>3, <1>4
<1> HIDE DEF n
<1>6. SoundTypes'
  BY <1>1, <1>2, <1>4, <1>5 DEF SoundTypes
<1>7. \A i \in 1..n : /\ scheduled[i].when \in Nat /\ scheduled[i].duration \in Nat
                      /\ scheduled[i].at \in Nat
  <2> SUFFICES ASSUME NEW i \in 1..n
               PROVE  /\ scheduled[i].when \in Nat /\ scheduled[i].duration \in Durations
                      /\ scheduled[i].at \in Nat
    BY AudioBounds
  <2>1. scheduled[i] \in Sound
    BY <1>1, <1>5
  <2> QED
    BY <2>1 DEF Sound
<1>8. LastOne'
  BY <1>1, <1>2, <1>3, <1>4, <1>5, <1>7, AudioBounds DEF SoundInv, LastOne
<1>9. SoundsInOrder'
  <2> SUFFICES ASSUME NEW j \in 1..(n + 1)
               PROVE  /\ scheduled'[j].at + Ahead <= scheduled'[j].when
                      /\ \A i \in 1..(j - 1) :
                             scheduled'[i].duration <= Ahead =>
                                 scheduled'[i].when + scheduled'[i].duration <= scheduled'[j].when
    BY <1>5 DEF SoundsInOrder, Audio!SoundsInOrder
  <2>1. CASE j <= n
    BY <1>5, <2>1 DEF SoundInv, SoundsInOrder, Audio!SoundsInOrder
  <2>2. CASE j = n + 1
    <3>1. scheduled'[j].at = currentTime /\ scheduled'[j].when = Audio!When
      BY <1>3, <1>5, <2>2
    <3>2. \A i \in 1..n : scheduled'[i] = scheduled[i] /\ scheduled[i].when <= nextWhen
      BY <1>1, <1>5
    <3>3. \A i \in 1..n : scheduled[i].duration <= Ahead =>
              scheduled[i].when + scheduled[i].duration <= Audio!When
      <4> SUFFICES ASSUME NEW i \in 1..n, scheduled[i].duration <= Ahead
                   PROVE  scheduled[i].when + scheduled[i].duration <= Audio!When
        OBVIOUS
      <4> QED
        BY <1>1, <1>2, <1>7, <3>2, AudioBounds
    <3> QED
      BY <1>2, <1>5, <2>2, <3>1, <3>2, <3>3
  <2> QED
    BY <1>5, <2>1, <2>2
<1> QED
  BY <1>6, <1>8, <1>9 DEF SoundInv

\* What schedules nothing keeps what was scheduled.
LEMMA SilentKeeps ==
    ASSUME SoundInv, scheduled' = scheduled, currentTime' \in Nat, pts' \in Nat,
           \/ nextWhen' = nextWhen /\ (decoder' => decoder \/ ~destroyed) /\ destroyed' = destroyed
              /\ (destroyed => ~decoder')
           \/ nextWhen' = 0 /\ ~decoder' /\ destroyed'
    PROVE  SoundInv'
BY DEF SoundInv, SoundTypes, LastOne, SoundsInOrder, Audio!SoundsInOrder

LEMMA DecodedKeeps ==
    ASSUME SoundInv, NEW duration \in Durations,
           \/ Audio!FirstDecoded(duration) \/ Audio!Decoded(duration)
           \/ Audio!RefusedAndDestroyed(duration)
    PROVE  SoundInv'
<1>1. /\ Audio!Counted(duration) /\ decoder
      /\ currentTime' = currentTime /\ pts' = pts + duration
      /\ currentTime' \in Nat /\ pts' \in Nat
  <2>1. Audio!Counted(duration) /\ decoder
    BY DEF Audio!FirstDecoded, Audio!Decoded, Audio!RefusedAndDestroyed
  <2> QED
    BY <2>1, AudioBounds DEF Audio!Counted, SoundInv, SoundTypes
<1>2. CASE Audio!Schedule(duration) /\ UNCHANGED <<decoder, destroyed>>
  BY <1>1, <1>2, ScheduleKeeps
<1>3. CASE Audio!Refuse /\ UNCHANGED <<decoder, destroyed>>
  BY <1>1, <1>3, SilentKeeps DEF Audio!Refuse, Audio!scheduleVars, SoundInv, LastOne
<1>4. CASE Audio!Teardown /\ scheduled' = scheduled
  BY <1>1, <1>4, SilentKeeps DEF Audio!Teardown
<1> QED
  BY <1>2, <1>3, <1>4 DEF Audio!FirstDecoded, Audio!Decoded, Audio!RefusedAndDestroyed

\* SoundsInOrder: whatever is suspended, refused or late, a buffer sounds Ahead of
\* the moment it was scheduled or later, and not before the one ahead of it ended.
THEOREM BuffersSoundInOrder == Audio!Spec => []SoundsInOrder
<1>1. Audio!Init => SoundInv
  BY DEF Audio!Init, SoundInv, SoundTypes, LastOne, SoundsInOrder, Audio!SoundsInOrder
<1>2. SoundInv /\ [Audio!Next]_(Audio!vars) => SoundInv'
  <2> SUFFICES ASSUME SoundInv, [Audio!Next]_(Audio!vars)
               PROVE  SoundInv'
    OBVIOUS
  <2>1. currentTime \in Nat /\ pts \in Nat /\ (destroyed => ~decoder)
    BY DEF SoundInv, SoundTypes, LastOne
  <2>2. CASE Audio!HandleConfig
    BY <2>1, <2>2, SilentKeeps DEF Audio!HandleConfig, Audio!scheduleVars
  <2>3. CASE \E duration \in Durations :
                 \/ Audio!FirstDecoded(duration) \/ Audio!Decoded(duration)
                 \/ Audio!RefusedAndDestroyed(duration)
    BY <2>3, DecodedKeeps
  <2>4. CASE Audio!Destroy
    BY <2>1, <2>4, SilentKeeps DEF Audio!Destroy, Audio!Teardown
  <2>5. CASE Audio!Advance \/ Audio!SuspendOrResume \/ UNCHANGED Audio!vars
    BY <2>1, <2>5, SilentKeeps
       DEF Audio!Advance, Audio!SuspendOrResume, Audio!vars, Audio!scheduleVars
  <2> QED
    BY <2>2, <2>3, <2>4, <2>5 DEF Audio!Next
<1>3. SoundInv => SoundsInOrder
  BY DEF SoundInv
<1> QED
  BY <1>1, <1>2, <1>3, PTL DEF Audio!Spec

-----------------------------------------------------------------------------
(* Dav1dSoftDecoder.                                                         *)

\* A context that was freed is neither in use nor being created.
ContextsApart ==
    /\ creates \in Nat
    /\ freed \subseteq 1..creates /\ creating \subseteq 1..creates
    /\ instance \in 0..creates
    /\ instance \notin creating
    /\ \A c \in freed : c # instance /\ c \notin creating

Decoded == [chunk : Nat, context : Nat]

DrainTypes ==
    /\ buffered \in Seq(Nat)
    /\ decodes \in Seq(Decoded)
    /\ submitted \in Nat /\ queued \in Nat /\ draining \in Nat

\* While the decoder is open: what is held from draining on was not decoded yet,
\* and is what queueSize counts.
HeldInOrder ==
    ~shut =>
        /\ \A k \in DOMAIN buffered : buffered[k] <= submitted
        /\ \A i, k \in DOMAIN buffered : i < k => buffered[i] < buffered[k]
        /\ \A i \in DOMAIN decodes : decodes[i].chunk <= submitted
        /\ \A i \in DOMAIN decodes, k \in DOMAIN buffered :
               draining <= k => decodes[i].chunk < buffered[k]
        /\ draining = 0 => queued = Len(buffered)
        /\ draining # 0 => queued + draining = Len(buffered) + 1 /\ instance # 0
        /\ draining = 0 /\ instance # 0 => buffered = <<>>

Dav1dInv == ContextsApart /\ DrainTypes /\ HeldInOrder

LEMMA Dav1dInit == Dav1d!Init => Dav1dInv
BY DEF Dav1d!Init, Dav1dInv, ContextsApart, DrainTypes, HeldInOrder

LEMMA DecodedChunks ==
    ASSUME DrainTypes
    PROVE  \A i \in DOMAIN decodes : decodes[i].chunk \in Nat
<1> SUFFICES ASSUME NEW i \in DOMAIN decodes
             PROVE  decodes[i].chunk \in Nat
  OBVIOUS
<1>1. decodes[i] \in Decoded
  BY DEF DrainTypes
<1> QED
  BY <1>1 DEF Decoded

\* What the property says of a frame decoded by a step.
DecodedSafely ==
    Len(decodes') > Len(decodes) =>
        LET new == decodes'[Len(decodes')]
        IN  /\ ~shut /\ new.context \notin freed
            /\ \A i \in DOMAIN decodes : decodes[i].chunk < new.chunk

LEMMA NoNumbers == <<>> \in Seq(Nat)
OBVIOUS

\* fail() and close() take no context that is freed already into use.
LEMMA ClosingKeeps ==
    ASSUME Dav1dInv, Dav1d!Fail \/ Dav1d!Closing, UNCHANGED <<creates, creating>>,
           decodes' \in Seq(Decoded), submitted' \in Nat, draining' \in Nat
    PROVE  Dav1dInv'
<1>1. ContextsApart'
  <2>1. CASE Dav1d!Fail
    BY <2>1 DEF Dav1dInv, ContextsApart, Dav1d!Fail
  <2>2. CASE Dav1d!Closing
    <3>1. instance' = 0 /\ freed' = IF instance = 0 THEN freed ELSE freed \cup {instance}
      BY <2>2 DEF Dav1d!Closing
    <3>2. 0 \notin freed'
      BY <3>1 DEF Dav1dInv, ContextsApart
    <3> QED
      BY <3>1, <3>2 DEF Dav1dInv, ContextsApart
  <2> QED
    BY <2>1, <2>2
<1>2. shut' /\ DrainTypes'
  <2>1. shut' = TRUE /\ queued' = 0 /\ (buffered' = buffered \/ buffered' = <<>>)
    BY DEF Dav1d!Fail, Dav1d!Closing
  <2>2. shut'
    BY <2>1, Zenon
  <2>3. buffered \in Seq(Nat)
    BY DEF Dav1dInv, DrainTypes
  <2>4. buffered' \in Seq(Nat)
    BY <2>1, <2>3, NoNumbers, Zenon
  <2> QED
    BY <2>1, <2>2, <2>4 DEF DrainTypes
<1> QED
  BY <1>1, <1>2 DEF Dav1dInv, HeldInOrder

\* A frame of a chunk that comes after those decoded, from the context in use.
LEMMA FrameIsSafe ==
    ASSUME Dav1dInv, ~shut, NEW chunk \in Nat, \A i \in DOMAIN decodes : decodes[i].chunk < chunk,
           decodes' = Append(decodes, [chunk |-> chunk, context |-> instance])
    PROVE  /\ decodes' \in Seq(Decoded)
           /\ DecodedSafely
           /\ Len(decodes') = Len(decodes) + 1
           /\ \A i \in DOMAIN decodes : decodes'[i] = decodes[i]
           /\ decodes'[Len(decodes) + 1].chunk = chunk
<1> DEFINE frame == [chunk |-> chunk, context |-> instance]
<1>1. frame \in Decoded /\ frame.chunk = chunk /\ frame.context = instance
  BY DEF Dav1dInv, ContextsApart, Decoded
<1>2. instance \notin freed
  BY DEF Dav1dInv, ContextsApart
<1>3. decodes \in Seq(Decoded)
  BY DEF Dav1dInv, DrainTypes
<1> HIDE DEF frame
<1>4. decodes' = Append(decodes, frame)
  BY DEF frame
<1>5. /\ decodes' \in Seq(Decoded) /\ Len(decodes') = Len(decodes) + 1
      /\ \A i \in DOMAIN decodes : decodes'[i] = decodes[i]
      /\ decodes'[Len(decodes) + 1] = frame
  BY <1>1, <1>3, <1>4
<1> QED
  BY <1>1, <1>2, <1>5 DEF DecodedSafely

LEMMA NothingDecoded == DrainTypes /\ decodes' = decodes => DecodedSafely
BY DEF DecodedSafely, DrainTypes

LEMMA DecodeSafe ==
    ASSUME Dav1dInv, Dav1d!Decode
    PROVE  Dav1dInv' /\ DecodedSafely
<1>1. /\ draining = 0 /\ ~shut /\ draining' = 0 /\ creates' = creates /\ creating' = creating
      /\ submitted' = submitted + 1 /\ submitted \in Nat /\ queued \in Nat
      /\ queued = Len(buffered)
  BY DEF Dav1d!Decode, Dav1d!AtRest, Dav1dInv, DrainTypes, HeldInOrder
<1>2. CASE instance = 0
  <2>1. /\ buffered' = Append(buffered, submitted + 1) /\ queued' = queued + 1
        /\ UNCHANGED <<instance, freed, shut, decodes>>
    BY <1>1, <1>2 DEF Dav1d!Decode
  <2>2. ContextsApart' /\ DecodedSafely
    BY <1>1, <2>1, NothingDecoded DEF Dav1dInv, ContextsApart
  <2>3. DrainTypes'
    BY <1>1, <2>1 DEF Dav1dInv, DrainTypes
  <2>4. HeldInOrder'
    <3>1. /\ DOMAIN buffered' = 1..(queued + 1) /\ DOMAIN buffered = 1..queued
          /\ \A k \in 1..queued : buffered'[k] = buffered[k] /\ buffered[k] \in Nat
          /\ buffered'[queued + 1] = submitted + 1
          /\ Len(buffered') = queued + 1
      BY <1>1, <2>1 DEF Dav1dInv, DrainTypes
    <3>2. \A i \in DOMAIN decodes : decodes[i].chunk \in Nat
      BY DecodedChunks DEF Dav1dInv
    <3> QED
      BY <1>1, <1>2, <2>1, <3>1, <3>2 DEF Dav1dInv, HeldInOrder
  <2> QED
    BY <2>2, <2>3, <2>4 DEF Dav1dInv
<1>3. CASE instance # 0
  <2>1. Dav1d!DecodeNow(submitted + 1, queued + 1) /\ buffered = <<>>
    BY <1>1, <1>3 DEF Dav1d!Decode, Dav1dInv, HeldInOrder
  <2>2. CASE Dav1d!Fail /\ decodes' = decodes
    BY <1>1, <2>2, ClosingKeeps, NothingDecoded DEF Dav1dInv, DrainTypes
  <2>3. CASE decodes' = Append(decodes, [chunk |-> submitted + 1, context |-> instance])
    <3>1. \A i \in DOMAIN decodes : decodes[i].chunk < submitted + 1 /\ decodes[i].chunk <= submitted
      BY <1>1, DecodedChunks DEF Dav1dInv, HeldInOrder
    <3>2. /\ decodes' \in Seq(Decoded) /\ DecodedSafely
          /\ Len(decodes') = Len(decodes) + 1
          /\ \A i \in DOMAIN decodes : decodes'[i] = decodes[i]
          /\ decodes'[Len(decodes) + 1].chunk = submitted + 1
      BY <1>1, <2>3, <3>1, FrameIsSafe
    <3>3. CASE Dav1d!Fail \/ Dav1d!Closing
      BY <1>1, <3>2, <3>3, ClosingKeeps
    <3>4. CASE queued' = queued /\ UNCHANGED <<instance, freed, buffered, shut>>
      <4>2. ContextsApart' /\ DrainTypes'
        BY <1>1, <3>2, <3>4 DEF Dav1dInv, ContextsApart, DrainTypes
      <4>3. \A i \in DOMAIN decodes' : decodes'[i].chunk <= submitted'
        <5>1. decodes \in Seq(Decoded) /\ DOMAIN decodes' = 1..(Len(decodes) + 1)
              /\ DOMAIN decodes = 1..Len(decodes)
          BY <3>2 DEF Dav1dInv, DrainTypes
        <5>2. \A i \in 1..Len(decodes) : decodes'[i].chunk <= submitted + 1
          BY <1>1, <3>1, <3>2, <5>1, DecodedChunks DEF Dav1dInv
        <5> QED
          BY <1>1, <3>2, <5>1, <5>2
      <4>4. HeldInOrder'
        BY <1>1, <2>1, <3>4, <4>3 DEF HeldInOrder
      <4> QED
        BY <3>2, <4>2, <4>4 DEF Dav1dInv
    <3> QED
      <4>1. \/ Dav1d!Fail \/ Dav1d!Closing
            \/ queued' = queued /\ UNCHANGED <<instance, freed, buffered, shut>>
        BY <1>1, <2>1 DEF Dav1d!DecodeNow
      <4> QED
        BY <3>3, <3>4, <4>1
  <2> QED
    BY <2>1, <2>2, <2>3 DEF Dav1d!DecodeNow
<1> QED
  BY <1>2, <1>3

LEMMA DrainSafe ==
    ASSUME Dav1dInv, Dav1d!DrainNext
    PROVE  Dav1dInv' /\ DecodedSafely
<1> DEFINE chunk == buffered[draining]
<1>1. /\ draining # 0 /\ ~shut /\ draining <= Len(buffered) /\ draining' = draining + 1
      /\ UNCHANGED <<creates, creating, submitted>>
      /\ queued \in Nat /\ draining \in Nat /\ Len(buffered) \in Nat /\ submitted \in Nat
      /\ DOMAIN buffered = 1..Len(buffered)
      /\ buffered \in Seq(Nat)
      /\ queued + draining = Len(buffered) + 1 /\ instance # 0
  BY DEF Dav1d!DrainNext, Dav1d!AtRest, Dav1dInv, DrainTypes, HeldInOrder
<1>2. draining \in DOMAIN buffered /\ chunk \in Nat
  BY <1>1
<1>3. Dav1d!DecodeNow(chunk, queued)
  BY DEF Dav1d!DrainNext
<1>4. /\ chunk <= submitted
      /\ \A i \in DOMAIN decodes : decodes[i].chunk < chunk /\ decodes[i].chunk <= submitted
      /\ \A k \in DOMAIN buffered : draining + 1 <= k => chunk < buffered[k]
  <2>1. chunk <= submitted
    BY <1>1, <1>2 DEF Dav1dInv, HeldInOrder
  <2>2. \A i \in DOMAIN decodes : decodes[i].chunk < chunk /\ decodes[i].chunk <= submitted
    <3>1. draining <= draining
      BY <1>1
    <3>2. HeldInOrder
      BY DEF Dav1dInv
    <3> QED
      BY <1>1, <1>2, <3>1, <3>2, Zenon DEF HeldInOrder
  <2>3. \A k \in DOMAIN buffered : draining + 1 <= k => draining < k
    BY <1>1
  <2>4. \A k \in DOMAIN buffered : draining < k => chunk < buffered[k]
    BY <1>1, <1>2 DEF Dav1dInv, HeldInOrder
  <2> QED
    BY <2>1, <2>2, <2>3, <2>4
<1> HIDE DEF chunk
<1>5. CASE Dav1d!Fail /\ decodes' = decodes
  BY <1>1, <1>5, ClosingKeeps, NothingDecoded DEF Dav1dInv, DrainTypes
<1>6. CASE decodes' = Append(decodes, [chunk |-> chunk, context |-> instance])
  <2>1. /\ decodes' \in Seq(Decoded) /\ DecodedSafely
        /\ Len(decodes') = Len(decodes) + 1
        /\ \A i \in DOMAIN decodes : decodes'[i] = decodes[i]
        /\ decodes'[Len(decodes) + 1].chunk = chunk
    BY <1>1, <1>2, <1>4, <1>6, FrameIsSafe
  <2>2. CASE Dav1d!Fail \/ Dav1d!Closing
    BY <1>1, <2>1, <2>2, ClosingKeeps
  <2>3. CASE queued' = queued - 1 /\ UNCHANGED <<instance, freed, buffered, shut>>
    <3>1. ContextsApart' /\ DrainTypes'
      BY <1>1, <2>1, <2>3 DEF Dav1dInv, ContextsApart, DrainTypes
    <3>2. \A i \in DOMAIN decodes' :
              \/ i \in DOMAIN decodes /\ decodes'[i] = decodes[i]
              \/ decodes'[i].chunk = chunk
      <4>1. DOMAIN decodes' = 1..(Len(decodes) + 1) /\ DOMAIN decodes = 1..Len(decodes)
            /\ Len(decodes) \in Nat
        BY <2>1 DEF Dav1dInv, DrainTypes
      <4> QED
        BY <2>1, <4>1
    <3>3. \A i \in DOMAIN decodes' : decodes'[i].chunk <= submitted'
      BY <1>1, <1>4, <3>2
    <3>4. \A i \in DOMAIN decodes', k \in DOMAIN buffered :
              draining' <= k => decodes'[i].chunk < buffered[k]
      <4> SUFFICES ASSUME NEW i \in DOMAIN decodes', NEW k \in DOMAIN buffered, draining' <= k
                   PROVE  decodes'[i].chunk < buffered[k]
        OBVIOUS
      <4>1. draining + 1 <= k /\ draining <= k
        BY <1>1
      <4> QED
        BY <1>1, <1>4, <3>2, <4>1 DEF Dav1dInv, HeldInOrder
    <3>5. queued' + draining' = Len(buffered') + 1 /\ instance' # 0 /\ draining' # 0
      BY <1>1, <2>3
    <3>6. /\ \A k \in DOMAIN buffered' : buffered'[k] <= submitted'
          /\ \A i, k \in DOMAIN buffered' : i < k => buffered'[i] < buffered'[k]
      BY <1>1, <2>3 DEF Dav1dInv, HeldInOrder
    <3>7. HeldInOrder'
      BY <1>1, <2>3, <3>3, <3>4, <3>5, <3>6 DEF HeldInOrder
    <3> QED
      BY <2>1, <3>1, <3>7 DEF Dav1dInv
  <2> QED
    <3>1. queued > 0
      BY <1>1
    <3>2. \/ Dav1d!Fail \/ Dav1d!Closing
          \/ queued' = queued - 1 /\ UNCHANGED <<instance, freed, buffered, shut>>
      BY <1>3, <3>1 DEF Dav1d!DecodeNow
    <3> QED
      BY <2>2, <2>3, <3>2
<1> QED
  BY <1>3, <1>5, <1>6 DEF Dav1d!DecodeNow

LEMMA OtherDav1dSteps ==
    ASSUME Dav1dInv,
           \/ Dav1d!ConfigureUnsupported \/ Dav1d!Flush \/ Dav1d!Reset \/ Dav1d!Close
           \/ Dav1d!Created \/ Dav1d!CreateFails \/ Dav1d!DrainEnds \/ UNCHANGED Dav1d!vars
    PROVE  Dav1dInv' /\ DecodedSafely
<1>0. decodes' = decodes
  BY DEF Dav1d!ConfigureUnsupported, Dav1d!Flush, Dav1d!Reset, Dav1d!Close, Dav1d!Created,
         Dav1d!CreateFails, Dav1d!DrainEnds, Dav1d!vars
<1>1. DecodedSafely
  BY <1>0, NothingDecoded DEF Dav1dInv
<1>2. CASE Dav1d!ConfigureUnsupported \/ Dav1d!Close
  <2>1. /\ Dav1d!Fail \/ Dav1d!Closing
        /\ UNCHANGED <<creates, creating, decodes, submitted, draining>>
    BY <1>2 DEF Dav1d!ConfigureUnsupported, Dav1d!Close
  <2> QED
    BY <1>1, <2>1, ClosingKeeps DEF Dav1dInv, DrainTypes
<1>3. CASE Dav1d!Flush
  <2>1. /\ draining = 0 /\ draining' = 1 /\ ~shut /\ instance # 0
        /\ UNCHANGED <<instance, creates, creating, freed, buffered, queued, shut, submitted>>
    BY <1>3 DEF Dav1d!Flush, Dav1d!AtRest, Dav1d!contextVars
  <2>2. ContextsApart' /\ DrainTypes'
    BY <1>0, <2>1 DEF Dav1dInv, ContextsApart, DrainTypes
  <2>3. queued = Len(buffered) /\ buffered = <<>>
    BY <2>1 DEF Dav1dInv, HeldInOrder
  <2>4. HeldInOrder'
    BY <1>0, <2>1, <2>3 DEF Dav1dInv, HeldInOrder, DrainTypes
  <2> QED
    BY <1>1, <2>2, <2>4 DEF Dav1dInv
<1>4. CASE Dav1d!Reset
  <2>1. /\ draining = 0 /\ ~shut /\ creates' = creates + 1 /\ creating' = creating \cup {creates'}
        /\ instance' = 0 /\ buffered' = <<>> /\ queued' = 0
        /\ UNCHANGED <<freed, draining, shut, submitted>>
    BY <1>4 DEF Dav1d!Reset, Dav1d!AtRest
  <2>2. ContextsApart'
    BY <2>1 DEF Dav1dInv, ContextsApart
  <2>3. DrainTypes'
    BY <1>0, <2>1, NoNumbers DEF Dav1dInv, DrainTypes
  <2>4. HeldInOrder'
    BY <1>0, <2>1 DEF Dav1dInv, HeldInOrder
  <2> QED
    BY <1>1, <2>2, <2>3, <2>4 DEF Dav1dInv
<1>5. CASE Dav1d!Created
  <2>1. PICK c \in creating :
            /\ draining = 0 /\ creating' = creating \ {c}
            /\ UNCHANGED <<creates, buffered, queued, shut, submitted>>
            /\ \/ shut /\ freed' = freed \cup {c} /\ UNCHANGED <<instance, draining>>
               \/ ~shut /\ instance' = c /\ draining' = 1 /\ UNCHANGED freed
    BY <1>5 DEF Dav1d!Created, Dav1d!AtRest
  <2>2. ContextsApart' /\ c # 0
    <3>1. c # 0 /\ c # instance /\ c \notin freed /\ c \in 1..creates
      BY <2>1 DEF Dav1dInv, ContextsApart
    <3>2. CASE shut
      BY <2>1, <3>1, <3>2 DEF Dav1dInv, ContextsApart
    <3>3. CASE ~shut
      <4>1. instance' = c /\ freed' = freed /\ creates' = creates /\ creating' = creating \ {c}
        BY <2>1, <3>3
      <4> QED
        BY <3>1, <4>1 DEF Dav1dInv, ContextsApart
    <3> QED
      BY <3>1, <3>2, <3>3
  <2>3. DrainTypes'
    BY <1>0, <2>1 DEF Dav1dInv, DrainTypes
  <2>4. HeldInOrder'
    <3>1. CASE shut
      BY <2>1, <3>1 DEF HeldInOrder
    <3>2. CASE ~shut
      <4>1. instance' # 0 /\ draining' = 1 /\ queued' + draining' = Len(buffered') + 1
        BY <2>1, <2>2, <3>2 DEF Dav1dInv, HeldInOrder, DrainTypes
      <4>2. \A k \in DOMAIN buffered : draining <= k
        BY <2>1 DEF Dav1dInv, DrainTypes
      <4> QED
        BY <1>0, <2>1, <3>2, <4>1, <4>2 DEF Dav1dInv, HeldInOrder
    <3> QED
      BY <3>1, <3>2
  <2> QED
    BY <1>1, <2>2, <2>3, <2>4 DEF Dav1dInv
<1>6. CASE Dav1d!CreateFails
  <2>1. /\ draining' = draining /\ UNCHANGED <<creates, submitted>>
        /\ creating' \subseteq creating /\ UNCHANGED <<instance, freed, buffered>>
        /\ \/ UNCHANGED <<queued, shut>>
           \/ queued' = 0 /\ shut' = TRUE
    BY <1>6 DEF Dav1d!CreateFails, Dav1d!Fail
  <2>2. ContextsApart' /\ DrainTypes'
    BY <1>0, <2>1 DEF Dav1dInv, ContextsApart, DrainTypes
  <2>3. HeldInOrder'
    BY <1>0, <2>1 DEF Dav1dInv, HeldInOrder
  <2> QED
    BY <1>1, <2>2, <2>3 DEF Dav1dInv
<1>7. CASE Dav1d!DrainEnds
  <2>1. /\ draining # 0 /\ draining' = 0 /\ (shut \/ draining > Len(buffered))
        /\ UNCHANGED <<instance, creates, creating, freed, queued, shut, submitted>>
        /\ shut => buffered' = buffered
        /\ ~shut => buffered' = <<>>
    BY <1>7 DEF Dav1d!DrainEnds, Dav1d!AtRest, Dav1d!contextVars
  <2>2. ContextsApart'
    BY <2>1 DEF Dav1dInv, ContextsApart
  <2>3. buffered' \in Seq(Nat)
    BY <2>1, NoNumbers, Zenon DEF Dav1dInv, DrainTypes
  <2>4. DrainTypes'
    BY <1>0, <2>1, <2>3 DEF Dav1dInv, DrainTypes
  <2>5. ~shut => queued = 0
    BY <2>1 DEF Dav1dInv, DrainTypes, HeldInOrder
  <2>6. HeldInOrder'
    BY <1>0, <2>1, <2>5 DEF Dav1dInv, HeldInOrder
  <2> QED
    BY <1>1, <2>2, <2>4, <2>6 DEF Dav1dInv
<1>8. CASE UNCHANGED Dav1d!vars
  <2>1. UNCHANGED <<instance, creates, creating, freed, buffered, draining, queued, shut,
                    submitted>>
    BY <1>8 DEF Dav1d!vars, Dav1d!contextVars
  <2> QED
    BY <1>0, <1>1, <2>1 DEF Dav1dInv, ContextsApart, DrainTypes, HeldInOrder
<1> QED
  BY <1>2, <1>3, <1>4, <1>5, <1>6, <1>7, <1>8

\* DecodesSafely: whatever creations are in flight, and wherever close() comes, each
\* chunk is decoded at most once and in order, by an open decoder, in a context that
\* was not freed; and queueSize counts the chunks that wait.
THEOREM Dav1dDecodesSafely == Dav1d!Spec => DecodesSafely
<1>1. Dav1dInv /\ [Dav1d!Next]_(Dav1d!vars) => Dav1dInv' /\ DecodedSafely
  BY DecodeSafe, DrainSafe, OtherDav1dSteps DEF Dav1d!Next, Dav1d!Settle, Dav1d!Drain
<1>2. Dav1dInv' => (Dav1d!AtRest' /\ ~shut' => queued' = Len(buffered'))
  BY DEF Dav1dInv, HeldInOrder, Dav1d!AtRest
<1>3. Dav1dInv /\ [Dav1d!Next]_(Dav1d!vars) =>
          [ /\ Len(decodes') > Len(decodes) =>
                   LET new == decodes'[Len(decodes')]
                   IN  /\ ~shut /\ new.context \notin freed
                       /\ \A i \in DOMAIN decodes : decodes[i].chunk < new.chunk
            /\ Dav1d!AtRest' /\ ~shut' => queued' = Len(buffered') ]_(Dav1d!vars)
  BY <1>1, <1>2, Zenon DEF DecodedSafely
<1> QED
  BY <1>1, <1>3, Dav1dInit, PTL DEF Dav1d!Spec, DecodesSafely, Dav1d!DecodesSafely

-----------------------------------------------------------------------------
(* HevcSoftDecoder.                                                          *)

Pushing == call = "beforePush" \/ call = "push"

\* The parameter sets that count as pushed are in libde265, or in the chunk on
\* its way there; a decoder that failed takes no other chunk.
ParamsKnown ==
    /\ deleted => hevcClosed
    /\ Pushing /\ parameterSets => leading \/ nativeParams
    /\ ~hevcClosed /\ ~Pushing /\ parameterSets /\ paramsPushed => nativeParams

\* queueSize, with the chunk on its way.
Counted ==
    /\ waiting \in Nat /\ native \in Nat /\ lost \in Nat
    /\ ~hevcClosed /\ ~Pushing => waiting = native + lost
    /\ ~hevcClosed /\ Pushing => waiting = native + lost + 1

LEMMA CallNames ==
    /\ "none" # "beforePush" /\ "none" # "push" /\ "afterPush" # "beforePush"
    /\ "afterPush" # "push" /\ "flush" # "beforePush" /\ "flush" # "push"
    /\ "push" # "none"
OBVIOUS

LEMMA ParamsStep ==
    ASSUME ParamsKnown, [Hevc!Next]_(Hevc!vars)
    PROVE  ParamsKnown'
<1> USE CallNames
<1>1. CASE Hevc!Configure
  <2>1. /\ call' = "none" /\ deleted' = deleted
        /\ hevcClosed' = TRUE \/ (hevcClosed' = hevcClosed /\ paramsPushed' = FALSE)
    BY <1>1, Zenon DEF Hevc!Configure, Hevc!AtRest, Hevc!Fail, Hevc!NoFailure
  <2> QED
    BY <2>1, Zenon DEF ParamsKnown, Pushing
<1>2. CASE Hevc!Decode
  BY <1>2, Zenon DEF Hevc!Decode, Hevc!AtRest, Hevc!Fail, ParamsKnown, Pushing
<1>3. CASE Hevc!Push
  BY <1>3, Zenon DEF Hevc!Push, Hevc!Fail, Hevc!NoFailure, ParamsKnown, Pushing
<1>4. CASE Hevc!Flush
  BY <1>4, Zenon DEF Hevc!Flush, Hevc!AtRest, Hevc!Fail, Hevc!NoFailure, ParamsKnown, Pushing
<1>5. CASE Hevc!Picture
  <2>1. /\ UNCHANGED <<parameterSets, paramsPushed, leading, nativeParams>>
        /\ \/ call' = call /\ hevcClosed' = hevcClosed /\ deleted' = deleted
           \/ call' = call /\ hevcClosed' = TRUE /\ deleted' = deleted
           \/ call' = "none" /\ hevcClosed' = TRUE
    BY <1>5, Zenon DEF Hevc!Picture, Hevc!Fail
  <2>2. CASE call' = call /\ hevcClosed' = hevcClosed /\ deleted' = deleted
    BY <2>1, <2>2, Zenon DEF ParamsKnown, Pushing
  <2>3. CASE call' = call /\ hevcClosed' = TRUE /\ deleted' = deleted
    BY <2>1, <2>3, Zenon DEF ParamsKnown, Pushing
  <2>4. CASE call' = "none" /\ hevcClosed' = TRUE
    BY <2>4, Zenon DEF ParamsKnown, Pushing
  <2> QED
    BY <2>1, <2>2, <2>3, <2>4, Zenon
<1>6. CASE Hevc!NoPicture
  BY <1>6, Zenon DEF Hevc!NoPicture, ParamsKnown, Pushing
<1>7. CASE Hevc!DrainEnds
  <2>1. /\ UNCHANGED <<parameterSets, paramsPushed, leading, nativeParams, deleted>>
        /\ hevcClosed => hevcClosed'
        /\ \/ call = "beforePush" /\ call' = "push"
           \/ ~Pushing /\ call' = "none"
    BY <1>7 DEF Hevc!DrainEnds, Hevc!Fail, Hevc!NoFailure, Hevc!Draining, Pushing
  <2>2. deleted' => hevcClosed'
    BY <2>1, Zenon DEF ParamsKnown
  <2>3. CASE call = "beforePush" /\ call' = "push"
    BY <2>1, <2>2, <2>3, Zenon DEF ParamsKnown, Pushing
  <2>4. CASE ~Pushing /\ call' = "none"
    <3>1. ~Pushing' /\ (~hevcClosed' => ~hevcClosed)
      BY <2>1, <2>4, Zenon DEF Pushing
    <3> QED
      BY <2>1, <2>2, <2>4, <3>1, Zenon DEF ParamsKnown
  <2> QED
    BY <2>1, <2>3, <2>4, Zenon
<1>8. CASE Hevc!Reset
  BY <1>8, Zenon DEF Hevc!Reset, Hevc!AtRest, ParamsKnown, Pushing
<1>9. CASE Hevc!Close
  BY <1>9, Zenon DEF Hevc!Close, Hevc!AtRest, ParamsKnown, Pushing
<1>10. CASE UNCHANGED Hevc!vars
  BY <1>10, Zenon DEF Hevc!vars, ParamsKnown, Pushing
<1> QED
  BY <1>1, <1>2, <1>3, <1>4, <1>5, <1>6, <1>7, <1>8, <1>9, <1>10, Zenon DEF Hevc!Next

LEMMA CountedStep ==
    ASSUME Counted, ParamsKnown, [Hevc!Next]_(Hevc!vars)
    PROVE  Counted'
<1>1. CASE Hevc!Configure
  BY <1>1 DEF Hevc!Configure, Hevc!AtRest, Hevc!Fail, Hevc!NoFailure, Counted, Pushing
<1>2. CASE Hevc!Decode
  BY <1>2 DEF Hevc!Decode, Hevc!AtRest, Hevc!Fail, Counted, Pushing
<1>3. CASE Hevc!Push
  BY <1>3 DEF Hevc!Push, Hevc!Fail, Hevc!NoFailure, Counted, Pushing
<1>4. CASE Hevc!Flush
  BY <1>4 DEF Hevc!Flush, Hevc!AtRest, Hevc!Fail, Hevc!NoFailure, Counted, Pushing
<1>5. CASE Hevc!Picture
  BY <1>5 DEF Hevc!Picture, Hevc!Fail, Hevc!Decremented, Counted, Pushing
<1>6. CASE Hevc!NoPicture
  BY <1>6 DEF Hevc!NoPicture, Counted, Pushing
<1>7. CASE Hevc!DrainEnds
  BY <1>7 DEF Hevc!DrainEnds, Hevc!Fail, Hevc!NoFailure, Hevc!Draining, Counted, Pushing
<1>8. CASE Hevc!Reset
  BY <1>8 DEF Hevc!Reset, Hevc!AtRest, Counted, ParamsKnown, Pushing
<1>9. CASE Hevc!Close
  BY <1>9 DEF Hevc!Close, Hevc!AtRest, Counted, Pushing
<1>10. CASE UNCHANGED Hevc!vars
  BY <1>10 DEF Hevc!vars, Counted, Pushing
<1> QED
  BY <1>1, <1>2, <1>3, <1>4, <1>5, <1>6, <1>7, <1>8, <1>9, <1>10, Zenon DEF Hevc!Next

\* Only pushData() adds to what libde265 holds.
LEMMA PushedWithParams ==
    ASSUME Counted, ParamsKnown, [Hevc!Next]_(Hevc!vars), native' > native, parameterSets
    PROVE  nativeParams'
<1>1. Hevc!Push
  <2>1. native \in Nat
    BY DEF Counted
  <2>2. ~(native' = native \/ native' = native - 1 \/ native' = 0)
    BY <2>1
  <2>3. ~Hevc!Configure /\ ~Hevc!Decode /\ ~Hevc!Flush /\ ~Hevc!DrainEnds /\ ~Hevc!Close
        /\ ~UNCHANGED Hevc!vars
    BY <2>2, Zenon DEF Hevc!vars, Hevc!Configure, Hevc!Decode, Hevc!Flush, Hevc!DrainEnds, Hevc!Close
  <2>4. ~Hevc!Picture /\ ~Hevc!NoPicture /\ ~Hevc!Reset
    BY <2>2 DEF Hevc!Picture, Hevc!NoPicture, Hevc!Reset
  <2> QED
    BY <2>3, <2>4, Zenon DEF Hevc!Next
<1>2. nativeParams' = (nativeParams \/ leading) /\ call = "push"
  BY <1>1 DEF Hevc!Push, Counted
<1> QED
  BY <1>2, Zenon DEF ParamsKnown, Pushing

\* SlicesHaveParameters: no access unit reaches libde265 without the parameter sets
\* of its configuration, and queueSize counts what libde265 holds and what never
\* came out of it.
THEOREM HevcSlicesHaveParameters == Hevc!Spec => SlicesHaveParameters
<1>1. Hevc!Init => ParamsKnown
  BY CallNames, Zenon DEF Hevc!Init, ParamsKnown, Pushing
<1>2. Hevc!Init => Counted
  BY DEF Hevc!Init, Counted, Pushing
<1>3. Counted' => (Hevc!AtRest' /\ ~hevcClosed' => waiting' = native' + lost')
  BY DEF Counted, Pushing, Hevc!AtRest
<1>4. Counted /\ ParamsKnown /\ [Hevc!Next]_(Hevc!vars) =>
          [ /\ native' > native /\ parameterSets => nativeParams'
            /\ Hevc!AtRest' /\ ~hevcClosed' => waiting' = native' + lost' ]_(Hevc!vars)
  BY <1>3, CountedStep, PushedWithParams, Zenon
<1> QED
  BY <1>1, <1>2, <1>4, ParamsStep, CountedStep, PTL
     DEF Hevc!Spec, SlicesHaveParameters, Hevc!SlicesHaveParameters

-----------------------------------------------------------------------------
(* A behaviour of MCDecoding is one of each component, of one that never      *)
(* moves unless it is the subject.                                           *)

LEMMA VariablesApart ==
    /\ UNCHANGED dav1dVars => UNCHANGED Dav1d!vars
    /\ UNCHANGED hevcVars => UNCHANGED Hevc!vars
    /\ UNCHANGED audioVars => UNCHANGED Audio!vars
BY DEF dav1dVars, hevcVars, audioVars, Dav1d!vars, Dav1d!contextVars, Hevc!vars, Audio!vars,
       Audio!scheduleVars

\* The specification that is model-checked implies those the theorems are about,
\* so that what they say of the decoders holds in it.
THEOREM DecodersOfRun == MCSpec => Spec /\ Dav1d!Spec /\ Hevc!Spec /\ Audio!Spec
<1>1. MCInit => Init /\ Dav1d!Init /\ Hevc!Init /\ Audio!Init
  BY DEF MCInit
<1>2. [MCNext]_allVars =>
          /\ [Next]_vars /\ [Dav1d!Next]_(Dav1d!vars) /\ [Hevc!Next]_(Hevc!vars)
          /\ [Audio!Next]_(Audio!vars)
  <2>1. UNCHANGED allVars =>
            UNCHANGED vars /\ UNCHANGED dav1dVars /\ UNCHANGED hevcVars /\ UNCHANGED audioVars
    BY DEF allVars
  <2> QED
    BY <2>1, VariablesApart DEF MCNext
<1> QED
  BY <1>1, <1>2, PTL DEF MCSpec, Spec, Dav1d!Spec, Hevc!Spec, Audio!Spec
=============================================================================
