---------------------------- MODULE CodecRouting ----------------------------
(***************************************************************************)
(* CodecRoutingDecoder (packages/core/src/decoder-chain.ts) over the        *)
(* VideoDecoderWrapper (decoder.ts) or soft decoder it chooses.             *)
(*                                                                          *)
(* configure() asks the browser whether the codec is supported; the answer  *)
(* is a promise, so decode(), reset(), close() and further configure() calls*)
(* come between the question and the answer, and two questions may be       *)
(* answered in any order.  The errors an implementation reports while it is *)
(* being activated reach the engine synchronously, whose listeners may      *)
(* close() the decoder before the activation goes on.                       *)
(***************************************************************************)
EXTENDS Naturals, Sequences, SequencesExt, FiniteSets

CONSTANTS
    MaxConfigs,     \* bound on configure() calls, one configuration each
    MaxChunks,      \* bound on decode() calls
    HighWater,      \* DECODER_HIGH_WATER, the scheduler's limit on queueSize
    HasProbe,       \* TRUE: the browser has VideoDecoder.isConfigSupported
    ForceSoft,      \* TRUE: options.forceSoft with a soft factory
    ErrorCloses     \* TRUE: an error listener may destroy the player

ASSUME RoutingAssumption ==
    /\ MaxConfigs \in Nat
    /\ MaxChunks \in Nat
    /\ HighWater \in Nat \ {0}
    /\ HasProbe \in BOOLEAN
    /\ ForceSoft \in BOOLEAN
    /\ ErrorCloses \in BOOLEAN

VARIABLES
    routing,     \* state: idle, probing, ready, failed, closed
    impl,        \* the implementation in use, by number; 0 for null
    impls,       \* the implementations built so far, in order
    pending,     \* chunks held until an implementation is configured
    probes,      \* configurations whose isConfigSupported() is in flight
    configs,     \* configure() calls so far; the newest configuration's number
    chunks,      \* the configuration each decode() call's chunk belongs to
    forwarded,   \* history: <<chunk, configuration it was decoded with>>
    output,      \* history: chunks whose frames reached the scheduler
    errors,      \* number of errors surfaced, counted up to 1
    wasClosed    \* history: close() was called

vars == <<routing, impl, impls, pending, probes, configs, chunks, forwarded,
          output, errors, wasClosed>>

\* An implementation: the configuration it was given, its state and its queue.
\* "broken" is a native decoder that refuses chunks: its configure() threw, it
\* failed later, or it was reset.
ImplStates == {"open", "broken", "closed"}
Impl == [config : 1..MaxConfigs, state : ImplStates, queue : Seq(1..MaxChunks)]

Init ==
    /\ routing = "idle"
    /\ impl = 0
    /\ impls = <<>>
    /\ pending = <<>>
    /\ probes = {}
    /\ configs = 0
    /\ chunks = <<>>
    /\ forwarded = <<>>
    /\ output = <<>>
    /\ errors = 0
    /\ wasClosed = FALSE

-----------------------------------------------------------------------------
\* Mutant of Activated: the held chunks are not forgotten.
ActivatedTwice(config) ==
    /\ impls' = Append(impls, [config |-> config, state |-> "open", queue |-> pending])
    /\ impl' = Len(impls')
    /\ forwarded' = forwarded \o [i \in DOMAIN pending |-> <<pending[i], config>>]
    /\ routing' = "ready"
    /\ UNCHANGED <<pending, errors, wasClosed>>

\* activateImpl(): a fresh implementation is bound, configured and given the
\* chunks that were held.
Activated(config) ==
    /\ impls' = Append(impls, [config |-> config, state |-> "open", queue |-> pending])
    /\ impl' = Len(impls')
    /\ forwarded' = forwarded \o [i \in DOMAIN pending |-> <<pending[i], config>>]
    /\ pending' = <<>>
    /\ routing' = "ready"
    /\ UNCHANGED <<errors, wasClosed>>

\* Its configure() fails: the error is surfaced, and so is one for every held
\* chunk, which the implementation refuses.
ActivatedBroken(config) ==
    /\ impls' = Append(impls, [config |-> config, state |-> "broken", queue |-> <<>>])
    /\ impl' = Len(impls')
    /\ pending' = <<>>
    /\ errors' = 1
    /\ routing' = "ready"
    /\ UNCHANGED <<forwarded, wasClosed>>

\* The listener of that error destroys the player: close() runs inside
\* impl.configure(), and activateImpl() goes on after it.
ActivatedAndClosed(config) ==
    /\ ErrorCloses
    /\ impls' = Append(impls, [config |-> config, state |-> "closed", queue |-> <<>>])
    /\ impl' = 0
    /\ pending' = <<>>
    /\ errors' = 1
    /\ wasClosed' = TRUE
    /\ routing' = "ready"
    /\ UNCHANGED forwarded

Activate(config) ==
    Activated(config) \/ ActivatedBroken(config) \/ ActivatedAndClosed(config)

\* Mutant of Fail: the held chunks are kept.
FailHolds ==
    /\ routing' = "failed"
    /\ errors' = 1
    /\ UNCHANGED <<impl, impls, pending, forwarded, wasClosed>>

\* fail(): nothing can decode this codec.
Fail ==
    /\ routing' = "failed"
    /\ pending' = <<>>
    /\ errors' = 1
    /\ UNCHANGED <<impl, impls, forwarded, wasClosed>>

-----------------------------------------------------------------------------
(* Calls from the engine and the scheduler.                                 *)

\* configure() of a codec the forced soft decoder supports, or in a browser
\* without the probe.
ConfigureNow ==
    /\ ForceSoft \/ ~HasProbe
    /\ routing # "closed"
    /\ configs < MaxConfigs
    /\ configs' = configs + 1
    /\ Activate(configs')
    /\ UNCHANGED <<probes, chunks, output>>

\* configure() that has to ask the browser first.
ConfigureProbe ==
    /\ HasProbe
    /\ routing # "closed"
    /\ configs < MaxConfigs
    /\ configs' = configs + 1
    /\ probes' = probes \cup {configs'}
    /\ routing' = "probing"
    /\ UNCHANGED <<impl, impls, pending, chunks, forwarded, output, errors, wasClosed>>

\* Mutant of ProbeResolves: close() in the meantime goes unnoticed.
ProbeResolvesLate(config) ==
    /\ config \in probes
    /\ probes' = probes \ {config}
    /\ Activate(config) \/ Fail
    /\ UNCHANGED <<configs, chunks, output>>

\* The answer to one of the questions asked: the codec is supported, or the
\* soft factory supports it, or nobody does.
ProbeResolves(config) ==
    /\ config \in probes
    /\ probes' = probes \ {config}
    /\ \/ /\ routing = "closed"
          /\ UNCHANGED <<routing, impl, impls, pending, forwarded, errors, wasClosed>>
       \/ /\ routing # "closed"
          /\ Activate(config)
       \/ /\ routing # "closed"
          /\ Fail
    /\ UNCHANGED <<configs, chunks, output>>

QueueSize == (IF impl # 0 THEN Len(impls[impl].queue) ELSE Len(pending)) + 1

\* decode(), called by Scheduler.tick() under its high-water mark.
Decode ==
    /\ routing # "closed"
    /\ Len(chunks) < MaxChunks
    /\ QueueSize < HighWater
    /\ chunks' = Append(chunks, configs)
    /\ IF impl = 0
       THEN /\ pending' = Append(pending, Len(chunks'))
            /\ UNCHANGED <<impls, forwarded, errors>>
       ELSE /\ IF impls[impl].state = "open"
               THEN /\ impls' = [impls EXCEPT ![impl].queue = Append(@, Len(chunks'))]
                    /\ forwarded' = Append(forwarded, <<Len(chunks'), impls[impl].config>>)
                    /\ UNCHANGED errors
               ELSE /\ errors' = 1
                    /\ UNCHANGED <<impls, forwarded>>
            /\ UNCHANGED pending
    /\ UNCHANGED <<routing, impl, probes, configs, output, wasClosed>>

Reset ==
    /\ routing # "closed"
    /\ IF impl = 0
       THEN UNCHANGED impls
       ELSE \E after \in {impls[impl].state, "broken"} :
              impls' = [impls EXCEPT ![impl].state = after, ![impl].queue = <<>>]
    /\ pending' = <<>>
    /\ UNCHANGED <<routing, impl, probes, configs, chunks, forwarded, output, errors,
                   wasClosed>>

\* Mutant of Close: the implementation is dropped but not closed.
CloseLeaks ==
    /\ routing # "closed"
    /\ routing' = "closed"
    /\ wasClosed' = TRUE
    /\ impl' = 0
    /\ pending' = <<>>
    /\ UNCHANGED <<impls, probes, configs, chunks, forwarded, output, errors>>

Close ==
    /\ routing # "closed"
    /\ routing' = "closed"
    /\ wasClosed' = TRUE
    /\ impls' = IF impl = 0 THEN impls
                ELSE [impls EXCEPT ![impl].state = "closed", ![impl].queue = <<>>]
    /\ impl' = 0
    /\ pending' = <<>>
    /\ UNCHANGED <<probes, configs, chunks, forwarded, output, errors>>

-----------------------------------------------------------------------------
(* What an implementation does on its own; each one built stays bound to    *)
(* the router's callbacks.                                                  *)

ImplOutput(i) ==
    /\ impls[i].state = "open"
    /\ impls[i].queue # <<>>
    /\ output' = Append(output, Head(impls[i].queue))
    /\ impls' = [impls EXCEPT ![i].queue = Tail(@)]
    /\ UNCHANGED <<routing, impl, pending, probes, configs, chunks, forwarded, errors,
                   wasClosed>>

ImplFails(i) ==
    /\ impls[i].state = "open"
    /\ impls' = [impls EXCEPT ![i].state = "broken", ![i].queue = <<>>]
    /\ errors' = 1
    /\ UNCHANGED <<routing, impl, pending, probes, configs, chunks, forwarded, output,
                   wasClosed>>

Calls == ConfigureNow \/ ConfigureProbe \/ Decode \/ Reset \/ Close

Answers == \E c \in probes : ProbeResolves(c)

Backend == \E i \in DOMAIN impls : ImplOutput(i) \/ ImplFails(i)

Next == Calls \/ Answers \/ Backend

Spec == Init /\ [][Next]_vars

\* The browser answers every question, and an implementation works its queue.
FairSpec ==
    /\ Spec
    /\ WF_vars(Answers)
    /\ WF_vars(Backend)

-----------------------------------------------------------------------------
TypeOK ==
    /\ routing \in {"idle", "probing", "ready", "failed", "closed"}
    /\ impl \in 0..Len(impls)
    /\ impls \in Seq(Impl)
    /\ pending \in Seq(1..MaxChunks) /\ Len(pending) < HighWater
    /\ probes \subseteq 1..MaxConfigs
    /\ configs \in 0..MaxConfigs
    /\ chunks \in Seq(0..MaxConfigs)
    /\ forwarded \in Seq((1..MaxChunks) \X (1..MaxConfigs))
    /\ output \in Seq(1..MaxChunks)
    /\ errors \in 0..1
    /\ wasClosed \in BOOLEAN

Ascending(s) == \A i, j \in DOMAIN s : i < j => s[i] < s[j]

ForwardedChunks == [i \in DOMAIN forwarded |-> forwarded[i][1]]

\* Chunks reach implementations in the order decode() was called, across every
\* hand-over from the holding queue to an implementation, and none twice.
DecodedInOrder == Ascending(ForwardedChunks \o pending)

\* While the stream keeps its first configuration, at most the implementation in
\* use is open: neither close() during the probe or from an error listener nor a
\* late answer leaks a decoder.  (A second configure() leaks the first.)
NoDecoderLeak ==
    configs <= 1 => \A i \in DOMAIN impls : impls[i].state = "open" => i = impl

\* Once close() returned nothing reaches the scheduler any more, whatever answers
\* and frames are still on their way, of a stream with its first configuration.
SilentAfterClose == [][wasClosed /\ configs <= 1 => UNCHANGED output]_vars

\* Chunks held for an answer do not wait for ever: they are decoded or refused.
HeldIsReleased == pending # <<>> /\ probes # {} ~> pending = <<>>
=============================================================================
