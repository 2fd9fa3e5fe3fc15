# vigilkit in TLA+

TLA+ models of [vigilkit](../src/README.md), a WebCodecs-first, plugin-based web
video player: model-checked with TLC on small instances, with theorems checked by
TLAPS for every value of the constants. `PROJECT.json` is the machine-readable
index: runs, what each mutant breaks, which source lines a definition translates
(`map`), hazards, findings and theorems.

- [1. The system](#1-the-system)
- [2. The modules](#2-the-modules)
- [3. What is checked](#3-what-is-checked)
- [4. What is proved](#4-what-is-proved)
- [5. Where the code departs from what it says](#5-where-the-code-departs-from-what-it-says)
- [6. Plan](#6-plan)
- [7. Running the checks](#7-running-the-checks)

## 1. The system

Everything runs in one browser tab, on one JavaScript thread. There is no
parallelism; the difficulty is elsewhere:

* *tasks interleave*: timers, socket events, promise reactions, animation frames
  and user calls come in any order, and what a task read may be stale by the next;
* *listeners re-enter*: `Emitter.emit()` (`core/src/events.ts`) calls user code
  synchronously in the middle of a method, and that code may call `play()`,
  `pause()`, `destroy()`, `close()`... before the method goes on;
* *the network* delays, fails, closes early or stays silent;
* *clocks* change domain: the player's time is the wall clock or the media time
  of the audio, and timestamps wrap.

### Components

`src/packages/core/src` unless a package is named.

| Component | State | Operations | Talks to | Hard part | What makes it correct |
|---|---|---|---|---|---|
| **Pump** (`pump.ts`) | running, hidden, the driver in use, the handle of the callback it requested | `start`, `stop`, `destroy`, the tick, `visibilitychange` | calls `tick()`, which may call anything back; `requestAnimationFrame`, `setInterval` | calls from inside its own tick; two kinds of handles; a hidden tab runs no animation frames | a started pump always ticks, at the cadence of the tab, once per frame, and leaks no interval |
| **Engine** (`engine.ts`, `player.ts`, `transport-pipeline.ts`, `source-branch.ts`) | player state, the connection or source of the session, connect timer, pump, recorded error | `play`, `pause`, `destroy`; open, close, error, data, timeout; decoder output and errors; stall verdicts | everything below, and the user's listeners | re-entrancy at every `setState()`; a torn-down session's late events; restart from a listener | nothing of an ended session lives on; the pump runs iff the state says so; connecting ends; one error per session |
| **Decoder chain** (`decoder-chain.ts`, `decoder.ts`) | routing state, the implementation in use, held chunks, probes in flight | `configure`, `decode`, `reset`, `close`, the probe's answer, native errors | WebCodecs or a soft decoder; error listeners | `isConfigSupported()` is asynchronous: calls come between the question and the answer | chunks are forwarded once and in order; no decoder leaks; nothing after `close()` |
| **Jitter buffer** (`jitter-buffer.ts`) | the sorted chunks | `push`, `next`, `peek`, `clear` | the scheduler | binary search, stability, overflow | sorted, stable, drops only the oldest |
| **Stall monitor** (`qos.ts`) | episode, last data, last tick, accumulated rebuffer time | `noteData`, `onTick` | the scheduler | accounting across ticks, data and pauses | fatal once and only after silence; rebuffer time not overcounted |
| **Scheduler, clocks, drift** (`scheduler.ts`, `av-sync.ts`, `master-clock.ts`, `drift-corrector.ts`) | the buffer, the clock base, the decoder's queue, counters, drift window | `enqueue`, `tick`, `resync`, `observeDrift`, output | the two above, the audio clock | a base in one clock judged by another; wraps; backpressure; restarts | drops only what is late, stays near live, decodes in order, every chunk accounted for |
| **Audio** (`audio-pipeline.ts`, `audio-decoder.ts`, `audio-output.ts`) | decoder, context, media base, schedule position | config, chunk, decoded buffer, suspend, resume, destroy | master clock, AudioContext | autoplay policy, refusals, late buffers, listeners that destroy | buffers sound in order and not before they are due |
| **Plugin SDK** (`plugin-sdk/src`) | plugins by name | register, find; the interface `MediaSource` | the engine at each `play()` | what a source may do after `stop()` | the contract of a source |
| **WebSocket transport** (`plugins/ws`) | socket, attempts, backoff timer, closed flag | `connect`, `close`, socket events, timer | the engine's Transport contract | backoff against `close()`; a listener inside the final close | no socket escapes `close()`; the end is reported once |
| **HLS source** (`plugins/hls/src/hls-source.ts`) | playlist window, last segment, key cache, abort controller, reload timer | `start`, `stop`, reload, load segment, decrypt | fetch, WebCrypto, TS demuxer | `stop()` at every await; the sliding window | segments once and in order, none skipped; reloads never die; silence after stop |
| **Playlist parser** (`plugins/hls/src/m3u8`) | - | parse | the HLS source | - | agrees with RFC 8216 |
| **TS, PS and FLV demuxers** (`plugins/hls/src/ts`, `plugins/ps`, `plugins/flv`) | partial input, PES buffers, counters, parameter sets, timestamps | `push`, `flush`, `close` | sources and pipelines | arbitrary chunk boundaries, lost and repeated packets, wrapped timestamps | output independent of chunking; no frame with a hole; time never goes back |
| **PS source** (`plugins/ps/src/ps-source.ts`) | request or socket, reader | `start`, `stop`, read, message, Blob | fetch, WebSocket, PS demuxer | `stop()` at every await | everything released on stop |
| **WHEP source** (`plugins/whep`) | peer connection, resource URL, candidate queue, processors, encoded pipeline | `start`, `stop`, offer and answer, track, candidate, ICE state | fetch, RTCPeerConnection | `stop()` at every await; `ontrack` before the pipeline; candidates before the URL | everything released on stop; every candidate reaches the server |
| **MQTT client** (`plugins/mqtt/src/client.ts`) | connection state, socket, timers, waiters by packet id, ping flags | connect, publish, subscribe, unsubscribe, close; packets and socket events | a broker over one WebSocket, listeners | two-phase acknowledgements, id reuse, keep-alive, re-entrant close | a call resolves iff acknowledged and is never forgotten; a dead broker is noticed |
| **GB28181 session** (`plugins/gb28181/src/session.ts`) | dialog state, CSeq, challenge, media info | register, invite, bye, terminate, each response | a SIP server, over UDP perhaps | late, lost and repeated responses | client and server agree; the end is final |
| **Soft decoders** (`plugins/hevc-wasm`, `dav1d-wasm`) | native decoder or context, held chunks, pending count, closed flag | configure, decode, flush, reset, close, drain | WASM, the output listener | asynchronous creation; a listener that closes inside `drain()` | nothing freed decodes; slices follow their parameter sets |
| **Vendor helpers** (`plugins/hikvision`, `dahua`, `uniview`) | - | request with a 401 retry | fetch | - | at most one retry |
| **Renderers, media utilities, audio codecs** | GPU objects; none | draw; parse | - | fallbacks; bit-level boundaries | agrees with a reference definition |
| **Examples, e2e, docs** | - | - | - | - | read for how the library is used |

### How they interact

```
 user ── play/pause/destroy ──▶ Engine ──start/stop──▶ Pump ──tick──▶ Scheduler
   ▲                            │   ▲                                 │  │   │
   └──── events (synchronous) ──┘   │ open/data/error/close           │  │   └ StallMonitor
                                    │                                 │  └ JitterBuffer
               Transport + Demuxer ─┤ (TransportPipeline, timer)      ▼
               MediaSource ─────────┘ (SourceBranch)            Decoder chain ─▶ output ─▶ renderer
                                                                      ▲
                     Audio ── first frame: resync, master clock ──────┘
```

A transport is a WebSocket (`WsTransport`), its demuxer FLV. A source is HLS (over the
TS demuxer), PS (over the PS demuxer) or WHEP.

MQTT, GB28181 and the vendor helpers stand beside the player and are used by the
application directly.

## 2. The modules

| Module | Models | Composes |
|---|---|---|
| `Pump` | `pump.ts` | |
| `PlayerLifecycle` | abstract specification: what a Player promises its user | |
| `Engine` | `engine.ts`, `transport-pipeline.ts`, `source-branch.ts`, `events.ts` | `INSTANCE Pump`; implements `PlayerLifecycle` |
| `CodecRouting` | `decoder-chain.ts` over its implementations | |
| `Dav1dSoftDecoder`, `HevcSoftDecoder` | the classes of these names over their native decoders | |
| `AudioOutput` | `audio-pipeline.ts`, `audio-output.ts` | |
| `JitterBuffer` | `jitter-buffer.ts` | |
| `StallMonitor` | `qos.ts` | |
| `Scheduler` | `scheduler.ts`, `av-sync.ts`, `master-clock.ts`, `drift-corrector.ts` | `INSTANCE JitterBuffer`, `INSTANCE StallMonitor` |
| `MediaSource` | abstract specification: the interface of that name in `plugin-sdk/src/types.ts` | |
| `HlsSource` | `hls-source.ts` | implements `MediaSource` |
| `WhepSource` | `whep-source.ts`, `whep-encoded-pipeline.ts` | implements `MediaSource` |
| `PsSource` | `ps-source.ts` | implements `MediaSource` |
| `WsTransport` | `ws-transport.ts` | |
| `FlvDemuxer`, `PsDemuxer` | the scanners of `flv-demuxer.ts` and `ps-demuxer.ts` | |
| `TsDemuxer` | `ts-demuxer.ts`, `packet.ts` | |
| `Timestamps` | the timestamps of both MPEG demuxers | |
| `Gb28181Session` | `session.ts` with a SIP server | |
| `MqttClient` | `plugins/mqtt/src/client.ts` with a broker | |
| `PumpProofs`, `EngineProofs`, `HlsSourceProofs`, `MqttClientProofs` | theorems about the module they are named for | that module, TLAPS |
| `SchedulingProofs`, `DecodingProofs`, `DemuxerProofs`, `NetworkProofs` | theorems about the modules that `MCScheduling`, `MCDecoding` and `MCStreams` compose (`DemuxerProofs` and `NetworkProofs` share the last one) | the composing module, TLAPS |
| `MCPump`, `MCEngine`, `MCMqttClient` | instances for TLC | the module they are named for |
| `MCDecoding` | one of `CodecRouting`, `Dav1dSoftDecoder`, `HevcSoftDecoder`, `AudioOutput` | instances of the four |
| `MCScheduling` | `StallMonitor` with its own clock, or `Scheduler` in one of two settings | instances of both |
| `MCStreams` | one of the sources, the transport, the session, the demuxers, the timestamps | instances of the nine |

`MCDecoding`, `MCScheduling` and `MCStreams` check several modules that do not
interact in one run: the variable `subject` names, for good, the module that moves in
a behaviour, and the variables of the others stand still. Every property is then
that of one module (or, `SourcesKeepContract` and `HeldChunksAreReleased`, the
conjunction of the same one of several). The constants of the components are lifted
into these modules with their assumptions, so that the theorems are about the very
instances the runs check, for every value of the constants; the theorems named
`...OfRun` say that a behaviour of the run is one of each component.

Every module states `TypeOK`. It is not among the properties of the runs; it is proved
for `Pump`, `StallMonitor`, `CodecRouting` and `Timestamps`, and what the theorems need
of it is part of the inductive invariants of the other modules.

How state and actions correspond to the code:

* **Pump.** `frames` is what the browser will call back, `frameId` the handle the
  pump remembers, `current` the driver it believes in. `Fire` begins a tick and
  `TickReturn` (or `TickThrows`) ends it; between them, `inTick`, any method may be
  called. An animation frame fires only while `docHidden` is false; an interval
  always does. Handles come from `FrameIds` and are reused once they are free.
  `mayThrow`, chosen once, says whether ticks of this behaviour may throw.
* **Engine.** A method is cut at every emit. `stack` is the JavaScript call stack:
  the continuations that remain, innermost first; `"listener"` on top means user
  code is running. A new task starts only on an empty stack. Sessions are numbered,
  and `phase` remembers what each session's peer is doing, so an event of a dead
  session and a connection nobody tracks are visible (`NoOrphan`). A behaviour has one
  of the `Modes`: what `play()` sets up (a transport with a demuxer, or a source;
  either may be rejected), what the listeners may call (`mode.calls`), and whether
  sources may refuse inside their own `start()` (`mode.syncError`). The mode is
  *ordinary* if they do not and no listener pauses the player. A transport whose
  `connect()` throws (`SetupThrows`) is in the phase "refused": `play()` throws, the
  player stays "connecting" without a pump, and the connect timer ends it.
* **PlayerLifecycle** has only the reported state, the stream behind it (none,
  opening, live) and whether the player was destroyed. `Engine` maps its state onto
  it in the definition `ImplementsLifecycle`.
* **CodecRouting.** `probes` holds the questions in flight and any of them may be
  answered next. `impls` keeps every implementation ever built, open, broken or
  closed, so a leak is an open one that is not `impl`.
* **Dav1dSoftDecoder.** A context is known by the number of the `create()` that makes
  it; creations settle in any order, and `freed` are the contexts `unsafeCleanup()`
  destroyed. **HevcSoftDecoder.** `call` is the drain loop that runs, one picture a
  step; `native` and `nativeParams` are what libde265 has got. In both a listener may
  close the decoder between any two pictures.
* **AudioOutput.** Time is cut into fractions of `SCHEDULE_AHEAD_MS`; `scheduled` is
  what was started in the AudioContext, and when.
* **JitterBuffer.** The binary search is a recursive function over intervals of
  positions, as in the code. `clear()`, which nothing calls, is left out.
* **StallMonitor.** `clock` is the reading of its clock. In its own specification it
  only goes forward; in `Scheduler` it is the master clock, which jumps. Data may
  arrive at any reading; the pump ticks at most once per reading, its period being
  far longer than the clock's resolution.
* **Scheduler.** Real time is `clock`, the wall clock is `WallOrigin` ahead of it,
  and `Now` is the master clock. A chunk carries its real capture time, `sent`, so
  that "late" can be judged independently of the player's clocks. `Wrap` is the
  modulus of timestamps. The decoder is a queue; rendering is left out. Output,
  `'frame'` listener and drift observation are one action, as in the code.
* **HlsSource, WhepSource, PsSource.** One action per piece of code between two awaits;
  `awaiting` (`loop`) is the promise that the chain waits for. `stop()` may come
  between any two steps, or from a listener inside one that dispatches. An abort
  rejects the request in flight, and the handler of the rejection runs later.
  `lateDeliveries` counts the pieces of media, a segment or a chunk with its events,
  however many, or an error, that were dispatched after `stop()`. In `HlsSource` a segment
  is its media sequence number and a playlist the interval it lists; the server may answer
  any. In `WhepSource` a trickled candidate is `sent`, or `lost` when the network rejects
  its PATCH. Each maps its state to `MediaSource` in the definition `ImplementsSource`.
* **WsTransport.** Every socket has a number and a `phase`; its events come when the
  network pleases. The listener of the final `close` event runs inside `finalClose()`
  and may call `connect()` or `close()`. `thrown` remembers that the constructor of a
  socket threw, which ends a transport before it made all its attempts.
* **Gb28181Session.** A response is handled any number of times at any time after its
  request, for the session does not look at the number in CSeq. The server keeps
  what it answered to each INVITE and which media it sends.
* **FlvDemuxer, PsDemuxer.** A byte is its position in the stream; `first` and `cursor`
  are the positions where the buffer begins and the scanner stands. What a packet
  holds is a kind. Bytes read anywhere but at the beginning of a tag mean anything. In
  `FlvDemuxer` a tag that cannot be read sets `failed`, which the next `push()` looks at
  and the loop over the tags of the chunk does not. In `PsDemuxer` a "decoy" is a payload
  that ends like a start code: it completes one with the bytes behind it if the tail that
  `retainTail(3)` keeps, wherever the cursor is, reaches into it. `hevc` is what the video
  is, `codec` what the demuxer takes it for, `stored` the parameter sets it keeps.
* **TsDemuxer.** A packet is its number in its stream; packets are lost and repeated,
  and what comes out is kept per stream; `masked` remembers a loss that the counter,
  which comes round, does not show.
  **Timestamps.** The clock of the stream moves by any of `Jumps` from packet to packet
  and is stamped modulo `Modulus`, or not at all.
* **MqttClient.** `job` and `frame` are what the running job still has to do while
  listeners run. `pending` maps a packet id to its waiter and its timer. A call is "thrown" when the
  exception of a packet builder rejected it and left its waiter in `pending`
  (`BuildThrows`).
  `owed` is what the broker may still send; `owed = {}` once it died or the socket
  ended. `traffic` is the age of the last traffic as `onPingTick()` compares it:
  an age of about one interval may be read on either side. An `"aborting"` socket
  is one closed before it opened: browsers fire `error` before `close` for it.
  The library code below a WebSocket and the broker are external.

## 3. What is checked

Twelve runs: six that must pass, with 40 properties between them, and six that must
find a violation (section 5). Every property of a passing run has a mutant, a
plausible bug in one definition, that TLC finds under the same configuration.

| Run | Question | Properties |
|---|---|---|
| `PumpAll` | Can any order of calls, ticks and tab switches, inside ticks too, kill or misdrive the pump? | `PumpAlive`, `CadenceFollowsTab`, `KeepsTicking` |
| `Engine` | Do listeners that call `play()` and `pause()` in every emit, and sources that refuse in their own `start()`, leave anything of an ended session behind? Do state, session and pump agree, does connecting end, is the lifecycle kept? | `NoOrphan`, `OneErrorPerSession`, `PumpMatchesState`, `ConnectingEnds`, `ImplementsLifecycle` |
| `Decoding` | Around probes, creations and listeners that call back: are chunks lost, doubled or reordered, does a decoder leak, does anything freed decode, do buffers sound in order? | `DecodedInOrder`, `NoDecoderLeak`, `SilentAfterClose`, `HeldChunksAreReleased` (routing, AV1), `DecodesSafely` (AV1), `SlicesHaveParameters` (HEVC), `SoundsInOrder` (audio) |
| `Scheduling` | Are verdicts and rebuffer time honest? What is dropped, how far behind live is what is decoded, and what do a starting, suspended or resumed audio and a restarted session change? | `RebufferHonest`, `FatalIsEarned` (monitor), `FramesAccountedOrOverflowed`, `StaysNearLive`, `DecodesInOrder`, `RebasedDropsOnlyLate` |
| `Streams` | With `stop()` at every await, lost packets and late answers: is what comes in played once, in order and whole, is everything released, is every end reported? | `PlaysInOrderOnce`, `SkipsOnlyPruned`, `KeepsReloading` (HLS), `CandidatesReachServer` (WHEP), `SourcesKeepContract` (HLS, WHEP, PS), `NoStraySocket`, `EndReportedOnce` (WebSocket), `DialogsAgree`, `EndIsFinal` (GB28181), `TagsParsedOnce` (FLV), `FramesOnce` (PS), `FramesHaveNoHoles` (TS), `UnwrapsExactly`, `NeverBack` (timestamps) |
| `MqttAll` | With every order of socket events, packets, timers and re-entrant calls: are calls settled truthfully, and is the connection given up when, and only when, it is dead? | `ResolvedMeansAcked`, `CloseReportedOnce`, `NoCallForgotten`, `GivesUpOnSilence`, `DeadPeerNoticed` |
| `EngineSyncError` | violation of `ActiveMeansLive` | section 5 |
| `SchedulerAudioLost` | violation of `DropsOnlyLate` | section 5 |
| `FlvChunking` | violation of `TagEmittedOnce` | section 5 |
| `WhepEncoded` | violation of `EncodedTracksWired` | section 5 |
| `HlsLateEvents` | violation of `NoEventsAfterStop` | section 5 |
| `MqttConnect` | violation of `ConnectSettles` | section 5 |

Two properties are refinements. `ImplementsLifecycle` says that the engine does what
`PlayerLifecycle` promises; `SourcesKeepContract` that the HLS, the WHEP and the PS source
each implement `MediaSource`: started at most once, everything released some time
after `stop()`, and after it at most the media at hand delivered: one segment or chunk,
whatever the number of its events, or one error. That is less than the "no events after
stop" of `types.ts:85`, which the sources do not keep (section 5).

### Bounds, and why they are enough

* `PumpAll` (778 states): `start()` is not called while `MaxFrames = 2` callbacks are
  outstanding, enough for a doubled chain; the state space is otherwise complete,
  with no bound on the number of calls. Both kinds of driver, both visibilities, with
  and without listening.
* `Engine` (448,869 states): `MaxSessions = 3`, so a session can fail, be replaced from
  a listener, and be replaced again while the first one's events are still to come.
  `MaxStack = 9` allows two nested emits inside a tick; a listener that would go
  deeper is not called. Each way `play()` can be set up is checked with listeners
  that restart the player and sources that behave, and with listeners that also pause
  it and sources that refuse at once.
* `Decoding`: two configurations (a change of stream) and three chunks: one held, one
  forwarded, one after; `HighWater = 3` is reached. AV1: three creations, so a context
  is created, replaced and replaced again. HEVC: two configurations, three access
  units. Audio: three buffers, shorter than, as long as and longer than
  `SCHEDULE_AHEAD_MS`, in five units of half of it, the fifth one later than all of
  them may still be scheduled.
* `Scheduling` (2.45 million states): the monitor with thresholds 1 and 2 over eight
  readings: two whole episodes, the first fatal; the theorems of section 4 lift this to
  every threshold. The scheduler on the wall clock with four chunks, five units of
  time, budget, delay and high-water mark 1, capacity 2: late runs of several chunks,
  full queues, overflow, an episode with a fatal verdict. With the audio: three chunks
  and three units with one start, suspension, resumption or restart, origins on both
  sides of the wall clock.
* `Streams`: HLS segments 0 to 3, playlists of up to three, a window of two, two
  encrypted segments that share a key, so that pruning overtakes the player and a
  key is found in the cache. WHEP: two tracks and three candidates, before, during and
  after the answer. PS: two Blobs whose conversions overtake each other. WebSocket:
  attempts limited to 0 and 2, four sockets, so that the limit is passed and a
  listener reconnects after the end. GB28181: two requests per method, each answered
  late, repeatedly or never. FLV and PS: two tags or three packets over a stream cut
  everywhere, headers of two and three bytes, so that each can be cut inside. TS: four
  packets of each of two streams, frames of two, counters modulo 3, losses of up to three
  packets, so that a loss of a whole turn of the counter, and one that looks like a
  repeated packet, are met. Timestamps: five
  packets modulo 8, jumps of less than half of it.
* `MqttAll` (1.2 million states): two packet ids and three calls, so that ids come round
  while others are pending and while late answers are under way; frames of one or two
  packets, one PUBLISH; QoS 0, 1 and 2 (subscriptions share the waiter and the code of
  QoS 1), each with a packet that can be built and one that cannot. A call made when the client is not connected throws and is left out.

### Fairness

Only what the runtime guarantees is assumed fair; user calls, network events and
listeners' choices never are.

* A job that started goes on to its end: weak fairness of continuations (`Engine`'s
  `ListenerReturns`, `StartPieces`, `Draw`, `TickDecodes`, `TickHealthy`,
  `TickEnds`; `Pump`'s `TickReturn`; `MqttClient`'s `Continue`). User code returns.
* A callback that is due is run: the animation frame in a visible tab, an interval
  in any tab (`Pump`); the keep-alive interval and the connect timer (`MqttClient`);
  the reload timer (`HlsSource`).
* `SF_vars(ConnectTimeout)` in `Engine`: the timer is a task of its own and is not
  enabled while another job runs, but a due timer cannot be passed over for ever.
* In `CodecRouting` a support probe is answered and an implementation works off its
  queue; in `Dav1dSoftDecoder` a creation settles and what is drained comes to its end
  (`Settle`, `Drain`). Both are promises of the browser.
* In the sources a promise that is awaited settles (`Answered`, `Settled`, `Continue`,
  `BlobConverted`, `Trickled`): a request is answered, fails, or is aborted.
  The processors of a peer connection that was closed come to their end
  (`TrackEnds`). Nothing is assumed about *what* the server answers.
* A socket that is closing ends up closed: browsers time the closing handshake out.

`DeadPeerNoticed` is stated for a bounded number of calls, and that matters:
`lastTrafficMs` is renewed by what the client *sends* as well (`client.ts`,
`sendRaw()`), so an application that goes on publishing with QoS 0 more often than
the ping interval keeps `onPingTick()` from ever pinging a dead broker.

## 4. What is proved

TLAPS checks every obligation; nothing is assumed beyond the named assumptions on
the constants, which TLC also evaluates (`PumpAssumption`, `EngineAssumption`,
`StallAssumption`, `HlsAssumption`, `MqttAssumption`, `DecodingAssumption`,
`SchedulingAssumption`, `StreamsAssumption`), and the hypotheses some theorems state.
The constants of the runs satisfy all of them:

* `NoneDestroys`, in `EngineProofs`: no listener destroys the player (section 5 shows
  why); ordinary modes where the property says so.
* `ShortJumps`, in `DemuxerProofs`: the clock of a stream moves by less than half the
  modulus from one packet to the next. A longer jump cannot be told from a wrap.
* `NoWrap`, in `SchedulingProofs`: no timestamp wraps during the session. The buffer sorts
  a wrapped one in front (section 5).
* `ShortSession`, there too: a session takes less than half the modulus, for
  `av-sync.ts` takes a longer time for one backwards.

| Theorem | For every | Says |
|---|---|---|
| `PumpProofs!TypeCorrect` | set of handles | `TypeOK` is invariant |
| `PumpProofs!IntervalsTracked` | " | an interval that is outstanding is the one `cancel()` would clear |
| `PumpProofs!PumpStaysAlive` | " | as long as ticks do not throw, a started pump has its callback outstanding |
| `PumpProofs!TicksNeverDouble` | " | callbacks double only after a one-shot pump was stopped inside its tick |
| `PumpProofs!CadenceIsRight` | " | a started pump uses the driver the visibility of the tab calls for |
| `EngineProofs!NothingOrphaned` | set of modes in which no listener destroys the player, number of sessions, depth of nested emits, set of handles | no transport, source or timer of an ended session stays behind |
| `EngineProofs!OneError` | ", and ordinary modes | a session reports at most one error |
| `EngineProofs!PumpFollowsState` | ", and ordinary modes | between tasks the pump runs exactly when the player connects or plays, but while a session whose transport refused to connect waits for its timeout (`PumpMatchesState`) |
| `EngineProofs!EngineIsPlayer` | " | the engine of an ordinary player takes only steps of `PlayerLifecycle` (`ImplementsLifecycle`) |
| `SchedulingProofs!TypeCorrect` | threshold, length of run | `TypeOK` is invariant |
| `SchedulingProofs!FatalAtMostOnce` | " | an episode is fatal at most once |
| `SchedulingProofs!FatalOnlyAfterSilence` | " | a fatal verdict means silence longer than both thresholds |
| `SchedulingProofs!RebufferIsHonest` | " | rebuffer time never exceeds the time spent stalled |
| `SchedulingProofs!EpisodesAreDry` | " | an active episode saw no data since before it began |
| `SchedulingProofs!NoFrameUnaccounted` | budget, high-water mark, capacity, number of chunks, clocks that start, stop and jump | every chunk that arrived is in the buffer or in the decoder, counted, or was pushed out of the full buffer (`FramesAccountedOrOverflowed`) |
| `SchedulingProofs!ChunksDecodeInOrder` | ", `NoWrap` | chunks of one session are decoded in the order of their arrival (`DecodesInOrder`) |
| `SchedulingProofs!DropsOnlyTheLate` | ", `ShortSession` | as long as the audio only starts and no session is restarted (`switches = 0`): once the clock is based, what is dropped was captured longer ago than the budget (`RebasedDropsOnlyLate`) |
| `SchedulingProofs!NearLive` | ", `ShortSession` | without audio, and in one session, nothing older than the budget and the longest delay together reaches the decoder (`StaysNearLive`) |
| `DecodingProofs!RouterTypes` | number of configurations and chunks, high-water mark | `TypeOK` of `CodecRouting`: it holds fewer chunks than the high-water mark |
| `DecodingProofs!ChunksStayInOrder` | " | chunks are forwarded, then held, once and in the order of the calls (`DecodedInOrder`) |
| `DecodingProofs!DecodersAreClosed` | " | with one configuration no decoder is open but the one in use (`NoDecoderLeak`) |
| `DecodingProofs!ClosedIsSilent` | " | with one configuration no frame is output after `close()` (`SilentAfterClose`) |
| `DecodingProofs!Dav1dDecodesSafely` | number of chunks and creations, listeners that close | no context that was freed decodes, and frames come in order (`DecodesSafely`) |
| `DecodingProofs!HevcSlicesHaveParameters` | number of units and configurations, listeners that close | slices follow the parameter sets of their configuration (`SlicesHaveParameters`) |
| `DecodingProofs!BuffersSoundInOrder` | set of lengths of buffers, refusals, suspensions, `destroy()` anywhere | buffers sound in the order they came and never in the past (`SoundsInOrder`) |
| `HlsSourceProofs!NoSegmentTwice` | window, set of encrypted segments, history of playlists | segments are demuxed once and in the order of their numbers |
| `HlsSourceProofs!OnlyPrunedSkipped` | " | a segment that was passed over was pruned by the server before its turn, unless the source failed |
| `HlsSourceProofs!StopIsFinal` | " | every step is one of `MediaSource`: the safety part of `ImplementsSource`; after `stop()` the events of at most one segment are delivered, however many, or one error |
| `DemuxerProofs!TypeCorrect` | modulus, frame, set of jumps | `TypeOK` is invariant |
| `DemuxerProofs!TimestampsNeverGoBack` | " | what comes out never decreases (`NeverBack`) |
| `DemuxerProofs!UnwrappedExactly` | ", jumps shorter than half the modulus | unwrapped timestamps keep the pace of the clock through every wrap, and are let through unchanged while it never goes back (`UnwrapsExactly`) |
| `DemuxerProofs!EachTagParsedOnce` | number and sizes of tags, sizes of headers, way of cutting the stream | until a cut between header and PreviousTagSize0, tags are parsed once, in order and as soon as they are whole, up to the chunk in which the demuxer fails; no frame before a sequence header, which could be read unless it failed (`TagsParsedOnce`) |
| `DemuxerProofs!EachFrameEmittedOnce` | number, kinds and sizes of packets, sizes of headers, way of cutting the stream | frames are emitted once, in order and as soon as they are whole, behind one header or, in H.264, the error that stands for it, unless a packet contradicts itself or is taken where there is none (`FramesOnce`) |
| `DemuxerProofs!NoHolesInFrames` | set of streams, size of frames, modulus of the counter, losses | as long as the counter shows each loss that cuts a frame, no frame has a hole or a piece of another one; one that is not whole is the last before a failure, or was flushed (`FramesHaveNoHoles`) |
| `NetworkProofs!NothingStrays` | number of sockets and retries, calls of listeners | no socket but the current one is alive (`NoStraySocket`) |
| `NetworkProofs!ReportedOnce` | " | the end of a connection is reported once, and unless the socket could not be built only after every attempt was made (`EndReportedOnce`) |
| `NetworkProofs!ClientAndServerAgree` | number of requests, losses, delays and repetitions | while `register()` and `terminate()` leave no dialog behind, client and server agree about every one (`DialogsAgree`) |
| `NetworkProofs!EndedStaysEnded` | " | a session that ended stays ended (`EndIsFinal`) |
| `NetworkProofs!NoCandidateStranded` | number of tracks and candidates, time they are gathered | once `connect()` succeeded and the requests are answered the server has every candidate but those whose own PATCH the network rejected (`CandidatesReachServer`) |
| `NetworkProofs!WhepStopIsFinal`, `NetworkProofs!PsStopIsFinal` | ", number of Blobs, `stop()` at any await | every step is one of `MediaSource`: the safety part of `ImplementsSource` |
| `MqttClientProofs!CallsAreKept` | number of packet ids, calls and messages, set of listeners | every pending call has a waiter, every waiter a pending call or one that a packet builder's exception rejected (`NoCallForgotten`) |
| `MqttClientProofs!ReportedOnce` | " | the end of an established connection is reported once, twice only after `close()` inside `failConnection()` |
| `MqttClientProofs!ResolvedIsEarned` | " | as long as no id is taken again with an answer to its former call on its way, a call is resolved only when the broker acknowledged that very call (`ResolvedMeansAcked`) |
| `MqttClientProofs!SilenceBeforeGivingUp` | " | the keep-alive gives an open connection up only when two PINGREQs stayed unanswered, whatever else came (`GivesUpOnSilence`) |
| `SchedulingProofs!SchedulingOfRun`, `DecodingProofs!DecodersOfRun`, `DemuxerProofs!DemuxersOfRun`, `NetworkProofs!ConnectionsOfRun` | value of the constants | the specification of the run implies the one of each component |

The arguments:

* **Pump.** `TypeOK` is inductive, by two lemmas about what `Schedule` and `SwitchDriver`
  add. `PumpAlive` is not: during a one-shot tick the pump has no callback, and `TickReturn`
  restores it. `AliveInv` says that this is the only such moment. `OneInv` adds which
  callback the single one is (`frameId`), that a stopped pump has none, and what a running
  one-shot tick implies; once somebody stopped the pump inside its tick it claims nothing.
  `CadenceInv` ties the driver in use to the visibility it was chosen for.
* **Engine.** The argument is about the call stack. A `play()` that is not finished has
  nothing but listeners above it (`Orderly`), so no error and no event comes between its
  pieces. `Owns` is inductive and has four parts: the types; `Links` (whatever is live is
  what the engine would close, and an idle, failed or stopped player holds nothing);
  `Pending` (an unfinished `play()` is undisturbed, and holds nothing before its set-up);
  `Final` (a destroyed player has an empty stack). The lemmas on stacks say what pushing a
  listener or a piece and popping one do to `Orderly`; each family of actions has a lemma.
  For one session and ordinary modes, `Session` adds that only the top of the stack can be
  the piece that has set "playing" and not yet started the pump (`LiveOnTop`), that
  otherwise pump and state agree, and that a failure is what ended the session. The
  hypothesis `NoneDestroys` is needed: section 5. For the life cycle, `Stream` says what
  `PlayerLifecycle` sees: a session that is being set up is connecting, an active player
  past its set-up has a stream, and before the first session nothing runs, so that no error
  can find the player idle. Each family of actions then maps to one abstract step or to none
  (`ErrorMaps`, `CallMaps`, `StartMaps`, `StreamMaps`, `TickMaps`).
* **StallMonitor.** One inductive invariant, `Watch`: types, nothing recorded lies in the
  future, an active episode is dry, the tick that began an episode is recorded, the unpaid
  part of the rebuffer time is still ahead, and a fatal verdict is remembered. One lemma per
  action; the types of flags and of numbers are proved apart because they need different
  provers. Each theorem follows from `Watch`.
* **Scheduler.** Four layers, each inductive given the ones before it. `Account`: chunks are
  told apart by their numbers, and each number that was handed out is in one place.
  `InSession`: what is buffered bears the stamp of its capture. `ArrivalOrder`: while
  nothing wraps the buffer is in the order of arrival, and behind what the decoder was
  given. `Based`: the clock was based on some chunk, on whose arrival it and real time
  agreed, and both went on together since; so the lateness of a chunk is its age but for the
  delay of that one. They rest on where the binary search puts a chunk. The search is a
  recursive function, and that it exists has to be proved: there is no least interval on
  which it could not be defined (`SearchDefined`).
* **CodecRouting.** `DecodedInOrder` says that the chunks forwarded and those held, one
  after the other, ascend (`Ordered`); what makes it inductive is that nothing is held once
  there is an implementation (`CallOrder`). For `NoDecoderLeak`: with one configuration at
  most one implementation is ever built, and the question asked before it was built has been
  answered by then (`OneDecoder`); every other step opens none (`NoneOpens`).
* **Dav1dSoftDecoder.** A context that was freed is neither in use nor being created
  (`ContextsApart`). For the order: what is held ascends, lies behind what was decoded from
  the position on where `drain()` stands, and is what `queueSize` counts (`HeldInOrder`).
  **HevcSoftDecoder.** Parameter sets that count as pushed are in libde265, or in the chunk
  on its way there (`ParamsKnown`), and `queueSize` counts that chunk (`Counted`).
  **AudioOutput.** Nothing is scheduled behind `nextWhen`; `destroy()`, which clears it,
  takes the decoder away too (`LastOne`).
* **HlsSource.** `PlaysInOrderOnce` speaks of what was played; the loop looks at what was
  *loaded*. `LoadedAhead` ties them: nothing played is newer than the segment loaded last,
  and it is strictly older while that segment is in hand. `FirstWantedIsNew` says that the
  next segment is newer than that. For `SkipsOnlyPruned`: there is one chain of promises,
  never together with the timer (`OneChain`), the catch-up window begins no earlier than the
  playlist (`Window`), and every segment listed from where the window began up to the one
  loaded last was played or is in hand (`NoneSkipped`). For `StopIsFinal`: the one late
  delivery, a segment or an error, is the last thing the chain does (`LateIsLast`), since
  the loop ends after a segment it finds stopped.
* **Timestamps.** `EmitMovesOn` is `NeverBack` in one step. `UnwrapsExactly` rests on
  `Follows`: the last stamp is the clock modulo `Modulus`, and unwrapped it lies a constant
  behind the clock. It is preserved because a remainder moves as far as its number, or by
  `Modulus` more or less (`RemainderMoves`), and short jumps tell the three cases apart.
* **FlvDemuxer.** Unless it failed or was cut short, it is in step (`InStep`): the cursor
  stands behind as many tags as were taken, and not beyond what was received (`Behind`);
  none was skipped (`TagsInOrder`); frames come after a header, which could be read unless
  the demuxer failed (`HeadersFirst`); between two chunks nothing whole is left
  (`NothingWhole`).
* **PsDemuxer.** What lies before the cursor was whole, or is ignored, and its start code
  was there (`Seen`), so that putting the cursor back to a retained tail cannot pass a
  packet twice. The events are exactly those of what was passed (`Emitted`), until the stream derails, and so are the codec and the
  parameter sets kept (`Reading`). Between two
  chunks what is left is not whole, and is waited for if it counts (`CaughtUp`).
* **TsDemuxer.** Until it fails, the buffer of a stream is in one piece, ends with the last
  packet sent, and its counter is known (`Buffered`). The counter moves by a loss and
  one (`CounterMoves`): unless that is nothing or one, modulo its modulus, the loss shows,
  and if it cuts a buffered frame it fails the demuxer. A loss that does not show sets
  `masked`, for good (`MaskedStays`), after which nothing is claimed.
* Where a tag or a packet lies is a running total over the stream, a recursive function in
  both scanners. `TotalsExist` proves that there is one, by the least length for which there
  would be none; the proofs then use only that each total is the one before and a size.
* **WsTransport.** There is a live socket or a backoff timer, never both (`OneWay`), and
  only a `close()` that lasts, because no listener connected again from inside it, leaves a
  socket that was told to close (`Lasting`). Each attempt opened a socket beside the first
  one, and none is beyond the limit (`Tried`).
* **WhepSource, PsSource.** Every gathered candidate is queued, in a PATCH, sent or lost, and
  `patchUrl` is set before anybody waits for the queue to be flushed (`Candidates`).
  `stop()` is final because of what is left after it (`WhepLeft`, `PsLeft`): no connection,
  so no promise that could resolve, and a late delivery only from the last step of a chain.
* **Gb28181Session.** Every INVITE but the last was refused, so a 2xx always answers the
  last one, and no BYE is sent before its dialog is there (`Agreed`). `EndIsFinal` needs no
  invariant: in an ended state every method and message returns early.
* **MqttClient.** `NoCallForgotten` needs to know that settling one waiter cannot settle the
  call of another: `OneWaiter`. That holds because a new waiter gets an id that is not
  pending (`NextIdIsFree`: the first free successor exists and lies in range) and a call
  that no waiter knows, its number being one past all of them (`CallTypes`). One lemma per
  thing that can happen to a waiter: settled, released to its second phase, swept away by
  `finishClose()`, added, for a packet that is sent or for one that could not be built. `CloseReportedOnce` rests on two facts: until CONNACK nothing was
  reported and a handshake that lost its socket ends in the same event (`Before`); from then
  on the client keeps its socket until it has handled the end of it, and is closed only with
  it (`Established`). `ResolvedMeansAcked` is about packets on their way: as long as no id
  is reused while an answer to it is under way, each one with the id of a waiter answers
  that waiter (`Matched`), so that what is resolved was acknowledged (`Earned`). For
  `GivesUpOnSilence` the flags of the keep-alive count the PINGREQs that went unanswered
  (`Counted`), and packets come only on a socket that opened (`Opened`).

Every safety property of the passing runs is proved but for the hypotheses above. Only
model-checked: liveness (`KeepsTicking`, `ConnectingEnds`, `HeldChunksAreReleased`,
`KeepsReloading`, `DeadPeerNoticed`, the part of `SourcesKeepContract` that says that
everything is released) and everything about `ENABLED`, which the prover does not reach; and
the type invariants of the modules not named above, of which the theorems use only the parts
they need. The induction theorems of the library take an operator, which the prover cannot
instantiate; what the proofs need of recursive functions is obtained from the least
counterexample instead.

## 5. Where the code departs from what it says

Shown by a run:

* **`EngineSyncError`** - a source that emits `error` inside its own `start()` is
  torn down by `handleError()`, after which `startWithSource()` sets "playing" and
  starts the pump: a player that plays nothing.
* **`SchedulerAudioLost`** - when the AudioContext is suspended or closed,
  `MasterClock` falls back to the wall clock and nothing re-bases the sync clock,
  so chunks that are in time are dropped. The drift corrector that could re-base it
  only runs on output and while the audio is active.
* **`MqttConnect`** - `close()` between the opening of the socket and CONNACK leaves
  the promise of `connect()` pending for ever: the timer is cleared, and
  `onSocketClose()` settles it only in the state "connecting".
* **`FlvChunking`** - a chunk that ends between the header and the end of
  PreviousTagSize0 leaves the cursor behind the end of the queue; the next `push()`
  forgets how far, and every tag is read at the wrong place.
* **`WhepEncoded`** - in the encoded mode `ontrack` fires while the answer is applied,
  before `connect()` builds the pipeline it should attach the track to.
* **`HlsLateEvents`** - a listener that stops the source inside an event of a segment
  gets the other events of that segment, and a segment that is being decrypted is demuxed
  after `stop()`, though `plugin-sdk/src/types.ts:85` says "no events after stop". The
  same holds for the chunks of the PS source (`ps-source.ts:139`) and the configuration of
  the WHEP source: `SourcesKeepContract` is the weaker contract they do keep.

Met while modelling, and reproduced by a change of constants or of a property:

| What | How to see it |
|---|---|
| `stop()` and `start()` inside a tick double a one-shot pump (`pump.ts:135`) | check `OneOutstandingFrame` in `PumpAll` |
| a listener that throws out of a tick kills the pump (`pump.ts:135`) | drop `~mayThrow` from `PumpAlive` |
| `destroy()` in a "stats" listener of `play()` is overrun by the connection being opened (`engine.ts:147`) | a mode whose `calls` hold "destroy", `NoOrphan` |
| `pause()` there ends "paused" with the pump running (`engine.ts:203`) | drop `Ordinary` from `PumpMatchesState` |
| a connection that closes before it opened counts as a clean end when the player was paused meanwhile (`engine.ts:211`) | `CloseClean` fires with the session's phase "connecting" |
| a second `configure()` leaks the first decoder (`decoder-chain.ts:179`) | drop `configs <= 1` from `NoDecoderLeak` |
| chunks sent during a second probe go to the old decoder, and a late answer brings the old configuration back (`decoder-chain.ts:66`, `84`) | compare `chunks` with the configurations in `forwarded` |
| the first audio frame, or a restarted session, makes buffered chunks late (`scheduler.ts:102`, `engine.ts:145`) | `Events = {"start"}` or `{"restart"}` with `DropsOnlyLate` |
| a wrapped timestamp is put in front of the ones before the wrap (`jitter-buffer.ts:27`) | `Wrap = 16`, `Origins = {14}` with `DecodesInOrder` |
| chunks dropped by the buffer's overflow appear in no statistic (`scheduler.ts:48`) | drop the last summand of `FramesAccountedOrOverflowed` |
| a stream that never delivers a first chunk is never a stall (`qos.ts:77`) | `TickQuiet` returns "none" for ever while `lastDataAt = NoTime` |
| a connection that timed out keeps its WebSocket open, handlers attached (`client.ts:180`) | `SettleRejects` leaves `socket` as it is |
| `close()` from an error listener of a failing connection emits `close` twice (`client.ts:541`) | drop `reentered` from `CloseReportedOnce` |
| `transport.connect()` may throw (`new WebSocket` of a bad URL): `play()` throws, the state stays "connecting" and the pump never starts until the connect timer ends the session (`engine.ts:186`, `ws-transport.ts:131`) | drop the exception from `PumpMatchesState` |
| `GlitchFree`: a buffer is scheduled 250 ms after the *beginning* of the one before whatever its length, so buffers of AAC (21 ms) sound with gaps between them, though `README.md:205` says "glitch-free" (`audio-output.ts:135`) | check `GlitchFree` in `AudioOutput` |
| a trickled candidate whose PATCH the network rejects is lost, with an unhandled rejection and no `error` event (`whep-source.ts:214`) | drop `lost` from `CandidatesReachServer` |
| an FLV tag that cannot be read does not end its chunk: the tags behind it are emitted, frames without a usable header included (`flv-demuxer.ts:110`, `146`) | drop the disjunct with "badHeader" from `TagsParsedOnce` |
| `retainTail(3)` ignores the cursor, so the end of a payload may be read again as a start code and hide the next packet (`ps-demuxer.ts:428`) | kind "decoy": `TakeDecoy` sets `derailed` |
| bad HEVC parameter sets are reported with every packet until they are replaced, bad H.264 ones once, and then frames follow without a header (`ps-demuxer.ts:570`, `575`) | ask for a "header" before every frame in `FramesOnce`, or for no error before one |
| an HEVC program stream that begins without parameter sets is taken for H.264 for good, and nothing of it is emitted (`ps-demuxer.ts:536`) | `Due` without `MakesHeader` |
| a loss of 15 TS packets of a stream looks like a repeated packet, one of 16 like none, and the frame gets a hole (`packet.ts:105`) | drop `masked` from `FramesHaveNoHoles` |
| `new WebSocket` may throw out of `PsSource.start()` (`ps-source.ts:127`) | `Start` leaves the connection "none" |
| a call with an empty topic or list, or one too long, rejects its promise but leaves its waiter, timer and packet id until the timeout (`client.ts:252`, `278`, `294`) | drop `"thrown"` from `NoCallForgotten` |
| `pingIntervalMs <= 0` switches the keep-alive off, and a dead broker is then never noticed (`client.ts:515`) | not modelled: the interval is positive |
| the correction of a timestamp that went back is added again to every later one, for the raw timestamp is compared with the last output (`ts-demuxer.ts:287`); a PS stream is corrected twice | `offset` in `Timestamps` grows after one step back |
| a repeated TS packet is in its frame twice, though `packet.ts:88` says it is "skipped silently" | drop `repeated` from `FramesHaveNoHoles` |
| a lost packet before the beginning of a frame emits the cut frame, then fails (`ts-demuxer.ts`, `packet.ts`) | drop `failed /\ i = Len(frames[p])` from `FramesHaveNoHoles` |
| a reset of the AV1 decoder while its context is created lets the old context decode, and contexts it replaces are never cleaned up (`dav1d-soft-decoder.ts`) | count the contexts not in `freed` in `Dav1dSoftDecoder` |
| access units without a picture stay pending in the HEVC decoder, so the backpressure creeps up (`hevc-soft-decoder.ts`) | `waiting` in `HevcSoftDecoder` after units that decode to nothing |
| a GB28181 client that lost the answer to REGISTER may not send it again (`session.ts:143`) | in the state "REGISTERING" `Register` requires a challenge |

## 6. Plan

Done, in this order: `Pump` and its proofs; `Engine` with `PlayerLifecycle`;
`CodecRouting`; `JitterBuffer`, `StallMonitor` and its proofs; `Scheduler`;
`MqttClient` and its proof; the sources `HlsSource`, `WhepSource` and `PsSource` with
`MediaSource`; `WsTransport`; `Gb28181Session`; the soft decoders; `AudioOutput`; the
demuxers and `Timestamps`; the proofs of `Engine` and `HlsSource` with their refinements;
the proofs of the safety properties of all the other modules.

Next, most important first:

1. The parts of `Engine` a destroying listener disturbs, and weaker hypotheses where
   section 5 shows exactly what goes wrong.
2. The type invariants that no theorem states yet.
3. The wrapper of WebCodecs (`decoder.ts`, its error and its queue), which
   `CodecRouting` takes as one implementation; the choice of a renderer and its
   fallbacks.
4. Pure algorithms against reference definitions: the playlist parser, the bit reader
   and the NAL units, G.711, the retry with a digest.

### Not modelled

Drawing (calls to the GPU without state that matters here), pixel and sample
conversion, URL, XML, JSON and SIP text (stateless formatting), hashes (MD5, AES: inputs
to the models that use them), types and error classes, the examples and the end-to-end
tests.

The definitions are mapped to some 3,400 lines. Of the 44,000 lines of
TypeScript outside the tests, 24,000 are not code: the files `*.ts` under
`src/examples/basic/hls-fixtures/` are recorded MPEG transport streams. The library
itself (`packages/*/src` without tests) is about 15,000 lines, of which the map covers more than
a fifth. The rest of it has no state that several steps could bring into disorder:
parsers of text and bits, sample and pixel loops, shaders, the clients of device APIs
(one request and one retry each), type definitions and re-exports.

## 7. Running the checks

```
tlc -workers 2 -config PumpAll.cfg MCPump         # any run: its cfg, its MC module
tlapm PumpProofs.tla                              # and the other seven ...Proofs
```

| Run | Module |
|---|---|
| `PumpAll` | `MCPump` |
| `Engine`, `EngineSyncError` | `MCEngine` |
| `Decoding` | `MCDecoding` |
| `Scheduling` | `MCScheduling` |
| `Streams` | `MCStreams` |
| `MqttAll`, `MqttConnect` | `MCMqttClient` |
| `SchedulerAudioLost`, `FlvChunking`, `WhepEncoded`, `HlsLateEvents` | `Scheduler`, `FlvDemuxer`, `WhepSource`, `HlsSource` |

Deadlock is checked in `PumpAll`, `Engine`, `EngineSyncError`, `Scheduling` and
`SchedulerAudioLost`. In the others a closed decoder, client, source or session, or the
end of the stream, really leaves nothing to do.
