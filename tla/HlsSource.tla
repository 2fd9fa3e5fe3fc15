------------------------------ MODULE HlsSource ------------------------------
(***************************************************************************)
(* HlsSource of packages/plugins/hls/src/hls-source.ts: one chain of         *)
(* asynchronous steps fetches the playlist and then segment after segment,   *)
(* decrypts and demuxes each, and arms the timer that reloads the playlist.  *)
(* stop() may come between any two steps, or from a listener in the middle   *)
(* of one; it aborts the fetches, but not the cryptography.                  *)
(*                                                                           *)
(* A segment is known by its media sequence number.  A playlist that the     *)
(* server answers lists the segments first .. last.                          *)
(***************************************************************************)
EXTENDS Integers, Sequences

CONSTANTS
    MaxBufferedSegments,  \* HlsSourceOptions.maxBufferedSegments
    Encrypted,            \* the segments with an AES-128 key
    MaxSequence,          \* bound on media sequence numbers
    MaxListed             \* bound on the length of a playlist

ASSUME HlsAssumption ==
    /\ {MaxBufferedSegments, MaxListed} \subseteq Nat \ {0}
    /\ MaxSequence \in Nat
    /\ Encrypted \subseteq 0..MaxSequence

VARIABLES
    awaiting,      \* what the chain awaits: an Await, or "nothing"
    stopped,       \* HlsSource.stopped
    reloadTimer,   \* HlsSource.reloadTimer is armed
    initial,       \* loadMedia()'s `first'
    playlist,      \* the playlist being streamed
    windowStart,   \* HlsSource.sequenceWindowStart
    loaded,        \* HlsSource.loadedMediaSequence
    inPass,        \* streamSegments()'s fetchedInPass
    keyCached,     \* HlsSource.keyCache has the key
    broken,        \* the demuxer failed: it emits nothing more
    \* history
    started,
    played,        \* the segments dispatched before stop(), in order
    listed,        \* segments of any playlist so far
    lateDeliveries,  \* segments of which events were dispatched after stop()
    failed         \* a step of the chain was rejected

passVars == <<initial, playlist, windowStart, loaded, inPass>>
eventVars == <<broken, played, lateDeliveries>>
vars == <<awaiting, stopped, reloadTimer, passVars, keyCached, eventVars, started,
          listed, failed>>

Fetches == {"manifest", "media", "segment", "key"}
Await == Fetches \cup {"import", "decrypt"}

Playlists ==
    {p \in [first : 0..MaxSequence, last : -1..MaxSequence, endList : BOOLEAN] :
        /\ p.first <= p.last + 1
        /\ p.last - p.first < MaxListed}

Init ==
    /\ awaiting = "nothing"
    /\ stopped = FALSE
    /\ reloadTimer = FALSE
    /\ initial = TRUE
    /\ playlist = [first |-> 0, last |-> -1, endList |-> FALSE]
    /\ windowStart = -1
    /\ loaded = -1
    /\ inPass = 0
    /\ keyCached = FALSE
    /\ broken = FALSE
    /\ started = FALSE
    /\ played = <<>>
    /\ listed = {}
    /\ lateDeliveries = 0
    /\ failed = FALSE

-----------------------------------------------------------------------------
\* start(): bootstrap() fetches the playlist at the url, a master or not.
Start ==
    /\ ~started /\ ~stopped
    /\ started' = TRUE
    /\ awaiting' = "manifest"
    /\ UNCHANGED <<stopped, reloadTimer, passVars, keyCached, eventVars, listed, failed>>

Stop ==
    /\ stopped' = TRUE
    /\ reloadTimer' = FALSE
    /\ UNCHANGED <<awaiting, passVars, keyCached, eventVars, started, listed, failed>>

-----------------------------------------------------------------------------
(* streamSegments() from one segment to the next, and the end of loadMedia(). *)

Larger(m, n) == IF m >= n THEN m ELSE n

\* Mutant of FirstWanted: the segment loaded last is fetched again.
FirstWantedAgain(p, from) == Larger(p.first, Larger(from, loaded))

\* The first segment that the loop does not skip as pruned or already loaded.
FirstWanted(p, from) == Larger(p.first, Larger(from, loaded + 1))

\* Mutant of EndPass: no reload after the first pass.
EndPassOnce(p, stop) ==
    /\ awaiting' = "nothing"
    /\ reloadTimer' = (initial /\ ~p.endList)
    /\ UNCHANGED <<loaded, inPass>>

\* The second disjunct of the code can hold only after stop().
EndPass(p, stop) ==
    /\ awaiting' = "nothing"
    /\ reloadTimer' = ((~p.endList /\ ~stop) \/ (initial /\ ~p.endList))
    /\ UNCHANGED <<loaded, inPass>>

\* Mutant of Continue: the next segment is marked as loaded before the window
\* is found to be full.
ContinueMarking(p, from, count, stop) ==
    LET next == FirstWanted(p, from)
    IN  IF stop \/ next > p.last
        THEN EndPass(p, stop)
        ELSE /\ loaded' = next
             /\ IF ~p.endList /\ count >= MaxBufferedSegments
                THEN awaiting' = "nothing" /\ reloadTimer' = TRUE /\ UNCHANGED inPass
                ELSE awaiting' = "segment" /\ inPass' = count + 1 /\ UNCHANGED reloadTimer

\* The loop goes on in playlist `p', from sequence number `from', after `count'
\* fetches: it ends, or marks the next segment as loaded and fetches it.
Continue(p, from, count, stop) ==
    LET next == FirstWanted(p, from)
        full == ~p.endList /\ count >= MaxBufferedSegments
    IN  IF stop \/ next > p.last \/ full
        THEN EndPass(p, stop)
        ELSE /\ loaded' = next
             /\ inPass' = count + 1
             /\ awaiting' = "segment"
             /\ UNCHANGED reloadTimer

-----------------------------------------------------------------------------
(* The answers to what the chain awaits.                                     *)

\* bootstrap() fetches the media playlist in any case, the url's own again.
ManifestAnswered ==
    /\ awaiting = "manifest" /\ ~stopped
    /\ awaiting' = "media"
    /\ UNCHANGED <<stopped, reloadTimer, passVars, keyCached, eventVars, started,
                   listed, failed>>

MediaAnswered(p) ==
    /\ awaiting = "media" /\ ~stopped
    /\ playlist' = p
    /\ windowStart' = Larger(windowStart, p.first)
    /\ listed' = listed \cup p.first..p.last
    /\ Continue(p, windowStart', 0, FALSE)
    /\ UNCHANGED <<stopped, initial, keyCached, eventVars, started, failed>>

\* The chain is rejected: a refused or failed request, a bad playlist, a bad
\* key.  The listener of the error event stops the source, or not.
Rejected ==
    /\ awaiting # "nothing" /\ ~stopped
    /\ awaiting' = "nothing"
    /\ failed' = TRUE
    /\ stopped' \in BOOLEAN
    /\ UNCHANGED <<reloadTimer, passVars, keyCached, eventVars, started, listed>>

\* After stop() a fetch is aborted, and anything may be rejected: silently.
RejectedLate ==
    /\ awaiting # "nothing" /\ stopped
    /\ awaiting' = "nothing"
    /\ failed' = TRUE
    /\ UNCHANGED <<stopped, reloadTimer, passVars, keyCached, eventVars, started, listed>>

\* push(), and flush() at the end of the loop: the demuxer dispatches the media
\* of the segment, however many events, or fails with an error event.  A listener
\* may call stop(), which the demuxer does not notice before the loop goes on.
Demux ==
    /\ stopped' \in {stopped, TRUE}
    /\ broken' \in {broken, TRUE}
    /\ played' = IF broken \/ stopped THEN played ELSE Append(played, loaded)
    /\ \/ stopped' /\ ~broken /\ lateDeliveries' = lateDeliveries + 1
       \/ UNCHANGED lateDeliveries
    /\ Continue(playlist, windowStart, inPass, stopped')
    /\ UNCHANGED <<initial, playlist, windowStart, started, listed, failed>>

SegmentAnswered ==
    /\ awaiting = "segment" /\ ~stopped
    /\ IF loaded \in Encrypted
       THEN /\ awaiting' = IF keyCached THEN "decrypt" ELSE "key"
            /\ UNCHANGED <<stopped, reloadTimer, passVars, eventVars, started, listed, failed>>
       ELSE Demux
    /\ UNCHANGED keyCached

KeyAnswered ==
    /\ awaiting = "key" /\ ~stopped
    /\ awaiting' = "import"
    /\ UNCHANGED <<stopped, reloadTimer, passVars, keyCached, eventVars, started,
                   listed, failed>>

KeyImported ==
    /\ awaiting = "import"
    /\ keyCached' = TRUE
    /\ awaiting' = "decrypt"
    /\ UNCHANGED <<stopped, reloadTimer, passVars, eventVars, started, listed, failed>>

Decrypted ==
    /\ awaiting = "decrypt"
    /\ Demux
    /\ UNCHANGED keyCached

\* The timer fires: loadMedia() again, unless stopped.
Reload ==
    /\ reloadTimer
    /\ reloadTimer' = FALSE
    /\ awaiting' = IF stopped THEN "nothing" ELSE "media"
    /\ initial' = FALSE
    /\ UNCHANGED <<stopped, playlist, windowStart, loaded, inPass, keyCached, eventVars,
                   started, listed, failed>>

Answered ==
    \/ ManifestAnswered
    \/ \E p \in Playlists : MediaAnswered(p)
    \/ SegmentAnswered \/ KeyAnswered \/ KeyImported \/ Decrypted
    \/ Rejected \/ RejectedLate

Next == Start \/ Stop \/ Answered \/ Reload

Spec == Init /\ [][Next]_vars

\* The browser settles every promise and fires every timer.
Fairness == WF_vars(Answered) /\ WF_vars(Reload)

FairSpec == Spec /\ Fairness

-----------------------------------------------------------------------------
TypeOK ==
    /\ awaiting \in Await \cup {"nothing"}
    /\ {stopped, reloadTimer, initial, keyCached, broken, started, failed} \subseteq BOOLEAN
    /\ playlist \in Playlists
    /\ {windowStart, loaded} \subseteq -1..MaxSequence
    /\ inPass \in 0..MaxListed
    /\ played \in Seq(0..MaxSequence)
    /\ listed \subseteq 0..MaxSequence
    /\ lateDeliveries \in Nat

\* Whatever playlists the server answers, overlapping, sliding, bursting or
\* restarted, no segment is played twice or after a newer one.
PlaysInOrderOnce == \A i, j \in DOMAIN played : i < j => played[i] < played[j]

\* The catch-up window delays segments, it never drops one: while nothing
\* failed, a segment the server listed is skipped only once the playlist slid
\* past it.
SkipsOnlyPruned ==
    ~stopped /\ ~failed /\ ~broken =>
        \A n \in listed :
            windowStart <= n /\ n <= loaded =>
                \/ \E i \in DOMAIN played : played[i] = n
                \/ n = loaded /\ awaiting \in Await \ {"manifest", "media"}

\* The chain of reloads never dies silently: as long as the stream is live, and
\* until it fails or is stopped, the playlist is fetched again and again.
KeepsReloading ==
    []<>(awaiting = "media" \/ ~started \/ stopped \/ failed \/ playlist.endList)

\* plugin-sdk/src/types.ts:85: "no events after stop".  What was being decrypted, or
\* demuxed, is dispatched all the same.
NoEventsAfterStop == lateDeliveries = 0

Source == INSTANCE MediaSource
    WITH status <- IF stopped THEN "stopped" ELSE IF started THEN "running" ELSE "idle",
         busy <- awaiting # "nothing" \/ reloadTimer

\* A stopped source delivers at most the segment it had in hand, starts nothing
\* anew, not by a late start() either, and lets go of its requests and timers.
ImplementsSource == Source!Spec
=============================================================================
