--------------------------- MODULE HlsSourceProofs ---------------------------
(***************************************************************************)
(* That an HlsSource plays no segment twice or after a newer one, for every  *)
(* window, every set of encrypted segments and every history of playlists.    *)
(* The invariant behind it, Ahead, says that loadedMediaSequence is never     *)
(* behind what was played, and in front of it while a segment is in hand.     *)
(***************************************************************************)
EXTENDS HlsSource, SequenceTheorems, TLAPS

\* The segment marked as loaded is in hand: not played yet.
InHand == awaiting \in {"segment", "key", "import", "decrypt"}

LoadedAhead ==
    \A i \in DOMAIN played :
        /\ played[i] <= loaded
        /\ InHand => played[i] < loaded

NumbersOK ==
    /\ loaded \in Int /\ windowStart \in Int /\ inPass \in Int
    /\ playlist \in Playlists
    /\ played \in Seq(Int)

Ahead == NumbersOK /\ LoadedAhead /\ PlaysInOrderOnce

IInv == Ahead /\ stopped \in BOOLEAN

LEMMA LargerIsLarger ==
    ASSUME NEW m \in Int, NEW n \in Int
    PROVE  Larger(m, n) \in Int /\ Larger(m, n) >= m /\ Larger(m, n) >= n
  BY DEF Larger

\* The loop never goes back: the segment it takes next is behind the one loaded
\* last.
LEMMA FirstWantedIsNew ==
    ASSUME NEW p \in Playlists, NEW from \in Int, loaded \in Int
    PROVE  FirstWanted(p, from) \in Int /\ FirstWanted(p, from) > loaded
<1>1. p.first \in Int
  BY HlsAssumption DEF HlsAssumption, Playlists
<1>2. /\ Larger(from, loaded + 1) \in Int
      /\ Larger(from, loaded + 1) >= loaded + 1
  BY LargerIsLarger
<1>3. /\ Larger(p.first, Larger(from, loaded + 1)) \in Int
      /\ Larger(p.first, Larger(from, loaded + 1)) >= Larger(from, loaded + 1)
  BY <1>1, <1>2, LargerIsLarger
<1> QED
  BY <1>2, <1>3 DEF FirstWanted

\* Going on marks a newer segment and has it in hand, or has none in hand.
LEMMA ContinueMarks ==
    ASSUME NEW p \in Playlists, NEW from \in Int, NEW count \in Int, NEW stop \in BOOLEAN,
           loaded \in Int, inPass \in Int, Continue(p, from, count, stop)
    PROVE  /\ inPass' \in Int /\ loaded' \in Int
           /\ \/ loaded' > loaded
              \/ loaded' = loaded /\ ~InHand'
<1>1. FirstWanted(p, from) \in Int /\ FirstWanted(p, from) > loaded
  BY FirstWantedIsNew
<1>2. CASE EndPass(p, stop)
  BY <1>2 DEF EndPass, InHand
<1>3. CASE loaded' = FirstWanted(p, from) /\ inPass' = count + 1
  BY <1>1, <1>3
<1> QED
  BY <1>2, <1>3 DEF Continue

\* A segment newer than those played may be played next.
LEMMA AppendNewer ==
    ASSUME played \in Seq(Int), loaded \in Int, PlaysInOrderOnce,
           \A i \in DOMAIN played : played[i] < loaded
    PROVE  LET more == Append(played, loaded)
           IN  /\ more \in Seq(Int)
               /\ \A i \in DOMAIN more : more[i] <= loaded
               /\ \A i, j \in DOMAIN more : i < j => more[i] < more[j]
<1> DEFINE more == Append(played, loaded)
           n == Len(played)
<1>1. /\ more \in Seq(Int) /\ n \in Nat
      /\ DOMAIN played = 1..n /\ DOMAIN more = 1..(n + 1)
      /\ \A i \in 1..n : more[i] = played[i] /\ played[i] \in Int
      /\ more[n + 1] = loaded
  BY AppendProperties, LenProperties, ElementOfSeq
<1>2. \A i \in DOMAIN more : i \in 1..n \/ i = n + 1
  BY <1>1
<1> HIDE DEF more, n
<1>3. \A i \in DOMAIN more : more[i] <= loaded
  BY <1>1, <1>2
<1>4. ASSUME NEW i \in DOMAIN more, NEW j \in DOMAIN more, i < j
      PROVE  more[i] < more[j]
  <2>1. i \in 1..n
    BY <1>1, <1>2, <1>4
  <2>2. CASE j \in 1..n
    BY <1>1, <1>4, <2>1, <2>2 DEF PlaysInOrderOnce
  <2>3. CASE j = n + 1
    BY <1>1, <2>1, <2>3
  <2> QED
    BY <1>2, <2>2, <2>3
<1> QED
  BY <1>1, <1>3, <1>4 DEF more

LEMMA DemuxStep ==
    ASSUME Ahead, InHand, stopped \in BOOLEAN, Demux
    PROVE  Ahead'
<1>1. /\ loaded \in Int /\ played \in Seq(Int) /\ PlaysInOrderOnce
      /\ \A i \in DOMAIN played : played[i] \in Int /\ played[i] < loaded
  BY ElementOfSeq DEF Ahead, NumbersOK, LoadedAhead
<1>2. /\ played' \in Seq(Int)
      /\ \A i \in DOMAIN played' : played'[i] \in Int /\ played'[i] <= loaded
      /\ \A i, j \in DOMAIN played' : i < j => played'[i] < played'[j]
  <2>1. CASE played' = played
    BY <1>1, <2>1 DEF PlaysInOrderOnce
  <2>2. CASE played' = Append(played, loaded)
    BY <1>1, <2>2, AppendNewer, ElementOfSeq
  <2> QED
    BY <2>1, <2>2 DEF Demux
<1>3. stopped' \in BOOLEAN
  BY Zenon DEF Demux
<1>4. Continue(playlist, windowStart, inPass, stopped')
  BY Zenon DEF Demux
<1>5. /\ inPass' \in Int /\ loaded' \in Int
      /\ \/ loaded' > loaded
         \/ loaded' = loaded /\ ~InHand'
  BY <1>3, <1>4, ContinueMarks DEF Ahead, NumbersOK
<1>6. LoadedAhead'
  BY <1>1, <1>2, <1>5 DEF LoadedAhead
<1>7. NumbersOK'
  BY <1>2, <1>5 DEF Ahead, NumbersOK, Demux
<1> QED
  BY <1>2, <1>6, <1>7 DEF Ahead, PlaysInOrderOnce

LEMMA MediaStep ==
    ASSUME Ahead, NEW p \in Playlists, MediaAnswered(p)
    PROVE  Ahead'
<1>1. p.first \in Int
  BY HlsAssumption DEF HlsAssumption, Playlists
<1>2. windowStart' \in Int
  BY <1>1, LargerIsLarger DEF Ahead, NumbersOK, MediaAnswered
<1>3. PICK stop \in BOOLEAN : Continue(p, windowStart', 0, stop)
  BY Zenon DEF MediaAnswered
<1>4. /\ inPass' \in Int /\ loaded' \in Int
      /\ \/ loaded' > loaded
         \/ loaded' = loaded /\ ~InHand'
  BY <1>2, <1>3, ContinueMarks DEF Ahead, NumbersOK
<1>5. played' = played /\ playlist' = p
  BY Zenon DEF MediaAnswered, eventVars
<1>6. LoadedAhead'
  <2>1. \A i \in DOMAIN played : played[i] \in Int /\ played[i] <= loaded
    BY ElementOfSeq DEF Ahead, NumbersOK, LoadedAhead
  <2> QED
    BY <1>4, <1>5, <2>1 DEF LoadedAhead, Ahead, NumbersOK
<1> QED
  BY <1>2, <1>4, <1>5, <1>6 DEF Ahead, NumbersOK, PlaysInOrderOnce

\* The steps that touch neither what was played nor what is loaded.
LEMMA OtherStep ==
    ASSUME Ahead, InHand' => InHand,
           UNCHANGED <<loaded, windowStart, inPass, playlist, played>>
    PROVE  Ahead'
  BY DEF Ahead, NumbersOK, LoadedAhead, PlaysInOrderOnce

LEMMA AheadInit == Init => Ahead /\ stopped \in BOOLEAN
<1> SUFFICES ASSUME Init
             PROVE  Ahead /\ stopped \in BOOLEAN
  OBVIOUS
<1>1. NumbersOK
  BY HlsAssumption DEF HlsAssumption, Init, NumbersOK, Playlists
<1>2. LoadedAhead /\ PlaysInOrderOnce
  BY DEF Init, LoadedAhead, PlaysInOrderOnce
<1> QED
  BY <1>1, <1>2 DEF Init, Ahead

LEMMA StoppedStep ==
    ASSUME stopped \in BOOLEAN, [Next]_vars
    PROVE  stopped' \in BOOLEAN
  BY Zenon
     DEF Next, Start, Stop, Reload, Answered, ManifestAnswered, MediaAnswered,
         SegmentAnswered, KeyAnswered, KeyImported, Decrypted, Rejected, RejectedLate,
         Demux, vars

LEMMA AheadStep ==
    ASSUME Ahead, stopped \in BOOLEAN, [Next]_vars
    PROVE  Ahead'
<1>1. CASE Start
  BY <1>1, OtherStep DEF Start, passVars, eventVars, InHand
<1>2. CASE Stop
  BY <1>2, OtherStep DEF Stop, passVars, eventVars, InHand
<1>3. CASE Answered
  <2>1. CASE ManifestAnswered
    BY <2>1, OtherStep DEF ManifestAnswered, passVars, eventVars, InHand
  <2>2. CASE \E p \in Playlists : MediaAnswered(p)
    BY <2>2, MediaStep
  <2>3. CASE SegmentAnswered
    <3>1. CASE loaded \in Encrypted
      BY <2>3, <3>1, OtherStep DEF SegmentAnswered, passVars, eventVars, InHand
    <3>2. CASE loaded \notin Encrypted
      BY <2>3, <3>2, DemuxStep DEF SegmentAnswered, InHand
    <3> QED
      BY <3>1, <3>2
  <2>4. CASE KeyAnswered
    BY <2>4, OtherStep DEF KeyAnswered, passVars, eventVars, InHand
  <2>5. CASE KeyImported
    BY <2>5, OtherStep DEF KeyImported, passVars, eventVars, InHand
  <2>6. CASE Decrypted
    BY <2>6, DemuxStep DEF Decrypted, InHand
  <2>7. CASE Rejected
    BY <2>7, OtherStep DEF Rejected, passVars, eventVars, InHand
  <2>8. CASE RejectedLate
    BY <2>8, OtherStep DEF RejectedLate, passVars, eventVars, InHand
  <2> QED
    BY <1>3, <2>1, <2>2, <2>3, <2>4, <2>5, <2>6, <2>7, <2>8 DEF Answered
<1>4. CASE Reload
  BY <1>4, OtherStep DEF Reload, eventVars, InHand
<1>5. CASE UNCHANGED vars
  BY <1>5, OtherStep DEF vars, passVars, eventVars, InHand
<1> QED
  BY <1>1, <1>2, <1>3, <1>4, <1>5 DEF Next

\* PlaysInOrderOnce: whatever playlists HlsSource.streamSegments() is given, and
\* wherever stop() interrupts it, no segment is played twice or after a newer one.
THEOREM NoSegmentTwice == Spec => []PlaysInOrderOnce
<1>1. Init => IInv
  BY AheadInit, Zenon DEF IInv
<1>2. IInv /\ [Next]_vars => IInv'
  BY AheadStep, StoppedStep, Zenon DEF IInv
<1>3. IInv => PlaysInOrderOnce
  BY DEF IInv, Ahead
<1> QED
  BY <1>1, <1>2, <1>3, PTL DEF Spec

-----------------------------------------------------------------------------
(* No segment is skipped but by the playlist itself.                         *)

Undisturbed == ~stopped /\ ~failed /\ ~broken

IsPlayed(n) == \E i \in DOMAIN played : played[i] = n

\* Within the window, whatever lies up to the segment loaded last was played,
\* but the one in hand.
NoneSkipped ==
    Undisturbed =>
        \A n \in Nat : windowStart <= n /\ n <= loaded => IsPlayed(n) \/ (n = loaded /\ InHand)

\* The window begins no earlier than the playlist being streamed.
Window == InHand => playlist.first <= windowStart

\* The timer is armed only when nothing is awaited, and nothing is before start().
OneChain ==
    /\ reloadTimer => awaiting = "nothing"
    /\ ~started => awaiting = "nothing" /\ ~reloadTimer

LEMMA OneChainStep ==
    ASSUME OneChain, [Next]_vars
    PROVE  OneChain'
<1>1. CASE Start
  BY <1>1 DEF Start, OneChain
<1>2. CASE Stop
  BY <1>2 DEF Stop, OneChain
<1>3. CASE Answered
  <2>1. CASE ManifestAnswered
    BY <2>1 DEF ManifestAnswered, OneChain
  <2>2. CASE \E p \in Playlists : MediaAnswered(p)
    BY <2>2 DEF MediaAnswered, Continue, EndPass, OneChain
  <2>3. CASE SegmentAnswered
    BY <2>3 DEF SegmentAnswered, Demux, Continue, EndPass, OneChain
  <2>4. CASE KeyAnswered
    BY <2>4 DEF KeyAnswered, OneChain
  <2>5. CASE KeyImported
    BY <2>5 DEF KeyImported, OneChain
  <2>6. CASE Decrypted
    BY <2>6 DEF Decrypted, Demux, Continue, EndPass, OneChain
  <2>7. CASE Rejected
    BY <2>7 DEF Rejected, OneChain
  <2>8. CASE RejectedLate
    BY <2>8 DEF RejectedLate, OneChain
  <2> QED
    BY <1>3, <2>1, <2>2, <2>3, <2>4, <2>5, <2>6, <2>7, <2>8 DEF Answered
<1>4. CASE Reload
  BY <1>4 DEF Reload, OneChain
<1>5. CASE UNCHANGED vars
  BY <1>5 DEF vars, OneChain
<1> QED
  BY <1>1, <1>2, <1>3, <1>4, <1>5 DEF Next

\* Going on in a playlist that begins within the window skips nothing in it.
LEMMA ContinueSkipsNone ==
    ASSUME NEW p \in Playlists, NEW from \in Int, NEW count \in Int, NEW stop \in BOOLEAN,
           loaded \in Int, p.first <= from, Continue(p, from, count, stop)
    PROVE  \/ loaded' = loaded /\ ~InHand'
           \/ /\ loaded' \in Int /\ InHand'
              /\ \A n \in Nat : from <= n /\ n <= loaded' => n <= loaded \/ n = loaded'
<1>1. p.first \in Int
  BY HlsAssumption DEF HlsAssumption, Playlists
<1>2. CASE EndPass(p, stop)
  BY <1>2 DEF EndPass, InHand
<1>3. CASE loaded' = FirstWanted(p, from) /\ awaiting' = "segment"
  BY <1>1, <1>3 DEF FirstWanted, Larger, InHand
<1> QED
  BY <1>2, <1>3 DEF Continue

LEMMA PlayedStays ==
    ASSUME Ahead
    PROVE  LET more == Append(played, loaded)
           IN  /\ \A n \in Nat : IsPlayed(n) => \E i \in DOMAIN more : more[i] = n
               /\ \E i \in DOMAIN more : more[i] = loaded
<1> DEFINE more == Append(played, loaded)
<1>1. /\ Len(played) \in Nat
      /\ DOMAIN played = 1..Len(played) /\ DOMAIN more = 1..(Len(played) + 1)
      /\ \A i \in 1..Len(played) : more[i] = played[i]
      /\ more[Len(played) + 1] = loaded
  BY AppendProperties, LenProperties DEF Ahead, NumbersOK
<1> QED
  BY <1>1 DEF IsPlayed

LEMMA NoneSkippedDemux ==
    ASSUME Ahead, Window, NoneSkipped, InHand, stopped \in BOOLEAN, Demux
    PROVE  Window' /\ NoneSkipped'
<1>1. /\ stopped' \in BOOLEAN
      /\ Continue(playlist, windowStart, inPass, stopped')
      /\ playlist' = playlist /\ windowStart' = windowStart
  BY Zenon DEF Demux
<1>2. \/ loaded' = loaded /\ ~InHand'
      \/ /\ loaded' \in Int /\ InHand'
         /\ \A n \in Nat : windowStart <= n /\ n <= loaded' => n <= loaded \/ n = loaded'
  BY <1>1, ContinueSkipsNone DEF Ahead, NumbersOK, Window
<1>3. Window'
  BY <1>1 DEF Window
<1>4. ASSUME Undisturbed', NEW n \in Nat, windowStart' <= n, n <= loaded'
      PROVE  IsPlayed(n)' \/ (n = loaded' /\ InHand')
  <2>1. Undisturbed /\ played' = Append(played, loaded)
    <3>1. ~stopped' /\ ~failed' /\ ~broken'
      BY <1>4 DEF Undisturbed
    <3>2. ~stopped
      BY <3>1, Zenon DEF Demux
    <3>3. ~broken
      BY <3>1, Zenon DEF Demux
    <3>4. ~failed
      BY <3>1, Zenon DEF Demux
    <3> QED
      BY <3>2, <3>3, <3>4 DEF Undisturbed, Demux
  <2>2. n <= loaded \/ (n = loaded' /\ InHand')
    BY <1>1, <1>2, <1>4
  <2>3. CASE n <= loaded
    <3>1. IsPlayed(n) \/ n = loaded
      BY <1>1, <1>4, <2>1, <2>3 DEF NoneSkipped
    <3>2. \E i \in DOMAIN played' : played'[i] = n
      BY <2>1, <3>1, PlayedStays, Zenon
    <3> QED
      BY <3>2 DEF IsPlayed
  <2> QED
    BY <2>2, <2>3
<1> QED
  BY <1>3, <1>4 DEF NoneSkipped

LEMMA NoneSkippedMedia ==
    ASSUME Ahead, NoneSkipped, NEW p \in Playlists, MediaAnswered(p)
    PROVE  Window' /\ NoneSkipped'
<1>1. p.first \in Int
  BY HlsAssumption DEF HlsAssumption, Playlists
<1>2. windowStart' \in Int /\ windowStart' >= windowStart /\ p.first <= windowStart'
  BY <1>1, LargerIsLarger DEF Ahead, NumbersOK, MediaAnswered
<1>3. PICK stop \in BOOLEAN : Continue(p, windowStart', 0, stop)
  BY Zenon DEF MediaAnswered
<1>4. \/ loaded' = loaded /\ ~InHand'
      \/ /\ loaded' \in Int /\ InHand'
         /\ \A n \in Nat : windowStart' <= n /\ n <= loaded' => n <= loaded \/ n = loaded'
  BY <1>2, <1>3, ContinueSkipsNone DEF Ahead, NumbersOK
<1>5. /\ played' = played /\ playlist' = p
      /\ stopped' = stopped /\ failed' = failed /\ broken' = broken
      /\ ~InHand
  BY DEF MediaAnswered, eventVars, InHand
<1>6. Window'
  BY <1>2, <1>5 DEF Window
<1>7. ASSUME Undisturbed', NEW n \in Nat, windowStart' <= n, n <= loaded'
      PROVE  IsPlayed(n)' \/ (n = loaded' /\ InHand')
  <2>1. n <= loaded \/ (n = loaded' /\ InHand')
    BY <1>4, <1>7
  <2>2. n <= loaded => IsPlayed(n)
    BY <1>2, <1>5, <1>7 DEF NoneSkipped, Undisturbed, Ahead, NumbersOK
  <2> QED
    BY <1>5, <2>1, <2>2 DEF IsPlayed
<1> QED
  BY <1>6, <1>7 DEF NoneSkipped

\* The steps that leave the segments alone, and may disturb the chain.
LEMMA NoneSkippedOther ==
    ASSUME Window, NoneSkipped, InHand' <=> InHand,
           Undisturbed' => Undisturbed,
           UNCHANGED <<loaded, windowStart, playlist, played>>
    PROVE  Window' /\ NoneSkipped'
  BY DEF Window, NoneSkipped, IsPlayed

LEMMA RejectedSkips ==
    ASSUME Rejected \/ RejectedLate
    PROVE  Window' /\ NoneSkipped'
  BY DEF Rejected, RejectedLate, Window, NoneSkipped, InHand, Undisturbed

LEMMA NoneSkippedStep ==
    ASSUME Ahead, OneChain, Window, NoneSkipped, stopped \in BOOLEAN, [Next]_vars
    PROVE  Window' /\ NoneSkipped'
<1>1. CASE Start
  <2>1. (InHand' <=> InHand) /\ (Undisturbed' => Undisturbed)
    BY <1>1 DEF Start, OneChain, InHand, Undisturbed, eventVars
  <2> QED
    BY <1>1, <2>1, NoneSkippedOther DEF Start, passVars, eventVars
<1>2. CASE Stop
  <2>1. (InHand' <=> InHand) /\ (Undisturbed' => Undisturbed)
    BY <1>2 DEF Stop, InHand, Undisturbed
  <2> QED
    BY <1>2, <2>1, NoneSkippedOther DEF Stop, passVars, eventVars
<1>3. CASE Answered
  <2>1. CASE ManifestAnswered
    BY <2>1, NoneSkippedOther
       DEF ManifestAnswered, InHand, Undisturbed, passVars, eventVars
  <2>2. CASE \E p \in Playlists : MediaAnswered(p)
    BY <2>2, NoneSkippedMedia
  <2>3. CASE SegmentAnswered
    <3>1. CASE loaded \in Encrypted
      BY <2>3, <3>1, NoneSkippedOther
         DEF SegmentAnswered, InHand, Undisturbed, passVars, eventVars
    <3>2. CASE loaded \notin Encrypted
      BY <2>3, <3>2, NoneSkippedDemux DEF SegmentAnswered, InHand
    <3> QED
      BY <3>1, <3>2
  <2>4. CASE KeyAnswered
    BY <2>4, NoneSkippedOther DEF KeyAnswered, InHand, Undisturbed, passVars, eventVars
  <2>5. CASE KeyImported
    BY <2>5, NoneSkippedOther DEF KeyImported, InHand, Undisturbed, passVars, eventVars
  <2>6. CASE Decrypted
    BY <2>6, NoneSkippedDemux DEF Decrypted, InHand
  <2> QED
    BY <1>3, <2>1, <2>2, <2>3, <2>4, <2>5, <2>6, RejectedSkips DEF Answered
<1>4. CASE Reload
  <2>1. (InHand' <=> InHand) /\ (Undisturbed' => Undisturbed)
    BY <1>4 DEF Reload, OneChain, InHand, Undisturbed, eventVars
  <2> QED
    BY <1>4, <2>1, NoneSkippedOther DEF Reload, eventVars
<1>5. CASE UNCHANGED vars
  BY <1>5, NoneSkippedOther DEF vars, InHand, Undisturbed, passVars, eventVars
<1> QED
  BY <1>1, <1>2, <1>3, <1>4, <1>5 DEF Next

\* What NoneSkipped rests on.
SkipInv == IInv /\ OneChain /\ Window /\ NoneSkipped

\* The segments a server lists have numbers.
Listed == listed \subseteq Nat

LEMMA ListedStep ==
    ASSUME Listed, [Next]_vars
    PROVE  Listed'
<1>1. \A p \in Playlists : p.first..p.last \subseteq Nat
  BY HlsAssumption DEF HlsAssumption, Playlists
<1>2. CASE \E p \in Playlists : MediaAnswered(p)
  BY <1>1, <1>2 DEF MediaAnswered, Listed
<1>3. CASE listed' = listed
  BY <1>3 DEF Listed
<1> QED
  BY <1>2, <1>3
     DEF Next, Start, Stop, Reload, Answered, ManifestAnswered, SegmentAnswered,
         KeyAnswered, KeyImported, Decrypted, Rejected, RejectedLate, Demux, vars

\* SkipsOnlyPruned: the catch-up window of HlsSource.streamSegments() delays
\* segments and drops none, for every window and every history of playlists.
THEOREM OnlyPrunedSkipped == Spec => []SkipsOnlyPruned
<1>1. Init => SkipInv /\ Listed
  <2>1. Init => OneChain /\ Window /\ NoneSkipped /\ Listed
    BY DEF Init, OneChain, Window, NoneSkipped, InHand, Listed
  <2> QED
    BY <2>1, AheadInit, Zenon DEF IInv, SkipInv
<1>2. SkipInv /\ [Next]_vars => SkipInv'
  BY AheadStep, StoppedStep, OneChainStep, NoneSkippedStep, Zenon DEF IInv, SkipInv
<1>3. Listed /\ [Next]_vars => Listed'
  BY ListedStep, Zenon
<1>4. SkipInv /\ Listed => SkipsOnlyPruned
  BY DEF SkipInv, NoneSkipped, SkipsOnlyPruned, Undisturbed, IsPlayed, InHand, Listed,
         Await, Fetches
<1> QED
  BY <1>1, <1>2, <1>3, <1>4, PTL DEF Spec

-----------------------------------------------------------------------------
(* HlsSource keeps the promise of MediaSource.                               *)

\* The segment whose events may come late is the last thing the chain does.
LateIsLast ==
    /\ lateDeliveries \in {0, 1}
    /\ lateDeliveries = 1 => stopped /\ awaiting = "nothing"

SourceInv == OneChain /\ LateIsLast /\ stopped \in BOOLEAN

\* What a step of the chain may do to a source that has started.
ChainStep ==
    /\ started /\ started'
    /\ awaiting # "nothing" \/ reloadTimer
    /\ stopped => stopped'
    /\ lateDeliveries' = lateDeliveries \/ (stopped' /\ lateDeliveries' = 1)

LEMMA DemuxIsLast ==
    ASSUME SourceInv, awaiting # "nothing", Demux
    PROVE  ChainStep /\ LateIsLast'
<1>1. lateDeliveries = 0 /\ started /\ stopped \in BOOLEAN
  BY DEF SourceInv, OneChain, LateIsLast
<1>5. started'
  BY <1>1, Zenon DEF Demux
<1>6. stopped => stopped'
  BY Zenon DEF Demux
<1>2. lateDeliveries' = 0 \/ (stopped' /\ lateDeliveries' = 1)
  BY <1>1 DEF Demux
<1>3. stopped' => awaiting' = "nothing"
  BY DEF Demux, Continue, EndPass
<1>4. stopped' \in BOOLEAN
  BY <1>1, Zenon DEF Demux
<1> QED
  BY <1>1, <1>2, <1>3, <1>4, <1>5, <1>6 DEF ChainStep, LateIsLast

LEMMA AnswerIsLast ==
    ASSUME SourceInv, Answered
    PROVE  ChainStep /\ LateIsLast'
<1> USE DEF SourceInv
<1>0. awaiting # "nothing" => started /\ lateDeliveries = 0
  BY DEF OneChain, LateIsLast
<1>1. CASE ManifestAnswered
  BY <1>0, <1>1 DEF ManifestAnswered, eventVars, ChainStep, LateIsLast
<1>2. CASE \E p \in Playlists : MediaAnswered(p)
  BY <1>0, <1>2 DEF MediaAnswered, eventVars, ChainStep, LateIsLast
<1>3. CASE SegmentAnswered
  <2>1. CASE loaded \in Encrypted
    BY <1>0, <1>3, <2>1 DEF SegmentAnswered, eventVars, ChainStep, LateIsLast
  <2>2. CASE loaded \notin Encrypted
    BY <1>3, <2>2, DemuxIsLast DEF SegmentAnswered
  <2> QED
    BY <2>1, <2>2
<1>4. CASE KeyAnswered
  BY <1>0, <1>4 DEF KeyAnswered, eventVars, ChainStep, LateIsLast
<1>5. CASE KeyImported
  BY <1>0, <1>5 DEF KeyImported, eventVars, ChainStep, LateIsLast
<1>6. CASE Decrypted
  BY <1>6, DemuxIsLast DEF Decrypted
<1>7. CASE Rejected
  BY <1>0, <1>7 DEF Rejected, eventVars, ChainStep, LateIsLast
<1>8. CASE RejectedLate
  BY <1>0, <1>8 DEF RejectedLate, eventVars, ChainStep, LateIsLast
<1> QED
  BY <1>1, <1>2, <1>3, <1>4, <1>5, <1>6, <1>7, <1>8 DEF Answered

LEMMA ReloadIsLast ==
    ASSUME SourceInv, Reload
    PROVE  ChainStep /\ LateIsLast'
  BY DEF SourceInv, OneChain, Reload, eventVars, ChainStep, LateIsLast

LEMMA SourceInvStep ==
    ASSUME SourceInv, [Next]_vars
    PROVE  SourceInv'
<1>1. OneChain' /\ stopped' \in BOOLEAN
  BY OneChainStep, StoppedStep DEF SourceInv
<1>2. CASE Start
  BY <1>1, <1>2 DEF Start, eventVars, SourceInv, LateIsLast
<1>3. CASE Stop
  BY <1>1, <1>3 DEF Stop, eventVars, SourceInv, LateIsLast
<1>4. CASE UNCHANGED vars
  BY <1>1, <1>4 DEF vars, eventVars, SourceInv, LateIsLast
<1> QED
  BY <1>1, <1>2, <1>3, <1>4, AnswerIsLast, ReloadIsLast DEF Next, SourceInv

\* A step of the chain is one of the source's own, or the end of what stop()
\* left behind.
LEMMA ChainMaps ==
    ASSUME SourceInv, stopped' \in BOOLEAN, ChainStep
    PROVE  Source!Next
<1> USE DEF ChainStep, SourceInv, LateIsLast
<1>1. CASE stopped
  BY <1>1 DEF Source!Next, Source!Drain
<1>2. CASE ~stopped /\ stopped'
  BY <1>2 DEF Source!Next, Source!Stop
<1>3. CASE ~stopped /\ ~stopped'
  BY <1>3 DEF Source!Next, Source!Run
<1> QED
  BY <1>1, <1>2, <1>3

LEMMA SourceMaps ==
    ASSUME SourceInv, [Next]_vars
    PROVE  [Source!Next]_(Source!vars)
<1>0. stopped' \in BOOLEAN
  BY StoppedStep DEF SourceInv
<1>1. CASE Start
  BY <1>1 DEF Start, eventVars, Source!Next, Source!Start
<1>2. CASE Stop
  <2>1. CASE stopped /\ awaiting = "nothing" /\ ~reloadTimer
    BY <1>2, <2>1 DEF Stop, eventVars, Source!vars
  <2>2. CASE stopped /\ (awaiting # "nothing" \/ reloadTimer)
    BY <1>2, <2>2 DEF Stop, eventVars, Source!Next, Source!Drain
  <2>3. CASE ~stopped
    BY <1>2, <2>3 DEF Stop, eventVars, Source!Next, Source!Stop
  <2> QED
    BY <2>1, <2>2, <2>3
<1>3. CASE Answered \/ Reload
  BY <1>0, <1>3, AnswerIsLast, ReloadIsLast, ChainMaps
<1>4. CASE UNCHANGED vars
  BY <1>4 DEF vars, eventVars, Source!vars
<1> QED
  BY <1>1, <1>2, <1>3, <1>4 DEF Next

\* The safety part of ImplementsSource: every step of HlsSource is a step of a
\* media source, in which stop() is final, a late start() begins nothing, and the
\* events of at most one segment, the one in hand, are dispatched after stop(),
\* however many they are: less than the SDK asks for (NoEventsAfterStop).
THEOREM StopIsFinal == Spec => Source!Init /\ [][Source!Next]_(Source!vars)
<1>1. Init => SourceInv /\ Source!Init
  <2>1. Init => SourceInv
    <3>1. Init => OneChain /\ LateIsLast
      BY DEF Init, OneChain, LateIsLast
    <3> QED
      BY <3>1, AheadInit, Zenon DEF SourceInv
  <2>2. ASSUME Init
        PROVE  Source!Init
    <3>1. /\ ~stopped /\ ~started /\ awaiting = "nothing" /\ ~reloadTimer
          /\ lateDeliveries = 0
      BY <2>2 DEF Init
    <3>2. (awaiting # "nothing" \/ reloadTimer) = FALSE
      BY <3>1
    <3> QED
      BY <3>1, <3>2, Zenon DEF Source!Init
  <2> QED
    BY <2>1, <2>2
<1>2. SourceInv /\ [Next]_vars => SourceInv'
  BY SourceInvStep, Zenon
<1>3. SourceInv /\ [Next]_vars => [Source!Next]_(Source!vars)
  BY SourceMaps, Zenon
<1> QED
  BY <1>1, <1>2, <1>3, PTL DEF Spec

=============================================================================
