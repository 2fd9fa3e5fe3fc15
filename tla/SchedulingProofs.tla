-------------------------- MODULE SchedulingProofs --------------------------
(***************************************************************************)
(* What the stall watchdog and the scheduler with its jitter buffer promise, *)
(* for every budget, capacity, threshold and length of a run.                *)
(*                                                                         *)
(* The watchdog: one inductive invariant, Watch: TypeOK, the order of the    *)
(* recorded times, and what an active episode remembers.                     *)
(*                                                                         *)
(* The scheduler, in four layers, each inductive given the ones before it:   *)
(*   Account       chunks are told apart by their numbers, and every number  *)
(*                 handed out is in exactly one place;                       *)
(*   InSession     what is buffered bears the timestamp of its capture;      *)
(*   ArrivalOrder  while no timestamp wraps, the buffer is in the order of   *)
(*                 arrival and behind what the decoder was given;            *)
(*   Based         the clock was based on some chunk, on whose arrival real  *)
(*                 time and the clock agreed, and they advanced together     *)
(*                 since: so lateness is the age of a chunk but for the      *)
(*                 delay of that one, which is at most MaxDelay.             *)
(* They rest on what the binary search of the buffer finds: the search is a  *)
(* recursive function, and SearchDefined proves that it exists: there is no  *)
(* least length of an interval up to which it could not be defined.          *)
(***************************************************************************)
EXTENDS MCScheduling, SequencesExt, WellFoundedInduction, FiniteSetTheorems, TLAPS

-----------------------------------------------------------------------------
(* The watchdog.                                                             *)

\* Nothing recorded is in the future.
PastOnly ==
    /\ lastDataAt <= clock
    /\ lastTick <= clock
    /\ episodeStart <= clock
    /\ evidence <= clock

\* A fatal verdict is remembered until data is seen.
FatalRemembered == fatals = 0 \/ (fatals = 1 /\ active /\ fatalReported)

\* The tick that started an episode is recorded in lastTick.
EpisodeTicked == active => lastTick >= episodeStart

Watch ==
    /\ TypeOK
    /\ PastOnly
    /\ ActiveIsDry
    /\ EpisodeTicked
    /\ RebufferHonest
    /\ FatalRemembered

\* TypeOK in two halves, which take different provers.
FlagsOK == active \in BOOLEAN /\ fatalReported \in BOOLEAN /\ verdict \in Verdicts

NumbersOK ==
    /\ clock \in Times
    /\ episodes \in Nat
    /\ rebuffer \in Nat
    /\ lastDataAt \in Times \cup {NoTime}
    /\ lastTick \in Times \cup {NoTime}
    /\ episodeStart \in Times
    /\ stalledTime \in Nat
    /\ evidence \in Times
    /\ fatals \in Nat

\* The invariant without the flags' types.
Numbers ==
    /\ NumbersOK
    /\ PastOnly
    /\ ActiveIsDry
    /\ EpisodeTicked
    /\ RebufferHonest
    /\ FatalRemembered

LEMMA WatchInit == Init => Watch
<1>1. Init => FlagsOK
  BY DEF Init, InitMonitor, FlagsOK, Verdicts
<1>2. Init => Numbers
  BY StallAssumption
     DEF StallAssumption, Init, InitMonitor, Numbers, NumbersOK, Times, NoTime,
         PastOnly, ActiveIsDry, EpisodeTicked, RebufferHonest, FatalRemembered
<1> QED
  BY <1>1, <1>2 DEF Watch, TypeOK, FlagsOK, Numbers, NumbersOK

LEMMA AdvanceWatches == Watch /\ Advance => Watch'
<1>1. FlagsOK /\ Advance => FlagsOK'
  BY DEF Advance, monitorVars, FlagsOK
<1>2. FlagsOK /\ Numbers /\ Advance => Numbers'
  BY StallAssumption
     DEF StallAssumption, Advance, monitorVars, FlagsOK, Numbers, NumbersOK,
         Times, NoTime, PastOnly, ActiveIsDry, EpisodeTicked, RebufferHonest,
         FatalRemembered
<1> QED
  BY <1>1, <1>2 DEF Watch, TypeOK, FlagsOK, Numbers, NumbersOK

LEMMA DataWatches == Watch /\ Data => Watch'
<1>1. FlagsOK /\ Data => FlagsOK'
  BY DEF Data, NoteData, FlagsOK
<1>2. FlagsOK /\ Numbers /\ Data => Numbers'
  BY StallAssumption
     DEF StallAssumption, Data, NoteData, Numbers, NumbersOK,
         Times, NoTime, PastOnly, ActiveIsDry, EpisodeTicked, RebufferHonest,
         FatalRemembered
<1> QED
  BY <1>1, <1>2 DEF Watch, TypeOK, FlagsOK, Numbers, NumbersOK

LEMMA TickWatches ==
    ASSUME Watch, NEW hasData \in BOOLEAN, Tick(hasData)
    PROVE  Watch'
<1>1. FlagsOK'
  BY DEF Tick, OnTick, TickWithData, TickStalled, TickQuiet, TickStartsEpisode,
         Watch, TypeOK, FlagsOK, Verdicts
<1>2. Numbers'
  <2> USE StallAssumption
      DEF StallAssumption, Accrue, Numbers, NumbersOK, Times, NoTime, PastOnly,
          ActiveIsDry, EpisodeTicked, RebufferHonest, FatalRemembered
  <2>0. Numbers
    BY DEF Watch, TypeOK
  <2>1. CASE hasData
    BY <2>0, <2>1 DEF Tick, OnTick, TickWithData
  <2>2. CASE ~hasData /\ TickStalled
    <3>1. /\ active /\ active' = active
          /\ verdict' = "fatal" => ~fatalReported /\ fatalReported'
          /\ fatalReported => fatalReported'
      BY <2>2 DEF TickStalled
    <3>2. /\ rebuffer' = IF lastTick # NoTime /\ clock > lastTick
                         THEN rebuffer + clock - lastTick ELSE rebuffer
          /\ lastTick' = clock
          /\ UNCHANGED <<episodes, lastDataAt, episodeStart>>
      BY <2>2 DEF TickStalled
    <3>3. /\ UNCHANGED <<clock, stalledTime, evidence>>
          /\ fatals' = IF verdict' = "fatal" THEN fatals + 1 ELSE fatals
      BY <2>2 DEF Tick
    <3>4. FatalRemembered'
      BY <2>0, <3>1, <3>3
    <3> QED
      BY <2>0, <3>1, <3>2, <3>3, <3>4
  <2>3. CASE ~hasData /\ TickQuiet
    BY <2>0, <2>3 DEF Tick, TickQuiet
  <2>4. CASE ~hasData /\ TickStartsEpisode
    BY <2>0, <2>4 DEF Tick, TickStartsEpisode
  <2> QED
    BY <2>1, <2>2, <2>3, <2>4 DEF Tick, OnTick
<1> QED
  BY <1>1, <1>2 DEF Watch, TypeOK, FlagsOK, Numbers, NumbersOK

LEMMA StutterWatches == Watch /\ UNCHANGED vars => Watch'
BY DEF vars, monitorVars, historyVars, Watch, TypeOK, PastOnly, ActiveIsDry,
       EpisodeTicked, RebufferHonest, FatalRemembered

\* The invariant of the watchdog, from which everything below follows.
THEOREM Watching == Spec => []Watch
<1>1. Watch /\ [Next]_vars => Watch'
  BY AdvanceWatches, DataWatches, TickWatches, StutterWatches DEF Next
<1> QED
  BY <1>1, WatchInit, PTL DEF Spec

-----------------------------------------------------------------------------
\* Type correctness.
THEOREM TypeCorrect == Spec => []TypeOK
<1>1. Watch => TypeOK
  BY DEF Watch
<1> QED
  BY <1>1, Watching, PTL

\* However long an episode lasts and however often it is ticked, it tears the
\* session down at most once before data is seen again.
THEOREM FatalAtMostOnce == Spec => []FatalOncePerEpisode
<1>1. Watch => FatalOncePerEpisode
  BY DEF Watch, FatalRemembered, FatalOncePerEpisode
<1> QED
  BY <1>1, Watching, PTL

\* The rebuffer statistic never exceeds the time spent stalled.
THEOREM RebufferIsHonest == Spec => []RebufferHonest
<1>1. Watch => RebufferHonest
  BY DEF Watch
<1> QED
  BY <1>1, Watching, PTL

\* While an episode is active no data was seen since before it started.
THEOREM EpisodesAreDry == Spec => []ActiveIsDry
<1>1. Watch => ActiveIsDry
  BY DEF Watch
<1> QED
  BY <1>1, Watching, PTL

\* A fatal verdict means silence longer than fatalStallMs, and longer than
\* fatalStallMs and stallThresholdMs together since the last arrival.
THEOREM FatalOnlyAfterSilence == Spec => FatalIsEarned
<1> DEFINE Earned == fatals' > fatals =>
                        /\ clock - evidence > FatalStall
                        /\ clock - lastDataAt > FatalStall + StallThreshold
<1>1. ASSUME Watch, Next PROVE Earned
  <2>1. CASE Advance \/ Data
    BY <1>1, <2>1 DEF Advance, Data, Watch, TypeOK
  <2>2. CASE \E hasData \in BOOLEAN : Tick(hasData)
    <3>1. PICK hasData \in BOOLEAN : Tick(hasData)
      BY <2>2
    <3>2. SUFFICES ASSUME fatals' > fatals
                   PROVE  /\ clock - evidence > FatalStall
                          /\ clock - lastDataAt > FatalStall + StallThreshold
      OBVIOUS
    <3>3. ~hasData /\ verdict' = "fatal"
      BY <1>1, <3>1, <3>2 DEF Tick, Watch, TypeOK
    <3>4. TickStalled
      BY <3>1, <3>3 DEF Tick, OnTick, TickQuiet, TickStartsEpisode
    <3>5. clock - episodeStart > FatalStall
      BY <3>3, <3>4 DEF TickStalled
    <3> QED
      BY <1>1, <3>4, <3>5, StallAssumption
         DEF StallAssumption, TickStalled, Watch, TypeOK, Times, NoTime, ActiveIsDry
  <2> QED
    BY <1>1, <2>1, <2>2 DEF Next
<1>2. Watch /\ [Next]_vars => [Earned]_vars
  BY <1>1
<1> QED
  BY <1>2, Watching, PTL DEF Spec, FatalIsEarned

-----------------------------------------------------------------------------
(* The buffer.                                                               *)

\* Division with remainder.
LEMMA DivMod ==
    ASSUME NEW a \in Int, NEW m \in Nat \ {0}
    PROVE  /\ a % m \in 0..(m - 1)
           /\ a \div m \in Int
           /\ a = m * (a \div m) + (a % m)
<1>1. a % m \in 0..(m - 1)
  BY SMTT(30)
<1>2. a \div m \in Int
  BY SMTT(30)
<1>3. a = m * (a \div m) + (a % m)
  BY SMTT(30)
<1> QED
  BY <1>1, <1>2, <1>3

\* The binary search of JitterBuffer, one interval of positions a step.
Ranges(s) == (0..Len(s)) \X (0..Len(s))
Middle(r) == (r[1] + r[2]) \div 2

SearchStep(s, ts, f, r) ==
    IF r[1] >= r[2] THEN r[1]
    ELSE IF s[Middle(r) + 1].ts <= ts THEN f[<<Middle(r) + 1, r[2]>>]
    ELSE f[<<r[1], Middle(r)>>]

Searches(s, ts, f) == f = [r \in Ranges(s) |-> SearchStep(s, ts, f, r)]

\* Of the numbers with a property there is a least one.
LEMMA LeastNumber ==
    ASSUME NEW S, S \subseteq Nat, S # {}
    PROVE  \E x \in S : \A y \in S : x <= y
<1>1. PICK x \in S : \A y \in S : <<y, x>> \notin OpToRel(<, Nat)
  BY NatLessThanWellFounded, WFMin, Zenon
<1>2. \A y \in S : ~(y < x)
  BY <1>1, Zenon DEF OpToRel
<1> QED
  BY <1>2

\* A step halves the interval.
LEMMA StepHalves ==
    ASSUME NEW s, NEW ts, Len(s) \in Nat, NEW r \in Ranges(s), r[1] < r[2]
    PROVE  /\ Middle(r) \in r[1]..(r[2] - 1)
           /\ <<Middle(r) + 1, r[2]>> \in Ranges(s)
           /\ <<r[1], Middle(r)>> \in Ranges(s)
<1>1. r[1] \in Nat /\ r[2] \in Nat /\ r[2] <= Len(s)
  BY DEF Ranges
<1>2. Middle(r) \in r[1]..(r[2] - 1)
  BY <1>1 DEF Middle
<1> QED
  BY <1>1, <1>2 DEF Ranges

\* A step asks only about shorter intervals.
LEMMA StepAsksShorter ==
    ASSUME NEW s, NEW ts, Len(s) \in Nat, NEW f, NEW g, NEW r \in Ranges(s),
           \A q \in Ranges(s) : q[2] - q[1] < r[2] - r[1] => f[q] = g[q]
    PROVE  SearchStep(s, ts, f, r) = SearchStep(s, ts, g, r)
<1>0. r[1] \in Nat /\ r[2] \in Nat
  BY DEF Ranges
<1>1. CASE r[1] >= r[2]
  BY <1>1 DEF SearchStep
<1>2. CASE r[1] < r[2]
  <2>1. /\ Middle(r) \in r[1]..(r[2] - 1)
        /\ <<Middle(r) + 1, r[2]>> \in Ranges(s)
        /\ <<r[1], Middle(r)>> \in Ranges(s)
    BY <1>2, StepHalves
  <2>2. f[<<Middle(r) + 1, r[2]>>] = g[<<Middle(r) + 1, r[2]>>]
    BY <1>0, <1>2, <2>1
  <2>3. f[<<r[1], Middle(r)>>] = g[<<r[1], Middle(r)>>]
    BY <1>0, <1>2, <2>1
  <2>4. ~(r[1] >= r[2])
    BY <1>0, <1>2
  <2> QED
    BY <2>2, <2>3, <2>4, Zenon DEF SearchStep
<1> QED
  BY <1>0, <1>1, <1>2

\* So the search is well defined.
LEMMA SearchDefined ==
    ASSUME NEW s, NEW ts, Len(s) \in Nat
    PROVE  \E f : Searches(s, ts, f)
<1> DEFINE Solves(f, n) == \A r \in Ranges(s) :
                              r[2] - r[1] <= n => f[r] = SearchStep(s, ts, f, r)
           Unsolved == {n \in Nat : ~\E f : Solves(f, n)}
<1>0. \A r \in Ranges(s) : r[1] \in Nat /\ r[2] \in Nat /\ r[2] <= Len(s)
  BY DEF Ranges
<1>1. 0 \notin Unsolved
  <2> DEFINE f == [r \in Ranges(s) |-> r[1]]
  <2>1. ASSUME NEW r \in Ranges(s), r[2] - r[1] <= 0
        PROVE  f[r] = SearchStep(s, ts, f, r)
    <3>1. r[1] >= r[2]
      BY <1>0, <2>1
    <3> QED
      BY <3>1 DEF SearchStep
  <2> HIDE DEF f
  <2> QED
    BY <2>1
<1>2. ASSUME NEW n \in Nat, n \notin Unsolved
      PROVE  n + 1 \notin Unsolved
  <2>1. PICK f : Solves(f, n)
    BY <1>2
  <2> DEFINE g == [r \in Ranges(s) |-> IF r[2] - r[1] <= n THEN f[r]
                                       ELSE SearchStep(s, ts, f, r)]
  <2>2. ASSUME NEW r \in Ranges(s), r[2] - r[1] <= n + 1
        PROVE  g[r] = SearchStep(s, ts, g, r)
    <3>1. g[r] = SearchStep(s, ts, f, r)
      BY <2>1
    <3>2. \A q \in Ranges(s) : q[2] - q[1] < r[2] - r[1] => f[q] = g[q]
      BY <1>0, <2>2
    <3> HIDE DEF g
    <3>3. SearchStep(s, ts, f, r) = SearchStep(s, ts, g, r)
      BY <3>2, StepAsksShorter
    <3> QED
      BY <3>1, <3>3
  <2> HIDE DEF g
  <2>3. Solves(g, n + 1)
    BY <2>2
  <2> QED
    BY <2>3
<1>3. Unsolved = {}
  <2> SUFFICES ASSUME Unsolved # {}
               PROVE  FALSE
    OBVIOUS
  <2>0. Unsolved \subseteq Nat
    OBVIOUS
  <2> HIDE DEF Unsolved
  <2>1. PICK n \in Unsolved : \A m \in Unsolved : n <= m
    BY <2>0, LeastNumber
  <2>2. n # 0 /\ n \in Nat
    BY <1>1, <2>0, <2>1
  <2>3. n - 1 \in Nat /\ n - 1 \notin Unsolved
    BY <2>1, <2>2
  <2>4. (n - 1) + 1 \notin Unsolved
    BY <1>2, <2>3
  <2> QED
    BY <2>1, <2>2, <2>4
<1>4. PICK f : Solves(f, Len(s))
  BY <1>3
<1> DEFINE h == [r \in Ranges(s) |-> f[r]]
<1>5. ASSUME NEW r \in Ranges(s)
      PROVE  h[r] = SearchStep(s, ts, h, r)
  <2>1. r[2] - r[1] <= Len(s)
    BY <1>0
  <2>2. h[r] = SearchStep(s, ts, f, r)
    BY <1>4, <2>1
  <2>3. \A q \in Ranges(s) : q[2] - q[1] < r[2] - r[1] => f[q] = h[q]
    OBVIOUS
  <2> HIDE DEF h
  <2>4. SearchStep(s, ts, f, r) = SearchStep(s, ts, h, r)
    BY <2>3, StepAsksShorter
  <2> QED
    BY <2>2, <2>4
<1>6. h = [r \in Ranges(s) |-> SearchStep(s, ts, h, r)]
  <2>1. h = [r \in Ranges(s) |-> h[r]]
    OBVIOUS
  <2> HIDE DEF h
  <2> QED
    BY <1>5, <2>1
<1> QED
  BY <1>6 DEF Searches

\* It answers a position of the interval, and the last one if every chunk is as
\* old as the timestamp or older.
LEMMA SearchFinds ==
    ASSUME NEW s, NEW ts, Len(s) \in Nat
    PROVE  /\ Player!J!SearchFrom(s, ts) \in 0..Len(s)
           /\ (\A i \in 1..Len(s) : s[i].ts <= ts) => Player!J!SearchFrom(s, ts) = Len(s)
<1> DEFINE search == CHOOSE f : Searches(s, ts, f)
           Older == \A i \in 1..Len(s) : s[i].ts <= ts
           Found(r) == search[r] \in r[1]..r[2] /\ (Older => search[r] = r[2])
           Lost == {n \in Nat : \E r \in Ranges(s) :
                                   r[1] <= r[2] /\ r[2] - r[1] = n /\ ~Found(r)}
<1>1. Player!J!SearchFrom(s, ts) = search[<<0, Len(s)>>]
  BY DEF Player!J!SearchFrom, Searches, SearchStep, Middle, Ranges
<1>2. Searches(s, ts, search)
  BY SearchDefined
<1>3. \A r \in Ranges(s) : r[1] \in Nat /\ r[2] \in Nat /\ r[2] <= Len(s)
  BY DEF Ranges
<1> HIDE DEF search
<1>4. \A r \in Ranges(s) : search[r] = SearchStep(s, ts, search, r)
  BY <1>2 DEF Searches
<1>5. ASSUME NEW r \in Ranges(s), r[1] <= r[2],
             \A q \in Ranges(s) :
                q[1] <= q[2] /\ q[2] - q[1] < r[2] - r[1] => Found(q)
      PROVE  Found(r)
  <2>0. r[1] \in Nat /\ r[2] \in Nat /\ r[2] <= Len(s)
    BY <1>3
  <2>1. CASE r[1] >= r[2]
    <3>1. search[r] = r[1]
      BY <1>4, <2>1, Zenon DEF SearchStep
    <3>0. r[1] = r[2]
      BY <1>5, <2>0, <2>1
    <3>2. search[r] \in r[1]..r[2] /\ search[r] = r[2]
      BY <2>0, <3>0, <3>1
    <3> QED
      BY <3>2
  <2>2. CASE r[1] < r[2]
    <3>1. /\ Middle(r) \in r[1]..(r[2] - 1)
          /\ <<Middle(r) + 1, r[2]>> \in Ranges(s)
          /\ <<r[1], Middle(r)>> \in Ranges(s)
      BY <2>2, StepHalves
    <3>2. Found(<<Middle(r) + 1, r[2]>>) /\ Found(<<r[1], Middle(r)>>)
      <4>1. PICK m \in Nat : m = Middle(r) /\ r[1] <= m /\ m < r[2]
        BY <2>0, <3>1
      <4>2. /\ m + 1 <= r[2] /\ r[2] - (m + 1) < r[2] - r[1]
            /\ r[1] <= m /\ m - r[1] < r[2] - r[1]
        BY <2>0, <4>1
      <4>3. Found(<<m + 1, r[2]>>)
        BY <1>5, <3>1, <4>1, <4>2
      <4>4. Found(<<r[1], m>>)
        BY <1>5, <3>1, <4>1, <4>2
      <4> QED
        BY <4>1, <4>3, <4>4
    <3>3. Older => s[Middle(r) + 1].ts <= ts
      BY <2>0, <3>1
    <3>4. search[r] = IF s[Middle(r) + 1].ts <= ts
                      THEN search[<<Middle(r) + 1, r[2]>>]
                      ELSE search[<<r[1], Middle(r)>>]
      BY <1>4, <2>0, <2>2 DEF SearchStep
    <3>5. CASE s[Middle(r) + 1].ts <= ts
      BY <2>0, <3>1, <3>2, <3>4, <3>5
    <3>6. CASE ~(s[Middle(r) + 1].ts <= ts)
      BY <2>0, <3>1, <3>2, <3>3, <3>4, <3>6
    <3> QED
      BY <3>5, <3>6
  <2> QED
    BY <2>0, <2>1, <2>2
<1> HIDE DEF Found
<1>6. Lost = {}
  <2> SUFFICES ASSUME Lost # {}
               PROVE  FALSE
    OBVIOUS
  <2>1. PICK n \in Lost : \A m \in Lost : n <= m
    BY LeastNumber
  <2>2. PICK r \in Ranges(s) : r[1] <= r[2] /\ r[2] - r[1] = n /\ ~Found(r)
    BY <2>1
  <2>3. PICK q \in Ranges(s) : q[1] <= q[2] /\ q[2] - q[1] < r[2] - r[1] /\ ~Found(q)
    BY <1>5, <2>2
  <2>4. q[2] - q[1] \in Lost
    <3>1. q[1] \in Nat /\ q[2] \in Nat /\ q[2] - q[1] \in Nat
      BY <1>3, <2>3
    <3> QED
      BY <2>3, <3>1
  <2> QED
    BY <1>3, <2>1, <2>2, <2>3, <2>4
<1>7. <<0, Len(s)>> \in Ranges(s)
  BY DEF Ranges
<1>8. Found(<<0, Len(s)>>)
  BY <1>6, <1>7
<1> QED
  BY <1>1, <1>8 DEF Found
\* An interval of a sequence.
LEMMA Part ==
    ASSUME NEW S, NEW s \in Seq(S), NEW m \in Nat, NEW n \in Nat, m >= 1, m <= n + 1, n <= Len(s)
    PROVE  /\ SubSeq(s, m, n) \in Seq(S)
           /\ Len(SubSeq(s, m, n)) = n - m + 1
           /\ \A i \in 1..(n - m + 1) : SubSeq(s, m, n)[i] = s[i + m - 1]
<1>1. \A i \in m..n : s[i] \in S
  OBVIOUS
<1> QED
  BY <1>1

\* Insert puts one chunk between the others and leaves them as they are.
Inserted(s, c, k, all) ==
    /\ Len(all) = Len(s) + 1
    /\ \A i \in 1..(Len(s) + 1) :
          all[i] = IF i <= k THEN s[i] ELSE IF i = k + 1 THEN c ELSE s[i - 1]

LEMMA InsertKeeps ==
    ASSUME NEW S, NEW s \in Seq(S), NEW c \in S
    PROVE  /\ Player!J!SearchFrom(s, c.ts) \in 0..Len(s)
           /\ Player!J!Insert(s, c) \in Seq(S)
           /\ Inserted(s, c, Player!J!SearchFrom(s, c.ts), Player!J!Insert(s, c))
<1> DEFINE k     == Player!J!SearchFrom(s, c.ts)
           front == SubSeq(s, 1, k)
           back  == SubSeq(s, k + 1, Len(s))
           all   == Player!J!Insert(s, c)
<1>1. k \in 0..Len(s)
  BY SearchFinds
<1> HIDE DEF k
<1>2. /\ front \in Seq(S) /\ Len(front) = k
      /\ \A i \in 1..k : front[i] = s[i]
  BY <1>1, Part
<1>3. /\ back \in Seq(S) /\ Len(back) = Len(s) - k
      /\ \A i \in 1..(Len(s) - k) : back[i] = s[i + k]
  <2>1. Len(s) \in Nat /\ k + 1 \in Nat /\ k + 1 >= 1 /\ k + 1 <= Len(s) + 1
    BY <1>1
  <2>2. /\ back \in Seq(S) /\ Len(back) = Len(s) - (k + 1) + 1
        /\ \A i \in 1..(Len(s) - (k + 1) + 1) : back[i] = s[i + (k + 1) - 1]
    BY <2>1, Part
  <2> QED
    BY <2>1, <2>2, <1>1
<1>4. all = front \o <<c>> \o back
  <2>1. (k + 1) - 1 = k
    BY <1>1
  <2> QED
    BY <2>1, Zenon DEF Player!J!Insert, Player!J!InsertAt, k, front, back, all
<1> HIDE DEF front, back, all
<1>5. /\ front \o <<c>> \in Seq(S) /\ Len(front \o <<c>>) = k + 1
      /\ \A i \in 1..k : (front \o <<c>>)[i] = s[i]
      /\ (front \o <<c>>)[k + 1] = c
  BY <1>1, <1>2
<1>6. /\ all \in Seq(S) /\ Len(all) = Len(s) + 1
      /\ \A i \in 1..(k + 1) : all[i] = (front \o <<c>>)[i]
      /\ \A i \in (k + 2)..(Len(s) + 1) : all[i] = back[i - (k + 1)]
  BY <1>1, <1>3, <1>4, <1>5
<1>7. ASSUME NEW i \in 1..(Len(s) + 1)
      PROVE  all[i] = IF i <= k THEN s[i] ELSE IF i = k + 1 THEN c ELSE s[i - 1]
  <2>1. CASE i <= k + 1
    BY <1>1, <1>5, <1>6, <2>1
  <2>2. CASE i > k + 1
    <3>1. i \in (k + 2)..(Len(s) + 1) /\ i - (k + 1) \in 1..(Len(s) - k)
      BY <1>1, <2>2
    <3>2. (i - (k + 1)) + k = i - 1
      BY <1>1
    <3>3. all[i] = back[i - (k + 1)] /\ back[i - (k + 1)] = s[(i - (k + 1)) + k]
      BY <1>3, <1>6, <3>1
    <3>4. ~(i <= k) /\ i # k + 1
      BY <1>1, <2>2
    <3> QED
      BY <3>2, <3>3, <3>4
  <2> QED
    BY <1>1, <2>1, <2>2
<1> QED
  BY <1>1, <1>6, <1>7 DEF all, k, Inserted
-----------------------------------------------------------------------------
(* The scheduler.                                                            *)

LEMMA PlayerBounds ==
    /\ Budget \in Nat /\ Capacity \in Nat /\ MaxDelay \in Nat
    /\ MaxSwitches \in Nat /\ MaxChunks \in Nat /\ Horizon \in Nat
    /\ HighWater \in Nat \ {0} /\ Wrap \in Nat \ {0}
    /\ WallOrigin \in Int /\ Ahead \in Int
    /\ Origins \subseteq 0..(Wrap - 1)
<1>1. \A x \in {Budget, Capacity, FatalAfter, DriftWindow, DriftLimit, MaxDelay,
               MaxSwitches, MaxChunks, Horizon, ClockChunks, ClockHorizon} : x \in Nat
  BY SchedulingAssumption, Zenon DEF SchedulingAssumption
<1>2. \A x \in {WallOrigin, Ahead} : x \in Int
  BY SchedulingAssumption, Zenon DEF SchedulingAssumption
<1> QED
  BY <1>1, <1>2, SchedulingAssumption DEF SchedulingAssumption

\* Types, without the bounds that follow from the account.
PlayerTypes ==
    /\ time \in 0..Horizon
    /\ audio \in {"none", "running", "suspended"}
    /\ audioTime \in Int
    /\ switches \in 0..MaxSwitches
    /\ origin \in Origins
    /\ sentLast \in 0..time
    /\ arrivals \in 0..MaxChunks
    /\ jitter \in Seq(Player!Chunk) /\ Len(jitter) <= Capacity
    /\ overflowed \subseteq Player!Chunk
    /\ base \in [pts : 0..(Wrap - 1), time : Int, set : BOOLEAN, id : 0..MaxChunks]
    /\ decoding \in Seq(Player!Chunk) /\ Len(decoding) <= HighWater
    /\ decodedLast \in 0..MaxChunks
    /\ framesDecoded \in Nat
    /\ framesDropped \in Nat

\* Chunks are told apart by the numbers of their arrival.
Numbered ==
    /\ \A i \in 1..Len(jitter) : jitter[i].id <= arrivals
    /\ \A i, j \in 1..Len(jitter) : jitter[i].id = jitter[j].id => i = j
    /\ \A c \in overflowed : /\ c.id <= arrivals
                             /\ \A i \in 1..Len(jitter) : c.id # jitter[i].id

Account ==
    /\ PlayerTypes
    /\ Numbered
    /\ IsFiniteSet(overflowed)
    /\ Player!FramesAccountedOrOverflowed

\* What is accounted for, with the library's Cardinality.
LEMMA AccountSum ==
    Player!FramesAccountedOrOverflowed <=>
        arrivals = Len(jitter) + Len(decoding) + framesDecoded + framesDropped
                   + Cardinality(overflowed)
BY Zenon DEF Player!FramesAccountedOrOverflowed, Player!Cardinality, Cardinality

LEMMA AccountSumNext ==
    Player!FramesAccountedOrOverflowed' <=>
        arrivals' = Len(jitter') + Len(decoding') + framesDecoded' + framesDropped'
                    + Cardinality(overflowed')
BY Zenon DEF Player!FramesAccountedOrOverflowed, Player!Cardinality, Cardinality

LEMMA AccountInit == Player!Init => Account
<1> SUFFICES ASSUME Player!Init
             PROVE  Account
  OBVIOUS
<1>1. PlayerTypes
  <2>1. jitter \in Seq(Player!Chunk) /\ Len(jitter) = 0
    BY DEF Player!Init
  <2>2. decoding \in Seq(Player!Chunk) /\ Len(decoding) = 0
    BY DEF Player!Init
  <2>3. base \in [pts : 0..(Wrap - 1), time : Int, set : BOOLEAN, id : 0..MaxChunks]
    BY PlayerBounds DEF Player!Init
  <2> QED
    BY <2>1, <2>2, <2>3, PlayerBounds
       DEF PlayerTypes, Player!Init
<1>2. Cardinality(overflowed) = 0 /\ IsFiniteSet(overflowed)
  BY FS_EmptySet DEF Player!Init
<1>3. Numbered
  BY DEF Numbered, Player!Init
<1>4. /\ Len(jitter) = 0 /\ Len(decoding) = 0
      /\ arrivals = 0 /\ framesDecoded = 0 /\ framesDropped = 0
  BY DEF Player!Init
<1>5. Player!FramesAccountedOrOverflowed
  BY <1>2, <1>4, AccountSum
<1> QED
  BY <1>1, <1>2, <1>3, <1>5 DEF Account

\* The buffer after push(): the chunks in it, and what of them is dropped.
LEMMA PushKeeps ==
    ASSUME Account, NEW c \in Player!Chunk, c.id > arrivals, Player!J!Push(c)
    PROVE  /\ jitter' \in Seq(Player!Chunk) /\ Len(jitter') <= Capacity
           /\ overflowed' \subseteq Player!Chunk
           /\ IsFiniteSet(overflowed')
           /\ Len(jitter') + Cardinality(overflowed')
                 = Len(jitter) + Cardinality(overflowed) + 1
           /\ \A i \in 1..Len(jitter') : jitter'[i].id <= c.id
           /\ \A i, j \in 1..Len(jitter') : jitter'[i].id = jitter'[j].id => i = j
           /\ \A d \in overflowed' : /\ d.id <= c.id
                                     /\ \A i \in 1..Len(jitter') : d.id # jitter'[i].id
<1> DEFINE all == Player!J!Insert(jitter, c)
           k   == Player!J!SearchFrom(jitter, c.ts)
           n   == Len(jitter)
<1>1. /\ jitter \in Seq(Player!Chunk) /\ n \in Nat /\ n <= Capacity
      /\ Capacity \in Nat /\ arrivals \in Nat
  BY PlayerBounds DEF Account, PlayerTypes
<1>2. /\ k \in 0..n /\ all \in Seq(Player!Chunk) /\ Len(all) = n + 1
      /\ \A i \in 1..(n + 1) :
            all[i] = IF i <= k THEN jitter[i] ELSE IF i = k + 1 THEN c ELSE jitter[i - 1]
  <2>1. k \in 0..n /\ all \in Seq(Player!Chunk) /\ Inserted(jitter, c, k, all)
    BY <1>1, InsertKeeps
  <2> HIDE DEF k, all
  <2> QED
    BY <2>1 DEF Inserted
<1>3. /\ jitter' = SubSeq(all, Player!J!Overflow(all) + 1, Len(all))
      /\ overflowed' = overflowed \cup Player!J!ToSet(SubSeq(all, 1, Player!J!Overflow(all)))
  BY DEF Player!J!Push
<1> HIDE DEF all, k, n
<1>4. ASSUME NEW i \in 1..(n + 1)
      PROVE  all[i] \in Player!Chunk /\ all[i].id \in Nat /\ all[i].id <= c.id
  <2>1. all[i] \in Player!Chunk
    BY <1>1, <1>2
  <2>2. all[i].id \in Nat /\ c.id \in Nat
    BY <2>1 DEF Player!Chunk
  <2>3. \A j \in 1..n : jitter[j].id <= arrivals /\ jitter[j] \in Player!Chunk
    BY <1>1 DEF Account, Numbered, n
  <2>4. \A j \in 1..n : jitter[j].id <= c.id
    BY <1>1, <2>2, <2>3 DEF Player!Chunk
  <2>5. all[i] = c \/ \E j \in 1..n : all[i] = jitter[j]
    <3>1. (i <= k => i \in 1..n) /\ (i > k + 1 => i - 1 \in 1..n /\ ~(i <= k) /\ i # k + 1)
          /\ (i <= k \/ i = k + 1 \/ i > k + 1)
      BY <1>1, <1>2
    <3> QED
      BY <1>2, <3>1
  <2>6. all[i].id <= c.id
    BY <2>2, <2>4, <2>5
  <2> QED
    BY <2>1, <2>2, <2>6
<1>5. ASSUME NEW i \in 1..(n + 1), NEW j \in 1..(n + 1), all[i].id = all[j].id
      PROVE  i = j
  <2>1. \A a \in 1..n : jitter[a].id # c.id
    <3>1. \A a \in 1..n : jitter[a].id <= arrivals /\ jitter[a] \in Player!Chunk
      BY <1>1 DEF Account, Numbered, n
    <3> QED
      BY <1>1, <3>1 DEF Player!Chunk
  <2>2. \A a, b \in 1..n : jitter[a].id = jitter[b].id => a = b
    BY DEF Account, Numbered, n
  <2>3. ASSUME NEW a \in 1..(n + 1), a # k + 1
        PROVE  \E b \in 1..n : all[a] = jitter[b] /\ b = IF a <= k THEN a ELSE a - 1
    <3>1. CASE a <= k
      <4>1. a \in 1..n /\ all[a] = jitter[a]
        BY <1>1, <1>2, <3>1
      <4> QED
        BY <3>1, <4>1
    <3>2. CASE a > k
      <4>1. a - 1 \in 1..n /\ all[a] = jitter[a - 1] /\ ~(a <= k)
        BY <1>1, <1>2, <2>3, <3>2
      <4> QED
        BY <4>1
    <3>3. a <= k \/ a > k
      BY <1>1, <1>2
    <3> QED
      BY <3>1, <3>2, <3>3
  <2>4. k + 1 \in 1..(n + 1) /\ all[k + 1] = c
    <3>1. k + 1 \in 1..(n + 1) /\ ~(k + 1 <= k)
      BY <1>1, <1>2
    <3> QED
      BY <1>2, <3>1
  <2>5. ASSUME NEW a \in 1..(n + 1), a # k + 1
        PROVE  all[a].id # c.id
    BY <2>1, <2>3, <2>5
  <2>6. CASE i = k + 1 \/ j = k + 1
    BY <1>5, <2>4, <2>5, <2>6
  <2>7. CASE i # k + 1 /\ j # k + 1
    <3>1. PICK a \in 1..n : all[i] = jitter[a] /\ a = IF i <= k THEN i ELSE i - 1
      BY <2>3, <2>7
    <3>2. PICK b \in 1..n : all[j] = jitter[b] /\ b = IF j <= k THEN j ELSE j - 1
      BY <2>3, <2>7
    <3>3. a = b
      BY <1>5, <2>2, <3>1, <3>2
    <3>4. i \in Nat /\ j \in Nat /\ k \in Nat
      BY <1>1, <1>2
    <3> QED
      BY <2>7, <3>1, <3>2, <3>3, <3>4
  <2> QED
    BY <2>6, <2>7
<1>6. ASSUME NEW d \in overflowed
      PROVE  /\ d \in Player!Chunk /\ d.id \in Nat /\ d.id <= c.id
             /\ \A i \in 1..(n + 1) : d.id # all[i].id
  <2>1. d \in Player!Chunk /\ d.id <= arrivals /\ \A i \in 1..n : d.id # jitter[i].id
    BY DEF Account, PlayerTypes, Numbered, n
  <2>2. d.id \in Nat /\ c.id \in Nat
    BY <2>1 DEF Player!Chunk
  <2>3. d.id < c.id
    BY <1>1, <2>1, <2>2
  <2>4. ASSUME NEW i \in 1..(n + 1)
        PROVE  d.id # all[i].id
    <3>1. CASE i = k + 1
      BY <1>1, <1>2, <2>2, <2>3, <3>1
    <3>2. CASE i <= k
      BY <1>1, <1>2, <2>1, <3>2
    <3>3. CASE i > k + 1
      BY <1>1, <1>2, <2>1, <3>3
    <3> QED
      BY <1>2, <3>1, <3>2, <3>3
  <2> QED
    BY <2>1, <2>2, <2>3, <2>4
<1>7. IsFiniteSet(overflowed) /\ Cardinality(overflowed) \in Nat
  BY FS_CardinalityType DEF Account
<1>8. CASE n + 1 <= Capacity
  <2>1. Player!J!Overflow(all) = 0
    BY <1>1, <1>2, <1>8 DEF Player!J!Overflow
  <2>2. SubSeq(all, 0 + 1, Len(all)) = all
    BY <1>1, <1>2
  <2>3. jitter' = all
    BY <1>3, <2>1, <2>2
  <2>4. SubSeq(all, 1, 0) = <<>>
    BY <1>2
  <2>5. Player!J!ToSet(<<>>) = {}
    BY DEF Player!J!ToSet
  <2>6. overflowed' = overflowed
    BY <1>3, <2>1, <2>4, <2>5
  <2>7. overflowed' \subseteq Player!Chunk /\ IsFiniteSet(overflowed')
    BY <1>7, <2>6 DEF Account, PlayerTypes
  <2>8. jitter' \in Seq(Player!Chunk) /\ Len(jitter') = n + 1
    BY <1>2, <2>3
  <2>9. Len(jitter') + Cardinality(overflowed')
           = Len(jitter) + Cardinality(overflowed) + 1
    BY <1>1, <1>7, <2>6, <2>8 DEF n
  <2>10. \A i \in 1..(n + 1) : jitter'[i] = all[i]
    BY <2>3
  <2> QED
    BY <1>1, <1>4, <1>5, <1>6, <1>8, <2>6, <2>7, <2>8, <2>9, <2>10
<1>9. CASE n + 1 > Capacity
  <2>1. Player!J!Overflow(all) = 1 /\ n = Capacity
    BY <1>1, <1>2, <1>9 DEF Player!J!Overflow
  <2>2. jitter' = SubSeq(all, 1 + 1, Len(all))
    BY <1>3, <2>1
  <2>3. /\ jitter' \in Seq(Player!Chunk) /\ Len(jitter') = n
        /\ \A i \in 1..n : jitter'[i] = all[i + 1]
    BY <1>1, <1>2, <2>2
  <2>4. Len(SubSeq(all, 1, 1)) = 1 /\ SubSeq(all, 1, 1)[1] = all[1]
    BY <1>1, <1>2
  <2>5. Player!J!ToSet(SubSeq(all, 1, 1)) = {all[1]}
    BY <1>1, <1>2, <2>4 DEF Player!J!ToSet
  <2>6. overflowed' = overflowed \cup {all[1]}
    BY <1>3, <2>1, <2>5
  <2>7. all[1] \notin overflowed /\ all[1] \in Player!Chunk
    BY <1>1, <1>4, <1>6
  <2>8. IsFiniteSet(overflowed') /\ Cardinality(overflowed') = Cardinality(overflowed) + 1
    BY <1>7, <2>6, <2>7, FS_AddElement
  <2>9. \A i \in 1..n : i + 1 \in 1..(n + 1) /\ i + 1 # 1
    BY <1>1
  <2>10. \A i \in 1..n : all[1].id # jitter'[i].id
    BY <1>1, <1>5, <2>3, <2>9
  <2>11. \A i \in 1..n : jitter'[i].id <= c.id
    BY <1>4, <2>3, <2>9
  <2>12. ASSUME NEW i \in 1..n, NEW j \in 1..n, jitter'[i].id = jitter'[j].id
         PROVE  i = j
    <3>1. i + 1 = j + 1
      BY <1>5, <2>3, <2>9, <2>12
    <3> QED
      BY <3>1
  <2>13. \A d \in overflowed' : /\ d.id <= c.id
                                /\ \A i \in 1..n : d.id # jitter'[i].id
    BY <1>1, <1>4, <1>6, <2>3, <2>6, <2>9, <2>10
  <2>14. overflowed' \subseteq Player!Chunk
    BY <1>6, <2>6, <2>7
  <2> QED
    BY <1>1, <1>7, <2>1, <2>3, <2>8, <2>11, <2>12, <2>13, <2>14 DEF n
<1> QED
  BY <1>1, <1>8, <1>9

\* One chunk arrives.
LEMMA ArrivalAccounts ==
    ASSUME Account, Player!Arrival
    PROVE  Account'
<1>1. PICK sent \in sentLast..time : time - sent <= MaxDelay /\ Player!Enqueue(sent)
  BY DEF Player!Arrival
<1> DEFINE ts == (sent + origin) % Wrap
           c  == [ts |-> ts, id |-> arrivals', sent |-> sent]
<1>2. /\ arrivals < MaxChunks /\ arrivals' = arrivals + 1 /\ sentLast' = sent
      /\ base' = IF clockReset THEN base
                 ELSE [pts |-> ts, time |-> Player!Now, set |-> TRUE, id |-> arrivals']
      /\ Player!J!Push(c)
      /\ UNCHANGED <<time, audio, audioTime, switches, origin, decoding, decodedLast,
                     framesDecoded, framesDropped>>
  BY <1>1 DEF Player!Enqueue, Player!audioVars
<1>3. PlayerTypes /\ Numbered
  BY DEF Account
<1>4. /\ time \in Nat /\ time <= Horizon /\ sentLast \in Nat /\ arrivals \in Nat
      /\ origin \in 0..(Wrap - 1)
  BY <1>3, PlayerBounds DEF PlayerTypes
<1>5. /\ sent \in 0..Horizon /\ sent \in 0..time'
      /\ arrivals' \in 1..MaxChunks
      /\ ts \in 0..(Wrap - 1)
  <2>1. sent \in Nat /\ sent <= time
    BY <1>1, <1>4
  <2>2. sent + origin \in Int
    BY <1>4, <2>1, PlayerBounds
  <2>3. ts \in 0..(Wrap - 1)
    BY <2>2, DivMod, PlayerBounds
  <2> HIDE DEF ts
  <2> QED
    BY <1>2, <1>4, <2>1, <2>3, PlayerBounds
<1>6. Player!Now \in Int
  BY <1>3, <1>4, PlayerBounds DEF PlayerTypes, Player!Now
<1> HIDE DEF ts
<1>7. c \in Player!Chunk /\ c.id = arrivals + 1 /\ c.id > arrivals
  BY <1>2, <1>4, <1>5 DEF Player!Chunk
<1> HIDE DEF c
<1>8. /\ jitter' \in Seq(Player!Chunk) /\ Len(jitter') <= Capacity
      /\ overflowed' \subseteq Player!Chunk
      /\ IsFiniteSet(overflowed')
      /\ Len(jitter') + Cardinality(overflowed')
            = Len(jitter) + Cardinality(overflowed) + 1
      /\ \A i \in 1..Len(jitter') : jitter'[i].id <= c.id
      /\ \A i, j \in 1..Len(jitter') : jitter'[i].id = jitter'[j].id => i = j
      /\ \A d \in overflowed' : /\ d.id <= c.id
                                /\ \A i \in 1..Len(jitter') : d.id # jitter'[i].id
  BY <1>2, <1>7, PushKeeps
<1>9. base' \in [pts : 0..(Wrap - 1), time : Int, set : BOOLEAN, id : 0..MaxChunks]
  BY <1>2, <1>3, <1>5, <1>6, PlayerBounds DEF PlayerTypes
<1>10. PlayerTypes'
  BY <1>2, <1>3, <1>5, <1>8, <1>9, PlayerBounds DEF PlayerTypes
<1>11. Numbered'
  BY <1>2, <1>7, <1>8 DEF Numbered
<1>12. IsFiniteSet(overflowed) /\ Cardinality(overflowed) \in Nat
       /\ Cardinality(overflowed') \in Nat
  BY <1>8, FS_CardinalityType DEF Account
<1>13. Player!FramesAccountedOrOverflowed'
  <2>1. arrivals = Len(jitter) + Len(decoding) + framesDecoded + framesDropped
                   + Cardinality(overflowed)
    BY AccountSum DEF Account
  <2>2. /\ Len(jitter) \in Nat /\ Len(decoding) \in Nat /\ Len(jitter') \in Nat
        /\ framesDecoded \in Nat /\ framesDropped \in Nat
    BY <1>3, <1>8 DEF PlayerTypes
  <2>3. arrivals' = Len(jitter') + Len(decoding') + framesDecoded' + framesDropped'
                   + Cardinality(overflowed')
    <3>1. /\ decoding' = decoding /\ framesDecoded' = framesDecoded
          /\ framesDropped' = framesDropped /\ arrivals' = arrivals + 1
      BY <1>2
    <3>2. Len(jitter') + Cardinality(overflowed')
             = Len(jitter) + Cardinality(overflowed) + 1
      BY <1>8
    <3>3. Len(decoding') = Len(decoding)
      BY <3>1
    <3> DEFINE j == Len(jitter)  j1 == Len(jitter')
               o == Cardinality(overflowed)  o1 == Cardinality(overflowed')
               d == Len(decoding)
    <3>4. j \in Nat /\ j1 \in Nat /\ o \in Nat /\ o1 \in Nat /\ d \in Nat
      BY <1>12, <2>2
    <3>5. j1 + o1 = j + o + 1 /\ arrivals = j + d + framesDecoded + framesDropped + o
      BY <2>1, <3>2
    <3> HIDE DEF j, j1, o, o1, d
    <3>6. arrivals' = j1 + d + framesDecoded + framesDropped + o1
      BY <2>2, <3>1, <3>4, <3>5
    <3> QED
      BY <3>1, <3>3, <3>6 DEF j1, o1, d
  <2> QED
    BY <2>3, AccountSumNext
<1> QED
  BY <1>8, <1>10, <1>11, <1>13 DEF Account

\* tick() drops the chunks at the head up to the first that is in time.
LEMMA LateRunIs ==
    ASSUME jitter \in Seq(Player!Chunk)
    PROVE  /\ Player!LateRun \in 0..Len(jitter)
           /\ \A i \in 1..Player!LateRun : Player!Late(jitter[i])
           /\ Player!LateRun < Len(jitter) => ~Player!Late(jitter[Player!LateRun + 1])
<1> DEFINE Run(n) == /\ \A i \in 1..n : Player!Late(jitter[i])
                     /\ n < Len(jitter) => ~Player!Late(jitter[n + 1])
           InTime == {i \in 1..Len(jitter) : ~Player!Late(jitter[i])}
<1>0. Len(jitter) \in Nat
  OBVIOUS
<1>1. \E n \in 0..Len(jitter) : Run(n)
  <2>1. CASE InTime = {}
    <3>1. Len(jitter) \in 0..Len(jitter) /\ ~(Len(jitter) < Len(jitter))
      BY <1>0
    <3> QED
      BY <2>1, <3>1
  <2>2. CASE InTime # {}
    <3>1. InTime \subseteq Nat
      BY <1>0
    <3>2. PICK i \in InTime : \A j \in InTime : i <= j
      BY <2>2, <3>1, LeastNumber
    <3>3. i - 1 \in 0..Len(jitter) /\ (i - 1) + 1 = i /\ ~Player!Late(jitter[i])
      BY <1>0, <3>2
    <3>4. \A j \in 1..(i - 1) : j \in 1..Len(jitter) /\ ~(i <= j)
      BY <1>0, <3>2
    <3>5. \A j \in 1..(i - 1) : Player!Late(jitter[j])
      BY <3>2, <3>4
    <3> QED
      BY <3>3, <3>5
  <2> QED
    BY <2>1, <2>2
<1>2. Player!LateRun = CHOOSE n \in 0..Len(jitter) : Run(n)
  BY DEF Player!LateRun
<1> QED
  BY <1>1, <1>2, Zenon

\* What a tick takes from the buffer: `late' chunks that it drops, and one more
\* when it feeds the decoder.
Takes(late, pulled) ==
    /\ late \in 0..Len(jitter) /\ pulled \in {0, 1}
    /\ late + pulled <= Len(jitter)
    /\ \A i \in 1..late : Player!Late(jitter[i])
    /\ jitter' \in Seq(Player!Chunk) /\ Len(jitter') = Len(jitter) - late - pulled
    /\ \A i \in 1..(Len(jitter) - late - pulled) : jitter'[i] = jitter[i + late + pulled]
    /\ framesDropped' = framesDropped + late

Feeds(late, pulled) ==
    /\ pulled = 0 => decoding' = decoding /\ decodedLast' = decodedLast
    /\ pulled = 1 => /\ Len(decoding) < HighWater
                     /\ ~Player!Late(jitter[late + 1])
                     /\ decoding' = Append(decoding, jitter[late + 1])
                     /\ decodedLast' = jitter[late + 1].id

LEMMA TickTakes ==
    ASSUME PlayerTypes, Player!Tick
    PROVE  \E late \in Nat, pulled \in {0, 1} : Takes(late, pulled) /\ Feeds(late, pulled)
<1> DEFINE late == Player!LateRun
           n    == Len(jitter)
           kept == SubSeq(jitter, late + 1, Len(jitter))
           pull == kept # <<>> /\ Len(decoding) < HighWater
<1>1. jitter \in Seq(Player!Chunk) /\ n \in Nat /\ framesDropped \in Nat
  BY DEF PlayerTypes
<1>2. /\ late \in 0..n
      /\ \A i \in 1..late : Player!Late(jitter[i])
      /\ late < n => ~Player!Late(jitter[late + 1])
  BY <1>1, LateRunIs
<1>3. /\ framesDropped' = framesDropped + late
      /\ pull => /\ jitter' = Tail(kept)
                 /\ decoding' = Append(decoding, Head(kept))
                 /\ decodedLast' = Head(kept).id
      /\ ~pull => jitter' = kept /\ decoding' = decoding /\ decodedLast' = decodedLast
  BY Zenon DEF Player!Tick, Player!Counted
<1> HIDE DEF late
<1>4. /\ kept \in Seq(Player!Chunk) /\ Len(kept) = n - late
      /\ \A i \in 1..(n - late) : kept[i] = jitter[i + late]
  BY <1>1, <1>2
<1>5. CASE pull
  <2>1. Len(kept) >= 1 /\ late + 1 <= n
    BY <1>1, <1>2, <1>4, <1>5
  <2>2. Head(kept) = jitter[late + 1]
    <3>1. Head(kept) = kept[1] /\ 1 \in 1..(n - late) /\ 1 + late = late + 1
      BY <1>1, <1>2, <1>4, <2>1
    <3> QED
      BY <1>4, <3>1
  <2> HIDE DEF kept
  <2>3. /\ jitter' \in Seq(Player!Chunk) /\ Len(jitter') = n - late - 1
        /\ \A i \in 1..(n - late - 1) : jitter'[i] = kept[i + 1]
    <3>1. jitter' = Tail(kept)
      BY <1>3, <1>5
    <3>2. kept \in Seq(Player!Chunk) /\ Len(kept) \in Nat /\ Len(kept) >= 1
      BY <1>4, <2>1
    <3>3. /\ Tail(kept) \in Seq(Player!Chunk) /\ Len(Tail(kept)) = Len(kept) - 1
          /\ \A i \in 1..(Len(kept) - 1) : Tail(kept)[i] = kept[i + 1]
      BY <3>2
    <3> QED
      BY <1>4, <3>1, <3>3
  <2>4. ASSUME NEW i \in 1..(n - late - 1)
        PROVE  jitter'[i] = jitter[i + late + 1]
    <3>1. i + 1 \in 1..(n - late) /\ (i + 1) + late = i + late + 1
      BY <1>1, <1>2
    <3> QED
      BY <1>4, <2>3, <3>1
  <2>5. Takes(late, 1)
    BY <1>1, <1>2, <1>3, <2>1, <2>3, <2>4 DEF Takes
  <2>6. Feeds(late, 1)
    BY <1>1, <1>2, <1>3, <1>5, <2>1, <2>2 DEF Feeds
  <2> QED
    BY <1>1, <1>2, <2>5, <2>6
<1>6. CASE ~pull
  <2>1. jitter' = kept
    BY <1>3, <1>6
  <2> HIDE DEF kept
  <2>2. \A i \in 1..(n - late - 0) : i \in 1..(n - late) /\ i + late + 0 = i + late
    BY <1>1, <1>2
  <2>3. Takes(late, 0)
    BY <1>1, <1>2, <1>3, <1>4, <2>1, <2>2 DEF Takes
  <2>4. Feeds(late, 0)
    BY <1>3, <1>6 DEF Feeds
  <2> QED
    BY <1>1, <1>2, <2>3, <2>4
<1> QED
  BY <1>5, <1>6

\* What a tick leaves alone.
LEMMA TickLeaves ==
    Player!Tick => UNCHANGED <<time, audio, audioTime, switches, origin, sentLast, arrivals,
                               overflowed, base, clockReset, framesDecoded>>
BY DEF Player!Tick, Player!audioVars, Player!streamVars

LEMMA TickAccounts ==
    ASSUME Account, Player!Tick
    PROVE  Account'
<1>1. PlayerTypes /\ Numbered
  BY DEF Account
<1>2. PICK late \in Nat, pulled \in {0, 1} : Takes(late, pulled) /\ Feeds(late, pulled)
  BY <1>1, TickTakes
<1>3. UNCHANGED <<time, audio, audioTime, switches, origin, sentLast, arrivals,
                  overflowed, base, clockReset, framesDecoded>>
  BY TickLeaves
<1> DEFINE n == Len(jitter)
<1>4. /\ jitter \in Seq(Player!Chunk) /\ n \in Nat /\ n <= Capacity
      /\ decoding \in Seq(Player!Chunk) /\ Len(decoding) <= HighWater
      /\ framesDropped \in Nat /\ framesDecoded \in Nat /\ decodedLast \in 0..MaxChunks
  BY <1>1 DEF PlayerTypes
<1>5. /\ late \in 0..n /\ late + pulled <= n
      /\ jitter' \in Seq(Player!Chunk) /\ Len(jitter') = n - late - pulled
      /\ \A i \in 1..(n - late - pulled) : jitter'[i] = jitter[i + late + pulled]
      /\ framesDropped' = framesDropped + late
  BY <1>2 DEF Takes
<1>6. /\ decoding' \in Seq(Player!Chunk) /\ Len(decoding') = Len(decoding) + pulled
      /\ Len(decoding') <= HighWater /\ decodedLast' \in 0..MaxChunks
  <2>1. CASE pulled = 0
    BY <1>2, <1>4, <2>1 DEF Feeds
  <2>2. CASE pulled = 1
    <3>1. jitter[late + 1] \in Player!Chunk
      BY <1>4, <1>5, <2>2
    <3>2. jitter[late + 1].id \in 0..MaxChunks
      BY <3>1, PlayerBounds DEF Player!Chunk
    <3>3. /\ decoding' = Append(decoding, jitter[late + 1])
          /\ decodedLast' = jitter[late + 1].id /\ Len(decoding) < HighWater
      BY <1>2, <2>2 DEF Feeds
    <3>4. Len(decoding) \in Nat
      BY <1>4
    <3> QED
      BY <1>4, <2>2, <3>1, <3>2, <3>3, <3>4, PlayerBounds
  <2> QED
    BY <2>1, <2>2
<1>7. \A i \in 1..(n - late - pulled) : i + late + pulled \in 1..n
  BY <1>4, <1>5
<1>8. PlayerTypes'
  <2>1. Len(jitter') <= Capacity /\ framesDropped' \in Nat
    BY <1>4, <1>5, PlayerBounds
  <2> QED
    BY <1>1, <1>3, <1>5, <1>6, <2>1 DEF PlayerTypes
<1>9. Numbered'
  <2>1. ASSUME NEW i \in 1..Len(jitter')
        PROVE  jitter'[i] = jitter[i + late + pulled] /\ i + late + pulled \in 1..n
    BY <1>5, <1>7
  <2>2. \A i \in 1..Len(jitter') : jitter'[i].id <= arrivals'
    BY <1>1, <1>3, <2>1 DEF Numbered
  <2>3. ASSUME NEW i \in 1..Len(jitter'), NEW j \in 1..Len(jitter'),
               jitter'[i].id = jitter'[j].id
        PROVE  i = j
    <3>1. i + late + pulled = j + late + pulled
      BY <1>1, <2>1, <2>3 DEF Numbered
    <3>2. i \in Nat /\ j \in Nat /\ late \in Nat /\ pulled \in Nat
      BY <1>4, <1>5
    <3> QED
      BY <3>1, <3>2
  <2>4. \A c \in overflowed' : /\ c.id <= arrivals'
                                /\ \A i \in 1..Len(jitter') : c.id # jitter'[i].id
    BY <1>1, <1>3, <2>1 DEF Numbered
  <2> QED
    BY <2>2, <2>3, <2>4 DEF Numbered
<1>10. IsFiniteSet(overflowed) /\ Cardinality(overflowed) \in Nat
  BY FS_CardinalityType DEF Account
<1>11. Player!FramesAccountedOrOverflowed'
  <2>1. arrivals = Len(jitter) + Len(decoding) + framesDecoded + framesDropped
                   + Cardinality(overflowed)
    BY AccountSum DEF Account
  <2> DEFINE d == Len(decoding)
             j1 == Len(jitter')
             o == Cardinality(overflowed)
  <2>2. d \in Nat /\ o \in Nat /\ j1 = n - late - pulled /\ Len(decoding') = d + pulled
        /\ Cardinality(overflowed') = o
    BY <1>3, <1>4, <1>5, <1>6, <1>10
  <2>3. arrivals = n + d + framesDecoded + framesDropped + o
    BY <2>1
  <2> HIDE DEF n, d, j1, o
  <2>4. arrivals = j1 + (d + pulled) + framesDecoded + (framesDropped + late) + o
    BY <1>4, <1>5, <2>2, <2>3
  <2>5. arrivals' = Len(jitter') + Len(decoding') + framesDecoded' + framesDropped'
                    + Cardinality(overflowed')
    <3>1. arrivals' = arrivals /\ framesDecoded' = framesDecoded
          /\ framesDropped' = framesDropped + late
      BY <1>3, <1>5
    <3>2. arrivals' = j1 + Len(decoding') + framesDecoded' + framesDropped'
                      + Cardinality(overflowed')
      BY <2>2, <2>4, <3>1
    <3> QED
      BY <3>2 DEF j1
  <2> QED
    BY <2>5, AccountSumNext
<1> QED
  BY <1>3, <1>8, <1>9, <1>10, <1>11 DEF Account

\* The decoder outputs its oldest chunk.
LEMMA OutputAccounts ==
    ASSUME Account, Player!Output
    PROVE  Account'
<1>1. PlayerTypes /\ Numbered
  BY DEF Account
<1>2. /\ decoding # <<>> /\ decoding' = Tail(decoding)
      /\ framesDecoded' = framesDecoded + 1
      /\ UNCHANGED <<time, audio, audioTime, switches, origin, sentLast, arrivals, jitter,
                     overflowed, base, decodedLast, framesDropped>>
  BY DEF Player!Output, Player!audioVars, Player!streamVars
<1>3. /\ decoding \in Seq(Player!Chunk) /\ Len(decoding) \in Nat /\ Len(decoding) <= HighWater
      /\ framesDecoded \in Nat /\ framesDropped \in Nat /\ Len(jitter) \in Nat
  BY <1>1 DEF PlayerTypes
<1>4. decoding' \in Seq(Player!Chunk) /\ Len(decoding') = Len(decoding) - 1
      /\ Len(decoding) >= 1
  BY <1>2, <1>3
<1>5. Len(decoding') <= HighWater /\ framesDecoded' \in Nat
  BY <1>2, <1>3, <1>4, PlayerBounds
<1>6. PlayerTypes'
  BY <1>1, <1>2, <1>4, <1>5 DEF PlayerTypes
<1>7. Numbered'
  BY <1>1, <1>2 DEF Numbered
<1>8. IsFiniteSet(overflowed) /\ Cardinality(overflowed) \in Nat
  BY FS_CardinalityType DEF Account
<1>9. Player!FramesAccountedOrOverflowed'
  <2>1. arrivals = Len(jitter) + Len(decoding) + framesDecoded + framesDropped
                   + Cardinality(overflowed)
    BY AccountSum DEF Account
  <2> DEFINE d == Len(decoding)  d1 == Len(decoding')
             j == Len(jitter)    o == Cardinality(overflowed)
  <2>2. d \in Nat /\ o \in Nat /\ j \in Nat /\ d1 = d - 1
        /\ arrivals = j + d + framesDecoded + framesDropped + o
    BY <1>3, <1>4, <1>8, <2>1
  <2> HIDE DEF d, d1, j, o
  <2>3. arrivals = j + d1 + (framesDecoded + 1) + framesDropped + o
    BY <1>3, <2>2
  <2>4. arrivals' = Len(jitter') + Len(decoding') + framesDecoded' + framesDropped'
                    + Cardinality(overflowed')
    BY <1>2, <2>3 DEF d1, j, o
  <2> QED
    BY <2>4, AccountSumNext
<1> QED
  BY <1>2, <1>6, <1>7, <1>8, <1>9 DEF Account

\* What the account is about, and what only the clocks and the audio change.
LEMMA UntouchedAccounts ==
    ASSUME Account, PlayerTypes',
           UNCHANGED <<arrivals, jitter, overflowed, decoding, framesDecoded, framesDropped>>
    PROVE  Account'
<1>1. Numbered'
  BY DEF Account, Numbered
<1>2. Player!FramesAccountedOrOverflowed'
  BY Zenon DEF Account, Player!FramesAccountedOrOverflowed
<1> QED
  BY <1>1, <1>2 DEF Account

LEMMA OthersAccount ==
    ASSUME Account, NEW newOrigin \in Origins,
           \/ Player!Advance \/ Player!PauseOrResume \/ Player!Restart(newOrigin)
           \/ Player!FirstAudio \/ Player!AudioSuspends \/ Player!AudioResumes
           \/ UNCHANGED Player!vars
    PROVE  Account'
<1>1. PlayerTypes
  BY DEF Account
<1>2. /\ time \in Nat /\ time <= Horizon /\ sentLast \in Nat /\ sentLast <= time
      /\ audioTime \in Int /\ origin \in Int /\ switches \in Nat /\ switches <= MaxSwitches
  BY <1>1, PlayerBounds DEF PlayerTypes
<1>3. UNCHANGED <<arrivals, jitter, overflowed, decoding, decodedLast, framesDecoded,
                  framesDropped, base>>
  BY DEF Player!Advance, Player!PauseOrResume, Player!Restart, Player!FirstAudio,
         Player!AudioSuspends, Player!AudioResumes, Player!StreamUntouched,
         Player!vars, Player!audioVars, Player!streamVars
<1>4. /\ time' \in 0..Horizon /\ sentLast' \in 0..time'
      /\ audio' \in {"none", "running", "suspended"} /\ audioTime' \in Int
      /\ switches' \in 0..MaxSwitches /\ origin' \in Origins
  <2>1. CASE Player!Advance
    BY <1>1, <1>2, <2>1, PlayerBounds
       DEF PlayerTypes, Player!Advance, Player!streamVars
  <2>2. CASE Player!PauseOrResume
    BY <1>1, <2>2 DEF PlayerTypes, Player!PauseOrResume, Player!streamVars, Player!audioVars
  <2>3. CASE Player!Restart(newOrigin)
    BY <1>1, <1>2, <2>3, PlayerBounds DEF PlayerTypes, Player!Restart
  <2>4. CASE Player!FirstAudio
    <3>1. /\ audio' \in {"running", "suspended"} /\ audioTime' = time + origin - Ahead
          /\ UNCHANGED <<time, switches, sentLast, origin>>
      BY <2>4 DEF Player!FirstAudio, Player!StreamUntouched, Player!streamVars
    <3>2. audioTime' \in Int
      BY <1>2, <3>1, PlayerBounds
    <3>3. /\ time' = time /\ switches' = switches /\ sentLast' = sentLast
          /\ origin' = origin
      BY <3>1
    <3>4. audio' \in {"none", "running", "suspended"}
      BY <3>1
    <3> QED
      BY <1>1, <3>2, <3>3, <3>4 DEF PlayerTypes
  <2>5. CASE Player!AudioSuspends \/ Player!AudioResumes
    <3>1. /\ audio' \in {"running", "suspended"} /\ switches < MaxSwitches
          /\ time' = time /\ switches' = switches + 1 /\ sentLast' = sentLast
          /\ origin' = origin /\ audioTime' = audioTime
      BY <2>5 DEF Player!AudioSuspends, Player!AudioResumes, Player!StreamUntouched,
                  Player!streamVars
    <3>2. switches' \in 0..MaxSwitches
      BY <1>2, <3>1, PlayerBounds
    <3>3. audio' \in {"none", "running", "suspended"}
      BY <3>1
    <3> QED
      BY <1>1, <3>1, <3>2, <3>3 DEF PlayerTypes
  <2>6. CASE UNCHANGED Player!vars
    BY <1>1, <2>6 DEF PlayerTypes, Player!vars, Player!audioVars, Player!streamVars
  <2> QED
    BY <2>1, <2>2, <2>3, <2>4, <2>5, <2>6
<1>5. PlayerTypes'
  BY <1>1, <1>3, <1>4 DEF PlayerTypes
<1> QED
  BY <1>3, <1>5, UntouchedAccounts

LEMMA Accounting == Player!Spec => []Account
<1>1. ASSUME Account, [Player!Next]_(Player!vars)
      PROVE  Account'
  <2>1. CASE Player!Arrival
    BY <1>1, <2>1, ArrivalAccounts
  <2>2. CASE Player!Tick
    BY <1>1, <2>2, TickAccounts
  <2>3. CASE Player!Output
    BY <1>1, <2>3, OutputAccounts
  <2>4. PICK o \in Origins : TRUE
    BY <1>1 DEF Account, PlayerTypes
  <2>5. CASE UNCHANGED Player!vars
    BY <1>1, <2>4, <2>5, OthersAccount
  <2>6. CASE \E newOrigin \in Origins : Player!Restart(newOrigin)
    BY <1>1, <2>6, OthersAccount
  <2>7. CASE Player!Advance \/ Player!PauseOrResume \/ Player!FirstAudio
             \/ Player!AudioSuspends \/ Player!AudioResumes
    BY <1>1, <2>4, <2>7, OthersAccount
  <2> QED
    BY <1>1, <2>1, <2>2, <2>3, <2>5, <2>6, <2>7 DEF Player!Next
<1> QED
  BY <1>1, AccountInit, PTL DEF Player!Spec

\* Every chunk that arrived is buffered, being decoded, counted as decoded or
\* dropped, or was pushed out of the full buffer: for every capacity, budget and
\* history of the clocks.
THEOREM NoFrameUnaccounted == Player!Spec => []FramesAccountedOrOverflowed
<1>1. Account => FramesAccountedOrOverflowed
  BY DEF Account, FramesAccountedOrOverflowed
<1> QED
  BY <1>1, Accounting, PTL

-----------------------------------------------------------------------------
(* One session: switches = 0.                                                *)

\* The timestamp of what the current stream captured at `sent'.
Stamp(sent) == (sent + origin) % Wrap

StampedRight ==
    \A i \in 1..Len(jitter) : /\ jitter[i].ts = Stamp(jitter[i].sent)
                              /\ jitter[i].sent <= sentLast

InSession == switches = 0 => StampedRight

\* A shorter account of push(): `gone' chunks leave at the front, and the new one
\* is inserted behind the first `k'.
Pushes(c, gone, k) ==
    /\ Len(jitter') = Len(jitter) + 1 - gone
    /\ \A i \in 1..(Len(jitter) + 1 - gone) :
          jitter'[i] = IF i + gone <= k THEN jitter[i + gone]
                       ELSE IF i + gone = k + 1 THEN c ELSE jitter[i + gone - 1]
    /\ (\A i \in 1..Len(jitter) : jitter[i].ts <= c.ts) => k = Len(jitter)

LEMMA PushShape ==
    ASSUME PlayerTypes, NEW c \in Player!Chunk, Player!J!Push(c)
    PROVE  \E gone \in {0, 1}, k \in 0..Len(jitter) : Pushes(c, gone, k)
<1> DEFINE all == Player!J!Insert(jitter, c)
           k   == Player!J!SearchFrom(jitter, c.ts)
           n   == Len(jitter)
<1>1. /\ jitter \in Seq(Player!Chunk) /\ n \in Nat /\ n <= Capacity /\ Capacity \in Nat
  BY PlayerBounds DEF PlayerTypes
<1>2. /\ k \in 0..n /\ all \in Seq(Player!Chunk) /\ Len(all) = n + 1
      /\ \A i \in 1..(n + 1) :
            all[i] = IF i <= k THEN jitter[i] ELSE IF i = k + 1 THEN c ELSE jitter[i - 1]
  <2>1. k \in 0..n /\ all \in Seq(Player!Chunk) /\ Inserted(jitter, c, k, all)
    BY <1>1, InsertKeeps
  <2> HIDE DEF k, all
  <2> QED
    BY <2>1 DEF Inserted
<1>3. (\A i \in 1..n : jitter[i].ts <= c.ts) => k = n
  BY <1>1, SearchFinds
<1>4. jitter' = SubSeq(all, Player!J!Overflow(all) + 1, Len(all))
  BY DEF Player!J!Push
<1> HIDE DEF all, k
<1>5. CASE n + 1 <= Capacity
  <2>1. Player!J!Overflow(all) = 0
    BY <1>1, <1>2, <1>5 DEF Player!J!Overflow
  <2>2. SubSeq(all, 0 + 1, Len(all)) = all
    BY <1>1, <1>2
  <2>3. jitter' = all
    BY <1>4, <2>1, <2>2
  <2>4. \A i \in 1..(n + 1 - 0) : i \in 1..(n + 1) /\ i + 0 = i
    BY <1>1
  <2>5. Pushes(c, 0, k)
    BY <1>1, <1>2, <1>3, <2>3, <2>4 DEF Pushes
  <2> QED
    BY <1>2, <2>5
<1>6. CASE n + 1 > Capacity
  <2>1. Player!J!Overflow(all) = 1
    BY <1>1, <1>2, <1>6 DEF Player!J!Overflow
  <2>2. jitter' = SubSeq(all, 1 + 1, Len(all))
    BY <1>4, <2>1
  <2>3. Len(jitter') = n + 1 - 1 /\ \A i \in 1..n : jitter'[i] = all[i + 1]
    BY <1>1, <1>2, <2>2
  <2>4. \A i \in 1..(n + 1 - 1) : i \in 1..n /\ i + 1 \in 1..(n + 1)
    BY <1>1
  <2>5. Pushes(c, 1, k)
    BY <1>1, <1>2, <1>3, <2>3, <2>4 DEF Pushes
  <2> QED
    BY <1>2, <2>5
<1> QED
  BY <1>1, <1>5, <1>6

\* So what is in the buffer was there before, or is the new chunk.
LEMMA PushFrom ==
    ASSUME PlayerTypes, NEW c, NEW gone \in {0, 1}, NEW k \in 0..Len(jitter),
           Pushes(c, gone, k), NEW i \in 1..Len(jitter')
    PROVE  jitter'[i] = c \/ \E j \in 1..Len(jitter) : jitter'[i] = jitter[j]
<1> DEFINE n == Len(jitter)
<1>1. n \in Nat
  BY DEF PlayerTypes
<1>2. i \in 1..(n + 1 - gone)
  BY <1>1 DEF Pushes
<1>3. jitter'[i] = IF i + gone <= k THEN jitter[i + gone]
                   ELSE IF i + gone = k + 1 THEN c ELSE jitter[i + gone - 1]
  BY <1>2 DEF Pushes
<1>4. i + gone <= k => i + gone \in 1..n
  BY <1>1, <1>2
<1>5. i + gone > k + 1 => i + gone - 1 \in 1..n
  BY <1>1, <1>2
<1>6. i + gone <= k \/ i + gone = k + 1 \/ i + gone > k + 1
  BY <1>1, <1>2
<1>7. i + gone > k + 1 => ~(i + gone <= k) /\ i + gone # k + 1
  BY <1>1, <1>2
<1> QED
  BY <1>3, <1>4, <1>5, <1>6, <1>7

\* What an arrival does, with the chunk that arrives.
Arrives(sent, c) ==
    /\ sentLast <= sent /\ sent <= time /\ time - sent <= MaxDelay
    /\ c = [ts |-> Stamp(sent), id |-> arrivals + 1, sent |-> sent]
    /\ c \in Player!Chunk
    /\ arrivals' = arrivals + 1 /\ sentLast' = sent
    /\ base' = IF clockReset THEN base
               ELSE [pts |-> Stamp(sent), time |-> Player!Now, set |-> TRUE,
                     id |-> arrivals + 1]
    /\ clockReset' = TRUE
    /\ UNCHANGED <<time, audio, audioTime, switches, origin, decodedLast, framesDropped>>

LEMMA ArrivalIs ==
    ASSUME PlayerTypes, Player!Arrival
    PROVE  \E sent \in Nat, c \in Player!Chunk, gone \in {0, 1}, k \in 0..Len(jitter) :
              Arrives(sent, c) /\ Pushes(c, gone, k)
<1>1. PICK sent \in sentLast..time : time - sent <= MaxDelay /\ Player!Enqueue(sent)
  BY DEF Player!Arrival
<1> DEFINE c == [ts |-> Stamp(sent), id |-> arrivals + 1, sent |-> sent]
<1>2. /\ arrivals < MaxChunks /\ arrivals' = arrivals + 1 /\ sentLast' = sent
      /\ base' = IF clockReset THEN base
                 ELSE [pts |-> Stamp(sent), time |-> Player!Now, set |-> TRUE,
                       id |-> arrivals + 1]
      /\ clockReset' = TRUE
      /\ Player!J!Push(c)
      /\ UNCHANGED <<time, audio, audioTime, switches, origin, decodedLast, framesDropped>>
  BY <1>1 DEF Player!Enqueue, Player!audioVars, Stamp
<1>3. /\ time \in Nat /\ time <= Horizon /\ sentLast \in Nat /\ arrivals \in Nat
      /\ origin \in 0..(Wrap - 1)
  BY PlayerBounds DEF PlayerTypes
<1>4. sent \in Nat /\ sent <= time /\ sentLast <= sent
  BY <1>1, <1>3
<1>5. sent + origin \in Int
  BY <1>3, <1>4, PlayerBounds
<1>6. Stamp(sent) \in 0..(Wrap - 1)
  BY <1>5, DivMod, PlayerBounds DEF Stamp
<1>7. c \in Player!Chunk
  BY <1>2, <1>3, <1>4, <1>6, PlayerBounds DEF Player!Chunk
<1> HIDE DEF c
<1>8. PICK gone \in {0, 1}, k \in 0..Len(jitter) : Pushes(c, gone, k)
  BY <1>2, <1>7, PushShape
<1>9. Arrives(sent, c)
  BY <1>1, <1>2, <1>4, <1>7 DEF Arrives, c
<1> QED
  BY <1>4, <1>7, <1>8, <1>9

\* What the other actions but a tick leave alone.
LEMMA OthersLeave ==
    ASSUME NEW newOrigin,
           \/ Player!Advance \/ Player!Output \/ Player!PauseOrResume
           \/ Player!Restart(newOrigin) \/ Player!FirstAudio
           \/ Player!AudioSuspends \/ Player!AudioResumes \/ UNCHANGED Player!vars
    PROVE  UNCHANGED <<arrivals, jitter, base, decodedLast, framesDropped>>
BY DEF Player!Advance, Player!PauseOrResume, Player!Restart, Player!FirstAudio,
       Player!AudioSuspends, Player!AudioResumes, Player!StreamUntouched, Player!Output,
       Player!vars, Player!audioVars, Player!streamVars

\* What ends the session that is judged, or leaves the stream as it is.
LEMMA OthersStay ==
    ASSUME PlayerTypes, NEW newOrigin,
           \/ Player!Advance \/ Player!Output \/ Player!PauseOrResume
           \/ Player!Restart(newOrigin) \/ Player!FirstAudio
           \/ Player!AudioSuspends \/ Player!AudioResumes \/ UNCHANGED Player!vars,
           switches' = 0
    PROVE  UNCHANGED <<switches, origin, sentLast>>
<1>1. switches \in Nat
  BY PlayerBounds DEF PlayerTypes
<1>2. ~Player!Restart(newOrigin) /\ ~Player!AudioSuspends /\ ~Player!AudioResumes
  BY <1>1 DEF Player!Restart, Player!AudioSuspends, Player!AudioResumes
<1> QED
  BY <1>2 DEF Player!Advance, Player!PauseOrResume, Player!FirstAudio,
       Player!StreamUntouched, Player!Output, Player!vars, Player!audioVars,
       Player!streamVars

LEMMA SessionInit == Player!Init => InSession
BY DEF Player!Init, InSession, StampedRight

LEMMA SessionKeeps ==
    ASSUME PlayerTypes, InSession, [Player!Next]_(Player!vars)
    PROVE  InSession'
<1> SUFFICES ASSUME switches' = 0
             PROVE  StampedRight'
  BY DEF InSession
<1>0. Len(jitter) \in Nat /\ sentLast \in Nat /\ jitter \in Seq(Player!Chunk)
  BY PlayerBounds DEF PlayerTypes
<1>1. CASE Player!Arrival
  <2>1. PICK sent \in Nat, c \in Player!Chunk, gone \in {0, 1}, k \in 0..Len(jitter) :
                Arrives(sent, c) /\ Pushes(c, gone, k)
    BY <1>1, ArrivalIs
  <2>2. /\ c.ts = Stamp(sent) /\ c.sent = sent /\ sentLast' = sent /\ sentLast <= sent
        /\ origin' = origin /\ switches' = switches
    BY <2>1 DEF Arrives
  <2>3. ASSUME NEW i \in 1..Len(jitter')
        PROVE  jitter'[i].ts = Stamp(jitter'[i].sent) /\ jitter'[i].sent <= sentLast'
    <3>1. CASE jitter'[i] = c
      BY <2>2, <3>1
    <3>2. CASE \E j \in 1..Len(jitter) : jitter'[i] = jitter[j]
      <4>1. PICK j \in 1..Len(jitter) : jitter'[i] = jitter[j]
        BY <3>2
      <4>2. jitter[j].ts = Stamp(jitter[j].sent) /\ jitter[j].sent <= sentLast
        BY <2>2 DEF InSession, StampedRight
      <4>3. jitter[j] \in Player!Chunk
        BY <1>0
      <4>4. jitter[j].sent \in Int
        BY <4>3, PlayerBounds DEF Player!Chunk
      <4> QED
        BY <1>0, <2>2, <4>1, <4>2, <4>4
    <3> QED
      BY <2>1, <3>1, <3>2, PushFrom
  <2> QED
    BY <2>2, <2>3 DEF StampedRight, Stamp
<1>2. CASE Player!Tick
  <2>1. PICK late \in Nat, pulled \in {0, 1} : Takes(late, pulled) /\ Feeds(late, pulled)
    BY <1>2, TickTakes
  <2>2. UNCHANGED <<switches, origin, sentLast>>
    BY <1>2, TickLeaves
  <2>3. ASSUME NEW i \in 1..Len(jitter')
        PROVE  \E j \in 1..Len(jitter) : jitter'[i] = jitter[j]
    <3>1. i + late + pulled \in 1..Len(jitter) /\ i \in 1..(Len(jitter) - late - pulled)
      BY <1>0, <2>1 DEF Takes
    <3> QED
      BY <2>1, <3>1 DEF Takes
  <2> QED
    BY <2>2, <2>3 DEF InSession, StampedRight, Stamp
<1>3. ASSUME NEW newOrigin,
             \/ Player!Advance \/ Player!Output \/ Player!PauseOrResume
             \/ Player!Restart(newOrigin) \/ Player!FirstAudio
             \/ Player!AudioSuspends \/ Player!AudioResumes \/ UNCHANGED Player!vars
      PROVE  StampedRight'
  <2>1. UNCHANGED <<switches, origin, sentLast, jitter>>
    BY <1>3, OthersLeave, OthersStay
  <2> QED
    BY <2>1 DEF InSession, StampedRight, Stamp
<1> QED
  BY <1>1, <1>2, <1>3 DEF Player!Next

\* No timestamp of the session wraps.
NoWrap == \A o \in Origins : o + Horizon < Wrap

\* The buffer is in the order of arrival, and newer than what was handed out.
Ascending ==
    /\ \A i, j \in 1..Len(jitter) : i < j => jitter[i].id < jitter[j].id
    /\ \A i \in 1..Len(jitter) : decodedLast < jitter[i].id
    /\ decodedLast <= arrivals

ArrivalOrder == switches = 0 => Ascending

\* A remainder of a number in range is the number.
LEMMA SmallRemainder ==
    ASSUME NEW a \in Nat, NEW m \in Nat \ {0}, a < m
    PROVE  a % m = a
<1>1. /\ a % m \in 0..(m - 1) /\ a \div m \in Int
      /\ a = m * (a \div m) + (a % m)
  BY DivMod
<1> DEFINE q == a \div m
<1> HIDE DEF q
<1>2. q \in Int /\ -m < m * q /\ m * q < m
  <2>1. q \in Int /\ m * q \in Int /\ a = m * q + (a % m)
    BY <1>1 DEF q
  <2> QED
    BY <1>1, <2>1
<1>3. q = 0
  <2>1. CASE q >= 1
    BY <1>2, <2>1, m * q >= m * 1, SMTT(30)
  <2>2. CASE q <= -1
    BY <1>2, <2>2, m * q <= m * (-1), SMTT(30)
  <2> QED
    BY <1>2, <2>1, <2>2
<1> QED
  BY <1>1, <1>3 DEF q

LEMMA StampsGrow ==
    ASSUME PlayerTypes, NoWrap, NEW a \in Nat, NEW b \in Nat, a <= b, b <= Horizon
    PROVE  Stamp(a) \in Int /\ Stamp(b) \in Int /\ Stamp(a) <= Stamp(b)
<1>1. origin \in Nat /\ origin + Horizon < Wrap
  BY PlayerBounds DEF PlayerTypes, NoWrap
<1>2. /\ a + origin \in Nat /\ b + origin \in Nat
      /\ a + origin < Wrap /\ b + origin < Wrap
  BY <1>1, PlayerBounds
<1>3. Stamp(a) = a + origin /\ Stamp(b) = b + origin
  BY <1>2, SmallRemainder, PlayerBounds DEF Stamp
<1> QED
  BY <1>1, <1>3

LEMMA OrderInit == Player!Init => ArrivalOrder
BY DEF Player!Init, ArrivalOrder, Ascending

\* A chunk that arrives goes behind the others.
LEMMA ArrivalOrders ==
    ASSUME NoWrap, PlayerTypes, Numbered, InSession, ArrivalOrder, Player!Arrival
    PROVE  ArrivalOrder'
<1> DEFINE n == Len(jitter)
<1>0. /\ n \in Nat /\ sentLast \in Nat /\ jitter \in Seq(Player!Chunk) /\ arrivals \in Nat
      /\ decodedLast \in Nat /\ time \in Nat /\ time <= Horizon
  BY PlayerBounds DEF PlayerTypes
<1>1. PICK sent \in Nat, c \in Player!Chunk, gone \in {0, 1}, k \in 0..n :
              Arrives(sent, c) /\ Pushes(c, gone, k)
  BY ArrivalIs
<1>2. /\ c.ts = Stamp(sent) /\ c.id = arrivals + 1
      /\ sentLast <= sent /\ sent <= time
      /\ arrivals' = arrivals + 1 /\ switches' = switches /\ decodedLast' = decodedLast
  BY <1>1 DEF Arrives
<1> SUFFICES ASSUME switches = 0
             PROVE  Ascending'
  BY <1>2 DEF ArrivalOrder
<1>3. ASSUME NEW i \in 1..n
      PROVE  /\ jitter[i].ts <= c.ts
             /\ jitter[i].id \in Nat /\ jitter[i].id <= arrivals
  <2>1. jitter[i] \in Player!Chunk
    BY <1>0
  <2>2. jitter[i].sent \in Nat /\ jitter[i].id \in Nat
    BY <2>1 DEF Player!Chunk
  <2>3. jitter[i].ts = Stamp(jitter[i].sent) /\ jitter[i].sent <= sentLast
    BY DEF InSession, StampedRight
  <2>4. jitter[i].sent <= sent /\ sent <= Horizon
    BY <1>0, <1>2, <2>2, <2>3, PlayerBounds
  <2>5. Stamp(jitter[i].sent) <= Stamp(sent)
    BY <2>2, <2>4, StampsGrow
  <2> QED
    BY <1>2, <2>2, <2>3, <2>5 DEF Numbered
<1>4. k = n
  BY <1>1, <1>3 DEF Pushes
<1>5. ASSUME NEW i \in 1..(n + 1 - gone)
      PROVE  /\ i + gone <= n => jitter'[i] = jitter[i + gone] /\ i + gone \in 1..n
             /\ ~(i + gone <= n) => jitter'[i] = c /\ i + gone = n + 1
  <2>1. jitter'[i] = IF i + gone <= k THEN jitter[i + gone]
                     ELSE IF i + gone = k + 1 THEN c ELSE jitter[i + gone - 1]
    BY <1>1 DEF Pushes
  <2>2. i + gone <= n => i + gone \in 1..n
    BY <1>0
  <2>3. ~(i + gone <= n) => i + gone = n + 1
    BY <1>0
  <2> QED
    BY <1>4, <2>1, <2>2, <2>3
<1>6. Len(jitter') = n + 1 - gone
  BY <1>1 DEF Pushes
<1>7. ASSUME NEW i \in 1..(n + 1 - gone), NEW j \in 1..(n + 1 - gone), i < j
      PROVE  jitter'[i].id < jitter'[j].id
  <2>1. i + gone < j + gone /\ i + gone <= n
    BY <1>0, <1>5, <1>7
  <2>2. CASE j + gone <= n
    <3>1. /\ jitter'[i] = jitter[i + gone] /\ jitter'[j] = jitter[j + gone]
          /\ i + gone \in 1..n /\ j + gone \in 1..n
      BY <1>5, <2>1, <2>2
    <3> QED
      BY <2>1, <3>1 DEF ArrivalOrder, Ascending
  <2>3. CASE ~(j + gone <= n)
    <3>1. jitter'[i] = jitter[i + gone] /\ i + gone \in 1..n /\ jitter'[j] = c
      BY <1>5, <2>1, <2>3
    <3>2. jitter[i + gone].id <= arrivals /\ jitter[i + gone].id \in Nat
      BY <1>3, <3>1
    <3> QED
      BY <1>0, <1>2, <3>1, <3>2
  <2> QED
    BY <2>2, <2>3
<1>8. ASSUME NEW i \in 1..(n + 1 - gone)
      PROVE  decodedLast < jitter'[i].id
  <2>1. CASE i + gone <= n
    BY <1>5, <2>1 DEF ArrivalOrder, Ascending
  <2>2. CASE ~(i + gone <= n)
    BY <1>0, <1>2, <1>5, <2>2 DEF ArrivalOrder, Ascending
  <2> QED
    BY <2>1, <2>2
<1>9. decodedLast' <= arrivals'
  BY <1>0, <1>2 DEF ArrivalOrder, Ascending
<1> QED
  BY <1>2, <1>6, <1>7, <1>8, <1>9 DEF Ascending

\* A tick takes from the front.
LEMMA TickOrders ==
    ASSUME PlayerTypes, Numbered, ArrivalOrder, Player!Tick
    PROVE  ArrivalOrder' /\ (switches = 0 => decodedLast <= decodedLast')
<1> DEFINE n == Len(jitter)
<1>0. /\ n \in Nat /\ jitter \in Seq(Player!Chunk) /\ arrivals \in Nat /\ decodedLast \in Nat
  BY PlayerBounds DEF PlayerTypes
<1>1. PICK late \in Nat, pulled \in {0, 1} : Takes(late, pulled) /\ Feeds(late, pulled)
  BY TickTakes
<1>2. UNCHANGED <<switches, arrivals>>
  BY TickLeaves
<1> SUFFICES ASSUME switches = 0
             PROVE  Ascending' /\ decodedLast <= decodedLast'
  BY <1>2 DEF ArrivalOrder
<1>3. Ascending
  BY DEF ArrivalOrder
<1>4. late \in 0..n /\ late + pulled <= n /\ Len(jitter') = n - late - pulled
  BY <1>1 DEF Takes
<1>5. ASSUME NEW i \in 1..(n - late - pulled)
      PROVE  jitter'[i] = jitter[i + late + pulled] /\ i + late + pulled \in 1..n
  BY <1>0, <1>1, <1>4 DEF Takes
<1>6. ASSUME NEW i \in 1..(n - late - pulled), NEW j \in 1..(n - late - pulled), i < j
      PROVE  jitter'[i].id < jitter'[j].id
  <2>1. i + late + pulled < j + late + pulled
    BY <1>0, <1>4, <1>6
  <2> QED
    BY <1>3, <1>5, <2>1 DEF Ascending
<1>7. CASE pulled = 0
  <2>1. decodedLast' = decodedLast
    BY <1>1, <1>7 DEF Feeds
  <2>2. \A i \in 1..(n - late - pulled) : decodedLast < jitter'[i].id
    BY <1>3, <1>5 DEF Ascending
  <2>3. decodedLast' <= arrivals' /\ decodedLast <= decodedLast'
    BY <1>0, <1>2, <1>3, <2>1 DEF Ascending
  <2> QED
    BY <1>4, <1>6, <2>1, <2>2, <2>3 DEF Ascending
<1>8. CASE pulled = 1
  <2>1. decodedLast' = jitter[late + 1].id
    BY <1>1, <1>8 DEF Feeds
  <2>2. late + 1 \in 1..n
    BY <1>0, <1>4, <1>8
  <2>3. jitter[late + 1].id <= arrivals /\ decodedLast < jitter[late + 1].id
    BY <1>3, <2>2 DEF Ascending, Numbered
  <2>4. ASSUME NEW i \in 1..(n - late - pulled)
        PROVE  jitter[late + 1].id < jitter'[i].id
    <3>1. late + 1 < i + late + pulled
      BY <1>0, <1>4, <1>8
    <3> QED
      BY <1>3, <1>5, <2>2, <3>1 DEF Ascending
  <2>5. jitter[late + 1].id \in Nat
    <3>1. jitter[late + 1] \in Player!Chunk
      BY <1>0, <2>2
    <3> QED
      BY <3>1 DEF Player!Chunk
  <2>6. decodedLast <= decodedLast' /\ decodedLast' <= arrivals'
    BY <1>0, <1>2, <2>1, <2>3, <2>5
  <2> QED
    BY <1>4, <1>6, <2>1, <2>4, <2>6 DEF Ascending
<1> QED
  BY <1>7, <1>8

LEMMA OrderStep ==
    ASSUME NoWrap, Account, InSession, ArrivalOrder, [Player!Next]_(Player!vars)
    PROVE  ArrivalOrder' /\ (switches = 0 => decodedLast' >= decodedLast)
<1>0. PlayerTypes /\ Numbered
  BY DEF Account
<1>1. decodedLast \in Nat
  BY <1>0, PlayerBounds DEF PlayerTypes
<1>2. CASE Player!Arrival
  <2>1. decodedLast' = decodedLast
    BY <1>2 DEF Player!Arrival, Player!Enqueue
  <2> QED
    BY <1>0, <1>1, <1>2, <2>1, ArrivalOrders
<1>3. CASE Player!Tick
  <2>1. ArrivalOrder' /\ (switches = 0 => decodedLast <= decodedLast')
    BY <1>0, <1>3, TickOrders
  <2>2. decodedLast' \in Nat
    <3>1. PlayerTypes'
      BY <1>3, TickAccounts DEF Account
    <3> QED
      BY <3>1, PlayerBounds DEF PlayerTypes
  <2> QED
    BY <1>1, <2>1, <2>2
<1>4. ASSUME NEW newOrigin,
             \/ Player!Advance \/ Player!Output \/ Player!PauseOrResume
             \/ Player!Restart(newOrigin) \/ Player!FirstAudio
             \/ Player!AudioSuspends \/ Player!AudioResumes \/ UNCHANGED Player!vars
      PROVE  ArrivalOrder' /\ (switches = 0 => decodedLast' >= decodedLast)
  <2>1. UNCHANGED <<arrivals, jitter, decodedLast>>
    BY <1>4, OthersLeave
  <2>2. switches' = 0 => switches = 0
    BY <1>0, <1>4, OthersStay
  <2> QED
    BY <1>1, <2>1, <2>2 DEF ArrivalOrder, Ascending
<1> QED
  BY <1>2, <1>3, <1>4 DEF Player!Next

LEMMA InOneSession == Player!Spec => [](Account /\ InSession)
<1>1. ASSUME Account, InSession, [Player!Next]_(Player!vars)
      PROVE  InSession'
  BY <1>1, SessionKeeps DEF Account
<1> QED
  BY <1>1, SessionInit, Accounting, PTL DEF Player!Spec

\* The chunks of a session whose timestamps do not wrap are decoded in the order
\* in which they arrived, whatever the buffer drops and however the clocks move.
THEOREM ChunksDecodeInOrder == ASSUME NoWrap PROVE Player!Spec => DecodesInOrder
<1>1. ArrivalOrder /\ Account /\ InSession /\ [Player!Next]_(Player!vars) => ArrivalOrder'
  BY OrderStep
<1>2. ArrivalOrder /\ Account /\ InSession /\ [Player!Next]_(Player!vars)
          => [switches = 0 => decodedLast' >= decodedLast]_(Player!vars)
  BY OrderStep
<1> QED
  BY <1>1, <1>2, OrderInit, InOneSession, PTL DEF Player!Spec, DecodesInOrder, Player!DecodesInOrder

-----------------------------------------------------------------------------
(* Lateness.                                                                 *)

\* A session is shorter than half the modulus: av-sync.ts cannot tell a longer
\* time from one backwards.
ShortSession == 2 * Horizon <= Wrap

\* The clock was based on a chunk captured at `sent' that arrived at `met', and
\* the master clock has gone on like real time since.
BasedOn(sent, met) ==
    /\ sent <= met /\ met <= time /\ met - sent <= MaxDelay
    /\ sent <= sentLast
    /\ base.pts = Stamp(sent)
    /\ Player!Now - base.time = time - met
    /\ \A i \in 1..Len(jitter) : base.id <= jitter[i].id => sent <= jitter[i].sent

BaseKnown ==
    /\ base.set /\ base.id <= arrivals
    /\ \E sent, met \in Nat : BasedOn(sent, met)

\* Without audio that chunk is the first of all.
FirstIsBase ==
    audio = "none" => (arrivals > 0 => clockReset) /\ (clockReset => base.id = 1)

Based ==
    /\ clockReset \in BOOLEAN
    /\ switches = 0 => FirstIsBase /\ (clockReset => BaseKnown)

LEMMA BasedInit == Player!Init => Based
<1>1. Player!Init => clockReset = FALSE /\ arrivals = 0
  BY DEF Player!Init
<1>2. ASSUME clockReset = FALSE, arrivals = 0
      PROVE  Based
  <2>1. FirstIsBase
    BY <1>2 DEF FirstIsBase
  <2>2. clockReset \in BOOLEAN /\ ~clockReset
    BY <1>2, Zenon
  <2> QED
    BY <2>1, <2>2, Zenon DEF Based
<1> QED
  BY <1>1, <1>2, Zenon

LEMMA ArrivalBases ==
    ASSUME PlayerTypes, Numbered, Based, Player!Arrival
    PROVE  Based'
<1> DEFINE n == Len(jitter)
<1>0. /\ n \in Nat /\ jitter \in Seq(Player!Chunk) /\ arrivals \in Nat
      /\ time \in Nat /\ sentLast \in Nat /\ base.id \in Nat
  BY PlayerBounds DEF PlayerTypes
<1>1. PICK sent \in Nat, c \in Player!Chunk, gone \in {0, 1}, k \in 0..n :
              Arrives(sent, c) /\ Pushes(c, gone, k)
  BY ArrivalIs
<1>2. /\ c.id = arrivals + 1 /\ c.sent = sent
      /\ sentLast <= sent /\ sent <= time /\ time - sent <= MaxDelay
      /\ arrivals' = arrivals + 1 /\ sentLast' = sent /\ clockReset' = TRUE
      /\ UNCHANGED <<time, audio, audioTime, switches, origin>>
  BY <1>1 DEF Arrives
<1>3. /\ clockReset => base' = base
      /\ ~clockReset => base' = [pts |-> Stamp(sent), time |-> Player!Now, set |-> TRUE,
                                id |-> arrivals + 1]
  BY <1>1 DEF Arrives
<1>4. Player!Now' = Player!Now /\ \A s \in Nat : Stamp(s)' = Stamp(s)
  BY <1>2 DEF Player!Now, Stamp
<1>5. \A i \in 1..Len(jitter') : jitter'[i] = c \/ \E j \in 1..n : jitter'[i] = jitter[j]
  BY <1>1, PushFrom
<1> SUFFICES ASSUME switches = 0
             PROVE  FirstIsBase' /\ BaseKnown'
  BY <1>2 DEF Based
<1>6. CASE clockReset
  <2>1. BaseKnown /\ FirstIsBase
    BY <1>6 DEF Based
  <2>2. base' = base
    BY <1>3, <1>6
  <2>3. PICK s \in Nat, met \in Nat : BasedOn(s, met)
    BY <2>1 DEF BaseKnown
  <2>4. s <= sentLast' /\ s <= sent
    BY <1>0, <1>2, <2>3 DEF BasedOn
  <2>5. \A i \in 1..Len(jitter') : base'.id <= jitter'[i].id => s <= jitter'[i].sent
    BY <1>2, <1>5, <2>2, <2>3, <2>4 DEF BasedOn
  <2>6. BasedOn(s, met)'
    BY <1>2, <1>4, <2>2, <2>3, <2>4, <2>5 DEF BasedOn
  <2>7. base'.id <= arrivals' /\ base'.set
    BY <1>0, <1>2, <2>1, <2>2 DEF BaseKnown
  <2>8. BaseKnown'
    BY <2>6, <2>7 DEF BaseKnown
  <2>9. FirstIsBase'
    BY <1>2, <1>6, <2>1, <2>2 DEF FirstIsBase
  <2> QED
    BY <2>8, <2>9
<1>7. CASE ~clockReset
  <2>1. /\ base'.pts = Stamp(sent) /\ base'.time = Player!Now /\ base'.set
        /\ base'.id = arrivals + 1
    BY <1>3, <1>7
  <2>2. Player!Now \in Int
    BY PlayerBounds DEF PlayerTypes, Player!Now
  <2>3. Player!Now' - base'.time = time' - time
    BY <1>0, <1>2, <1>4, <2>1, <2>2
  <2>4. \A j \in 1..n : jitter[j].id \in Nat /\ jitter[j].id <= arrivals
    <3>1. \A j \in 1..n : jitter[j] \in Player!Chunk
      BY <1>0
    <3> QED
      BY <3>1 DEF Numbered, Player!Chunk
  <2>5. ASSUME NEW i \in 1..Len(jitter'), base'.id <= jitter'[i].id
        PROVE  sent <= jitter'[i].sent
    <3>1. \A j \in 1..n : ~(base'.id <= jitter[j].id)
      BY <1>0, <2>1, <2>4
    <3>2. jitter'[i] = c
      BY <1>5, <2>5, <3>1
    <3> QED
      BY <1>2, <3>2
  <2>6. BasedOn(sent, time)'
    BY <1>0, <1>2, <1>4, <2>1, <2>3, <2>5 DEF BasedOn
  <2>7. base'.id <= arrivals'
    BY <1>0, <1>2, <2>1
  <2>8. BaseKnown'
    BY <1>0, <1>2, <2>1, <2>6, <2>7 DEF BaseKnown
  <2>9. audio = "none" => ~(arrivals > 0)
    BY <1>7 DEF Based, FirstIsBase
  <2>10. FirstIsBase'
    BY <1>0, <1>2, <2>1, <2>9 DEF FirstIsBase
  <2> QED
    BY <2>8, <2>10
<1> QED
  BY <1>6, <1>7

\* Steps that keep the base: the buffer loses chunks, and master clock and real
\* time go on together.
LEMMA BaseStays ==
    ASSUME PlayerTypes, PlayerTypes', Based, NEW went \in {0, 1},
           UNCHANGED <<switches, audio, origin, sentLast, arrivals, base, clockReset>>,
           time' = time + went, Player!Now' = Player!Now + went,
           \A i \in 1..Len(jitter') : \E j \in 1..Len(jitter) : jitter'[i] = jitter[j]
    PROVE  Based'
<1>0. time \in Nat /\ Player!Now \in Int /\ base.time \in Int
  BY PlayerBounds DEF PlayerTypes, Player!Now
<1> SUFFICES ASSUME switches = 0, clockReset
             PROVE  BaseKnown'
  BY DEF Based, FirstIsBase
<1>1. BaseKnown
  BY DEF Based
<1>2. PICK sent \in Nat, met \in Nat : BasedOn(sent, met)
  BY <1>1 DEF BaseKnown
<1>3. Player!Now' - base.time = time' - met /\ met <= time'
  BY <1>0, <1>2 DEF BasedOn
<1>4. \A i \in 1..Len(jitter') : base.id <= jitter'[i].id => sent <= jitter'[i].sent
  BY <1>2 DEF BasedOn
<1>5. Stamp(sent)' = Stamp(sent)
  BY DEF Stamp
<1>6. BasedOn(sent, met)'
  BY <1>2, <1>3, <1>4, <1>5 DEF BasedOn
<1> QED
  BY <1>1, <1>6 DEF BaseKnown

LEMMA BasedStep ==
    ASSUME Account, Account', Based, [Player!Next]_(Player!vars)
    PROVE  Based'
<1>0. PlayerTypes /\ PlayerTypes' /\ Numbered
  BY DEF Account
<1>1. /\ switches \in Nat /\ time \in Nat /\ audioTime \in Int /\ Player!Now \in Int
      /\ jitter \in Seq(Player!Chunk) /\ Len(jitter) \in Nat
  BY <1>0, PlayerBounds DEF PlayerTypes, Player!Now
<1>2. \A i \in 1..Len(jitter) : \E j \in 1..Len(jitter) : jitter[i] = jitter[j]
  OBVIOUS
<1>3. CASE Player!Arrival
  BY <1>0, <1>3, ArrivalBases
<1>4. CASE Player!Tick
  <2>1. PICK late \in Nat, pulled \in {0, 1} : Takes(late, pulled) /\ Feeds(late, pulled)
    BY <1>0, <1>4, TickTakes
  <2>2. UNCHANGED <<time, audio, audioTime, switches, origin, sentLast, arrivals, base, clockReset>>
    BY <1>4, TickLeaves
  <2>3. ASSUME NEW i \in 1..Len(jitter')
        PROVE  \E j \in 1..Len(jitter) : jitter'[i] = jitter[j]
    <3>1. i + late + pulled \in 1..Len(jitter) /\ i \in 1..(Len(jitter) - late - pulled)
      BY <1>1, <2>1 DEF Takes
    <3> QED
      BY <2>1, <3>1 DEF Takes
  <2>4. Player!Now' = Player!Now + 0 /\ time' = time + 0
    BY <1>1, <2>2 DEF Player!Now
  <2> QED
    BY <1>0, <2>2, <2>3, <2>4, BaseStays
<1>5. CASE Player!Advance
  <2>1. /\ UNCHANGED <<switches, audio, origin, sentLast, arrivals, base, clockReset, jitter>>
        /\ time' = time + 1
        /\ audioTime' = IF audio = "running" THEN audioTime + 1 ELSE audioTime
    BY <1>5 DEF Player!Advance, Player!streamVars
  <2>2. Player!Now' = Player!Now + 1
    BY <1>1, <2>1, PlayerBounds DEF Player!Now
  <2> QED
    BY <1>0, <1>2, <2>1, <2>2, BaseStays
<1>6. ASSUME UNCHANGED <<time, audio, audioTime, switches, origin, sentLast, arrivals, base,
                         jitter>>,
             clockReset' = clockReset
      PROVE  Based'
  <2>1. Player!Now' = Player!Now + 0 /\ time' = time + 0
    BY <1>1, <1>6 DEF Player!Now
  <2> QED
    BY <1>0, <1>2, <1>6, <2>1, BaseStays
<1>7. ASSUME UNCHANGED <<switches, arrivals>>, clockReset' = FALSE,
             audio' = "none" => audio = "none" /\ clockReset' = clockReset
      PROVE  Based'
  BY <1>7 DEF Based, FirstIsBase
<1>8. CASE Player!Output
  <2>1. UNCHANGED <<time, audio, audioTime, switches, origin, sentLast, arrivals, base, jitter>>
    BY <1>8 DEF Player!Output, Player!audioVars, Player!streamVars
  <2>2. \/ clockReset' = clockReset
        \/ audio = "running" /\ clockReset' = FALSE
    BY <1>8 DEF Player!Output, Player!ObserveDrift
  <2> QED
    BY <1>6, <1>7, <2>1, <2>2
<1>9. CASE Player!PauseOrResume \/ UNCHANGED Player!vars
  BY <1>6, <1>9 DEF Player!PauseOrResume, Player!vars, Player!audioVars, Player!streamVars
<1>10. CASE Player!FirstAudio
  BY <1>7, <1>10 DEF Player!FirstAudio, Player!StreamUntouched, Player!streamVars
<1>11. ASSUME NEW newOrigin,
              \/ Player!Restart(newOrigin) \/ Player!AudioSuspends \/ Player!AudioResumes
       PROVE  Based'
  <2>1. switches' = switches + 1 /\ clockReset' = clockReset
    BY <1>11 DEF Player!Restart, Player!AudioSuspends, Player!AudioResumes
  <2> QED
    BY <1>1, <2>1 DEF Based
<1> QED
  BY <1>3, <1>4, <1>5, <1>8, <1>9, <1>10, <1>11 DEF Player!Next

\* The remainder of a difference of remainders is the difference, when that is
\* small.
LEMMA RemainderDifference ==
    ASSUME NEW a \in Nat, NEW b \in Nat, NEW m \in Nat \ {0}, b <= a, a - b < m
    PROVE  ((a % m) - (b % m)) % m = a - b
<1> DEFINE k == (a \div m) - (b \div m)
           d == (a % m) - (b % m)
<1>1. /\ a % m \in 0..(m - 1) /\ a \div m \in Int
      /\ a = m * (a \div m) + (a % m)
  BY DivMod
<1>2. /\ b % m \in 0..(m - 1) /\ b \div m \in Int
      /\ b = m * (b \div m) + (b % m)
  BY DivMod
<1>3. k \in Int /\ m * k = m * (a \div m) - m * (b \div m)
  BY <1>1, <1>2, SMTT(30)
<1>4. m * k \in Int
  BY <1>3
<1>5. d \in Int /\ d = (a - b) - m * k /\ -m < d /\ d < m
  <2> HIDE DEF k
  <2> QED
    BY <1>1, <1>2, <1>3, <1>4
<1>6. /\ d % m \in 0..(m - 1) /\ d \div m \in Int
      /\ d = m * (d \div m) + (d % m)
  BY <1>5, DivMod
<1> DEFINE q == k + (d \div m)
<1>7. q \in Int /\ m * q = m * k + m * (d \div m)
  BY <1>3, <1>6, SMTT(30)
<1>8. m * (d \div m) \in Int /\ m * q \in Int
  BY <1>4, <1>6, <1>7
<1> DEFINE mk == m * k
           me == m * (d \div m)
           mq == m * q
           r == d % m
<1>11. /\ mk \in Int /\ me \in Int /\ mq \in Int /\ r \in 0..(m - 1) /\ d \in Int
       /\ mq = mk + me /\ d = me + r /\ d = (a - b) - mk
  BY <1>4, <1>5, <1>6, <1>7, <1>8
<1> HIDE DEF k, d, q, mk, me, mq, r
<1>12. r = (a - b) - mq /\ -m < mq /\ mq < m
  BY <1>11
<1>9. -m < m * q /\ m * q < m /\ (d % m) = (a - b) - m * q
  BY <1>12 DEF mq, r
<1>10. q = 0
  <2>1. CASE q >= 1
    BY <1>7, <1>9, <2>1, m * q >= m * 1, SMTT(30)
  <2>2. CASE q <= -1
    BY <1>7, <1>9, <2>2, m * q <= m * (-1), SMTT(30)
  <2> QED
    BY <1>7, <2>1, <2>2
<1> QED
  BY <1>9, <1>10 DEF d

\* What lateness says: how much longer ago the chunk was captured than the one the
\* clock is based on, and how much of that the network took.
LEMMA LatenessIs ==
    ASSUME PlayerTypes, ShortSession, NEW sent \in Nat, NEW met \in Nat,
           BasedOn(sent, met), base.set,
           NEW c \in Player!Chunk, c.ts = Stamp(c.sent), sent <= c.sent
    PROVE  Player!Lateness(c.ts) = (c.sent - sent) - (time - met)
<1> DEFINE residue == (c.ts - base.pts) % Wrap
           ptsElapsed == IF 2 * residue > Wrap THEN residue - Wrap ELSE residue
<1>1. /\ origin \in Nat /\ time \in Nat /\ time <= Horizon /\ Player!Now \in Int
      /\ base.time \in Int /\ Horizon \in Nat /\ Wrap \in Nat \ {0}
  BY PlayerBounds DEF PlayerTypes, Player!Now
<1>2. c.sent \in Nat /\ c.sent <= Horizon
  BY <1>1 DEF Player!Chunk
<1>3. /\ c.sent + origin \in Nat /\ sent + origin \in Nat /\ sent + origin <= c.sent + origin
      /\ (c.sent + origin) - (sent + origin) = c.sent - sent
      /\ c.sent - sent <= Horizon /\ c.sent - sent < Wrap
  BY <1>1, <1>2 DEF ShortSession
<1>4. residue = c.sent - sent
  <2>1. base.pts = (sent + origin) % Wrap /\ c.ts = (c.sent + origin) % Wrap
    BY DEF BasedOn, Stamp
  <2>2. (c.sent + origin) - (sent + origin) < Wrap
    BY <1>3
  <2>3. (((c.sent + origin) % Wrap) - ((sent + origin) % Wrap)) % Wrap
            = (c.sent + origin) - (sent + origin)
    BY <1>1, <1>3, <2>2, RemainderDifference
  <2> QED
    BY <1>3, <2>1, <2>3
<1> HIDE DEF residue
<1>5. ptsElapsed = c.sent - sent
  BY <1>1, <1>2, <1>3, <1>4 DEF ShortSession
<1>6. Player!Lateness(c.ts) = ptsElapsed - (Player!Now - base.time)
  BY Zenon DEF Player!Lateness, residue
<1> HIDE DEF ptsElapsed
<1> QED
  BY <1>1, <1>5, <1>6 DEF BasedOn

\* The first thing a late chunk is: captured longer ago than the budget.
LEMMA LateIsOld ==
    ASSUME PlayerTypes, ShortSession, InSession, Based, switches = 0, clockReset,
           NEW i \in 1..Len(jitter), base.id <= jitter[i].id
    PROVE  /\ Player!Late(jitter[i]) => time - jitter[i].sent > Budget
           /\ ~Player!Late(jitter[i]) => time - jitter[i].sent <= Budget + MaxDelay
<1>1. jitter[i] \in Player!Chunk
  BY DEF PlayerTypes
<1>2. BaseKnown
  BY DEF Based
<1>3. PICK sent \in Nat, met \in Nat : BasedOn(sent, met)
  BY <1>2 DEF BaseKnown
<1>4. jitter[i].ts = Stamp(jitter[i].sent) /\ sent <= jitter[i].sent /\ base.set
  BY <1>2, <1>3 DEF InSession, StampedRight, BasedOn, BaseKnown
<1>5. Player!Lateness(jitter[i].ts) = (jitter[i].sent - sent) - (time - met)
  BY <1>1, <1>3, <1>4, LatenessIs
<1>6. Player!Late(jitter[i]) <=> (jitter[i].sent - sent) - (time - met) < -Budget
  BY <1>5, Zenon DEF Player!Late
<1>7. sent <= met /\ met <= time /\ met - sent <= MaxDelay
  BY <1>3 DEF BasedOn
<1>8. time \in Nat /\ Budget \in Nat /\ MaxDelay \in Nat
  BY PlayerBounds DEF PlayerTypes
<1>9. jitter[i].sent \in Nat
  BY <1>1 DEF Player!Chunk
<1> DEFINE captured == jitter[i].sent
<1>10. /\ Player!Late(jitter[i]) <=> (captured - sent) - (time - met) < -Budget
       /\ captured \in Nat
  BY <1>6, <1>9
<1> HIDE DEF captured
<1>11. (captured - sent) - (time - met) < -Budget => time - captured > Budget
  BY <1>7, <1>8, <1>10
<1>12. ~((captured - sent) - (time - met) < -Budget) => time - captured <= Budget + MaxDelay
  BY <1>7, <1>8, <1>10
<1>13. /\ Player!Late(jitter[i]) => time - captured > Budget
       /\ ~Player!Late(jitter[i]) => time - captured <= Budget + MaxDelay
  BY <1>10, <1>11, <1>12, Zenon
<1> QED
  BY <1>13 DEF captured

\* Only a tick drops chunks or hands one out.
LEMMA OnlyTicks ==
    ASSUME [Player!Next]_(Player!vars), ~Player!Tick
    PROVE  framesDropped' = framesDropped /\ decodedLast' = decodedLast
<1>1. CASE Player!Arrival
  BY <1>1 DEF Player!Arrival, Player!Enqueue
<1>2. ASSUME NEW newOrigin,
             \/ Player!Advance \/ Player!Output \/ Player!PauseOrResume
             \/ Player!Restart(newOrigin) \/ Player!FirstAudio
             \/ Player!AudioSuspends \/ Player!AudioResumes \/ UNCHANGED Player!vars
      PROVE  framesDropped' = framesDropped /\ decodedLast' = decodedLast
  BY <1>2, OthersLeave
<1> QED
  BY <1>1, <1>2 DEF Player!Next

LEMMA Joined ==
    ASSUME NEW S, NEW s \in Seq(S), NEW t \in Seq(S)
    PROVE  /\ s \o t \in Seq(S) /\ Len(s \o t) = Len(s) + Len(t)
           /\ \A j \in 1..Len(s) : (s \o t)[j] = s[j]
           /\ \A j \in 1..Len(t) : (s \o t)[Len(s) + j] = t[j]
           /\ Len(s) \in Nat /\ Len(t) \in Nat
  OBVIOUS

\* What a tick takes from the buffer and does not hand out is late.
LEMMA DroppedIsLate ==
    ASSUME PlayerTypes, Player!Tick,
           NEW c \in Player!ToSet(jitter) \ Player!ToSet(jitter' \o decoding')
    PROVE  \E i \in 1..Len(jitter) : c = jitter[i] /\ Player!Late(jitter[i])
<1> DEFINE n == Len(jitter)
<1>1. PICK late \in Nat, pulled \in {0, 1} : Takes(late, pulled) /\ Feeds(late, pulled)
  BY TickTakes
<1>2. /\ jitter \in Seq(Player!Chunk) /\ n \in Nat
      /\ decoding \in Seq(Player!Chunk) /\ Len(decoding) \in Nat
  BY DEF PlayerTypes
<1>3. PICK i \in 1..n : c = jitter[i]
  BY <1>2 DEF Player!ToSet
<1>4. /\ late \in 0..n /\ late + pulled <= n
      /\ \A j \in 1..late : Player!Late(jitter[j])
      /\ jitter' \in Seq(Player!Chunk) /\ Len(jitter') = n - late - pulled
      /\ \A j \in 1..(n - late - pulled) : jitter'[j] = jitter[j + late + pulled]
  BY <1>1 DEF Takes
<1>5. decoding' \in Seq(Player!Chunk)
      /\ (pulled = 1 => /\ Len(decoding') = Len(decoding) + 1
                        /\ decoding'[Len(decoding) + 1] = jitter[late + 1])
  <2>1. CASE pulled = 0
    BY <1>1, <1>2, <2>1 DEF Feeds
  <2>2. CASE pulled = 1
    <3>1. late + 1 \in 1..n
      BY <1>2, <1>4, <2>2
    <3>2. jitter[late + 1] \in Player!Chunk
      BY <1>2, <3>1
    <3>3. decoding' = Append(decoding, jitter[late + 1])
      BY <1>1, <2>2 DEF Feeds
    <3> QED
      BY <1>2, <3>2, <3>3
  <2> QED
    BY <2>1, <2>2
<1> DEFINE both == jitter' \o decoding'
<1>6. /\ both \in Seq(Player!Chunk) /\ Len(both) = Len(jitter') + Len(decoding')
      /\ \A j \in 1..Len(jitter') : both[j] = jitter'[j]
      /\ \A j \in 1..Len(decoding') : both[Len(jitter') + j] = decoding'[j]
      /\ Len(jitter') \in Nat /\ Len(decoding') \in Nat
  <2>1. jitter' \in Seq(Player!Chunk) /\ decoding' \in Seq(Player!Chunk)
    BY <1>4, <1>5, Zenon
  <2> QED
    BY <2>1, Joined, Zenon
<1>7. ASSUME NEW j \in 1..Len(both), both[j] = c
      PROVE  FALSE
  <2>0. j \in DOMAIN both /\ both[j] = c
    BY <1>6, <1>7
  <2>1. c \in Player!ToSet(both)
    BY <2>0, Zenon DEF Player!ToSet
  <2> QED
    BY <2>1
<1> HIDE DEF both
<1>8. CASE i <= late
  BY <1>3, <1>4, <1>8
<1>9. CASE i > late + pulled
  <2>1. i - late - pulled \in 1..(n - late - pulled) /\ (i - late - pulled) + late + pulled = i
    BY <1>2, <1>4, <1>9
  <2>2. jitter'[i - late - pulled] = c
    BY <1>3, <1>4, <2>1
  <2>3. i - late - pulled \in 1..Len(both) /\ i - late - pulled \in 1..Len(jitter')
    BY <1>2, <1>4, <1>6, <2>1
  <2>4. both[i - late - pulled] = c
    BY <1>6, <2>2, <2>3
  <2> QED
    BY <1>7, <2>3, <2>4
<1>10. CASE ~(i <= late) /\ ~(i > late + pulled)
  <2>1. pulled = 1 /\ i = late + 1
    BY <1>2, <1>4, <1>10
  <2>2. Len(decoding) + 1 \in 1..Len(decoding') /\ decoding'[Len(decoding) + 1] = c
    BY <1>2, <1>3, <1>5, <2>1
  <2>3. both[Len(jitter') + (Len(decoding) + 1)] = c
    BY <1>6, <2>2
  <2>4. Len(jitter') + (Len(decoding) + 1) \in 1..Len(both)
    BY <1>2, <1>6, <2>2
  <2> QED
    BY <1>7, <2>3, <2>4
<1> QED
  BY <1>8, <1>9, <1>10

LEMMA Basing == Player!Spec => [](Account /\ InSession /\ Based)
<1>1. ASSUME Account, Account', Based, [Player!Next]_(Player!vars)
      PROVE  Based'
  BY <1>1, BasedStep
<1> QED
  BY <1>1, BasedInit, InOneSession, PTL DEF Player!Spec

\* As long as the audio only starts, and is neither suspended nor resumed, and no
\* session is restarted (switches = 0): once the first chunk after a resync based
\* the clock, what is dropped of that chunk and the ones behind it was captured
\* longer ago than the budget, whatever the offset of the audio, the drift and the
\* resyncs.
THEOREM DropsOnlyTheLate ==
    ASSUME ShortSession PROVE Player!Spec => RebasedDropsOnlyLate
<1> DEFINE Dropped ==
               framesDropped' > framesDropped /\ switches = 0 =>
                   \A c \in Player!ToSet(jitter) \ Player!ToSet(jitter' \o decoding') :
                       clockReset /\ c.id >= base.id => time - c.sent > Budget
<1>1. ASSUME Account, InSession, Based, Player!Next
      PROVE  Dropped
  <2>0. PlayerTypes /\ framesDropped \in Nat
    BY <1>1 DEF Account, PlayerTypes
  <2> SUFFICES ASSUME framesDropped' > framesDropped, switches = 0,
                      NEW c \in Player!ToSet(jitter) \ Player!ToSet(jitter' \o decoding'),
                      clockReset, c.id >= base.id
               PROVE  time - c.sent > Budget
    OBVIOUS
  <2>1. Player!Tick
    BY <1>1, <2>0, OnlyTicks
  <2>2. PICK i \in 1..Len(jitter) : c = jitter[i] /\ Player!Late(jitter[i])
    BY <2>0, <2>1, DroppedIsLate
  <2>3. jitter[i].id \in Nat /\ base.id \in Nat
    <3>1. jitter[i] \in Player!Chunk
      BY <2>0 DEF PlayerTypes
    <3>2. \A x \in Player!Chunk : x.id \in Nat
      BY DEF Player!Chunk
    <3>3. base.id \in Nat
      BY <2>0 DEF PlayerTypes
    <3> QED
      BY <3>1, <3>2, <3>3
  <2>4. base.id <= jitter[i].id
    BY <2>2, <2>3
  <2> QED
    BY <1>1, <2>0, <2>2, <2>4, LateIsOld
<1>2. Account /\ InSession /\ Based /\ [Player!Next]_(Player!vars)
          => [Dropped]_(Player!vars)
  BY <1>1
<1> QED
  BY <1>2, Basing, PTL DEF Player!Spec, RebasedDropsOnlyLate, Player!RebasedDropsOnlyLate

\* Without audio the viewer stays near live: what the decoder is given is never
\* older than the budget and the longest delay of the network together.
THEOREM NearLive ==
    ASSUME ShortSession PROVE Player!Spec => StaysNearLive
<1> DEFINE Near ==
               decodedLast' # decodedLast /\ audio = "none" /\ switches = 0 =>
                   time - Player!Last(decoding').sent <= Budget + MaxDelay
<1>1. ASSUME Account, InSession, Based, Player!Next
      PROVE  Near
  <2>0. PlayerTypes
    BY <1>1 DEF Account
  <2> SUFFICES ASSUME decodedLast' # decodedLast, audio = "none", switches = 0
               PROVE  time - Player!Last(decoding').sent <= Budget + MaxDelay
    OBVIOUS
  <2>1. Player!Tick
    BY <1>1, OnlyTicks
  <2>2. PICK late \in Nat, pulled \in {0, 1} : Takes(late, pulled) /\ Feeds(late, pulled)
    BY <2>0, <2>1, TickTakes
  <2>3. pulled = 1
    BY <2>2 DEF Feeds
  <2>4. ~Player!Late(jitter[late + 1]) /\ decoding' = Append(decoding, jitter[late + 1])
    BY <2>2, <2>3 DEF Feeds
  <2>5. jitter \in Seq(Player!Chunk) /\ decoding \in Seq(Player!Chunk)
        /\ Len(jitter) \in Nat /\ Len(decoding) \in Nat
    BY <2>0 DEF PlayerTypes
  <2>6. late + 1 \in 1..Len(jitter)
    BY <2>2, <2>3, <2>5 DEF Takes
  <2>7. jitter[late + 1] \in Player!Chunk
    BY <2>5, <2>6
  <2>8. Player!Last(decoding') = jitter[late + 1]
    <3>1. Len(decoding') = Len(decoding) + 1
          /\ decoding'[Len(decoding) + 1] = jitter[late + 1]
      BY <2>4, <2>5, <2>7
    <3> QED
      BY <3>1, Zenon DEF Player!Last
  <2>9. jitter[late + 1].id \in Nat /\ jitter[late + 1].id >= 1
    BY <2>7 DEF Player!Chunk
  <2>10. jitter[late + 1].id <= arrivals
    BY <1>1, <2>6 DEF Account, Numbered
  <2>11. arrivals > 0
    BY <2>0, <2>9, <2>10, PlayerBounds DEF PlayerTypes
  <2>12. clockReset /\ base.id = 1
    BY <1>1, <2>11 DEF Based, FirstIsBase
  <2>13. time - jitter[late + 1].sent <= Budget + MaxDelay
    BY <1>1, <2>0, <2>4, <2>6, <2>9, <2>12, LateIsOld
  <2> QED
    BY <2>8, <2>13
<1>2. Account /\ InSession /\ Based /\ [Player!Next]_(Player!vars)
          => [Near]_(Player!vars)
  BY <1>1
<1> QED
  BY <1>2, Basing, PTL DEF Player!Spec, StaysNearLive, Player!StaysNearLive

\* Every behaviour of the run is one of the scheduler, in either setting, and the
\* ones of the monitor are behaviours of the monitor.
THEOREM SchedulingOfRun == MCSpec => Spec /\ Player!Spec
<1>1. MCInit => Init /\ Player!Init
  BY DEF MCInit
<1>2. [MCNext]_<<subject, vars, schedulerVars>> => [Next]_vars
  BY DEF MCNext, schedulerVars
<1>3. [MCNext]_<<subject, vars, schedulerVars>> => [Player!Next]_(Player!vars)
  BY DEF MCNext, schedulerVars, Player!vars, Player!audioVars, Player!streamVars,
         Player!monitorVars
<1> QED
  BY <1>1, <1>2, <1>3, PTL DEF MCSpec, Spec, Player!Spec
=============================================================================
