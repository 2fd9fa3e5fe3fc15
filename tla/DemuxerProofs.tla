---------------------------- MODULE DemuxerProofs ----------------------------
(***************************************************************************)
(* The demuxers of MCStreams, for all sizes, moduli and lengths of streams,  *)
(* wherever the streams are cut into chunks.                                 *)
(*                                                                         *)
(* The timestamps: the type invariant, and that while the clock does not go  *)
(* back the unwrapped stamp follows it (Follows) and is let through as it is *)
(* (LetThrough).                                                             *)
(*                                                                         *)
(* The FLV demuxer: as many tags were taken as lie before the cursor, and    *)
(* none was skipped (InStep).  Between two chunks nothing whole is left.      *)
(*                                                                         *)
(* The PS demuxer: what lies before the cursor was whole, or ignored, and    *)
(* its start code was there (Seen), so that putting the cursor back to a     *)
(* retained tail cannot pass a packet twice; the events are those of what    *)
(* was passed (Emitted); between two chunks what is left is not whole, and   *)
(* waited for if it is a packet that counts (CaughtUp).                      *)
(*                                                                         *)
(* The TS demuxer: until it fails, the buffer of a stream is in one piece    *)
(* and ends with the last packet sent, whose counter it knows (Buffered); so *)
(* a loss that cuts a buffered frame fails the demuxer, unless the counter    *)
(* comes out as it was or one on (Masks, CounterMoves).                       *)
(*                                                                         *)
(* Where a tag or a packet lies is a recursive function of the stream.        *)
(* TotalsExist proves that such a running total exists: there is no least     *)
(* length for which it would not.                                             *)
(***************************************************************************)
EXTENDS MCStreams, WellFoundedInduction, FiniteSetTheorems, TLAPS

LEMMA TimeBounds ==
    /\ ClockModulus \in Nat \ {0}
    /\ Frame \in Nat
    /\ Jumps \subseteq Int
    /\ MaxStamps \in Nat
BY StreamsAssumption DEF StreamsAssumption

\* The clock moves by less than half the range.
ShortJumps == \A j \in Jumps : -ClockModulus < 2 * j /\ 2 * j < ClockModulus

-----------------------------------------------------------------------------
(* Remainders.                                                               *)

\* A number is its quotient times the divisor, and its remainder.
LEMMA DivMod ==
    ASSUME NEW a \in Int, NEW m \in Nat \ {0}
    PROVE  /\ a % m \in 0..(m - 1)
           /\ a \div m \in Int
           /\ a = m * (a \div m) + (a % m)
<1>1. a % m \in 0..(m - 1)
  BY SMTT(30)
<1>2. a \div m \in Int
  BY SMTT(30)
<1>3. a = m * (a \div m) + (a % m)
  BY SMTT(30)
<1> QED
  BY <1>1, <1>2, <1>3

\* A multiple that is smaller than one and a half times m is 0, m or -m.
LEMMA SmallMultiple ==
    ASSUME NEW k \in Int, NEW m \in Nat \ {0},
           -3 * m < 2 * (m * k), 2 * (m * k) < 3 * m
    PROVE  k \in {-1, 0, 1}
<1>1. CASE k >= 2
  BY <1>1, m * k >= m * 2, SMTT(30)
<1>2. CASE k <= -2
  BY <1>2, m * k <= m * (-2), SMTT(30)
<1> QED
  BY <1>1, <1>2

\* When a number moves by less than half of m, its remainder moves as much, or
\* by m more or less.
LEMMA RemainderMoves ==
    ASSUME NEW a \in Int, NEW j \in Int, NEW m \in Nat \ {0}, -m < 2 * j, 2 * j < m
    PROVE  ((a + j) % m) - (a % m) \in {j, j - m, j + m}
<1> DEFINE b == a + j
           k == (a \div m) - (b \div m)
<1>1. /\ a % m \in 0..(m - 1) /\ a \div m \in Int
      /\ a = m * (a \div m) + (a % m)
  BY DivMod
<1>2. /\ b % m \in 0..(m - 1) /\ b \div m \in Int
      /\ b = m * (b \div m) + (b % m)
  BY DivMod
<1>3. k \in Int /\ m * k = m * (a \div m) - m * (b \div m)
  BY <1>1, <1>2, SMTT(30)
<1>4. (b % m) - (a % m) = j + m * k
  BY <1>1, <1>2, <1>3
<1>5. -3 * m < 2 * (m * k) /\ 2 * (m * k) < 3 * m
  <2> HIDE DEF k
  <2>1. m * k \in Int
    BY <1>3
  <2> QED
    BY <1>1, <1>2, <1>4, <2>1
<1>6. k \in {-1, 0, 1}
  BY <1>3, <1>5, SmallMultiple
<1>7. m * k \in {-m, 0, m}
  BY <1>6
<1> QED
  BY <1>1, <1>2, <1>4, <1>7

-----------------------------------------------------------------------------
(* Time!TypeOK, in two halves that take different provers.                        *)

ClockFlags == unwraps \in BOOLEAN /\ emitted \in BOOLEAN /\ steady \in BOOLEAN

ClockNumbers ==
    /\ clock \in Int /\ wrapOffset \in Int /\ resolved \in Int
    /\ last \in Int /\ origin \in Int
    /\ offset \in Nat
    /\ stamp \in -1..(ClockModulus - 1)
    /\ stamped \in 0..MaxStamps

LEMMA TypeHalves == Time!TypeOK <=> ClockFlags /\ ClockNumbers
<1>1. {unwraps, emitted, steady} \subseteq BOOLEAN <=> ClockFlags
  BY Zenon DEF ClockFlags
<1>2. {clock, wrapOffset, resolved, last, origin} \subseteq Int
          <=> /\ clock \in Int /\ wrapOffset \in Int /\ resolved \in Int
              /\ last \in Int /\ origin \in Int
  BY Zenon
<1> QED
  BY <1>1, <1>2, Zenon DEF Time!TypeOK, ClockNumbers

\* What adjustedPts() makes of any timestamp lies behind the last one.
LEMMA EmitMovesOn ==
    ASSUME ClockNumbers, NEW pts \in Int, NEW twice \in BOOLEAN, Time!Emit(pts, twice)
    PROVE  offset' \in Nat /\ last' \in Int /\ (emitted => last' >= last)
<1>1. Time!Shift(pts) \in Nat /\ (emitted => pts + Time!Shift(pts) >= last)
  BY TimeBounds DEF ClockNumbers, Time!Shift
<1> QED
  BY <1>1 DEF Time!Emit, ClockNumbers

LEMMA NumbersInit == Time!Init => ClockNumbers
  BY TimeBounds DEF Time!Init, ClockNumbers, Time!None

LEMMA SyntheticIsInt == ClockNumbers => Time!Synthetic \in Int
  BY TimeBounds DEF ClockNumbers, Time!Synthetic

LEMMA StampedNumbers ==
    ASSUME ClockNumbers, unwraps \in BOOLEAN, Time!Stamped
    PROVE  /\ ClockNumbers' /\ (emitted => last' >= last)
<1>1. PICK jump \in Jumps : clock' = clock + jump
  BY DEF Time!Stamped
<1>2. clock' \in Int
  BY <1>1, TimeBounds DEF ClockNumbers
<1>3. stamp' \in 0..(ClockModulus - 1)
  BY <1>2, DivMod, TimeBounds DEF Time!Stamped
<1>4. wrapOffset' \in Int
  BY <1>3, TimeBounds DEF ClockNumbers, Time!Stamped, Time!Unwrap
<1>5. resolved' \in Int
  BY <1>3, <1>4 DEF Time!Stamped
<1>6. origin' \in Int
  BY <1>2, <1>5 DEF ClockNumbers, Time!Stamped
<1>7. PICK twice \in BOOLEAN : Time!Emit(resolved', twice)
  BY Zenon DEF Time!Stamped
<1>8. offset' \in Nat /\ last' \in Int /\ (emitted => last' >= last)
  BY <1>5, <1>7, EmitMovesOn
<1>9. stamped' \in 0..MaxStamps
  BY TimeBounds DEF ClockNumbers, Time!Stamped
<1> QED
  BY <1>2, <1>3, <1>4, <1>5, <1>6, <1>8, <1>9 DEF ClockNumbers

LEMMA UnstampedNumbers ==
    ASSUME ClockNumbers, Time!Unstamped
    PROVE  /\ ClockNumbers' /\ (emitted => last' >= last)
<1>1. offset' \in Nat /\ last' \in Int /\ (emitted => last' >= last)
  BY SyntheticIsInt, EmitMovesOn DEF Time!Unstamped
<1>2. stamped' \in 0..MaxStamps
  BY TimeBounds DEF ClockNumbers, Time!Unstamped
<1> QED
  BY <1>1, <1>2 DEF ClockNumbers, Time!Unstamped

LEMMA FlagsStep ==
    ASSUME ClockFlags, [Time!Next]_(Time!vars)
    PROVE  ClockFlags'
<1>1. CASE Time!Stamped
  BY <1>1, Zenon DEF ClockFlags, Time!Stamped, Time!Emit
<1>2. CASE Time!Unstamped
  BY <1>2, Zenon DEF ClockFlags, Time!Unstamped, Time!Emit
<1>3. CASE UNCHANGED Time!vars
  BY <1>3, Zenon DEF ClockFlags, Time!vars
<1> QED
  BY <1>1, <1>2, <1>3, Zenon DEF Time!Next

LEMMA TypesStep ==
    ASSUME Time!TypeOK, [Time!Next]_(Time!vars)
    PROVE  Time!TypeOK' /\ (emitted /\ ~UNCHANGED Time!vars => last' >= last)
<1>1. ClockFlags /\ ClockNumbers
  BY TypeHalves, Zenon
<1>2. ClockFlags'
  BY <1>1, FlagsStep, Zenon
<1>3. ClockNumbers' /\ (emitted /\ ~UNCHANGED Time!vars => last' >= last)
  <2>1. CASE Time!Stamped
    BY <1>1, <2>1, StampedNumbers, Zenon DEF ClockFlags
  <2>2. CASE Time!Unstamped
    BY <1>1, <2>2, UnstampedNumbers, Zenon
  <2>3. CASE UNCHANGED Time!vars
    BY <1>1, <2>3 DEF Time!vars, ClockNumbers
  <2> QED
    BY <2>1, <2>2, <2>3, Zenon DEF Time!Next
<1>4. Time!TypeOK' <=> ClockFlags' /\ ClockNumbers'
  <2>1. {unwraps', emitted', steady'} \subseteq BOOLEAN <=> ClockFlags'
    BY Zenon DEF ClockFlags
  <2>2. {clock', wrapOffset', resolved', last', origin'} \subseteq Int
            <=> /\ clock' \in Int /\ wrapOffset' \in Int /\ resolved' \in Int
                /\ last' \in Int /\ origin' \in Int
    BY Zenon
  <2> QED
    BY <2>1, <2>2, Zenon DEF Time!TypeOK, ClockNumbers
<1> QED
  BY <1>2, <1>3, <1>4, Zenon

LEMMA TypesInit == Time!Init => Time!TypeOK
<1>1. Time!Init => ClockFlags
  BY DEF Time!Init, ClockFlags
<1> QED
  BY <1>1, NumbersInit, TypeHalves, Zenon

\* TypeOK: the state of either demuxer's clock keeps its types, for every
\* modulus, frame and set of jumps.
THEOREM TypeCorrect == Time!Spec => []Time!TypeOK
<1>1. Time!Init => Time!TypeOK
  BY TypesInit, Zenon
<1>2. Time!TypeOK /\ [Time!Next]_(Time!vars) => Time!TypeOK'
  BY TypesStep, Zenon
<1> QED
  BY <1>1, <1>2, PTL DEF Time!Spec

\* NeverBack: whatever the stream does, no timestamp that TsDemuxer.adjustedPts()
\* or PsDemuxer.adjustedPtsUs() emits lies before the one ahead of it.
THEOREM TimestampsNeverGoBack == Time!Spec => NeverBack
<1>1. Time!TypeOK /\ [Time!Next]_(Time!vars) => [emitted => last' >= last]_(Time!vars)
  BY TypesStep, Zenon
<1>2. Time!Spec => []Time!TypeOK
  BY TypeCorrect, Zenon
<1> QED
  BY <1>1, <1>2, PTL DEF Time!Spec, NeverBack, Time!NeverBack

-----------------------------------------------------------------------------
(* The stamps a PsDemuxer unwraps.                                           *)

\* The unwrapped stamp follows the clock ...
Follows ==
    unwraps /\ stamp # Time!None =>
        /\ stamp = clock % ClockModulus
        /\ resolved = stamp + wrapOffset
        /\ resolved = clock - origin

\* ... and is let through as it is while the clock never went back.
LetThrough ==
    unwraps /\ steady =>
        /\ offset = 0
        /\ emitted => stamp # Time!None /\ last = resolved

LEMMA FollowsStep ==
    ASSUME ShortJumps, ClockNumbers, unwraps, Follows, Time!Stamped
    PROVE  /\ Follows' /\ stamp' # Time!None
           /\ stamp # Time!None => resolved' - resolved = clock' - clock
<1> DEFINE r == clock % ClockModulus
           r1 == clock' % ClockModulus
<1>1. PICK jump \in Jumps : clock' = clock + jump
  BY DEF Time!Stamped
<1>2. /\ jump \in Int /\ clock \in Int /\ clock' \in Int
      /\ -ClockModulus < 2 * jump /\ 2 * jump < ClockModulus
  BY <1>1, TimeBounds DEF ShortJumps, ClockNumbers
<1>3. r \in 0..(ClockModulus - 1) /\ r1 \in 0..(ClockModulus - 1)
  BY <1>2, DivMod, TimeBounds
<1>4. r1 - r \in {jump, jump - ClockModulus, jump + ClockModulus}
  BY <1>1, <1>2, RemainderMoves, TimeBounds
<1>5. /\ stamp' = r1 /\ wrapOffset' = Time!Unwrap(r1) /\ resolved' = r1 + Time!Unwrap(r1)
      /\ stamp = Time!None => origin' = clock' - resolved'
      /\ stamp # Time!None => origin' = origin
      /\ unwraps' = unwraps
  BY DEF Time!Stamped
<1>6. Time!Unwrap(r1) \in Int
  BY <1>3, TimeBounds DEF ClockNumbers, Time!Unwrap
<1>7. stamp' # Time!None
  BY <1>3, <1>5 DEF Time!None
<1>8. CASE stamp = Time!None
  BY <1>2, <1>3, <1>5, <1>6, <1>7, <1>8 DEF Follows
<1>9. CASE stamp # Time!None
  <2> HIDE DEF r, r1
  <2>1. stamp = r /\ resolved = r + wrapOffset /\ resolved = clock - origin
    BY <1>9 DEF Follows, r
  <2>2. Time!Unwrap(r1) = wrapOffset + jump - (r1 - r)
    BY <1>2, <1>3, <1>4, <1>9, <2>1, TimeBounds DEF ClockNumbers, Time!Unwrap
  <2>3. resolved' = clock' - origin /\ resolved' - resolved = clock' - clock
    BY <1>1, <1>2, <1>3, <1>5, <2>1, <2>2 DEF ClockNumbers
  <2> QED
    BY <1>5, <1>7, <1>9, <2>3 DEF Follows, r1
<1> QED
  BY <1>8, <1>9

\* A stamp behind the last one is emitted as it is while the offset is 0.
LEMMA Unshifted ==
    ASSUME NEW pts \in Int, NEW twice \in BOOLEAN, Time!Emit(pts, twice), Time!Shift(pts) = 0
    PROVE  offset' = 0 /\ last' = pts
<1>1. offset' = 0
  BY Zenon DEF Time!Emit
<1>2. last' = pts + 0 + 0
  BY <1>1 DEF Time!Emit
<1>3. pts + 0 + 0 = pts
  OBVIOUS
<1> QED
  BY <1>1, <1>2, <1>3, Zenon

LEMMA LetThroughStep ==
    ASSUME ShortJumps, ClockNumbers, unwraps, Follows, LetThrough, Time!Stamped
    PROVE  LetThrough'
<1> SUFFICES ASSUME steady'
             PROVE  offset' = 0 /\ last' = resolved'
  BY FollowsStep DEF LetThrough
<1>1. PICK jump \in Jumps : clock' = clock + jump /\ steady /\ (jump >= 0 \/ ~emitted)
  BY DEF Time!Stamped
<1>2. offset = 0
  BY <1>1 DEF LetThrough
<1>3. resolved' \in Int
  BY StampedNumbers DEF ClockNumbers
<1>4. emitted => last <= resolved'
  <2> SUFFICES ASSUME emitted
               PROVE  last <= resolved'
    OBVIOUS
  <2>1. stamp # Time!None /\ last = resolved
    BY <1>1 DEF LetThrough
  <2>2. resolved' - resolved = clock' - clock
    BY <2>1, FollowsStep
  <2>3. jump >= 0
    BY <1>1, Zenon
  <2>4. clock' - clock = jump
    BY <1>1, TimeBounds DEF ClockNumbers
  <2> QED
    BY <1>3, <2>1, <2>2, <2>3, <2>4, TimeBounds DEF ClockNumbers
<1>5. PICK twice \in BOOLEAN : Time!Emit(resolved', twice)
  BY Zenon DEF Time!Stamped
<1>6. Time!Shift(resolved') = 0
  BY <1>2, <1>3, <1>4 DEF Time!Shift, ClockNumbers
<1> QED
  BY <1>3, <1>5, <1>6, Unshifted, Zenon

\* UnwrapsExactly: however often the clock wraps, PsDemuxer.resolveWrapTicks()
\* keeps its pace, and a stream that never went back gets these timestamps.
THEOREM UnwrappedExactly ==
    ASSUME ShortJumps
    PROVE  Time!Spec => []UnwrapsExactly
<1>1. Time!Init => Follows /\ LetThrough
  BY DEF Time!Init, Follows, LetThrough
<1>2. Time!TypeOK /\ Follows /\ LetThrough /\ [Time!Next]_(Time!vars) => Follows' /\ LetThrough'
  <2> SUFFICES ASSUME Time!TypeOK, Follows, LetThrough, [Time!Next]_(Time!vars)
               PROVE  Follows' /\ LetThrough'
    OBVIOUS
  <2>1. ClockFlags /\ ClockNumbers
    BY TypeHalves, Zenon
  <2>2. CASE Time!Stamped
    <3>1. CASE unwraps
      BY <2>1, <2>2, <3>1, FollowsStep, LetThroughStep, Zenon
    <3>2. CASE ~unwraps
      BY <2>2, <3>2 DEF Time!Stamped, Follows, LetThrough
    <3> QED
      BY <3>1, <3>2
  <2>3. CASE Time!Unstamped
    BY <2>3 DEF Time!Unstamped, Follows, LetThrough
  <2>4. CASE UNCHANGED Time!vars
    BY <2>4 DEF Time!vars, Follows, LetThrough
  <2> QED
    BY <2>2, <2>3, <2>4 DEF Time!Next
<1>3. Follows /\ LetThrough => UnwrapsExactly
  BY DEF Follows, LetThrough, UnwrapsExactly, Time!UnwrapsExactly
<1>4. Time!Spec => []Time!TypeOK
  BY TypeCorrect, Zenon
<1> QED
  BY <1>1, <1>2, <1>3, <1>4, PTL DEF Time!Spec

-----------------------------------------------------------------------------
(* Positions in a stream: running totals, which the models define by recursion. *)

LEMMA LeastNumber ==
    ASSUME NEW S, S \subseteq Nat, S # {}
    PROVE  \E x \in S : \A y \in S : x <= y
<1>1. PICK x \in S : \A y \in S : <<y, x>> \notin OpToRel(<, Nat)
  BY NatLessThanWellFounded, WFMin, Zenon
<1>2. \A y \in S : ~(y < x)
  BY <1>1, Zenon DEF OpToRel
<1> QED
  BY <1>2

\* f is the running total of the sizes, from a base on.
Totals(f, base, sizeOf, max) ==
    f = [n \in 1..(max + 1) |-> IF n = 1 THEN base ELSE f[n - 1] + sizeOf[n - 1]]

LEMMA TotalsExist ==
    ASSUME NEW base, NEW sizeOf, NEW max \in Nat
    PROVE  \E f : Totals(f, base, sizeOf, max)
<1> DEFINE Step(f, n) == IF n = 1 THEN base ELSE f[n - 1] + sizeOf[n - 1]
           UpTo(f, k) == \A n \in 1..(k + 1) : f[n] = Step(f, n)
           Undefined == {k \in Nat : ~\E f : UpTo(f, k)}
<1>1. 0 \notin Undefined
  <2> DEFINE f == [n \in {1} |-> base]
  <2>1. \A n \in 1..(0 + 1) : n = 1 /\ f[n] = Step(f, n)
    OBVIOUS
  <2> HIDE DEF f, Step
  <2> QED
    BY <2>1
<1>2. ASSUME NEW k \in Nat, k \notin Undefined
      PROVE  k + 1 \notin Undefined
  <2>1. PICK f : UpTo(f, k)
    BY <1>2
  <2> DEFINE g == [n \in 1..(k + 2) |-> IF n = k + 2 THEN Step(f, n) ELSE f[n]]
  <2>2. ASSUME NEW n \in 1..((k + 1) + 1)
        PROVE  g[n] = Step(g, n)
    <3>1. n # 1 => n - 1 \in 1..(k + 1) /\ g[n - 1] = f[n - 1]
      OBVIOUS
    <3>2. Step(g, n) = Step(f, n)
      <4> HIDE DEF g
      <4> QED
        BY <3>1
    <3>3. CASE n = k + 2
      BY <3>2, <3>3
    <3>4. CASE n # k + 2
      <4>1. n \in 1..(k + 1) /\ g[n] = f[n]
        BY <3>4
      <4> HIDE DEF g, Step
      <4> QED
        BY <2>1, <3>2, <4>1
    <3> QED
      BY <3>3, <3>4
  <2>3. UpTo(g, k + 1)
    <3> HIDE DEF g, Step
    <3> QED
      BY <2>2
  <2> HIDE DEF g
  <2> QED
    BY <2>3
<1>3. Undefined = {}
  <2> SUFFICES ASSUME Undefined # {}
               PROVE  FALSE
    OBVIOUS
  <2>0. Undefined \subseteq Nat
    OBVIOUS
  <2> HIDE DEF Undefined
  <2>1. PICK n \in Undefined : \A m \in Undefined : n <= m
    BY <2>0, LeastNumber
  <2>2. n # 0 /\ n \in Nat
    BY <1>1, <2>0, <2>1
  <2>3. n - 1 \in Nat /\ n - 1 \notin Undefined
    BY <2>1, <2>2
  <2>4. (n - 1) + 1 \notin Undefined
    BY <1>2, <2>3
  <2> QED
    BY <2>1, <2>2, <2>4
<1>4. PICK f : UpTo(f, max)
  BY <1>3
<1> DEFINE h == [n \in 1..(max + 1) |-> f[n]]
<1>5. ASSUME NEW n \in 1..(max + 1)
      PROVE  h[n] = Step(h, n)
  <2>1. n # 1 => n - 1 \in 1..(max + 1) /\ h[n - 1] = f[n - 1]
    OBVIOUS
  <2>2. h[n] = f[n]
    OBVIOUS
  <2> HIDE DEF h
  <2>3. Step(h, n) = Step(f, n)
    BY <2>1
  <2> QED
    BY <1>4, <2>2, <2>3
<1>6. h = [n \in 1..(max + 1) |-> Step(h, n)]
  <2>1. h = [n \in 1..(max + 1) |-> h[n]]
    OBVIOUS
  <2> HIDE DEF h
  <2> QED
    BY <1>5, <2>1
<1> QED
  BY <1>6 DEF Totals

\* They are numbers, and no two things overlap.
LEMMA TotalsGrow ==
    ASSUME NEW base \in Nat, NEW max \in Nat, NEW sizeOf, NEW f,
           \A n \in 1..max : sizeOf[n] \in Nat,
           Totals(f, base, sizeOf, max)
    PROVE  /\ f[1] = base
           /\ \A n \in 1..max : f[n + 1] = f[n] + sizeOf[n]
           /\ \A n \in 1..(max + 1) : f[n] \in Nat /\ base <= f[n]
           /\ \A m \in 1..max, n \in 1..(max + 1) : m < n => f[m] + sizeOf[m] <= f[n]
<1>1. f[1] = base
  BY DEF Totals
<1>2. ASSUME NEW n \in 1..max
      PROVE  f[n + 1] = f[n] + sizeOf[n]
  <2>1. n + 1 \in 1..(max + 1) /\ n + 1 # 1 /\ (n + 1) - 1 = n
    OBVIOUS
  <2> QED
    BY <2>1 DEF Totals
<1>3. ASSUME NEW n \in 1..(max + 1)
      PROVE  f[n] \in Nat /\ base <= f[n]
  <2> DEFINE Bad == {k \in 1..(max + 1) : ~(f[k] \in Nat /\ base <= f[k])}
  <2> SUFFICES ASSUME Bad # {}
               PROVE  FALSE
    OBVIOUS
  <2>0. Bad \subseteq Nat /\ Bad \subseteq 1..(max + 1)
    OBVIOUS
  <2>1. \A k \in 1..(max + 1) : k \notin Bad <=> f[k] \in Nat /\ base <= f[k]
    OBVIOUS
  <2> HIDE DEF Bad
  <2>2. PICK k \in Bad : \A m \in Bad : k <= m
    BY <2>0, LeastNumber
  <2>3. k # 1 /\ k \in 1..(max + 1)
    BY <1>1, <2>0, <2>1, <2>2
  <2>4. k - 1 \in 1..max /\ k - 1 \in 1..(max + 1) /\ k - 1 \notin Bad /\ (k - 1) + 1 = k
    BY <2>2, <2>3
  <2>5. f[k] = f[k - 1] + sizeOf[k - 1] /\ sizeOf[k - 1] \in Nat
    BY <1>2, <2>4
  <2> QED
    BY <2>1, <2>2, <2>3, <2>4, <2>5
<1>4. ASSUME NEW m \in 1..max, NEW n \in 1..(max + 1), m < n
      PROVE  f[m] + sizeOf[m] <= f[n]
  <2> DEFINE Bad == {k \in (m + 1)..(max + 1) : ~(f[m] + sizeOf[m] <= f[k])}
  <2> SUFFICES ASSUME Bad # {}
               PROVE  FALSE
    BY <1>4
  <2>0. Bad \subseteq Nat /\ Bad \subseteq (m + 1)..(max + 1)
    OBVIOUS
  <2>1. \A k \in (m + 1)..(max + 1) : k \notin Bad <=> f[m] + sizeOf[m] <= f[k]
    OBVIOUS
  <2> HIDE DEF Bad
  <2>2. PICK k \in Bad : \A j \in Bad : k <= j
    BY <2>0, LeastNumber
  <2>3. f[m + 1] = f[m] + sizeOf[m] /\ m + 1 \in (m + 1)..(max + 1) /\ f[m + 1] \in Nat
    BY <1>2, <1>3
  <2>4. k # m + 1 /\ k \in (m + 1)..(max + 1)
    BY <2>0, <2>1, <2>2, <2>3
  <2>5. /\ k - 1 \in 1..max /\ k - 1 \in (m + 1)..(max + 1) /\ k - 1 \notin Bad
        /\ (k - 1) + 1 = k /\ k - 1 \in 1..(max + 1)
    BY <2>2, <2>4
  <2>6. f[k] = f[k - 1] + sizeOf[k - 1] /\ sizeOf[k - 1] \in Nat /\ f[k - 1] \in Nat
    BY <1>2, <1>3, <2>5
  <2>7. f[m] + sizeOf[m] <= f[k - 1] /\ f[m] + sizeOf[m] \in Nat
    BY <1>3, <2>1, <2>5
  <2> DEFINE x == f[m] + sizeOf[m]
             y == f[k - 1]
             z == sizeOf[k - 1]
  <2>8. x <= y + z
    <3>1. x <= y /\ x \in Nat /\ y \in Nat /\ z \in Nat
      BY <2>6, <2>7
    <3> HIDE DEF x, y, z
    <3> QED
      BY <3>1
  <2> QED
    BY <2>1, <2>2, <2>4, <2>6, <2>8
<1> QED
  BY <1>1, <1>2, <1>3, <1>4

-----------------------------------------------------------------------------
(* FlvDemuxer.                                                               *)

LEMMA Member ==
    ASSUME NEW S, NEW s \in Seq(S), NEW i \in 1..Len(s)
    PROVE  s[i] \in S
  OBVIOUS

LEMMA FlvBounds ==
    /\ MaxTags \in Nat /\ Sizes \subseteq Nat
    /\ FlvHeaderSize \in Nat \ {0} /\ TagHeaderSize \in Nat \ {0} /\ PrevTagSize \in Nat \ {0}
BY StreamsAssumption DEF StreamsAssumption

FlvTypes ==
    /\ sizes \in [1..MaxTags -> Sizes]
    /\ received \in Nat /\ received <= Flv!StreamEnd
    /\ tags \in Seq([tag : 0..MaxTags, kind : Flv!Kinds \cup {"missing"}])

\* Where the tags are.
LEMMA FlvPositions ==
    ASSUME sizes \in [1..MaxTags -> Sizes]
    PROVE  /\ Flv!TagStart[1] = FlvHeaderSize + PrevTagSize
           /\ \A n \in 1..MaxTags :
                  /\ Flv!TagStart[n + 1] = Flv!TagStart[n] + Flv!Body(n)
                  /\ Flv!Body(n) = TagHeaderSize + sizes[n] + PrevTagSize
                  /\ sizes[n] \in Nat /\ Flv!Body(n) \in Nat \ {0}
           /\ \A n \in 1..(MaxTags + 1) : Flv!TagStart[n] \in Nat
           /\ \A m, n \in 1..(MaxTags + 1) : m < n => Flv!TagStart[m] < Flv!TagStart[n]
<1> DEFINE body == [n \in 1..MaxTags |-> Flv!Body(n)]
           base == FlvHeaderSize + PrevTagSize
           Here(f) == f = [n \in 1..(MaxTags + 1) |->
                              IF n = 1 THEN base ELSE f[n - 1] + Flv!Body(n - 1)]
<1>1. ASSUME NEW n \in 1..MaxTags
      PROVE  /\ Flv!Body(n) = TagHeaderSize + sizes[n] + PrevTagSize
             /\ sizes[n] \in Nat /\ Flv!Body(n) \in Nat \ {0} /\ body[n] = Flv!Body(n)
  <2>1. Flv!Body(n) = TagHeaderSize + sizes[n] + PrevTagSize /\ sizes[n] \in Nat
    BY FlvBounds DEF Flv!Body
  <2>2. body[n] = Flv!Body(n)
    OBVIOUS
  <2> QED
    BY <2>1, <2>2, FlvBounds
<1>2. base \in Nat /\ MaxTags \in Nat
  BY FlvBounds
<1>3. ASSUME NEW f
      PROVE  Totals(f, base, body, MaxTags) <=> Here(f)
  <2> DEFINE one == [n \in 1..(MaxTags + 1) |-> IF n = 1 THEN base ELSE f[n - 1] + body[n - 1]]
             two == [n \in 1..(MaxTags + 1) |->
                              IF n = 1 THEN base ELSE f[n - 1] + Flv!Body(n - 1)]
  <2>1. ASSUME NEW n \in 1..(MaxTags + 1)
        PROVE  one[n] = two[n]
    <3>1. CASE n = 1
      BY <3>1
    <3>2. CASE n # 1
      <4>1. n - 1 \in 1..MaxTags
        BY <1>2, <3>2
      <4>2. body[n - 1] = Flv!Body(n - 1)
        BY <1>1, <4>1
      <4> HIDE DEF body
      <4> QED
        BY <3>2, <4>2
    <3> QED
      BY <3>1, <3>2
  <2>2. one = two
    BY <2>1
  <2> QED
    BY <2>2 DEF Totals
<1>4. Flv!TagStart = CHOOSE f : Here(f)
  BY DEF Flv!TagStart
<1> HIDE DEF base, Here, body
<1>5. \E f : Here(f)
  BY <1>2, <1>3, TotalsExist
<1>6. Totals(Flv!TagStart, base, body, MaxTags)
  <2>1. Here(Flv!TagStart)
    BY <1>4, <1>5
  <2> QED
    BY <1>3, <2>1
<1>7. \A n \in 1..MaxTags : body[n] \in Nat /\ body[n] = Flv!Body(n) /\ Flv!Body(n) \in Nat \ {0}
  BY <1>1
<1>8. /\ Flv!TagStart[1] = base
      /\ \A n \in 1..MaxTags : Flv!TagStart[n + 1] = Flv!TagStart[n] + body[n]
      /\ \A n \in 1..(MaxTags + 1) : Flv!TagStart[n] \in Nat
      /\ \A m \in 1..MaxTags, n \in 1..(MaxTags + 1) :
             m < n => Flv!TagStart[m] + body[m] <= Flv!TagStart[n]
  BY <1>2, <1>6, <1>7, TotalsGrow
<1>9. ASSUME NEW m \in 1..(MaxTags + 1), NEW n \in 1..(MaxTags + 1), m < n
      PROVE  Flv!TagStart[m] < Flv!TagStart[n]
  <2>1. m \in 1..MaxTags
    BY <1>2, <1>9
  <2>2. /\ Flv!TagStart[m] + body[m] <= Flv!TagStart[n]
        /\ body[m] \in Nat \ {0} /\ Flv!TagStart[m] \in Nat /\ Flv!TagStart[n] \in Nat
    BY <1>7, <1>8, <1>9, <2>1
  <2> QED
    BY <2>2
<1> QED
  BY <1>1, <1>7, <1>8, <1>9 DEF base

\* The stream does not change, nor does where its tags are.
LEMMA FlvStaysPut ==
    ASSUME UNCHANGED sizes
    PROVE  Flv!TagStart' = Flv!TagStart /\ Flv!StreamEnd' = Flv!StreamEnd
<1>1. Flv!TagStart' = Flv!TagStart
  BY DEF Flv!TagStart, Flv!Body
<1> QED
  BY <1>1 DEF Flv!StreamEnd

\* Only a tag begins where a tag begins.
LEMMA TagAtCursor ==
    ASSUME FlvTypes, NEW n \in 1..(MaxTags + 1), cursor = Flv!TagStart[n]
    PROVE  /\ n <= MaxTags => Flv!TagAt(cursor) = n /\ Flv!SizesAtCursor = {sizes[n]}
           /\ n = MaxTags + 1 => Flv!TagAt(cursor) = 0
<1>0. MaxTags \in Nat /\ sizes \in [1..MaxTags -> Sizes]
  BY FlvBounds DEF FlvTypes
<1>1. ASSUME NEW m \in 1..MaxTags, m # n
      PROVE  Flv!TagStart[m] # cursor
  <2>1. /\ Flv!TagStart[m] < Flv!TagStart[n] \/ Flv!TagStart[n] < Flv!TagStart[m]
        /\ Flv!TagStart[m] \in Nat /\ Flv!TagStart[n] \in Nat
    BY <1>0, <1>1, FlvPositions
  <2> QED
    BY <2>1
<1>2. CASE n <= MaxTags
  <2>1. n \in 1..MaxTags
    BY <1>0, <1>2
  <2>2. (CHOOSE m \in 1..MaxTags : Flv!TagStart[m] = cursor) = n
    BY <1>1, <2>1
  <2>3. Flv!TagAt(cursor) = n
    BY <2>1, <2>2 DEF Flv!TagAt
  <2> QED
    BY <1>0, <1>2, <2>1, <2>3 DEF Flv!SizesAtCursor
<1>3. CASE n = MaxTags + 1
  BY <1>0, <1>1, <1>3 DEF Flv!TagAt
<1> QED
  BY <1>0, <1>2, <1>3

\* How far the demuxer is: as many tags as were parsed, and the cursor behind them.
Behind ==
    /\ Len(tags) <= MaxTags
    /\ cursor = Flv!TagStart[Len(tags) + 1]
    /\ cursor <= received

TagsInOrder == \A i \in 1..Len(tags) : tags[i].tag = i

\* Sequence headers, and what a demuxer that has not failed has read.
Heads == {"header", "badHeader"}

HeadersFirst ==
    /\ hasSeqHeader => \E i \in 1..Len(tags) : tags[i].kind \in Heads
    /\ \A j \in 1..Len(tags) : tags[j].kind = "frame" =>
           \E i \in 1..(j - 1) : tags[i].kind \in Heads
    /\ \A i \in 1..Len(tags) : tags[i].kind = "badHeader" => flvFailed

\* Between two chunks nothing whole is left.
NothingWhole ==
    \A n \in 1..MaxTags : Flv!TagStart[n + 1] <= received <=> n <= Len(tags)

InStep ==
    /\ flvFlushed => ~parsing
    /\ ~headerParsed => tags = <<>> /\ (~flvFlushed => first = 0 /\ cursor = 0)
    /\ headerParsed /\ ~flvFlushed => Behind
    /\ TagsInOrder
    /\ HeadersFirst
    /\ ~parsing => NothingWhole

FlvInv ==
    /\ FlvTypes
    /\ flvFailed /\ ~headerParsed => ~parsing
    /\ cutShort => headerParsed
    /\ (headerParsed \/ ~flvFailed) /\ ~cutShort => InStep

LEMMA FlvInit == Flv!Init => FlvInv
<1> SUFFICES ASSUME Flv!Init
             PROVE  FlvInv
  OBVIOUS
<1>1. /\ sizes \in [1..MaxTags -> Sizes] /\ received = 0 /\ tags = <<>> /\ first = 0
      /\ cursor = 0 /\ ~headerParsed /\ ~hasSeqHeader /\ ~flvFlushed /\ ~flvFailed
      /\ ~cutShort
  BY DEF Flv!Init
<1>2. \A n \in 1..(MaxTags + 1) : Flv!TagStart[n] \in Nat /\ (n # 1 => 0 < Flv!TagStart[n])
  <2>1. ASSUME NEW n \in 1..(MaxTags + 1), n # 1
        PROVE  Flv!TagStart[1] < Flv!TagStart[n] /\ Flv!TagStart[1] \in Nat
    BY <1>1, <2>1, FlvBounds, FlvPositions
  <2> QED
    BY <1>1, <2>1, FlvPositions
<1>3. FlvTypes
  <2>1. MaxTags + 1 \in 1..(MaxTags + 1)
    BY FlvBounds
  <2> QED
    BY <1>1, <1>2, <2>1 DEF FlvTypes, Flv!StreamEnd
<1>4. NothingWhole
  <2>1. \A n \in 1..MaxTags : n + 1 \in 1..(MaxTags + 1) /\ n + 1 # 1
    BY FlvBounds
  <2> QED
    BY <1>1, <1>2, <2>1 DEF NothingWhole
<1>5. TagsInOrder /\ HeadersFirst
  BY <1>1 DEF TagsInOrder, HeadersFirst
<1> QED
  BY <1>1, <1>3, <1>4, <1>5 DEF FlvInv, InStep

\* What is taken comes behind the others.
LEMMA TakenStep ==
    ASSUME FlvTypes, FlvTypes', TagsInOrder, HeadersFirst,
           NEW kind \in Flv!Kinds, Flv!ProcessTag(kind), Flv!TagAt(cursor) = Len(tags) + 1
    PROVE  TagsInOrder' /\ HeadersFirst' /\ Len(tags') = Len(tags) + 1
<1> DEFINE gives == IF kind = "frame" /\ ~hasSeqHeader THEN "missing" ELSE kind
           k == Len(tags)
<1>1. tags \in Seq([tag : 0..MaxTags, kind : Flv!Kinds \cup {"missing"}]) /\ k \in Nat
  BY DEF FlvTypes
<1>2. tags' = Append(tags, [tag |-> k + 1, kind |-> gives])
      /\ hasSeqHeader' = (hasSeqHeader \/ kind \in Heads)
      /\ flvFailed' = (flvFailed \/ kind \in {"badHeader", "unreadable"})
  BY DEF Flv!ProcessTag, Heads
<1>3. /\ Len(tags') = k + 1
      /\ \A i \in 1..k : tags'[i] = tags[i]
      /\ tags'[k + 1].tag = k + 1 /\ tags'[k + 1].kind = gives
  BY <1>1, <1>2
<1>4. gives = "frame" => hasSeqHeader
  OBVIOUS
<1>5. kind \in Heads => gives = kind
  BY DEF Heads
<1>10. gives = "badHeader" => kind = "badHeader"
  OBVIOUS
<1> HIDE DEF gives, k
<1>6. TagsInOrder'
  <2>1. \A i \in 1..k : tags[i].tag = i
    BY DEF TagsInOrder, k
  <2>2. ASSUME NEW i \in 1..Len(tags')
        PROVE  tags'[i].tag = i
    <3>1. i \in 1..k \/ i = k + 1
      BY <1>1, <1>3
    <3> QED
      BY <1>3, <2>1, <3>1
  <2> QED
    BY <2>2 DEF TagsInOrder
<1>7. (hasSeqHeader => \E i \in 1..k : tags[i].kind \in Heads)
      /\ \A j \in 1..k : tags[j].kind = "frame" => \E i \in 1..(j - 1) : tags[i].kind \in Heads
  BY DEF HeadersFirst, k
<1>8. hasSeqHeader' => \E i \in 1..Len(tags') : tags'[i].kind \in Heads
  <2>1. CASE hasSeqHeader
    <3>1. PICK i \in 1..k : tags[i].kind \in Heads
      BY <1>7, <2>1
    <3>2. i \in 1..Len(tags') /\ tags'[i].kind \in Heads
      BY <1>1, <1>3, <3>1
    <3> QED
      BY <3>2
  <2>2. CASE ~hasSeqHeader /\ kind \in Heads
    <3>1. k + 1 \in 1..Len(tags') /\ tags'[k + 1].kind \in Heads
      BY <1>1, <1>3, <1>5, <2>2
    <3> QED
      BY <3>1
  <2> QED
    BY <1>2, <2>1, <2>2
<1>9. ASSUME NEW j \in 1..Len(tags'), tags'[j].kind = "frame"
      PROVE  \E i \in 1..(j - 1) : tags'[i].kind \in Heads
  <2>1. CASE j \in 1..k
    <3>1. PICK i \in 1..(j - 1) : tags[i].kind \in Heads
      BY <1>3, <1>7, <1>9, <2>1
    <3>2. i \in 1..k
      BY <1>1, <2>1, <3>1
    <3>3. tags'[i].kind \in Heads
      BY <1>3, <3>1, <3>2
    <3> QED
      BY <3>3
  <2>2. CASE j = k + 1
    <3>1. PICK i \in 1..k : tags[i].kind \in Heads
      BY <1>3, <1>4, <1>7, <1>9, <2>2
    <3>2. i \in 1..(j - 1) /\ tags'[i].kind \in Heads
      BY <1>1, <1>3, <2>2, <3>1
    <3> QED
      BY <3>2
  <2>3. j \in 1..k \/ j = k + 1
    BY <1>1, <1>3
  <2> QED
    BY <2>1, <2>2, <2>3
<1>11. ASSUME NEW i \in 1..Len(tags'), tags'[i].kind = "badHeader"
       PROVE  flvFailed'
  <2>1. CASE i \in 1..k
    <3>1. flvFailed
      BY <1>3, <1>11, <2>1 DEF HeadersFirst, k
    <3> QED
      BY <1>2, <3>1, Zenon
  <2>2. CASE i = k + 1
    <3>1. kind = "badHeader"
      BY <1>3, <1>10, <1>11, <2>2
    <3> QED
      BY <1>2, <3>1, Zenon
  <2>3. i \in 1..k \/ i = k + 1
    BY <1>1, <1>3
  <2> QED
    BY <2>1, <2>2, <2>3
<1> QED
  BY <1>3, <1>6, <1>8, <1>9, <1>11 DEF HeadersFirst, k

LEMMA FlvTypesStep ==
    ASSUME FlvTypes, [Flv!Next]_(Flv!vars)
    PROVE  FlvTypes' /\ UNCHANGED sizes
<1>0. MaxTags \in Nat /\ sizes \in [1..MaxTags -> Sizes]
      /\ tags \in Seq([tag : 0..MaxTags, kind : Flv!Kinds \cup {"missing"}])
      /\ received \in Nat /\ received <= Flv!StreamEnd
  BY FlvBounds DEF FlvTypes
<1>1. UNCHANGED sizes
  BY DEF Flv!Next, Flv!Push, Flv!ParseHeader, Flv!ParseTag, Flv!Oversized, Flv!NeedsMore,
         Flv!Flush, Flv!Close, Flv!vars
<1>2. Flv!StreamEnd' = Flv!StreamEnd
  BY <1>1, FlvStaysPut
<1>3. Flv!StreamEnd \in Nat
  <2>1. MaxTags + 1 \in 1..(MaxTags + 1)
    BY <1>0
  <2> QED
    BY <1>0, <2>1, FlvPositions DEF Flv!StreamEnd
<1>4. received' \in Nat /\ received' <= Flv!StreamEnd
  <2>1. CASE \E length \in 1..Flv!StreamEnd : Flv!Push(length)
    BY <1>0, <1>3, <2>1 DEF Flv!Push
  <2>2. CASE Flv!Close
    BY <1>3, <2>2 DEF Flv!Close
  <2>3. CASE ~(\E length \in 1..Flv!StreamEnd : Flv!Push(length)) /\ ~Flv!Close
    BY <1>0, <2>3 DEF Flv!Next, Flv!ParseHeader, Flv!ParseTag, Flv!Oversized,
                      Flv!NeedsMore, Flv!Flush, Flv!vars
  <2> QED
    BY <2>1, <2>2, <2>3
<1>5. tags' \in Seq([tag : 0..MaxTags, kind : Flv!Kinds \cup {"missing"}])
  <2>1. CASE Flv!ParseTag
    <3>1. PICK kind \in Flv!Kinds : Flv!ProcessTag(kind)
      BY <2>1 DEF Flv!ParseTag
    <3> DEFINE gives == IF kind = "frame" /\ ~hasSeqHeader THEN "missing" ELSE kind
    <3>2. gives \in Flv!Kinds \cup {"missing"}
      OBVIOUS
    <3>3. Flv!TagAt(cursor) \in 0..MaxTags
      BY <1>0 DEF Flv!TagAt
    <3>4. tags' = Append(tags, [tag |-> Flv!TagAt(cursor), kind |-> gives])
      BY <3>1 DEF Flv!ProcessTag
    <3> HIDE DEF gives
    <3> QED
      BY <1>0, <3>2, <3>3, <3>4
  <2>2. CASE Flv!Close
    BY <2>2 DEF Flv!Close
  <2>3. CASE ~Flv!ParseTag /\ ~Flv!Close
    BY <1>0, <2>3 DEF Flv!Next, Flv!Push, Flv!ParseHeader, Flv!Oversized, Flv!NeedsMore,
                      Flv!Flush, Flv!vars
  <2> QED
    BY <2>1, <2>2, <2>3
<1> QED
  BY <1>0, <1>1, <1>2, <1>4, <1>5 DEF FlvTypes

LEMMA FlvStep == FlvInv /\ [Flv!Next]_(Flv!vars) => FlvInv'
<1> SUFFICES ASSUME FlvInv, [Flv!Next]_(Flv!vars)
             PROVE  FlvInv'
  OBVIOUS
<1>0. FlvTypes /\ FlvTypes' /\ UNCHANGED sizes
  BY FlvTypesStep DEF FlvInv
<1>1. /\ sizes \in [1..MaxTags -> Sizes] /\ received \in Nat /\ Len(tags) \in Nat
      /\ MaxTags \in Nat /\ Flv!TagStart' = Flv!TagStart
  BY <1>0, FlvBounds, FlvStaysPut DEF FlvTypes
<1>11. (flvFailed' /\ ~headerParsed' => ~parsing') /\ (cutShort' => headerParsed')
  <2>1. CASE Flv!ParseTag
    BY <2>1 DEF FlvInv, Flv!ParseTag
  <2>2. CASE Flv!ParseHeader
    BY <2>2 DEF FlvInv, Flv!ParseHeader
  <2>3. CASE Flv!Close
    BY <2>3 DEF Flv!Close
  <2>4. CASE ~Flv!ParseTag /\ ~Flv!ParseHeader /\ ~Flv!Close
    BY <2>4 DEF FlvInv, Flv!Next, Flv!Push, Flv!Oversized, Flv!NeedsMore, Flv!Flush, Flv!vars
  <2> QED
    BY <2>1, <2>2, <2>3, <2>4
<1> SUFFICES ASSUME headerParsed' \/ ~flvFailed', ~cutShort'
             PROVE  InStep'
  BY <1>0, <1>11 DEF FlvInv
<1>2. CASE Flv!Close
  <2>1. /\ tags' = <<>> /\ received' = 0 /\ first' = 0 /\ cursor' = 0 /\ parsing' = FALSE
        /\ headerParsed' = FALSE /\ hasSeqHeader' = FALSE /\ flvFlushed' = FALSE
    BY <1>2 DEF Flv!Close
  <2>2. TagsInOrder' /\ HeadersFirst'
    BY <2>1 DEF TagsInOrder, HeadersFirst
  <2>3. ASSUME NEW n \in 1..MaxTags
        PROVE  ~(Flv!TagStart[n + 1] <= 0)
    <3>1. n + 1 \in 1..(MaxTags + 1) /\ n \in 1..(MaxTags + 1)
      BY <1>1
    <3>2. Flv!TagStart[n] < Flv!TagStart[n + 1] /\ Flv!TagStart[n] \in Nat /\ Flv!TagStart[n + 1] \in Nat
      BY <1>1, <3>1, FlvPositions
    <3> QED
      BY <3>2
  <2>4. NothingWhole'
    BY <1>1, <2>1, <2>3 DEF NothingWhole
  <2> QED
    BY <2>1, <2>2, <2>4 DEF InStep
<1> SUFFICES ASSUME ~Flv!Close
             PROVE  InStep'
  BY <1>2
<1>3. InStep
  <2>1. headerParsed \/ ~flvFailed
    <3>1. CASE Flv!ParseTag
      BY <3>1 DEF Flv!ParseTag
    <3>2. CASE Flv!Oversized
      BY <3>2 DEF Flv!Oversized, Flv!HasTagHeader
    <3>3. CASE Flv!ParseHeader
      BY <3>3 DEF FlvInv, Flv!ParseHeader
    <3>4. CASE ~Flv!ParseTag /\ ~Flv!Oversized /\ ~Flv!ParseHeader
      BY <3>4 DEF Flv!Next, Flv!Push, Flv!NeedsMore, Flv!Flush, Flv!vars
    <3> QED
      BY <3>1, <3>2, <3>3, <3>4
  <2>2. ~cutShort
    BY DEF FlvInv, Flv!Next, Flv!Push, Flv!ParseHeader, Flv!ParseTag, Flv!Oversized,
           Flv!NeedsMore, Flv!Flush, Flv!vars
  <2> QED
    BY <2>1, <2>2 DEF FlvInv
<1>4. CASE \E length \in 1..Flv!StreamEnd : Flv!Push(length)
  <2>1. PICK length \in 1..Flv!StreamEnd : Flv!Push(length)
    BY <1>4
  <2>2. /\ ~flvFlushed /\ parsing' = TRUE /\ received' = received + length /\ length \in Nat
        /\ first' = Flv!Kept /\ cursor' = Flv!Kept
        /\ UNCHANGED <<headerParsed, hasSeqHeader, flvFailed, tags, flvFlushed>>
    BY <2>1 DEF Flv!Push
  <2>3. TagsInOrder' /\ HeadersFirst'
    BY <1>3, <2>2 DEF InStep, TagsInOrder, HeadersFirst
  <2>4. headerParsed => Behind'
    <3>1. SUFFICES ASSUME headerParsed
                   PROVE  Behind'
      OBVIOUS
    <3>2. Behind
      BY <1>3, <2>2, <3>1 DEF InStep
    <3>3. cursor \in Nat
      <4>1. Len(tags) + 1 \in 1..(MaxTags + 1)
        BY <1>1, <3>2 DEF Behind
      <4> QED
        BY <1>1, <3>2, <4>1, FlvPositions DEF Behind
    <3>4. Flv!Kept = cursor
      BY <1>1, <3>2, <3>3 DEF Behind, Flv!Kept
    <3> QED
      BY <1>1, <2>2, <3>2, <3>3, <3>4 DEF Behind
  <2>5. ~headerParsed => first' = 0 /\ cursor' = 0
    BY <1>1, <1>3, <2>2 DEF InStep, Flv!Kept
  <2> QED
    BY <1>3, <2>2, <2>3, <2>4, <2>5 DEF InStep
<1>5. CASE Flv!ParseHeader
  <2>1. /\ parsing /\ ~headerParsed
        /\ headerParsed' = TRUE
        /\ cursor' = cursor + FlvHeaderSize + PrevTagSize
        /\ parsing' = (cursor' <= received)
        /\ cutShort' = (cursor' > received)
        /\ UNCHANGED <<received, first, hasSeqHeader, flvFailed, tags, flvFlushed>>
    BY <1>5 DEF Flv!ParseHeader
  <2>2. tags = <<>> /\ cursor = 0 /\ ~flvFlushed
    BY <1>3, <2>1 DEF InStep
  <2>3. cursor' = Flv!TagStart[1] /\ cursor' \in Nat
    BY <1>1, <2>1, <2>2, FlvPositions, FlvBounds
  <2>6. ~(cursor' > received)
    BY <2>1, Zenon
  <2>7. cursor' <= received
    BY <1>1, <2>3, <2>6
  <2>4. cursor' <= received /\ parsing'
    BY <2>1, <2>7, Zenon
  <2>5. Behind'
    BY <1>1, <2>1, <2>2, <2>3, <2>4 DEF Behind
  <2>8. TagsInOrder' /\ HeadersFirst'
    BY <1>3, <2>1 DEF InStep, TagsInOrder, HeadersFirst
  <2> QED
    BY <2>1, <2>2, <2>4, <2>5, <2>8 DEF InStep
<1>6. CASE Flv!ParseTag
  <2>1. PICK size \in Flv!SizesAtCursor, kind \in Flv!Kinds :
            Flv!Whole(size) /\ cursor' = Flv!NextCursor(size) /\ Flv!ProcessTag(kind)
    BY <1>6 DEF Flv!ParseTag
  <2>2. /\ parsing /\ headerParsed /\ parsing' = parsing
        /\ UNCHANGED <<received, headerParsed, flvFlushed>>
    BY <1>6 DEF Flv!ParseTag
  <2>3. Behind /\ ~flvFlushed
    BY <1>3, <2>2 DEF InStep
  <2> DEFINE k == Len(tags)
  <2>4. k + 1 \in 1..(MaxTags + 1) /\ cursor = Flv!TagStart[k + 1] /\ cursor \in Nat
    <3>1. k + 1 \in 1..(MaxTags + 1)
      BY <1>1, <2>3 DEF Behind
    <3> QED
      BY <1>1, <2>3, <3>1, FlvPositions DEF Behind
  <2>5. k + 1 <= MaxTags
    <3> SUFFICES ASSUME k = MaxTags
                 PROVE  FALSE
      BY <1>1, <2>4
    <3>1. Flv!TagAt(cursor) = 0 /\ cursor = Flv!StreamEnd
      BY <1>0, <2>4, TagAtCursor DEF Flv!StreamEnd
    <3>2. size \in Nat
      <4>1. Flv!SizesAtCursor = Sizes
        BY <3>1 DEF Flv!SizesAtCursor
      <4> QED
        BY <2>1, <4>1, FlvBounds
    <3>3. received >= cursor + TagHeaderSize + size + PrevTagSize
      BY <2>1 DEF Flv!Whole
    <3>4. received <= cursor
      BY <1>0, <3>1 DEF FlvTypes
    <3> QED
      BY <1>1, <2>4, <3>2, <3>3, <3>4, FlvBounds
  <2>6. Flv!TagAt(cursor) = k + 1 /\ size = sizes[k + 1]
    BY <1>0, <2>1, <2>4, <2>5, TagAtCursor
  <2>7. TagsInOrder' /\ HeadersFirst' /\ Len(tags') = k + 1
    BY <1>0, <1>3, <2>1, <2>6, TakenStep DEF InStep
  <2>8. k + 1 \in 1..MaxTags
    BY <1>1, <2>5
  <2>9. Flv!TagStart[(k + 1) + 1] = cursor + (TagHeaderSize + size + PrevTagSize) /\ size \in Nat
    BY <1>1, <2>4, <2>6, <2>8, FlvPositions
  <2>10. cursor' = Flv!TagStart[(k + 1) + 1] /\ cursor' <= received
    BY <2>1, <2>4, <2>9, FlvBounds DEF Flv!Whole, Flv!NextCursor
  <2> HIDE DEF k
  <2>11. Behind'
    BY <1>1, <2>2, <2>5, <2>7, <2>10 DEF Behind
  <2> QED
    BY <2>2, <2>3, <2>7, <2>11 DEF InStep
<1>7. CASE Flv!NeedsMore
  <2>1. /\ parsing /\ parsing' = FALSE
        /\ IF headerParsed THEN \E size \in Flv!SizesAtCursor : ~Flv!Whole(size)
                           ELSE received - first < FlvHeaderSize
        /\ UNCHANGED <<received, first, cursor, headerParsed, hasSeqHeader, flvFailed, tags,
                       flvFlushed>>
    BY <1>7 DEF Flv!NeedsMore
  <2>2. ~flvFlushed
    BY <1>3, <2>1 DEF InStep
  <2>3. TagsInOrder' /\ HeadersFirst' /\ (headerParsed => Behind')
    BY <1>1, <1>3, <2>1, <2>2 DEF InStep, TagsInOrder, HeadersFirst, Behind
  <2>4. NothingWhole
    <3>1. CASE ~headerParsed
      <4>1. received < FlvHeaderSize /\ Len(tags) = 0
        BY <1>1, <1>3, <2>1, <2>2, <3>1 DEF InStep
      <4>2. ASSUME NEW n \in 1..MaxTags
            PROVE  ~(Flv!TagStart[n + 1] <= received) /\ ~(n <= Len(tags))
        <5>1. n + 1 \in 1..(MaxTags + 1) /\ 1 \in 1..(MaxTags + 1) /\ 1 < n + 1
          BY <1>1
        <5>2. /\ Flv!TagStart[1] < Flv!TagStart[n + 1] /\ Flv!TagStart[n + 1] \in Nat
              /\ Flv!TagStart[1] = FlvHeaderSize + PrevTagSize
          BY <1>1, <5>1, FlvPositions
        <5> QED
          BY <1>1, <4>1, <5>2, FlvBounds
      <4> QED
        BY <4>2 DEF NothingWhole
    <3>2. CASE headerParsed
      <4>1. Behind
        BY <1>3, <2>2, <3>2 DEF InStep
      <4>2. PICK size \in Flv!SizesAtCursor : ~Flv!Whole(size)
        BY <2>1, <3>2
      <4> DEFINE k == Len(tags)
      <4>3. /\ k + 1 \in 1..(MaxTags + 1) /\ cursor = Flv!TagStart[k + 1]
            /\ cursor \in Nat /\ cursor <= received
        <5>1. k + 1 \in 1..(MaxTags + 1)
          BY <1>1, <4>1 DEF Behind
        <5> QED
          BY <1>1, <4>1, <5>1, FlvPositions DEF Behind
      <4>4. k + 1 \in 1..MaxTags => received < Flv!TagStart[(k + 1) + 1]
        <5> SUFFICES ASSUME k + 1 \in 1..MaxTags
                     PROVE  received < Flv!TagStart[(k + 1) + 1]
          OBVIOUS
        <5>1. size = sizes[k + 1]
          BY <1>0, <1>1, <4>2, <4>3, TagAtCursor
        <5>2. /\ Flv!TagStart[(k + 1) + 1] = cursor + (TagHeaderSize + size + PrevTagSize)
              /\ size \in Nat
          BY <1>1, <4>3, <5>1, FlvPositions
        <5>3. \/ ~(received >= cursor + TagHeaderSize)
              \/ ~(received >= cursor + TagHeaderSize + size + PrevTagSize)
          BY <3>2, <4>2 DEF Flv!Whole, Flv!HasTagHeader
        <5> QED
          BY <1>1, <4>3, <5>2, <5>3, FlvBounds
      <4>5. ASSUME NEW n \in 1..MaxTags
            PROVE  Flv!TagStart[n + 1] <= received <=> n <= k
        <5>1. n + 1 \in 1..(MaxTags + 1) /\ Flv!TagStart[n + 1] \in Nat
          BY <1>1, FlvPositions
        <5>2. CASE n = k
          BY <1>1, <4>3, <5>2
        <5>3. CASE n < k
          <6>1. n + 1 < k + 1
            BY <1>1, <5>3
          <6>2. Flv!TagStart[n + 1] < Flv!TagStart[k + 1]
            <7> HIDE DEF k
            <7> QED
              BY <1>1, <4>3, <5>1, <6>1, FlvPositions
          <6> QED
            BY <1>1, <4>3, <5>1, <5>3, <6>2
        <5>4. CASE n > k
          <6>1. k + 1 \in 1..MaxTags
            BY <1>1, <5>4
          <6>2. n = k + 1 \/ (k + 1) + 1 < n + 1
            BY <1>1, <5>4
          <6>3. (k + 1) + 1 \in 1..(MaxTags + 1)
            BY <1>1, <6>1
          <6>4. Flv!TagStart[(k + 1) + 1] \in Nat
                /\ (n = k + 1 \/ Flv!TagStart[(k + 1) + 1] < Flv!TagStart[n + 1])
            BY <1>1, <5>1, <6>2, <6>3, FlvPositions
          <6>5. received < Flv!TagStart[n + 1]
            BY <1>1, <4>4, <5>1, <6>1, <6>4
          <6> QED
            BY <1>1, <5>1, <5>4, <6>5
        <5> QED
          BY <1>1, <5>2, <5>3, <5>4
      <4> QED
        BY <4>5 DEF NothingWhole
    <3> QED
      BY <3>1, <3>2
  <2>5. NothingWhole'
    BY <1>1, <2>1, <2>4 DEF NothingWhole
  <2> QED
    BY <1>3, <2>1, <2>2, <2>3, <2>5 DEF InStep
<1>8. CASE Flv!Flush
  <2>1. /\ ~parsing /\ flvFlushed' = TRUE
        /\ UNCHANGED <<received, parsing, headerParsed, hasSeqHeader, flvFailed, tags>>
    BY <1>8 DEF Flv!Flush
  <2>2. TagsInOrder' /\ HeadersFirst' /\ NothingWhole'
    BY <1>1, <1>3, <2>1 DEF InStep, TagsInOrder, HeadersFirst, NothingWhole
  <2> QED
    BY <1>3, <2>1, <2>2 DEF InStep
<1>9. CASE UNCHANGED Flv!vars
  BY <1>1, <1>3, <1>9 DEF Flv!vars, InStep, TagsInOrder, HeadersFirst, NothingWhole, Behind
<1>10. ~Flv!Oversized
  <2> SUFFICES ASSUME Flv!Oversized
               PROVE  FALSE
    OBVIOUS
  <2>1. /\ parsing /\ headerParsed /\ received >= cursor + TagHeaderSize
        /\ Flv!TagAt(cursor) = 0
    BY DEF Flv!Oversized, Flv!HasTagHeader
  <2>2. Behind
    BY <1>3, <2>1 DEF InStep
  <2>3. Len(tags) + 1 \in 1..(MaxTags + 1)
    BY <1>1, <2>2 DEF Behind
  <2>4. Len(tags) = MaxTags
    BY <1>0, <1>1, <2>1, <2>2, <2>3, TagAtCursor DEF Behind
  <2>5. received <= cursor /\ cursor \in Nat
    BY <1>0, <1>1, <2>2, <2>3, <2>4, FlvPositions DEF FlvTypes, Behind, Flv!StreamEnd
  <2> QED
    BY <1>1, <2>1, <2>5, FlvBounds
<1> QED
  BY <1>4, <1>5, <1>6, <1>7, <1>8, <1>9, <1>10 DEF Flv!Next

\* Wherever the stream is cut, but inside PreviousTagSize0, each tag is parsed
\* once, in order and as soon as it is whole, up to the chunk in which the
\* demuxer failed; and no frame comes before a sequence header, which could be
\* read unless it failed: for streams of any length, tags of any size and chunks
\* of any length.
THEOREM EachTagParsedOnce == Flv!Spec => []TagsParsedOnce
<1>1. ASSUME FlvInv
      PROVE  TagsParsedOnce
  <2> SUFFICES ASSUME headerParsed \/ ~flvFailed, ~cutShort
               PROVE  /\ Flv!EachTagOnce
                      /\ \A j \in DOMAIN tags : tags[j].kind = "frame" =>
                             \E i \in 1..(j - 1) : \/ tags[i].kind = "header"
                                                   \/ flvFailed /\ tags[i].kind = "badHeader"
    BY DEF TagsParsedOnce, Flv!TagsParsedOnce
  <2>1. InStep /\ FlvTypes
    BY <1>1 DEF FlvInv
  <2>2. Len(tags) \in Nat /\ DOMAIN tags = 1..Len(tags) /\ MaxTags \in Nat
    BY <2>1, FlvBounds DEF FlvTypes
  <2>3. ASSUME NEW j \in DOMAIN tags, tags[j].kind = "frame"
        PROVE  \E i \in 1..(j - 1) : \/ tags[i].kind = "header"
                                     \/ flvFailed /\ tags[i].kind = "badHeader"
    <3>1. PICK i \in 1..(j - 1) : tags[i].kind \in Heads
      BY <2>1, <2>2, <2>3 DEF InStep, HeadersFirst
    <3>2. i \in 1..Len(tags)
      BY <2>2, <2>3, <3>1
    <3>3. tags[i].kind = "header" \/ tags[i].kind = "badHeader"
      BY <3>1, Zenon DEF Heads
    <3>4. tags[i].kind = "badHeader" => flvFailed
      BY <2>1, <3>2, Zenon DEF InStep, HeadersFirst
    <3>5. tags[i].kind = "header" \/ (flvFailed /\ tags[i].kind = "badHeader")
      BY <3>3, <3>4
    <3> WITNESS i \in 1..(j - 1)
    <3> QED
      BY <3>5
  <2>4. ASSUME ~parsing
        PROVE  [i \in DOMAIN tags |-> tags[i].tag]
                 = [n \in 1..Flv!Cardinality({n \in 1..MaxTags : Flv!TagStart[n + 1] <= received})
                        |-> n]
    <3>1. NothingWhole /\ TagsInOrder
      BY <2>1, <2>4 DEF InStep
    <3>2. Len(tags) <= MaxTags
      <4> SUFFICES ASSUME Len(tags) # 0
                   PROVE  Len(tags) <= MaxTags
        BY <2>2
      <4>1. Len(tags) \in 1..Len(tags)
        BY <2>2
      <4>2. tags[Len(tags)] \in [tag : 0..MaxTags, kind : Flv!Kinds \cup {"missing"}]
        <5>1. tags \in Seq([tag : 0..MaxTags, kind : Flv!Kinds \cup {"missing"}])
          BY <2>1 DEF FlvTypes
        <5> QED
          BY <4>1, <5>1, Member, Zenon
      <4>3. tags[Len(tags)].tag = Len(tags) /\ tags[Len(tags)].tag \in 0..MaxTags
        BY <3>1, <4>1, <4>2 DEF TagsInOrder
      <4> QED
        BY <2>2, <4>3
    <3>3. {n \in 1..MaxTags : Flv!TagStart[n + 1] <= received} = 1..Len(tags)
      BY <2>2, <3>1, <3>2 DEF NothingWhole
    <3>4. Cardinality(1..Len(tags)) = Len(tags)
      <4>1. \A k \in Nat : Cardinality(1..k) = k
        <5> SUFFICES ASSUME NEW k \in Nat
                     PROVE  Cardinality(1..k) = k
          OBVIOUS
        <5>1. Cardinality(1..k) = IF 1 > k THEN 0 ELSE k - 1 + 1
          <6>1. 1 \in Int /\ k \in Int
            OBVIOUS
          <6> QED
            BY <6>1, FS_Interval, Zenon
        <5> QED
          BY <5>1
      <4> QED
        BY <2>2, <4>1
    <3>5. Flv!Cardinality(1..Len(tags)) = Len(tags)
      BY <3>4, Zenon DEF Flv!Cardinality, Cardinality
    <3> QED
      BY <2>2, <3>1, <3>3, <3>5 DEF TagsInOrder
  <2> QED
    BY <2>3, <2>4 DEF Flv!EachTagOnce
<1> QED
  BY <1>1, FlvInit, FlvStep, PTL DEF Flv!Spec

-----------------------------------------------------------------------------
(* PsDemuxer.                                                                *)

LEMMA PsdBounds ==
    /\ MaxPsPackets \in Nat /\ Bodies \subseteq Nat
    /\ StartCode \in Nat \ {0} /\ PsHeaderSize \in Nat \ {0} /\ StartCode < PsHeaderSize
    /\ 1 < StartCode
BY StreamsAssumption DEF StreamsAssumption

EventSet == [kind : {"header", "error", "frame"}, packet : 0..MaxPsPackets]

PsdTypes ==
    /\ packets \in [1..MaxPsPackets -> [kind : PacketKinds, body : Bodies]]
    /\ hevc \in BOOLEAN
    /\ psReceived \in Nat /\ psFirst \in Nat /\ psCursor \in Nat
    /\ events \in Seq(EventSet)

\* Where the packets are.
LEMMA PsdPositions ==
    ASSUME packets \in [1..MaxPsPackets -> [kind : PacketKinds, body : Bodies]]
    PROVE  /\ \A n \in 1..(MaxPsPackets + 1) : Psd!Start[n] \in Nat
           /\ \A m \in 1..MaxPsPackets, n \in 1..(MaxPsPackets + 1) :
                  m < n => Psd!Start[m] + StartCode < Psd!Start[n]
<1> DEFINE sizeOf == [n \in 1..MaxPsPackets |-> PsHeaderSize + packets[n].body]
           Here(f) == f = [n \in 1..(MaxPsPackets + 1) |->
                              IF n = 1 THEN 0
                              ELSE f[n - 1] + (PsHeaderSize + packets[n - 1].body)]
<1>1. ASSUME NEW n \in 1..MaxPsPackets
      PROVE  /\ sizeOf[n] = PsHeaderSize + packets[n].body
             /\ sizeOf[n] \in Nat /\ StartCode < sizeOf[n]
  <2>1. packets[n].body \in Nat
    BY PsdBounds
  <2>2. sizeOf[n] = PsHeaderSize + packets[n].body
    OBVIOUS
  <2> HIDE DEF sizeOf
  <2> QED
    BY <2>1, <2>2, PsdBounds
<1>2. MaxPsPackets \in Nat
  BY PsdBounds
<1>3. ASSUME NEW f
      PROVE  Totals(f, 0, sizeOf, MaxPsPackets) <=> Here(f)
  <2> DEFINE one == [n \in 1..(MaxPsPackets + 1) |->
                        IF n = 1 THEN 0 ELSE f[n - 1] + sizeOf[n - 1]]
             two == [n \in 1..(MaxPsPackets + 1) |->
                        IF n = 1 THEN 0 ELSE f[n - 1] + (PsHeaderSize + packets[n - 1].body)]
  <2>1. ASSUME NEW n \in 1..(MaxPsPackets + 1)
        PROVE  one[n] = two[n]
    <3>1. CASE n = 1
      BY <3>1
    <3>2. CASE n # 1
      <4>1. n - 1 \in 1..MaxPsPackets
        BY <1>2, <3>2
      <4>2. sizeOf[n - 1] = PsHeaderSize + packets[n - 1].body
        BY <1>1, <4>1
      <4> HIDE DEF sizeOf
      <4> QED
        BY <3>2, <4>2
    <3> QED
      BY <3>1, <3>2
  <2>2. one = two
    BY <2>1
  <2> QED
    BY <2>2 DEF Totals
<1>4. Psd!Start = CHOOSE f : Here(f)
  BY DEF Psd!Start
<1> HIDE DEF Here, sizeOf
<1>5. Totals(Psd!Start, 0, sizeOf, MaxPsPackets)
  <2>1. \E f : Here(f)
    BY <1>2, <1>3, TotalsExist
  <2>2. Here(Psd!Start)
    BY <1>4, <2>1
  <2> QED
    BY <1>3, <2>2
<1>6. /\ \A n \in 1..(MaxPsPackets + 1) : Psd!Start[n] \in Nat
      /\ \A m \in 1..MaxPsPackets, n \in 1..(MaxPsPackets + 1) :
             m < n => Psd!Start[m] + sizeOf[m] <= Psd!Start[n]
  BY <1>1, <1>2, <1>5, TotalsGrow
<1>7. ASSUME NEW m \in 1..MaxPsPackets, NEW n \in 1..(MaxPsPackets + 1), m < n
      PROVE  Psd!Start[m] + StartCode < Psd!Start[n]
  <2>1. /\ Psd!Start[m] + sizeOf[m] <= Psd!Start[n] /\ sizeOf[m] \in Nat
        /\ StartCode < sizeOf[m] /\ Psd!Start[m] \in Nat /\ Psd!Start[n] \in Nat
    BY <1>1, <1>2, <1>6, <1>7
  <2> QED
    BY <2>1, PsdBounds
<1> QED
  BY <1>6, <1>7

\* The same, of the packets only.
LEMMA PsdOrder ==
    ASSUME PsdTypes, NEW m \in 1..MaxPsPackets, NEW n \in 1..MaxPsPackets
    PROVE  /\ Psd!Start[m] \in Nat /\ Psd!Start[m + 1] \in Nat
           /\ Psd!Start[m] < Psd!Start[n] <=> m < n
           /\ m < n => Psd!Start[m + 1] <= Psd!Start[n]
           /\ Psd!Start[m] + StartCode < Psd!Start[m + 1]
<1>0. MaxPsPackets \in Nat /\ packets \in [1..MaxPsPackets -> [kind : PacketKinds, body : Bodies]]
  BY PsdBounds DEF PsdTypes
<1>1. m \in 1..(MaxPsPackets + 1) /\ n \in 1..(MaxPsPackets + 1) /\ m + 1 \in 1..(MaxPsPackets + 1)
  BY <1>0
<1>2. /\ Psd!Start[m] \in Nat /\ Psd!Start[m + 1] \in Nat /\ Psd!Start[n] \in Nat
      /\ Psd!Start[m] + StartCode < Psd!Start[m + 1]
      /\ m < n => Psd!Start[m] + StartCode < Psd!Start[n]
      /\ n < m => Psd!Start[n] + StartCode < Psd!Start[m]
  BY <1>0, <1>1, PsdPositions
<1>3. m < n => m + 1 = n \/ (m + 1 \in 1..MaxPsPackets /\ m + 1 < n)
  BY <1>0
<1>4. m < n => Psd!Start[m + 1] <= Psd!Start[n]
  <2>1. m + 1 \in 1..MaxPsPackets /\ m + 1 < n => Psd!Start[m + 1] + StartCode < Psd!Start[n]
    BY <1>0, <1>1, PsdPositions
  <2> QED
    BY <1>2, <1>3, <2>1, PsdBounds
<1>5. Psd!Start[m] < Psd!Start[n] <=> m < n
  <2>1. m < n \/ n < m \/ m = n
    BY <1>0
  <2> QED
    BY <1>2, <2>1, PsdBounds
<1> QED
  BY <1>2, <1>4, <1>5

\* The stream does not change, nor does where its packets are.
LEMMA PsdStaysPut == UNCHANGED packets => Psd!Start' = Psd!Start
BY DEF Psd!Start

-----------------------------------------------------------------------------
\* The scan is past a packet.
Passed(n) == Psd!Start[n] < psCursor

\* The stream begins with parameter sets, those of packet n or before.
Begins(n) ==
    /\ packets[n].kind \in Psd!Sets
    /\ \A k \in 1..MaxPsPackets : k < n => packets[k].kind \notin Psd!VideoFrames

Known(n) == Psd!Start[n] + StartCode <= psReceived

\* What was passed had its start code, and was whole unless it is ignored.
Seen ==
    \A n \in 1..MaxPsPackets : Passed(n) =>
        Known(n) /\ (packets[n].kind = "ignored" \/ Psd!WholePacket(n))

\* The frames among what was passed that are due, and whether the header was.
Shown == {n \in 1..MaxPsPackets : Passed(n) /\ Psd!Due(n)}
HeaderPassed == \E m \in 1..MaxPsPackets : Passed(m) /\ Psd!MakesHeader(m)

\* What the parameter sets that were passed left behind.
Reading ==
    /\ codec = "none" <=> \A m \in 1..MaxPsPackets :
           Passed(m) => packets[m].kind \notin Psd!Sets \cup Psd!VideoFrames
    /\ hevc => (codec = "hevc" <=> \E m \in 1..MaxPsPackets : Passed(m) /\ Begins(m))
    /\ ~seqEmitted => stored = "none" \/ (hevc /\ stored = "badParams")

\* Of the events so far: a head is the header or the error that counts for it.
IsFrame(j) == events[j].kind = "frame"
IsHead(j) == ~IsFrame(j) /\ (hevc => events[j].kind = "header")

\* The events of what was passed: errors of HEVC, the head, and the frames shown.
Emitted ==
    /\ seqEmitted <=> HeaderPassed
    /\ \A j \in 1..Len(events) : events[j].packet # 0
    /\ \A j \in 1..Len(events) : IsFrame(j) => events[j].packet \in Shown
    /\ \A i, j \in 1..Len(events) :
           IsFrame(i) /\ IsFrame(j) /\ i < j => events[i].packet < events[j].packet
    /\ \A n \in Shown : \E j \in 1..Len(events) : IsFrame(j) /\ events[j].packet = n
    /\ \A i, j \in 1..Len(events) : i < j /\ ~IsFrame(j) => hevc /\ events[i].kind = "error"
    /\ \A j \in 1..Len(events) : IsFrame(j) => \E i \in 1..Len(events) : i < j /\ IsHead(i)
    /\ IF seqEmitted THEN \E i \in 1..Len(events) : IsHead(i)
                     ELSE \A i \in 1..Len(events) : hevc /\ events[i].kind = "error"

\* Between two chunks: what is left is not whole, and waited for if it is known
\* and not ignored.
CaughtUp ==
    /\ \A n \in 1..MaxPsPackets : ~Passed(n) => ~Psd!WholePacket(n)
    /\ pending <=> \E n \in 1..MaxPsPackets :
           packets[n].kind # "ignored" /\ Known(n) /\ ~Psd!WholePacket(n)

Scan ==
    /\ psFirst <= psCursor
    /\ Seen
    /\ Reading
    /\ Emitted
    /\ ~psParsing => CaughtUp

PsdInv ==
    /\ PsdTypes
    /\ flushed => ~psParsing
    /\ ~derailed => IF flushed THEN FramesOnce ELSE Scan

LEMMA PsdInit == Psd!Init => PsdInv
<1> SUFFICES ASSUME Psd!Init
             PROVE  PsdInv
  OBVIOUS
<1>1. /\ packets \in [1..MaxPsPackets -> [kind : PacketKinds, body : Bodies]]
      /\ hevc \in BOOLEAN
      /\ psReceived = 0 /\ psFirst = 0 /\ psCursor = 0 /\ ~pending /\ ~psParsing
      /\ codec = "none" /\ stored = "none" /\ ~seqEmitted /\ events = <<>> /\ ~flushed
  BY DEF Psd!Init
<1>2. PsdTypes
  BY <1>1 DEF PsdTypes
<1>3. \A n \in 1..MaxPsPackets : Psd!Start[n] \in Nat /\ ~Passed(n) /\ ~Known(n) /\ ~Psd!WholePacket(n)
  <2> SUFFICES ASSUME NEW n \in 1..MaxPsPackets
               PROVE  /\ Psd!Start[n] \in Nat /\ ~Passed(n) /\ ~Known(n)
                      /\ ~Psd!WholePacket(n)
    OBVIOUS
  <2>1. /\ Psd!Start[n] \in Nat /\ Psd!Start[n + 1] \in Nat
        /\ Psd!Start[n] + StartCode < Psd!Start[n + 1]
    BY <1>2, PsdOrder
  <2> QED
    BY <1>1, <2>1, PsdBounds DEF Passed, Known, Psd!WholePacket
<1>4. Seen /\ CaughtUp
  BY <1>1, <1>3 DEF Seen, CaughtUp
<1>5. Shown = {} /\ ~HeaderPassed
  BY <1>3 DEF Shown, HeaderPassed
<1>6. Len(events) = 0
  BY <1>1
<1>7. Emitted
  BY <1>1, <1>5, <1>6 DEF Emitted
<1>8. Reading
  BY <1>1, <1>3 DEF Reading
<1> QED
  BY <1>1, <1>2, <1>4, <1>7, <1>8 DEF PsdInv, Scan

\* The packet that is found is the first that was not passed.
LEMMA FoundIsNext ==
    ASSUME PsdTypes, NEW n \in 1..MaxPsPackets, Psd!Found(n)
    PROVE  /\ ~Passed(n) /\ Known(n) /\ psCursor <= Psd!Start[n]
           /\ \A m \in 1..MaxPsPackets : Passed(m) <=> m < n
<1>1. n \in Psd!Ahead /\ \A m \in Psd!Ahead : n <= m
  BY Zenon DEF Psd!Found
<1>2. Psd!Start[n] >= psCursor /\ Psd!Start[n] + StartCode <= psReceived
  BY <1>1 DEF Psd!Ahead
<1>3. Psd!Start[n] \in Nat /\ psCursor \in Nat /\ psReceived \in Nat
  BY PsdOrder DEF PsdTypes
<1>4. ASSUME NEW m \in 1..MaxPsPackets
      PROVE  Passed(m) <=> m < n
  <2>1. Psd!Start[m] \in Nat /\ (Psd!Start[m] < Psd!Start[n] <=> m < n)
    BY PsdOrder
  <2>2. CASE Psd!Start[m] < psCursor
    BY <1>2, <1>3, <2>1, <2>2 DEF Passed
  <2>3. CASE ~(Psd!Start[m] < psCursor)
    <3> SUFFICES ASSUME m < n
                 PROVE  FALSE
      BY <2>3 DEF Passed
    <3>1. Psd!Start[m] + StartCode <= psReceived /\ Psd!Start[m] >= psCursor
      BY <1>2, <1>3, <2>1, <2>3, PsdBounds
    <3>2. m \in Psd!Ahead
      BY <3>1 DEF Psd!Ahead
    <3>3. n <= m
      BY <1>1, <3>2
    <3> QED
      BY <3>3
  <2> QED
    BY <2>2, <2>3
<1> QED
  BY <1>2, <1>3, <1>4 DEF Passed, Known

\* When the cursor comes behind packet n, and before the next, that is passed too.
LEMMA PassNext ==
    ASSUME PsdTypes, UNCHANGED packets, NEW n \in 1..MaxPsPackets, Psd!Found(n),
           psCursor' \in Nat, Psd!Start[n] < psCursor', psCursor' <= Psd!Start[n + 1]
    PROVE  /\ \A m \in 1..MaxPsPackets : Passed(m)' <=> Passed(m) \/ m = n
           /\ psCursor <= psCursor'
<1>1. Psd!Start' = Psd!Start
  BY PsdStaysPut
<1>2. ASSUME NEW m \in 1..MaxPsPackets
      PROVE  Passed(m)' <=> Passed(m) \/ m = n
  <2>1. Passed(m) <=> m < n
    BY FoundIsNext
  <2>2. /\ Psd!Start[m] \in Nat /\ Psd!Start[n] \in Nat /\ Psd!Start[n + 1] \in Nat
        /\ (Psd!Start[m] < Psd!Start[n] <=> m < n)
        /\ (n < m => Psd!Start[n + 1] <= Psd!Start[m])
    BY PsdOrder
  <2>3. Passed(m)' <=> Psd!Start[m] < psCursor'
    BY <1>1 DEF Passed
  <2>4. m < n \/ m = n \/ n < m
    BY PsdBounds
  <2> QED
    BY <2>1, <2>2, <2>3, <2>4
<1>3. psCursor <= psCursor'
  <2>1. psCursor <= Psd!Start[n] /\ Psd!Start[n] \in Nat /\ psCursor \in Nat
    BY FoundIsNext, PsdOrder DEF PsdTypes
  <2> QED
    BY <2>1
<1> QED
  BY <1>2, <1>3

LEMMA PsdTypesStep == PsdTypes /\ [Psd!Next]_psdVars => PsdTypes'
<1> SUFFICES ASSUME PsdTypes, [Psd!Next]_psdVars
             PROVE  PsdTypes'
  OBVIOUS
<1>1. /\ packets \in [1..MaxPsPackets -> [kind : PacketKinds, body : Bodies]]
      /\ hevc \in BOOLEAN
      /\ psReceived \in Nat /\ psFirst \in Nat /\ psCursor \in Nat
      /\ events \in Seq(EventSet)
  BY DEF PsdTypes
<1>2. ASSUME NEW length \in 1..Psd!StreamEnd, Psd!Push(length)
      PROVE  PsdTypes'
  <2>1. /\ length \in Nat /\ psReceived' = psReceived + length /\ psFirst' = psCursor
        /\ UNCHANGED <<packets, hevc, psCursor, events>>
    BY <1>2 DEF Psd!Push
  <2> QED
    BY <1>1, <2>1 DEF PsdTypes
<1>3. ASSUME Psd!NothingFound
      PROVE  PsdTypes'
  <2>1. /\ psFirst' = Psd!Tail3 /\ psCursor' = psFirst'
        /\ UNCHANGED <<packets, hevc, psReceived, events>>
    BY <1>3 DEF Psd!NothingFound
  <2>2. Psd!Tail3 \in Nat
    BY <1>1, PsdBounds DEF Psd!Tail3
  <2> QED
    BY <1>1, <2>1, <2>2 DEF PsdTypes
<1>4. ASSUME Psd!ParsePacket
      PROVE  PsdTypes'
  <2>1. PICK n \in 1..MaxPsPackets :
            \/ Psd!Incomplete(n) \/ Psd!IncompleteIgnored(n) \/ Psd!Skip(n)
            \/ Psd!TakeVideo(n) \/ Psd!Malformed(n) \/ Psd!TakeDecoy(n)
    BY <1>4 DEF Psd!ParsePacket
  <2>2. UNCHANGED <<packets, hevc, psReceived>>
    BY <1>4 DEF Psd!ParsePacket
  <2>3. Psd!Start[n] \in Nat /\ Psd!Start[n + 1] \in Nat
    BY PsdOrder
  <2>4. psFirst' \in Nat /\ psCursor' \in Nat
    <3>1. CASE Psd!Incomplete(n)
      BY <2>3, <3>1 DEF Psd!Incomplete
    <3>2. CASE Psd!IncompleteIgnored(n)
      BY <1>1, <2>3, <3>2 DEF Psd!IncompleteIgnored
    <3>3. CASE Psd!Skip(n)
      BY <1>1, <2>3, <3>3 DEF Psd!Skip
    <3>4. CASE Psd!TakeVideo(n)
      BY <1>1, <2>3, <3>4 DEF Psd!TakeVideo
    <3>5. CASE Psd!Malformed(n)
      BY <1>1, <2>3, <3>5 DEF Psd!Malformed
    <3>6. CASE Psd!TakeDecoy(n)
      <4>1. Psd!Start[n] + StartCode < Psd!Start[n + 1]
        BY PsdOrder
      <4>2. Psd!DecoyCode(n) + 1 \in Nat
        BY <2>3, <4>1, PsdBounds DEF Psd!DecoyCode
      <4>3. (Psd!Start[n + 1] + StartCode)..psReceived \subseteq Nat
        BY <1>1, <2>3, PsdBounds
      <4>4. psFirst' \in Nat
        BY <1>1, <3>6 DEF Psd!TakeDecoy
      <4>5. psCursor' \in Nat
        BY <3>6, <4>2, <4>3 DEF Psd!TakeDecoy
      <4> QED
        BY <4>4, <4>5
    <3> QED
      BY <2>1, <3>1, <3>2, <3>3, <3>4, <3>5, <3>6
  <2>5. events' \in Seq(EventSet)
    <3>1. n \in 0..MaxPsPackets
      BY PsdBounds
    <3>2. ASSUME NEW k \in {"header", "error", "frame"},
                 events' = Append(events, [kind |-> k, packet |-> n])
          PROVE  events' \in Seq(EventSet)
      <4>1. [kind |-> k, packet |-> n] \in EventSet
        BY <3>1 DEF EventSet
      <4> QED
        BY <1>1, <3>2, <4>1
    <3>3. events' = events
          \/ \E k \in {"header", "error", "frame"} :
                 events' = Append(events, [kind |-> k, packet |-> n])
      <4>1. CASE Psd!TakeVideo(n)
        BY <4>1 DEF Psd!TakeVideo
      <4>2. CASE ~Psd!TakeVideo(n)
        BY <2>1, <4>2 DEF Psd!Incomplete, Psd!IncompleteIgnored, Psd!Skip, Psd!Malformed,
                          Psd!TakeDecoy
      <4> QED
        BY <4>1, <4>2
    <3> QED
      BY <1>1, <3>2, <3>3
  <2> QED
    BY <1>1, <2>2, <2>4, <2>5 DEF PsdTypes
<1>5. ASSUME Psd!Flush
      PROVE  PsdTypes'
  <2>1. /\ psFirst' = psReceived /\ psCursor' = psReceived
        /\ UNCHANGED <<packets, hevc, psReceived>>
        /\ events' = events \/ events' = Append(events, [kind |-> "error", packet |-> 0])
    BY <1>5 DEF Psd!Flush
  <2>2. [kind |-> "error", packet |-> 0] \in EventSet
    BY PsdBounds DEF EventSet
  <2>3. events' \in Seq(EventSet)
    BY <1>1, <2>1, <2>2
  <2> QED
    BY <1>1, <2>1, <2>3 DEF PsdTypes
<1>6. ASSUME Psd!Close
      PROVE  PsdTypes'
  BY <1>1, <1>6 DEF Psd!Close, PsdTypes
<1>7. CASE UNCHANGED psdVars
  BY <1>1, <1>7 DEF psdVars, PsdTypes
<1> QED
  BY <1>2, <1>3, <1>4, <1>5, <1>6, <1>7 DEF Psd!Next

-----------------------------------------------------------------------------
\* The ranges of the definitions are those of the packets.
LEMMA DueMeans ==
    ASSUME NEW n \in 1..MaxPsPackets
    PROVE  /\ Psd!Due(n) <=> /\ packets[n].kind \in Psd!VideoFrames /\ Psd!WholePacket(n)
                             /\ \E m \in 1..MaxPsPackets : m < n /\ Psd!MakesHeader(m)
           /\ Psd!MakesHeader(n) <=>
                  /\ packets[n].kind \in Psd!Sets
                  /\ hevc => /\ packets[n].kind = "params"
                             /\ \E m \in 1..MaxPsPackets : m <= n /\ Begins(m)
<1>1. MaxPsPackets \in Nat
  BY PsdBounds
<1>2. (\E m \in 1..(n - 1) : Psd!MakesHeader(m))
      <=> \E m \in 1..MaxPsPackets : m < n /\ Psd!MakesHeader(m)
  <2>1. \A m \in 1..(n - 1) : m \in 1..MaxPsPackets /\ m < n
    BY <1>1
  <2>2. \A m \in 1..MaxPsPackets : m < n => m \in 1..(n - 1)
    BY <1>1
  <2> QED
    BY <2>1, <2>2, Zenon
<1>3. ASSUME NEW m \in 1..MaxPsPackets
      PROVE  Begins(m) <=> /\ packets[m].kind \in Psd!Sets
                           /\ \A k \in 1..(m - 1) : packets[k].kind \notin Psd!VideoFrames
  <2>1. \A k \in 1..(m - 1) : k \in 1..MaxPsPackets /\ k < m
    BY <1>1
  <2>2. \A k \in 1..MaxPsPackets : k < m => k \in 1..(m - 1)
    BY <1>1
  <2> QED
    BY <2>1, <2>2, Zenon DEF Begins
<1>4. (\E m \in 1..n : /\ packets[m].kind \in Psd!Sets
                       /\ \A k \in 1..(m - 1) : packets[k].kind \notin Psd!VideoFrames)
      <=> \E m \in 1..MaxPsPackets : m <= n /\ Begins(m)
  <2>1. \A m \in 1..n : m \in 1..MaxPsPackets /\ m <= n
    BY <1>1
  <2>2. \A m \in 1..MaxPsPackets : m <= n => m \in 1..n
    BY <1>1
  <2> QED
    BY <1>3, <2>1, <2>2, Zenon
<1> QED
  BY <1>2, <1>4, Zenon DEF Psd!Due, Psd!MakesHeader

\* Where the packets are and how much was received settle what is due.
LEMMA SameBytes ==
    ASSUME UNCHANGED <<packets, hevc, psReceived>>, NEW n \in 1..MaxPsPackets
    PROVE  /\ Psd!Due(n)' <=> Psd!Due(n)
           /\ Psd!WholePacket(n)' <=> Psd!WholePacket(n)
           /\ Known(n)' <=> Known(n)
           /\ Psd!MakesHeader(n)' <=> Psd!MakesHeader(n)
           /\ Begins(n)' <=> Begins(n)
<1>1. Psd!Start' = Psd!Start
  BY PsdStaysPut
<1>2. \A m : Psd!MakesHeader(m)' <=> Psd!MakesHeader(m)
  BY DEF Psd!MakesHeader
<1>3. (Psd!WholePacket(n)' <=> Psd!WholePacket(n)) /\ (Known(n)' <=> Known(n))
  BY <1>1 DEF Psd!WholePacket, Known
<1>4. Begins(n)' <=> Begins(n)
  BY DEF Begins
<1>5. Psd!Due(n)' <=> Psd!Due(n)
  BY <1>2, <1>3, Zenon DEF Psd!Due
<1> QED
  BY <1>2, <1>3, <1>4, <1>5

\* A step that shows nothing new leaves the events right.
LEMMA EmittedKept ==
    ASSUME Emitted, UNCHANGED <<hevc, events>>, seqEmitted' <=> seqEmitted, Shown' = Shown,
           HeaderPassed' <=> HeaderPassed
    PROVE  Emitted'
BY DEF Emitted, IsFrame, IsHead

LEMMA ReadingKept ==
    ASSUME Reading, UNCHANGED <<packets, hevc, codec, stored, seqEmitted>>,
           \A m \in 1..MaxPsPackets : Passed(m)' <=> Passed(m)
    PROVE  Reading'
<1>1. \A m \in 1..MaxPsPackets : Begins(m)' <=> Begins(m)
  BY DEF Begins
<1> QED
  BY <1>1 DEF Reading

\* A packet that makes no event is passed.
LEMMA EmittedPast ==
    ASSUME PsdTypes, Emitted, UNCHANGED <<packets, hevc, psReceived, events>>,
           seqEmitted' <=> seqEmitted, NEW n \in 1..MaxPsPackets,
           \A m \in 1..MaxPsPackets : Passed(m)' <=> Passed(m) \/ m = n,
           ~Psd!Due(n), Psd!MakesHeader(n) => seqEmitted
    PROVE  Emitted'
<1>1. \A m \in 1..MaxPsPackets : /\ Psd!Due(m)' <=> Psd!Due(m)
                                 /\ Psd!MakesHeader(m)' <=> Psd!MakesHeader(m)
  BY SameBytes
<1>2. HeaderPassed' <=> HeaderPassed
  <2>1. Psd!MakesHeader(n) => HeaderPassed
    BY DEF Emitted
  <2> QED
    BY <1>1, <2>1, Zenon DEF HeaderPassed
<1>3. Shown' = Shown
  BY <1>1 DEF Shown
<1> QED
  BY <1>2, <1>3, EmittedKept

-----------------------------------------------------------------------------
\* A chunk makes no packet due that was passed.
LEMMA ScanPush ==
    ASSUME PsdTypes, Scan, NEW length \in 1..Psd!StreamEnd, Psd!Push(length)
    PROVE  Scan'
<1>1. /\ psReceived' = psReceived + length /\ psFirst' = psCursor /\ psParsing'
      /\ UNCHANGED <<packets, hevc, psCursor, codec, stored, seqEmitted, events>>
      /\ psReceived \in Nat /\ psCursor \in Nat /\ length \in Nat
  <2>1. psParsing' = TRUE
    BY DEF Psd!Push
  <2> QED
    BY <2>1 DEF Psd!Push, PsdTypes
<1>2. Psd!Start' = Psd!Start
  BY <1>1, PsdStaysPut
<1>3. ASSUME NEW n \in 1..MaxPsPackets
      PROVE  /\ Passed(n)' <=> Passed(n)
             /\ Psd!MakesHeader(n)' <=> Psd!MakesHeader(n)
             /\ Known(n) => Known(n)'
             /\ Psd!WholePacket(n) => Psd!WholePacket(n)'
  <2>1. Psd!Start[n] \in Nat /\ Psd!Start[n + 1] \in Nat
    BY PsdOrder
  <2>2. (Known(n) => Known(n)') /\ (Psd!WholePacket(n) => Psd!WholePacket(n)')
    BY <1>1, <1>2, <2>1, PsdBounds DEF Known, Psd!WholePacket
  <2>3. (Passed(n)' <=> Passed(n)) /\ (Psd!MakesHeader(n)' <=> Psd!MakesHeader(n))
    BY <1>1, <1>2 DEF Passed, Psd!MakesHeader
  <2> QED
    BY <2>2, <2>3
<1>4. \A n \in 1..MaxPsPackets : Passed(n)' => Known(n)'
          /\ (packets'[n].kind = "ignored" \/ Psd!WholePacket(n)')
  BY <1>1, <1>3 DEF Scan, Seen
<1>5. Shown' = Shown
  <2>1. ASSUME NEW n \in 1..MaxPsPackets, Passed(n)
        PROVE  Psd!Due(n)' <=> Psd!Due(n)
    <3>1. packets[n].kind = "ignored" \/ (Psd!WholePacket(n) /\ Psd!WholePacket(n)')
      BY <1>3, <2>1 DEF Scan, Seen
    <3>2. packets' = packets
      BY <1>1
    <3>3. CASE packets[n].kind = "ignored"
      BY <3>2, <3>3 DEF Psd!Due, Psd!VideoFrames
    <3>4. CASE Psd!WholePacket(n) /\ Psd!WholePacket(n)'
      <4>1. \A m : Psd!MakesHeader(m)' <=> Psd!MakesHeader(m)
        BY <1>1 DEF Psd!MakesHeader
      <4> QED
        BY <3>2, <3>4, <4>1, Zenon DEF Psd!Due
    <3> QED
      BY <3>1, <3>3, <3>4
  <2> QED
    BY <1>3, <2>1 DEF Shown
<1>6. HeaderPassed' <=> HeaderPassed
  BY <1>3, Zenon DEF HeaderPassed
<1>7. Emitted'
  BY <1>1, <1>5, <1>6, EmittedKept DEF Scan
<1>8. psFirst' <= psCursor'
  BY <1>1
<1>9. Reading'
  BY <1>1, <1>3, ReadingKept DEF Scan
<1> QED
  BY <1>1, <1>4, <1>7, <1>8, <1>9 DEF Scan, Seen

\* The tail that is kept begins behind what was passed, though the cursor is
\* put back to it: for a passed packet the start code was there.
LEMMA ScanNothing ==
    ASSUME PsdTypes, Scan, Psd!NothingFound
    PROVE  Scan'
<1>1. /\ Psd!Ahead = {} /\ psFirst' = Psd!Tail3 /\ psCursor' = psFirst' /\ ~pending'
      /\ UNCHANGED <<packets, hevc, psReceived, codec, stored, seqEmitted, events>>
      /\ psReceived \in Nat /\ psCursor \in Nat /\ psFirst \in Nat
  <2>1. pending' = FALSE
    BY DEF Psd!NothingFound
  <2> QED
    BY <2>1 DEF Psd!NothingFound, PsdTypes
<1>2. Psd!Start' = Psd!Start
  BY <1>1, PsdStaysPut
<1>3. psFirst <= psCursor
  BY DEF Scan
<1>4. ASSUME NEW n \in 1..MaxPsPackets
      PROVE  /\ Passed(n)' <=> Passed(n)
             /\ ~Passed(n) => ~Known(n) /\ ~Psd!WholePacket(n)
  <2>1. /\ Psd!Start[n] \in Nat /\ Psd!Start[n + 1] \in Nat
        /\ Psd!Start[n] + StartCode < Psd!Start[n + 1]
    BY PsdOrder
  <2>2. Passed(n) => Known(n)
    BY DEF Scan, Seen
  <2>3. ~(Psd!Start[n] >= psCursor /\ Psd!Start[n] + StartCode <= psReceived)
    BY <1>1 DEF Psd!Ahead
  <2>4. ~Passed(n) => ~Known(n) /\ ~Psd!WholePacket(n)
    BY <1>1, <2>1, <2>3, PsdBounds DEF Passed, Known, Psd!WholePacket
  <2>5. Passed(n)' <=> Psd!Start[n] < Psd!Tail3
    BY <1>1, <1>2 DEF Passed
  <2>6. Passed(n) => Psd!Start[n] < Psd!Tail3
    BY <1>1, <2>1, <2>2, PsdBounds DEF Passed, Known, Psd!Tail3
  <2>7. Psd!Start[n] < Psd!Tail3 => Passed(n)
    <3>1. ~Passed(n) => psCursor <= Psd!Start[n] /\ ~(Psd!Start[n] + StartCode <= psReceived)
      BY <1>1, <2>1, <2>4 DEF Passed, Known
    <3> QED
      BY <1>1, <1>3, <2>1, <3>1, PsdBounds DEF Psd!Tail3
  <2> QED
    BY <2>4, <2>5, <2>6, <2>7
<1>5. \A n \in 1..MaxPsPackets :
          /\ Psd!Due(n)' <=> Psd!Due(n)
          /\ Psd!WholePacket(n)' <=> Psd!WholePacket(n)
          /\ Known(n)' <=> Known(n)
          /\ Psd!MakesHeader(n)' <=> Psd!MakesHeader(n)
  BY <1>1, SameBytes
<1>6. Shown' = Shown
  BY <1>4, <1>5 DEF Shown
<1>7. HeaderPassed' <=> HeaderPassed
  BY <1>4, <1>5, Zenon DEF HeaderPassed
<1>8. Emitted'
  BY <1>1, <1>6, <1>7, EmittedKept DEF Scan
<1>9. Seen'
  BY <1>1, <1>4, <1>5 DEF Scan, Seen
<1>10. CaughtUp'
  <2>1. ASSUME NEW n \in 1..MaxPsPackets
        PROVE  packets[n].kind = "ignored" \/ ~Known(n) \/ Psd!WholePacket(n)
    BY <1>4 DEF Scan, Seen
  <2> QED
    BY <1>1, <1>4, <1>5, <2>1 DEF CaughtUp
<1>11. psFirst' <= psCursor'
  <2>1. Psd!Tail3 \in Nat
    BY <1>1, PsdBounds DEF Psd!Tail3
  <2> QED
    BY <1>1, <2>1
<1>12. Reading'
  BY <1>1, <1>4, ReadingKept DEF Scan
<1> QED
  BY <1>8, <1>9, <1>10, <1>11, <1>12 DEF Scan

\* A packet that is waited for, and all behind it, is not whole.
LEMMA ScanIncomplete ==
    ASSUME PsdTypes, Scan, NEW n \in 1..MaxPsPackets, Psd!Found(n), Psd!Incomplete(n),
           UNCHANGED <<packets, hevc, psReceived>>
    PROVE  Scan'
<1>1. /\ packets[n].kind # "ignored" /\ ~Psd!WholePacket(n)
      /\ psFirst' = Psd!Start[n] /\ psCursor' = psFirst' /\ pending'
      /\ UNCHANGED <<codec, stored, seqEmitted, events>>
      /\ psReceived \in Nat /\ psCursor \in Nat
  <2>1. pending' = TRUE
    BY DEF Psd!Incomplete
  <2> QED
    BY <2>1 DEF Psd!Incomplete, PsdTypes
<1>2. Psd!Start' = Psd!Start
  BY PsdStaysPut
<1>3. /\ Known(n)
      /\ \A m \in 1..MaxPsPackets : Passed(m) <=> m < n
  BY FoundIsNext
<1>4. ASSUME NEW m \in 1..MaxPsPackets
      PROVE  /\ Passed(m)' <=> Passed(m)
             /\ ~Passed(m) => ~Psd!WholePacket(m)
  <2>1. /\ Psd!Start[m] \in Nat /\ Psd!Start[n] \in Nat /\ Psd!Start[n + 1] \in Nat
        /\ Psd!Start[m + 1] \in Nat
        /\ (Psd!Start[m] < Psd!Start[n] <=> m < n)
        /\ Psd!Start[m] + StartCode < Psd!Start[m + 1]
    BY PsdOrder
  <2>2. n < m => Psd!Start[n + 1] <= Psd!Start[m]
    BY PsdOrder
  <2>3. Passed(m)' <=> Psd!Start[m] < Psd!Start[n]
    BY <1>1, <1>2 DEF Passed
  <2>4. m < n \/ m = n \/ n < m
    BY PsdBounds
  <2>5. n < m => ~Psd!WholePacket(m)
    BY <1>1, <2>1, <2>2, PsdBounds DEF Psd!WholePacket
  <2> QED
    BY <1>1, <1>3, <2>1, <2>3, <2>4, <2>5
<1>5. \A m \in 1..MaxPsPackets :
          /\ Psd!Due(m)' <=> Psd!Due(m)
          /\ Psd!WholePacket(m)' <=> Psd!WholePacket(m)
          /\ Known(m)' <=> Known(m)
          /\ Psd!MakesHeader(m)' <=> Psd!MakesHeader(m)
  BY SameBytes
<1>6. Shown' = Shown
  BY <1>4, <1>5 DEF Shown
<1>7. HeaderPassed' <=> HeaderPassed
  BY <1>4, <1>5, Zenon DEF HeaderPassed
<1>8. Emitted'
  BY <1>1, <1>6, <1>7, EmittedKept DEF Scan
<1>9. Seen'
  BY <1>1, <1>4, <1>5 DEF Scan, Seen
<1>10. CaughtUp'
  BY <1>1, <1>3, <1>4, <1>5 DEF CaughtUp
<1>11. psFirst' <= psCursor'
  <2>1. Psd!Start[n] \in Nat
    BY PsdOrder
  <2> QED
    BY <1>1, <2>1
<1>12. Reading'
  BY <1>1, <1>4, ReadingKept DEF Scan
<1> QED
  BY <1>8, <1>9, <1>10, <1>11, <1>12 DEF Scan

\* The cursor comes behind the packet that was found, while parse() goes on.
LEMMA ScanPast ==
    ASSUME PsdTypes, PsdTypes', Scan, NEW n \in 1..MaxPsPackets, Psd!Found(n),
           UNCHANGED <<packets, hevc, psReceived, psFirst>>, psParsing',
           Psd!Start[n] < psCursor', psCursor' <= Psd!Start[n + 1],
           packets[n].kind = "ignored" \/ Psd!WholePacket(n),
           (\A m \in 1..MaxPsPackets : Passed(m)' <=> Passed(m) \/ m = n)
               => Reading' /\ Emitted'
    PROVE  Scan'
<1>1. psCursor \in Nat /\ psCursor' \in Nat /\ psFirst \in Nat
  BY DEF PsdTypes
<1>2. /\ \A m \in 1..MaxPsPackets : Passed(m)' <=> Passed(m) \/ m = n
      /\ psCursor <= psCursor'
  BY <1>1, PassNext
<1>3. Known(n)
  BY FoundIsNext
<1>4. \A m \in 1..MaxPsPackets : (Psd!WholePacket(m)' <=> Psd!WholePacket(m))
                                 /\ (Known(m)' <=> Known(m))
  BY SameBytes
<1>5. Seen'
  BY <1>2, <1>3, <1>4 DEF Scan, Seen
<1>6. psFirst' <= psCursor'
  BY <1>1, <1>2 DEF Scan
<1> QED
  BY <1>2, <1>5, <1>6 DEF Scan

LEMMA ScanSkip ==
    ASSUME PsdTypes, PsdTypes', Scan, psParsing, NEW n \in 1..MaxPsPackets, Psd!Found(n),
           Psd!IncompleteIgnored(n) \/ Psd!Skip(n), UNCHANGED <<packets, hevc, psReceived>>
    PROVE  Scan'
<1>1. /\ packets[n].kind \in {"pack", "ignored"}
      /\ packets[n].kind = "ignored" \/ Psd!WholePacket(n)
      /\ psCursor' = Psd!Start[n] + 1 \/ psCursor' = Psd!Start[n + 1]
      /\ UNCHANGED <<psFirst, psParsing, codec, stored, seqEmitted, events>>
  BY DEF Psd!IncompleteIgnored, Psd!Skip
<1>2. Psd!Start[n] < psCursor' /\ psCursor' <= Psd!Start[n + 1]
  <2>1. /\ Psd!Start[n] \in Nat /\ Psd!Start[n + 1] \in Nat
        /\ Psd!Start[n] + StartCode < Psd!Start[n + 1]
    BY PsdOrder
  <2> QED
    BY <1>1, <2>1, PsdBounds
<1>3. ~Psd!Due(n) /\ ~Psd!MakesHeader(n) /\ packets[n].kind \notin Psd!Sets \cup Psd!VideoFrames
  BY <1>1 DEF Psd!Due, Psd!MakesHeader, Psd!Sets, Psd!VideoFrames
<1>4. ASSUME \A m \in 1..MaxPsPackets : Passed(m)' <=> Passed(m) \/ m = n
      PROVE  Reading' /\ Emitted'
  <2>1. Emitted'
    BY <1>1, <1>3, <1>4, EmittedPast DEF Scan
  <2>2. ~Begins(n) /\ \A m \in 1..MaxPsPackets : Begins(m)' <=> Begins(m)
    BY <1>3 DEF Begins
  <2>3. Reading'
    BY <1>1, <1>3, <1>4, <2>2 DEF Scan, Reading
  <2> QED
    BY <2>1, <2>3
<1>5. psParsing'
  BY <1>1
<1> QED
  BY <1>1, <1>2, <1>4, <1>5, ScanPast

\* A frame is due when it is behind a header that was passed.
LEMMA DueIsEmitted ==
    ASSUME PsdTypes, Emitted, NEW n \in 1..MaxPsPackets, Psd!Found(n), Psd!WholePacket(n)
    PROVE  Psd!Due(n) <=> packets[n].kind \in Psd!VideoFrames /\ seqEmitted
<1>1. \A m \in 1..MaxPsPackets : Passed(m) <=> m < n
  BY FoundIsNext
<1>2. Psd!Due(n) <=> /\ packets[n].kind \in Psd!VideoFrames
                     /\ \E m \in 1..MaxPsPackets : m < n /\ Psd!MakesHeader(m)
  BY DueMeans
<1> QED
  BY <1>1, <1>2, Zenon DEF Emitted, HeaderPassed

\* HEVC is taken for what it is when the stream began with parameter sets.
LEMMA DetectedMeans ==
    ASSUME PsdTypes, Reading, NEW n \in 1..MaxPsPackets, Psd!Found(n), hevc,
           packets[n].kind \in Psd!Sets
    PROVE  Psd!Detected(n) = "hevc" <=> \E m \in 1..MaxPsPackets : m <= n /\ Begins(m)
<1>1. \A m \in 1..MaxPsPackets : Passed(m) <=> m < n
  BY FoundIsNext
<1>2. \A m \in 1..MaxPsPackets : m <= n <=> m < n \/ m = n
  BY PsdBounds
<1>3. Psd!Sets \cap Psd!VideoFrames = {}
  BY DEF Psd!Sets, Psd!VideoFrames
<1>4. CASE codec = "none"
  <2>1. Psd!Detected(n) = "hevc"
    BY <1>4 DEF Psd!Detected
  <2>2. \A k \in 1..MaxPsPackets : k < n => packets[k].kind \notin Psd!VideoFrames
    BY <1>1, <1>4 DEF Reading
  <2>3. Begins(n)
    BY <2>2 DEF Begins
  <2> QED
    BY <1>2, <2>1, <2>3
<1>5. CASE codec = "hevc"
  <2>1. Psd!Detected(n) = "hevc"
    BY <1>5 DEF Psd!Detected
  <2>2. \E m \in 1..MaxPsPackets : Passed(m) /\ Begins(m)
    BY <1>5 DEF Reading
  <2> QED
    BY <1>1, <1>2, <2>1, <2>2, Zenon
<1>6. CASE codec \notin {"none", "hevc"}
  <2>1. Psd!Detected(n) # "hevc"
    BY <1>6 DEF Psd!Detected
  <2>2. ~\E m \in 1..MaxPsPackets : Passed(m) /\ Begins(m)
    BY <1>6 DEF Reading
  <2>3. ~Begins(n)
    <3> SUFFICES ASSUME Begins(n)
                 PROVE  FALSE
      OBVIOUS
    <3>1. PICK m \in 1..MaxPsPackets :
              Passed(m) /\ packets[m].kind \in Psd!Sets \cup Psd!VideoFrames
      BY <1>6 DEF Reading
    <3>2. m < n
      BY <1>1, <3>1
    <3>3. packets[m].kind \in Psd!Sets
      BY <3>1, <3>2 DEF Begins
    <3>4. \A k \in 1..MaxPsPackets : k < m => k < n
      BY <3>2, PsdBounds
    <3>5. Begins(m)
      BY <3>3, <3>4 DEF Begins
    <3> QED
      BY <2>2, <3>1, <3>5
  <2> QED
    BY <1>1, <1>2, <2>1, <2>2, <2>3, Zenon
<1> QED
  BY <1>4, <1>5, <1>6

\* The header is made of the packets that make it.
LEMMA HeaderMeans ==
    ASSUME PsdTypes, Reading, NEW n \in 1..MaxPsPackets, Psd!Found(n), ~seqEmitted
    PROVE  /\ Psd!HeaderDue(n) /\ (hevc => Psd!StoredWith(n) = "params") <=> Psd!MakesHeader(n)
           /\ Psd!HeaderDue(n) => Psd!StoredWith(n) \in Psd!Sets
           /\ Psd!StoredWith(n) = "none" \/ Psd!MakesHeader(n)
              \/ (hevc /\ Psd!StoredWith(n) = "badParams")
<1>1. stored = "none" \/ (hevc /\ stored = "badParams")
  BY DEF Reading
<1>2. Psd!MakesHeader(n) <=>
          /\ packets[n].kind \in Psd!Sets
          /\ hevc => /\ packets[n].kind = "params"
                     /\ \E m \in 1..MaxPsPackets : m <= n /\ Begins(m)
  BY DueMeans
<1>3. CASE ~hevc
  <2>1. Psd!Understood(n)
    BY <1>3 DEF Psd!Understood
  <2> QED
    BY <1>1, <1>2, <1>3, <2>1 DEF Psd!HeaderDue, Psd!StoredWith, Psd!Sets
<1>4. CASE hevc
  <2>1. packets[n].kind \in Psd!Sets =>
            (Psd!Understood(n) <=> \E m \in 1..MaxPsPackets : m <= n /\ Begins(m))
    <3>1. Psd!Understood(n) <=> Psd!Detected(n) = "hevc"
      BY <1>4 DEF Psd!Understood
    <3> QED
      BY <1>4, <3>1, DetectedMeans
  <2>2. Psd!MakesHeader(n) <=> packets[n].kind = "params" /\ Psd!Understood(n)
    BY <1>2, <1>4, <2>1 DEF Psd!Sets
  <2> QED
    BY <1>1, <1>4, <2>2 DEF Psd!HeaderDue, Psd!StoredWith, Psd!Sets
<1> QED
  BY <1>3, <1>4

LEMMA ReadingVideo ==
    ASSUME PsdTypes, Reading, UNCHANGED <<packets, hevc>>,
           NEW n \in 1..MaxPsPackets, Psd!Found(n), Psd!TakeVideo(n),
           \A m \in 1..MaxPsPackets : Passed(m)' <=> Passed(m) \/ m = n
    PROVE  Reading'
<1>1. /\ packets[n].kind \in Psd!Sets \cup Psd!VideoFrames
      /\ codec' = Psd!Detected(n) /\ stored' = Psd!StoredWith(n)
      /\ seqEmitted' = (seqEmitted \/ (Psd!HeaderDue(n) /\ (hevc => stored' = "params")))
  BY DEF Psd!TakeVideo
<1>2. \A m \in 1..MaxPsPackets : Begins(m)' <=> Begins(m)
  BY DEF Begins
<1>3. codec' # "none"
  BY <1>1 DEF Psd!Detected
<1>4. ASSUME hevc
      PROVE  codec' = "hevc" <=> \E m \in 1..MaxPsPackets : (Passed(m) \/ m = n) /\ Begins(m)
  <2>1. CASE packets[n].kind \in Psd!Sets
    <3>1. \A m \in 1..MaxPsPackets : Passed(m) <=> m < n
      BY FoundIsNext
    <3>2. \A m \in 1..MaxPsPackets : m <= n <=> Passed(m) \/ m = n
      BY <3>1, PsdBounds
    <3>3. codec' = "hevc" <=> \E m \in 1..MaxPsPackets : m <= n /\ Begins(m)
      BY <1>1, <1>4, <2>1, DetectedMeans
    <3> QED
      BY <3>2, <3>3, Zenon
  <2>2. CASE packets[n].kind \notin Psd!Sets
    <3>1. ~Begins(n)
      BY <2>2 DEF Begins
    <3>2. codec' = "hevc" <=> codec = "hevc"
      BY <1>1, <2>2 DEF Psd!Detected
    <3>3. codec = "hevc" <=> \E m \in 1..MaxPsPackets : Passed(m) /\ Begins(m)
      BY <1>4 DEF Reading
    <3> QED
      BY <3>1, <3>2, <3>3, Zenon
  <2> QED
    BY <2>1, <2>2
<1>5. ASSUME ~seqEmitted'
      PROVE  stored' = "none" \/ (hevc /\ stored' = "badParams")
  <2>1. ~seqEmitted /\ ~(Psd!HeaderDue(n) /\ (hevc => Psd!StoredWith(n) = "params"))
    BY <1>1, <1>5
  <2>2. ~Psd!MakesHeader(n)
    BY <2>1, HeaderMeans
  <2> QED
    BY <1>1, <2>1, <2>2, HeaderMeans
<1>6. codec' = "none" <=> \A m \in 1..MaxPsPackets :
          Passed(m)' => packets'[m].kind \notin Psd!Sets \cup Psd!VideoFrames
  BY <1>1, <1>3
<1>7. hevc' => (codec' = "hevc" <=> \E m \in 1..MaxPsPackets : Passed(m)' /\ Begins(m)')
  BY <1>2, <1>4
<1> QED
  BY <1>5, <1>6, <1>7 DEF Reading

\* An event is put behind the others.
LEMMA Appended ==
    ASSUME PsdTypes, NEW n \in 1..MaxPsPackets, NEW kind \in {"header", "error", "frame"},
           events' = Append(events, [kind |-> kind, packet |-> n]), UNCHANGED hevc
    PROVE  /\ Len(events) \in Nat /\ Len(events') = Len(events) + 1
           /\ \A j \in 1..Len(events') : j \in 1..Len(events) \/ j = Len(events) + 1
           /\ \A j \in 1..Len(events) :
                  /\ j \in 1..Len(events') /\ j < Len(events) + 1
                  /\ events'[j] = events[j]
                  /\ IsFrame(j)' <=> IsFrame(j)
                  /\ IsHead(j)' <=> IsHead(j)
           /\ Len(events) + 1 \in 1..Len(events')
           /\ events'[Len(events) + 1].kind = kind
           /\ events'[Len(events) + 1].packet = n
<1>1. events \in Seq(EventSet) /\ Len(events) \in Nat
  BY DEF PsdTypes
<1>2. /\ Len(events') = Len(events) + 1
      /\ \A j \in 1..Len(events) : events'[j] = events[j]
      /\ events'[Len(events) + 1] = [kind |-> kind, packet |-> n]
  BY <1>1
<1>3. \A j \in 1..Len(events) : j \in 1..Len(events') /\ j < Len(events) + 1
  BY <1>1, <1>2
<1>4. \A j \in 1..Len(events') : j \in 1..Len(events) \/ j = Len(events) + 1
  BY <1>1, <1>2
<1>5. \A j \in 1..Len(events) : (IsFrame(j)' <=> IsFrame(j)) /\ (IsHead(j)' <=> IsHead(j))
  BY <1>2 DEF IsFrame, IsHead
<1> QED
  BY <1>1, <1>2, <1>3, <1>4, <1>5

\* The head, or an error of HEVC, comes behind errors of HEVC only.
LEMMA EmitHead ==
    ASSUME PsdTypes, Emitted, UNCHANGED <<packets, hevc, psReceived>>,
           NEW n \in 1..MaxPsPackets, Psd!Found(n), ~seqEmitted, ~Psd!Due(n),
           seqEmitted' <=> Psd!MakesHeader(n),
           \A m \in 1..MaxPsPackets : Passed(m)' <=> Passed(m) \/ m = n,
           NEW kind \in {"header", "error"},
           Psd!MakesHeader(n) => (hevc => kind = "header"),
           ~Psd!MakesHeader(n) => hevc /\ kind = "error",
           events' = Append(events, [kind |-> kind, packet |-> n])
    PROVE  Emitted'
<1> DEFINE k == Len(events)
<1>1. \A m \in 1..MaxPsPackets : /\ Psd!Due(m)' <=> Psd!Due(m)
                                 /\ Psd!MakesHeader(m)' <=> Psd!MakesHeader(m)
  BY SameBytes
<1>2. seqEmitted' <=> HeaderPassed'
  BY <1>1, Zenon DEF HeaderPassed, Emitted
<1>3. Shown' = Shown
  BY <1>1 DEF Shown
<1>4. /\ k \in Nat /\ Len(events') = k + 1
      /\ \A j \in 1..Len(events') : j \in 1..k \/ j = k + 1
      /\ \A j \in 1..k : /\ j \in 1..Len(events') /\ j < k + 1
                         /\ events'[j] = events[j]
                         /\ IsFrame(j)' <=> IsFrame(j)
                         /\ IsHead(j)' <=> IsHead(j)
      /\ k + 1 \in 1..Len(events')
      /\ events'[k + 1].kind = kind /\ events'[k + 1].packet = n
  BY Appended
<1>5. \A j \in 1..k : hevc /\ events[j].kind = "error" /\ events[j].packet # 0 /\ ~IsFrame(j)
  BY DEF Emitted, IsFrame
<1>6. Shown = {}
  <2> SUFFICES ASSUME NEW m \in Shown
               PROVE  FALSE
    OBVIOUS
  <2>1. PICK j \in 1..k : IsFrame(j)
    BY DEF Emitted
  <2> QED
    BY <1>5, <2>1
<1>7. n # 0 /\ \A j : j = k + 1 => ~IsFrame(j)'
  BY <1>4, PsdBounds DEF IsFrame
<1>8. Psd!MakesHeader(n) => \A j : j = k + 1 => IsHead(j)'
  BY <1>4, <1>7 DEF IsHead
<1> HIDE DEF k
<1>9. \A j \in 1..Len(events') : ~IsFrame(j)' /\ events'[j].packet # 0
  BY <1>4, <1>5, <1>7
<1>10. ASSUME NEW i \in 1..Len(events'), NEW j \in 1..Len(events'), i < j
       PROVE  hevc' /\ events'[i].kind = "error"
  <2>1. i \in 1..k
    BY <1>4, <1>10
  <2> QED
    BY <1>4, <1>5, <2>1
<1>11. IF seqEmitted' THEN \E i \in 1..Len(events') : IsHead(i)'
                      ELSE \A i \in 1..Len(events') : hevc' /\ events'[i].kind = "error"
  BY <1>4, <1>5, <1>8
<1> QED
  BY <1>2, <1>3, <1>6, <1>9, <1>10, <1>11 DEF Emitted

\* A frame is shown behind those shown before.
LEMMA EmitFrame ==
    ASSUME PsdTypes, Emitted, UNCHANGED <<packets, hevc, psReceived>>,
           NEW n \in 1..MaxPsPackets, Psd!Found(n), Psd!Due(n), seqEmitted, seqEmitted',
           \A m \in 1..MaxPsPackets : Passed(m)' <=> Passed(m) \/ m = n,
           events' = Append(events, [kind |-> "frame", packet |-> n])
    PROVE  Emitted'
<1> DEFINE k == Len(events)
<1>1. \A m \in 1..MaxPsPackets : /\ Psd!Due(m)' <=> Psd!Due(m)
                                 /\ Psd!MakesHeader(m)' <=> Psd!MakesHeader(m)
  BY SameBytes
<1>2. HeaderPassed'
  BY <1>1, Zenon DEF HeaderPassed, Emitted
<1>3. Shown' = Shown \cup {n}
  BY <1>1 DEF Shown
<1>4. /\ k \in Nat /\ Len(events') = k + 1
      /\ \A j \in 1..Len(events') : j \in 1..k \/ j = k + 1
      /\ \A j \in 1..k : /\ j \in 1..Len(events') /\ j < k + 1
                         /\ events'[j] = events[j]
                         /\ IsFrame(j)' <=> IsFrame(j)
                         /\ IsHead(j)' <=> IsHead(j)
      /\ k + 1 \in 1..Len(events')
      /\ events'[k + 1].kind = "frame" /\ events'[k + 1].packet = n
  BY Appended
<1>5. n # 0 /\ \A j : j = k + 1 => IsFrame(j)'
  BY <1>4, PsdBounds DEF IsFrame
<1>6. \A j \in 1..k : IsFrame(j) => events[j].packet \in Shown /\ events[j].packet < n
  <2> SUFFICES ASSUME NEW j \in 1..k, IsFrame(j)
               PROVE  events[j].packet \in Shown /\ events[j].packet < n
    OBVIOUS
  <2>1. events[j].packet \in Shown
    BY DEF Emitted
  <2>2. events[j].packet \in 1..MaxPsPackets /\ Passed(events[j].packet)
    BY <2>1 DEF Shown
  <2> QED
    BY <2>1, <2>2, FoundIsNext
<1>7. PICK h \in 1..k : IsHead(h)
  BY DEF Emitted
<1>8. \A i, j \in 1..k : i < j /\ ~IsFrame(j) => hevc /\ events[i].kind = "error"
  BY DEF Emitted
<1>9. \A j \in 1..k : IsFrame(j) => \E i \in 1..k : i < j /\ IsHead(i)
  BY DEF Emitted
<1>10. \A i, j \in 1..k : IsFrame(i) /\ IsFrame(j) /\ i < j => events[i].packet < events[j].packet
  BY DEF Emitted
<1>11. \A m \in Shown : \E j \in 1..k : IsFrame(j) /\ events[j].packet = m
  BY DEF Emitted
<1>12. \A j \in 1..k : events[j].packet # 0
  BY DEF Emitted
<1> HIDE DEF k
<1>13. \A j \in 1..Len(events') : events'[j].packet # 0
  BY <1>4, <1>5, <1>12
<1>14. \A j \in 1..Len(events') : IsFrame(j)' => events'[j].packet \in Shown'
  BY <1>3, <1>4, <1>6
<1>15. ASSUME NEW i \in 1..Len(events'), NEW j \in 1..Len(events'),
              IsFrame(i)', IsFrame(j)', i < j
       PROVE  events'[i].packet < events'[j].packet
  <2>1. i \in 1..k
    BY <1>4, <1>15
  <2>2. CASE j = k + 1
    BY <1>4, <1>6, <1>15, <2>1, <2>2
  <2>3. CASE j \in 1..k
    BY <1>4, <1>10, <1>15, <2>1, <2>3
  <2> QED
    BY <1>4, <2>2, <2>3
<1>16. ASSUME NEW m \in Shown'
       PROVE  \E j \in 1..Len(events') : IsFrame(j)' /\ events'[j].packet = m
  <2>1. CASE m = n
    BY <1>4, <1>5, <2>1
  <2>2. CASE m \in Shown
    BY <1>4, <1>11, <2>2
  <2> QED
    BY <1>3, <2>1, <2>2
<1>17. ASSUME NEW i \in 1..Len(events'), NEW j \in 1..Len(events'), i < j, ~IsFrame(j)'
       PROVE  hevc' /\ events'[i].kind = "error"
  <2>1. i \in 1..k /\ j \in 1..k
    BY <1>4, <1>5, <1>17
  <2> QED
    BY <1>4, <1>8, <1>17, <2>1
<1>18. ASSUME NEW j \in 1..Len(events'), IsFrame(j)'
       PROVE  \E i \in 1..Len(events') : i < j /\ IsHead(i)'
  <2>1. CASE j = k + 1
    BY <1>4, <1>7, <2>1
  <2>2. CASE j \in 1..k
    BY <1>4, <1>9, <1>18, <2>2
  <2> QED
    BY <1>4, <2>1, <2>2
<1>19. \E i \in 1..Len(events') : IsHead(i)'
  BY <1>4, <1>7
<1> QED
  BY <1>2, <1>13, <1>14, <1>15, <1>16, <1>17, <1>18, <1>19 DEF Emitted

LEMMA ScanTakeVideo ==
    ASSUME PsdTypes, PsdTypes', Scan, psParsing, NEW n \in 1..MaxPsPackets, Psd!Found(n),
           Psd!TakeVideo(n), UNCHANGED <<packets, hevc, psReceived>>
    PROVE  Scan'
<1>1. /\ packets[n].kind \in Psd!Sets \cup Psd!VideoFrames /\ Psd!WholePacket(n)
      /\ psCursor' = Psd!Start[n + 1]
      /\ UNCHANGED <<psFirst, psParsing>>
      /\ stored' = Psd!StoredWith(n)
  BY DEF Psd!TakeVideo
<1>2. seqEmitted' <=> seqEmitted \/ (Psd!HeaderDue(n) /\ (hevc => stored' = "params"))
  BY Zenon DEF Psd!TakeVideo
<1>3. Psd!Start[n] < psCursor' /\ psCursor' <= Psd!Start[n + 1]
  <2>1. /\ Psd!Start[n] \in Nat /\ Psd!Start[n + 1] \in Nat
        /\ Psd!Start[n] + StartCode < Psd!Start[n + 1]
    BY PsdOrder
  <2> QED
    BY <1>1, <2>1, PsdBounds
<1>4. psParsing'
  BY <1>1
<1>5. Psd!HeaderDue(n) => ~seqEmitted
  BY DEF Psd!HeaderDue
<1>6. Psd!Due(n) <=> packets[n].kind \in Psd!VideoFrames /\ seqEmitted
  BY <1>1, DueIsEmitted DEF Scan
<1>7. ~seqEmitted => /\ seqEmitted' <=> Psd!MakesHeader(n)
                     /\ Psd!HeaderDue(n) => stored' \in Psd!Sets
                     /\ stored' = "none" \/ Psd!MakesHeader(n) \/ (hevc /\ stored' = "badParams")
                     /\ Psd!MakesHeader(n) => Psd!HeaderDue(n) /\ (hevc => stored' = "params")
  BY <1>1, <1>2, HeaderMeans DEF Scan
<1>8. ASSUME \A m \in 1..MaxPsPackets : Passed(m)' <=> Passed(m) \/ m = n
      PROVE  Emitted'
  <2>1. CASE Psd!HeaderDue(n)
    <3> DEFINE kind == IF stored' = "params" THEN "header" ELSE "error"
    <3>1. events' = Append(events, [kind |-> kind, packet |-> n])
      BY <2>1 DEF Psd!TakeVideo
    <3>2. kind \in {"header", "error"}
      OBVIOUS
    <3>3. Psd!MakesHeader(n) => (hevc => kind = "header")
      BY <1>5, <1>7, <2>1
    <3>4. ~Psd!MakesHeader(n) => hevc /\ kind = "error"
      BY <1>5, <1>7, <2>1 DEF Psd!HeaderDue, Psd!Sets
    <3>5. ~seqEmitted /\ ~Psd!Due(n) /\ (seqEmitted' <=> Psd!MakesHeader(n))
      BY <1>5, <1>6, <1>7, <2>1
    <3> HIDE DEF kind
    <3> QED
      BY <1>8, <3>1, <3>2, <3>3, <3>4, <3>5, EmitHead DEF Scan
  <2>2. CASE ~Psd!HeaderDue(n) /\ seqEmitted /\ packets[n].kind \in Psd!VideoFrames
    <3>1. events' = Append(events, [kind |-> "frame", packet |-> n])
      BY <2>2 DEF Psd!TakeVideo
    <3>2. seqEmitted'
      BY <1>2, <2>2
    <3> QED
      BY <1>6, <1>8, <2>2, <3>1, <3>2, EmitFrame DEF Scan
  <2>3. CASE ~Psd!HeaderDue(n) /\ ~(seqEmitted /\ packets[n].kind \in Psd!VideoFrames)
    <3>1. events' = events
      BY <2>3 DEF Psd!TakeVideo
    <3>2. seqEmitted' <=> seqEmitted
      BY <1>2, <2>3
    <3>3. Psd!MakesHeader(n) => seqEmitted
      BY <1>7, <2>3
    <3> QED
      BY <1>6, <1>8, <2>3, <3>1, <3>2, <3>3, EmittedPast DEF Scan
  <2> QED
    BY <2>1, <2>2, <2>3
<1>9. ASSUME \A m \in 1..MaxPsPackets : Passed(m)' <=> Passed(m) \/ m = n
      PROVE  Reading'
  BY <1>9, ReadingVideo DEF Scan
<1> QED
  BY <1>1, <1>3, <1>4, <1>8, <1>9, ScanPast

\* A start code that is none passes no packet while what it makes up is short.
LEMMA ScanDecoy ==
    ASSUME PsdTypes, PsdTypes', Scan, psParsing, NEW n \in 1..MaxPsPackets,
           Psd!FoundDecoy(n), Psd!TakeDecoy(n), ~derailed',
           UNCHANGED <<packets, hevc, psReceived>>
    PROVE  Scan'
<1>1. /\ psCursor' = Psd!DecoyCode(n) + 1
      /\ UNCHANGED <<psFirst, psParsing, codec, stored, seqEmitted, events>>
      /\ psReceived \in Nat /\ psCursor \in Nat /\ psFirst \in Nat
  BY DEF Psd!TakeDecoy, PsdTypes
<1>2. Psd!Start' = Psd!Start
  BY PsdStaysPut
<1>3. /\ Psd!DecoyCode(n) >= psCursor /\ Psd!DecoyCode(n) + StartCode <= psReceived
      /\ ~(Psd!Start[n] >= psCursor /\ Psd!Start[n] + StartCode <= psReceived)
  BY DEF Psd!FoundDecoy, Psd!Decoys, Psd!Ahead
<1>4. /\ Psd!Start[n] \in Nat /\ Psd!Start[n + 1] \in Nat
      /\ Psd!Start[n] + StartCode < Psd!Start[n + 1]
  BY PsdOrder
<1>5. Psd!Start[n] < psCursor /\ psCursor < psCursor' /\ psCursor' <= Psd!Start[n + 1]
  BY <1>1, <1>3, <1>4, PsdBounds DEF Psd!DecoyCode
<1>6. ASSUME NEW m \in 1..MaxPsPackets
      PROVE  Passed(m)' <=> Passed(m)
  <2>1. /\ Psd!Start[m] \in Nat
        /\ Psd!Start[m] < Psd!Start[n] <=> m < n
        /\ n < m => Psd!Start[n + 1] <= Psd!Start[m]
    BY PsdOrder
  <2>2. m < n \/ m = n \/ n < m
    BY PsdBounds
  <2>3. Passed(m)' <=> Psd!Start[m] < psCursor'
    BY <1>2 DEF Passed
  <2>4. psCursor' \in Nat
    BY DEF PsdTypes
  <2> QED
    BY <1>1, <1>4, <1>5, <2>1, <2>2, <2>3, <2>4 DEF Passed
<1>7. \A m \in 1..MaxPsPackets :
          /\ Psd!Due(m)' <=> Psd!Due(m)
          /\ Psd!WholePacket(m)' <=> Psd!WholePacket(m)
          /\ Known(m)' <=> Known(m)
          /\ Psd!MakesHeader(m)' <=> Psd!MakesHeader(m)
  BY SameBytes
<1>8. Shown' = Shown
  BY <1>6, <1>7 DEF Shown
<1>9. HeaderPassed' <=> HeaderPassed
  BY <1>6, <1>7, Zenon DEF HeaderPassed
<1>10. Emitted'
  BY <1>1, <1>8, <1>9, EmittedKept DEF Scan
<1>11. Seen'
  BY <1>6, <1>7 DEF Scan, Seen
<1>12. Reading'
  BY <1>1, <1>6, ReadingKept DEF Scan
<1>13. psFirst' <= psCursor'
  <2>1. psFirst <= psCursor /\ psCursor' \in Nat
    BY DEF Scan, PsdTypes
  <2> QED
    BY <1>1, <1>5, <2>1
<1>14. psParsing'
  BY <1>1
<1> QED
  BY <1>10, <1>11, <1>12, <1>13, <1>14 DEF Scan

-----------------------------------------------------------------------------
FramesIn(ev) == {i \in DOMAIN ev : ev[i].kind = "frame"}
HeadsIn(ev) == {i \in DOMAIN ev : ev[i].kind # "frame" /\ ev[i].packet # 0}

\* What FramesOnce says of the events.
EventsRight(ev) ==
    /\ {ev[i].packet : i \in FramesIn(ev)} = {n \in 1..MaxPsPackets : Psd!Due(n)}
    /\ \A i, j \in FramesIn(ev) : i < j => ev[i].packet < ev[j].packet
    /\ \A j \in HeadsIn(ev) : \A i \in 1..(j - 1) : hevc /\ ev[i].kind = "error"
    /\ \A j \in FramesIn(ev) : \E i \in HeadsIn(ev) :
           i < j /\ (hevc => ev[i].kind = "header")

\* It holds with or without the error of a flush.
LEMMA EventsOfScan ==
    ASSUME PsdTypes, Scan, ~psParsing,
           NEW ev, ev = events \/ ev = Append(events, [kind |-> "error", packet |-> 0])
    PROVE  EventsRight(ev)
<1> DEFINE k == Len(events)
<1>1. events \in Seq(EventSet) /\ k \in Nat /\ Emitted /\ CaughtUp
  BY DEF PsdTypes, Scan
<1>2. /\ DOMAIN ev = 1..Len(ev) /\ Len(ev) \in Nat
      /\ Len(ev) = k \/ Len(ev) = k + 1
      /\ \A j \in 1..k : ev[j] = events[j]
      /\ Len(ev) = k + 1 => ev[k + 1].kind = "error" /\ ev[k + 1].packet = 0
  <2>1. CASE ev = events
    BY <1>1, <2>1
  <2>2. CASE ev = Append(events, [kind |-> "error", packet |-> 0])
    <3>1. /\ Len(ev) = Len(events) + 1
          /\ \A j \in 1..Len(events) : ev[j] = events[j]
          /\ ev[Len(events) + 1] = [kind |-> "error", packet |-> 0]
          /\ DOMAIN ev = 1..Len(ev)
      BY <1>1, <2>2
    <3> QED
      BY <1>1, <3>1
  <2> QED
    BY <2>1, <2>2
<1>3. \A j \in 1..k : events[j].packet # 0
  BY <1>1 DEF Emitted
<1>4. \A n \in 1..MaxPsPackets : Psd!Due(n) <=> n \in Shown
  BY <1>1 DEF CaughtUp, Shown, Psd!Due
<1>5. \A j \in 1..k : IsFrame(j) => events[j].packet \in Shown
  BY <1>1 DEF Emitted
<1>6. \A i, j \in 1..k : IsFrame(i) /\ IsFrame(j) /\ i < j => events[i].packet < events[j].packet
  BY <1>1 DEF Emitted
<1>7. \A n \in Shown : \E j \in 1..k : IsFrame(j) /\ events[j].packet = n
  BY <1>1 DEF Emitted
<1>8. \A i, j \in 1..k : i < j /\ ~IsFrame(j) => hevc /\ events[i].kind = "error"
  BY <1>1 DEF Emitted
<1>9. \A j \in 1..k : IsFrame(j) => \E i \in 1..k : i < j /\ IsHead(i)
  BY <1>1 DEF Emitted
<1>10. \A j \in 1..k : (IsFrame(j) <=> ev[j].kind = "frame")
                       /\ (IsHead(j) => ev[j].kind # "frame" /\ (hevc => ev[j].kind = "header"))
  BY <1>2 DEF IsFrame, IsHead
<1> HIDE DEF k
<1>11. /\ \A j \in DOMAIN ev : j \in 1..k \/ (j = k + 1 /\ Len(ev) = k + 1)
       /\ \A j \in 1..k : j \in DOMAIN ev
  <2> DEFINE l == Len(ev)
  <2>1. DOMAIN ev = 1..l /\ l \in Nat /\ (l = k \/ l = k + 1) /\ k \in Nat
    BY <1>1, <1>2
  <2> HIDE DEF l
  <2>2. /\ \A j \in DOMAIN ev : j \in 1..k \/ (j = k + 1 /\ l = k + 1)
        /\ \A j \in 1..k : j \in DOMAIN ev
    BY <2>1
  <2> QED
    BY <2>2 DEF l
<1>13. \A j : j \in FramesIn(ev) <=> j \in 1..k /\ IsFrame(j)
  BY <1>2, <1>10, <1>11 DEF FramesIn
<1>14. \A j : j \in HeadsIn(ev) <=> j \in 1..k /\ ~IsFrame(j)
  <2>1. ASSUME NEW j \in HeadsIn(ev)
        PROVE  j \in 1..k /\ ~IsFrame(j)
    <3>1. j \in DOMAIN ev /\ ev[j].kind # "frame" /\ ev[j].packet # 0
      BY DEF HeadsIn
    <3> QED
      BY <1>2, <1>10, <1>11, <3>1
  <2>2. ASSUME NEW j \in 1..k, ~IsFrame(j)
        PROVE  j \in HeadsIn(ev)
    BY <1>2, <1>3, <1>10, <1>11, <2>2 DEF HeadsIn
  <2> QED
    BY <2>1, <2>2
<1>15. {ev[i].packet : i \in FramesIn(ev)} = {n \in 1..MaxPsPackets : Psd!Due(n)}
  <2>1. ASSUME NEW i \in FramesIn(ev)
        PROVE  ev[i].packet \in {n \in 1..MaxPsPackets : Psd!Due(n)}
    <3>1. ev[i].packet \in Shown
      BY <1>2, <1>5, <1>13
    <3> QED
      BY <1>4, <3>1 DEF Shown
  <2>2. ASSUME NEW n \in 1..MaxPsPackets, Psd!Due(n)
        PROVE  \E i \in FramesIn(ev) : ev[i].packet = n
    BY <1>2, <1>4, <1>7, <1>13, <2>2
  <2> QED
    BY <2>1, <2>2
<1>16. \A i, j \in FramesIn(ev) : i < j => ev[i].packet < ev[j].packet
  BY <1>2, <1>6, <1>13
<1>17. ASSUME NEW j \in HeadsIn(ev), NEW i \in 1..(j - 1)
       PROVE  hevc /\ ev[i].kind = "error"
  <2>1. j \in 1..k /\ ~IsFrame(j)
    BY <1>14
  <2>2. i \in 1..k /\ i < j
    BY <1>1, <2>1
  <2> QED
    BY <1>2, <1>8, <2>1, <2>2
<1>18. ASSUME NEW j \in FramesIn(ev)
       PROVE  \E i \in HeadsIn(ev) : i < j /\ (hevc => ev[i].kind = "header")
  <2>1. PICK i \in 1..k : i < j /\ IsHead(i)
    BY <1>9, <1>13
  <2> QED
    BY <1>10, <1>14, <2>1
<1> QED
  BY <1>15, <1>16, <1>17, <1>18 DEF EventsRight

LEMMA FramesOfScan == PsdTypes /\ Scan /\ ~flushed => FramesOnce
<1> SUFFICES ASSUME PsdTypes, Scan, ~flushed, ~psParsing
             PROVE  FramesOnce
  BY DEF FramesOnce, Psd!FramesOnce
<1>1. EventsRight(events)
  BY EventsOfScan
<1>2. pending <=> \E n \in 1..MaxPsPackets :
          /\ ~flushed /\ packets[n].kind # "ignored"
          /\ Psd!Start[n] + StartCode <= psReceived /\ ~Psd!WholePacket(n)
  BY Zenon DEF Scan, CaughtUp, Known
<1> QED
  BY <1>1, <1>2, Zenon DEF FramesOnce, Psd!FramesOnce, EventsRight, FramesIn, HeadsIn

LEMMA FramesOfFlush ==
    ASSUME PsdTypes, Scan, Psd!Flush
    PROVE  FramesOnce'
<1>1. /\ ~psParsing /\ UNCHANGED <<packets, hevc, psReceived, psParsing, derailed>>
      /\ events' = events \/ events' = Append(events, [kind |-> "error", packet |-> 0])
  BY DEF Psd!Flush
<1>2. ~pending' /\ flushed'
  <2>1. pending' = FALSE /\ flushed' = TRUE
    BY DEF Psd!Flush
  <2> QED
    BY <2>1
<1>3. \A n \in 1..MaxPsPackets : Psd!Due(n)' <=> Psd!Due(n)
  BY <1>1, SameBytes
<1>4. EventsRight(events')
  BY <1>1, EventsOfScan
<1>5. {n \in 1..MaxPsPackets : Psd!Due(n)} = {n \in 1..MaxPsPackets : Psd!Due(n)'}
  BY <1>3
<1>6. /\ {events'[i].packet : i \in FramesIn(events')} = {n \in 1..MaxPsPackets : Psd!Due(n)'}
      /\ \A i, j \in FramesIn(events') : i < j => events'[i].packet < events'[j].packet
      /\ \A j \in HeadsIn(events') : \A i \in 1..(j - 1) : hevc' /\ events'[i].kind = "error"
      /\ \A j \in FramesIn(events') : \E i \in HeadsIn(events') :
             i < j /\ (hevc' => events'[i].kind = "header")
  BY <1>1, <1>4, <1>5 DEF EventsRight
<1>7. pending' <=> \E n \in 1..MaxPsPackets :
          /\ ~flushed' /\ packets'[n].kind # "ignored"
          /\ Psd!Start'[n] + StartCode <= psReceived' /\ ~Psd!WholePacket(n)'
  BY <1>2
<1> QED
  BY <1>6, <1>7, Zenon DEF FramesOnce, Psd!FramesOnce, FramesIn, HeadsIn

LEMMA PsdStep == PsdInv /\ [Psd!Next]_psdVars => PsdInv'
<1> SUFFICES ASSUME PsdInv, [Psd!Next]_psdVars
             PROVE  PsdInv'
  OBVIOUS
<1>1. PsdTypes /\ PsdTypes' /\ (flushed => ~psParsing)
  BY PsdTypesStep DEF PsdInv
<1>2. ASSUME NEW length \in 1..Psd!StreamEnd, Psd!Push(length)
      PROVE  PsdInv'
  <2>1. ~flushed /\ UNCHANGED <<flushed, derailed>>
    BY <1>2 DEF Psd!Push
  <2>2. ~derailed => Scan'
    BY <1>1, <1>2, <2>1, ScanPush DEF PsdInv
  <2> QED
    BY <1>1, <2>1, <2>2 DEF PsdInv
<1>3. ASSUME Psd!NothingFound
      PROVE  PsdInv'
  <2>1. psParsing /\ UNCHANGED <<flushed, derailed>>
    BY <1>3 DEF Psd!NothingFound
  <2>2. ~derailed => Scan'
    BY <1>1, <1>3, <2>1, ScanNothing DEF PsdInv
  <2> QED
    BY <1>1, <2>1, <2>2 DEF PsdInv
<1>4. ASSUME Psd!ParsePacket
      PROVE  PsdInv'
  <2>1. psParsing /\ UNCHANGED <<packets, hevc, psReceived, flushed>>
    BY <1>4 DEF Psd!ParsePacket
  <2>2. PICK n \in 1..MaxPsPackets :
            \/ /\ Psd!Found(n)
               /\ \/ Psd!Incomplete(n) \/ Psd!IncompleteIgnored(n) \/ Psd!Skip(n)
                  \/ Psd!TakeVideo(n) \/ Psd!Malformed(n)
            \/ Psd!FoundDecoy(n) /\ Psd!TakeDecoy(n)
    BY <1>4 DEF Psd!ParsePacket
  <2>7. CASE Psd!FoundDecoy(n) /\ Psd!TakeDecoy(n)
    <3>1. ~derailed' => ~derailed /\ psParsing'
      BY <2>1, <2>7 DEF Psd!TakeDecoy
    <3>2. psParsing' = psParsing
      BY <2>7 DEF Psd!TakeDecoy
    <3>3. ~derailed' => Scan'
      BY <1>1, <2>1, <2>7, <3>1, ScanDecoy DEF PsdInv
    <3> QED
      BY <1>1, <2>1, <3>1, <3>2, <3>3 DEF PsdInv
  <2> SUFFICES ASSUME Psd!Found(n),
                      \/ Psd!Incomplete(n) \/ Psd!IncompleteIgnored(n) \/ Psd!Skip(n)
                      \/ Psd!TakeVideo(n) \/ Psd!Malformed(n)
               PROVE  PsdInv'
    BY <2>2, <2>7
  <2>3. CASE Psd!Incomplete(n)
    <3>1. UNCHANGED derailed
      BY <2>3 DEF Psd!Incomplete
    <3>2. ~derailed => Scan'
      BY <1>1, <2>1, <2>2, <2>3, ScanIncomplete DEF PsdInv
    <3> QED
      BY <1>1, <2>1, <3>1, <3>2 DEF PsdInv
  <2>4. CASE Psd!IncompleteIgnored(n) \/ Psd!Skip(n)
    <3>1. UNCHANGED derailed
      BY <2>4 DEF Psd!IncompleteIgnored, Psd!Skip
    <3>2. ~derailed => Scan'
      BY <1>1, <2>1, <2>2, <2>4, ScanSkip DEF PsdInv
    <3> QED
      BY <1>1, <2>1, <3>1, <3>2 DEF PsdInv
  <2>5. CASE Psd!TakeVideo(n)
    <3>1. UNCHANGED derailed
      BY <2>5 DEF Psd!TakeVideo
    <3>2. ~derailed => Scan'
      BY <1>1, <2>1, <2>2, <2>5, ScanTakeVideo DEF PsdInv
    <3> QED
      BY <1>1, <2>1, <3>1, <3>2 DEF PsdInv
  <2>6. CASE Psd!Malformed(n)
    <3>1. derailed' = TRUE
      BY <2>6 DEF Psd!Malformed
    <3> QED
      BY <1>1, <2>1, <3>1 DEF PsdInv
  <2> QED
    BY <2>2, <2>3, <2>4, <2>5, <2>6
<1>5. ASSUME Psd!Flush
      PROVE  PsdInv'
  <2>1. ~psParsing /\ ~flushed /\ flushed' = TRUE /\ UNCHANGED <<derailed, psParsing>>
    BY <1>5 DEF Psd!Flush
  <2>2. ~derailed => FramesOnce'
    BY <1>1, <1>5, <2>1, FramesOfFlush DEF PsdInv
  <2> QED
    BY <1>1, <2>1, <2>2 DEF PsdInv
<1>6. ASSUME Psd!Close
      PROVE  PsdInv'
  <2>1. /\ psReceived' = 0 /\ psFirst' = 0 /\ psCursor' = 0 /\ events' = <<>>
        /\ pending' = FALSE /\ psParsing' = FALSE /\ seqEmitted' = FALSE /\ flushed' = FALSE
        /\ codec' = "none" /\ stored' = "none" /\ UNCHANGED <<packets, hevc>>
    BY <1>6 DEF Psd!Close
  <2>2. Psd!Start' = Psd!Start
    BY <2>1, PsdStaysPut
  <2>3. \A n \in 1..MaxPsPackets : ~Passed(n)' /\ ~Known(n)' /\ ~Psd!WholePacket(n)'
    <3> SUFFICES ASSUME NEW n \in 1..MaxPsPackets
                 PROVE  ~Passed(n)' /\ ~Known(n)' /\ ~Psd!WholePacket(n)'
      OBVIOUS
    <3>1. /\ Psd!Start[n] \in Nat /\ Psd!Start[n + 1] \in Nat
          /\ Psd!Start[n] + StartCode < Psd!Start[n + 1]
      BY <1>1, PsdOrder
    <3> QED
      BY <2>1, <2>2, <3>1, PsdBounds DEF Passed, Known, Psd!WholePacket
  <2>4. Seen' /\ CaughtUp'
    BY <2>1, <2>3 DEF Seen, CaughtUp
  <2>5. Shown' = {} /\ ~HeaderPassed' /\ Reading'
    BY <2>1, <2>3 DEF Shown, HeaderPassed, Reading
  <2>6. Len(events') = 0
    BY <2>1
  <2>7. Emitted'
    BY <2>1, <2>5, <2>6 DEF Emitted
  <2>8. Scan'
    BY <2>1, <2>4, <2>5, <2>7 DEF Scan
  <2> QED
    BY <1>1, <2>1, <2>8 DEF PsdInv
<1>7. CASE UNCHANGED psdVars
  <2>1. /\ UNCHANGED <<packets, hevc, psReceived, psFirst, psCursor, pending, psParsing>>
        /\ UNCHANGED <<codec, stored, seqEmitted, events, derailed, flushed>>
    BY <1>7 DEF psdVars
  <2>2. Psd!Start' = Psd!Start
    BY <2>1, PsdStaysPut
  <2>3. Scan => Scan'
    <3> SUFFICES ASSUME Scan
                 PROVE  Scan'
      OBVIOUS
    <3>1. \A m \in 1..MaxPsPackets :
              /\ Psd!Due(m)' <=> Psd!Due(m)
              /\ Psd!WholePacket(m)' <=> Psd!WholePacket(m)
              /\ Known(m)' <=> Known(m)
              /\ Psd!MakesHeader(m)' <=> Psd!MakesHeader(m)
      BY <2>1, SameBytes
    <3>2. \A m \in 1..MaxPsPackets : Passed(m)' <=> Passed(m)
      BY <2>1, <2>2 DEF Passed
    <3>3. Shown' = Shown /\ (HeaderPassed' <=> HeaderPassed)
      BY <3>1, <3>2, Zenon DEF Shown, HeaderPassed
    <3>4. Emitted' /\ Reading'
      BY <2>1, <3>2, <3>3, EmittedKept, ReadingKept DEF Scan
    <3>5. Seen' /\ (psParsing' <=> psParsing) /\ (CaughtUp => CaughtUp')
      BY <2>1, <3>1, <3>2 DEF Scan, Seen, CaughtUp
    <3> QED
      BY <2>1, <3>4, <3>5 DEF Scan
  <2>4. FramesOnce => FramesOnce'
    <3>1. \A m : Psd!MakesHeader(m)' <=> Psd!MakesHeader(m)
      BY <2>1 DEF Psd!MakesHeader
    <3>2. \A m : Psd!Due(m)' <=> Psd!Due(m)
      BY <2>1, <2>2, <3>1 DEF Psd!Due, Psd!WholePacket
    <3> QED
      BY <2>1, <2>2, <3>2 DEF FramesOnce, Psd!FramesOnce, Psd!WholePacket
  <2> QED
    BY <1>1, <2>1, <2>3, <2>4 DEF PsdInv
<1> QED
  BY <1>2, <1>3, <1>4, <1>5, <1>6, <1>7 DEF Psd!Next

\* However the stream is cut, every frame is emitted once, in order, behind one
\* header or its error, by the time its last byte is parsed: PsDemuxer.parse(), with
\* retainTail(3), retainFrom() and resyncPast().
THEOREM EachFrameEmittedOnce == Psd!Spec => []FramesOnce
<1>1. PsdInv => FramesOnce
  <2> SUFFICES ASSUME PsdInv
               PROVE  FramesOnce
    OBVIOUS
  <2>1. CASE derailed
    BY <2>1 DEF FramesOnce, Psd!FramesOnce
  <2>2. CASE ~derailed
    BY <2>2, FramesOfScan DEF PsdInv
  <2> QED
    BY <2>1, <2>2
<1>2. PsdInv /\ [Psd!Next]_(Psd!vars) => PsdInv'
  BY PsdStep DEF Psd!vars, psdVars
<1> QED
  BY <1>1, <1>2, PsdInit, PTL DEF Psd!Spec

-----------------------------------------------------------------------------
(* TsDemuxer.                                                                *)

\* What is a multiple of m and a little more has that for its remainder.
LEMMA RemainderIs ==
    ASSUME NEW a \in Int, NEW m \in Nat \ {0}, NEW q \in Int, NEW r \in 0..(m - 1),
           a = m * q + r
    PROVE  a % m = r
<1> DEFINE k == q - (a \div m)
<1>1. /\ a % m \in 0..(m - 1) /\ a \div m \in Int
      /\ a = m * (a \div m) + (a % m)
  BY DivMod
<1>2. k \in Int /\ m * k = m * q - m * (a \div m)
  BY <1>1, SMTT(30)
<1>3. (a % m) - r = m * k
  <2> DEFINE mk == m * k
             mq == m * q
             md == m * (a \div m)
             b == a % m
  <2>1. mk = mq - md /\ mq \in Int /\ md \in Int /\ a = mq + r /\ a = md + b /\ b \in Int
    BY <1>1, <1>2
  <2> HIDE DEF k, mk, mq, md, b
  <2>2. b - r = mk
    BY <2>1
  <2> QED
    BY <2>2 DEF b, mk
<1>4. m * k \in Int /\ -m < m * k /\ m * k < m
  <2> HIDE DEF k
  <2>1. m * k \in Int
    BY <1>2
  <2> QED
    BY <1>1, <1>3, <2>1
<1>5. -3 * m < 2 * (m * k) /\ 2 * (m * k) < 3 * m
  <2> HIDE DEF k
  <2> QED
    BY <1>4
<1>6. k \in {-1, 0, 1}
  BY <1>2, <1>5, SmallMultiple
<1>7. m * k = 0
  BY <1>4, <1>6
<1> QED
  BY <1>1, <1>3, <1>7

\* What trackContinuity() takes for the distance of a packet is one more than the
\* packets lost, but for the multiples of the modulus.
LEMMA CounterMoves ==
    ASSUME NEW s \in Nat \ {0}, NEW m \in Nat \ {0}, NEW lost \in Nat
    PROVE  (s + lost + m - ((s - 1) % m)) % m = (lost + 1) % m
<1> DEFINE a == s + lost + m - ((s - 1) % m)
           b == s - 1
           e == lost + 1
           x == m * (b \div m)
           y == m * (e \div m)
           q == (b \div m) + 1 + (e \div m)
<1>1. b % m \in 0..(m - 1) /\ b \div m \in Int /\ b = m * (b \div m) + (b % m)
  <2>1. b \in Int
    OBVIOUS
  <2> HIDE DEF b
  <2> QED
    BY <2>1, DivMod
<1>2. e % m \in 0..(m - 1) /\ e \div m \in Int /\ e = m * (e \div m) + (e % m)
  <2>1. e \in Int
    OBVIOUS
  <2> HIDE DEF e
  <2> QED
    BY <2>1, DivMod
<1>3. q \in Int /\ m * q = x + m + y
  <2> DEFINE c == b \div m
             d == e \div m
  <2>1. c \in Int /\ d \in Int
    BY <1>1, <1>2
  <2> HIDE DEF c, d
  <2>2. c + 1 + d \in Int /\ m * (c + 1 + d) = m * c + m + m * d
    BY <2>1, SMTT(30)
  <2> QED
    BY <2>2 DEF c, d
<1>4. x \in Int /\ y \in Int
  BY <1>1, <1>2
<1>5. a \in Int /\ a = (x + m + y) + (e % m)
  <2>1. b % m \in Int /\ e % m \in Int /\ b = x + (b % m) /\ e = y + (e % m)
    BY <1>1, <1>2
  <2>2. b \in Int /\ e \in Int /\ a = b + m - (b % m) + e
    BY <2>1
  <2> HIDE DEF a, b, e, x, y
  <2> QED
    BY <1>4, <2>1, <2>2
<1>6. a = m * q + (e % m)
  BY <1>3, <1>5, Zenon
<1> HIDE DEF q
<1> QED
  BY <1>2, <1>3, <1>5, <1>6, RemainderIs

\* The first multiple behind a multiple of m comes m later.
LEMMA NextMultiple ==
    ASSUME NEW a \in Nat, NEW n \in Nat, NEW m \in Nat \ {0}, a < n, a % m = 0, n % m = 0,
           \A j \in Nat : a < j /\ j < n => j % m # 0
    PROVE  n = a + m
<1> DEFINE q == a \div m
           k == (n \div m) - (a \div m)
<1>1. q \in Int /\ a = m * q /\ m * q \in Int
  <2>1. q \in Int /\ a = m * q + 0
    BY DivMod
  <2> QED
    BY <2>1
<1>2. n \div m \in Int /\ n = m * (n \div m)
  <2>1. n \div m \in Int /\ n = m * (n \div m) + 0
    BY DivMod
  <2> QED
    BY <2>1
<1>3. ~(a + m < n)
  <2>1. q + 1 \in Int /\ m * (q + 1) = m * q + m
    BY <1>1, SMTT(30)
  <2>2. a + m = m * (q + 1) + 0 /\ a + m \in Int /\ 0 \in 0..(m - 1)
    BY <1>1, <2>1
  <2> HIDE DEF q
  <2>3. (a + m) % m = 0
    BY <2>1, <2>2, RemainderIs
  <2> QED
    BY <2>3
<1>4. k \in Int /\ m * k = n - a
  <2>1. k \in Int /\ m * k = m * (n \div m) - m * q
    BY <1>1, <1>2, SMTT(30)
  <2> QED
    BY <1>1, <1>2, <2>1
<1> HIDE DEF k, q
<1>5. k >= 1
  <2>1. CASE k <= 0
    BY <1>4, <2>1, m * k <= m * 0, SMTT(30)
  <2> QED
    BY <1>4, <2>1
<1>6. n - a >= m
  BY <1>4, <1>5, m * k >= m * 1, SMTT(30)
<1> QED
  BY <1>3, <1>6

-----------------------------------------------------------------------------
LEMMA TsBounds == FrameSize \in Nat \ {0} /\ CounterModulus \in Nat \ {0}
BY StreamsAssumption DEF StreamsAssumption

TsFrame == [packets : Seq(Nat), flushed : BOOLEAN]

TsTypes ==
    /\ muxed \in [Pids -> Nat]
    /\ pesBuffers \in [Pids -> Seq(Nat)]
    /\ continuity \in [Pids -> Nat]
    /\ frames \in [Pids -> Seq(TsFrame)]

\* Packets that follow each other in one frame, but for those that came twice.
InOnePiece(b) ==
    \A k \in 2..Len(b) : \/ b[k] = b[k - 1] + 1 /\ ~Ts!UnitStart(b[k])
                         \/ b[k] = b[k - 1] /\ repeated

\* None missing and none twice.
Counted(b) == \A k \in 1..Len(b) : b[k] = b[1] + (k - 1)

\* The buffer of a stream ends with the last packet sent, whose counter is known.
Buffered(p) ==
    pesBuffers[p] # <<>> =>
        /\ known
        /\ pesBuffers[p][Len(pesBuffers[p])] + 1 = muxed[p]
        /\ continuity[p] = (muxed[p] - 1) % CounterModulus
        /\ InOnePiece(pesBuffers[p])
        /\ ~repeated => Counted(pesBuffers[p])

FrameRight(p, i) ==
    /\ frames[p][i].packets # <<>>
    /\ Ts!UnitStart(frames[p][i].packets[1])
    /\ InOnePiece(frames[p][i].packets)
    /\ \/ Len(frames[p][i].packets) = FrameSize
       \/ frames[p][i].flushed \/ repeated
       \/ tsFailed /\ i = Len(frames[p])

FramesRight(p) == \A i \in 1..Len(frames[p]) : FrameRight(p, i)

\* The first packet of a frame.
FirstOf(p, i) == frames[p][i].packets[1]

FramesInOrder(p) ==
    ~repeated =>
        /\ \A i, j \in 1..Len(frames[p]) : i < j => FirstOf(p, i) < FirstOf(p, j)
        /\ ~tsFailed => \A i \in 1..Len(frames[p]) :
               /\ FirstOf(p, i) < muxed[p]
               /\ pesBuffers[p] # <<>> => FirstOf(p, i) < pesBuffers[p][1]

StreamRight(p) ==
    /\ FramesRight(p)
    /\ FramesInOrder(p)
    /\ ~tsFailed => Buffered(p)

TsInv == TsTypes /\ (~masked => \A p \in Pids : StreamRight(p))

\* A stream that a step leaves alone.
LEMMA TsKept ==
    ASSUME NEW p \in Pids, StreamRight(p), frames'[p] = frames[p],
           ~tsFailed' => /\ muxed'[p] = muxed[p]
                         /\ pesBuffers'[p] = pesBuffers[p]
                         /\ continuity'[p] = continuity[p],
           repeated => repeated', tsFailed => tsFailed', known => known'
    PROVE  StreamRight(p)'
<1>1. FramesRight(p)'
  BY DEF StreamRight, FramesRight, FrameRight, InOnePiece, Ts!UnitStart
<1>2. FramesInOrder(p)'
  BY DEF StreamRight, FramesInOrder, FirstOf
<1>3. ~tsFailed' => Buffered(p)'
  BY DEF StreamRight, Buffered, InOnePiece, Counted, Ts!UnitStart
<1> QED
  BY <1>1, <1>2, <1>3 DEF StreamRight

\* A buffer without repeated packets begins before the next one is sent, and is
\* a whole frame when that begins one.
LEMMA BufferCounts ==
    ASSUME TsTypes, NEW p \in Pids, Buffered(p), ~repeated, pesBuffers[p] # <<>>
    PROVE  /\ pesBuffers[p][1] \in Nat
           /\ muxed[p] = pesBuffers[p][1] + Len(pesBuffers[p])
           /\ pesBuffers[p][1] < muxed[p]
<1> DEFINE b == pesBuffers[p]
           m == Len(b)
           s == muxed[p]
<1>1. b \in Seq(Nat) /\ s \in Nat /\ b # <<>>
  BY DEF TsTypes
<1>2. m \in Nat /\ m > 0 /\ 1 \in 1..m /\ m \in 1..m /\ b[1] \in Nat
  BY <1>1
<1>3. b[m] + 1 = s /\ b[m] = b[1] + (m - 1)
  BY <1>2 DEF Buffered, Counted
<1> HIDE DEF b, m, s
<1>4. s = b[1] + m /\ b[1] < s
  BY <1>1, <1>2, <1>3
<1> QED
  BY <1>2, <1>4 DEF b, m, s

LEMMA BufferIsFrame ==
    ASSUME TsTypes, NEW p \in Pids, Buffered(p), ~repeated, pesBuffers[p] # <<>>,
           Ts!UnitStart(pesBuffers[p][1]), Ts!UnitStart(muxed[p])
    PROVE  Len(pesBuffers[p]) = FrameSize
<1> DEFINE b == pesBuffers[p]
           m == Len(b)
           s == muxed[p]
           from == b[1]
<1>1. from \in Nat /\ s = from + m /\ from < s /\ s \in Nat /\ m \in Nat
  BY BufferCounts DEF TsTypes
<1>2. from % FrameSize = 0 /\ s % FrameSize = 0
  BY DEF Ts!UnitStart
<1>3. ASSUME NEW j \in Nat, from < j, j < s
      PROVE  j % FrameSize # 0
  <2> DEFINE k == (j - from) + 1
  <2>1. k \in 2..m /\ k \in 1..m /\ j = from + (k - 1)
    <3> HIDE DEF from, m, s
    <3> QED
      BY <1>1, <1>3
  <2>2. b[k] = j
    BY <2>1, Zenon DEF Buffered, Counted
  <2>3. ~Ts!UnitStart(b[k])
    BY <2>1 DEF Buffered, InOnePiece
  <2> QED
    BY <2>2, <2>3 DEF Ts!UnitStart
<1> HIDE DEF from, m, s
<1>4. s = from + FrameSize
  <2>1. \A j \in Nat : from < j /\ j < s => j % FrameSize # 0
    BY <1>3
  <2>2. from \in Nat /\ s \in Nat /\ from < s
    BY <1>1
  <2> QED
    BY <1>2, <2>1, <2>2, TsBounds, NextMultiple, Zenon
<1>5. m = FrameSize
  BY <1>1, <1>4, TsBounds
<1> QED
  BY <1>5 DEF m

\* What finalizePes() adds.
LEMMA FinalizedIs ==
    ASSUME TsTypes, NEW p \in Pids, NEW fl \in BOOLEAN,
           frames'[p] = frames[p] \o Ts!Finalized(p, fl)
    PROVE  \/ frames'[p] = frames[p]
           \/ /\ pesBuffers[p] # <<>> /\ Ts!UnitStart(pesBuffers[p][1])
              /\ frames'[p] \in Seq(TsFrame)
              /\ Len(frames'[p]) = Len(frames[p]) + 1
              /\ \A i \in 1..Len(frames[p]) : frames'[p][i] = frames[p][i]
              /\ frames'[p][Len(frames[p]) + 1] = [packets |-> pesBuffers[p], flushed |-> fl]
<1> DEFINE f == frames[p]
           e == [packets |-> pesBuffers[p], flushed |-> fl]
<1>1. f \in Seq(TsFrame) /\ e \in TsFrame
  BY DEF TsTypes, TsFrame
<1>2. CASE pesBuffers[p] # <<>> /\ Ts!UnitStart(pesBuffers[p][1])
  <2>1. Ts!Finalized(p, fl) = <<e>>
    BY <1>2 DEF Ts!Finalized
  <2>2. frames'[p] = f \o <<e>>
    BY <2>1
  <2> HIDE DEF f, e
  <2>3. /\ f \o <<e>> \in Seq(TsFrame)
        /\ Len(f \o <<e>>) = Len(f) + 1
        /\ \A i \in 1..Len(f) : (f \o <<e>>)[i] = f[i]
        /\ (f \o <<e>>)[Len(f) + 1] = e
    BY <1>1
  <2> QED
    BY <1>2, <2>2, <2>3 DEF f, e
<1>3. CASE ~(pesBuffers[p] # <<>> /\ Ts!UnitStart(pesBuffers[p][1]))
  <2>1. Ts!Finalized(p, fl) = <<>>
    BY <1>3 DEF Ts!Finalized
  <2> QED
    BY <1>1, <2>1
<1> QED
  BY <1>2, <1>3

LEMMA FramesAppended ==
    ASSUME TsTypes, NEW p \in Pids, NEW fl \in BOOLEAN, ~tsFailed, FramesRight(p), Buffered(p),
           frames'[p] = frames[p] \o Ts!Finalized(p, fl), repeated => repeated',
           pesBuffers[p] # <<>> /\ Ts!UnitStart(pesBuffers[p][1]) =>
               fl \/ repeated' \/ tsFailed' \/ Len(pesBuffers[p]) = FrameSize
    PROVE  FramesRight(p)'
<1>1. Len(frames[p]) \in Nat
  BY DEF TsTypes
<1>2. ASSUME NEW i \in 1..Len(frames[p]), frames'[p][i] = frames[p][i]
      PROVE  FrameRight(p, i)'
  <2>1. FrameRight(p, i)
    BY DEF FramesRight
  <2> QED
    BY <1>2, <2>1 DEF FrameRight, InOnePiece, Ts!UnitStart
<1>3. CASE frames'[p] = frames[p]
  BY <1>2, <1>3 DEF FramesRight
<1>4. CASE frames'[p] # frames[p]
  <2> PICK top \in Nat : top = Len(frames[p]) + 1
    BY <1>1
  <2>1. /\ pesBuffers[p] # <<>> /\ Ts!UnitStart(pesBuffers[p][1])
        /\ Len(frames'[p]) = top
        /\ \A i \in 1..Len(frames[p]) : frames'[p][i] = frames[p][i]
        /\ frames'[p][top] = [packets |-> pesBuffers[p], flushed |-> fl]
    BY <1>4, FinalizedIs
  <2>2. FrameRight(p, top)'
    <3>1. InOnePiece(pesBuffers[p])
      BY <2>1 DEF Buffered
    <3>2. fl \/ repeated' \/ tsFailed' \/ Len(pesBuffers[p]) = FrameSize
      BY <2>1
    <3>3. /\ frames'[p][top].packets = pesBuffers[p]
          /\ frames'[p][top].flushed = fl
      BY <2>1
    <3> QED
      BY <2>1, <3>1, <3>2, <3>3 DEF FrameRight, InOnePiece, Ts!UnitStart
  <2>3. \A i \in 1..Len(frames'[p]) : i \in 1..Len(frames[p]) \/ i = top
    BY <1>1, <2>1
  <2> QED
    BY <1>2, <2>1, <2>2, <2>3, Zenon DEF FramesRight
<1> QED
  BY <1>3, <1>4

LEMMA OrderAppended ==
    ASSUME TsTypes, TsTypes', NEW p \in Pids, NEW fl \in BOOLEAN, ~tsFailed, ~repeated,
           FramesRight(p), FramesInOrder(p), Buffered(p),
           frames'[p] = frames[p] \o Ts!Finalized(p, fl),
           muxed[p] <= muxed'[p],
           pesBuffers'[p] # <<>> => muxed[p] <= pesBuffers'[p][1]
    PROVE  FramesInOrder(p)'
<1>1. /\ Len(frames[p]) \in Nat /\ muxed[p] \in Nat /\ muxed'[p] \in Nat
      /\ pesBuffers'[p] # <<>> => pesBuffers'[p][1] \in Nat
  BY DEF TsTypes
<1>2. ASSUME NEW i \in 1..Len(frames[p])
      PROVE  /\ FirstOf(p, i) \in Nat /\ FirstOf(p, i) < muxed[p]
             /\ pesBuffers[p] # <<>> => FirstOf(p, i) < pesBuffers[p][1]
  <2>1. frames[p][i] \in TsFrame
    BY Member DEF TsTypes
  <2>2. frames[p][i].packets \in Seq(Nat) /\ frames[p][i].packets # <<>>
    BY <2>1 DEF FramesRight, FrameRight, TsFrame
  <2>3. FirstOf(p, i) \in Nat
    <3> PICK b \in Seq(Nat) : b = frames[p][i].packets
      BY <2>2
    <3>1. b # <<>> => b[1] \in Nat
      OBVIOUS
    <3> QED
      BY <2>2, <3>1 DEF FirstOf
  <2> QED
    BY <2>3 DEF FramesInOrder
<1>3. \A i \in 1..Len(frames[p]) : frames'[p][i] = frames[p][i] => FirstOf(p, i)' = FirstOf(p, i)
  BY DEF FirstOf
<1>4. CASE frames'[p] = frames[p]
  <2>1. \A i \in 1..Len(frames[p]) : FirstOf(p, i)' = FirstOf(p, i)
    BY <1>3, <1>4
  <2>2. \A i \in 1..Len(frames[p]) :
            /\ FirstOf(p, i) < muxed'[p]
            /\ pesBuffers'[p] # <<>> => FirstOf(p, i) < pesBuffers'[p][1]
    BY <1>1, <1>2
  <2> QED
    BY <1>4, <2>1, <2>2 DEF FramesInOrder
<1>5. CASE frames'[p] # frames[p]
  <2> PICK top \in Nat : top = Len(frames[p]) + 1
    BY <1>1
  <2>1. /\ pesBuffers[p] # <<>>
        /\ Len(frames'[p]) = top
        /\ \A i \in 1..Len(frames[p]) : frames'[p][i] = frames[p][i]
        /\ frames'[p][top] = [packets |-> pesBuffers[p], flushed |-> fl]
    BY <1>5, FinalizedIs
  <2>2. FirstOf(p, top)' = pesBuffers[p][1]
    <3>1. frames'[p][top].packets = pesBuffers[p]
      BY <2>1
    <3> QED
      BY <3>1, Zenon DEF FirstOf
  <2>3. pesBuffers[p][1] \in Nat /\ pesBuffers[p][1] < muxed[p]
    BY <2>1, BufferCounts
  <2>4. \A i \in 1..Len(frames[p]) :
            FirstOf(p, i)' = FirstOf(p, i) /\ FirstOf(p, i) < pesBuffers[p][1]
    BY <1>2, <1>3, <2>1
  <2>5. \A i \in 1..top : i \in 1..Len(frames[p]) \/ i = top
    BY <1>1
  <2>6. \A i \in 1..top :
            /\ FirstOf(p, i)' \in Nat /\ FirstOf(p, i)' < muxed[p]
            /\ i < top => i \in 1..Len(frames[p])
    BY <1>1, <1>2, <2>2, <2>3, <2>4, <2>5
  <2>7. ASSUME NEW i \in 1..top, NEW j \in 1..top, i < j
        PROVE  FirstOf(p, i)' < FirstOf(p, j)'
    <3>1. i \in 1..Len(frames[p])
      BY <1>1, <2>7
    <3>2. CASE j = top
      BY <2>2, <2>4, <3>1, <3>2
    <3>3. CASE j \in 1..Len(frames[p])
      BY <2>4, <2>7, <3>1, <3>3 DEF FramesInOrder
    <3> QED
      BY <2>5, <3>2, <3>3
  <2>8. \A i \in 1..top :
            /\ FirstOf(p, i)' < muxed'[p]
            /\ pesBuffers'[p] # <<>> => FirstOf(p, i)' < pesBuffers'[p][1]
    BY <1>1, <2>6
  <2> QED
    BY <2>1, <2>7, <2>8 DEF FramesInOrder
<1> QED
  BY <1>4, <1>5

\* A step that emits no frame.
LEMMA NoFrameAdded ==
    ASSUME TsTypes, TsTypes', NEW p \in Pids, ~tsFailed, StreamRight(p),
           frames'[p] = frames[p], repeated => repeated', muxed[p] <= muxed'[p],
           pesBuffers'[p] # <<>> =>
               \/ pesBuffers[p] # <<>> /\ pesBuffers'[p][1] = pesBuffers[p][1]
               \/ muxed[p] <= pesBuffers'[p][1]
    PROVE  FramesRight(p)' /\ FramesInOrder(p)'
<1>1. FramesRight(p)'
  BY DEF StreamRight, FramesRight, FrameRight, InOnePiece, Ts!UnitStart
<1>2. ASSUME ~repeated'
      PROVE  FramesInOrder(p)'
  <2>1. ~repeated
    BY <1>2
  <2>2. \A i \in 1..Len(frames[p]) : FirstOf(p, i)' = FirstOf(p, i)
    BY DEF FirstOf
  <2>3. /\ muxed[p] \in Nat /\ muxed'[p] \in Nat
        /\ pesBuffers'[p] # <<>> => pesBuffers'[p][1] \in Nat
    BY DEF TsTypes
  <2>4. ASSUME NEW i \in 1..Len(frames[p])
        PROVE  FirstOf(p, i) < muxed'[p]
               /\ (pesBuffers'[p] # <<>> => FirstOf(p, i) < pesBuffers'[p][1])
    <3>1. frames[p][i] \in TsFrame
      BY Member DEF TsTypes
    <3>2. frames[p][i].packets \in Seq(Nat) /\ frames[p][i].packets # <<>>
      BY <3>1 DEF StreamRight, FramesRight, FrameRight, TsFrame
    <3>3. FirstOf(p, i) \in Nat
      BY <3>2 DEF FirstOf
    <3>4. FirstOf(p, i) < muxed[p] /\ (pesBuffers[p] # <<>> => FirstOf(p, i) < pesBuffers[p][1])
      BY <2>1 DEF StreamRight, FramesInOrder
    <3> QED
      BY <2>3, <3>3, <3>4
  <2>5. \A i, j \in 1..Len(frames[p]) : i < j => FirstOf(p, i) < FirstOf(p, j)
    BY <2>1 DEF StreamRight, FramesInOrder
  <2> QED
    BY <2>2, <2>4, <2>5 DEF FramesInOrder
<1> QED
  BY <1>1, <1>2 DEF FramesInOrder

\* A buffer that starts with the packet that arrives.
LEMMA BufferStarts ==
    ASSUME NEW p \in Pids, NEW n \in Nat, pesBuffers'[p] = <<n>>, known',
           muxed'[p] = n + 1, continuity'[p] = n % CounterModulus
    PROVE  Buffered(p)'
<1>1. Len(pesBuffers'[p]) = 1 /\ pesBuffers'[p][1] = n
  OBVIOUS
<1>2. (n + 1) - 1 = n /\ n = n + (1 - 1)
  OBVIOUS
<1>3. \A k \in 1..1 : k = 1
  OBVIOUS
<1>4. \A k \in 2..1 : FALSE
  OBVIOUS
<1>5. InOnePiece(pesBuffers[p])'
  BY <1>1, <1>4 DEF InOnePiece
<1>6. Counted(pesBuffers[p])'
  BY <1>1, <1>2, <1>3 DEF Counted
<1> QED
  BY <1>1, <1>2, <1>5, <1>6 DEF Buffered

\* A buffer that goes on with the packet behind its last one, or that again.
LEMMA BufferGoesOn ==
    ASSUME TsTypes, NEW p \in Pids, NEW n \in Nat, pesBuffers[p] # <<>>, Buffered(p),
           pesBuffers'[p] = Append(pesBuffers[p], n), known', repeated => repeated',
           muxed'[p] = n + 1, continuity'[p] = n % CounterModulus,
           \/ n = muxed[p] /\ ~Ts!UnitStart(n)
           \/ n = muxed[p] - 1 /\ repeated'
    PROVE  Buffered(p)'
<1> PICK b \in Seq(Nat) : b = pesBuffers[p]
  BY DEF TsTypes
<1>0. Append(b, n) \in Seq(Nat)
  OBVIOUS
<1> PICK c \in Seq(Nat) : c = Append(b, n)
  BY <1>0
<1>1. c = pesBuffers'[p]
  OBVIOUS
<1> PICK m \in Nat : m = Len(b)
  OBVIOUS
<1>2. /\ m > 0 /\ Len(c) = m + 1 /\ c[m + 1] = n
      /\ \A k \in 1..m : c[k] = b[k]
      /\ m \in 1..m /\ 1 \in 1..m /\ b[m] \in Nat /\ b[1] \in Nat
  OBVIOUS
<1>2a. b[m] + 1 = muxed[p] /\ muxed[p] \in Nat /\ b[m] \in Nat
  BY <1>2 DEF Buffered, TsTypes
<1>3. /\ \A k \in 2..m : \/ b[k] = b[k - 1] + 1 /\ ~Ts!UnitStart(b[k])
                         \/ b[k] = b[k - 1] /\ repeated
      /\ ~repeated => \A k \in 1..m : b[k] = b[1] + (k - 1)
  BY DEF Buffered, InOnePiece, Counted, TsTypes
<1>4. \/ n = b[m] + 1 /\ ~Ts!UnitStart(n)
      \/ n = b[m] /\ repeated'
  <2>1. CASE n = muxed[p] /\ ~Ts!UnitStart(n)
    BY <1>2a, <2>1
  <2>2. CASE n = muxed[p] - 1 /\ repeated'
    BY <1>2a, <2>2
  <2> QED
    BY <2>1, <2>2
<1>5. ASSUME NEW k \in 2..(m + 1)
      PROVE  \/ c[k] = c[k - 1] + 1 /\ ~Ts!UnitStart(c[k])
             \/ c[k] = c[k - 1] /\ repeated'
  <2>1. CASE k = m + 1
    <3>1. k - 1 = m /\ c[k] = n /\ c[k - 1] = b[m]
      BY <1>2, <2>1
    <3> QED
      BY <1>4, <3>1
  <2>2. CASE k # m + 1
    <3>1. k \in 2..m /\ k \in 1..m /\ k - 1 \in 1..m
      BY <2>2
    <3>2. c[k] = b[k] /\ c[k - 1] = b[k - 1]
      BY <1>2, <3>1
    <3> QED
      BY <1>3, <3>1, <3>2
  <2> QED
    BY <2>1, <2>2
<1>6. InOnePiece(pesBuffers[p])'
  BY <1>1, <1>2, <1>5 DEF InOnePiece, Ts!UnitStart
<1>7. ASSUME ~repeated'
      PROVE  \A k \in 1..(m + 1) : c[k] = c[1] + (k - 1)
  <2> SUFFICES ASSUME NEW k \in 1..(m + 1)
               PROVE  c[k] = c[1] + (k - 1)
    OBVIOUS
  <2>1. c[1] = b[1] /\ b[m] = b[1] + (m - 1) /\ n = b[m] + 1
    BY <1>2, <1>3, <1>4, <1>7
  <2>2. CASE k = m + 1
    <3>1. c[k] = n
      BY <1>2, <2>2
    <3>2. k - 1 = m
      BY <2>2
    <3>3. n = b[1] + m
      <4> DEFINE x == b[1]
                 y == b[m]
      <4>1. x \in Nat /\ y = x + (m - 1) /\ n = y + 1
        BY <1>2, <2>1
      <4> HIDE DEF x, y
      <4>2. n = x + m
        BY <4>1
      <4> QED
        BY <4>2 DEF x
    <3> QED
      BY <2>1, <3>1, <3>2, <3>3, Zenon
  <2>3. CASE k # m + 1
    <3>1. k \in 1..m
      BY <2>3
    <3> QED
      BY <1>2, <1>3, <1>7, <2>1, <3>1
  <2> QED
    BY <2>2, <2>3
<1>8. ~repeated' => Counted(pesBuffers[p])'
  BY <1>1, <1>2, <1>7 DEF Counted
<1>9. pesBuffers'[p][Len(pesBuffers'[p])] + 1 = muxed'[p] /\ (n + 1) - 1 = n
  BY <1>1, <1>2
<1> QED
  BY <1>6, <1>8, <1>9 DEF Buffered

-----------------------------------------------------------------------------
LEMMA ReceiveStep ==
    ASSUME TsTypes, TsTypes', NEW p \in Pids, NEW lost \in Nat,
           StreamRight(p), Ts!Receive(p, lost), ~Ts!Masks(p, lost)
    PROVE  StreamRight(p)'
<1> PICK n \in Nat : n = muxed[p] + lost
  BY DEF TsTypes
<1>1. /\ muxed'[p] = n + 1 /\ muxed[p] \in Nat /\ lost \in Nat /\ muxed[p] <= n
      /\ continuity'[p] = n % CounterModulus
      /\ Ts!FeedPes(p, n) /\ Ts!TrackContinuity(p, n) /\ UNCHANGED <<known, repeated>>
  <2>1. muxed' = [muxed EXCEPT ![p] = @ + lost + 1] /\ Ts!Packet(p, n) /\ UNCHANGED repeated
    BY DEF Ts!Receive
  <2>2. /\ Ts!FeedPes(p, n) /\ Ts!TrackContinuity(p, n) /\ UNCHANGED known
        /\ continuity' = [continuity EXCEPT ![p] = n % CounterModulus]
    BY <2>1, Zenon DEF Ts!Packet, Ts!TrackContinuity
  <2>3. muxed'[p] = muxed[p] + lost + 1 /\ continuity'[p] = n % CounterModulus
        /\ muxed[p] \in Nat
    BY <2>1, <2>2 DEF TsTypes
  <2> QED
    BY <2>1, <2>2, <2>3
<1>2. tsFailed' <=> \/ tsFailed
                    \/ /\ continuity[p] # CounterModulus
                       /\ (n + CounterModulus - continuity[p]) % CounterModulus \notin {0, 1}
  <2> DEFINE jump == /\ continuity[p] # CounterModulus
                     /\ (n + CounterModulus - continuity[p]) % CounterModulus \notin {0, 1}
  <2>1. tsFailed' = (tsFailed \/ jump)
    BY <1>1 DEF Ts!TrackContinuity
  <2> HIDE DEF jump
  <2>2. tsFailed' <=> tsFailed \/ jump
    BY <2>1, Zenon
  <2> QED
    BY <2>2, Zenon DEF jump
<1>3. CASE tsFailed
  <2>1. UNCHANGED frames
    BY <1>1, <1>3 DEF Ts!FeedPes
  <2> QED
    BY <1>1, <1>2, <1>3, <2>1, TsKept
<1>4. CASE ~tsFailed
  <2>1. Buffered(p) /\ FramesRight(p) /\ FramesInOrder(p)
    BY <1>4 DEF StreamRight
  <2>2. pesBuffers[p] # <<>> /\ ~tsFailed' => n = muxed[p]
    <3> SUFFICES ASSUME pesBuffers[p] # <<>>, ~tsFailed'
                 PROVE  lost = 0
      BY <1>1
    <3>1. continuity[p] = (muxed[p] - 1) % CounterModulus /\ muxed[p] \in Nat \ {0}
      <4>1. pesBuffers[p] \in Seq(Nat)
        BY DEF TsTypes
      <4>2. pesBuffers[p][Len(pesBuffers[p])] \in Nat
        BY <4>1
      <4> QED
        BY <1>1, <2>1, <4>2 DEF Buffered
    <3>2. continuity[p] # CounterModulus
      <4> DEFINE s == muxed[p] - 1
      <4>1. s \in Int
        BY <1>1
      <4> HIDE DEF s
      <4>2. s % CounterModulus \in 0..(CounterModulus - 1)
        BY <4>1, TsBounds, DivMod
      <4>3. continuity[p] \in 0..(CounterModulus - 1)
        BY <3>1, <4>2 DEF s
      <4> QED
        BY <4>3, TsBounds
    <3>3. (n + CounterModulus - continuity[p]) % CounterModulus \in {0, 1}
      BY <1>2, <3>2
    <3>4. (muxed[p] + lost + CounterModulus - ((muxed[p] - 1) % CounterModulus)) % CounterModulus
              \in {0, 1}
      BY <3>1, <3>3, Zenon
    <3>5. (lost + 1) % CounterModulus \in {0, 1}
      BY <1>1, <3>1, <3>4, TsBounds, CounterMoves
    <3>6. ~(lost > 0)
      BY <3>2, <3>5 DEF Ts!Masks
    <3> QED
      BY <3>6
  <2>3. CASE ~known
    <3>1. pesBuffers[p] = <<>> /\ UNCHANGED <<pesBuffers, frames>>
      BY <1>1, <2>1, <2>3 DEF Ts!FeedPes, Buffered
    <3>2. FramesRight(p)' /\ FramesInOrder(p)'
      <4>1. muxed[p] <= muxed'[p] /\ frames'[p] = frames[p] /\ pesBuffers'[p] = <<>>
        BY <1>1, <3>1
      <4> QED
        BY <1>1, <1>4, <4>1, NoFrameAdded
    <3>3. Buffered(p)'
      BY <3>1 DEF Buffered
    <3> QED
      BY <3>2, <3>3 DEF StreamRight
  <2>4. CASE known /\ Ts!UnitStart(n)
    <3>1. /\ frames'[p] = frames[p] \o Ts!Finalized(p, FALSE)
          /\ pesBuffers'[p] = <<n>>
      <4>1. /\ frames' = [frames EXCEPT ![p] = @ \o Ts!Finalized(p, FALSE)]
            /\ pesBuffers' = [pesBuffers EXCEPT ![p] = <<n>>]
        BY <1>1, <1>4, <2>4 DEF Ts!FeedPes
      <4> QED
        BY <4>1 DEF TsTypes
    <3>2. Buffered(p)'
      BY <1>1, <2>4, <3>1, BufferStarts
    <3>3. FramesRight(p)'
      <4>1. pesBuffers[p] # <<>> /\ Ts!UnitStart(pesBuffers[p][1]) =>
                repeated' \/ tsFailed' \/ Len(pesBuffers[p]) = FrameSize
        <5> SUFFICES ASSUME pesBuffers[p] # <<>>, Ts!UnitStart(pesBuffers[p][1]),
                            ~repeated, ~tsFailed'
                     PROVE  Len(pesBuffers[p]) = FrameSize
          BY <1>1
        <5>1. Ts!UnitStart(muxed[p])
          BY <2>2, <2>4
        <5> QED
          BY <2>1, <5>1, BufferIsFrame
      <4> QED
        BY <1>1, <1>4, <2>1, <3>1, <4>1, FramesAppended
    <3>4. FramesInOrder(p)'
      <4>1. CASE repeated
        BY <1>1, <4>1 DEF FramesInOrder
      <4>2. CASE ~repeated
        <5>1. pesBuffers'[p][1] = n /\ muxed[p] <= muxed'[p]
          BY <1>1, <3>1
        <5> QED
          BY <1>1, <1>4, <2>1, <3>1, <4>2, <5>1, OrderAppended
      <4> QED
        BY <4>1, <4>2
    <3> QED
      BY <3>2, <3>3, <3>4 DEF StreamRight
  <2>5. CASE known /\ ~Ts!UnitStart(n)
    <3>1. /\ frames'[p] = frames[p]
          /\ pesBuffers'[p] = Append(pesBuffers[p], n)
      <4>1. /\ UNCHANGED frames
            /\ pesBuffers' = [pesBuffers EXCEPT ![p] = Append(@, n)]
        BY <1>1, <1>4, <2>5 DEF Ts!FeedPes
      <4> QED
        BY <4>1 DEF TsTypes
    <3>2. pesBuffers[p] \in Seq(Nat)
      BY DEF TsTypes
    <3>3. CASE pesBuffers[p] = <<>>
      <4>1. pesBuffers'[p] = <<n>>
        BY <3>1, <3>3
      <4>2. Buffered(p)'
        BY <1>1, <2>5, <4>1, BufferStarts
      <4>3. pesBuffers'[p][1] = n /\ muxed[p] <= muxed'[p]
        BY <1>1, <4>1
      <4>4. FramesRight(p)' /\ FramesInOrder(p)'
        BY <1>1, <1>4, <3>1, <4>3, NoFrameAdded
      <4> QED
        BY <4>2, <4>4 DEF StreamRight
    <3>4. CASE pesBuffers[p] # <<>>
      <4>1. pesBuffers'[p][1] = pesBuffers[p][1] /\ muxed[p] <= muxed'[p]
        BY <1>1, <3>1, <3>2, <3>4
      <4>2. FramesRight(p)' /\ FramesInOrder(p)'
        BY <1>1, <1>4, <3>1, <3>4, <4>1, NoFrameAdded
      <4>3. ~tsFailed' => Buffered(p)'
        BY <1>1, <2>1, <2>2, <2>5, <3>1, <3>4, BufferGoesOn
      <4> QED
        BY <4>2, <4>3 DEF StreamRight
    <3> QED
      BY <3>3, <3>4
  <2> QED
    BY <2>3, <2>4, <2>5
<1> QED
  BY <1>3, <1>4

LEMMA RepeatStep ==
    ASSUME TsTypes, TsTypes', NEW p \in Pids, StreamRight(p), Ts!Repeat(p)
    PROVE  StreamRight(p)'
<1>0. muxed[p] \in Nat /\ muxed[p] > 0
  BY DEF TsTypes, Ts!Repeat
<1> PICK n \in Nat : n = muxed[p] - 1
  BY <1>0
<1>1. /\ muxed'[p] = n + 1 /\ repeated'
      /\ continuity'[p] = n % CounterModulus
      /\ Ts!FeedPes(p, n) /\ Ts!TrackContinuity(p, n) /\ UNCHANGED <<known, muxed>>
  <2>1. Ts!Packet(p, n) /\ UNCHANGED muxed /\ repeated' = TRUE
    BY DEF Ts!Repeat
  <2>2. /\ Ts!FeedPes(p, n) /\ Ts!TrackContinuity(p, n) /\ UNCHANGED known
        /\ continuity' = [continuity EXCEPT ![p] = n % CounterModulus]
    BY <2>1, Zenon DEF Ts!Packet, Ts!TrackContinuity
  <2>3. continuity'[p] = n % CounterModulus
    BY <2>2 DEF TsTypes
  <2> QED
    BY <1>0, <2>1, <2>2, <2>3
<1>2. tsFailed => tsFailed'
  BY Zenon, <1>1 DEF Ts!TrackContinuity
<1>3. CASE tsFailed
  <2>1. UNCHANGED frames
    BY <1>1, <1>3 DEF Ts!FeedPes
  <2> QED
    BY <1>1, <1>2, <1>3, <2>1, TsKept
<1>4. CASE ~tsFailed
  <2>1. Buffered(p) /\ FramesRight(p) /\ FramesInOrder(p)'
    BY <1>1, <1>4 DEF StreamRight, FramesInOrder
  <2>2. CASE ~known
    <3>1. pesBuffers[p] = <<>> /\ UNCHANGED <<pesBuffers, frames>>
      BY <1>1, <2>1, <2>2 DEF Ts!FeedPes, Buffered
    <3>2. FramesRight(p)'
      BY <1>1, <2>1, <3>1 DEF FramesRight, FrameRight, InOnePiece, Ts!UnitStart
    <3>3. Buffered(p)'
      BY <3>1 DEF Buffered
    <3> QED
      BY <2>1, <3>2, <3>3 DEF StreamRight
  <2>3. CASE known /\ Ts!UnitStart(n)
    <3>1. /\ frames'[p] = frames[p] \o Ts!Finalized(p, FALSE)
          /\ pesBuffers'[p] = <<n>>
      <4>1. /\ frames' = [frames EXCEPT ![p] = @ \o Ts!Finalized(p, FALSE)]
            /\ pesBuffers' = [pesBuffers EXCEPT ![p] = <<n>>]
        BY <1>1, <1>4, <2>3 DEF Ts!FeedPes
      <4> QED
        BY <4>1 DEF TsTypes
    <3>2. Buffered(p)'
      BY <1>1, <2>3, <3>1, BufferStarts
    <3>3. FramesRight(p)'
      BY <1>1, <1>4, <2>1, <3>1, FramesAppended
    <3> QED
      BY <2>1, <3>2, <3>3 DEF StreamRight
  <2>4. CASE known /\ ~Ts!UnitStart(n)
    <3>1. /\ frames'[p] = frames[p]
          /\ pesBuffers'[p] = Append(pesBuffers[p], n)
      <4>1. /\ UNCHANGED frames
            /\ pesBuffers' = [pesBuffers EXCEPT ![p] = Append(@, n)]
        BY <1>1, <1>4, <2>4 DEF Ts!FeedPes
      <4> QED
        BY <4>1 DEF TsTypes
    <3>2. FramesRight(p)'
      BY <1>1, <2>1, <3>1 DEF FramesRight, FrameRight, InOnePiece, Ts!UnitStart
    <3>3. Buffered(p)'
      <4>1. CASE pesBuffers[p] = <<>>
        <5>1. pesBuffers'[p] = <<n>>
          BY <3>1, <4>1
        <5> QED
          BY <1>1, <2>4, <5>1, BufferStarts
      <4>2. CASE pesBuffers[p] # <<>>
        BY <1>1, <2>1, <2>4, <3>1, <4>2, BufferGoesOn
      <4> QED
        BY <4>1, <4>2
    <3> QED
      BY <2>1, <3>2, <3>3 DEF StreamRight
  <2> QED
    BY <2>2, <2>3, <2>4
<1> QED
  BY <1>3, <1>4

LEMMA FlushStep ==
    ASSUME TsTypes, TsTypes', NEW p \in Pids, StreamRight(p), Ts!Flush
    PROVE  StreamRight(p)'
<1>1. UNCHANGED <<muxed, known, tsFailed, repeated>>
  BY DEF Ts!Flush
<1>2. CASE tsFailed
  <2>1. UNCHANGED frames
    BY <1>2 DEF Ts!Flush
  <2> QED
    BY <1>1, <1>2, <2>1, TsKept
<1>3. CASE ~tsFailed
  <2>1. frames'[p] = frames[p] \o Ts!Finalized(p, TRUE) /\ pesBuffers'[p] = <<>>
    BY <1>3 DEF Ts!Flush
  <2>2. Buffered(p) /\ FramesRight(p) /\ FramesInOrder(p)
    BY <1>3 DEF StreamRight
  <2>3. FramesRight(p)'
    BY <1>1, <1>3, <2>1, <2>2, FramesAppended
  <2>4. FramesInOrder(p)'
    <3>1. CASE repeated
      BY <1>1, <3>1 DEF FramesInOrder
    <3>2. CASE ~repeated
      <4>1. muxed[p] <= muxed'[p]
        BY <1>1 DEF TsTypes
      <4> QED
        BY <1>3, <2>1, <2>2, <3>2, <4>1, OrderAppended
    <3> QED
      BY <3>1, <3>2
  <2>5. Buffered(p)'
    BY <2>1 DEF Buffered
  <2> QED
    BY <2>3, <2>4, <2>5 DEF StreamRight
<1> QED
  BY <1>2, <1>3

LEMMA Concatenated ==
    ASSUME NEW S, NEW s \in Seq(S), NEW t \in Seq(S)
    PROVE  s \o t \in Seq(S)
OBVIOUS

LEMMA ShortSequences ==
    ASSUME NEW S, NEW e \in S
    PROVE  <<>> \in Seq(S) /\ <<e>> \in Seq(S)
OBVIOUS

LEMMA FinalizedTypes ==
    ASSUME TsTypes, NEW p \in Pids, NEW fl \in BOOLEAN
    PROVE  frames[p] \o Ts!Finalized(p, fl) \in Seq(TsFrame)
<1> DEFINE e == [packets |-> pesBuffers[p], flushed |-> fl]
<1>1. frames[p] \in Seq(TsFrame) /\ e \in TsFrame
  BY DEF TsTypes, TsFrame
<1>2. Ts!Finalized(p, fl) = <<e>> \/ Ts!Finalized(p, fl) = <<>>
  BY DEF Ts!Finalized
<1> HIDE DEF e
<1>3. Ts!Finalized(p, fl) \in Seq(TsFrame)
  BY <1>1, <1>2, ShortSequences, Zenon
<1> QED
  BY <1>1, <1>3, Concatenated, Zenon

LEMMA FeedTypes ==
    ASSUME TsTypes, NEW p \in Pids, NEW n \in Nat, Ts!FeedPes(p, n)
    PROVE  pesBuffers' \in [Pids -> Seq(Nat)] /\ frames' \in [Pids -> Seq(TsFrame)]
<1>1. pesBuffers \in [Pids -> Seq(Nat)] /\ frames \in [Pids -> Seq(TsFrame)]
  BY DEF TsTypes
<1>2. CASE tsFailed \/ ~known
  BY <1>1, <1>2 DEF Ts!FeedPes
<1>3. CASE ~(tsFailed \/ ~known) /\ Ts!UnitStart(n)
  <2>1. /\ frames' = [frames EXCEPT ![p] = @ \o Ts!Finalized(p, FALSE)]
        /\ pesBuffers' = [pesBuffers EXCEPT ![p] = <<n>>]
    BY <1>3 DEF Ts!FeedPes
  <2>2. frames[p] \o Ts!Finalized(p, FALSE) \in Seq(TsFrame)
    BY FinalizedTypes
  <2>3. <<n>> \in Seq(Nat)
    BY ShortSequences
  <2>4. pesBuffers' \in [Pids -> Seq(Nat)]
    BY <1>1, <2>1, <2>3
  <2>5. frames' \in [Pids -> Seq(TsFrame)]
    BY <1>1, <2>1, <2>2
  <2> QED
    BY <2>4, <2>5
<1>4. CASE ~(tsFailed \/ ~known) /\ ~Ts!UnitStart(n)
  <2>1. UNCHANGED frames /\ pesBuffers' = [pesBuffers EXCEPT ![p] = Append(@, n)]
    BY <1>4 DEF Ts!FeedPes
  <2>2. Append(pesBuffers[p], n) \in Seq(Nat)
    BY <1>1
  <2> QED
    BY <1>1, <2>1, <2>2
<1> QED
  BY <1>2, <1>3, <1>4

LEMMA PacketTypes ==
    ASSUME TsTypes, NEW p \in Pids, NEW n \in Nat, Ts!Packet(p, n), muxed' \in [Pids -> Nat]
    PROVE  TsTypes'
<1>1. pesBuffers' \in [Pids -> Seq(Nat)] /\ frames' \in [Pids -> Seq(TsFrame)]
  BY FeedTypes DEF Ts!Packet
<1>2. continuity' = [continuity EXCEPT ![p] = n % CounterModulus]
  BY Zenon DEF Ts!Packet, Ts!TrackContinuity
<1>3. n % CounterModulus \in Nat
  BY TsBounds, DivMod
<1>4. continuity' \in [Pids -> Nat]
  BY <1>2, <1>3 DEF TsTypes
<1> QED
  BY <1>1, <1>4 DEF TsTypes

LEMMA TsTypesStep == TsTypes /\ [Ts!Next]_(Ts!vars) => TsTypes'
<1> SUFFICES ASSUME TsTypes, [Ts!Next]_(Ts!vars)
             PROVE  TsTypes'
  OBVIOUS
<1>1. /\ muxed \in [Pids -> Nat] /\ pesBuffers \in [Pids -> Seq(Nat)]
      /\ continuity \in [Pids -> Nat] /\ frames \in [Pids -> Seq(TsFrame)]
  BY DEF TsTypes
<1>2. ASSUME NEW p \in Pids, NEW lost \in 0..(MaxTsPackets - 1), Ts!Receive(p, lost)
      PROVE  TsTypes'
  <2>1. muxed' = [muxed EXCEPT ![p] = @ + lost + 1] /\ Ts!Packet(p, muxed[p] + lost)
    BY <1>2 DEF Ts!Receive
  <2>2. muxed' \in [Pids -> Nat] /\ muxed[p] + lost \in Nat
    BY <1>1, <2>1
  <2> QED
    BY <2>1, <2>2, PacketTypes
<1>3. ASSUME NEW p \in Pids, Ts!Repeat(p)
      PROVE  TsTypes'
  <2>1. UNCHANGED muxed /\ Ts!Packet(p, muxed[p] - 1) /\ muxed[p] > 0
    BY <1>3 DEF Ts!Repeat
  <2>2. muxed' \in [Pids -> Nat] /\ muxed[p] - 1 \in Nat
    BY <1>1, <2>1
  <2> QED
    BY <2>1, <2>2, PacketTypes
<1>4. CASE Ts!Tables
  BY <1>1, <1>4 DEF Ts!Tables, TsTypes
<1>5. CASE Ts!Flush
  <2>1. UNCHANGED muxed /\ continuity' = [p \in Pids |-> CounterModulus]
    BY <1>5 DEF Ts!Flush
  <2>2. pesBuffers' \in [Pids -> Seq(Nat)] /\ frames' \in [Pids -> Seq(TsFrame)]
    <3>1. CASE tsFailed
      BY <1>1, <1>5, <3>1 DEF Ts!Flush
    <3>2. CASE ~tsFailed
      <4>1. /\ frames' = [p \in Pids |-> frames[p] \o Ts!Finalized(p, TRUE)]
            /\ pesBuffers' = [p \in Pids |-> <<>>]
        BY <1>5, <3>2 DEF Ts!Flush
      <4>2. ASSUME NEW p \in Pids
            PROVE  frames[p] \o Ts!Finalized(p, TRUE) \in Seq(TsFrame)
        BY FinalizedTypes
      <4> DEFINE new == [p \in Pids |-> frames[p] \o Ts!Finalized(p, TRUE)]
      <4>3. new \in [Pids -> Seq(TsFrame)]
        BY <4>2
      <4>4. [p \in Pids |-> <<>>] \in [Pids -> Seq(Nat)]
        OBVIOUS
      <4> HIDE DEF new
      <4> QED
        BY <4>1, <4>3, <4>4, Zenon DEF new
    <3> QED
      BY <3>1, <3>2
  <2> QED
    BY <1>1, <2>1, <2>2, TsBounds DEF TsTypes
<1>6. CASE UNCHANGED Ts!vars
  BY <1>1, <1>6 DEF Ts!vars, TsTypes
<1> QED
  BY <1>2, <1>3, <1>4, <1>5, <1>6 DEF Ts!Next

LEMMA TsInit == Ts!Init => TsInv
<1> SUFFICES ASSUME Ts!Init
             PROVE  TsInv
  OBVIOUS
<1>1. TsTypes
  BY TsBounds DEF Ts!Init, TsTypes
<1>2. \A p \in Pids : frames[p] = <<>> /\ pesBuffers[p] = <<>>
  BY DEF Ts!Init
<1>3. \A p \in Pids : Len(frames[p]) = 0
  BY <1>2
<1>4. ASSUME NEW p \in Pids
      PROVE  StreamRight(p)
  BY <1>2, <1>3 DEF StreamRight, FramesRight, FramesInOrder, Buffered
<1> QED
  BY <1>1, <1>4 DEF TsInv

\* What was masked stays so.
LEMMA MaskedStays == [Ts!Next]_(Ts!vars) /\ masked => masked'
<1>1. ASSUME NEW p, NEW lost, Ts!Receive(p, lost), masked
      PROVE  masked'
  <2> DEFINE m == Ts!Masks(p, lost)
  <2>1. masked' = (masked \/ m)
    BY <1>1 DEF Ts!Receive
  <2> HIDE DEF m
  <2> QED
    BY <1>1, <2>1, Zenon
<1> QED
  BY <1>1 DEF Ts!Next, Ts!vars, Ts!Repeat, Ts!Tables, Ts!Flush

LEMMA TsStep == TsInv /\ [Ts!Next]_(Ts!vars) => TsInv'
<1> SUFFICES ASSUME TsInv, [Ts!Next]_(Ts!vars)
             PROVE  TsInv'
  OBVIOUS
<1>0. TsTypes'
  BY TsTypesStep DEF TsInv
<1> SUFFICES ASSUME ~masked'
             PROVE  \A p \in Pids : StreamRight(p)'
  BY <1>0 DEF TsInv
<1>1. TsTypes /\ TsTypes' /\ \A p \in Pids : StreamRight(p)
  BY <1>0, MaskedStays DEF TsInv
<1>2. ASSUME NEW q \in Pids, NEW n, NEW p \in Pids, Ts!Packet(q, n), p # q,
             muxed'[p] = muxed[p], repeated => repeated'
      PROVE  StreamRight(p)'
  <2>1. Ts!FeedPes(q, n) /\ Ts!TrackContinuity(q, n) /\ UNCHANGED known
    BY <1>2 DEF Ts!Packet
  <2>2. pesBuffers'[p] = pesBuffers[p] /\ frames'[p] = frames[p]
    BY <1>1, <1>2, <2>1 DEF Ts!FeedPes, TsTypes
  <2>3. continuity'[p] = continuity[p]
    <3>1. continuity' = [continuity EXCEPT ![q] = n % CounterModulus]
      BY <2>1, Zenon DEF Ts!TrackContinuity
    <3> QED
      BY <1>1, <1>2, <3>1 DEF TsTypes
  <2>4. tsFailed => tsFailed'
    BY <2>1, Zenon DEF Ts!TrackContinuity
  <2> QED
    BY <1>1, <1>2, <2>1, <2>2, <2>3, <2>4, TsKept
<1>3. ASSUME NEW q \in Pids, NEW lost \in 0..(MaxTsPackets - 1), Ts!Receive(q, lost),
             NEW p \in Pids
      PROVE  StreamRight(p)'
  <2>1. CASE p = q
    <3> DEFINE m == Ts!Masks(q, lost)
    <3>1. masked' = (masked \/ m)
      BY <1>3 DEF Ts!Receive
    <3> HIDE DEF m
    <3>2. ~m
      BY <3>1, Zenon
    <3>3. ~Ts!Masks(q, lost) /\ lost \in Nat
      BY <3>2 DEF m
    <3> QED
      BY <1>1, <1>3, <2>1, <3>3, ReceiveStep
  <2>2. CASE p # q
    <3>1. Ts!Packet(q, muxed[q] + lost) /\ UNCHANGED repeated
          /\ muxed' = [muxed EXCEPT ![q] = @ + lost + 1]
      BY <1>3 DEF Ts!Receive
    <3>2. muxed'[p] = muxed[p]
      BY <1>1, <2>2, <3>1 DEF TsTypes
    <3> QED
      BY <1>2, <2>2, <3>1, <3>2
  <2> QED
    BY <2>1, <2>2
<1>4. ASSUME NEW q \in Pids, Ts!Repeat(q), NEW p \in Pids
      PROVE  StreamRight(p)'
  <2>1. CASE p = q
    BY <1>1, <1>4, <2>1, RepeatStep
  <2>2. CASE p # q
    <3>1. Ts!Packet(q, muxed[q] - 1) /\ UNCHANGED muxed /\ repeated' = TRUE
      BY <1>4 DEF Ts!Repeat
    <3> QED
      BY <1>2, <2>2, <3>1
  <2> QED
    BY <2>1, <2>2
<1>5. ASSUME Ts!Tables, NEW p \in Pids
      PROVE  StreamRight(p)'
  <2>1. UNCHANGED <<muxed, pesBuffers, continuity, frames, repeated>>
    BY <1>5 DEF Ts!Tables
  <2>2. (tsFailed => tsFailed') /\ (known => known')
    BY <1>5 DEF Ts!Tables
  <2> QED
    BY <1>1, <2>1, <2>2, TsKept
<1>6. ASSUME Ts!Flush, NEW p \in Pids
      PROVE  StreamRight(p)'
  BY <1>1, <1>6, FlushStep
<1>7. ASSUME UNCHANGED Ts!vars, NEW p \in Pids
      PROVE  StreamRight(p)'
  <2>1. UNCHANGED <<muxed, known, pesBuffers, continuity, tsFailed, frames, repeated>>
    BY <1>7 DEF Ts!vars
  <2> QED
    BY <1>1, <2>1, TsKept
<1>8. \A p \in Pids : StreamRight(p)'
  BY <1>3, <1>4, <1>5, <1>6, <1>7 DEF Ts!Next
<1> QED
  BY <1>8

\* However packets are lost and streams interleaved, the frames of a stream are in
\* one piece, in order and none twice, and but for the last before the demuxer
\* fails whole, unless flush() or a repeated packet came in their middle, or a loss
\* the counter does not show: TsPacketizer.trackContinuity() against
\* TsDemuxer.feedPes() and finalizePes().
THEOREM NoHolesInFrames == Ts!Spec => []FramesHaveNoHoles
<1>1. TsInv => FramesHaveNoHoles
  <2> SUFFICES ASSUME TsInv, ~masked, NEW p \in Pids, NEW i \in DOMAIN frames[p]
               PROVE  /\ Ts!UnitStart(frames[p][i].packets[1])
                      /\ \A k \in 2..Len(frames[p][i].packets) :
                             \/ /\ frames[p][i].packets[k] = frames[p][i].packets[k - 1] + 1
                                /\ ~Ts!UnitStart(frames[p][i].packets[k])
                             \/ /\ frames[p][i].packets[k] = frames[p][i].packets[k - 1]
                                /\ repeated
                      /\ \A j \in DOMAIN frames[p] :
                             \/ i < j => frames[p][i].packets[1] < frames[p][j].packets[1]
                             \/ repeated
                      /\ \/ Len(frames[p][i].packets) = FrameSize
                         \/ frames[p][i].flushed \/ repeated
                         \/ tsFailed /\ i = Len(frames[p])
    BY Zenon DEF FramesHaveNoHoles, Ts!FramesHaveNoHoles
  <2>1. StreamRight(p) /\ DOMAIN frames[p] = 1..Len(frames[p])
    BY DEF TsInv, TsTypes
  <2>2. FrameRight(p, i)
    BY <2>1 DEF StreamRight, FramesRight
  <2>3. ASSUME NEW j \in DOMAIN frames[p], ~repeated, i < j
        PROVE  frames[p][i].packets[1] < frames[p][j].packets[1]
    BY <2>1, <2>3 DEF StreamRight, FramesInOrder, FirstOf
  <2> QED
    BY <2>2, <2>3 DEF FrameRight, InOnePiece
<1> QED
  BY <1>1, TsInit, TsStep, PTL DEF Ts!Spec

-----------------------------------------------------------------------------
(* The demuxers of MCStreams.                                                *)

LEMMA OneSubject ==
    [MCNext]_allVars => /\ [Flv!Next]_flvVars /\ [Psd!Next]_psdVars
                        /\ [Ts!Next]_tsVars /\ [Time!Next]_timeVars
<1>1. UNCHANGED allVars => UNCHANGED <<flvVars, psdVars, tsVars, timeVars>>
  BY DEF allVars
<1> QED
  BY <1>1 DEF MCNext, HlsOnly, WhepOnly, PsOnly, WsOnly, GbOnly, FlvOnly, PsdOnly, TsOnly,
              TimeOnly

LEMMA SameVariables ==
    /\ UNCHANGED flvVars <=> UNCHANGED Flv!vars
    /\ UNCHANGED psdVars <=> UNCHANGED Psd!vars
    /\ UNCHANGED tsVars <=> UNCHANGED Ts!vars
    /\ UNCHANGED timeVars <=> UNCHANGED Time!vars
<1>1. UNCHANGED flvVars <=> UNCHANGED Flv!vars
  BY DEF flvVars, Flv!vars
<1>2. UNCHANGED psdVars <=> UNCHANGED Psd!vars
  BY DEF psdVars, Psd!vars
<1>3. UNCHANGED tsVars <=> UNCHANGED Ts!vars
  BY DEF tsVars, Ts!vars
<1>4. UNCHANGED timeVars <=> UNCHANGED Time!vars
  BY DEF timeVars, Time!vars
<1> QED
  BY <1>1, <1>2, <1>3, <1>4

\* The specification that is model-checked implies those the theorems are about,
\* so that what they say of FlvDemuxer, PsDemuxer, TsDemuxer and their timestamps
\* holds in it.
THEOREM DemuxersOfRun == MCSpec => Flv!Spec /\ Psd!Spec /\ Ts!Spec /\ Time!Spec
<1>1. MCInit => Flv!Init /\ Psd!Init /\ Ts!Init /\ Time!Init
  BY DEF MCInit
<1>2. [MCNext]_allVars => /\ [Flv!Next]_(Flv!vars) /\ [Psd!Next]_(Psd!vars)
                          /\ [Ts!Next]_(Ts!vars) /\ [Time!Next]_(Time!vars)
  BY OneSubject, SameVariables
<1> QED
  BY <1>1, <1>2, PTL DEF MCSpec, Flv!Spec, Psd!Spec, Ts!Spec, Time!Spec
=============================================================================
