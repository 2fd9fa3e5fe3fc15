----------------------------- MODULE PumpProofs -----------------------------
(* Safety of the pump for every set of handles, either kind of driver, and  *)
(* ticks that may or may not throw.                                         *)
EXTENDS Pump, TLAPS

\* The frame the pump believes it has outstanding.
OwnFrame == [driver |-> current, id |-> frameId]

-----------------------------------------------------------------------------
(* What the two helpers every action is built from do to the frames.        *)

\* schedule() makes the new frame the pump's own and adds only that frame.
LEMMA ScheduleAdds ==
    ASSUME NEW d \in Drivers, NEW P, P \subseteq Frame, Schedule(d, P)
    PROVE  /\ frameId' \in FrameIds
           /\ frames' = P \cup {[driver |-> d, id |-> frameId']}
           /\ frames' \subseteq Frame
<1>1. PICK id \in FrameIds : /\ frameId' = id
                             /\ frames' = P \cup {[driver |-> d, id |-> id]}
  BY DEF Schedule
<1>2. [driver |-> d, id |-> id] \in Frame
  BY <1>1 DEF Frame
<1>3. QED
  BY <1>1, <1>2

\* Swapping drivers ends with the pump's own frame outstanding, on the driver of
\* the visibility asked for, next to frames that were outstanding before.
LEMMA SwitchDriverAdds ==
    ASSUME TypeOK, NEW h \in BOOLEAN, SwitchDriver(h)
    PROVE  /\ hidden' = h
           /\ current' \in Drivers
           /\ current' = (IF h = hidden THEN current ELSE DriverFor(h))
           /\ frameId' \in FrameIds
           /\ frames' \subseteq Frame
           /\ OwnFrame' \in frames'
           /\ h = hidden => frames' = frames \cup {OwnFrame'}
           /\ h # hidden => frames' = Cancelled \cup {OwnFrame'}
<1>1. /\ hidden' = h
      /\ current' = (IF h = hidden THEN current ELSE DriverFor(h))
  BY DEF SwitchDriver
<1>2. current' \in Drivers
  BY <1>1 DEF TypeOK, DriverFor, Drivers
<1> DEFINE P == IF h = hidden THEN frames ELSE Cancelled
<1>3. P \subseteq Frame
  BY DEF TypeOK, Cancelled
<1>4. Schedule(current', P)
  BY DEF SwitchDriver
<1>5. /\ frameId' \in FrameIds
      /\ frames' = P \cup {[driver |-> current', id |-> frameId']}
      /\ frames' \subseteq Frame
  <2> HIDE DEF P
  <2> QED
    BY <1>2, <1>3, <1>4, ScheduleAdds
<1>6. QED
  BY <1>1, <1>2, <1>5 DEF OwnFrame

-----------------------------------------------------------------------------
\* Every field keeps its type through every call and every runtime event.
THEOREM TypeCorrect == Spec => []TypeOK
<1>1. Init => TypeOK
  BY DEF Init, TypeOK, Drivers, Frame
<1>2. TypeOK /\ [Next]_vars => TypeOK'
  <2> SUFFICES ASSUME TypeOK, [Next]_vars
               PROVE  TypeOK'
    OBVIOUS
  <2>0. mayThrow' \in BOOLEAN
    BY DEF Next, vars, TypeOK
  <2>1. CASE Start
    <3>1. SwitchDriver(docHidden) /\ docHidden \in BOOLEAN
      BY <2>1 DEF Start, TypeOK
    <3>2. /\ hidden' \in BOOLEAN
          /\ current' \in Drivers
          /\ frameId' \in FrameIds
          /\ frames' \subseteq Frame
      BY <3>1, SwitchDriverAdds
    <3>3. QED
      BY <2>0, <2>1, <3>2 DEF Start, TypeOK
  <2>2. CASE Stop
    BY <2>0, <2>2 DEF Stop, Halt, Cancelled, TypeOK
  <2>3. CASE Destroy
    BY <2>0, <2>3 DEF Destroy, Halt, Cancelled, TypeOK
  <2>4. ASSUME NEW f \in frames, Fire(f)
        PROVE  TypeOK'
    BY <2>0, <2>4 DEF Fire, TypeOK
  <2>5. CASE TickReturn
    <3>1. CASE Rearm(current)
      <4>1. frameId' \in FrameIds /\ frames' \subseteq Frame
        BY <2>5, <3>1, ScheduleAdds DEF TickReturn, TypeOK
      <4>2. QED
        BY <2>0, <2>5, <4>1 DEF TickReturn, TypeOK
    <3>2. CASE ~Rearm(current)
      BY <2>0, <2>5, <3>2 DEF TickReturn, TypeOK
    <3>3. QED
      BY <3>1, <3>2
  <2>6. CASE TickThrows
    BY <2>0, <2>6 DEF TickThrows, TypeOK
  <2>7. CASE VisibilityChange
    <3>1. docHidden' \in BOOLEAN
      BY <2>7 DEF VisibilityChange, TypeOK
    <3>2. CASE listening /\ started /\ docHidden' # hidden
      <4>1. SwitchDriver(docHidden')
        BY <2>7, <3>2 DEF VisibilityChange
      <4>2. /\ hidden' \in BOOLEAN
            /\ current' \in Drivers
            /\ frameId' \in FrameIds
            /\ frames' \subseteq Frame
        BY <3>1, <4>1, SwitchDriverAdds
      <4>3. QED
        BY <2>0, <2>7, <3>1, <4>2 DEF VisibilityChange, TypeOK
    <3>3. CASE ~(listening /\ started /\ docHidden' # hidden)
      BY <2>0, <2>7, <3>1, <3>3 DEF VisibilityChange, TypeOK
    <3>4. QED
      BY <3>2, <3>3
  <2>8. CASE UNCHANGED vars
    BY <2>8 DEF vars, TypeOK
  <2>9. QED
    BY <2>1, <2>2, <2>3, <2>4, <2>5, <2>6, <2>7, <2>8 DEF Next, UserCall, Runtime
<1>3. QED
  BY <1>1, <1>2, PTL DEF Spec

-----------------------------------------------------------------------------
(* The rest of the proofs take one step of the specification at a time,     *)
(* with TypeOK available in the state before it.                            *)

\* Stop and Destroy do to the pump's own fields what Halt does, and touch no
\* other field an invariant below reads but `listening'.
LEMMA HaltEffect ==
    ASSUME TypeOK, Halt
    PROVE  /\ ~started'
           /\ frames' \subseteq frames
           /\ started => frames' = Cancelled
           /\ ~started => frames' = frames
           /\ haltedInTick' = (haltedInTick \/ (started /\ inTick))
BY DEF Halt, Cancelled, TypeOK

\* The kind of driver is chosen once, by the constructor, and listeners throw
\* or do not.
LEMMA KindIsFixed ==
    [Next]_vars => primaryRearm' = primaryRearm /\ mayThrow' = mayThrow
BY DEF Next, UserCall, Runtime, Start, Stop, Destroy, Fire, TickReturn, TickThrows,
       VisibilityChange, vars

\* An interval the pump has lost the handle of would tick for ever: there is
\* none, with either kind of driver and whatever a tick's listeners call.
THEOREM IntervalsTracked == Spec => []TrackedInterval
<1>1. Init => TrackedInterval
  BY DEF Init, TrackedInterval
<1>2. TypeOK /\ TrackedInterval /\ [Next]_vars => TrackedInterval'
  <2> SUFFICES ASSUME TypeOK, TrackedInterval, [Next]_vars
               PROVE  TrackedInterval'
    OBVIOUS
  <2>0. primaryRearm' = primaryRearm /\ mayThrow' = mayThrow
    BY KindIsFixed
  <2>1. CASE Start
    <3>1. SwitchDriver(docHidden) /\ docHidden \in BOOLEAN
      BY <2>1 DEF Start, TypeOK
    <3>2. \A f \in frames' : f \in frames \/ f = OwnFrame'
      BY <3>1, SwitchDriverAdds DEF Cancelled
    <3>3. \A f \in frames : OneShot(f.driver)
      BY <2>1 DEF Start, TrackedInterval
    <3>4. QED
      BY <2>1, <3>2, <3>3 DEF Start, TrackedInterval, OwnFrame, OneShot
  <2>2. CASE Halt
    <3>1. CASE started
      BY <2>0, <2>2, <3>1, HaltEffect DEF TrackedInterval, Cancelled, OneShot
    <3>2. CASE ~started
      BY <2>0, <2>2, <3>2, HaltEffect DEF TrackedInterval, OneShot
    <3>3. QED
      BY <3>1, <3>2
  <2>3. ASSUME NEW f \in frames, Fire(f)
        PROVE  TrackedInterval'
    BY <2>0, <2>3 DEF Fire, TrackedInterval, OneShot
  <2>4. CASE TickReturn
    <3>1. CASE Rearm(current)
      <4>1. frames' = frames \cup {[driver |-> current, id |-> frameId']}
        BY <2>4, <3>1, ScheduleAdds DEF TickReturn, TypeOK
      <4>2. \A f \in frames : OneShot(f.driver)
        BY <3>1 DEF TrackedInterval, Rearm
      <4>3. QED
        BY <2>0, <3>1, <4>1, <4>2 DEF TrackedInterval, Rearm, OneShot
    <3>2. CASE ~Rearm(current)
      BY <2>0, <2>4, <3>2 DEF TickReturn, TrackedInterval, OneShot
    <3>3. QED
      BY <3>1, <3>2
  <2>5. CASE TickThrows
    BY <2>0, <2>5 DEF TickThrows, TrackedInterval, OneShot
  <2>6. CASE VisibilityChange
    <3>1. CASE listening /\ started /\ docHidden' # hidden
      <4>1. SwitchDriver(docHidden') /\ docHidden' \in BOOLEAN
        BY <2>6, <3>1 DEF VisibilityChange, TypeOK
      <4>2. frames' = Cancelled \cup {OwnFrame'}
        BY <3>1, <4>1, SwitchDriverAdds
      <4>3. \A f \in Cancelled : OneShot(f.driver)
        BY DEF Cancelled, TrackedInterval
      <4>4. started'
        BY <2>6, <3>1 DEF VisibilityChange
      <4>5. QED
        BY <2>0, <4>2, <4>3, <4>4 DEF TrackedInterval, OwnFrame, OneShot
    <3>2. CASE ~(listening /\ started /\ docHidden' # hidden)
      BY <2>0, <2>6, <3>2 DEF VisibilityChange, TrackedInterval, OneShot
    <3>3. QED
      BY <3>1, <3>2
  <2>7. CASE UNCHANGED vars
    BY <2>0, <2>7 DEF vars, TrackedInterval, OneShot
  <2>8. QED
    BY <2>1, <2>2, <2>3, <2>4, <2>5, <2>6, <2>7
       DEF Next, UserCall, Runtime, Stop, Destroy
<1>3. QED
  BY <1>1, <1>2, TypeCorrect, PTL DEF Spec

-----------------------------------------------------------------------------
\* PumpAlive is not inductive: while a one-shot callback's tick runs, the pump
\* has no frame.  The strengthening says that this is the only such moment.
AliveInv ==
    ~mayThrow /\ started /\ ~(inTick /\ OneShot(current)) => OwnFrame \in frames

\* As long as no tick throws, a started pump
\* always has the callback it last requested outstanding between ticks.
THEOREM PumpStaysAlive == Spec => []PumpAlive
<1>1. Init => AliveInv
  BY DEF Init, AliveInv
<1>2. TypeOK /\ AliveInv /\ [Next]_vars => AliveInv'
  <2> SUFFICES ASSUME TypeOK, AliveInv, [Next]_vars
               PROVE  AliveInv'
    OBVIOUS
  <2>0. primaryRearm' = primaryRearm /\ mayThrow' = mayThrow
    BY KindIsFixed
  <2>1. CASE Start
    <3>1. SwitchDriver(docHidden) /\ docHidden \in BOOLEAN
      BY <2>1 DEF Start, TypeOK
    <3>2. OwnFrame' \in frames'
      BY <3>1, SwitchDriverAdds
    <3>3. QED
      BY <3>2 DEF AliveInv
  <2>2. CASE Halt
    BY <2>2, HaltEffect DEF AliveInv
  <2>3. ASSUME NEW f \in frames, Fire(f)
        PROVE  AliveInv'
    <3>1. UNCHANGED <<started, current, frameId>> /\ inTick' = started /\ ~inTick
      BY <2>3 DEF Fire
    <3>2. CASE OneShot(current)
      BY <2>0, <3>1, <3>2 DEF AliveInv, OneShot
    <3>3. CASE ~OneShot(current)
      <4>1. OwnFrame.driver = current
        BY DEF OwnFrame
      <4>2. OwnFrame \in frames => OwnFrame \in frames'
        BY <2>3, <3>3, <4>1 DEF Fire
      <4>3. OwnFrame' = OwnFrame
        BY <3>1 DEF OwnFrame
      <4>4. QED
        BY <2>0, <3>1, <4>2, <4>3 DEF AliveInv
    <3>4. QED
      BY <3>2, <3>3
  <2>4. CASE TickReturn
    <3>1. CASE Rearm(current)
      <4>1. frames' = frames \cup {[driver |-> current, id |-> frameId']}
        BY <2>4, <3>1, ScheduleAdds DEF TickReturn, TypeOK
      <4>2. QED
        BY <2>0, <2>4, <4>1 DEF TickReturn, AliveInv, OwnFrame
    <3>2. CASE ~Rearm(current)
      BY <2>0, <2>4, <3>2 DEF TickReturn, AliveInv, OwnFrame, Rearm
    <3>3. QED
      BY <3>1, <3>2
  <2>5. CASE TickThrows
    BY <2>0, <2>5 DEF TickThrows, AliveInv, OwnFrame, OneShot
  <2>6. CASE VisibilityChange
    <3>1. CASE listening /\ started /\ docHidden' # hidden
      <4>1. SwitchDriver(docHidden') /\ docHidden' \in BOOLEAN
        BY <2>6, <3>1 DEF VisibilityChange, TypeOK
      <4>2. OwnFrame' \in frames'
        BY <4>1, SwitchDriverAdds
      <4>3. QED
        BY <4>2 DEF AliveInv
    <3>2. CASE ~(listening /\ started /\ docHidden' # hidden)
      BY <2>0, <2>6, <3>2 DEF VisibilityChange, AliveInv, OwnFrame, OneShot
    <3>3. QED
      BY <3>1, <3>2
  <2>7. CASE UNCHANGED vars
    BY <2>0, <2>7 DEF vars, AliveInv, OwnFrame, OneShot
  <2>8. QED
    BY <2>1, <2>2, <2>3, <2>4, <2>5, <2>6, <2>7
       DEF Next, UserCall, Runtime, Stop, Destroy
<1>3. AliveInv => PumpAlive
  BY DEF AliveInv, PumpAlive, OwnFrame
<1>4. QED
  BY <1>1, <1>2, <1>3, TypeCorrect, PTL DEF Spec

-----------------------------------------------------------------------------
\* OneOutstandingFrame needs to know which frame the one is, that a stopped
\* pump has none, and that a one-shot tick runs started with none outstanding.
OneInv ==
    \/ primaryRearm /\ haltedInTick
    \/ /\ \A f \in frames : f = OwnFrame
       /\ ~started => frames = {}
       /\ inTick /\ primaryRearm => started
       /\ inTick /\ OneShot(current) => frames = {}

\* Ticks double only after a one-shot pump was stopped from inside a tick.
THEOREM TicksNeverDouble == Spec => []DoubleNeedsHaltInTick
<1>1. Init => OneInv
  BY DEF Init, OneInv
<1>2. TypeOK /\ OneInv /\ [Next]_vars => OneInv'
  <2> SUFFICES ASSUME TypeOK, OneInv, [Next]_vars
               PROVE  OneInv'
    OBVIOUS
  <2>0. CASE primaryRearm /\ haltedInTick
    BY <2>0 DEF OneInv, Next, UserCall, Runtime, Start, Stop, Destroy, Halt, Fire,
                TickReturn, TickThrows, VisibilityChange, vars
  <2> DEFINE Ok == ~(primaryRearm /\ haltedInTick)
  <2>1. CASE Ok /\ Start
    <3>1. SwitchDriver(docHidden) /\ docHidden \in BOOLEAN
      BY <2>1 DEF Start, TypeOK
    <3>2. /\ frames = {} /\ started'
          /\ UNCHANGED <<primaryRearm, inTick>>
      BY <2>1 DEF OneInv, Start
    <3>3. frames' = {OwnFrame'}
      BY <3>1, <3>2, SwitchDriverAdds DEF Cancelled
    <3>4. ~(inTick /\ primaryRearm)
      BY <2>1 DEF OneInv, Start
    <3>5. QED
      BY <3>2, <3>3, <3>4 DEF OneInv, OneShot
  <2>2. CASE Ok /\ Halt /\ UNCHANGED <<primaryRearm, current, inTick>>
    <3>1. started => Cancelled = {}
      BY <2>2 DEF OneInv, Cancelled, OwnFrame
    <3>2. frames' = {}
      BY <2>2, <3>1, HaltEffect DEF OneInv
    <3>3. CASE inTick /\ primaryRearm
      BY <2>2, <3>3, HaltEffect DEF OneInv, OneShot
    <3>4. CASE ~(inTick /\ primaryRearm)
      BY <2>2, <3>2, <3>4 DEF OneInv, OneShot
    <3>5. QED
      BY <3>3, <3>4
  <2>3. ASSUME Ok, NEW f \in frames, Fire(f)
        PROVE  OneInv'
    <3>1. f = OwnFrame /\ started
      BY <2>3 DEF OneInv
    <3>2. OneShot(current) => frames' = {}
      BY <2>3, <3>1 DEF Fire, OneInv, OwnFrame
    <3>3. /\ frames' \subseteq frames
          /\ UNCHANGED <<primaryRearm, started, current, frameId, haltedInTick>>
      BY <2>3 DEF Fire
    <3>4. QED
      BY <2>3, <3>1, <3>2, <3>3 DEF OneInv, OwnFrame, OneShot
  <2>4. CASE Ok /\ TickReturn
    <3>1. CASE Rearm(current)
      <4>1. frames' = frames \cup {[driver |-> current, id |-> frameId']}
        BY <2>4, <3>1, ScheduleAdds DEF TickReturn, TypeOK
      <4>2. frames' = {OwnFrame'} /\ started' /\ ~inTick'
        BY <2>4, <3>1, <4>1 DEF TickReturn, OneInv, OwnFrame, Rearm, OneShot
      <4>3. QED
        BY <4>2 DEF OneInv
    <3>2. CASE ~Rearm(current)
      BY <2>4, <3>2 DEF TickReturn, OneInv, OwnFrame, OneShot
    <3>3. QED
      BY <3>1, <3>2
  <2>5. CASE Ok /\ TickThrows
    BY <2>5 DEF TickThrows, OneInv, OwnFrame, OneShot
  <2>6. CASE Ok /\ VisibilityChange
    <3>1. CASE listening /\ started /\ docHidden' # hidden
      <4>1. SwitchDriver(docHidden') /\ docHidden' \in BOOLEAN
        BY <2>6, <3>1 DEF VisibilityChange, TypeOK
      <4>2. frames' = Cancelled \cup {OwnFrame'}
        BY <3>1, <4>1, SwitchDriverAdds
      <4>3. Cancelled = {}
        BY <2>6 DEF OneInv, Cancelled, OwnFrame
      <4>4. started' /\ ~inTick'
        BY <2>6, <3>1 DEF VisibilityChange
      <4>5. QED
        BY <4>2, <4>3, <4>4 DEF OneInv
    <3>2. CASE ~(listening /\ started /\ docHidden' # hidden)
      BY <2>6, <3>2 DEF VisibilityChange, OneInv, OwnFrame, OneShot
    <3>3. QED
      BY <3>1, <3>2
  <2>7. CASE Ok /\ UNCHANGED vars
    BY <2>7 DEF vars, OneInv, OwnFrame, OneShot
  <2>8. CASE Ok
    BY <2>1, <2>2, <2>3, <2>4, <2>5, <2>6, <2>7, <2>8
       DEF Next, UserCall, Runtime, Stop, Destroy
  <2>9. QED
    BY <2>0, <2>8
<1>3. OneInv => DoubleNeedsHaltInTick
  BY DEF OneInv, OneOutstandingFrame, DoubleNeedsHaltInTick
<1>4. QED
  BY <1>1, <1>2, <1>3, TypeCorrect, PTL DEF Spec

-----------------------------------------------------------------------------
\* The driver in use always fits the visibility it was chosen for; with that,
\* a started pump that still listens is never on the wrong cadence.
CadenceInv == current = DriverFor(hidden) /\ CadenceFollowsTab

\* A tab switched while the pump was stopped is noticed by the next start().
THEOREM CadenceIsRight == Spec => []CadenceFollowsTab
<1>1. Init => CadenceInv
  BY DEF Init, CadenceInv, CadenceFollowsTab, DriverFor
<1>2. TypeOK /\ CadenceInv /\ [Next]_vars => CadenceInv'
  <2> SUFFICES ASSUME TypeOK, CadenceInv, [Next]_vars
               PROVE  CadenceInv'
    OBVIOUS
  <2>1. ASSUME NEW h \in BOOLEAN, SwitchDriver(h)
        PROVE  hidden' = h /\ current' = DriverFor(h)
    BY <2>1, SwitchDriverAdds DEF CadenceInv
  <2>2. CASE Start
    <3>1. SwitchDriver(docHidden) /\ docHidden \in BOOLEAN /\ docHidden' = docHidden
      BY <2>2 DEF Start, TypeOK
    <3>2. QED
      BY <2>1, <3>1 DEF CadenceInv, CadenceFollowsTab
  <2>3. CASE VisibilityChange
    <3>1. CASE listening /\ started /\ docHidden' # hidden
      <4>1. SwitchDriver(docHidden') /\ docHidden' \in BOOLEAN
        BY <2>3, <3>1 DEF VisibilityChange, TypeOK
      <4>2. QED
        BY <2>1, <4>1 DEF CadenceInv, CadenceFollowsTab
    <3>2. CASE ~(listening /\ started /\ docHidden' # hidden)
      BY <2>3, <3>2 DEF VisibilityChange, CadenceInv, CadenceFollowsTab, TypeOK
    <3>3. QED
      BY <3>1, <3>2
  <2>4. CASE Halt /\ UNCHANGED <<hidden, current>>
    BY <2>4, HaltEffect DEF CadenceInv, CadenceFollowsTab
  <2>5. CASE UNCHANGED <<started, hidden, current, docHidden, listening>>
    BY <2>5 DEF CadenceInv, CadenceFollowsTab
  <2>6. QED
    BY <2>2, <2>3, <2>4, <2>5
       DEF Next, UserCall, Runtime, Stop, Destroy, Fire, TickReturn, TickThrows, vars
<1>3. CadenceInv => CadenceFollowsTab
  BY DEF CadenceInv
<1>4. QED
  BY <1>1, <1>2, <1>3, TypeCorrect, PTL DEF Spec
=============================================================================
