---------------------------- MODULE CapacityProofs ----------------------------
(***************************************************************************)
(* Proofs about modules Monitor and Capacity, for any fail-open count, any *)
(* number of slots and any scale-down interval.                            *)
(***************************************************************************)
EXTENDS Capacity, TLAPS

Ages == 0 .. MaxAge

\* Each variable's type.
Flags == ok \in BOOLEAN /\ valid \in BOOLEAN /\ degraded \in BOOLEAN
Numbers ==
    /\ polls \in 0 .. 2
    /\ okSince \in Ages /\ closedSince \in Ages /\ flipped \in Ages /\ shut \in Ages
    /\ errStreak \in 0 .. ErrFailOpen + 1
    /\ capacity \in 1 .. MaxCap /\ before \in 1 .. MaxCap
    /\ lastStep \in Ages /\ closed \in 0 .. Unread

\* Before the first evaluation the gate is closed and the guard enabled.
StartsShut == ~valid => ~ok /\ ~degraded

\* The timers against the history: what the scheduler reads, and what it has
\* read and not yet acted on.
TimersOK ==
    /\ valid /\ ~ok => closedSince = flipped /\ closedSince <= shut
    /\ valid /\ ok => okSince <= flipped
    /\ closed # Unread => closed <= shut

IInv == Flags /\ Numbers /\ StartsShut /\ TimersOK

\* TypeOK, part by part: the provers take the memberships one at a time.
LEMMA TypeParts == TypeOK <=> Flags /\ Numbers /\ StartsShut
  BY DEF TypeOK, MonitorTypeOK, Flags, Numbers, StartsShut, Ages

\* The constants, without the product of CapacityAssumption.
LEMMA Constants == /\ ErrFailOpen \in Nat \ {0} /\ MaxAge \in Nat \ {0}
                   /\ MaxCap \in Nat \ {0} /\ ScaleDownAfter \in Nat \ {0}
  BY MonitorAssumption, CapacityAssumption

\* A timestamp gets older, up to MaxAge, and none overtakes an older one.
LEMMA OlderAges ==
    /\ \A a \in Ages : Older(a) \in Ages
    /\ \A a, b \in Ages : a <= b => Older(a) <= Older(b)
  BY Constants DEF Older, Ages

\* Nothing has been evaluated or read when the monitor starts.
LEMMA InitStep == Init => IInv
<1> USE Constants DEF Init, MonitorInit
<1>1. Init => Flags
  BY DEF Flags
<1>2. Init => Numbers
  BY DEF Numbers, Ages, Unread
<1>3. Init => StartsShut /\ TimersOK
  BY DEF StartsShut, TimersOK, Unread
<1> QED
  BY <1>1, <1>2, <1>3 DEF IInv

\* A poll changes the histories only to 0 and to the capacity, and counts.
LEMMA PollNumbers ==
    ASSUME Numbers, PollStep, okSince' \in Ages, closedSince' \in Ages, errStreak' \in 0 .. ErrFailOpen + 1
    PROVE  Numbers'
<1>1. flipped' \in {0, flipped} /\ before' \in {capacity, before}
  BY DEF PollStep, Poll
<1>2. polls > 0 /\ polls' = polls - 1 /\ UNCHANGED <<shut, capacity, lastStep, closed>>
  BY DEF PollStep, Poll
<1> QED
  BY <1>1, <1>2, Constants DEF Numbers, Ages

\* A failed sample (monitor.go: poll) leaves the gate and its timer, or opens it
\* with a new timer.
LEMMA FailsStep == ASSUME IInv, PollStep, SampleFails PROVE IInv'
<1> USE Constants DEF IInv
<1>1. CASE FailsOpen(errStreak + 1)
  <2>1. ok' = TRUE /\ valid' = TRUE /\ degraded' = TRUE /\ okSince' = 0 /\ closedSince' = closedSince
    BY <1>1 DEF SampleFails, OpenNow
  <2>2. errStreak' \in 0 .. ErrFailOpen + 1
    BY DEF SampleFails, Numbers
  <2>3. 0 \in Ages /\ closedSince \in Ages
    BY DEF Numbers, Ages
  <2>4. Numbers'
    BY <2>1, <2>2, <2>3, PollNumbers
  <2>5. Flags' /\ StartsShut'
    BY <2>1 DEF Flags, StartsShut
  <2>6. okSince' <= flipped'
    BY <2>1, <2>4 DEF Numbers, Ages
  <2>7. UNCHANGED <<closed, shut>>
    BY DEF PollStep, Poll
  <2> QED
    BY <2>1, <2>4, <2>5, <2>6, <2>7 DEF TimersOK, Unread
<1>2. CASE ~FailsOpen(errStreak + 1)
  <2>1. UNCHANGED <<degraded, ok, valid, okSince, closedSince>>
    BY <1>2 DEF SampleFails
  <2>2. errStreak' \in 0 .. ErrFailOpen + 1
    BY DEF SampleFails, Numbers
  <2>3. Numbers'
    BY <2>1, <2>2, PollNumbers DEF Numbers
  <2>4. Flags' /\ StartsShut'
    BY <2>1 DEF Flags, StartsShut
  <2>5. TimersOK'
    BY <2>1 DEF TimersOK, PollStep, Poll, Unread
  <2> QED
    BY <2>3, <2>4, <2>5
<1> QED
  BY <1>1, <1>2

\* A good sample restarts the timer of the gate's state when the gate changes,
\* and only then.
LEMMA ReadStep == ASSUME IInv, PollStep, NEW open \in BOOLEAN, SampleRead(open) PROVE IInv'
<1> USE Constants DEF IInv
<1>1. ok' = open /\ valid' = TRUE /\ degraded' = FALSE
  BY DEF SampleRead, Recovered, Evaluated
<1>2. Flags' /\ StartsShut'
  BY <1>1 DEF Flags, StartsShut
<1>3. Numbers'
  <2>1. errStreak' \in 0 .. ErrFailOpen + 1 /\ 0 \in Ages
    BY DEF SampleRead, Numbers, Ages
  <2>2. okSince' \in {0, okSince} /\ closedSince' \in {0, closedSince}
    BY DEF SampleRead
  <2> QED
    BY <2>1, <2>2, PollNumbers DEF Numbers
<1>4. UNCHANGED <<shut, closed>>
  BY DEF PollStep, Poll
<1>5. CASE Changes(open)
  <2>1. (open => okSince' = 0) /\ (~open => closedSince' = 0) /\ flipped' = 0
    BY <1>1, <1>5 DEF SampleRead, Changes, PollStep, Poll
  <2> QED
    BY <1>1, <1>2, <1>3, <1>4, <2>1 DEF Numbers, TimersOK, Ages, Unread
<1>6. CASE ~Changes(open)
  <2>1. UNCHANGED <<ok, valid, okSince, closedSince, flipped>>
    BY <1>1, <1>6 DEF SampleRead, Changes, PollStep, Poll, Flags
  <2> QED
    BY <1>2, <1>3, <1>4, <2>1 DEF TimersOK, Unread
<1> QED
  BY <1>5, <1>6

\* Every step of the monitor and of the controller keeps the types and what the
\* timers stand for.
LEMMA InvStep == IInv /\ [Next]_vars => IInv'
<1> SUFFICES ASSUME IInv, [Next]_vars PROVE IInv'
  OBVIOUS
<1> USE Constants DEF IInv
<1>1. CASE ReadClosed
  <2>1. Flags' /\ StartsShut'
    BY <1>1 DEF ReadClosed, monitorVars, Flags, StartsShut
  <2>2. Numbers'
    BY <1>1 DEF ReadClosed, ClosedFor, monitorVars, Numbers, Ages, Unread
  <2>3. TimersOK'
    BY <1>1 DEF ReadClosed, ClosedFor, monitorVars, Numbers, TimersOK, Ages, Unread
  <2> QED
    BY <2>1, <2>2, <2>3
<1>2. CASE Step
  <2>1. Flags' /\ StartsShut' /\ TimersOK'
    BY <1>2 DEF Step, monitorVars, Flags, StartsShut, TimersOK
  <2>2. Numbers'
    BY <1>2 DEF Step, Scale, monitorVars, Numbers, Ages, Unread
  <2> QED
    BY <2>1, <2>2
<1>3. CASE PollStep
  BY <1>3, FailsStep, ReadStep DEF PollStep, Poll
<1>4. CASE Tick
  <2>1. Flags' /\ StartsShut'
    BY <1>4 DEF Tick, Pass, Flags, StartsShut
  <2>2. Numbers'
    BY <1>4, OlderAges DEF Tick, Pass, Numbers, Ages, Unread
  <2>3. TimersOK'
    BY <1>4, OlderAges DEF Tick, Pass, Numbers, TimersOK, Ages, Older
  <2> QED
    BY <2>1, <2>2, <2>3
<1>5. CASE UNCHANGED vars
  BY <1>5 DEF vars, monitorVars, Flags, Numbers, StartsShut, TimersOK, Ages, Unread
<1> QED
  BY <1>1, <1>2, <1>3, <1>4, <1>5 DEF Next

\* The inductive invariant holds of every reachable state.
LEMMA Invariance == Spec => []IInv
  BY InitStep, InvStep, PTL DEF Spec

\* The gate, its timers and the capacity keep their ranges, whatever is sampled:
\* the capacity stays within 1 and max_workers.
THEOREM CapacityTyped == Spec => []TypeOK
<1>1. IInv => TypeOK
  BY TypeParts DEF IInv
<1> QED
  BY Invariance, <1>1, PTL

\* ClosedFor (monitor.go) is exactly how long the gate has been closed.
THEOREM ClosedForIsExact == Spec => []ClosedForExact
<1>1. IInv => ClosedForExact
  BY DEF IInv, TimersOK, ClosedForExact, ClosedFor
<1> QED
  BY Invariance, <1>1, PTL

\* OpenFor (monitor.go) never claims more than the gate has been open.
THEOREM OpenForIsModest == Spec => []OpenForNeverMore
<1>1. IInv => OpenForNeverMore
  BY DEF IInv, Numbers, TimersOK, OpenForNeverMore, OpenFor, Ages
<1> QED
  BY Invariance, <1>1, PTL

\* The controller (scheduler.go: Run) takes a slot away only when the gate has
\* not been open once for a whole scale_down_after, although it acts on a
\* reading that a poll may have overtaken.
THEOREM LoweredOnlyUnderPressure == Spec => LoweredUnderPressure
<1>1. IInv /\ [Next]_vars => (capacity' < capacity => shut >= ScaleDownAfter)
  <2> SUFFICES ASSUME IInv, [Next]_vars, capacity' < capacity PROVE shut >= ScaleDownAfter
    OBVIOUS
  <2>1. Step
    BY DEF Next, vars, ReadClosed, PollStep, Tick, IInv, Numbers
  <2>2. Due
    BY <2>1 DEF Step, Scale, IInv, Numbers
  <2> QED
    BY <2>1, <2>2, Constants
    DEF Step, Due, Sustained, IInv, Numbers, TimersOK, Ages, Unread
<1>2. IInv /\ [Next]_vars => [capacity' < capacity => shut >= ScaleDownAfter]_vars
  BY <1>1
<1> QED
  BY Invariance, <1>2, PTL DEF Spec, LoweredUnderPressure

-----------------------------------------------------------------------------
(* One slot per interval *)

\* The slots lost since the gate closed, and the instants they took at least: the
\* first may be lost at once, each further one an interval after the one before.
Lost == before - capacity
Spent == (Lost - 1) * ScaleDownAfter
EvenSteps ==
    valid /\ ~ok => /\ capacity <= before
                    /\ capacity < before => flipped = MaxAge \/ flipped >= lastStep + Spent

\* The products of the intervals.
LEMMA Products ==
    ASSUME NEW s \in Nat, NEW k \in Nat
    PROVE  (k + 1) * s = k * s + s /\ k * s \in Nat
  OBVIOUS
LEMMA FewerIntervals ==
    ASSUME NEW s \in Nat, NEW k \in Nat, NEW m \in Nat, k <= m
    PROVE  k * s <= m * s
<1>1. m - k \in Nat /\ (m - k) * s \in Nat
  OBVIOUS
<1>2. m * s = k * s + (m - k) * s
  OBVIOUS
<1> QED
  BY <1>1, <1>2, Products
LEMMA WholeIntervals ==
    ASSUME NEW x \in Nat, NEW s \in Nat \ {0}, NEW k \in Nat, x >= k * s
    PROVE  x \div s >= k
  OBVIOUS

\* MaxAge is long enough for the slots that can be lost.
LEMMA AgesSuffice == ASSUME NEW k \in Nat, k <= MaxCap PROVE k * ScaleDownAfter <= MaxAge
<1>1. k * ScaleDownAfter <= MaxCap * ScaleDownAfter
  BY Constants, FewerIntervals
<1>2. MaxCap * ScaleDownAfter <= MaxAge /\ MaxCap * ScaleDownAfter \in Nat /\ k * ScaleDownAfter \in Nat
  BY CapacityAssumption, Constants, Products
<1> QED
  BY <1>1, <1>2, Constants

\* Losing a slot: the interval since the last one is over.
LEMMA ScaleKeepsSteps == ASSUME IInv, EvenSteps, Step PROVE EvenSteps'
<1> USE Constants DEF IInv
<1>1. UNCHANGED <<valid, ok, flipped, before>>
  BY DEF Step, monitorVars
<1> SUFFICES ASSUME valid, ~ok
             PROVE  capacity' <= before
                    /\ (capacity' < before => flipped = MaxAge \/ flipped >= lastStep' + Spent')
  BY <1>1 DEF EvenSteps
<1>2. /\ capacity \in Nat /\ before \in Nat /\ capacity <= before /\ before <= MaxCap /\ flipped \in Nat
      /\ lastStep \in Nat /\ MaxAge \in Nat
  BY DEF EvenSteps, Numbers, Ages
<1>3. CASE UNCHANGED <<capacity, lastStep>>
  BY <1>1, <1>3 DEF EvenSteps, Spent, Lost
<1>4. CASE capacity' = capacity + 1
  <2>1. Sustained(OpenFor)
    BY <1>2, <1>4 DEF Step, Scale
  <2> QED
    BY <2>1 DEF Sustained, OpenFor
<1>5. CASE lastStep' = 0 /\ MayStep /\ capacity' \in {capacity - 1, capacity}
  <2>1. lastStep >= ScaleDownAfter
    BY <1>5 DEF MayStep
  <2>2. capacity' <= before
    BY <1>2, <1>5
  <2>3. CASE capacity = before
    <3> SUFFICES ASSUME capacity' < before
                 PROVE  flipped = MaxAge \/ flipped >= lastStep' + Spent'
      BY <2>2
    <3>1. capacity' = capacity - 1 /\ before' = before
      BY <1>1, <1>2, <1>5, <2>3
    <3>2. Lost' - 1 = 0
      BY <1>2, <2>3, <3>1 DEF Lost
    <3>3. Spent' = (Lost' - 1) * ScaleDownAfter
      BY DEF Spent
    <3>4. Spent' = 0
      BY <3>2, <3>3
    <3> QED
      BY <1>2, <1>5, <3>4
  <2>4. CASE capacity < before
    <3> DEFINE k == Lost - 1
    <3>1. k \in Nat
      BY <1>2, <2>4 DEF Lost
    <3>2. (k + 1) * ScaleDownAfter = k * ScaleDownAfter + ScaleDownAfter
          /\ k * ScaleDownAfter \in Nat
      BY <3>1, Products
    <3>3. before' = before /\ (capacity' = capacity \/ capacity' = capacity - 1)
      BY <1>1, <1>5
    <3>4. Lost' - 1 = k \/ Lost' - 1 = k + 1
      BY <1>2, <3>3 DEF Lost
    <3>5. Spent' = (Lost' - 1) * ScaleDownAfter /\ Spent = k * ScaleDownAfter
      BY DEF Spent
    <3>6. Spent' = Spent \/ Spent' = Spent + ScaleDownAfter
      BY <3>2, <3>4, <3>5
    <3>7. Spent \in Nat /\ (flipped = MaxAge \/ flipped >= lastStep + Spent)
      BY <2>4, <3>2, <3>5 DEF EvenSteps
    <3>8. lastStep' = 0 /\ ScaleDownAfter \in Nat
      BY <1>5
    <3> HIDE DEF k
    <3>9. flipped = MaxAge \/ flipped >= lastStep' + Spent'
      BY <1>2, <2>1, <3>6, <3>7, <3>8
    <3> QED
      BY <2>2, <3>9
  <2> QED
    BY <1>2, <2>3, <2>4
<1> QED
  BY <1>2, <1>3, <1>4, <1>5 DEF Step, Scale, Due

\* Every step keeps to one slot per interval.
LEMMA EvenStep == IInv /\ EvenSteps /\ [Next]_vars => EvenSteps'
<1> SUFFICES ASSUME IInv, EvenSteps, [Next]_vars PROVE EvenSteps'
  OBVIOUS
<1> USE Constants DEF IInv
<1>1. CASE Step
  BY <1>1, ScaleKeepsSteps
<1>2. CASE ReadClosed \/ UNCHANGED vars
  <2>1. UNCHANGED <<valid, ok, flipped, before, capacity, lastStep>>
    BY <1>2 DEF ReadClosed, vars, monitorVars
  <2> QED
    BY <2>1 DEF EvenSteps, Spent, Lost
<1>3. CASE PollStep
  <2>1. UNCHANGED <<capacity, lastStep>> /\ capacity \in Nat
    BY <1>3 DEF PollStep, Numbers
  <2>2. CASE valid' /\ ~ok' /\ (ok \/ ~valid)
    <3>1. before' = capacity
      BY <1>3, <2>2 DEF PollStep
    <3> QED
      BY <2>1, <3>1 DEF EvenSteps
  <2>3. CASE valid /\ ~ok /\ valid' /\ ~ok'
    <3>1. before' = before
      BY <1>3, <2>3 DEF PollStep
    <3>2. flipped' = flipped
      <4>1. flipped' = IF ok' # ok \/ (valid' /\ ~valid) THEN 0 ELSE flipped
        BY <1>3 DEF PollStep, Poll
      <4>2. ok \in BOOLEAN /\ ok' \in BOOLEAN
        BY InvStep DEF Flags
      <4>3. ok' = ok
        BY <2>3, <4>2, Zenon
      <4> QED
        BY <2>3, <4>1, <4>3
    <3> QED
      BY <2>1, <2>3, <3>1, <3>2 DEF EvenSteps, Spent, Lost
  <2> QED
    BY <2>2, <2>3 DEF EvenSteps
<1>4. CASE Tick
  <2>1. UNCHANGED <<valid, ok, capacity, before>> /\ flipped' = Older(flipped) /\ lastStep' = Older(lastStep)
    BY <1>4 DEF Tick, Pass
  <2>2. Spent' = Spent
    BY <2>1 DEF Spent, Lost
  <2> SUFFICES ASSUME valid, ~ok, capacity < before
               PROVE  flipped' = MaxAge \/ flipped' >= lastStep' + Spent
    BY <2>1, <2>2 DEF EvenSteps
  <2>3. Spent \in Nat
    <3>1. Lost - 1 \in Nat
      BY DEF Lost, Numbers
    <3> QED
      BY <3>1, Products DEF Spent
  <2>4. flipped = MaxAge \/ flipped >= lastStep + Spent
    BY DEF EvenSteps
  <2>5. flipped \in 0 .. MaxAge /\ lastStep \in 0 .. MaxAge
    BY DEF Numbers, Ages
  <2> QED
    BY <2>1, <2>3, <2>4, <2>5 DEF Older
<1> QED
  BY <1>1, <1>2, <1>3, <1>4 DEF Next

\* Sustained pressure degrades the capacity a notch at a time (scheduler.go, Run).
THEOREM NotchAtATime == Spec => []NoCollapse
<1>1. Init => EvenSteps
  BY DEF Init, MonitorInit, EvenSteps
<1>2. IInv /\ EvenSteps => NoCollapse
  <2> SUFFICES ASSUME IInv, EvenSteps, valid, ~ok
               PROVE  capacity + 1 + (flipped \div ScaleDownAfter) >= before
    BY DEF NoCollapse
  <2>1. /\ capacity \in Nat /\ before \in Nat /\ capacity <= before /\ before <= MaxCap /\ flipped \in Nat
        /\ lastStep \in Nat /\ flipped \div ScaleDownAfter \in Nat
    BY Constants DEF IInv, EvenSteps, Numbers, Ages
  <2>2. CASE capacity = before
    BY <2>1, <2>2
  <2>3. CASE capacity < before
    <3>1. Lost - 1 \in Nat /\ Lost - 1 <= MaxCap /\ Lost = before - capacity
      BY <2>1, <2>3, Constants DEF Lost
    <3>2. Spent <= MaxAge /\ Spent \in Nat
      BY <3>1, AgesSuffice, Products, Constants DEF Spent
    <3>3. flipped >= (Lost - 1) * ScaleDownAfter
      BY <2>1, <2>3, <3>2 DEF EvenSteps, Spent
    <3>4. flipped \div ScaleDownAfter >= Lost - 1
      BY <2>1, <3>1, <3>3, WholeIntervals, Constants
    <3> QED
      BY <2>1, <3>1, <3>4
  <2> QED
    BY <2>1, <2>2, <2>3
<1> QED
  BY <1>1, <1>2, EvenStep, Invariance, PTL DEF Spec
===============================================================================
