------------------------------ MODULE Capacity ------------------------------
(***************************************************************************)
(* The monitor and the part of the controller loop that scales the worker  *)
(* capacity by it (Run, internal/scheduler/scheduler.go).  The controller  *)
(* reads the monitor twice in a tick, each time under the monitor's lock   *)
(* but not across, so that a poll may come between.  The rest of the tick  *)
(* is in Scheduler, which allows any durations.                            *)
(***************************************************************************)
EXTENDS Monitor

CONSTANTS MaxCap,           \* maxCap: resources.max_workers
          ScaleDownAfter    \* stepEvery: resources.scale_down_after, in polls

ASSUME CapacityAssumption ==
    /\ MaxCap \in Nat \ {0} /\ ScaleDownAfter \in Nat \ {0}
    /\ MaxAge >= MaxCap * ScaleDownAfter      \* long enough to lose every slot

VARIABLES
    capacity,
    lastStep,   \* the age of the timestamp
    closed,     \* ClosedFor as the tick has read it, or Unread
    before      \* history: the capacity when the gate last closed

Unread == MaxAge + 1
vars == <<monitorVars, capacity, lastStep, closed, before>>

Init ==
    /\ MonitorInit
    /\ capacity = MaxCap /\ lastStep = MaxAge
    /\ closed = Unread /\ before = MaxCap

\* The controller reads the monitor every 250 ms, several times between polls.
ReadClosed ==
    /\ closed = Unread /\ closed' = ClosedFor
    /\ UNCHANGED <<monitorVars, capacity, lastStep, before>>

Sustained(time) == time >= ScaleDownAfter
MayStep_Unthrottled == lastStep \in 0 .. MaxAge                          \* mutant
MayStep == lastStep >= ScaleDownAfter

Due_Early == closed > 0 /\ MayStep                                       \* mutant
Due == Sustained(closed) /\ MayStep

Scale ==
    \/ /\ Due
       /\ capacity' = IF capacity > 1 THEN capacity - 1 ELSE capacity
       /\ lastStep' = 0
    \/ /\ ~Due /\ capacity < MaxCap /\ Sustained(OpenFor) /\ MayStep
       /\ capacity' = capacity + 1 /\ lastStep' = 0
    \/ /\ ~Due /\ ~(capacity < MaxCap /\ Sustained(OpenFor) /\ MayStep)
       /\ UNCHANGED <<capacity, lastStep>>

Step ==
    /\ closed # Unread /\ closed' = Unread
    /\ Scale
    /\ UNCHANGED <<monitorVars, before>>

PollStep ==
    /\ Poll
    /\ before' = IF valid' /\ ~ok' /\ (ok \/ ~valid) THEN capacity ELSE before
    /\ UNCHANGED <<capacity, lastStep, closed>>

\* A tick takes no time a poll could tell: what it has read is acted on within
\* the instant.
Tick ==
    /\ Pass /\ closed = Unread
    /\ lastStep' = Older(lastStep)
    /\ UNCHANGED <<capacity, closed, before>>

Next == ReadClosed \/ Step \/ PollStep \/ Tick

Spec == Init /\ [][Next]_vars

\* The tickers of the monitor and of the controller keep ticking: neither waits
\* for the other, and an instant in which the controller has run comes to an end.
FairSpec == Spec /\ WF_vars(ReadClosed) /\ WF_vars(Step) /\ WF_vars(PollStep) /\ SF_vars(Tick)

-----------------------------------------------------------------------------
(* Properties *)

TypeOK ==
    /\ MonitorTypeOK
    /\ capacity \in 1 .. MaxCap /\ before \in 1 .. MaxCap
    /\ lastStep \in 0 .. MaxAge /\ closed \in 0 .. Unread

\* A worker slot is taken away only after a whole scale_down_after in which the
\* gate was not open once, whatever poll comes between the controller's reading
\* and its step (config.go:143-144, D7).
LoweredUnderPressure ==
    [][capacity' < capacity => shut >= ScaleDownAfter]_vars

\* Sustained pressure degrades the capacity a notch at a time (scheduler.go:
\* 226-229): since the gate closed, one slot per interval, and one more for the
\* step the controller had under way.
NoCollapse ==
    valid /\ ~ok => capacity + 1 + (flipped \div ScaleDownAfter) >= before

\* Once the gate stays open, by good samples or because a sampler that always
\* fails no longer guards anything (F6), every slot comes back (D7).
Recovers ==
    \/ <>[](ok /\ errStreak = 0)
    \/ <>[](errStreak > 0)
    => <>[](capacity = MaxCap)
==============================================================================
