------------------------------- MODULE Monitor -------------------------------
(***************************************************************************)
(* The resource monitor (internal/monitor/monitor.go): poll reads the      *)
(* sampler, opens or closes the gate, and keeps the two timers the         *)
(* scheduler scales its capacity by (ClosedFor, OpenFor).  A timestamp is  *)
(* kept as its age, cut off at MaxAge.                                     *)
(***************************************************************************)
EXTENDS Naturals

CONSTANTS ErrFailOpen,  \* errFailOpen: errors in a row before the guard is disabled
          MaxAge        \* bound on the ages that are told apart

ASSUME MonitorAssumption == ErrFailOpen \in Nat \ {0} /\ MaxAge \in Nat \ {0}

VARIABLES
    polls,          \* the polls still due at this instant
    ok,             \* the gate is open
    okSince, closedSince,   \* ages of the timestamps
    valid,          \* the gate has been evaluated once
    errStreak,      \* up to ErrFailOpen + 1
    degraded,
    flipped,        \* history: the age of the last change of the gate
    shut            \* history: the instants since one ended with the gate open

monitorVars == <<polls, ok, okSince, closedSince, valid, errStreak, degraded, flipped, shut>>

\* Run polls twice at once (its warm-up), then once a tick.
MonitorInit ==
    /\ polls = 2
    /\ ok = FALSE /\ okSince = 0 /\ closedSince = 0
    /\ valid = FALSE
    /\ errStreak = 0 /\ degraded = FALSE
    /\ flipped = 0 /\ shut = 0

Older(age) == IF age < MaxAge THEN age + 1 ELSE age

\* The branch of a failed sample: the last good sample stays, until too many
\* fail in a row; then the guard is disabled, once.
FailsOpen(streak) == streak >= ErrFailOpen /\ ~degraded

OpenNow_TimerKept == ok' = TRUE /\ valid' = TRUE /\ UNCHANGED okSince     \* mutant
OpenNow == ok' = TRUE /\ valid' = TRUE /\ okSince' = 0

SampleFails ==
    /\ errStreak' = IF errStreak <= ErrFailOpen THEN errStreak + 1 ELSE errStreak
    /\ IF FailsOpen(errStreak + 1)
       THEN degraded' = TRUE /\ OpenNow
       ELSE UNCHANGED <<degraded, ok, valid, okSince>>
    /\ UNCHANGED closedSince

\* The branch of a good sample, which is within the thresholds (gateLocked) or
\* beyond them: the timer of the gate's state starts when the gate changes, or
\* with the first evaluation.
Changes_Always(open) == open \in BOOLEAN                                 \* mutant
Changes(open) == ~valid \/ open # ok

Recovered_Sticky == UNCHANGED degraded                                   \* mutant
Recovered == degraded' = FALSE

Evaluated_NotValid == UNCHANGED valid                                    \* mutant
Evaluated == valid' = TRUE

SampleRead(open) ==
    /\ errStreak' = 0 /\ Recovered
    /\ Evaluated
    /\ ok' = open
    /\ okSince' = IF open /\ Changes(open) THEN 0 ELSE okSince
    /\ closedSince' = IF ~open /\ Changes(open) THEN 0 ELSE closedSince

Poll ==
    /\ polls > 0 /\ polls' = polls - 1
    /\ SampleFails \/ \E open \in BOOLEAN : SampleRead(open)
    /\ flipped' = IF ok' # ok \/ (valid' /\ ~valid) THEN 0 ELSE flipped
    /\ UNCHANGED shut

Pass ==
    /\ polls = 0 /\ polls' = 1
    /\ okSince' = Older(okSince) /\ closedSince' = Older(closedSince)
    /\ flipped' = Older(flipped)
    /\ shut' = IF ok THEN 0 ELSE Older(shut)
    /\ UNCHANGED <<ok, valid, errStreak, degraded>>

ClosedFor == IF valid /\ ~ok THEN closedSince ELSE 0
OpenFor == IF valid /\ ok THEN okSince ELSE 0

-----------------------------------------------------------------------------
(* Properties *)

MonitorTypeOK ==
    /\ polls \in 0 .. 2
    /\ {ok, valid, degraded} \subseteq BOOLEAN
    /\ {okSince, closedSince, flipped, shut} \subseteq 0 .. MaxAge
    /\ errStreak \in 0 .. ErrFailOpen + 1
    /\ ~valid => ~ok /\ ~degraded

\* ClosedFor, which capacity is scaled down by, is exactly how long the gate
\* has been closed: no reading or error restarts or prolongs it.
ClosedForExact == valid /\ ~ok => ClosedFor = flipped

\* OpenFor, which capacity is recovered by, never claims more than the gate
\* has really been open.
OpenForNeverMore == OpenFor <= flipped
=============================================================================
