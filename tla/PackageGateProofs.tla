---------------------------- MODULE PackageGateProofs ----------------------------
(***************************************************************************)
(* The package gate of Scheduler, proved for any workers, packages and     *)
(* limit if no preparation fails.  A package may drop out of the gate      *)
(* while a worker still looks at its stale head; what keeps the worker     *)
(* from running it is that the file is then no longer queued, unless it    *)
(* was put back after its run.                                             *)
(***************************************************************************)
EXTENDS SchedulerProofs

\* Where a worker holds a head it has read, and where a file it has claimed.
Heading == {"try", "prep", "claim"}
Running == {"gated", "start", "exec", "post", "rec"}

\* The packages let through the gate never exceed the limit.
LimitOK == PackageLimit > 0 => Cardinality(ActivePackages) <= PackageLimit

\* Without failing preparations a preparation ends early for a cancellation only.
PrepareOK == \A w \in Workers :
    pc[w] \notin {"failrec", "failfin"} /\ (pc[w] = "failed" => cancelled)

\* A worker with a file that was never run works for a package let through the
\* gate, or only heads for a package that was aborted since.
PassOK == ~cancelled => \A w \in Workers : recs[cur[w]] = 0 =>
    /\ pc[w] \in Running => active[at[w]]
    /\ pc[w] \in Heading /\ ~aborted[at[w]] => active[at[w]]

-----------------------------------------------------------------------------
(* What a step leaves alone *)

\* A worker's step leaves the file of every other worker alone.
LEMMA OwnFile ==
  ASSUME TypeOK, NEW w \in Workers, NEW v \in Workers, v # w, Worker(w)
  PROVE  cur'[v] = cur[v]
<1> USE DEF TypeOK, localVars, workerVars, Goto, SkipPackage
<1>1. CASE WorkerLoop(w)
  BY <1>1 DEF WorkerLoop, Top, Exit, NoWork, AwaitGate, Unclaim, Release
<1>2. CASE NextWork(w)
  BY <1>2 DEF NextWork, Look, TryAcquire, Prepare, PrepareFailed, RecordPrepareError,
     FinishPrepareError, Claim, PutBack
<1>3. CASE RunFile(w)
  BY <1>3 DEF RunFile, StartFile, RunCommands, CheckCancelled, RecordOutcome, Finish, Abort
<1> QED  BY <1>1, <1>2, <1>3 DEF Worker

\* The controller and the environment leave the files, the queues' flags and the
\* records of the session's files alone.
LEMMA ControllerKeeps ==
  ASSUME Controller \/ Cancel \/ Pressure \/ Done \/ UNCHANGED vars
  PROVE  UNCHANGED <<cur, pending, aborted, active, recs>>
  BY DEF Controller, StartRun, LeaveLoop, Tick, Return, Cancel, Pressure, Done, vars, queueVars,
     storeVars, workerVars, localVars

\* A record once made is never taken back.
LEMMA RecordsStay ==
  ASSUME TypeOK, LocalOK, [Next]_vars, NEW f \in AllFiles, recs'[f] = 0
  PROVE  recs[f] = 0
<1>1. CASE UNCHANGED recs
  BY <1>1
<1>2. ASSUME NEW w \in Workers, RecordPrepareError(w) \/ RecordOutcome(w) PROVE recs[f] = 0
  <2>1. cur[w] \in AllFiles
    BY <1>2, Constants DEF RecordPrepareError, RecordOutcome, LocalOK, WorkingPcs
  <2>2. recs' = [recs EXCEPT ![cur[w]] = IF @ < RecCap THEN @ + 1 ELSE @]
    BY <1>2 DEF RecordPrepareError, RecordOutcome, RecordFile
  <2>3. recs \in [AllFiles -> 0 .. RecCap]
    BY DEF TypeOK
  <2>4. CASE f = cur[w]
    BY <2>1, <2>2, <2>3, <2>4 DEF RecCap
  <2>5. CASE f # cur[w]
    BY <2>1, <2>2, <2>3, <2>5
  <2> QED  BY <2>4, <2>5
<1>3. CASE \A w \in Workers : ~RecordPrepareError(w) /\ ~RecordOutcome(w)
  BY <1>1, <1>3 DEF vars, storeVars, Next, Controller, StartRun, LeaveLoop, Tick, Return, Cancel, Pressure,
     Done, Worker, WorkerLoop, NextWork, RunFile, Top, Exit, NoWork, AwaitGate, Unclaim, Release,
     Look, TryAcquire, Prepare, PrepareFailed, FinishPrepareError, Claim, PutBack, StartFile,
     RunCommands, CheckCancelled, Finish, Abort
<1> QED  BY <1>2, <1>3

\* A package leaves the gate when its last file is finished, or when it is aborted,
\* by a worker inside its sandbox.
LEMMA Leaves ==
  ASSUME TypeOK, LocalOK, PrepareOK, [Next]_vars, NEW p \in Pkgs, active[p], ~active'[p]
  PROVE  \E v \in Workers : /\ at[v] = p
                            /\ \/ pc[v] = "fin" /\ Idle(p)
                               \/ pc[v] = "abort" /\ aborted'[p]
<1>1. PICK v \in Workers : Look(v) \/ Finish(v) \/ FinishPrepareError(v) \/ Abort(v)
  BY WorkersAssumption DEF vars, queueVars, Next, Controller, StartRun, LeaveLoop, Tick, Return, Cancel,
     Pressure, Done, Worker, WorkerLoop, NextWork, RunFile, Top, Exit, NoWork, AwaitGate, Unclaim,
     Release, TryAcquire, Prepare, PrepareFailed, RecordPrepareError, Claim, PutBack, StartFile,
     RunCommands, CheckCancelled, RecordOutcome
<1>2. ~Look(v)
  BY DEF Look, TypeOK
<1>3. ~FinishPrepareError(v)
  BY DEF FinishPrepareError, PrepareOK
<1>4. CASE Finish(v)
  <2>1. pc[v] = "fin" /\ active' = [active EXCEPT ![at[v]] = @ /\ ~Idle(at[v])]
    BY <1>4 DEF Finish, FileFinished
  <2>2. active \in [Pkgs -> BOOLEAN]
    BY DEF TypeOK
  <2>3. at[v] = p
    BY <2>1, <2>2
  <2>4. active'[p] = (active[p] /\ ~Idle(p))
    BY <2>1, <2>2, <2>3
  <2>5. Idle(p)
    BY <2>4
  <2> QED  BY <2>1, <2>3, <2>5
<1>5. CASE Abort(v)
  <2>1. pc[v] = "abort" /\ active' = [active EXCEPT ![at[v]] = FALSE]
        /\ aborted' = [aborted EXCEPT ![at[v]] = TRUE]
    BY <1>5 DEF Abort
  <2>2. at[v] = p /\ aborted'[p]
    BY <2>1 DEF TypeOK
  <2> QED  BY <2>1, <2>2
<1> QED  BY <1>1, <1>2, <1>3, <1>4, <1>5

-----------------------------------------------------------------------------
(* The parts of the invariant survive every step *)

\* Packages are finitely many.
LEMMA FinitePackages == \A S \in SUBSET Pkgs : IsFiniteSet(S) /\ Cardinality(S) \in Nat
<1>1. IsFiniteSet(Pkgs)
  BY Constants, FS_Interval DEF Pkgs
<1> QED  BY <1>1, FS_Subset, FS_CardinalityType

\* A worker lets a package through only when fewer than the limit are inside.
LEMMA LimitStep == TypeOK /\ LimitOK /\ [Next]_vars => LimitOK'
<1> SUFFICES ASSUME TypeOK, LimitOK, [Next]_vars, PackageLimit > 0
             PROVE  Cardinality(ActivePackages') <= PackageLimit
  BY DEF LimitOK
<1>1. PackageLimit \in Nat /\ active \in [Pkgs -> BOOLEAN] /\ ActivePackages \subseteq Pkgs
      /\ Cardinality(ActivePackages) <= PackageLimit
  BY ConfigAssumption DEF TypeOK, ActivePackages, LimitOK
<1>2. IsFiniteSet(ActivePackages) /\ Cardinality(ActivePackages) \in Nat
  BY <1>1, FinitePackages
<1>3. ASSUME ActivePackages' \subseteq ActivePackages
      PROVE  Cardinality(ActivePackages') <= PackageLimit
  <2>1. Cardinality(ActivePackages') <= Cardinality(ActivePackages) /\ Cardinality(ActivePackages') \in Nat
    BY <1>2, <1>3, FS_Subset, FS_CardinalityType
  <2> QED  BY <1>1, <1>2, <2>1
<1>4. ASSUME NEW w \in Workers, Look(w) PROVE Cardinality(ActivePackages') <= PackageLimit
  <2>1. CASE UNCHANGED active
    BY <1>3, <2>1 DEF ActivePackages
  <2>2. CASE at[w] \in Pkgs /\ Eligible(at[w]) /\ active' = [active EXCEPT ![at[w]] = TRUE]
    <3>1. ActivePackages' = ActivePackages \cup {at[w]}
      BY <1>1, <2>2 DEF ActivePackages
    <3>2. CASE active[at[w]]
      BY <1>3, <2>2, <3>1, <3>2 DEF ActivePackages
    <3>3. CASE ~active[at[w]]
      <4>1. Cardinality(ActivePackages) < PackageLimit
        BY <2>2, <3>3 DEF Eligible
      <4>2. Cardinality(ActivePackages \cup {at[w]}) = Cardinality(ActivePackages) + 1
        BY <1>2, <3>3, FS_AddElement DEF ActivePackages
      <4> QED  BY <1>1, <1>2, <3>1, <4>1, <4>2
    <3> QED  BY <3>2, <3>3
  <2> QED  BY <1>4, <2>1, <2>2 DEF Look
<1>5. ASSUME NEW w \in Workers, Finish(w) \/ FinishPrepareError(w) \/ Abort(w)
      PROVE  Cardinality(ActivePackages') <= PackageLimit
  <2>1. \A p \in Pkgs : active'[p] => active[p]
    BY <1>1, <1>5 DEF Finish, FinishPrepareError, Abort, FileFinished
  <2> QED  BY <1>3, <2>1 DEF ActivePackages
<1>6. CASE \A w \in Workers : ~Look(w) /\ ~Finish(w) /\ ~FinishPrepareError(w) /\ ~Abort(w)
  <2>1. UNCHANGED active
    BY <1>6 DEF vars, queueVars, Next, Controller, StartRun, LeaveLoop, Tick, Return, Cancel,
     Pressure, Done, Worker, WorkerLoop, NextWork, RunFile, Top, Exit, NoWork, AwaitGate, Unclaim,
     Release, TryAcquire, Prepare, PrepareFailed, RecordPrepareError, Claim, PutBack, StartFile,
     RunCommands, CheckCancelled, RecordOutcome
  <2> QED  BY <1>3, <2>1 DEF ActivePackages
<1> QED  BY <1>4, <1>5, <1>6

\* A preparation that can fail is one that a cancellation may cut short.
LEMMA PrepareStep ==
  ASSUME "prepare" \notin Faults, TypeOK, PhaseOK, PrepareOK, [Next]_vars PROVE PrepareOK'
<1> SUFFICES ASSUME NEW v \in Workers, pc'[v] \in {"failrec", "failfin", "failed"}
             PROVE  pc'[v] = "failed" /\ cancelled'
  BY DEF PrepareOK
<1>1. cancelled => cancelled'
  BY DEF vars, envVars, Next, Controller, StartRun, LeaveLoop, Tick, Return, Cancel, Pressure,
     Done, Worker, WorkerLoop, NextWork, RunFile, Top, Exit, NoWork, AwaitGate, Unclaim, Release,
     Look, TryAcquire, Prepare, PrepareFailed, RecordPrepareError, FinishPrepareError, Claim,
     PutBack, StartFile, RunCommands, CheckCancelled, RecordOutcome, Finish, Abort
<1>2. CASE pc'[v] = pc[v]
  BY <1>1, <1>2 DEF PrepareOK
<1>3. CASE Controller \/ Cancel \/ Pressure \/ Done \/ UNCHANGED vars
  <2>1. CASE pc[v] = "off"
    BY <1>3, <2>1 DEF Controller, StartRun, LeaveLoop, Tick, ScaleDown, Recover, RampUp, Goto, Return,
       Cancel, Pressure, Done, vars, workerVars, TypeOK
  <2>2. CASE pc[v] # "off"
    BY <1>2, <1>3, <2>2, ControllerPlace
  <2> QED  BY <2>1, <2>2
<1>4. CASE Worker(v)
  <2>1. Prepare(v) \/ PrepareFailed(v) \/ RecordPrepareError(v)
    BY <1>4 DEF Worker, WorkerLoop, NextWork, RunFile, Top, Exit, NoWork, AwaitGate, Unclaim,
       Release, Look, TryAcquire, FinishPrepareError, Claim, PutBack, StartFile, RunCommands,
       CheckCancelled, RecordOutcome, Finish, Abort, Goto, SkipPackage, TypeOK
  <2>2. Prepare(v)
    BY <2>1 DEF PrepareOK, PrepareFailed, RecordPrepareError, Goto, TypeOK
  <2>3. PrepareMayFail(at[v]) /\ pc'[v] = "failed"
    BY <2>2 DEF Prepare, Goto, TypeOK
  <2> QED  BY <1>1, <2>3 DEF PrepareMayFail
<1>5. CASE \E w \in Workers \ {v} : Worker(w)
  BY <1>2, <1>5, OwnPlace
<1> QED  BY <1>3, <1>4, <1>5 DEF Next

\* While a worker heads for a file that was never run, the file is still queued: its
\* package cannot drop out of the gate.
LEMMA HeadKeepsSlot ==
  ASSUME TypeOK, LocalOK, HolderOK, NoFileLost, PrepareOK, ~cancelled,
         NEW w \in Workers, pc[w] = "try", recs[cur[w]] = 0, ~aborted[at[w]],
         NEW v \in Workers, pc[v] = "fin", at[v] = at[w]
  PROVE  ~Idle(at[w])
<1>1. at[w] \in Pkgs /\ cur[w] \in Unresolved(at[w])
  BY DEF LocalOK, WorkingPcs, Unresolved
<1>2. cur[w] \in Range(pending[at[w]]) \/ \E u \in Workers : Carries(u, at[w], cur[w])
  BY <1>1 DEF NoFileLost
<1>3. ASSUME NEW u \in Workers, Carries(u, at[w], cur[w]) PROVE FALSE
  <2>1. pc[u] \in Running /\ at[u] = at[v]
    BY <1>3 DEF Carries, PrepareOK, LocalOK, Running
  <2>2. u = v
    BY <2>1 DEF HolderOK, HoldingPcs, Running
  <2> QED  BY <2>1, <2>2 DEF Running
<1>4. pending[at[w]] # <<>>
  BY <1>2, <1>3, EmptyRange
<1> QED  BY <1>4 DEF Idle

\* A worker goes on to run only what it headed for inside the gate.
LEMMA PassStep ==
  ASSUME IInv, PrepareOK, PassOK, [Next]_vars PROVE PassOK'
<1> SUFFICES ASSUME ~cancelled', NEW w \in Workers, recs'[cur'[w]] = 0,
                    pc'[w] \in Running \/ (pc'[w] \in Heading /\ ~aborted'[at'[w]])
             PROVE  active'[at'[w]]
  BY DEF PassOK
<1>1. TypeOK /\ LocalOK /\ HolderOK /\ NoFileLost /\ PhaseOK
  BY DEF IInv
<1>2. ~cancelled
  BY DEF vars, envVars, Next, Controller, StartRun, LeaveLoop, Tick, Return, Cancel, Pressure,
     Done, Worker, WorkerLoop, NextWork, RunFile, Top, Exit, NoWork, AwaitGate, Unclaim, Release,
     Look, TryAcquire, Prepare, PrepareFailed, RecordPrepareError, FinishPrepareError, Claim,
     PutBack, StartFile, RunCommands, CheckCancelled, RecordOutcome, Finish, Abort
<1>3. ASSUME pc'[w] = pc[w], at'[w] = at[w], cur'[w] = cur[w] PROVE active'[at'[w]]
  <2>1. at[w] \in Pkgs /\ cur[w] \in AllFiles
    BY <1>1, <1>3, Constants DEF LocalOK, WorkingPcs, Running, Heading
  <2>2. recs[cur[w]] = 0
    BY <1>1, <1>3, <2>1, RecordsStay
  <2>3. aborted[at[w]] => aborted'[at[w]]
    BY <1>1, <2>1, AbortedStays
  <2>4. active[at[w]]
    BY <1>2, <1>3, <2>2, <2>3 DEF PassOK
  <2>5. ASSUME ~active'[at[w]] PROVE FALSE
    <3>1. PICK v \in Workers : /\ at[v] = at[w]
                               /\ \/ pc[v] = "fin" /\ Idle(at[w])
                                  \/ pc[v] = "abort" /\ aborted'[at[w]]
      BY <1>1, <2>1, <2>4, <2>5, Leaves
    <3>2. CASE pc[w] = "try"
      <4>1. pc[v] = "fin" /\ Idle(at[w]) /\ ~aborted[at[w]]
        BY <1>3, <2>3, <3>1, <3>2 DEF Running
      <4> QED  BY <1>1, <1>2, <2>2, <3>1, <3>2, <4>1, HeadKeepsSlot
    <3>3. CASE pc[w] # "try"
      <4>1. pc[w] \in HoldingPcs /\ pc[v] \in HoldingPcs /\ pc[w] # pc[v]
        BY <1>3, <3>1, <3>3 DEF HoldingPcs, Running, Heading
      <4> QED  BY <1>1, <3>1, <4>1 DEF HolderOK
    <3> QED  BY <3>2, <3>3
  <2> QED  BY <1>3, <2>5
<1>4. CASE Controller \/ Cancel \/ Pressure \/ Done \/ UNCHANGED vars
  <2>1. CASE pc[w] = "off"
    BY <1>1, <1>4, <2>1 DEF Controller, StartRun, LeaveLoop, Tick, ScaleDown, Recover, RampUp, Goto,
       Return, Cancel, Pressure, Done, vars, workerVars, TypeOK, Running, Heading
  <2>2. CASE pc[w] # "off"
    BY <1>1, <1>3, <1>4, <2>2, ControllerPlace, ControllerKeeps
  <2> QED  BY <2>1, <2>2
<1>5. CASE \E v \in Workers \ {w} : Worker(v)
  BY <1>1, <1>3, <1>5, OwnPlace, OwnFile
<1>6. CASE Worker(w)
  <2>1. \/ Look(w) \/ TryAcquire(w) \/ Prepare(w) \/ Claim(w) \/ AwaitGate(w) \/ StartFile(w)
        \/ RunCommands(w) \/ CheckCancelled(w)
    BY <1>1, <1>6 DEF Worker, WorkerLoop, NextWork, RunFile, Top, Exit, NoWork, Unclaim, Release,
       PrepareFailed, RecordPrepareError, FinishPrepareError, PutBack, RecordOutcome, Finish,
       Abort, Goto, SkipPackage, TypeOK, Running, Heading
  <2>2. CASE Look(w)
    <3>1. at[w] \in Pkgs /\ at' = at /\ active' = [active EXCEPT ![at[w]] = TRUE]
      BY <1>1, <2>2 DEF Look, Goto, SkipPackage, TypeOK, Running, Heading
    <3> QED  BY <1>1, <3>1 DEF TypeOK
  <2>3. CASE ~Look(w)
    <3>1. UNCHANGED <<active, aborted, recs>>
      BY <2>1, <2>3 DEF TryAcquire, Prepare, Claim, AwaitGate, StartFile, RunCommands, CheckCancelled,
         queueVars, storeVars
    <3>2. /\ at'[w] = at[w] /\ cur'[w] = cur[w]
          /\ \/ pc[w] \in Running
             \/ pc[w] \in Heading /\ ~aborted[at[w]]
      BY <1>1, <2>1, <2>3, <3>1 DEF TryAcquire, Prepare, Claim, AwaitGate, StartFile, RunCommands,
         CheckCancelled, Goto, SkipPackage, localVars, TypeOK, Running, Heading
    <3> QED  BY <1>2, <3>1, <3>2 DEF PassOK
  <2> QED  BY <2>2, <2>3
<1> QED  BY <1>4, <1>5, <1>6 DEF Next

\* No package is active before the first worker has started.
LEMMA GateInit == Init => LimitOK /\ PrepareOK /\ PassOK
<1> SUFFICES ASSUME Init PROVE LimitOK /\ PrepareOK /\ PassOK
  OBVIOUS
<1>1. ActivePackages = {}
  BY DEF Init, ActivePackages
<1>2. LimitOK
  BY <1>1, FS_EmptySet, ConfigAssumption DEF LimitOK
<1> QED  BY <1>2 DEF Init, PrepareOK, PassOK, Running, Heading

\* scheduling.concurrent_packages, with any number of workers and whatever heads
\* they read, requeue and claim: if no preparation fails, the packages whose files
\* are run for the first time stay within the limit until the session is cancelled.
THEOREM GateHolds == "prepare" \notin Faults => (Spec => []FirstRunsGated)
<1> SUFFICES ASSUME "prepare" \notin Faults PROVE Spec => []FirstRunsGated
  OBVIOUS
<1>1. IInv /\ LimitOK /\ PrepareOK /\ PassOK /\ [Next]_vars => LimitOK' /\ PrepareOK' /\ PassOK'
  BY LimitStep, PrepareStep, PassStep DEF IInv
<1>2. IInv /\ LimitOK /\ PassOK => FirstRunsGated
  <2> SUFFICES ASSUME IInv, LimitOK, PassOK, PackageLimit > 0, ~cancelled
               PROVE  Cardinality(FirstRuns) <= PackageLimit
    BY DEF FirstRunsGated
  <2>1. FirstRuns \subseteq ActivePackages /\ ActivePackages \subseteq Pkgs
    BY DEF FirstRuns, ActivePackages, PassOK, Running, IInv, LocalOK, WorkingPcs
  <2>2. Cardinality(FirstRuns) <= Cardinality(ActivePackages) /\ Cardinality(FirstRuns) \in Nat
        /\ Cardinality(ActivePackages) \in Nat
    BY <2>1, FinitePackages, FS_Subset, FS_CardinalityType
  <2>3. Cardinality(ActivePackages) <= PackageLimit /\ PackageLimit \in Nat
    BY ConfigAssumption DEF LimitOK
  <2> QED  BY <2>2, <2>3
<1> QED  BY <1>1, <1>2, GateInit, Invariance, PTL DEF Spec
================================================================================
