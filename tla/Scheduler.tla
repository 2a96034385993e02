------------------------------ MODULE Scheduler ------------------------------
(***************************************************************************)
(* One mutation session (internal/scheduler/scheduler.go): the controller  *)
(* loop of Run, the worker goroutines it spawns, the per-package queues    *)
(* they claim files from under s.mu, the sandbox lock of each package      *)
(* (internal/workspace/workspace.go: Sandbox.mu, prepared, dirty) and the  *)
(* results handed to the report store.                                     *)
(*                                                                         *)
(* Every action is one critical section of the code, or one call made      *)
(* between two critical sections; pc[w] names the place a worker is at, so *)
(* the gaps in which the code holds no lock are explicit states.           *)
(***************************************************************************)
EXTENDS Integers, Sequences, FiniteSets, Functions

CONSTANTS
    Workers,            \* worker slots; resources.max_workers is their number
    NPkgs,              \* number of discovered packages
    Queue,              \* Queue[p]: the files of p with a test mapping, in order
    Unmapped,           \* Unmapped[p]: the files of p that are only reported "skipped"
    Earlier,            \* the sets of files an earlier session may have recorded
    PackageLimit,       \* scheduling.concurrent_packages (0: no limit)
    Calculated,         \* scheduling.ramp_up = "calculated"
    WorkersAfterCache,  \* scheduling.workers_after_cache
    ScaleDownEnabled,   \* resources.scale_down
    ScaleDownAfter,     \* resources.scale_down_after, in ticks of the controller
    AbortOnTimeout,     \* mutation.timeout.on_timeout = "abort_package"
    Faults,             \* what may go wrong around the program (see FaultKinds)
    NoFile, NoWorker    \* a worker without a file, a sandbox nobody holds

Pkgs == 1 .. NPkgs
MaxCap == Cardinality(Workers)
Runnable(p) == Range(Queue[p])
AllRunnable == UNION {Runnable(p) : p \in Pkgs}
AllUnmapped == UNION {Unmapped[p] : p \in Pkgs}
AllFiles == AllRunnable \cup AllUnmapped

\* "prepare": Sandbox.prepare fails; "restore": RestorePristine fails;
\* "record": the store cannot write; "cancel": Ctrl-C; "timeout", "oom": a step
\* is killed; "start": the command cannot be started; "pressure": the resource
\* gate is closed at first (no sample yet), or closes and reopens.
FaultKinds == {"prepare", "restore", "record", "cancel", "timeout", "oom",
               "start", "pressure"}
FileResults == {"error", "timeout", "oom", "other"}
StoredResults == FileResults \cup {"none", "earlier", "skipped"}

\* The claims a worker holds between popping a file and counting it finished.
ClaimedPcs == {"gated", "start", "exec", "post", "rec", "fin", "unclaim",
               "failrec", "failfin"}
\* The places where a worker holds its package's sandbox.
HoldingPcs == {"prep", "claim", "gated", "start", "exec", "post", "rec", "fin",
               "abort", "release"}
WorkerPcs == ClaimedPcs \cup HoldingPcs \cup
             {"off", "top", "scan", "try", "failed", "putback", "nowork", "exit"}

ASSUME WorkersAssumption == IsFiniteSet(Workers) /\ Workers # {} /\ NoWorker \notin Workers
ASSUME QueueAssumption ==
    /\ NPkgs \in Nat
    /\ Queue \in [Pkgs -> Seq(AllRunnable)]
    /\ \A p \in Pkgs : IsInjective(Queue[p])
    /\ \A p, q \in Pkgs : p # q => Runnable(p) \cap Runnable(q) = {}
    /\ DOMAIN Unmapped = Pkgs
    /\ AllRunnable \cap AllUnmapped = {}
    /\ NoFile \notin AllFiles
ASSUME ConfigAssumption ==
    /\ Earlier \subseteq SUBSET AllFiles
    /\ PackageLimit \in Nat /\ ScaleDownAfter \in Nat
    /\ Faults \subseteq FaultKinds
    /\ {Calculated, WorkersAfterCache, ScaleDownEnabled, AbortOnTimeout} \subseteq BOOLEAN

RecCap == 2     \* bound on the record() calls counted per file

VARIABLES
    pending,    \* pkgState.pending
    aborted,    \* pkgState.aborted
    active,     \* pkgState.active
    capacity,   \* Scheduler.capacity
    resolved,   \* Scheduler.resolved: files recorded by an earlier session
    recs,       \* record() calls made for a file this session, up to RecCap
    store,      \* what the report holds for a file
    holder,     \* Sandbox.mu of a package
    prepared,   \* Sandbox.prepared
    dirty,      \* Sandbox.dirty
    cancelled,  \* ctx.Err() # nil
    gate,       \* Monitor.Allowed()
    ctl,        \* where the goroutine of Run is
    pc,         \* where a worker goroutine is
    at,         \* the position of its scan; later the package it works for
    cur,        \* the file it read at the head of the queue; later its claim
    out,        \* the outcome of its step
    ranOne      \* worker's local ranOne

queueVars == <<pending, aborted, active>>
storeVars == <<recs, store>>
sandboxVars == <<holder, prepared, dirty>>
envVars == <<cancelled, gate>>
localVars == <<at, cur, out, ranOne>>
workerVars == <<pc, at, cur, out, ranOne>>
vars == <<queueVars, capacity, resolved, storeVars, sandboxVars, envVars, ctl, workerVars>>

-----------------------------------------------------------------------------
(* Derived state *)

Live == {w \in Workers : pc[w] # "off"}                 \* Scheduler.active
ActivePackages == {p \in Pkgs : active[p]}              \* activePackagesLocked
Drained == \A p \in Pkgs : aborted[p] \/ pending[p] = <<>>  \* pendingCountLocked() = 0
Idle(p) == aborted[p] \/ pending[p] = <<>>

\* cacheReadyForMoreWorkers: beyond the first worker, wait until every package
\* is prepared, aborted or out of pending files.
CacheReady == \/ ~WorkersAfterCache
              \/ Cardinality(Live) <= 1
              \/ \A p \in Pkgs : Idle(p) \/ prepared[p]

\* SkipDone: the queue without the files that are already recorded, in order.
\* (A set, with the one sequence it allows as its member.)
SkipDone_KeepsAll(q, done) == {q}                                      \* mutant
SkipDone(q, done) ==
    {s \in UNION {[1 .. n -> Range(q)] : n \in 0 .. Len(q)} :
        /\ Range(s) = Range(q) \ done
        /\ \A i, j \in DOMAIN s : i < j =>
             \E k, l \in DOMAIN q : k < l /\ q[k] = s[i] /\ q[l] = s[j]}

RecordedStore(f, r) ==      \* Store.Record, which may fail
    \/ store' = [store EXCEPT ![f] = r]
    \/ "record" \in Faults /\ UNCHANGED store

RecordFile(f, r) ==         \* Scheduler.record
    /\ RecordedStore(f, r)
    /\ recs' = [recs EXCEPT ![f] = IF @ < RecCap THEN @ + 1 ELSE @]

\* fileFinished: with nothing left to run the package leaves the gate.
FileFinished_NeverLeaves(p) == p \in Pkgs /\ UNCHANGED active           \* mutant
FileFinished(p) == active' = [active EXCEPT ![p] = @ /\ ~Idle(p)]

Goto(w, l) == pc' = [pc EXCEPT ![w] = l]
SkipPackage(w) ==           \* the continue of nextWork's loop
    /\ Goto(w, "scan")
    /\ at' = [at EXCEPT ![w] = @ + 1]
    /\ cur' = [cur EXCEPT ![w] = NoFile]
Requeue(p, f) == pending' = [pending EXCEPT ![p] = <<f>> \o @]
Unlock(p) == holder' = [holder EXCEPT ![p] = NoWorker]

-----------------------------------------------------------------------------
(* New, then SkipDone with what the store already held *)

Init ==
    /\ resolved \in Earlier
    /\ pending \in {g \in [Pkgs -> UNION {SkipDone(Queue[p], resolved) : p \in Pkgs}] :
                      \A p \in Pkgs : g[p] \in SkipDone(Queue[p], resolved)}
    /\ aborted = [p \in Pkgs |-> FALSE]
    /\ active = [p \in Pkgs |-> FALSE]
    /\ capacity = MaxCap
    /\ recs = [f \in AllFiles |-> 0]
    /\ store = [f \in AllFiles |-> IF f \in resolved THEN "earlier" ELSE "none"]
    /\ holder = [p \in Pkgs |-> NoWorker]
    /\ prepared = [p \in Pkgs |-> FALSE]
    /\ dirty = [p \in Pkgs |-> FALSE]
    /\ cancelled = FALSE
    /\ gate \in (IF "pressure" \in Faults THEN BOOLEAN ELSE {TRUE})
    /\ ctl = "init"
    /\ pc = [w \in Workers |-> "off"]
    /\ at = [w \in Workers |-> 1]
    /\ cur = [w \in Workers |-> NoFile]
    /\ out = [w \in Workers |-> "none"]
    /\ ranOne = [w \in Workers |-> FALSE]

-----------------------------------------------------------------------------
(* The goroutine of Run *)

\* Record the unmapped files as skipped, unless an earlier session recorded
\* them, then spawn the first worker (or, calculated, all of them). A failing
\* write ends Run before any worker exists.
StartRun ==
    /\ ctl = "init"
    /\ \/ /\ ctl' = "loop"
          /\ store' = [f \in AllFiles |->
                         IF f \in AllUnmapped \ resolved THEN "skipped" ELSE store[f]]
          /\ \E first \in SUBSET Workers :
               /\ Cardinality(first) = (IF Calculated THEN capacity ELSE 1)
               /\ pc' = [w \in Workers |-> IF w \in first THEN "top" ELSE "off"]
       \/ /\ "record" \in Faults /\ AllUnmapped \ resolved # {}
          /\ ctl' = "failed"
          /\ \E some \in SUBSET (AllUnmapped \ resolved) :
               store' = [f \in AllFiles |-> IF f \in some THEN "skipped" ELSE store[f]]
          /\ UNCHANGED pc
    /\ UNCHANGED <<queueVars, capacity, resolved, recs, sandboxVars, envVars, localVars>>

LeaveLoop ==
    /\ ctl = "loop" /\ (cancelled \/ Drained)
    /\ ctl' = "wait"
    /\ UNCHANGED <<queueVars, capacity, resolved, storeVars, sandboxVars, envVars, workerVars>>

\* The durations one tick may see: ClosedFor is 0 while the gate is open,
\* OpenFor while it is closed. All are cut off at ScaleDownAfter.
Durations(running) == IF running THEN 0 .. ScaleDownAfter ELSE {0}
ScaleDownDue(closed, since) ==
    ScaleDownEnabled /\ closed >= ScaleDownAfter /\ since >= ScaleDownAfter
RecoverDue_Unbounded(open, since) ==                                    \* mutant
    ScaleDownEnabled /\ open >= ScaleDownAfter /\ since >= ScaleDownAfter
RecoverDue(open, since) ==
    /\ ScaleDownEnabled /\ capacity < MaxCap
    /\ open >= ScaleDownAfter /\ since >= ScaleDownAfter

ScaleDown(closed, since) ==
    /\ ScaleDownDue(closed, since)
    /\ capacity' = IF capacity > 1 THEN capacity - 1 ELSE capacity
    /\ UNCHANGED pc

Recover(closed, open, since) ==
    /\ ~ScaleDownDue(closed, since) /\ RecoverDue(open, since)
    /\ capacity' = capacity + 1
    /\ UNCHANGED pc

RampUp(closed, open, since) ==
    /\ ~ScaleDownDue(closed, since) /\ ~RecoverDue(open, since)
    /\ gate
    /\ Cardinality(Live) < capacity /\ CacheReady
    /\ \E w \in Workers : pc[w] = "off" /\ Goto(w, "top")
    /\ UNCHANGED capacity

Tick ==
    /\ ctl = "loop" /\ ~cancelled /\ ~Drained
    /\ \E closed \in Durations(~gate), open \in Durations(gate), since \in 0 .. ScaleDownAfter :
         \/ ScaleDown(closed, since)
         \/ Recover(closed, open, since)
         \/ RampUp(closed, open, since)
    /\ UNCHANGED <<queueVars, resolved, storeVars, sandboxVars, envVars, ctl, localVars>>

Return_NoWait ==                                                        \* mutant
    /\ ctl = "wait" /\ ctl' = "returned"
    /\ UNCHANGED <<queueVars, capacity, resolved, storeVars, sandboxVars, envVars, workerVars>>
Return ==                   \* wg.Wait, then return ctx.Err()
    /\ ctl = "wait" /\ Live = {}
    /\ ctl' = "returned"
    /\ UNCHANGED <<queueVars, capacity, resolved, storeVars, sandboxVars, envVars, workerVars>>

Controller == StartRun \/ LeaveLoop \/ Tick \/ Return

-----------------------------------------------------------------------------
(* worker: the slot's main loop *)

Top(w) ==
    /\ pc[w] = "top"
    /\ Goto(w, IF cancelled \/ Cardinality(Live) > capacity THEN "exit" ELSE "scan")
    /\ at' = [at EXCEPT ![w] = 1]
    /\ UNCHANGED <<queueVars, capacity, resolved, storeVars, sandboxVars, envVars, ctl,
                   cur, out, ranOne>>

Exit(w) ==                  \* the deferred s.active--, wg.Done
    /\ pc[w] = "exit"
    /\ Goto(w, "off")
    /\ at' = [at EXCEPT ![w] = 1]
    /\ ranOne' = [ranOne EXCEPT ![w] = FALSE]
    /\ UNCHANGED <<queueVars, capacity, resolved, storeVars, sandboxVars, envVars, ctl,
                   cur, out>>

\* nextWork found nothing: leave when nothing is pending or the back-off sleep
\* is interrupted, else try again.
NoWork(w) ==
    /\ pc[w] = "nowork"
    /\ \/ (Drained \/ cancelled) /\ Goto(w, "exit")
       \/ ~Drained /\ Goto(w, "top")
    /\ at' = [at EXCEPT ![w] = 1]
    /\ UNCHANGED <<queueVars, capacity, resolved, storeVars, sandboxVars, envVars, ctl,
                   cur, out, ranOne>>

\* The cooldown after the worker's last file and the wait for the resource gate.
AwaitGate_DeafToCancel(w) ==                                            \* mutant
    /\ pc[w] = "gated" /\ gate /\ Goto(w, "start")
    /\ UNCHANGED <<queueVars, capacity, resolved, storeVars, sandboxVars, envVars, ctl, localVars>>
AwaitGate(w) ==
    /\ pc[w] = "gated"
    /\ \/ gate /\ Goto(w, "start") /\ UNCHANGED holder
       \/ /\ cancelled /\ (ranOne[w] \/ ~gate)
          /\ Unlock(at[w]) /\ Goto(w, "unclaim")
    /\ UNCHANGED <<queueVars, capacity, resolved, storeVars, prepared, dirty, envVars, ctl,
                   localVars>>

Unclaim(w) ==               \* requeue, then return
    /\ pc[w] = "unclaim"
    /\ Requeue(at[w], cur[w])
    /\ Goto(w, "exit")
    /\ cur' = [cur EXCEPT ![w] = NoFile]
    /\ UNCHANGED <<aborted, active, capacity, resolved, storeVars, sandboxVars, envVars, ctl,
                   at, out, ranOne>>

Release(w) ==
    /\ pc[w] = "release"
    /\ Unlock(at[w])
    /\ Goto(w, "top")
    /\ at' = [at EXCEPT ![w] = 1]
    /\ cur' = [cur EXCEPT ![w] = NoFile]
    /\ out' = [out EXCEPT ![w] = "none"]
    /\ ranOne' = [ranOne EXCEPT ![w] = TRUE]
    /\ UNCHANGED <<queueVars, capacity, resolved, storeVars, prepared, dirty, envVars, ctl>>

-----------------------------------------------------------------------------
(* nextWork: the scan over the packages *)

\* The package-concurrency gate: an active package stays eligible, a new one
\* starts only under the limit.
Eligible_OffByOne(p) ==                                                 \* mutant
    ~Idle(p) /\ (PackageLimit = 0 \/ active[p] \/ Cardinality(ActivePackages) <= PackageLimit)
Eligible(p) ==
    /\ ~Idle(p)
    /\ \/ PackageLimit = 0
       \/ active[p]
       \/ Cardinality(ActivePackages) < PackageLimit

Look(w) ==
    /\ pc[w] = "scan"
    /\ \/ /\ cancelled \/ at[w] > NPkgs
          /\ Goto(w, "nowork")
          /\ UNCHANGED <<active, at, cur>>
       \/ /\ ~cancelled /\ at[w] \in Pkgs /\ ~Eligible(at[w])
          /\ SkipPackage(w)
          /\ UNCHANGED active
       \/ /\ ~cancelled /\ at[w] \in Pkgs /\ Eligible(at[w])
          /\ active' = [active EXCEPT ![at[w]] = TRUE]
          /\ cur' = [cur EXCEPT ![w] = Head(pending[at[w]])]
          /\ Goto(w, "try")
          /\ UNCHANGED at
    /\ UNCHANGED <<pending, aborted, capacity, resolved, storeVars, sandboxVars, envVars, ctl,
                   out, ranOne>>

Free_Always(p) == p \in Pkgs                                            \* mutant
Free(p) == holder[p] = NoWorker

TryAcquire(w) ==            \* TryLock on the sandbox
    /\ pc[w] = "try"
    /\ \/ /\ Free(at[w])
          /\ holder' = [holder EXCEPT ![at[w]] = w]
          /\ Goto(w, "prep")
          /\ UNCHANGED <<at, cur>>
       \/ /\ ~Free(at[w])
          /\ SkipPackage(w)
          /\ UNCHANGED holder
    /\ UNCHANGED <<queueVars, capacity, resolved, storeVars, prepared, dirty, envVars, ctl,
                   out, ranOne>>

\* Sandbox.prepare: nothing to do for a prepared, clean sandbox; otherwise it
\* syncs (and bootstraps under ctx on first use) and may fail.
NeedsPrepare_OnlyFirst(p) == ~prepared[p]                               \* mutant
NeedsPrepare(p) == ~prepared[p] \/ dirty[p]
PrepareMayFail(p) == \/ NeedsPrepare(p) /\ "prepare" \in Faults
                     \/ ~prepared[p] /\ cancelled

Prepare(w) ==
    /\ pc[w] = "prep"
    /\ \/ /\ ~NeedsPrepare(at[w])
          /\ Goto(w, "claim")
          /\ UNCHANGED sandboxVars
       \/ /\ NeedsPrepare(at[w])
          /\ prepared' = [prepared EXCEPT ![at[w]] = TRUE]
          /\ dirty' = [dirty EXCEPT ![at[w]] = FALSE]
          /\ Goto(w, "claim")
          /\ UNCHANGED holder
       \/ /\ PrepareMayFail(at[w])
          /\ Unlock(at[w])
          /\ Goto(w, "failed")
          /\ UNCHANGED <<prepared, dirty>>
    /\ UNCHANGED <<queueVars, capacity, resolved, storeVars, envVars, ctl, localVars>>

HeadIs_NotEmpty(p, f) == pending[p] # <<>> /\ f # NoFile                \* mutant
HeadIs(p, f) == pending[p] # <<>> /\ Head(pending[p]) = f
Pop(p) == pending' = [pending EXCEPT ![p] = Tail(@)]

\* A preparation failed: a cancelled session leaves the file alone; otherwise
\* drop it as an error, if it is still at the head.
PrepareFailed(w) ==
    /\ pc[w] = "failed"
    /\ \/ /\ cancelled
          /\ Goto(w, "nowork")
          /\ cur' = [cur EXCEPT ![w] = NoFile]
          /\ UNCHANGED <<pending, at>>
       \/ /\ ~cancelled /\ ~HeadIs(at[w], cur[w])
          /\ SkipPackage(w)
          /\ UNCHANGED pending
       \/ /\ ~cancelled /\ HeadIs(at[w], cur[w])
          /\ Pop(at[w])
          /\ Goto(w, "failrec")
          /\ UNCHANGED <<at, cur>>
    /\ UNCHANGED <<aborted, active, capacity, resolved, storeVars, sandboxVars, envVars, ctl,
                   out, ranOne>>

RecordPrepareError(w) ==
    /\ pc[w] = "failrec"
    /\ RecordFile(cur[w], "error")
    /\ Goto(w, "failfin")
    /\ UNCHANGED <<queueVars, capacity, resolved, sandboxVars, envVars, ctl, localVars>>

FinishPrepareError(w) ==
    /\ pc[w] = "failfin"
    /\ FileFinished(at[w])
    /\ SkipPackage(w)
    /\ UNCHANGED <<pending, aborted, capacity, resolved, storeVars, sandboxVars, envVars, ctl,
                   out, ranOne>>

\* The head is looked at again once the sandbox is held: pop it, or give the
\* sandbox back and requeue the file that was read before.
Claim(w) ==
    /\ pc[w] = "claim"
    /\ \/ /\ ~aborted[at[w]] /\ HeadIs(at[w], cur[w])
          /\ Pop(at[w])
          /\ Goto(w, "gated")
          /\ UNCHANGED holder
       \/ /\ aborted[at[w]] \/ ~HeadIs(at[w], cur[w])
          /\ Unlock(at[w])
          /\ Goto(w, "putback")
          /\ UNCHANGED pending
    /\ UNCHANGED <<aborted, active, capacity, resolved, storeVars, prepared, dirty, envVars, ctl,
                   localVars>>

\* Two workers that keep reading each other's requeued heads make the code's
\* queue grow without bound. The bound: at QueueSlack entries more than the
\* queue had at first, a worker waits while some other worker can still act.
QueueSlack == 1
MayGrow(p) == \/ Len(pending[p]) < Len(Queue[p]) + QueueSlack
              \/ cancelled
              \/ \A v \in Live : pc[v] = "putback"

PutBack(w) ==               \* requeue of the mismatch branch
    /\ pc[w] = "putback" /\ MayGrow(at[w])
    /\ Requeue(at[w], cur[w])
    /\ SkipPackage(w)
    /\ UNCHANGED <<aborted, active, capacity, resolved, storeVars, sandboxVars, envVars, ctl,
                   out, ranOne>>

-----------------------------------------------------------------------------
(* runFile *)

StartFile(w) ==             \* RestorePristine
    /\ pc[w] = "start"
    /\ \/ Goto(w, "exec") /\ UNCHANGED out
       \/ /\ "restore" \in Faults
          /\ out' = [out EXCEPT ![w] = "error"]
          /\ Goto(w, "rec")
    /\ UNCHANGED <<queueVars, capacity, resolved, storeVars, sandboxVars, envVars, ctl,
                   at, cur, ranOne>>

\* The outcomes runCommands can have (module Step has the inside of it).
StepOutcomes == {"other"}
                \cup ({"timeout", "oom"} \cap Faults)
                \cup (IF "start" \in Faults THEN {"error"} ELSE {})
                \cup (IF cancelled THEN {"cancelled"} ELSE {})

\* runCommands, and MarkDirty after a kill.
RunCommands(w) ==
    /\ pc[w] = "exec"
    /\ \E r \in StepOutcomes :
         /\ out' = [out EXCEPT ![w] = r]
         /\ dirty' = [dirty EXCEPT ![at[w]] = @ \/ r \in {"timeout", "oom"}]
    /\ Goto(w, "post")
    /\ UNCHANGED <<queueVars, capacity, resolved, storeVars, holder, prepared, envVars, ctl,
                   at, cur, ranOne>>

\* The interruption check between the step and its record.
CheckCancelled_Missing(w) ==                                            \* mutant
    /\ pc[w] = "post" /\ Goto(w, "rec")
    /\ UNCHANGED <<queueVars, capacity, resolved, storeVars, sandboxVars, envVars, ctl, localVars>>
CheckCancelled(w) ==
    /\ pc[w] = "post"
    /\ \/ cancelled /\ Goto(w, "release") /\ dirty' = [dirty EXCEPT ![at[w]] = TRUE]
       \/ ~cancelled /\ Goto(w, "rec") /\ UNCHANGED dirty
    /\ UNCHANGED <<queueVars, capacity, resolved, storeVars, holder, prepared, envVars, ctl,
                   localVars>>

RecordOutcome(w) ==
    /\ pc[w] = "rec"
    /\ RecordFile(cur[w], out[w])
    /\ Goto(w, "fin")
    /\ UNCHANGED <<queueVars, capacity, resolved, sandboxVars, envVars, ctl, localVars>>

Finish(w) ==
    /\ pc[w] = "fin"
    /\ FileFinished(at[w])
    /\ Goto(w, IF out[w] = "timeout" /\ AbortOnTimeout THEN "abort" ELSE "release")
    /\ UNCHANGED <<pending, aborted, capacity, resolved, storeVars, sandboxVars, envVars, ctl,
                   localVars>>

Abort_OnlyDrops(w) ==                                                   \* mutant
    /\ pc[w] = "abort"
    /\ active' = [active EXCEPT ![at[w]] = FALSE]
    /\ pending' = [pending EXCEPT ![at[w]] = <<>>]
    /\ Goto(w, "release")
    /\ UNCHANGED <<aborted, capacity, resolved, storeVars, sandboxVars, envVars, ctl, localVars>>
Abort(w) ==                 \* on_timeout: abort_package
    /\ pc[w] = "abort"
    /\ aborted' = [aborted EXCEPT ![at[w]] = TRUE]
    /\ active' = [active EXCEPT ![at[w]] = FALSE]
    /\ pending' = [pending EXCEPT ![at[w]] = <<>>]
    /\ Goto(w, "release")
    /\ UNCHANGED <<capacity, resolved, storeVars, sandboxVars, envVars, ctl, localVars>>

WorkerLoop(w) == Top(w) \/ Exit(w) \/ NoWork(w) \/ AwaitGate(w) \/ Unclaim(w) \/ Release(w)
NextWork(w) == Look(w) \/ TryAcquire(w) \/ Prepare(w) \/ PrepareFailed(w)
               \/ RecordPrepareError(w) \/ FinishPrepareError(w) \/ Claim(w) \/ PutBack(w)
RunFile(w) == StartFile(w) \/ RunCommands(w) \/ CheckCancelled(w) \/ RecordOutcome(w)
              \/ Finish(w) \/ Abort(w)
Worker(w) == WorkerLoop(w) \/ NextWork(w) \/ RunFile(w)

-----------------------------------------------------------------------------
(* The environment: Ctrl-C and the monitor's verdict *)

Ended == ctl \in {"returned", "failed"}

Cancel ==
    /\ "cancel" \in Faults /\ ~cancelled /\ ~Ended
    /\ cancelled' = TRUE
    /\ UNCHANGED <<queueVars, capacity, resolved, storeVars, sandboxVars, gate, ctl, workerVars>>

Pressure ==
    /\ "pressure" \in Faults /\ ~Ended
    /\ gate' = ~gate
    /\ UNCHANGED <<queueVars, capacity, resolved, storeVars, sandboxVars, cancelled, ctl,
                   workerVars>>

Done == Ended /\ UNCHANGED vars     \* main.go has gone on to the summary

Next == Controller \/ (\E w \in Workers : Worker(w)) \/ Cancel \/ Pressure \/ Done

Spec == Init /\ [][Next]_vars

\* The Go scheduler runs every goroutine that can run, the ticker ticks, a short
\* sleep returns, and every step ends: for RunCommands this takes a timeout, output
\* pipes no escaped process holds, and a console that takes the live output
\* (Step!StepEnds).
Fairness == WF_vars(Controller) /\ \A w \in Workers : WF_vars(Worker(w))
FairSpec == Spec /\ Fairness

-----------------------------------------------------------------------------
(* Properties *)

TypeOK ==
    /\ pending \in [Pkgs -> Seq(AllRunnable)]
    /\ \A p \in Pkgs : Range(pending[p]) \subseteq Runnable(p)
    /\ aborted \in [Pkgs -> BOOLEAN]
    /\ active \in [Pkgs -> BOOLEAN]
    /\ capacity \in 1 .. MaxCap
    /\ resolved \in Earlier
    /\ recs \in [AllFiles -> 0 .. RecCap]
    /\ store \in [AllFiles -> StoredResults \cup {"cancelled"}]
    /\ holder \in [Pkgs -> Workers \cup {NoWorker}]
    /\ prepared \in [Pkgs -> BOOLEAN]
    /\ dirty \in [Pkgs -> BOOLEAN]
    /\ cancelled \in BOOLEAN
    /\ gate \in BOOLEAN
    /\ ctl \in {"init", "loop", "wait", "returned", "failed"}
    /\ pc \in [Workers -> WorkerPcs]
    /\ at \in [Workers -> 1 .. NPkgs + 1]
    /\ cur \in [Workers -> AllRunnable \cup {NoFile}]
    /\ out \in [Workers -> FileResults \cup {"none", "cancelled"}]
    /\ ranOne \in [Workers -> BOOLEAN]

\* A package's sandbox serves one worker at a time from preparation to release
\* (workspace.go: TryAcquire .. Release), so no two steps share a directory.
SandboxExclusive ==
    \A w, v \in Workers :
        w # v /\ pc[w] \in HoldingPcs /\ pc[v] \in HoldingPcs => at[w] # at[v]

\* The claim of a worker that has popped a file and not yet recorded it.
Carries(w, p, f) == pc[w] \in {"gated", "start", "exec", "post", "rec", "unclaim", "failrec"}
                    /\ at[w] = p /\ cur[w] = f
Unresolved(p) == {f \in Runnable(p) \ resolved : recs[f] = 0}

\* However head reads, acquires, failed preparations and requeues interleave,
\* a file without a record is still queued or is in some worker's hands, unless
\* its package was aborted or the session cancelled (nextWork, requeue).
NoFileLost ==
    ~cancelled =>
        \A p \in Pkgs : ~aborted[p] =>
            \A f \in Unresolved(p) :
                f \in Range(pending[p]) \/ \E w \in Workers : Carries(w, p, f)

\* Run leaves its loop on a count of the pending files alone, while claimed
\* files are still running: when it returns uncancelled, every file of every
\* package that was not aborted has been recorded (Run, wg.Wait).
ReturnComplete ==
    ctl = "returned" /\ ~cancelled =>
        \A p \in Pkgs : aborted[p] \/ Unresolved(p) = {}

\* The slot of the package gate is never left behind: an active package has
\* files to run or a worker that will reach fileFinished for it.
SlotNotLeaked ==
    ~cancelled =>
        \A p \in ActivePackages :
            \/ pending[p] # <<>>
            \/ \E w \in Workers : pc[w] \in ClaimedPcs \cup {"putback"} /\ at[w] = p

\* A step's commands start only in a sandbox that no killed step has left
\* dirty since its last sync (MarkDirty .. prepare).
StepsStartClean == \A w \in Workers : pc[w] = "exec" => ~dirty[at[w]]

\* A result an earlier session recorded is never overwritten (F1: SkipDone for
\* mapped files, the resolved check of Run for unmapped ones).
PriorKept == \A f \in resolved : store[f] = "earlier"

\* An interrupted step is never recorded (F2): what is written is an outcome
\* of a step that was not cut short by the cancellation.
NothingFabricated ==
    \A w \in Workers : pc[w] \in {"rec", "fin", "abort"} => out[w] # "cancelled"

\* What a later session resumes from is true, although Ctrl-C may come between the
\* end of a step and its record and skip records are written at the start (F1, F2).
StoreTruthful == PriorKept /\ NothingFabricated

\* The packages with a file popped and not finished.
InFlight == {at[w] : w \in {v \in Workers : pc[v] \in ClaimedPcs}}

\* scheduling.concurrent_packages: never more packages in flight than the limit.
PackageGate == PackageLimit > 0 => Cardinality(InFlight) <= PackageLimit

\* Of PackageGate, what holds if no preparation fails, however stale the heads are
\* that workers claim by: while the session is not cancelled, the packages whose
\* files are being run for the first time never exceed the limit. Only a file put
\* back after its run (AtMostOnce) gets past the gate.
FirstRuns ==
    {at[w] : w \in {v \in Workers :
                      pc[v] \in {"gated", "start", "exec", "post", "rec"} /\ recs[cur[v]] = 0}}
FirstRunsGated == PackageLimit > 0 /\ ~cancelled => Cardinality(FirstRuns) <= PackageLimit

\* record counts a file once, so that done never exceeds total.
AtMostOnce == \A f \in AllRunnable : recs[f] <= 1

\* on_timeout: abort_package: once a timeout is recorded, no further file of
\* the package is claimed.
NoClaimAfterTimeout ==
    [][\A w \in Workers :
         AbortOnTimeout /\ pc[w] = "claim" /\ pc'[w] = "gated"
           => \A f \in Runnable(at[w]) : store[f] # "timeout"]_vars

\* "Run drives the session to completion": once the gate stays open and stale
\* heads are put back only finitely often, Run returns.
Terminates ==
    <>[]gate /\ <>[][\A w \in Workers : ~PutBack(w)]_vars => <>Ended

\* A cancelled session ends, whatever the resource gate does.
CancelEnds == cancelled ~> Ended

\* Scheduler implements Session: a file's fate is told by the record() calls, and
\* the abstract report is what the store holds of the runnable files.
Fate == [f \in AllRunnable |->
           IF f \in resolved THEN "earlier" ELSE IF recs[f] > 0 THEN "recorded" ELSE "open"]
StoredOf == [f \in AllRunnable |-> store[f]]
Phase == IF ctl = "returned" THEN "over" ELSE IF ctl = "failed" THEN "failed" ELSE "running"
Ledger == INSTANCE Session
            WITH Packages <- Pkgs, FilesOf <- [p \in Pkgs |-> Runnable(p)],
                 EarlierFiles <- Earlier, Outcomes <- FileResults,
                 fate <- Fate, report <- StoredOf, dropped <- aborted,
                 interrupted <- cancelled, phase <- Phase

\* Every step of the workers and of Run is a step of the abstract session, or
\* changes nothing it speaks of: the report changes only by outcomes of runs that
\* were not interrupted, never for a file an earlier session recorded; an
\* uninterrupted session ends only when every file has been run and recorded or
\* its package dropped. (A result of this session may be replaced: AtMostOnce.)
ImplementsSession == Ledger!Spec
=============================================================================
