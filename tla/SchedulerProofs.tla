--------------------------- MODULE SchedulerProofs ---------------------------
(* Theorems about Scheduler for any workers, packages, queues and settings. *)
EXTENDS Scheduler, TLAPS, SequenceTheorems, FiniteSetTheorems

-----------------------------------------------------------------------------
(* Queues as sequences *)

\* The empty queue.
LEMMA EmptyRange == Range(<<>>) = {} /\ <<>> \in Seq(AllRunnable)
<1>1. Range(<<>>) = {}
  BY DEF Range
<1>2. <<>> \in Seq(AllRunnable)
  OBVIOUS
<1> QED  BY <1>1, <1>2

\* Taking the head of a queue: what is left, and that only the head went.
LEMMA TailRange ==
  ASSUME NEW S, NEW s \in Seq(S), s # <<>>
  PROVE  /\ Head(s) \in Range(s)
         /\ Head(s) \in S
         /\ Tail(s) \in Seq(S)
         /\ Range(Tail(s)) \subseteq Range(s)
         /\ \A x \in Range(s) : x = Head(s) \/ x \in Range(Tail(s))
<1>1. /\ Len(s) \in Nat \ {0} /\ DOMAIN s = 1 .. Len(s)
      /\ \A i \in 1 .. Len(s) : s[i] \in S
      /\ Head(s) = s[1]
  OBVIOUS
<1>2. /\ Tail(s) \in Seq(S) /\ DOMAIN Tail(s) = 1 .. Len(s) - 1
      /\ \A i \in 1 .. Len(s) - 1 : Tail(s)[i] = s[i + 1]
  BY <1>1
<1>3. ASSUME NEW i \in DOMAIN s, i # 1 PROVE s[i] \in Range(Tail(s))
  <2>1. i - 1 \in DOMAIN Tail(s) /\ Tail(s)[i - 1] = s[i]
    BY <1>1, <1>2, <1>3
  <2> QED  BY <2>1 DEF Range
<1>4. Range(Tail(s)) \subseteq Range(s)
  BY <1>1, <1>2 DEF Range
<1> QED  BY <1>1, <1>2, <1>3, <1>4 DEF Range

\* Putting a file in front of a queue adds that file and nothing else.
LEMMA ConsRange ==
  ASSUME NEW S, NEW s \in Seq(S), NEW f \in S
  PROVE  /\ <<f>> \o s \in Seq(S)
         /\ Range(<<f>> \o s) = {f} \cup Range(s)
<1> DEFINE t == <<f>> \o s
<1>1. /\ Len(s) \in Nat /\ DOMAIN s = 1 .. Len(s)
      /\ t \in Seq(S) /\ DOMAIN t = 1 .. Len(s) + 1
      /\ t[1] = f /\ \A i \in 1 .. Len(s) : t[i + 1] = s[i]
  OBVIOUS
<1> HIDE DEF t
<1>2. ASSUME NEW x \in Range(s) PROVE x \in Range(t)
  <2>1. PICK i \in 1 .. Len(s) : s[i] = x
    BY <1>1 DEF Range
  <2>2. i + 1 \in DOMAIN t /\ t[i + 1] = x
    BY <1>1, <2>1
  <2> QED  BY <2>2 DEF Range
<1>3. ASSUME NEW x \in Range(t), x # f PROVE x \in Range(s)
  <2>1. PICK i \in 1 .. Len(s) + 1 : t[i] = x
    BY <1>1 DEF Range
  <2>2. i - 1 \in 1 .. Len(s) /\ t[(i - 1) + 1] = t[i]
    BY <1>1, <1>3, <2>1
  <2> QED  BY <1>1, <2>1, <2>2 DEF Range
<1>4. f \in Range(t)
  BY <1>1 DEF Range
<1>5. Range(t) = {f} \cup Range(s)
  BY <1>2, <1>3, <1>4
<1> QED  BY <1>1, <1>5 DEF t

-----------------------------------------------------------------------------
(* The inductive invariant *)

\* Where a worker has read a file at the head of a package's queue.
WorkingPcs == {"try", "prep", "failed", "failrec", "failfin", "claim", "putback", "gated",
               "start", "exec", "post", "rec", "fin", "unclaim", "abort"}

\* A worker's locals: the package and file it works for, its outcome.
LocalOK ==
    \A w \in Workers :
        /\ pc[w] \in WorkingPcs \cup {"release"} => at[w] \in Pkgs
        /\ pc[w] \in WorkingPcs => cur[w] \in Runnable(at[w]) \ resolved
        /\ pc[w] = "post" => out[w] \in FileResults \cup {"cancelled"}
        /\ pc[w] = "post" /\ out[w] = "cancelled" => cancelled
        /\ pc[w] \in {"rec", "fin", "abort"} => out[w] \in FileResults
        /\ pc[w] \in {"fin", "abort"} => recs[cur[w]] > 0
        /\ pc[w] = "unclaim" => cancelled

\* SkipDone: a queue holds none of the files of an earlier session.
QueueOK == \A p \in Pkgs : Range(pending[p]) \cap resolved = {}

\* The lock of a sandbox names the worker inside it.
HolderOK == \A w \in Workers : pc[w] \in HoldingPcs => holder[at[w]] = w

\* From preparation to the end of the step the sandbox is clean.
CleanOK == \A w \in Workers : pc[w] \in {"claim", "gated", "start", "exec"} => ~dirty[at[w]]

\* Workers live only while Run is in its loop or waits for them.
PhaseOK ==
    /\ ctl \in {"init", "returned", "failed"} => \A w \in Workers : pc[w] = "off"
    /\ ctl \in {"init", "failed"} => \A f \in AllFiles : recs[f] = 0

\* Once the loop was left, every unrecorded file is in some worker's hands.
DrainOK ==
    ctl \in {"wait", "returned"} /\ ~cancelled =>
        \A p \in Pkgs : ~aborted[p] =>
            \A f \in Unresolved(p) : \E w \in Workers : Carries(w, p, f)

\* What a step does to the custody of a file that is still to be recorded: it
\* stays with the worker that carries it, and leaves its queue only for one.
CustodyKept ==
    \A p \in Pkgs : ~cancelled' /\ ~aborted'[p] =>
        /\ ~cancelled /\ ~aborted[p]
        /\ \A f \in Unresolved(p)' :
             /\ f \in Unresolved(p)
             /\ \A v \in Workers : Carries(v, p, f) => Carries(v, p, f)'
             /\ f \in Range(pending[p]) =>
                  f \in Range(pending'[p]) \/ \E v \in Workers : Carries(v, p, f)'

\* Under abort_package, a recorded timeout has aborted its package, or the worker
\* that recorded it is about to, still inside the package's sandbox.
TimeoutOK ==
    AbortOnTimeout =>
        \A p \in Pkgs : \A f \in Runnable(p) : store[f] = "timeout" =>
            \/ aborted[p]
            \/ \E w \in Workers : pc[w] \in {"fin", "abort"} /\ at[w] = p /\ out[w] = "timeout"

IInv == TypeOK /\ LocalOK /\ QueueOK /\ HolderOK /\ CleanOK /\ PhaseOK /\ PriorKept
        /\ NoFileLost /\ DrainOK

-----------------------------------------------------------------------------
(* Facts about the constants *)

\* Consequences of the assumptions on the constants.
LEMMA Constants ==
  /\ MaxCap \in Nat \ {0} /\ NPkgs \in Nat
  /\ \A S \in SUBSET Workers : Cardinality(S) \in Nat
  /\ \A p \in Pkgs : Runnable(p) \subseteq AllRunnable
  /\ AllRunnable \subseteq AllFiles
  /\ NoFile \notin AllFiles
  /\ AllRunnable \cap AllUnmapped = {}
<1>1. MaxCap \in Nat \ {0}
  BY WorkersAssumption, FS_CardinalityType, FS_EmptySet DEF MaxCap
<1>2. \A S \in SUBSET Workers : Cardinality(S) \in Nat
  BY WorkersAssumption, FS_CardinalityType, FS_Subset
<1> QED  BY <1>1, <1>2, QueueAssumption DEF AllRunnable, AllFiles

-----------------------------------------------------------------------------
(* What the helpers of the actions do to the state *)

\* The package after one of the queue is a position of the scan.
LEMMA NextPosition == \A p \in Pkgs : p + 1 \in 1 .. NPkgs + 1
  BY Constants DEF Pkgs

\* Popping takes the head, and nothing else, out of one queue.
LEMMA PopQueue ==
  ASSUME TypeOK, NEW p \in Pkgs, pending[p] # <<>>, Pop(p)
  PROVE  /\ pending' \in [Pkgs -> Seq(AllRunnable)]
         /\ \A q \in Pkgs : Range(pending'[q]) \subseteq Range(pending[q])
         /\ \A q \in Pkgs : q # p => pending'[q] = pending[q]
         /\ \A f \in Range(pending[p]) : f = Head(pending[p]) \/ f \in Range(pending'[p])
<1>1. pending[p] \in Seq(AllRunnable)
  BY DEF TypeOK
<1>2. /\ Tail(pending[p]) \in Seq(AllRunnable)
      /\ Range(Tail(pending[p])) \subseteq Range(pending[p])
      /\ \A f \in Range(pending[p]) : f = Head(pending[p]) \/ f \in Range(Tail(pending[p]))
  BY <1>1, TailRange
<1>3. /\ pending' = [pending EXCEPT ![p] = Tail(pending[p])]
      /\ pending \in [Pkgs -> Seq(AllRunnable)]
  BY DEF Pop, TypeOK
<1>4. pending'[p] = Tail(pending[p]) /\ \A q \in Pkgs : q # p => pending'[q] = pending[q]
  BY <1>3
<1>5. pending' \in [Pkgs -> Seq(AllRunnable)]
  BY <1>2, <1>3
<1> QED  BY <1>2, <1>4, <1>5

\* Requeueing puts one file, and nothing else, into one queue.
LEMMA RequeueQueue ==
  ASSUME TypeOK, NEW p \in Pkgs, NEW f \in AllRunnable, Requeue(p, f)
  PROVE  /\ pending' \in [Pkgs -> Seq(AllRunnable)]
         /\ Range(pending'[p]) = {f} \cup Range(pending[p])
         /\ \A q \in Pkgs : q # p => pending'[q] = pending[q]
<1>1. pending[p] \in Seq(AllRunnable)
  BY DEF TypeOK
<1>2. /\ <<f>> \o pending[p] \in Seq(AllRunnable)
      /\ Range(<<f>> \o pending[p]) = {f} \cup Range(pending[p])
  BY <1>1, ConsRange
<1>3. /\ pending' = [pending EXCEPT ![p] = <<f>> \o pending[p]]
      /\ pending \in [Pkgs -> Seq(AllRunnable)]
  BY DEF Requeue, TypeOK
<1> QED  BY <1>2, <1>3

\* record() counts the file, and touches the entry of no other.
LEMMA RecordFileEffect ==
  ASSUME TypeOK, NEW f \in AllFiles, NEW r \in FileResults, RecordFile(f, r)
  PROVE  /\ recs' \in [AllFiles -> 0 .. RecCap]
         /\ recs'[f] > 0
         /\ \A g \in AllFiles : g # f => recs'[g] = recs[g] /\ store'[g] = store[g]
         /\ store' \in [AllFiles -> StoredResults \cup {"cancelled"}]
<1>1. recs \in [AllFiles -> 0 .. RecCap] /\ store \in [AllFiles -> StoredResults \cup {"cancelled"}]
  BY DEF TypeOK
<1>2. PICK n \in 1 .. RecCap : recs' = [recs EXCEPT ![f] = n]
  <2>1. recs[f] \in 0 .. RecCap
    BY <1>1
  <2>2. (IF recs[f] < RecCap THEN recs[f] + 1 ELSE recs[f]) \in 1 .. RecCap
    BY <2>1 DEF RecCap
  <2> QED  BY <2>2 DEF RecordFile
<1>3. store' = [store EXCEPT ![f] = r] \/ store' = store
  BY DEF RecordFile, RecordedStore
<1>4. r \in StoredResults
  BY DEF StoredResults
<1> QED  BY <1>1, <1>2, <1>3, <1>4 DEF RecCap

-----------------------------------------------------------------------------
(* Every part of the invariant survives every step *)

\* Every step preserves the types.
LEMMA TypeStep == TypeOK /\ LocalOK /\ [Next]_vars => TypeOK'
<1> SUFFICES ASSUME TypeOK, LocalOK, [Next]_vars PROVE TypeOK'
  OBVIOUS
<1> USE DEF vars, queueVars, storeVars, sandboxVars, envVars, localVars, workerVars
<1>1. CASE StartRun
  BY <1>1, Constants DEF StartRun, TypeOK, LocalOK, WorkingPcs, ClaimedPcs, HoldingPcs,
     WorkerPcs, FileResults, StoredResults, FaultKinds, RecCap, Pkgs
<1>2. CASE LeaveLoop
  BY <1>2, Constants DEF LeaveLoop, TypeOK, LocalOK, WorkingPcs, ClaimedPcs, HoldingPcs,
     WorkerPcs, FileResults, StoredResults, FaultKinds, RecCap, Pkgs
<1>3. CASE Tick
  <2>1. pc' \in [Workers -> WorkerPcs]
    BY <1>3 DEF Tick, ScaleDown, Recover, RampUp, Goto, TypeOK, ClaimedPcs, HoldingPcs, WorkerPcs
  <2>2. capacity' \in 1 .. MaxCap
    BY <1>3, Constants DEF Tick, ScaleDown, Recover, RampUp, RecoverDue, TypeOK
  <2> QED
    BY <1>3, <2>1, <2>2 DEF Tick, TypeOK
<1>4. CASE Return
  BY <1>4, Constants DEF Return, TypeOK, LocalOK, WorkingPcs, ClaimedPcs, HoldingPcs, WorkerPcs,
     FileResults, StoredResults, FaultKinds, RecCap, Pkgs
<1>5. CASE Cancel
  BY <1>5, Constants DEF Cancel, TypeOK, LocalOK, WorkingPcs, ClaimedPcs, HoldingPcs, WorkerPcs,
     FileResults, StoredResults, FaultKinds, RecCap, Pkgs
<1>6. CASE Pressure
  BY <1>6, Constants DEF Pressure, TypeOK, LocalOK, WorkingPcs, ClaimedPcs, HoldingPcs,
     WorkerPcs, FileResults, StoredResults, FaultKinds, RecCap, Pkgs
<1>7. ASSUME NEW w \in Workers, Top(w) PROVE TypeOK'
  BY <1>7, Constants DEF Top, Goto, TypeOK, LocalOK, WorkingPcs, ClaimedPcs, HoldingPcs,
     WorkerPcs, FileResults, StoredResults, FaultKinds, RecCap, Pkgs
<1>8. ASSUME NEW w \in Workers, Exit(w) PROVE TypeOK'
  BY <1>8, Constants DEF Exit, Goto, TypeOK, LocalOK, WorkingPcs, ClaimedPcs, HoldingPcs,
     WorkerPcs, FileResults, StoredResults, FaultKinds, RecCap, Pkgs
<1>9. ASSUME NEW w \in Workers, NoWork(w) PROVE TypeOK'
  <2>1. pc' \in [Workers -> WorkerPcs]
    BY <1>9 DEF NoWork, Goto, TypeOK, ClaimedPcs, HoldingPcs, WorkerPcs
  <2>2. at' \in [Workers -> 1 .. NPkgs + 1]
    BY <1>9, Constants DEF NoWork, TypeOK
  <2> QED
    BY <1>9, <2>1, <2>2 DEF NoWork, TypeOK
<1>10. ASSUME NEW w \in Workers, AwaitGate(w) PROVE TypeOK'
  BY <1>10, Constants DEF AwaitGate, Goto, Unlock, TypeOK, LocalOK, WorkingPcs, ClaimedPcs,
     HoldingPcs, WorkerPcs, FileResults, StoredResults, FaultKinds, RecCap, Pkgs
<1>11. ASSUME NEW w \in Workers, Unclaim(w) PROVE TypeOK'
  <2>1. at[w] \in Pkgs /\ cur[w] \in AllRunnable /\ Requeue(at[w], cur[w])
    BY <1>11, Constants DEF Unclaim, LocalOK, WorkingPcs
  <2>2. pc' \in [Workers -> WorkerPcs]
    BY <1>11 DEF Unclaim, Goto, TypeOK, ClaimedPcs, HoldingPcs, WorkerPcs
  <2>3. pending' \in [Pkgs -> Seq(AllRunnable)] /\ \A p \in Pkgs : Range(pending'[p]) \subseteq Runnable(p)
    BY <1>11, <2>1, RequeueQueue DEF Unclaim, LocalOK, WorkingPcs, TypeOK
  <2> QED
    BY <1>11, <2>1, <2>2, <2>3 DEF Unclaim, Goto, TypeOK
<1>12. ASSUME NEW w \in Workers, Release(w) PROVE TypeOK'
  BY <1>12, Constants DEF Release, Goto, Unlock, TypeOK, LocalOK, WorkingPcs, ClaimedPcs,
     HoldingPcs, WorkerPcs, FileResults, StoredResults, FaultKinds, RecCap, Pkgs
<1>13. ASSUME NEW w \in Workers, Look(w) PROVE TypeOK'
  <2>1. pc' \in [Workers -> WorkerPcs]
    BY <1>13 DEF Look, Goto, SkipPackage, TypeOK, ClaimedPcs, HoldingPcs, WorkerPcs
  <2>2. at' \in [Workers -> 1 .. NPkgs + 1]
    BY <1>13, NextPosition DEF Look, SkipPackage, TypeOK
  <2>3. cur' \in [Workers -> AllRunnable \cup {NoFile}]
    BY <1>13, TailRange, Constants DEF Look, SkipPackage, Eligible, Idle, TypeOK
  <2>4. active' \in [Pkgs -> BOOLEAN]
    BY <1>13 DEF Look, TypeOK
  <2> QED
    BY <1>13, <2>1, <2>2, <2>3, <2>4 DEF Look, TypeOK
<1>14. ASSUME NEW w \in Workers, TryAcquire(w) PROVE TypeOK'
  <2>1. pc' \in [Workers -> WorkerPcs]
    BY <1>14 DEF TryAcquire, Goto, SkipPackage, TypeOK, ClaimedPcs, HoldingPcs, WorkerPcs
  <2>2. at[w] + 1 \in 1 .. NPkgs + 1
    BY <1>14, NextPosition DEF TryAcquire, LocalOK, WorkingPcs
  <2>3. at' \in [Workers -> 1 .. NPkgs + 1]
    BY <1>14, <2>2 DEF TryAcquire, SkipPackage, TypeOK
  <2>4. cur' \in [Workers -> AllRunnable \cup {NoFile}]
    BY <1>14 DEF TryAcquire, SkipPackage, TypeOK
  <2>5. holder' \in [Pkgs -> Workers \cup {NoWorker}]
    BY <1>14 DEF TryAcquire, TypeOK
  <2> QED
    BY <1>14, <2>1, <2>2, <2>3, <2>4, <2>5 DEF TryAcquire, TypeOK
<1>15. ASSUME NEW w \in Workers, Prepare(w) PROVE TypeOK'
  BY <1>15, Constants DEF Prepare, Goto, Unlock, NeedsPrepare, TypeOK, LocalOK, WorkingPcs,
     ClaimedPcs, HoldingPcs, WorkerPcs, FileResults, StoredResults, FaultKinds, RecCap, Pkgs
<1>16. ASSUME NEW w \in Workers, PrepareFailed(w) PROVE TypeOK'
  <2>1. pc' \in [Workers -> WorkerPcs]
    BY <1>16 DEF PrepareFailed, Goto, SkipPackage, TypeOK, ClaimedPcs, HoldingPcs, WorkerPcs
  <2>2. at[w] + 1 \in 1 .. NPkgs + 1
    BY <1>16, NextPosition DEF PrepareFailed, LocalOK, WorkingPcs
  <2>3. at' \in [Workers -> 1 .. NPkgs + 1]
    BY <1>16, <2>2 DEF PrepareFailed, SkipPackage, TypeOK
  <2>4. cur' \in [Workers -> AllRunnable \cup {NoFile}]
    BY <1>16 DEF PrepareFailed, SkipPackage, TypeOK
  <2>5. /\ pending' \in [Pkgs -> Seq(AllRunnable)]
        /\ \A p \in Pkgs : Range(pending'[p]) \subseteq Runnable(p)
    BY <1>16, PopQueue DEF PrepareFailed, HeadIs, TypeOK, LocalOK, WorkingPcs
  <2> QED
    BY <1>16, <2>1, <2>2, <2>3, <2>4, <2>5 DEF PrepareFailed, TypeOK
<1>17. ASSUME NEW w \in Workers, RecordPrepareError(w) PROVE TypeOK'
  <2>1. pc' \in [Workers -> WorkerPcs]
    BY <1>17 DEF RecordPrepareError, Goto, TypeOK, ClaimedPcs, HoldingPcs, WorkerPcs
  <2>2. cur[w] \in AllFiles /\ "error" \in FileResults /\ RecordFile(cur[w], "error")
    BY <1>17, Constants DEF RecordPrepareError, LocalOK, WorkingPcs, FileResults
  <2>3. /\ recs' \in [AllFiles -> 0 .. RecCap]
        /\ store' \in [AllFiles -> StoredResults \cup {"cancelled"}]
    BY <2>2, RecordFileEffect
  <2> QED
    BY <1>17, <2>1, <2>2, <2>3 DEF RecordPrepareError, TypeOK
<1>18. ASSUME NEW w \in Workers, FinishPrepareError(w) PROVE TypeOK'
  BY <1>18, Constants, NextPosition DEF FinishPrepareError, Goto, FileFinished, SkipPackage,
     TypeOK, LocalOK, WorkingPcs, ClaimedPcs, HoldingPcs, WorkerPcs, FileResults, StoredResults,
     FaultKinds, RecCap, Pkgs
<1>19. ASSUME NEW w \in Workers, Claim(w) PROVE TypeOK'
  <2>1. pc' \in [Workers -> WorkerPcs]
    BY <1>19 DEF Claim, Goto, TypeOK, ClaimedPcs, HoldingPcs, WorkerPcs
  <2>2. /\ pending' \in [Pkgs -> Seq(AllRunnable)]
        /\ \A p \in Pkgs : Range(pending'[p]) \subseteq Runnable(p)
    BY <1>19, PopQueue DEF Claim, HeadIs, TypeOK, LocalOK, WorkingPcs
  <2>3. holder' \in [Pkgs -> Workers \cup {NoWorker}]
    BY <1>19 DEF Claim, Unlock, TypeOK
  <2> QED
    BY <1>19, <2>1, <2>2, <2>3 DEF Claim, TypeOK
<1>20. ASSUME NEW w \in Workers, PutBack(w) PROVE TypeOK'
  <2>1. at[w] \in Pkgs /\ cur[w] \in AllRunnable /\ Requeue(at[w], cur[w])
    BY <1>20, Constants DEF PutBack, LocalOK, WorkingPcs
  <2>2. pc' \in [Workers -> WorkerPcs]
    BY <1>20 DEF PutBack, Goto, SkipPackage, TypeOK, ClaimedPcs, HoldingPcs, WorkerPcs
  <2>3. pending' \in [Pkgs -> Seq(AllRunnable)] /\ \A p \in Pkgs : Range(pending'[p]) \subseteq Runnable(p)
    BY <1>20, <2>1, RequeueQueue DEF PutBack, LocalOK, WorkingPcs, TypeOK
  <2>4. at' \in [Workers -> 1 .. NPkgs + 1]
    BY <1>20, <2>1, NextPosition DEF PutBack, SkipPackage, TypeOK
  <2> QED
    BY <1>20, <2>1, <2>2, <2>3, <2>4 DEF PutBack, Goto, SkipPackage, TypeOK
<1>21. ASSUME NEW w \in Workers, StartFile(w) PROVE TypeOK'
  BY <1>21, Constants DEF StartFile, Goto, TypeOK, LocalOK, WorkingPcs, ClaimedPcs, HoldingPcs,
     WorkerPcs, FileResults, StoredResults, FaultKinds, RecCap, Pkgs
<1>22. ASSUME NEW w \in Workers, RunCommands(w) PROVE TypeOK'
  BY <1>22, Constants DEF RunCommands, Goto, StepOutcomes, TypeOK, LocalOK, WorkingPcs,
     ClaimedPcs, HoldingPcs, WorkerPcs, FileResults, StoredResults, FaultKinds, RecCap, Pkgs
<1>23. ASSUME NEW w \in Workers, CheckCancelled(w) PROVE TypeOK'
  BY <1>23, Constants DEF CheckCancelled, Goto, TypeOK, LocalOK, WorkingPcs, ClaimedPcs,
     HoldingPcs, WorkerPcs, FileResults, StoredResults, FaultKinds, RecCap, Pkgs
<1>24. ASSUME NEW w \in Workers, RecordOutcome(w) PROVE TypeOK'
  <2>1. pc' \in [Workers -> WorkerPcs]
    BY <1>24 DEF RecordOutcome, Goto, TypeOK, ClaimedPcs, HoldingPcs, WorkerPcs
  <2>2. cur[w] \in AllFiles /\ out[w] \in FileResults /\ RecordFile(cur[w], out[w])
    BY <1>24, Constants DEF RecordOutcome, LocalOK, WorkingPcs
  <2>3. /\ recs' \in [AllFiles -> 0 .. RecCap]
        /\ store' \in [AllFiles -> StoredResults \cup {"cancelled"}]
    BY <2>2, RecordFileEffect
  <2> QED
    BY <1>24, <2>1, <2>2, <2>3 DEF RecordOutcome, TypeOK
<1>25. ASSUME NEW w \in Workers, Finish(w) PROVE TypeOK'
  BY <1>25, Constants DEF Finish, Goto, FileFinished, TypeOK, LocalOK, WorkingPcs, ClaimedPcs,
     HoldingPcs, WorkerPcs, FileResults, StoredResults, FaultKinds, RecCap, Pkgs
<1>26. ASSUME NEW w \in Workers, Abort(w) PROVE TypeOK'
  <2>1. pc' \in [Workers -> WorkerPcs]
    BY <1>26 DEF Abort, Goto, TypeOK, ClaimedPcs, HoldingPcs, WorkerPcs
  <2>2. pending' = [pending EXCEPT ![at[w]] = <<>>]
    BY <1>26 DEF Abort
  <2>3. \A p \in Pkgs : pending'[p] = pending[p] \/ pending'[p] = <<>>
    BY <2>2 DEF TypeOK
  <2>4. pending' \in [Pkgs -> Seq(AllRunnable)]
    BY <2>2, EmptyRange DEF TypeOK
  <2>5. \A p \in Pkgs : Range(pending'[p]) \subseteq Runnable(p)
    BY <2>3, EmptyRange DEF TypeOK
  <2>6. aborted' \in [Pkgs -> BOOLEAN] /\ active' \in [Pkgs -> BOOLEAN]
    BY <1>26 DEF Abort, TypeOK
  <2> QED
    BY <1>26, <2>1, <2>2, <2>3, <2>4, <2>5, <2>6 DEF Abort, TypeOK
<1>27. CASE UNCHANGED vars
  BY <1>27 DEF TypeOK, LocalOK, WorkingPcs, ClaimedPcs, HoldingPcs, WorkerPcs, FileResults,
     StoredResults, FaultKinds, RecCap, Pkgs
<1> QED
  BY <1>1, <1>2, <1>3, <1>4, <1>5, <1>6, <1>7, <1>8, <1>9, <1>10, <1>11, <1>12, <1>13, <1>14,
     <1>15, <1>16, <1>17, <1>18, <1>19, <1>20, <1>21, <1>22, <1>23, <1>24, <1>25, <1>26, <1>27
  DEF Next, Controller, Worker, WorkerLoop, NextWork, RunFile, Done

\* Every step keeps the workers' locals in order.
LEMMA LocalStep == TypeOK /\ LocalOK /\ QueueOK /\ [Next]_vars => LocalOK'
<1> SUFFICES ASSUME TypeOK, LocalOK, QueueOK, [Next]_vars PROVE LocalOK'
  OBVIOUS
<1> USE DEF vars, queueVars, storeVars, sandboxVars, envVars, localVars, workerVars
<1>1. CASE StartRun
  BY <1>1, Constants DEF StartRun, TypeOK, LocalOK, WorkingPcs
<1>2. CASE LeaveLoop
  BY <1>2, Constants DEF LeaveLoop, TypeOK, LocalOK, WorkingPcs
<1>3. CASE Tick
  BY <1>3, Constants DEF Tick, ScaleDown, Recover, RampUp, RecoverDue, Goto, TypeOK, LocalOK,
     WorkingPcs
<1>4. CASE Return
  BY <1>4, Constants DEF Return, TypeOK, LocalOK, WorkingPcs
<1>5. CASE Cancel
  BY <1>5, Constants DEF Cancel, TypeOK, LocalOK, WorkingPcs
<1>6. CASE Pressure
  BY <1>6, Constants DEF Pressure, TypeOK, LocalOK, WorkingPcs
<1>7. ASSUME NEW w \in Workers, Top(w) PROVE LocalOK'
  BY <1>7, Constants DEF Top, Goto, TypeOK, LocalOK, WorkingPcs
<1>8. ASSUME NEW w \in Workers, Exit(w) PROVE LocalOK'
  BY <1>8, Constants DEF Exit, Goto, TypeOK, LocalOK, WorkingPcs
<1>9. ASSUME NEW w \in Workers, NoWork(w) PROVE LocalOK'
  BY <1>9, Constants DEF NoWork, Goto, TypeOK, LocalOK, WorkingPcs
<1>10. ASSUME NEW w \in Workers, AwaitGate(w) PROVE LocalOK'
  BY <1>10, Constants DEF AwaitGate, Goto, Unlock, TypeOK, LocalOK, WorkingPcs
<1>11. ASSUME NEW w \in Workers, Unclaim(w) PROVE LocalOK'
  BY <1>11, Constants DEF Unclaim, Goto, TypeOK, LocalOK, WorkingPcs
<1>12. ASSUME NEW w \in Workers, Release(w) PROVE LocalOK'
  BY <1>12, Constants DEF Release, Goto, Unlock, TypeOK, LocalOK, WorkingPcs
<1>13. ASSUME NEW w \in Workers, Look(w) PROVE LocalOK'
  <2>1. at[w] \in Pkgs /\ Eligible(at[w]) => Head(pending[at[w]]) \in Runnable(at[w]) \ resolved
    BY TailRange DEF TypeOK, QueueOK, Eligible, Idle
  <2> QED
    BY <1>13, <2>1 DEF Look, Goto, SkipPackage, TypeOK, LocalOK, WorkingPcs
<1>14. ASSUME NEW w \in Workers, TryAcquire(w) PROVE LocalOK'
  BY <1>14, Constants DEF TryAcquire, Goto, SkipPackage, TypeOK, LocalOK, WorkingPcs
<1>15. ASSUME NEW w \in Workers, Prepare(w) PROVE LocalOK'
  BY <1>15, Constants DEF Prepare, Goto, Unlock, NeedsPrepare, TypeOK, LocalOK, WorkingPcs
<1>16. ASSUME NEW w \in Workers, PrepareFailed(w) PROVE LocalOK'
  BY <1>16, Constants DEF PrepareFailed, Goto, SkipPackage, Pop, HeadIs, TypeOK, LocalOK,
     WorkingPcs
<1>17. ASSUME NEW w \in Workers, RecordPrepareError(w) PROVE LocalOK'
  <2>1. cur[w] \in AllFiles /\ "error" \in FileResults /\ RecordFile(cur[w], "error")
    BY <1>17, Constants DEF RecordPrepareError, LocalOK, WorkingPcs, FileResults
  <2>2. recs'[cur[w]] > 0 /\ \A v \in Workers : cur[v] \in AllFiles /\ recs[cur[v]] > 0 => recs'[cur[v]] > 0
    BY <2>1, RecordFileEffect
  <2>3. \A v \in Workers : pc[v] \in WorkingPcs => cur[v] \in AllFiles
    BY Constants DEF LocalOK, WorkingPcs
  <2> QED
    BY <1>17, <2>1, <2>2, <2>3 DEF RecordPrepareError, Goto, TypeOK, LocalOK, WorkingPcs
<1>18. ASSUME NEW w \in Workers, FinishPrepareError(w) PROVE LocalOK'
  BY <1>18, Constants DEF FinishPrepareError, Goto, FileFinished, SkipPackage, TypeOK, LocalOK,
     WorkingPcs
<1>19. ASSUME NEW w \in Workers, Claim(w) PROVE LocalOK'
  BY <1>19, Constants DEF Claim, Goto, Unlock, Pop, HeadIs, TypeOK, LocalOK, WorkingPcs
<1>20. ASSUME NEW w \in Workers, PutBack(w) PROVE LocalOK'
  BY <1>20, Constants DEF PutBack, Goto, SkipPackage, TypeOK, LocalOK, WorkingPcs
<1>21. ASSUME NEW w \in Workers, StartFile(w) PROVE LocalOK'
  BY <1>21 DEF StartFile, Goto, TypeOK, LocalOK, WorkingPcs, FileResults
<1>22. ASSUME NEW w \in Workers, RunCommands(w) PROVE LocalOK'
  <2>1. out' \in [Workers -> FileResults \cup {"cancelled"} \cup {"none"}] /\ out'[w] \in StepOutcomes
    BY <1>22 DEF RunCommands, StepOutcomes, TypeOK, FileResults
  <2>2. /\ out'[w] \in FileResults \cup {"cancelled"}
        /\ out'[w] = "cancelled" => cancelled
    BY <2>1 DEF StepOutcomes, FileResults
  <2> QED
    BY <1>22, <2>1, <2>2 DEF RunCommands, Goto, TypeOK, LocalOK, WorkingPcs
<1>23. ASSUME NEW w \in Workers, CheckCancelled(w) PROVE LocalOK'
  BY <1>23, Constants DEF CheckCancelled, Goto, TypeOK, LocalOK, WorkingPcs
<1>24. ASSUME NEW w \in Workers, RecordOutcome(w) PROVE LocalOK'
  <2>1. cur[w] \in AllFiles /\ out[w] \in FileResults /\ RecordFile(cur[w], out[w])
    BY <1>24, Constants DEF RecordOutcome, LocalOK, WorkingPcs
  <2>2. recs'[cur[w]] > 0 /\ \A v \in Workers : cur[v] \in AllFiles /\ recs[cur[v]] > 0 => recs'[cur[v]] > 0
    BY <2>1, RecordFileEffect
  <2>3. \A v \in Workers : pc[v] \in WorkingPcs => cur[v] \in AllFiles
    BY Constants DEF LocalOK, WorkingPcs
  <2> QED
    BY <1>24, <2>1, <2>2, <2>3 DEF RecordOutcome, Goto, TypeOK, LocalOK, WorkingPcs
<1>25. ASSUME NEW w \in Workers, Finish(w) PROVE LocalOK'
  BY <1>25, Constants DEF Finish, Goto, FileFinished, TypeOK, LocalOK, WorkingPcs
<1>26. ASSUME NEW w \in Workers, Abort(w) PROVE LocalOK'
  BY <1>26, Constants DEF Abort, Goto, TypeOK, LocalOK, WorkingPcs
<1>27. CASE UNCHANGED vars
  BY <1>27 DEF TypeOK, LocalOK, WorkingPcs
<1> QED
  BY <1>1, <1>2, <1>3, <1>4, <1>5, <1>6, <1>7, <1>8, <1>9, <1>10, <1>11, <1>12, <1>13, <1>14,
     <1>15, <1>16, <1>17, <1>18, <1>19, <1>20, <1>21, <1>22, <1>23, <1>24, <1>25, <1>26, <1>27
  DEF Next, Controller, Worker, WorkerLoop, NextWork, RunFile, Done

\* No step puts a file of an earlier session into a queue.
LEMMA QueueStep == TypeOK /\ LocalOK /\ QueueOK /\ [Next]_vars => QueueOK'
<1> SUFFICES ASSUME TypeOK, LocalOK, QueueOK, [Next]_vars PROVE QueueOK'
  OBVIOUS
<1> USE DEF vars, queueVars, storeVars, sandboxVars, envVars, localVars, workerVars
<1>1. CASE StartRun
  BY <1>1, Constants DEF StartRun, QueueOK
<1>2. CASE LeaveLoop
  BY <1>2, Constants DEF LeaveLoop, QueueOK
<1>3. CASE Tick
  BY <1>3, Constants DEF Tick, ScaleDown, Recover, RampUp, RecoverDue, Goto, QueueOK
<1>4. CASE Return
  BY <1>4, Constants DEF Return, QueueOK
<1>5. CASE Cancel
  BY <1>5, Constants DEF Cancel, QueueOK
<1>6. CASE Pressure
  BY <1>6, Constants DEF Pressure, QueueOK
<1>7. ASSUME NEW w \in Workers, Top(w) PROVE QueueOK'
  BY <1>7, Constants DEF Top, Goto, QueueOK
<1>8. ASSUME NEW w \in Workers, Exit(w) PROVE QueueOK'
  BY <1>8, Constants DEF Exit, Goto, QueueOK
<1>9. ASSUME NEW w \in Workers, NoWork(w) PROVE QueueOK'
  BY <1>9, Constants DEF NoWork, Goto, QueueOK
<1>10. ASSUME NEW w \in Workers, AwaitGate(w) PROVE QueueOK'
  BY <1>10, Constants DEF AwaitGate, Goto, Unlock, QueueOK
<1>11. ASSUME NEW w \in Workers, Unclaim(w) PROVE QueueOK'
  <2>1. at[w] \in Pkgs /\ cur[w] \in AllRunnable \ resolved /\ Requeue(at[w], cur[w])
    BY <1>11, Constants DEF Unclaim, LocalOK, WorkingPcs
  <2>2. /\ Range(pending'[at[w]]) = {cur[w]} \cup Range(pending[at[w]])
        /\ \A q \in Pkgs : q # at[w] => pending'[q] = pending[q]
    BY <2>1, RequeueQueue
  <2>3. resolved' = resolved
    BY <1>11 DEF Unclaim
  <2>4. \A p \in Pkgs : Range(pending'[p]) \cap resolved = {}
    BY <2>1, <2>2 DEF QueueOK
  <2> QED
    BY <2>3, <2>4 DEF QueueOK
<1>12. ASSUME NEW w \in Workers, Release(w) PROVE QueueOK'
  BY <1>12, Constants DEF Release, Goto, Unlock, QueueOK
<1>13. ASSUME NEW w \in Workers, Look(w) PROVE QueueOK'
  BY <1>13, Constants DEF Look, Goto, SkipPackage, QueueOK
<1>14. ASSUME NEW w \in Workers, TryAcquire(w) PROVE QueueOK'
  BY <1>14, Constants DEF TryAcquire, Goto, SkipPackage, QueueOK
<1>15. ASSUME NEW w \in Workers, Prepare(w) PROVE QueueOK'
  BY <1>15, Constants DEF Prepare, Goto, Unlock, NeedsPrepare, QueueOK
<1>16. ASSUME NEW w \in Workers, PrepareFailed(w) PROVE QueueOK'
  <2>1. \A q \in Pkgs : Range(pending'[q]) \subseteq Range(pending[q])
    BY <1>16, PopQueue DEF PrepareFailed, HeadIs, LocalOK, WorkingPcs
  <2> QED
    BY <1>16, <2>1 DEF PrepareFailed, QueueOK
<1>17. ASSUME NEW w \in Workers, RecordPrepareError(w) PROVE QueueOK'
  BY <1>17, Constants DEF RecordPrepareError, Goto, RecordFile, RecordedStore, QueueOK
<1>18. ASSUME NEW w \in Workers, FinishPrepareError(w) PROVE QueueOK'
  BY <1>18, Constants DEF FinishPrepareError, Goto, FileFinished, SkipPackage, QueueOK
<1>19. ASSUME NEW w \in Workers, Claim(w) PROVE QueueOK'
  <2>1. \A q \in Pkgs : Range(pending'[q]) \subseteq Range(pending[q])
    BY <1>19, PopQueue DEF Claim, HeadIs, LocalOK, WorkingPcs
  <2> QED
    BY <1>19, <2>1 DEF Claim, QueueOK
<1>20. ASSUME NEW w \in Workers, PutBack(w) PROVE QueueOK'
  <2>1. at[w] \in Pkgs /\ cur[w] \in AllRunnable \ resolved /\ Requeue(at[w], cur[w])
    BY <1>20, Constants DEF PutBack, LocalOK, WorkingPcs
  <2>2. /\ Range(pending'[at[w]]) = {cur[w]} \cup Range(pending[at[w]])
        /\ \A q \in Pkgs : q # at[w] => pending'[q] = pending[q]
    BY <2>1, RequeueQueue
  <2>3. resolved' = resolved
    BY <1>20 DEF PutBack
  <2>4. \A p \in Pkgs : Range(pending'[p]) \cap resolved = {}
    BY <2>1, <2>2 DEF QueueOK
  <2> QED
    BY <2>3, <2>4 DEF QueueOK
<1>21. ASSUME NEW w \in Workers, StartFile(w) PROVE QueueOK'
  BY <1>21, Constants DEF StartFile, Goto, QueueOK
<1>22. ASSUME NEW w \in Workers, RunCommands(w) PROVE QueueOK'
  BY <1>22, Constants DEF RunCommands, Goto, StepOutcomes, QueueOK
<1>23. ASSUME NEW w \in Workers, CheckCancelled(w) PROVE QueueOK'
  BY <1>23, Constants DEF CheckCancelled, Goto, QueueOK
<1>24. ASSUME NEW w \in Workers, RecordOutcome(w) PROVE QueueOK'
  BY <1>24, Constants DEF RecordOutcome, Goto, RecordFile, RecordedStore, QueueOK
<1>25. ASSUME NEW w \in Workers, Finish(w) PROVE QueueOK'
  BY <1>25, Constants DEF Finish, Goto, FileFinished, QueueOK
<1>26. ASSUME NEW w \in Workers, Abort(w) PROVE QueueOK'
  BY <1>26, EmptyRange DEF Abort, TypeOK, QueueOK
<1>27. CASE UNCHANGED vars
  BY <1>27 DEF QueueOK
<1> QED
  BY <1>1, <1>2, <1>3, <1>4, <1>5, <1>6, <1>7, <1>8, <1>9, <1>10, <1>11, <1>12, <1>13, <1>14,
     <1>15, <1>16, <1>17, <1>18, <1>19, <1>20, <1>21, <1>22, <1>23, <1>24, <1>25, <1>26, <1>27
  DEF Next, Controller, Worker, WorkerLoop, NextWork, RunFile, Done

\* A worker inside a sandbox keeps its lock until it leaves.
LEMMA HolderStep == TypeOK /\ LocalOK /\ HolderOK /\ [Next]_vars => HolderOK'
<1> SUFFICES ASSUME TypeOK, LocalOK, HolderOK, [Next]_vars PROVE HolderOK'
  OBVIOUS
<1> USE DEF vars, queueVars, storeVars, sandboxVars, envVars, localVars, workerVars
<1>1. CASE StartRun
  BY <1>1, Constants DEF StartRun, TypeOK, LocalOK, WorkingPcs, HolderOK, HoldingPcs
<1>2. CASE LeaveLoop
  BY <1>2, Constants DEF LeaveLoop, TypeOK, LocalOK, WorkingPcs, HolderOK, HoldingPcs
<1>3. CASE Tick
  BY <1>3, Constants DEF Tick, ScaleDown, Recover, RampUp, RecoverDue, Goto, TypeOK, LocalOK,
     WorkingPcs, HolderOK, HoldingPcs
<1>4. CASE Return
  BY <1>4, Constants DEF Return, TypeOK, LocalOK, WorkingPcs, HolderOK, HoldingPcs
<1>5. CASE Cancel
  BY <1>5, Constants DEF Cancel, TypeOK, LocalOK, WorkingPcs, HolderOK, HoldingPcs
<1>6. CASE Pressure
  BY <1>6, Constants DEF Pressure, TypeOK, LocalOK, WorkingPcs, HolderOK, HoldingPcs
<1>7. ASSUME NEW w \in Workers, Top(w) PROVE HolderOK'
  BY <1>7, Constants DEF Top, Goto, TypeOK, LocalOK, WorkingPcs, HolderOK, HoldingPcs
<1>8. ASSUME NEW w \in Workers, Exit(w) PROVE HolderOK'
  BY <1>8, Constants DEF Exit, Goto, TypeOK, LocalOK, WorkingPcs, HolderOK, HoldingPcs
<1>9. ASSUME NEW w \in Workers, NoWork(w) PROVE HolderOK'
  BY <1>9, Constants DEF NoWork, Goto, TypeOK, LocalOK, WorkingPcs, HolderOK, HoldingPcs
<1>10. ASSUME NEW w \in Workers, AwaitGate(w) PROVE HolderOK'
  BY <1>10, Constants DEF AwaitGate, Goto, Unlock, TypeOK, LocalOK, WorkingPcs, HolderOK,
     HoldingPcs
<1>11. ASSUME NEW w \in Workers, Unclaim(w) PROVE HolderOK'
  BY <1>11, Constants DEF Unclaim, Goto, TypeOK, LocalOK, WorkingPcs, HolderOK, HoldingPcs
<1>12. ASSUME NEW w \in Workers, Release(w) PROVE HolderOK'
  BY <1>12, Constants DEF Release, Goto, Unlock, TypeOK, LocalOK, WorkingPcs, HolderOK, HoldingPcs
<1>13. ASSUME NEW w \in Workers, Look(w) PROVE HolderOK'
  BY <1>13, Constants DEF Look, Goto, SkipPackage, TypeOK, LocalOK, WorkingPcs, HolderOK,
     HoldingPcs
<1>14. ASSUME NEW w \in Workers, TryAcquire(w) PROVE HolderOK'
  BY <1>14, WorkersAssumption DEF TryAcquire, Free, Goto, SkipPackage, TypeOK, LocalOK,
     WorkingPcs, HolderOK, HoldingPcs
<1>15. ASSUME NEW w \in Workers, Prepare(w) PROVE HolderOK'
  BY <1>15, Constants DEF Prepare, Goto, Unlock, NeedsPrepare, TypeOK, LocalOK, WorkingPcs,
     HolderOK, HoldingPcs
<1>16. ASSUME NEW w \in Workers, PrepareFailed(w) PROVE HolderOK'
  BY <1>16, Constants DEF PrepareFailed, Goto, SkipPackage, Pop, HeadIs, TypeOK, LocalOK,
     WorkingPcs, HolderOK, HoldingPcs
<1>17. ASSUME NEW w \in Workers, RecordPrepareError(w) PROVE HolderOK'
  BY <1>17, Constants DEF RecordPrepareError, Goto, RecordFile, RecordedStore, TypeOK, LocalOK,
     WorkingPcs, HolderOK, HoldingPcs
<1>18. ASSUME NEW w \in Workers, FinishPrepareError(w) PROVE HolderOK'
  BY <1>18, Constants DEF FinishPrepareError, Goto, FileFinished, SkipPackage, TypeOK, LocalOK,
     WorkingPcs, HolderOK, HoldingPcs
<1>19. ASSUME NEW w \in Workers, Claim(w) PROVE HolderOK'
  BY <1>19, Constants DEF Claim, Goto, Unlock, Pop, HeadIs, TypeOK, LocalOK, WorkingPcs,
     HolderOK, HoldingPcs
<1>20. ASSUME NEW w \in Workers, PutBack(w) PROVE HolderOK'
  BY <1>20, Constants DEF PutBack, Goto, SkipPackage, TypeOK, LocalOK, WorkingPcs, HolderOK,
     HoldingPcs
<1>21. ASSUME NEW w \in Workers, StartFile(w) PROVE HolderOK'
  BY <1>21, Constants DEF StartFile, Goto, TypeOK, LocalOK, WorkingPcs, HolderOK, HoldingPcs
<1>22. ASSUME NEW w \in Workers, RunCommands(w) PROVE HolderOK'
  BY <1>22, Constants DEF RunCommands, Goto, StepOutcomes, TypeOK, LocalOK, WorkingPcs, HolderOK,
     HoldingPcs
<1>23. ASSUME NEW w \in Workers, CheckCancelled(w) PROVE HolderOK'
  BY <1>23, Constants DEF CheckCancelled, Goto, TypeOK, LocalOK, WorkingPcs, HolderOK, HoldingPcs
<1>24. ASSUME NEW w \in Workers, RecordOutcome(w) PROVE HolderOK'
  BY <1>24, Constants DEF RecordOutcome, Goto, RecordFile, RecordedStore, TypeOK, LocalOK,
     WorkingPcs, HolderOK, HoldingPcs
<1>25. ASSUME NEW w \in Workers, Finish(w) PROVE HolderOK'
  BY <1>25, Constants DEF Finish, Goto, FileFinished, TypeOK, LocalOK, WorkingPcs, HolderOK,
     HoldingPcs
<1>26. ASSUME NEW w \in Workers, Abort(w) PROVE HolderOK'
  BY <1>26, Constants DEF Abort, Goto, TypeOK, LocalOK, WorkingPcs, HolderOK, HoldingPcs
<1>27. CASE UNCHANGED vars
  BY <1>27 DEF TypeOK, LocalOK, WorkingPcs, HolderOK, HoldingPcs
<1> QED
  BY <1>1, <1>2, <1>3, <1>4, <1>5, <1>6, <1>7, <1>8, <1>9, <1>10, <1>11, <1>12, <1>13, <1>14,
     <1>15, <1>16, <1>17, <1>18, <1>19, <1>20, <1>21, <1>22, <1>23, <1>24, <1>25, <1>26, <1>27
  DEF Next, Controller, Worker, WorkerLoop, NextWork, RunFile, Done

\* A step that dirties a sandbox has no company in it.
LEMMA CleanStep == TypeOK /\ LocalOK /\ HolderOK /\ CleanOK /\ [Next]_vars => CleanOK'
<1> SUFFICES ASSUME TypeOK, LocalOK, HolderOK, CleanOK, [Next]_vars PROVE CleanOK'
  OBVIOUS
<1> USE DEF vars, queueVars, storeVars, sandboxVars, envVars, localVars, workerVars
<1>1. CASE StartRun
  BY <1>1, Constants DEF StartRun, TypeOK, LocalOK, WorkingPcs, HolderOK, HoldingPcs, CleanOK
<1>2. CASE LeaveLoop
  BY <1>2, Constants DEF LeaveLoop, TypeOK, LocalOK, WorkingPcs, HolderOK, HoldingPcs, CleanOK
<1>3. CASE Tick
  BY <1>3, Constants DEF Tick, ScaleDown, Recover, RampUp, RecoverDue, Goto, TypeOK, LocalOK,
     WorkingPcs, HolderOK, HoldingPcs, CleanOK
<1>4. CASE Return
  BY <1>4, Constants DEF Return, TypeOK, LocalOK, WorkingPcs, HolderOK, HoldingPcs, CleanOK
<1>5. CASE Cancel
  BY <1>5, Constants DEF Cancel, TypeOK, LocalOK, WorkingPcs, HolderOK, HoldingPcs, CleanOK
<1>6. CASE Pressure
  BY <1>6, Constants DEF Pressure, TypeOK, LocalOK, WorkingPcs, HolderOK, HoldingPcs, CleanOK
<1>7. ASSUME NEW w \in Workers, Top(w) PROVE CleanOK'
  BY <1>7, Constants DEF Top, Goto, TypeOK, LocalOK, WorkingPcs, HolderOK, HoldingPcs, CleanOK
<1>8. ASSUME NEW w \in Workers, Exit(w) PROVE CleanOK'
  BY <1>8, Constants DEF Exit, Goto, TypeOK, LocalOK, WorkingPcs, HolderOK, HoldingPcs, CleanOK
<1>9. ASSUME NEW w \in Workers, NoWork(w) PROVE CleanOK'
  BY <1>9, Constants DEF NoWork, Goto, TypeOK, LocalOK, WorkingPcs, HolderOK, HoldingPcs, CleanOK
<1>10. ASSUME NEW w \in Workers, AwaitGate(w) PROVE CleanOK'
  BY <1>10, Constants DEF AwaitGate, Goto, Unlock, TypeOK, LocalOK, WorkingPcs, HolderOK,
     HoldingPcs, CleanOK
<1>11. ASSUME NEW w \in Workers, Unclaim(w) PROVE CleanOK'
  BY <1>11, Constants DEF Unclaim, Goto, TypeOK, LocalOK, WorkingPcs, HolderOK, HoldingPcs,
     CleanOK
<1>12. ASSUME NEW w \in Workers, Release(w) PROVE CleanOK'
  BY <1>12, Constants DEF Release, Goto, Unlock, TypeOK, LocalOK, WorkingPcs, HolderOK,
     HoldingPcs, CleanOK
<1>13. ASSUME NEW w \in Workers, Look(w) PROVE CleanOK'
  BY <1>13, Constants DEF Look, Goto, SkipPackage, TypeOK, LocalOK, WorkingPcs, HolderOK,
     HoldingPcs, CleanOK
<1>14. ASSUME NEW w \in Workers, TryAcquire(w) PROVE CleanOK'
  BY <1>14, Constants DEF TryAcquire, Goto, SkipPackage, TypeOK, LocalOK, WorkingPcs, HolderOK,
     HoldingPcs, CleanOK
<1>15. ASSUME NEW w \in Workers, Prepare(w) PROVE CleanOK'
  <2>1. CASE ~NeedsPrepare(at[w]) /\ Goto(w, "claim") /\ UNCHANGED sandboxVars
    <3>1. ~dirty[at[w]]
      BY <2>1 DEF NeedsPrepare
    <3> QED  BY <1>15, <2>1, <3>1 DEF Prepare, Goto, TypeOK, CleanOK
  <2>2. CASE Goto(w, "claim") /\ dirty' = [dirty EXCEPT ![at[w]] = FALSE]
    BY <1>15, <2>2 DEF Prepare, Goto, TypeOK, LocalOK, WorkingPcs, CleanOK
  <2>3. CASE Goto(w, "failed") /\ UNCHANGED dirty
    BY <1>15, <2>3 DEF Prepare, Goto, TypeOK, CleanOK
  <2> QED  BY <1>15, <2>1, <2>2, <2>3 DEF Prepare
<1>16. ASSUME NEW w \in Workers, PrepareFailed(w) PROVE CleanOK'
  BY <1>16, Constants DEF PrepareFailed, Goto, SkipPackage, Pop, HeadIs, TypeOK, LocalOK,
     WorkingPcs, HolderOK, HoldingPcs, CleanOK
<1>17. ASSUME NEW w \in Workers, RecordPrepareError(w) PROVE CleanOK'
  BY <1>17, Constants DEF RecordPrepareError, Goto, RecordFile, RecordedStore, TypeOK, LocalOK,
     WorkingPcs, HolderOK, HoldingPcs, CleanOK
<1>18. ASSUME NEW w \in Workers, FinishPrepareError(w) PROVE CleanOK'
  BY <1>18, Constants DEF FinishPrepareError, Goto, FileFinished, SkipPackage, TypeOK, LocalOK,
     WorkingPcs, HolderOK, HoldingPcs, CleanOK
<1>19. ASSUME NEW w \in Workers, Claim(w) PROVE CleanOK'
  BY <1>19, Constants DEF Claim, Goto, Unlock, Pop, HeadIs, TypeOK, LocalOK, WorkingPcs,
     HolderOK, HoldingPcs, CleanOK
<1>20. ASSUME NEW w \in Workers, PutBack(w) PROVE CleanOK'
  BY <1>20, Constants DEF PutBack, Goto, SkipPackage, TypeOK, LocalOK, WorkingPcs, HolderOK,
     HoldingPcs, CleanOK
<1>21. ASSUME NEW w \in Workers, StartFile(w) PROVE CleanOK'
  BY <1>21, Constants DEF StartFile, Goto, TypeOK, LocalOK, WorkingPcs, HolderOK, HoldingPcs,
     CleanOK
<1>22. ASSUME NEW w \in Workers, RunCommands(w) PROVE CleanOK'
  BY <1>22, Constants DEF RunCommands, Goto, StepOutcomes, TypeOK, LocalOK, WorkingPcs, HolderOK,
     HoldingPcs, CleanOK
<1>23. ASSUME NEW w \in Workers, CheckCancelled(w) PROVE CleanOK'
  BY <1>23, Constants DEF CheckCancelled, Goto, TypeOK, LocalOK, WorkingPcs, HolderOK,
     HoldingPcs, CleanOK
<1>24. ASSUME NEW w \in Workers, RecordOutcome(w) PROVE CleanOK'
  BY <1>24, Constants DEF RecordOutcome, Goto, RecordFile, RecordedStore, TypeOK, LocalOK,
     WorkingPcs, HolderOK, HoldingPcs, CleanOK
<1>25. ASSUME NEW w \in Workers, Finish(w) PROVE CleanOK'
  BY <1>25, Constants DEF Finish, Goto, FileFinished, TypeOK, LocalOK, WorkingPcs, HolderOK,
     HoldingPcs, CleanOK
<1>26. ASSUME NEW w \in Workers, Abort(w) PROVE CleanOK'
  BY <1>26, Constants DEF Abort, Goto, TypeOK, LocalOK, WorkingPcs, HolderOK, HoldingPcs, CleanOK
<1>27. CASE UNCHANGED vars
  BY <1>27 DEF TypeOK, LocalOK, WorkingPcs, HolderOK, HoldingPcs, CleanOK
<1> QED
  BY <1>1, <1>2, <1>3, <1>4, <1>5, <1>6, <1>7, <1>8, <1>9, <1>10, <1>11, <1>12, <1>13, <1>14,
     <1>15, <1>16, <1>17, <1>18, <1>19, <1>20, <1>21, <1>22, <1>23, <1>24, <1>25, <1>26, <1>27
  DEF Next, Controller, Worker, WorkerLoop, NextWork, RunFile, Done

\* No worker moves once Run has returned.
LEMMA PhaseStep == TypeOK /\ PhaseOK /\ [Next]_vars => PhaseOK'
<1> SUFFICES ASSUME TypeOK, PhaseOK, [Next]_vars PROVE PhaseOK'
  OBVIOUS
<1> USE DEF vars, queueVars, storeVars, sandboxVars, envVars, localVars, workerVars
<1>1. CASE StartRun
  BY <1>1, Constants DEF StartRun, TypeOK, PhaseOK, Live
<1>2. CASE LeaveLoop
  BY <1>2, Constants DEF LeaveLoop, TypeOK, PhaseOK, Live
<1>3. CASE Tick
  BY <1>3, Constants DEF Tick, ScaleDown, Recover, RampUp, RecoverDue, Goto, TypeOK, PhaseOK, Live
<1>4. CASE Return
  BY <1>4, Constants DEF Return, TypeOK, PhaseOK, Live
<1>5. CASE Cancel
  BY <1>5, Constants DEF Cancel, TypeOK, PhaseOK, Live
<1>6. CASE Pressure
  BY <1>6, Constants DEF Pressure, TypeOK, PhaseOK, Live
<1>7. ASSUME NEW w \in Workers, Top(w) PROVE PhaseOK'
  BY <1>7, Constants DEF Top, Goto, TypeOK, PhaseOK, Live
<1>8. ASSUME NEW w \in Workers, Exit(w) PROVE PhaseOK'
  BY <1>8, Constants DEF Exit, Goto, TypeOK, PhaseOK, Live
<1>9. ASSUME NEW w \in Workers, NoWork(w) PROVE PhaseOK'
  BY <1>9, Constants DEF NoWork, Goto, TypeOK, PhaseOK, Live
<1>10. ASSUME NEW w \in Workers, AwaitGate(w) PROVE PhaseOK'
  BY <1>10, Constants DEF AwaitGate, Goto, Unlock, TypeOK, PhaseOK, Live
<1>11. ASSUME NEW w \in Workers, Unclaim(w) PROVE PhaseOK'
  BY <1>11, Constants DEF Unclaim, Goto, TypeOK, PhaseOK, Live
<1>12. ASSUME NEW w \in Workers, Release(w) PROVE PhaseOK'
  BY <1>12, Constants DEF Release, Goto, Unlock, TypeOK, PhaseOK, Live
<1>13. ASSUME NEW w \in Workers, Look(w) PROVE PhaseOK'
  BY <1>13, Constants DEF Look, Goto, SkipPackage, TypeOK, PhaseOK, Live
<1>14. ASSUME NEW w \in Workers, TryAcquire(w) PROVE PhaseOK'
  BY <1>14, Constants DEF TryAcquire, Goto, SkipPackage, TypeOK, PhaseOK, Live
<1>15. ASSUME NEW w \in Workers, Prepare(w) PROVE PhaseOK'
  BY <1>15, Constants DEF Prepare, Goto, Unlock, NeedsPrepare, TypeOK, PhaseOK, Live
<1>16. ASSUME NEW w \in Workers, PrepareFailed(w) PROVE PhaseOK'
  BY <1>16, Constants DEF PrepareFailed, Goto, SkipPackage, Pop, HeadIs, TypeOK, PhaseOK, Live
<1>17. ASSUME NEW w \in Workers, RecordPrepareError(w) PROVE PhaseOK'
  BY <1>17, Constants DEF RecordPrepareError, Goto, RecordFile, RecordedStore, TypeOK, PhaseOK,
     Live
<1>18. ASSUME NEW w \in Workers, FinishPrepareError(w) PROVE PhaseOK'
  BY <1>18, Constants DEF FinishPrepareError, Goto, FileFinished, SkipPackage, TypeOK, PhaseOK,
     Live
<1>19. ASSUME NEW w \in Workers, Claim(w) PROVE PhaseOK'
  BY <1>19, Constants DEF Claim, Goto, Unlock, Pop, HeadIs, TypeOK, PhaseOK, Live
<1>20. ASSUME NEW w \in Workers, PutBack(w) PROVE PhaseOK'
  BY <1>20, Constants DEF PutBack, Goto, SkipPackage, TypeOK, PhaseOK, Live
<1>21. ASSUME NEW w \in Workers, StartFile(w) PROVE PhaseOK'
  BY <1>21, Constants DEF StartFile, Goto, TypeOK, PhaseOK, Live
<1>22. ASSUME NEW w \in Workers, RunCommands(w) PROVE PhaseOK'
  BY <1>22, Constants DEF RunCommands, Goto, StepOutcomes, TypeOK, PhaseOK, Live
<1>23. ASSUME NEW w \in Workers, CheckCancelled(w) PROVE PhaseOK'
  BY <1>23, Constants DEF CheckCancelled, Goto, TypeOK, PhaseOK, Live
<1>24. ASSUME NEW w \in Workers, RecordOutcome(w) PROVE PhaseOK'
  BY <1>24, Constants DEF RecordOutcome, Goto, RecordFile, RecordedStore, TypeOK, PhaseOK, Live
<1>25. ASSUME NEW w \in Workers, Finish(w) PROVE PhaseOK'
  BY <1>25, Constants DEF Finish, Goto, FileFinished, TypeOK, PhaseOK, Live
<1>26. ASSUME NEW w \in Workers, Abort(w) PROVE PhaseOK'
  BY <1>26, Constants DEF Abort, Goto, TypeOK, PhaseOK, Live
<1>27. CASE UNCHANGED vars
  BY <1>27 DEF TypeOK, PhaseOK, Live
<1> QED
  BY <1>1, <1>2, <1>3, <1>4, <1>5, <1>6, <1>7, <1>8, <1>9, <1>10, <1>11, <1>12, <1>13, <1>14,
     <1>15, <1>16, <1>17, <1>18, <1>19, <1>20, <1>21, <1>22, <1>23, <1>24, <1>25, <1>26, <1>27
  DEF Next, Controller, Worker, WorkerLoop, NextWork, RunFile, Done

\* No step writes over an earlier result.
LEMMA PriorStep == TypeOK /\ LocalOK /\ PriorKept /\ [Next]_vars => PriorKept'
<1> SUFFICES ASSUME TypeOK, LocalOK, PriorKept, [Next]_vars PROVE PriorKept'
  OBVIOUS
<1> USE DEF vars, queueVars, storeVars, sandboxVars, envVars, localVars, workerVars
<1>1. CASE StartRun
  BY <1>1, ConfigAssumption DEF StartRun, TypeOK, PriorKept
<1>2. CASE LeaveLoop
  BY <1>2, Constants DEF LeaveLoop, PriorKept
<1>3. CASE Tick
  BY <1>3, Constants DEF Tick, ScaleDown, Recover, RampUp, RecoverDue, Goto, PriorKept
<1>4. CASE Return
  BY <1>4, Constants DEF Return, PriorKept
<1>5. CASE Cancel
  BY <1>5, Constants DEF Cancel, PriorKept
<1>6. CASE Pressure
  BY <1>6, Constants DEF Pressure, PriorKept
<1>7. ASSUME NEW w \in Workers, Top(w) PROVE PriorKept'
  BY <1>7, Constants DEF Top, Goto, PriorKept
<1>8. ASSUME NEW w \in Workers, Exit(w) PROVE PriorKept'
  BY <1>8, Constants DEF Exit, Goto, PriorKept
<1>9. ASSUME NEW w \in Workers, NoWork(w) PROVE PriorKept'
  BY <1>9, Constants DEF NoWork, Goto, PriorKept
<1>10. ASSUME NEW w \in Workers, AwaitGate(w) PROVE PriorKept'
  BY <1>10, Constants DEF AwaitGate, Goto, Unlock, PriorKept
<1>11. ASSUME NEW w \in Workers, Unclaim(w) PROVE PriorKept'
  BY <1>11, Constants DEF Unclaim, Goto, PriorKept
<1>12. ASSUME NEW w \in Workers, Release(w) PROVE PriorKept'
  BY <1>12, Constants DEF Release, Goto, Unlock, PriorKept
<1>13. ASSUME NEW w \in Workers, Look(w) PROVE PriorKept'
  BY <1>13, Constants DEF Look, Goto, SkipPackage, PriorKept
<1>14. ASSUME NEW w \in Workers, TryAcquire(w) PROVE PriorKept'
  BY <1>14, Constants DEF TryAcquire, Goto, SkipPackage, PriorKept
<1>15. ASSUME NEW w \in Workers, Prepare(w) PROVE PriorKept'
  BY <1>15, Constants DEF Prepare, Goto, Unlock, NeedsPrepare, PriorKept
<1>16. ASSUME NEW w \in Workers, PrepareFailed(w) PROVE PriorKept'
  BY <1>16, Constants DEF PrepareFailed, Goto, SkipPackage, Pop, HeadIs, PriorKept
<1>17. ASSUME NEW w \in Workers, RecordPrepareError(w) PROVE PriorKept'
  <2>1. cur[w] \in AllFiles \ resolved /\ "error" \in FileResults /\ RecordFile(cur[w], "error")
    BY <1>17, Constants DEF RecordPrepareError, LocalOK, WorkingPcs, FileResults
  <2>2. resolved \subseteq AllFiles
    BY ConfigAssumption DEF TypeOK
  <2> QED
    BY <1>17, <2>1, <2>2, RecordFileEffect DEF RecordPrepareError, PriorKept
<1>18. ASSUME NEW w \in Workers, FinishPrepareError(w) PROVE PriorKept'
  BY <1>18, Constants DEF FinishPrepareError, Goto, FileFinished, SkipPackage, PriorKept
<1>19. ASSUME NEW w \in Workers, Claim(w) PROVE PriorKept'
  BY <1>19, Constants DEF Claim, Goto, Unlock, Pop, HeadIs, PriorKept
<1>20. ASSUME NEW w \in Workers, PutBack(w) PROVE PriorKept'
  BY <1>20, Constants DEF PutBack, Goto, SkipPackage, PriorKept
<1>21. ASSUME NEW w \in Workers, StartFile(w) PROVE PriorKept'
  BY <1>21, Constants DEF StartFile, Goto, PriorKept
<1>22. ASSUME NEW w \in Workers, RunCommands(w) PROVE PriorKept'
  BY <1>22, Constants DEF RunCommands, Goto, StepOutcomes, PriorKept
<1>23. ASSUME NEW w \in Workers, CheckCancelled(w) PROVE PriorKept'
  BY <1>23, Constants DEF CheckCancelled, Goto, PriorKept
<1>24. ASSUME NEW w \in Workers, RecordOutcome(w) PROVE PriorKept'
  <2>1. cur[w] \in AllFiles \ resolved /\ out[w] \in FileResults /\ RecordFile(cur[w], out[w])
    BY <1>24, Constants DEF RecordOutcome, LocalOK, WorkingPcs
  <2>2. resolved \subseteq AllFiles
    BY ConfigAssumption DEF TypeOK
  <2> QED
    BY <1>24, <2>1, <2>2, RecordFileEffect DEF RecordOutcome, PriorKept
<1>25. ASSUME NEW w \in Workers, Finish(w) PROVE PriorKept'
  BY <1>25, Constants DEF Finish, Goto, FileFinished, PriorKept
<1>26. ASSUME NEW w \in Workers, Abort(w) PROVE PriorKept'
  BY <1>26, Constants DEF Abort, Goto, PriorKept
<1>27. CASE UNCHANGED vars
  BY <1>27 DEF PriorKept
<1> QED
  BY <1>1, <1>2, <1>3, <1>4, <1>5, <1>6, <1>7, <1>8, <1>9, <1>10, <1>11, <1>12, <1>13, <1>14,
     <1>15, <1>16, <1>17, <1>18, <1>19, <1>20, <1>21, <1>22, <1>23, <1>24, <1>25, <1>26, <1>27
  DEF Next, Controller, Worker, WorkerLoop, NextWork, RunFile, Done

\* No step lets go of a file that is still to be recorded.
LEMMA CustodyStep == TypeOK /\ LocalOK /\ PhaseOK /\ [Next]_vars => CustodyKept
<1> SUFFICES ASSUME TypeOK, LocalOK, PhaseOK, [Next]_vars PROVE CustodyKept
  OBVIOUS
<1> USE DEF vars, queueVars, storeVars, sandboxVars, envVars, localVars, workerVars
<1>1. CASE StartRun
  BY <1>1 DEF StartRun, PhaseOK, Unresolved, Carries, CustodyKept
<1>2. CASE LeaveLoop
  BY <1>2, Constants DEF LeaveLoop, TypeOK, LocalOK, WorkingPcs, Unresolved, Carries, CustodyKept
<1>3. CASE Tick
  BY <1>3, Constants DEF Tick, ScaleDown, Recover, RampUp, RecoverDue, Goto, TypeOK, LocalOK,
     WorkingPcs, Unresolved, Carries, CustodyKept
<1>4. CASE Return
  BY <1>4, Constants DEF Return, TypeOK, LocalOK, WorkingPcs, Unresolved, Carries, CustodyKept
<1>5. CASE Cancel
  BY <1>5, Constants DEF Cancel, TypeOK, LocalOK, WorkingPcs, Unresolved, Carries, CustodyKept
<1>6. CASE Pressure
  BY <1>6, Constants DEF Pressure, TypeOK, LocalOK, WorkingPcs, Unresolved, Carries, CustodyKept
<1>7. ASSUME NEW w \in Workers, Top(w) PROVE CustodyKept
  BY <1>7, Constants DEF Top, Goto, TypeOK, LocalOK, WorkingPcs, Unresolved, Carries, CustodyKept
<1>8. ASSUME NEW w \in Workers, Exit(w) PROVE CustodyKept
  BY <1>8, Constants DEF Exit, Goto, TypeOK, LocalOK, WorkingPcs, Unresolved, Carries, CustodyKept
<1>9. ASSUME NEW w \in Workers, NoWork(w) PROVE CustodyKept
  BY <1>9, Constants DEF NoWork, Goto, TypeOK, LocalOK, WorkingPcs, Unresolved, Carries,
     CustodyKept
<1>10. ASSUME NEW w \in Workers, AwaitGate(w) PROVE CustodyKept
  BY <1>10, Constants DEF AwaitGate, Goto, Unlock, TypeOK, LocalOK, WorkingPcs, Unresolved,
     Carries, CustodyKept
<1>11. ASSUME NEW w \in Workers, Unclaim(w) PROVE CustodyKept
  <2>1. at[w] \in Pkgs /\ cur[w] \in AllRunnable /\ Requeue(at[w], cur[w])
    BY <1>11, Constants DEF Unclaim, LocalOK, WorkingPcs
  <2>2. \A p \in Pkgs : Range(pending[p]) \subseteq Range(pending'[p])
    BY <2>1, RequeueQueue
  <2> QED
    BY <1>11, <2>1, <2>2 DEF Unclaim, Goto, SkipPackage, TypeOK, LocalOK, Unresolved, Carries,
       CustodyKept
<1>12. ASSUME NEW w \in Workers, Release(w) PROVE CustodyKept
  BY <1>12, Constants DEF Release, Goto, Unlock, TypeOK, LocalOK, WorkingPcs, Unresolved,
     Carries, CustodyKept
<1>13. ASSUME NEW w \in Workers, Look(w) PROVE CustodyKept
  BY <1>13, Constants DEF Look, Goto, SkipPackage, TypeOK, LocalOK, WorkingPcs, Unresolved,
     Carries, CustodyKept
<1>14. ASSUME NEW w \in Workers, TryAcquire(w) PROVE CustodyKept
  BY <1>14, Constants DEF TryAcquire, Goto, SkipPackage, TypeOK, LocalOK, WorkingPcs, Unresolved,
     Carries, CustodyKept
<1>15. ASSUME NEW w \in Workers, Prepare(w) PROVE CustodyKept
  BY <1>15, Constants DEF Prepare, Goto, Unlock, NeedsPrepare, TypeOK, LocalOK, WorkingPcs,
     Unresolved, Carries, CustodyKept
<1>16. ASSUME NEW w \in Workers, PrepareFailed(w) PROVE CustodyKept
  <2>1. at[w] \in Pkgs
    BY <1>16 DEF PrepareFailed, LocalOK, WorkingPcs
  <2>2. \/ pending' = pending /\ pc'[w] # "failrec"
        \/ /\ pc'[w] = "failrec" /\ cur[w] = Head(pending[at[w]])
           /\ \A q \in Pkgs : q # at[w] => pending'[q] = pending[q]
           /\ \A f \in Range(pending[at[w]]) : f = cur[w] \/ f \in Range(pending'[at[w]])
    BY <1>16, <2>1, PopQueue DEF PrepareFailed, HeadIs, Goto, SkipPackage, TypeOK
  <2>3. /\ pc'[w] = "failrec" => at'[w] = at[w] /\ cur'[w] = cur[w]
        /\ \A v \in Workers : v # w => pc'[v] = pc[v] /\ at'[v] = at[v] /\ cur'[v] = cur[v]
    BY <1>16 DEF PrepareFailed, Goto, SkipPackage, TypeOK
  <2> QED
    BY <1>16, <2>1, <2>2, <2>3 DEF PrepareFailed, Unresolved, Carries, CustodyKept
<1>17. ASSUME NEW w \in Workers, RecordPrepareError(w) PROVE CustodyKept
  <2>1. cur[w] \in AllFiles /\ "error" \in FileResults /\ RecordFile(cur[w], "error")
    BY <1>17, Constants DEF RecordPrepareError, LocalOK, WorkingPcs, FileResults
  <2>2. recs'[cur[w]] > 0 /\ \A g \in AllFiles : g # cur[w] => recs'[g] = recs[g]
    BY <2>1, RecordFileEffect
  <2>3. \A p \in Pkgs : Runnable(p) \subseteq AllFiles
    BY Constants
  <2>4. \A p \in Pkgs : \A f \in Unresolved(p)' : f \in Unresolved(p) /\ f # cur[w]
    BY <1>17, <2>2, <2>3 DEF RecordPrepareError, Unresolved, TypeOK
  <2> QED
    BY <1>17, <2>1, <2>2, <2>3, <2>4 DEF RecordPrepareError, Goto, TypeOK, Carries, CustodyKept
<1>18. ASSUME NEW w \in Workers, FinishPrepareError(w) PROVE CustodyKept
  BY <1>18, Constants DEF FinishPrepareError, Goto, FileFinished, SkipPackage, TypeOK, LocalOK,
     WorkingPcs, Unresolved, Carries, CustodyKept
<1>19. ASSUME NEW w \in Workers, Claim(w) PROVE CustodyKept
  <2>1. at[w] \in Pkgs
    BY <1>19 DEF Claim, LocalOK, WorkingPcs
  <2>2. \/ pending' = pending /\ pc'[w] # "gated"
        \/ /\ pc'[w] = "gated" /\ cur[w] = Head(pending[at[w]])
           /\ \A q \in Pkgs : q # at[w] => pending'[q] = pending[q]
           /\ \A f \in Range(pending[at[w]]) : f = cur[w] \/ f \in Range(pending'[at[w]])
    BY <1>19, <2>1, PopQueue DEF Claim, HeadIs, Goto, SkipPackage, TypeOK
  <2>3. /\ pc'[w] = "gated" => at'[w] = at[w] /\ cur'[w] = cur[w]
        /\ \A v \in Workers : v # w => pc'[v] = pc[v] /\ at'[v] = at[v] /\ cur'[v] = cur[v]
    BY <1>19 DEF Claim, Goto, SkipPackage, TypeOK
  <2> QED
    BY <1>19, <2>1, <2>2, <2>3 DEF Claim, Unresolved, Carries, CustodyKept
<1>20. ASSUME NEW w \in Workers, PutBack(w) PROVE CustodyKept
  <2>1. at[w] \in Pkgs /\ cur[w] \in AllRunnable /\ Requeue(at[w], cur[w])
    BY <1>20, Constants DEF PutBack, LocalOK, WorkingPcs
  <2>2. \A p \in Pkgs : Range(pending[p]) \subseteq Range(pending'[p])
    BY <2>1, RequeueQueue
  <2> QED
    BY <1>20, <2>1, <2>2 DEF PutBack, Goto, SkipPackage, TypeOK, LocalOK, Unresolved, Carries,
       CustodyKept
<1>21. ASSUME NEW w \in Workers, StartFile(w) PROVE CustodyKept
  BY <1>21, Constants DEF StartFile, Goto, TypeOK, LocalOK, WorkingPcs, Unresolved, Carries,
     CustodyKept
<1>22. ASSUME NEW w \in Workers, RunCommands(w) PROVE CustodyKept
  BY <1>22, Constants DEF RunCommands, Goto, StepOutcomes, TypeOK, LocalOK, WorkingPcs,
     Unresolved, Carries, CustodyKept
<1>23. ASSUME NEW w \in Workers, CheckCancelled(w) PROVE CustodyKept
  BY <1>23, Constants DEF CheckCancelled, Goto, TypeOK, LocalOK, WorkingPcs, Unresolved, Carries,
     CustodyKept
<1>24. ASSUME NEW w \in Workers, RecordOutcome(w) PROVE CustodyKept
  <2>1. cur[w] \in AllFiles /\ out[w] \in FileResults /\ RecordFile(cur[w], out[w])
    BY <1>24, Constants DEF RecordOutcome, LocalOK, WorkingPcs
  <2>2. recs'[cur[w]] > 0 /\ \A g \in AllFiles : g # cur[w] => recs'[g] = recs[g]
    BY <2>1, RecordFileEffect
  <2>3. \A p \in Pkgs : Runnable(p) \subseteq AllFiles
    BY Constants
  <2>4. \A p \in Pkgs : \A f \in Unresolved(p)' : f \in Unresolved(p) /\ f # cur[w]
    BY <1>24, <2>2, <2>3 DEF RecordOutcome, Unresolved, TypeOK
  <2> QED
    BY <1>24, <2>1, <2>2, <2>3, <2>4 DEF RecordOutcome, Goto, TypeOK, Carries, CustodyKept
<1>25. ASSUME NEW w \in Workers, Finish(w) PROVE CustodyKept
  BY <1>25, Constants DEF Finish, Goto, FileFinished, TypeOK, LocalOK, WorkingPcs, Unresolved,
     Carries, CustodyKept
<1>26. ASSUME NEW w \in Workers, Abort(w) PROVE CustodyKept
  BY <1>26, Constants DEF Abort, Goto, TypeOK, LocalOK, WorkingPcs, Unresolved, Carries,
     CustodyKept
<1>27. CASE UNCHANGED vars
  BY <1>27 DEF TypeOK, LocalOK, WorkingPcs, Unresolved, Carries, CustodyKept
<1> QED
  BY <1>1, <1>2, <1>3, <1>4, <1>5, <1>6, <1>7, <1>8, <1>9, <1>10, <1>11, <1>12, <1>13, <1>14,
     <1>15, <1>16, <1>17, <1>18, <1>19, <1>20, <1>21, <1>22, <1>23, <1>24, <1>25, <1>26, <1>27
  DEF Next, Controller, Worker, WorkerLoop, NextWork, RunFile, Done

\* A file that is not lost before a step is not lost after it.
LEMMA NoFileLostStep ==
  TypeOK /\ LocalOK /\ PhaseOK /\ NoFileLost /\ [Next]_vars => NoFileLost'
<1> SUFFICES ASSUME TypeOK, LocalOK, PhaseOK, NoFileLost, [Next]_vars, ~cancelled',
                    NEW p \in Pkgs, ~aborted'[p], NEW f \in Unresolved(p)'
             PROVE  f \in Range(pending'[p]) \/ \E w \in Workers : Carries(w, p, f)'
  BY DEF NoFileLost
<1>1. CustodyKept
  BY CustodyStep
<1>2. ~cancelled /\ ~aborted[p] /\ f \in Unresolved(p)
  BY <1>1 DEF CustodyKept
<1>3. f \in Range(pending[p]) \/ \E w \in Workers : Carries(w, p, f)
  BY <1>2 DEF NoFileLost
<1> QED  BY <1>1, <1>2, <1>3 DEF CustodyKept

\* Run leaves its loop with empty queues, so what is not lost is carried; after
\* that the custody of a file stays with its worker.
LEMMA DrainStep ==
  TypeOK /\ LocalOK /\ PhaseOK /\ NoFileLost /\ DrainOK /\ [Next]_vars => DrainOK'
<1> SUFFICES ASSUME TypeOK, LocalOK, PhaseOK, NoFileLost, DrainOK, [Next]_vars,
                    ctl' \in {"wait", "returned"}, ~cancelled',
                    NEW p \in Pkgs, ~aborted'[p], NEW f \in Unresolved(p)'
             PROVE  \E w \in Workers : Carries(w, p, f)'
  BY DEF DrainOK
<1>1. CustodyKept
  BY CustodyStep
<1>2. ~cancelled /\ ~aborted[p] /\ f \in Unresolved(p)
  BY <1>1 DEF CustodyKept
<1>3. CASE ctl \in {"wait", "returned"}
  BY <1>1, <1>2, <1>3 DEF DrainOK, CustodyKept
<1>4. CASE ctl \notin {"wait", "returned"}
  <2>1. LeaveLoop
    <3>1. \A w \in Workers : ~Worker(w)
      BY <1>4 DEF Worker, WorkerLoop, NextWork, RunFile, Top, Exit, NoWork, AwaitGate, Unclaim,
         Release, Look, TryAcquire, Prepare, PrepareFailed, RecordPrepareError,
         FinishPrepareError, Claim, PutBack, StartFile, RunCommands, CheckCancelled,
         RecordOutcome, Finish, Abort
    <3> QED
      BY <1>4, <3>1 DEF Next, Controller, StartRun, Tick, Return, Cancel, Pressure, Done, vars
  <2>2. pending[p] = <<>>
    BY <1>2, <2>1 DEF LeaveLoop, Drained
  <2>3. f \notin Range(pending[p])
    BY <2>2, EmptyRange
  <2> QED  BY <1>1, <1>2, <2>3 DEF NoFileLost, CustodyKept
<1> QED  BY <1>3, <1>4

-----------------------------------------------------------------------------
(* Steps seen from a worker: recorded timeouts and package slots *)

\* A worker's step leaves the place and the outcome of every other worker alone.
LEMMA OwnPlace ==
  ASSUME TypeOK, NEW w \in Workers, NEW v \in Workers, v # w, Worker(w)
  PROVE  pc'[v] = pc[v] /\ at'[v] = at[v] /\ out'[v] = out[v]
<1> USE DEF TypeOK, localVars, workerVars, Goto, SkipPackage
<1>1. CASE WorkerLoop(w)
  BY <1>1 DEF WorkerLoop, Top, Exit, NoWork, AwaitGate, Unclaim, Release
<1>2. CASE NextWork(w)
  BY <1>2 DEF NextWork, Look, TryAcquire, Prepare, PrepareFailed, RecordPrepareError,
     FinishPrepareError, Claim, PutBack
<1>3. CASE RunFile(w)
  BY <1>3 DEF RunFile, StartFile, RunCommands, CheckCancelled, RecordOutcome, Finish, Abort
<1> QED  BY <1>1, <1>2, <1>3 DEF Worker

\* Run and the environment start workers, and touch no worker that runs.
LEMMA ControllerPlace ==
  ASSUME TypeOK, PhaseOK, NEW v \in Workers, pc[v] # "off",
         Controller \/ Cancel \/ Pressure \/ Done \/ UNCHANGED vars
  PROVE  pc'[v] = pc[v] /\ at'[v] = at[v] /\ out'[v] = out[v]
<1> USE DEF TypeOK, localVars, workerVars, vars
<1>1. CASE Controller
  BY <1>1 DEF Controller, StartRun, LeaveLoop, Tick, ScaleDown, Recover, RampUp, Goto, Return,
     PhaseOK
<1> QED  BY <1>1 DEF Cancel, Pressure, Done

\* An aborted package stays aborted.
LEMMA AbortedStays ==
  ASSUME TypeOK, [Next]_vars, NEW p \in Pkgs, aborted[p]
  PROVE  aborted'[p]
<1> USE DEF vars, queueVars
<1>1. CASE \E w \in Workers : Abort(w)
  BY <1>1 DEF Abort, TypeOK
<1>2. CASE ~\E w \in Workers : Abort(w)
  <2>1. aborted' = aborted
    BY <1>2 DEF Next, Controller, StartRun, LeaveLoop, Tick, Return, Cancel, Pressure, Done,
       Worker, WorkerLoop, NextWork, RunFile, Top, Exit, NoWork, AwaitGate, Unclaim, Release,
       Look, TryAcquire, Prepare, PrepareFailed, RecordPrepareError, FinishPrepareError, Claim,
       PutBack, StartFile, RunCommands, CheckCancelled, RecordOutcome, Finish
  <2> QED  BY <2>1
<1> QED  BY <1>1, <1>2

\* Only RecordOutcome records a timeout, for the file the worker has in hand.
LEMMA TimeoutRecorded ==
  ASSUME TypeOK, LocalOK, [Next]_vars,
         NEW f \in AllRunnable, store[f] # "timeout", store'[f] = "timeout"
  PROVE  \E w \in Workers : RecordOutcome(w) /\ cur[w] = f /\ out[w] = "timeout"
<1> USE DEF vars, storeVars
<1>1. PICK w \in Workers : StartRun \/ RecordPrepareError(w) \/ RecordOutcome(w)
  BY WorkersAssumption DEF Next, Controller, LeaveLoop, Tick, Return, Cancel, Pressure, Done,
     Worker, WorkerLoop, NextWork, RunFile, Top, Exit, NoWork, AwaitGate, Unclaim, Release,
     Look, TryAcquire, Prepare, PrepareFailed, FinishPrepareError, Claim,
     PutBack, StartFile, RunCommands, CheckCancelled, Finish, Abort
<1>2. ~StartRun
  BY Constants DEF StartRun, TypeOK
<1>3. ~RecordPrepareError(w)
  BY Constants DEF RecordPrepareError, RecordFile, RecordedStore, TypeOK
<1>4. RecordOutcome(w)
  BY <1>1, <1>2, <1>3
<1>5. cur[w] = f /\ out[w] = "timeout"
  BY <1>4, Constants DEF RecordOutcome, RecordFile, RecordedStore, TypeOK
<1> QED  BY <1>4, <1>5

\* Earlier results and unmapped files are no timeouts.
LEMMA TimeoutInit == Init => TimeoutOK
  BY ConfigAssumption, Constants DEF Init, TimeoutOK

\* From its record to the abort a timeout is in the hands of one worker.
LEMMA TimeoutStep == IInv /\ TimeoutOK /\ [Next]_vars => TimeoutOK'
<1> DEFINE Keeper(w, p) == pc[w] \in {"fin", "abort"} /\ at[w] = p /\ out[w] = "timeout"
<1> SUFFICES ASSUME IInv, TimeoutOK, [Next]_vars, AbortOnTimeout,
                    NEW p \in Pkgs, NEW f \in Runnable(p), store'[f] = "timeout"
             PROVE  aborted'[p] \/ \E w \in Workers : Keeper(w, p)'
  BY DEF TimeoutOK
<1>1. TypeOK /\ LocalOK /\ PhaseOK /\ f \in AllRunnable
  BY Constants DEF IInv
<1>2. ASSUME NEW v \in Workers, Keeper(v, p) PROVE aborted'[p] \/ Keeper(v, p)'
  <2>1. CASE Controller \/ Cancel \/ Pressure \/ Done \/ UNCHANGED vars
    BY <1>1, <1>2, <2>1, ControllerPlace
  <2>2. CASE \E w \in Workers \ {v} : Worker(w)
    BY <1>1, <1>2, <2>2, OwnPlace
  <2>3. CASE Worker(v)
    <3>1. Finish(v) \/ Abort(v)
      BY <1>2, <2>3 DEF Worker, WorkerLoop, NextWork, RunFile, Top, Exit, NoWork, AwaitGate,
         Unclaim, Release, Look, TryAcquire, Prepare, PrepareFailed, RecordPrepareError,
         FinishPrepareError, Claim, PutBack, StartFile, RunCommands, CheckCancelled, RecordOutcome
    <3>2. CASE Finish(v)
      BY <1>1, <1>2, <3>2 DEF Finish, Goto, localVars, TypeOK
    <3>3. CASE Abort(v)
      BY <1>1, <1>2, <3>3 DEF Abort, TypeOK
    <3> QED  BY <3>1, <3>2, <3>3
  <2> QED  BY <2>1, <2>2, <2>3 DEF Next
<1>3. CASE store[f] = "timeout"
  BY <1>1, <1>2, <1>3, AbortedStays DEF TimeoutOK
<1>4. CASE store[f] # "timeout"
  <2>1. PICK w \in Workers : RecordOutcome(w) /\ cur[w] = f /\ out[w] = "timeout"
    BY <1>1, <1>4, TimeoutRecorded
  <2>2. at[w] = p
    BY <1>1, <2>1, QueueAssumption DEF RecordOutcome, LocalOK, WorkingPcs
  <2>3. Keeper(w, p)'
    BY <1>1, <2>1, <2>2 DEF RecordOutcome, Goto, localVars, TypeOK
  <2> QED  BY <2>3
<1> QED  BY <1>3, <1>4

\* Only Claim takes a worker on from "claim" with a file, and not in an aborted
\* package.
LEMMA ClaimNeedsLive ==
  ASSUME TypeOK, PhaseOK, [Next]_vars, NEW w \in Workers, pc[w] = "claim", pc'[w] = "gated"
  PROVE  ~aborted[at[w]]
<1>1. CASE Controller \/ Cancel \/ Pressure \/ Done \/ UNCHANGED vars
  BY <1>1, ControllerPlace
<1>2. CASE \E v \in Workers \ {w} : Worker(v)
  BY <1>2, OwnPlace
<1>3. CASE Worker(w)
  <2>1. Claim(w)
    BY <1>3 DEF Worker, WorkerLoop, NextWork, RunFile, Top, Exit, NoWork, AwaitGate,
       Unclaim, Release, Look, TryAcquire, Prepare, PrepareFailed, RecordPrepareError,
       FinishPrepareError, PutBack, StartFile, RunCommands, CheckCancelled, RecordOutcome,
       Finish, Abort
  <2> QED  BY <2>1 DEF Claim, Goto, TypeOK
<1> QED  BY <1>1, <1>2, <1>3 DEF Next

\* The slot of a package is kept by its queue or by a worker with a file of it.
LEMMA SlotStep == TypeOK /\ LocalOK /\ PhaseOK /\ SlotNotLeaked /\ [Next]_vars => SlotNotLeaked'
<1> DEFINE Serves(w, p) == pc[w] \in ClaimedPcs \cup {"putback"} /\ at[w] = p
<1> SUFFICES ASSUME TypeOK, LocalOK, PhaseOK, SlotNotLeaked, [Next]_vars, ~cancelled',
                    NEW p \in Pkgs, active'[p]
             PROVE  pending'[p] # <<>> \/ \E w \in Workers : Serves(w, p)'
  BY DEF SlotNotLeaked, ActivePackages
<1>1. ~cancelled
  BY DEF Next, Controller, StartRun, LeaveLoop, Tick, Return, Cancel, Pressure, Done, vars,
     envVars, Worker, WorkerLoop, NextWork, RunFile, Top, Exit, NoWork, AwaitGate, Unclaim,
     Release, Look, TryAcquire, Prepare, PrepareFailed, RecordPrepareError,
     FinishPrepareError, Claim, PutBack, StartFile, RunCommands, CheckCancelled, RecordOutcome,
     Finish, Abort
<1>2. active[p] => pending[p] # <<>> \/ \E w \in Workers : Serves(w, p)
  BY <1>1 DEF SlotNotLeaked, ActivePackages
<1>3. ASSUME UNCHANGED <<pending, active>>,
             \A w \in Workers : Serves(w, p) => Serves(w, p)'
      PROVE  pending'[p] # <<>> \/ \E w \in Workers : Serves(w, p)'
  BY <1>2, <1>3
<1>4. CASE Controller \/ Cancel \/ Pressure \/ Done \/ UNCHANGED vars
  <2>1. UNCHANGED <<pending, active>>
    BY <1>4 DEF Controller, StartRun, LeaveLoop, Tick, Return, Cancel, Pressure, Done, vars,
       queueVars
  <2>2. \A w \in Workers : Serves(w, p) => Serves(w, p)'
    BY <1>4, ControllerPlace DEF ClaimedPcs
  <2> QED  BY <1>3, <2>1, <2>2
<1>5. ASSUME NEW w \in Workers, Worker(w)
      PROVE  pending'[p] # <<>> \/ \E v \in Workers : Serves(v, p)'
  <2> USE DEF queueVars, localVars, workerVars
  <2>1. \A v \in Workers : v # w /\ Serves(v, p) => Serves(v, p)'
    BY <1>5, OwnPlace
  <2>2. ASSUME UNCHANGED <<pending, active>>, Serves(w, p) => Serves(w, p)'
        PROVE  pending'[p] # <<>> \/ \E v \in Workers : Serves(v, p)'
    BY <1>3, <2>1, <2>2
  <2>3. CASE Top(w) \/ Exit(w) \/ NoWork(w) \/ AwaitGate(w) \/ Release(w) \/ TryAcquire(w)
             \/ Prepare(w) \/ RecordPrepareError(w) \/ StartFile(w) \/ RunCommands(w)
             \/ RecordOutcome(w)
    <3>1. UNCHANGED <<pending, active>>
      BY <2>3 DEF Top, Exit, NoWork, AwaitGate, Release, TryAcquire, Prepare, RecordPrepareError,
         StartFile, RunCommands, RecordOutcome
    <3>2. Serves(w, p) => Serves(w, p)'
      BY <2>3 DEF Top, Exit, NoWork, AwaitGate, Release, TryAcquire, Prepare, RecordPrepareError,
         StartFile, RunCommands, RecordOutcome, Goto, SkipPackage, ClaimedPcs, TypeOK
    <3> QED  BY <2>2, <3>1, <3>2
  <2>4. CASE CheckCancelled(w)
    BY <1>1, <2>2, <2>4 DEF CheckCancelled, Goto, ClaimedPcs, TypeOK
  <2>5. CASE Unclaim(w)
    BY <1>1, <2>5 DEF Unclaim, LocalOK
  <2>6. CASE Look(w)
    <3>1. UNCHANGED pending /\ ~Serves(w, p)
      BY <2>6 DEF Look, ClaimedPcs
    <3>2. active'[p] => active[p] \/ pending[p] # <<>>
      BY <2>6 DEF Look, Eligible, Idle, TypeOK
    <3> QED  BY <1>2, <2>1, <3>1, <3>2
  <2>7. CASE PrepareFailed(w) \/ Claim(w)
    <3>1. CASE UNCHANGED pending
      BY <2>2, <2>7, <3>1 DEF PrepareFailed, Claim, ClaimedPcs
    <3>2. CASE ~UNCHANGED pending
      <4>1. Pop(at[w]) /\ pending[at[w]] # <<>> /\ pc'[w] \in ClaimedPcs /\ at'[w] = at[w]
            /\ active' = active
        BY <2>7, <3>2 DEF PrepareFailed, Claim, HeadIs, Goto, ClaimedPcs, TypeOK
      <4>2. CASE at[w] = p
        BY <4>1, <4>2
      <4>3. CASE at[w] # p
        BY <1>2, <2>1, <4>1, <4>3 DEF Pop, TypeOK
      <4> QED  BY <4>2, <4>3
    <3> QED  BY <3>1, <3>2
  <2>8. CASE FinishPrepareError(w) \/ Finish(w)
    <3>1. UNCHANGED <<pending, aborted>> /\ FileFinished(at[w]) /\ at[w] \in Pkgs
      BY <2>8 DEF FinishPrepareError, Finish, LocalOK, WorkingPcs
    <3>2. CASE at[w] = p
      BY <3>1, <3>2 DEF FileFinished, Idle, TypeOK
    <3>3. CASE at[w] # p
      BY <1>2, <2>1, <3>1, <3>3 DEF FileFinished, TypeOK
    <3> QED  BY <3>2, <3>3
  <2>9. CASE PutBack(w)
    <3>1. active' = active /\ at[w] \in Pkgs /\ cur[w] \in AllRunnable /\ Requeue(at[w], cur[w])
      BY <2>9, Constants DEF PutBack, LocalOK, WorkingPcs
    <3>2. CASE at[w] = p
      BY <3>1, <3>2, RequeueQueue, EmptyRange
    <3>3. CASE at[w] # p
      BY <1>2, <2>1, <3>1, <3>3, RequeueQueue
    <3> QED  BY <3>2, <3>3
  <2>10. CASE Abort(w)
    <3>1. at[w] # p
      BY <2>10 DEF Abort, TypeOK
    <3> QED  BY <1>2, <2>1, <2>10, <3>1 DEF Abort, TypeOK
  <2> QED
    BY <1>5, <2>3, <2>4, <2>5, <2>6, <2>7, <2>8, <2>9, <2>10
    DEF Worker, WorkerLoop, NextWork, RunFile
<1> QED  BY <1>4, <1>5 DEF Next

-----------------------------------------------------------------------------
(* The theorems *)

\* New and SkipDone establish every part of the invariant.
LEMMA InitInvariant == Init => IInv
<1> SUFFICES ASSUME Init PROVE IInv
  OBVIOUS
<1>1. \A p \in Pkgs : /\ pending[p] \in Seq(AllRunnable)
                      /\ Range(pending[p]) = Runnable(p) \ resolved
  <2> TAKE p \in Pkgs
  <2>1. pending[p] \in SkipDone(Queue[p], resolved)
    BY DEF Init
  <2>2. PICK n \in 0 .. Len(Queue[p]) : pending[p] \in [1 .. n -> Range(Queue[p])]
    BY <2>1 DEF SkipDone
  <2>3. n \in Nat /\ Range(Queue[p]) \subseteq AllRunnable
    BY QueueAssumption, Constants DEF Runnable
  <2>4. pending[p] \in Seq(AllRunnable)
    BY <2>2, <2>3, SeqDef
  <2> QED  BY <2>1, <2>4 DEF SkipDone, Runnable
<1>2. pending \in [Pkgs -> Seq(AllRunnable)]
  <2>1. pending = [p \in Pkgs |-> pending[p]]
    BY DEF Init
  <2> QED  BY <1>1, <2>1
<1>3. TypeOK
  <2>1. /\ capacity \in 1 .. MaxCap
        /\ at \in [Workers -> 1 .. NPkgs + 1]
        /\ recs \in [AllFiles -> 0 .. RecCap]
    BY Constants DEF Init, RecCap
  <2>2. \A p \in Pkgs : Range(pending[p]) \subseteq Runnable(p)
    BY <1>1
  <2>3. /\ store \in [AllFiles -> StoredResults \cup {"cancelled"}]
        /\ pc \in [Workers -> WorkerPcs]
        /\ out \in [Workers -> FileResults \cup {"none", "cancelled"}]
    BY DEF Init, StoredResults, WorkerPcs
  <2> QED  BY <1>2, <2>1, <2>2, <2>3 DEF Init, TypeOK
<1>4. LocalOK /\ HolderOK /\ CleanOK /\ PhaseOK /\ DrainOK
  BY DEF Init, LocalOK, HolderOK, CleanOK, PhaseOK, DrainOK, WorkingPcs, HoldingPcs
<1>5. QueueOK /\ NoFileLost
  BY <1>1 DEF QueueOK, NoFileLost, Unresolved
<1>6. PriorKept
  BY <1>3, ConfigAssumption DEF Init, PriorKept, TypeOK
<1> QED  BY <1>3, <1>4, <1>5, <1>6 DEF IInv

\* The invariant the safety theorems follow from.
THEOREM Invariance == Spec => []IInv
<1>1. Init => IInv
  BY InitInvariant
<1>2. IInv /\ [Next]_vars => IInv'
  BY TypeStep, LocalStep, QueueStep, HolderStep, CleanStep, PhaseStep, PriorStep,
     NoFileLostStep, DrainStep DEF IInv
<1> QED  BY <1>1, <1>2, PTL DEF Spec

\* Every variable keeps its type in every reachable state.
THEOREM TypeCorrect == Spec => []TypeOK
<1>1. IInv => TypeOK
  BY DEF IInv
<1> QED  BY <1>1, Invariance, PTL

\* Two workers are never inside one package's sandbox, whatever the number of
\* workers, packages and files, the limit and the faults.
THEOREM Exclusion == Spec => []SandboxExclusive
<1>1. IInv => SandboxExclusive
  BY DEF IInv, HolderOK, SandboxExclusive
<1> QED  BY <1>1, Invariance, PTL

\* No interleaving of claims, requeues and failures loses a file.
THEOREM FilesKept == Spec => []NoFileLost
<1>1. IInv => NoFileLost
  BY DEF IInv
<1> QED  BY <1>1, Invariance, PTL

\* An uncancelled Run returns only when every file of every package that was
\* not aborted has been recorded, this session or earlier.
THEOREM Completeness == Spec => []ReturnComplete
<1>1. IInv => ReturnComplete
  BY DEF IInv, DrainOK, PhaseOK, ReturnComplete, Carries
<1> QED  BY <1>1, Invariance, PTL

\* A step's commands start only in a sandbox that was synced since its last
\* killed step (MarkDirty, prepare).
THEOREM CleanStart == Spec => []StepsStartClean
<1>1. IInv => StepsStartClean
  BY DEF IInv, CleanOK, StepsStartClean
<1> QED  BY <1>1, Invariance, PTL

\* What an earlier session recorded is not overwritten by a skip record, a
\* result or a preparation error of this one (F1).
THEOREM ResumeSafe == Spec => []PriorKept
<1>1. IInv => PriorKept
  BY DEF IInv
<1> QED  BY <1>1, Invariance, PTL

\* What a step cut short by Ctrl-C came to is never handed to record (F2).
THEOREM Honest == Spec => []NothingFabricated
<1>1. IInv => NothingFabricated
  BY DEF IInv, LocalOK, NothingFabricated, FileResults
<1> QED  BY <1>1, Invariance, PTL

\* The store is truthful: no earlier result is overwritten and no interrupted step
\* is recorded (StoreTruthful: SkipDone, Run, runFile).
THEOREM Truthful == Spec => []StoreTruthful
<1>1. PriorKept /\ NothingFabricated => StoreTruthful
  BY DEF StoreTruthful
<1> QED  BY <1>1, ResumeSafe, Honest, PTL

\* Once a timeout is on record, abort_package has no other worker claim a file
\* of the package, not even one that had read the queue's head before: the abort
\* comes before the sandbox is released.
THEOREM AbortHolds == Spec => NoClaimAfterTimeout
<1>1. IInv /\ TimeoutOK /\ [Next]_vars =>
        [\A w \in Workers :
           AbortOnTimeout /\ pc[w] = "claim" /\ pc'[w] = "gated"
             => \A f \in Runnable(at[w]) : store[f] # "timeout"]_vars
  <2> SUFFICES ASSUME IInv, TimeoutOK, [Next]_vars, AbortOnTimeout,
                      NEW w \in Workers, pc[w] = "claim", pc'[w] = "gated",
                      NEW f \in Runnable(at[w]), store[f] = "timeout"
               PROVE  FALSE
    OBVIOUS
  <2>1. at[w] \in Pkgs /\ ~aborted[at[w]]
    BY ClaimNeedsLive DEF IInv, LocalOK, WorkingPcs
  <2>2. PICK v \in Workers : pc[v] \in {"fin", "abort"} /\ at[v] = at[w]
    BY <2>1 DEF TimeoutOK
  <2>3. v = w
    BY <2>2 DEF IInv, HolderOK, HoldingPcs
  <2> QED  BY <2>2, <2>3
<1> QED
  BY <1>1, Invariance, TimeoutInit, TimeoutStep, PTL DEF Spec, NoClaimAfterTimeout

\* The package gate never stays closed behind a package nobody works for.
THEOREM SlotsFreed == Spec => []SlotNotLeaked
<1>1. Init => SlotNotLeaked
  BY DEF Init, SlotNotLeaked, ActivePackages
<1>2. IInv /\ SlotNotLeaked /\ [Next]_vars => SlotNotLeaked'
  BY SlotStep DEF IInv
<1> QED  BY <1>1, <1>2, Invariance, PTL DEF Spec

-----------------------------------------------------------------------------
(* Scheduler implements Session *)

\* The files of the abstract session are the runnable files.
LEMMA LedgerFiles == /\ Ledger!Files = AllRunnable
                     /\ \A p \in Pkgs : [q \in Pkgs |-> Runnable(q)][p] = Runnable(p)
  BY DEF Ledger!Files, AllRunnable

\* A worker that is anywhere but "off" belongs to a running session.
LEMMA RunningWorker ==
  ASSUME PhaseOK, TypeOK, NEW w \in Workers, pc[w] # "off"
  PROVE  Phase = "running"
  BY DEF PhaseOK, TypeOK, Phase

\* A record() call gives a file the result of a run, the first or a later one.
LEMMA RecordRefines ==
  ASSUME IInv, NEW w \in Workers, RecordPrepareError(w) \/ RecordOutcome(w)
  PROVE  [Ledger!Next]_(Ledger!sessionVars)
<1> DEFINE f == cur[w]
<1>1. /\ f \in AllRunnable \ resolved /\ f \in AllFiles /\ Phase = "running"
      /\ \E r \in FileResults : RecordFile(f, r)
  BY RunningWorker, Constants
  DEF IInv, LocalOK, WorkingPcs, RecordPrepareError, RecordOutcome, FileResults
<1> PICK r \in FileResults : RecordFile(f, r)
  BY <1>1
<1>2. recs'[f] > 0 /\ \A g \in AllRunnable : g # f => recs'[g] = recs[g]
  BY <1>1, RecordFileEffect, Constants DEF IInv
<1>3. UNCHANGED <<resolved, aborted, cancelled, ctl>>
  BY DEF RecordPrepareError, RecordOutcome, queueVars, envVars
<1>4. UNCHANGED <<aborted, cancelled, Phase>>
  BY <1>3 DEF Phase
<1>5. Fate[f] # "earlier"
  BY <1>1 DEF Fate
<1>6. Fate' = [Fate EXCEPT ![f] = "recorded"]
  BY <1>1, <1>2, <1>3 DEF Fate
<1>7. StoredOf' \in {StoredOf, [StoredOf EXCEPT ![f] = r]}
  <2>1. store' = [store EXCEPT ![f] = r] \/ store' = store
    BY DEF RecordFile, RecordedStore
  <2>2. store \in [AllFiles -> StoredResults \cup {"cancelled"}] /\ AllRunnable \subseteq AllFiles
    BY DEF IInv, TypeOK, AllFiles
  <2> QED  BY <1>1, <2>1, <2>2 DEF StoredOf
<1>8. Ledger!Record(f, r)
  BY <1>1, <1>4, <1>5, <1>6, <1>7 DEF Ledger!Record
<1> QED  BY <1>1, <1>8, LedgerFiles DEF Ledger!Next

\* Aborting a package drops it, after the timeout of one of its files.
LEMMA AbortRefines ==
  ASSUME IInv, NEW w \in Workers, Abort(w)
  PROVE  [Ledger!Next]_(Ledger!sessionVars)
<1>1. at[w] \in Pkgs /\ cur[w] \in Runnable(at[w]) \ resolved /\ recs[cur[w]] > 0
  BY DEF IInv, LocalOK, WorkingPcs, Abort
<1>2. Phase = "running"
  BY RunningWorker DEF IInv, Abort
<1>3. Fate[cur[w]] = "recorded"
  BY <1>1, Constants DEF Fate
<1>4. UNCHANGED <<resolved, recs, store, cancelled, ctl>> /\ aborted' = [aborted EXCEPT ![at[w]] = TRUE]
  BY DEF Abort, storeVars, envVars
<1>5. UNCHANGED <<Fate, StoredOf, cancelled, Phase>>
  BY <1>4 DEF Fate, StoredOf, Phase
<1>6. Ledger!Drop(at[w])
  BY <1>1, <1>2, <1>3, <1>4, <1>5, LedgerFiles DEF Ledger!Drop
<1> QED  BY <1>1, <1>6 DEF Ledger!Next

\* The end of Run: nothing is open but what was dropped, or it was interrupted.
LEMMA ReturnRefines ==
  ASSUME IInv, Return
  PROVE  [Ledger!Next]_(Ledger!sessionVars)
<1>1. Phase = "running" /\ Phase' = "over"
  BY DEF Return, Phase
<1>2. UNCHANGED <<Fate, StoredOf, aborted, cancelled>>
  BY DEF Return, Fate, StoredOf, queueVars, storeVars, envVars
<1>3. ASSUME ~cancelled, NEW p \in Pkgs, ~aborted[p], NEW f \in Runnable(p)
      PROVE  Fate[f] # "open"
  <2>1. f \notin Unresolved(p)
    BY <1>3 DEF IInv, DrainOK, Carries, Return, Live
  <2>2. f \in AllRunnable /\ f \in AllFiles /\ recs[f] \in 0 .. RecCap
    BY <1>3, Constants DEF IInv, TypeOK
  <2> QED  BY <1>3, <2>1, <2>2 DEF Unresolved, Fate, RecCap
<1>4. Ledger!Finish
  BY <1>1, <1>2, <1>3, LedgerFiles DEF Ledger!Finish
<1> QED  BY <1>4 DEF Ledger!Next

\* Failing to record the skips ends the session before any file has run.
LEMMA StartRefines ==
  ASSUME IInv, StartRun
  PROVE  [Ledger!Next]_(Ledger!sessionVars)
<1>1. UNCHANGED <<Fate, aborted, cancelled>> /\ Phase = "running"
  BY DEF StartRun, Fate, Phase, queueVars, envVars
<1>4. UNCHANGED StoredOf
  <2>1. \A f \in AllRunnable : f \in AllFiles /\ f \notin AllUnmapped
    BY Constants DEF AllFiles
  <2>2. \A f \in AllRunnable : store'[f] = store[f]
    BY <2>1 DEF StartRun
  <2> QED  BY <2>2 DEF StoredOf
<1>2. CASE ctl' = "loop"
  BY <1>1, <1>2, <1>4 DEF Ledger!sessionVars, Phase
<1>3. CASE ctl' = "failed"
  <2>1. \A f \in AllRunnable : Fate[f] # "recorded"
    BY Constants DEF IInv, PhaseOK, StartRun, Fate
  <2>2. Phase' = "failed"
    BY <1>3 DEF Phase
  <2>3. Ledger!Fail
    BY <1>1, <1>4, <2>1, <2>2, LedgerFiles DEF Ledger!Fail
  <2> QED  BY <2>3 DEF Ledger!Next
<1> QED  BY <1>2, <1>3 DEF StartRun

\* Ctrl-C is the interruption of a running session.
LEMMA CancelRefines ==
  ASSUME IInv, Cancel
  PROVE  [Ledger!Next]_(Ledger!sessionVars)
<1>1. Phase = "running" /\ ~cancelled
  BY DEF IInv, TypeOK, Cancel, Ended, Phase
<1>2. UNCHANGED <<Fate, StoredOf, aborted, Phase>> /\ cancelled' = TRUE
  BY DEF Cancel, Fate, StoredOf, Phase, queueVars, storeVars
<1>3. Ledger!Interrupt
  BY <1>1, <1>2 DEF Ledger!Interrupt
<1> QED  BY <1>3 DEF Ledger!Next

\* All other steps are invisible to the abstract session.
LEMMA OthersStutter ==
  ASSUME IInv, [Next]_vars,
         ~StartRun, ~Return, ~Cancel,
         \A w \in Workers : ~RecordPrepareError(w) /\ ~RecordOutcome(w) /\ ~Abort(w)
  PROVE  UNCHANGED Ledger!sessionVars
<1> USE DEF vars, queueVars, storeVars, sandboxVars, envVars, localVars, workerVars
<1>1. UNCHANGED <<recs, store, resolved, aborted, cancelled>>
  BY DEF Next, Controller, LeaveLoop, Tick, Pressure, Done, Worker, WorkerLoop, NextWork, RunFile,
     Top, Exit, NoWork, AwaitGate, Unclaim, Release, Look, TryAcquire, Prepare, PrepareFailed,
     FinishPrepareError, Claim, PutBack, StartFile, RunCommands, CheckCancelled, Finish
<1>2. Phase' = Phase
  BY DEF Next, Controller, LeaveLoop, Tick, Pressure, Done, Worker, WorkerLoop, NextWork, RunFile,
     Top, Exit, NoWork, AwaitGate, Unclaim, Release, Look, TryAcquire, Prepare, PrepareFailed,
     FinishPrepareError, Claim, PutBack, StartFile, RunCommands, CheckCancelled, Finish, Phase
<1> QED  BY <1>1, <1>2 DEF Ledger!sessionVars, Fate, StoredOf

\* Every behaviour of the scheduler is, through Fate and Phase, a behaviour of
\* the abstract session.
THEOREM Refinement == Spec => ImplementsSession
<1>1. Init => Ledger!Init
  BY LedgerFiles DEF Init, Ledger!Init, Fate, StoredOf, Phase, AllFiles, AllRunnable
<1>2. IInv /\ [Next]_vars => [Ledger!Next]_(Ledger!sessionVars)
  BY RecordRefines, AbortRefines, ReturnRefines, StartRefines, CancelRefines, OthersStutter
<1> QED  BY <1>1, <1>2, Invariance, PTL DEF Spec, ImplementsSession, Ledger!Spec

=============================================================================
