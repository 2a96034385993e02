-------------------------------- MODULE Step --------------------------------
(***************************************************************************)
(* One step: the command chain of a file (scheduler.go: runCommands), with *)
(* the goroutine that kills a command's process group when its context     *)
(* ends, the memory watcher (watchRSS), and the processes themselves; then *)
(* what runFile makes of it: the dirty mark and the recorded class.        *)
(* Every command has its own context, killer, watcher and process group.   *)
(***************************************************************************)
EXTENDS Integers

CONSTANTS
    NCmds,          \* number of commands in mutation.commands
    HasTimeout,     \* mutation.timeout is positive
    HasBudget,      \* resources.memory_budget_per_step_mb is positive
    MayCancel,      \* Ctrl-C may come
    MayEscape,      \* a descendant may leave the process group (setsid) and
                    \* keep the command's output open
    Ranges,         \* results.by_exit_code, a set of records [lo, hi, class]
    RuleClasses     \* the classes of results.rules

Verdicts == {"killed", "survived", "build_error", "timeout", "oom", "error"}

ASSUME StepAssumption ==
    /\ NCmds \in Nat \ {0}
    /\ {HasTimeout, HasBudget, MayCancel, MayEscape} \subseteq BOOLEAN
    /\ Ranges \subseteq [lo : Nat, hi : Nat, class : Verdicts]
    /\ \A r \in Ranges : r.lo <= r.hi
    /\ RuleClasses \subseteq Verdicts

Cmds == 1 .. NCmds

VARIABLES
    main,       \* where runCommands, and after it runFile, is
    cmd,        \* the command it is at
    result,     \* what it returned
    dirty,      \* the sandbox was marked dirty
    class,      \* what runFile recorded, or "interrupted" when it did not
    sessionErr, \* ctx.Err() # nil
    deadline,   \* cmdCtx ended by its deadline
    released,   \* cancel() was called for cmdCtx
    finished,   \* channel finished (and stopRSS) closed
    killer,     \* the kill goroutine
    watcher,    \* the watchRSS goroutine
    oomKilled,
    leader,     \* the "sh -c" process: "none", "running", or how it ended
    desc,       \* a descendant: "none", "piped" (holds the output), "quiet"
                \* (redirected), "escaped" (out of the group, holds the output)
    overran,    \* history: cmdCtx ended before cmd.Wait returned
    signalled   \* history: a signal met a leader or a process the step waits for

procVars == <<leader, desc, signalled>>
goVars == <<killer, watcher, oomKilled>>
ctxVars == <<sessionErr, deadline, released, overran>>
fileVars == <<dirty, class>>
vars == <<main, cmd, result, fileVars, finished, procVars, goVars, ctxVars>>

Init ==
    /\ main = "next" /\ cmd = 1 /\ result = "none"
    /\ sessionErr = FALSE /\ dirty = FALSE /\ class = "none"
    /\ deadline = [c \in Cmds |-> FALSE]
    /\ released = [c \in Cmds |-> FALSE]
    /\ finished = [c \in Cmds |-> FALSE]
    /\ killer = [c \in Cmds |-> "off"]
    /\ watcher = [c \in Cmds |-> "off"]
    /\ oomKilled = [c \in Cmds |-> FALSE]
    /\ leader = [c \in Cmds |-> "none"]
    /\ desc = [c \in Cmds |-> "none"]
    /\ overran = [c \in Cmds |-> FALSE]
    /\ signalled = [c \in Cmds |-> FALSE]

\* cmdCtx.Done(): its deadline, the session's end, or cancel(). Without a
\* timeout cmdCtx is the session's context.
CtxDone(c) == deadline[c] \/ sessionErr \/ released[c]
PipeOpen(c) == leader[c] = "running" \/ desc[c] \in {"piped", "escaped"}
GroupAlive(c) == leader[c] = "running" \/ desc[c] \in {"piped", "quiet"}
Current(c) == c = cmd /\ main \in {"wait", "close", "flush", "cancel", "conclude"}

-----------------------------------------------------------------------------
(* runCommands *)

Return_PastEnd(r) == main' = "stream" /\ result' = r /\ cmd' = cmd + 1      \* mutant
Return(r) == main' = "stream" /\ result' = r /\ UNCHANGED cmd

NextCommand ==
    /\ main = "next"
    /\ \/ cmd > NCmds /\ Return("exit 0") /\ UNCHANGED <<killer, watcher, leader>>
       \/ cmd \in Cmds /\ sessionErr /\ Return("canceled") /\ UNCHANGED <<killer, watcher, leader>>
       \/ cmd \in Cmds /\ ~sessionErr /\ Return("start error")
          /\ UNCHANGED <<killer, watcher, leader>>
       \/ /\ cmd \in Cmds /\ ~sessionErr
          /\ main' = "wait"
          /\ leader' = [leader EXCEPT ![cmd] = "running"]
          /\ killer' = [killer EXCEPT ![cmd] = "spawned"]
          /\ watcher' = [watcher EXCEPT ![cmd] = IF HasBudget THEN "watch" ELSE "off"]
          /\ UNCHANGED <<cmd, result>>
    /\ UNCHANGED <<fileVars, finished, desc, signalled, oomKilled, ctxVars>>

\* cmd.Wait also waits for the output: for every process that holds the pipe.
WaitReturns ==
    /\ main = "wait" /\ ~PipeOpen(cmd)
    /\ main' = "close"
    /\ UNCHANGED <<cmd, result, fileVars, finished, procVars, goVars, ctxVars>>

\* close(finished) and close(stopRSS); a killer blocked in its select takes it.
CloseChannels ==
    /\ main = "close"
    /\ main' = "flush"
    /\ finished' = [finished EXCEPT ![cmd] = TRUE]
    /\ killer' = [killer EXCEPT ![cmd] = IF @ = "select" THEN "gone" ELSE @]
    /\ UNCHANGED <<cmd, result, fileVars, procVars, watcher, oomKilled, ctxVars>>

\* Flush waits for the queue and the drainer, with no deadline and no context: it
\* returns when the console has taken every queued line, if it ever does.
FlushStream ==
    /\ main = "flush"
    /\ main' = "cancel"
    /\ UNCHANGED <<cmd, result, fileVars, finished, procVars, goVars, ctxVars>>

CancelCommand ==        \* without a timeout there is no cancel to call
    /\ main = "cancel"
    /\ main' = "conclude"
    /\ released' = [released EXCEPT ![cmd] = HasTimeout]
    /\ UNCHANGED <<cmd, result, fileVars, finished, procVars, goVars, sessionErr, deadline, overran>>

\* The deferred order of the switch: deadline, session, memory, exit code.
Verdict_AnyExit(c) ==                                                    \* mutant
    IF deadline[c] THEN "timeout" ELSE IF sessionErr THEN "canceled"
    ELSE IF oomKilled[c] THEN "oom" ELSE "next"
Verdict(c) ==
    IF deadline[c] THEN "timeout"
    ELSE IF sessionErr THEN "canceled"
    ELSE IF oomKilled[c] THEN "oom"
    ELSE IF leader[c] = "zero" THEN "next"
    ELSE "exit 1"

Conclude ==
    /\ main = "conclude"
    /\ \/ /\ Verdict(cmd) = "next"
          /\ main' = "next" /\ cmd' = cmd + 1
          /\ UNCHANGED result
       \/ Verdict(cmd) # "next" /\ Return(Verdict(cmd))
    /\ UNCHANGED <<fileVars, finished, procVars, goVars, ctxVars>>

\* The deferred closeStream, on every path: it waits for the console like Flush.
CloseStream ==
    /\ main = "stream"
    /\ main' = "done"
    /\ UNCHANGED <<cmd, result, fileVars, finished, procVars, goVars, ctxVars>>

-----------------------------------------------------------------------------
(* runFile, after runCommands *)

\* The ranges are sorted by lo, then hi, and the first that holds the code wins;
\* of two keys for the same range either may come first.
Before(r, q) == r.lo < q.lo \/ (r.lo = q.lo /\ r.hi < q.hi)
ByExitCode(code) ==
    LET hits == {r \in Ranges : r.lo <= code /\ code <= r.hi}
    IN  IF hits = {} THEN {IF code = 0 THEN "survived" ELSE "killed"}
        ELSE {r.class : r \in {q \in hits : ~\E o \in hits : Before(o, q)}}

\* rule is the class of the first rule the output of all commands matches, or
\* "none"; code is -1 for a command that died of a signal nobody here sent.
Classify_RulesFirst(code, rule, timedOut, oom) ==                        \* mutant
    IF rule # "none" THEN {rule}
    ELSE IF timedOut THEN {"timeout"} ELSE IF oom THEN {"oom"} ELSE ByExitCode(code)
Classify(code, rule, timedOut, oom) ==
    IF timedOut THEN {"timeout"}
    ELSE IF oom THEN {"oom"}
    ELSE IF rule # "none" THEN {rule}
    ELSE ByExitCode(code)

ExitCodes == IF result = "exit 1" THEN {-1, 1, 2} ELSE {0}

\* MarkDirty for a killed step, the look at ctx.Err(), and the record.
RecordStep ==
    /\ main = "done" /\ main' = "over"
    /\ dirty' = (result \in {"timeout", "oom"} \/ sessionErr)
    /\ \/ sessionErr /\ class' = "interrupted"
       \/ ~sessionErr /\ result = "start error" /\ class' = "error"
       \/ /\ ~sessionErr /\ result # "start error"
          /\ \E code \in ExitCodes, rule \in RuleClasses \cup {"none"} :
               class' \in Classify(code, rule, result = "timeout", result = "oom")
    /\ UNCHANGED <<cmd, result, finished, procVars, goVars, ctxVars>>

Main == NextCommand \/ WaitReturns \/ CloseChannels \/ CancelCommand \/ Conclude \/ RecordStep
Output == FlushStream \/ CloseStream

-----------------------------------------------------------------------------
(* The kill goroutine *)

\* It reaches its select: with both channels ready the choice is random.
EnterSelect(c) ==
    /\ killer[c] = "spawned"
    /\ \/ CtxDone(c) /\ killer' = [killer EXCEPT ![c] = "term"]
       \/ finished[c] /\ killer' = [killer EXCEPT ![c] = "gone"]
       \/ ~CtxDone(c) /\ ~finished[c] /\ killer' = [killer EXCEPT ![c] = "select"]
    /\ UNCHANGED <<main, cmd, result, fileVars, finished, procVars, watcher, oomKilled, ctxVars>>

\* A signal that finds the leader, or a process the step waits for, is remembered.
Signal(c) == signalled' = [signalled EXCEPT ![c] = @ \/ leader[c] = "running" \/ desc[c] = "piped"]

\* termGroup: whoever handles SIGTERM may go, whoever ignores it stays.
TermGroup(c) ==
    /\ killer[c] = "term"
    /\ killer' = [killer EXCEPT ![c] = "grace"]
    /\ Signal(c)
    /\ leader' \in {leader, [leader EXCEPT ![c] = IF @ = "running" THEN "signal" ELSE @]}
    /\ desc' \in {desc, [desc EXCEPT ![c] = IF @ = "escaped" THEN @ ELSE "none"]}
    /\ UNCHANGED <<main, cmd, result, fileVars, finished, watcher, oomKilled, ctxVars>>

\* The grace period ends, or finished is closed: both lead to killGroup.
GraceOver_Satisfied(c) ==                                                \* mutant
    /\ killer[c] = "grace"
    /\ killer' = [killer EXCEPT ![c] = IF finished[c] THEN "gone" ELSE "kill"]
    /\ UNCHANGED <<main, cmd, result, fileVars, finished, procVars, watcher, oomKilled, ctxVars>>
GraceOver_TermOnly(c) ==                                                 \* mutant
    /\ killer[c] = "grace"
    /\ killer' = [killer EXCEPT ![c] = "gone"]
    /\ UNCHANGED <<main, cmd, result, fileVars, finished, procVars, watcher, oomKilled, ctxVars>>
GraceOver(c) ==
    /\ killer[c] = "grace"
    /\ killer' = [killer EXCEPT ![c] = "kill"]
    /\ UNCHANGED <<main, cmd, result, fileVars, finished, procVars, watcher, oomKilled, ctxVars>>

\* SIGKILL to the group: only a descendant that left it survives.
SigKill(c) ==
    /\ Signal(c)
    /\ leader' = [leader EXCEPT ![c] = IF @ = "running" THEN "signal" ELSE @]
    /\ desc' = [desc EXCEPT ![c] = IF @ = "escaped" THEN @ ELSE "none"]

KillGroup(c) ==
    /\ killer[c] = "kill"
    /\ killer' = [killer EXCEPT ![c] = "gone"]
    /\ SigKill(c)
    /\ UNCHANGED <<main, cmd, result, fileVars, finished, watcher, oomKilled, ctxVars>>

Killer(c) == EnterSelect(c) \/ TermGroup(c) \/ GraceOver(c) \/ KillGroup(c)

-----------------------------------------------------------------------------
(* watchRSS *)

\* treeRSS is some sum while the leader lives, and 0 once it has been reaped.
MayExceed(c) == leader[c] = "running"

WatcherReads(c) ==      \* a tick finds the tree above the budget
    /\ watcher[c] = "watch" /\ MayExceed(c)
    /\ watcher' = [watcher EXCEPT ![c] = "over"]
    /\ UNCHANGED <<main, cmd, result, fileVars, finished, procVars, killer, oomKilled, ctxVars>>

WatcherFlags_AfterKill(c) ==                                             \* mutant
    /\ watcher[c] \in {"over", "flagged"}
    /\ watcher' = [watcher EXCEPT ![c] = IF @ = "over" THEN "flagged" ELSE "gone"]
    /\ oomKilled' = [oomKilled EXCEPT ![c] = watcher[c] = "flagged"]
    /\ IF watcher[c] = "over" THEN SigKill(c) ELSE UNCHANGED <<leader, desc, signalled>>
    /\ UNCHANGED <<main, cmd, result, fileVars, finished, killer, ctxVars>>
WatcherFlags(c) ==      \* CompareAndSwap comes before the kill
    /\ watcher[c] = "over"
    /\ watcher' = [watcher EXCEPT ![c] = "flagged"]
    /\ oomKilled' = [oomKilled EXCEPT ![c] = TRUE]
    /\ UNCHANGED <<main, cmd, result, fileVars, finished, procVars, killer, ctxVars>>

WatcherKills(c) ==
    /\ watcher[c] = "flagged"
    /\ watcher' = [watcher EXCEPT ![c] = "gone"]
    /\ SigKill(c)
    /\ UNCHANGED <<main, cmd, result, fileVars, finished, killer, oomKilled, ctxVars>>

WatcherStops(c) ==
    /\ watcher[c] = "watch" /\ finished[c]
    /\ watcher' = [watcher EXCEPT ![c] = "gone"]
    /\ UNCHANGED <<main, cmd, result, fileVars, finished, procVars, killer, oomKilled, ctxVars>>

WatcherRuns(c) == WatcherFlags(c) \/ WatcherKills(c) \/ WatcherStops(c)
Watcher(c) == WatcherReads(c) \/ WatcherRuns(c)

-----------------------------------------------------------------------------
(* Time, Ctrl-C and the processes *)

\* Whoever is blocked in its select on cmdCtx wakes up.
Wake(k) == IF k = "select" THEN "term" ELSE k

\* A goroutine is scheduled within the timeout, so the killer waits by then.
Deadline(c) ==
    /\ HasTimeout /\ Current(c) /\ ~CtxDone(c) /\ killer[c] # "spawned"
    /\ deadline' = [deadline EXCEPT ![c] = TRUE]
    /\ overran' = [overran EXCEPT ![c] = main = "wait"]
    /\ killer' = [killer EXCEPT ![c] = Wake(@)]
    /\ UNCHANGED <<main, cmd, result, fileVars, finished, procVars, watcher, oomKilled, sessionErr, released>>

SessionCancel ==
    /\ MayCancel /\ ~sessionErr /\ main # "over"
    /\ sessionErr' = TRUE
    /\ killer' = [c \in Cmds |-> Wake(killer[c])]
    /\ UNCHANGED <<main, cmd, result, fileVars, finished, procVars, watcher, oomKilled, deadline, released, overran>>

LeaderExits(c) ==
    /\ leader[c] = "running"
    /\ \E e \in {"zero", "nonzero"} : leader' = [leader EXCEPT ![c] = e]
    /\ UNCHANGED <<main, cmd, result, fileVars, finished, desc, signalled, goVars, ctxVars>>

Forks(c) ==
    /\ leader[c] = "running" /\ desc[c] = "none"
    /\ \E d \in {"piped", "quiet"} \cup (IF MayEscape THEN {"escaped"} ELSE {}) :
         desc' = [desc EXCEPT ![c] = d]
    /\ UNCHANGED <<main, cmd, result, fileVars, finished, leader, signalled, goVars, ctxVars>>

DescendantExits(c) ==
    /\ desc[c] # "none"
    /\ desc' = [desc EXCEPT ![c] = "none"]
    /\ UNCHANGED <<main, cmd, result, fileVars, finished, leader, signalled, goVars, ctxVars>>

Processes(c) == LeaderExits(c) \/ Forks(c) \/ DescendantExits(c)

Over == main = "over" /\ UNCHANGED vars

Next == Main \/ Output \/ SessionCancel \/ Over
        \/ \E c \in Cmds : Killer(c) \/ Watcher(c) \/ Deadline(c) \/ Processes(c)

Spec == Init /\ [][Next]_vars

\* Goroutines run and time passes; no process is assumed to end by itself or to
\* exceed its budget, and nothing is assumed of the console behind Output.
FairSpec == /\ Spec /\ WF_vars(Main)
            /\ \A c \in Cmds : WF_vars(Killer(c)) /\ WF_vars(WatcherRuns(c)) /\ WF_vars(Deadline(c))

-----------------------------------------------------------------------------
(* Properties *)

TypeOK ==
    /\ main \in {"next", "wait", "close", "flush", "cancel", "conclude", "stream", "done", "over"}
    /\ cmd \in 1 .. NCmds + 1
    /\ result \in {"none", "exit 0", "exit 1", "canceled", "timeout", "oom", "start error"}
    /\ class \in Verdicts \cup {"none", "interrupted"}
    /\ dirty \in BOOLEAN
    /\ sessionErr \in BOOLEAN
    /\ {deadline, released, finished, oomKilled, overran, signalled} \subseteq [Cmds -> BOOLEAN]
    /\ killer \in [Cmds -> {"off", "spawned", "select", "term", "grace", "kill", "gone"}]
    /\ watcher \in [Cmds -> {"off", "watch", "over", "flagged", "gone"}]
    /\ leader \in [Cmds -> {"none", "running", "zero", "nonzero", "signal"}]
    /\ desc \in [Cmds -> {"none", "piped", "quiet", "escaped"}]

\* A step whose processes met one of this program's signals never passes for a
\* verdict of the tests, whatever output rules and exit codes are configured and
\* whenever Ctrl-C comes: it is recorded as a timeout or a memory kill or not at
\* all, and its sandbox is re-synced before it is used again.
SignalledIsKnown ==
    main = "over" /\ (\E c \in Cmds : signalled[c]) =>
        dirty /\ class \in {"timeout", "oom", "interrupted"}

\* A command runs only after all before it ended by themselves with status 0.
ChainStops ==
    \A c, d \in Cmds : c < d /\ leader[d] # "none" =>
        leader[c] = "zero" /\ ~signalled[c] /\ ~deadline[c]

\* A command that overran its deadline leaves no process of its group behind.
OverrunLeavesNothing == \A c \in Cmds : overran[c] ~> ~GroupAlive(c)

\* With a timeout configured every step ends, whatever its processes do, unless
\* one of them has left the group and keeps the output open for good, or a console
\* that has stopped for good keeps the step in Flush or Close: these two waits have
\* no deadline, and Ctrl-C does not end them (stream.go:160-162, 190-192).
StepEnds ==
    HasTimeout => \/ <>(main = "over")
                  \/ \E c \in Cmds : <>[](desc[c] = "escaped")
                  \/ <>[](main \in {"flush", "stream"})
=============================================================================
