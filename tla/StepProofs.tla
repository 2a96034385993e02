------------------------------ MODULE StepProofs ------------------------------
(***************************************************************************)
(* Proofs about module Step, for any number of commands, with or without a *)
(* timeout, a memory budget, Ctrl-C and processes that leave the group,    *)
(* and for any exit-code ranges and rules.  The inductive invariant says,  *)
(* for each command, what is still untouched, what is settled for good,    *)
(* and on what authority a signal was sent.                                *)
(***************************************************************************)
EXTENDS Step, TLAPS

Flags == [Cmds -> BOOLEAN]

\* Each variable's type.
Typed ==
    /\ main \in {"next", "wait", "close", "flush", "cancel", "conclude", "stream", "done", "over"}
    /\ cmd \in 1 .. NCmds + 1
    /\ result \in {"none", "exit 0", "exit 1", "canceled", "timeout", "oom", "start error"}
    /\ class \in Verdicts \cup {"none", "interrupted"}
    /\ dirty \in BOOLEAN /\ sessionErr \in BOOLEAN
    /\ deadline \in Flags /\ released \in Flags /\ finished \in Flags
    /\ oomKilled \in Flags /\ overran \in Flags /\ signalled \in Flags
    /\ killer \in [Cmds -> {"off", "spawned", "select", "term", "grace", "kill", "gone"}]
    /\ watcher \in [Cmds -> {"off", "watch", "over", "flagged", "gone"}]
    /\ leader \in [Cmds -> {"none", "running", "zero", "nonzero", "signal"}]
    /\ desc \in [Cmds -> {"none", "piped", "quiet", "escaped"}]

\* A command that has not been started.
Fresh(c) ==
    /\ leader[c] = "none" /\ desc[c] = "none" /\ killer[c] = "off" /\ watcher[c] = "off"
    /\ ~signalled[c] /\ ~deadline[c] /\ ~oomKilled[c] /\ ~released[c]

\* A command that no signal can reach any more, as far as the step is concerned.
Settled(c) == leader[c] # "running" /\ desc[c] # "piped"

Condemned == result \in {"timeout", "oom"} \/ sessionErr

CmdOK(c) ==
    /\ c > cmd \/ (c = cmd /\ main = "next") => Fresh(c)
    /\ c < cmd => leader[c] = "zero" /\ ~signalled[c] /\ ~deadline[c]
    /\ c < cmd \/ (c = cmd /\ main # "wait") => Settled(c)
    /\ released[c] => Settled(c) /\ HasTimeout
    /\ killer[c] \in {"term", "grace", "kill"} => CtxDone(c)
    /\ watcher[c] = "flagged" => oomKilled[c]
    /\ signalled[c] => deadline[c] \/ sessionErr \/ oomKilled[c]
    /\ signalled[c] /\ main \in {"stream", "done", "over"} => Condemned
    /\ signalled[c] /\ main = "over" => dirty /\ class \in {"timeout", "oom", "interrupted"}

\* While a command is under way there is one.
UnderWay == main \in {"wait", "close", "flush", "cancel", "conclude"} => cmd \in Cmds

IInv == Typed /\ UnderWay /\ \A c \in Cmds : CmdOK(c)

\* The constants, one at a time.
LEMMA Constants ==
    /\ NCmds \in Nat \ {0}
    /\ HasTimeout \in BOOLEAN /\ HasBudget \in BOOLEAN /\ MayCancel \in BOOLEAN /\ MayEscape \in BOOLEAN
  BY StepAssumption

\* TypeOK, part by part: the provers take the memberships one at a time.
LEMMA TypeParts == Typed => TypeOK
  BY DEF Typed, TypeOK, Flags

\* What a range or a rule makes of a step is a class of the configuration.
LEMMA ClassTyped ==
    ASSUME NEW code, NEW rule \in RuleClasses \cup {"none"}, NEW t \in BOOLEAN, NEW o \in BOOLEAN
    PROVE  Classify(code, rule, t, o) \subseteq Verdicts
<1>1. \A r \in Ranges : r.class \in Verdicts
  BY StepAssumption
<1>2. ByExitCode(code) \subseteq Verdicts
  BY <1>1 DEF ByExitCode, Verdicts
<1>3. RuleClasses \subseteq Verdicts
  BY StepAssumption
<1> QED
  BY <1>2, <1>3 DEF Classify, Verdicts

\* A command is done, under way or to come.
LEMMA Order ==
    ASSUME Typed, NEW c \in Cmds
    PROVE  c \in Nat /\ cmd \in Nat /\ (c < cmd \/ c = cmd \/ c > cmd)
<1>1. cmd \in 1 .. NCmds + 1 /\ c \in 1 .. NCmds
  BY DEF Typed, Cmds
<1>2. NCmds \in Nat
  BY Constants
<1> QED
  BY <1>1, <1>2

\* A process a signal can still reach is one of the command runCommands waits for.
LEMMA ReachedIsCurrent ==
    ASSUME IInv, NEW c \in Cmds, ~Settled(c)
    PROVE  c = cmd /\ main = "wait" /\ ~released[c]
<1>1. CmdOK(c) /\ (c < cmd \/ c = cmd \/ c > cmd)
  BY Order DEF IInv
<1> QED
  BY <1>1 DEF CmdOK, Fresh, Settled

\* A command that was signalled and is not done is the current one.
LEMMA SignalledIsCurrent == ASSUME IInv, NEW c \in Cmds, signalled[c] PROVE c = cmd /\ main # "next"
<1>1. CmdOK(c) /\ (c < cmd \/ c = cmd \/ c > cmd)
  BY Order DEF IInv
<1> QED
  BY <1>1 DEF CmdOK, Fresh

-----------------------------------------------------------------------------
(* The steps *)

\* A command is started, or the chain ends: the session is over, the shell cannot
\* be started, or no command is left.
LEMMA NextCommandKeeps == ASSUME IInv, NextCommand PROVE IInv'
<1> USE Constants DEF NextCommand, fileVars, ctxVars
<1>1. Typed' /\ UnderWay'
  BY DEF IInv, Typed, Flags, Return, UnderWay, Cmds
<1>2. CASE main' = "stream" /\ UNCHANGED <<cmd, killer, watcher, leader>>
  <2> SUFFICES ASSUME NEW d \in Cmds PROVE CmdOK(d)'
    BY <1>1 DEF IInv
  <2>1. main = "next"
    OBVIOUS
  <2>2. CmdOK(d) /\ (d < cmd \/ Fresh(d))
    BY <2>1, Order DEF IInv, CmdOK
  <2>3. ~signalled[d] /\ Settled(d)
    BY <2>2 DEF CmdOK, Fresh, Settled
  <2> QED
    BY <1>2, <2>1, <2>2, <2>3 DEF CmdOK, Fresh, Settled, CtxDone
<1>3. CASE /\ cmd \in Cmds /\ main' = "wait" /\ UNCHANGED <<cmd, result>>
           /\ leader' = [leader EXCEPT ![cmd] = "running"]
           /\ killer' = [killer EXCEPT ![cmd] = "spawned"]
           /\ watcher' = [watcher EXCEPT ![cmd] = IF HasBudget THEN "watch" ELSE "off"]
  <2> SUFFICES ASSUME NEW d \in Cmds PROVE CmdOK(d)'
    BY <1>1 DEF IInv
  <2>1. CmdOK(d) /\ Typed
    BY DEF IInv
  <2>2. CASE d = cmd
    BY <1>3, <2>1, <2>2 DEF CmdOK, Fresh, Settled, CtxDone, Typed, Flags, Cmds
  <2>3. CASE d # cmd
    BY <1>3, <2>1, <2>3 DEF CmdOK, Fresh, Settled, CtxDone, Typed, Flags, Cmds
  <2> QED
    BY <2>2, <2>3
<1> QED
  BY <1>2, <1>3 DEF Return

\* cmd.Wait has returned: no process of the command holds its output.
LEMMA WaitReturnsKeeps == ASSUME IInv, WaitReturns PROVE IInv'
<1> USE DEF WaitReturns, PipeOpen, fileVars, procVars, goVars, ctxVars
<1>3. Typed' /\ UnderWay'
  BY DEF IInv, Typed, UnderWay
<1>4. ASSUME NEW d \in Cmds PROVE CmdOK(d)'
  <2>1. CmdOK(d)
    BY DEF IInv
  <2>2. d = cmd => Settled(d)
    BY DEF PipeOpen, Settled
  <2> QED
    BY <2>1, <2>2 DEF CmdOK, Fresh, Settled, Condemned, CtxDone
<1> QED
  BY <1>3, <1>4 DEF IInv, Cmds

\* close(finished), close(stopRSS).
LEMMA CloseChannelsKeeps == ASSUME IInv, CloseChannels PROVE IInv'
<1> USE DEF CloseChannels, fileVars, procVars, ctxVars
<1>2. finished' \in Flags /\ killer' \in [Cmds -> {"off", "spawned", "select", "term", "grace", "kill", "gone"}]
  BY DEF IInv, Typed, Flags
<1>3. Typed' /\ UnderWay'
  BY <1>2 DEF IInv, Typed, UnderWay
<1>4. ASSUME NEW d \in Cmds PROVE CmdOK(d)'
  <2>1. CmdOK(d)
    BY DEF IInv
  <2>2. killer'[d] = killer[d] \/ (killer[d] = "select" /\ killer'[d] = "gone")
    BY DEF IInv, Typed, Flags
  <2> QED
    BY <2>1, <2>2 DEF CmdOK, Fresh, Settled, Condemned, CtxDone
<1> QED
  BY <1>3, <1>4 DEF IInv, Cmds

\* The console has taken the output.
LEMMA FlushStreamKeeps == ASSUME IInv, FlushStream PROVE IInv'
<1> USE DEF FlushStream, fileVars, procVars, goVars, ctxVars
<1>3. Typed' /\ UnderWay'
  BY DEF IInv, Typed, UnderWay
<1>4. ASSUME NEW d \in Cmds PROVE CmdOK(d)'
  <2>1. CmdOK(d)
    BY DEF IInv
  <2> QED
    BY <2>1 DEF CmdOK, Fresh, Settled, Condemned, CtxDone
<1> QED
  BY <1>3, <1>4 DEF IInv, Cmds

\* It has taken the last of it, and the drainer is gone.
LEMMA CloseStreamKeeps == ASSUME IInv, CloseStream PROVE IInv'
<1> USE DEF CloseStream, fileVars, procVars, goVars, ctxVars
<1>3. Typed' /\ UnderWay'
  BY DEF IInv, Typed, UnderWay
<1>4. ASSUME NEW d \in Cmds PROVE CmdOK(d)'
  <2>1. CmdOK(d)
    BY DEF IInv
  <2> QED
    BY <2>1 DEF CmdOK, Fresh, Settled, Condemned, CtxDone
<1> QED
  BY <1>3, <1>4 DEF IInv, Cmds

\* cancel() ends the context of a command that no signal can reach any more.
LEMMA CancelCommandKeeps == ASSUME IInv, CancelCommand PROVE IInv'
<1> USE Constants DEF CancelCommand, fileVars, procVars, goVars
<1>1. Typed' /\ UnderWay'
  BY DEF IInv, Typed, Flags, UnderWay
<1>2. ASSUME NEW d \in Cmds PROVE CmdOK(d)'
  <2>1. CmdOK(d) /\ Typed /\ cmd \in Cmds
    BY DEF IInv, UnderWay
  <2>2. CASE d = cmd
    BY <2>1, <2>2 DEF CmdOK, Fresh, Settled, CtxDone, Typed, Flags, Cmds
  <2>3. CASE d # cmd
    BY <2>1, <2>3 DEF CmdOK, Fresh, Settled, CtxDone, Typed, Flags, Cmds
  <2> QED
    BY <2>2, <2>3
<1> QED
  BY <1>1, <1>2 DEF IInv, Cmds

\* The switch of runCommands: on to the next command only if no signal was sent.
LEMMA ConcludeKeeps == ASSUME IInv, Conclude PROVE IInv'
<1> USE Constants DEF Conclude, fileVars, procVars, goVars, ctxVars
<1>1. CASE Verdict(cmd) = "next" /\ main' = "next" /\ cmd' = cmd + 1 /\ UNCHANGED result
  <2>1. cmd \in Cmds /\ ~deadline[cmd] /\ ~sessionErr /\ ~oomKilled[cmd] /\ leader[cmd] = "zero"
    BY <1>1 DEF Verdict, IInv, UnderWay
  <2>2. cmd \in Nat /\ cmd' \in 1 .. NCmds + 1
    BY <1>1, <2>1 DEF Cmds
  <2>3. Typed' /\ UnderWay'
    BY <1>1, <2>2 DEF IInv, Typed, UnderWay
  <2>4. ~signalled[cmd] /\ Settled(cmd)
    BY <2>1 DEF IInv, CmdOK
  <2>5. ASSUME NEW d \in Cmds PROVE CmdOK(d)'
    <3>1. CmdOK(d) /\ d \in Nat
      BY DEF IInv, Cmds
    <3>2. (d > cmd' \/ d = cmd' => d > cmd) /\ (d < cmd' => d < cmd \/ d = cmd)
      BY <1>1, <2>2, <3>1
    <3>3. d < cmd' => leader[d] = "zero" /\ ~signalled[d] /\ ~deadline[d] /\ Settled(d)
      BY <2>1, <2>4, <3>1, <3>2 DEF CmdOK
    <3>4. d > cmd' \/ d = cmd' => Fresh(d)
      BY <3>1, <3>2 DEF CmdOK
    <3> QED
      BY <1>1, <3>1, <3>3, <3>4 DEF CmdOK, Fresh, Settled, CtxDone
  <2> QED
    BY <2>3, <2>5 DEF IInv, Cmds
<1>2. CASE Verdict(cmd) # "next" /\ main' = "stream" /\ result' = Verdict(cmd) /\ UNCHANGED cmd
  <2>1. Verdict(cmd) \in {"timeout", "canceled", "oom", "exit 1"}
    BY <1>2 DEF Verdict
  <2>2. Typed' /\ UnderWay'
    BY <1>2, <2>1 DEF IInv, Typed, Flags, UnderWay
  <2>3. ASSUME NEW d \in Cmds PROVE CmdOK(d)'
    <3>1. CmdOK(d)
      BY DEF IInv
    <3>2. signalled[d] => Condemned'
      <4> SUFFICES ASSUME signalled[d] PROVE Condemned'
        OBVIOUS
      <4>1. d = cmd
        BY SignalledIsCurrent
      <4>2. deadline[cmd] \/ sessionErr \/ oomKilled[cmd]
        BY <3>1, <4>1 DEF CmdOK
      <4> QED
        BY <1>2, <4>2 DEF Verdict, Condemned
    <3> QED
      BY <1>2, <3>1, <3>2 DEF CmdOK, Fresh, Settled, CtxDone
  <2> QED
    BY <2>2, <2>3 DEF IInv, Cmds
<1> QED
  BY <1>1, <1>2 DEF Return

\* runFile marks the sandbox and records the class, or nothing.
LEMMA RecordStepKeeps == ASSUME IInv, RecordStep PROVE IInv'
<1> USE Constants DEF RecordStep, procVars, goVars, ctxVars
<1>1. class' \in Verdicts \cup {"interrupted"} /\ (result \in {"timeout", "oom"} \/ sessionErr =>
                                                class' \in {"timeout", "oom", "interrupted"})
  <2>1. CASE sessionErr /\ class' = "interrupted"
    BY <2>1
  <2>2. CASE ~sessionErr /\ result = "start error" /\ class' = "error"
    BY <2>2 DEF Verdicts
  <2>3. ASSUME ~sessionErr, NEW code \in ExitCodes, NEW rule \in RuleClasses \cup {"none"},
               class' \in Classify(code, rule, result = "timeout", result = "oom")
        PROVE  class' \in Verdicts /\ (result \in {"timeout", "oom"} => class' \in {"timeout", "oom"})
    <3>1. class' \in Verdicts
      BY <2>3, ClassTyped
    <3> QED
      BY <2>3, <3>1 DEF Classify
  <2> QED
    BY <2>1, <2>2, <2>3
<1>2. main = "done" /\ main' = "over" /\ dirty' = (result \in {"timeout", "oom"} \/ sessionErr)
  OBVIOUS
<1>3. dirty' \in BOOLEAN
  BY <1>2
<1>4. Typed' /\ UnderWay'
  BY <1>1, <1>2, <1>3 DEF IInv, Typed, Flags, UnderWay
<1>5. ASSUME NEW d \in Cmds PROVE CmdOK(d)'
  <2>1. CmdOK(d)
    BY DEF IInv
  <2>2. signalled[d] => Condemned
    BY <1>2, <2>1 DEF CmdOK
  <2>3. signalled[d] => Condemned' /\ dirty' /\ class' \in {"timeout", "oom", "interrupted"}
    BY <1>1, <1>2, <2>2 DEF Condemned
  <2> QED
    BY <1>2, <2>1, <2>3 DEF CmdOK, Fresh, Settled, CtxDone
<1> QED
  BY <1>4, <1>5 DEF IInv, Cmds

\* The kill goroutine reaches its select.
LEMMA EnterSelectKeeps == ASSUME IInv, NEW c \in Cmds, EnterSelect(c) PROVE IInv'
<1> USE DEF EnterSelect, fileVars, procVars, ctxVars
<1>1. PICK k \in {"term", "gone", "select"} : killer' = [killer EXCEPT ![c] = k] /\ (k = "term" => CtxDone(c))
  BY DEF CtxDone
<1>2. killer' \in [Cmds -> {"off", "spawned", "select", "term", "grace", "kill", "gone"}]
  BY <1>1 DEF IInv, Typed, Flags
<1>3. Typed' /\ UnderWay'
  BY <1>2 DEF IInv, Typed, UnderWay
<1>4. ASSUME NEW d \in Cmds PROVE CmdOK(d)'
  <2>1. CmdOK(d)
    BY DEF IInv
  <2>2. killer'[d] = killer[d] \/ (d = c /\ killer[d] = "spawned" /\ killer'[d] = k)
    BY <1>1 DEF IInv, Typed, Flags
  <2>3. killer'[d] = "term" /\ d = c => CtxDone(d)
    BY <1>1, <2>1, <2>2 DEF CmdOK
  <2> QED
    BY <1>1, <2>1, <2>2, <2>3 DEF CmdOK, Fresh, Settled, Condemned, CtxDone
<1> QED
  BY <1>3, <1>4 DEF IInv, Cmds

\* SIGTERM to the group, on the authority of an ended context.
LEMMA TermGroupKeeps == ASSUME IInv, NEW c \in Cmds, TermGroup(c) PROVE IInv'
<1> USE Constants DEF TermGroup, Signal, fileVars, ctxVars
<1>1. /\ leader' \in {leader, [leader EXCEPT ![c] = IF @ = "running" THEN "signal" ELSE @]}
      /\ desc' \in {desc, [desc EXCEPT ![c] = IF @ = "escaped" THEN @ ELSE "none"]}
  OBVIOUS
<1>2. /\ \A d \in Cmds : leader'[d] = leader[d] \/ (d = c /\ leader[c] = "running" /\ leader'[c] = "signal")
      /\ \A d \in Cmds : desc'[d] = desc[d] \/ (d = c /\ desc'[c] = "none")
  BY <1>1 DEF IInv, Typed
<1>3. leader' \in [Cmds -> {"none", "running", "zero", "nonzero", "signal"}]
      /\ desc' \in [Cmds -> {"none", "piped", "quiet", "escaped"}]
  BY <1>1 DEF IInv, Typed
<1>4. \A d \in Cmds : signalled'[d] <=> signalled[d] \/ (d = c /\ ~Settled(c))
  BY DEF IInv, Typed, Flags, Settled
<1>5. signalled' \in Flags
  BY DEF IInv, Typed, Flags
<1>6. Typed' /\ UnderWay'
  BY <1>3, <1>5 DEF IInv, Typed, UnderWay
<1>7. ASSUME NEW d \in Cmds PROVE CmdOK(d)'
  <2>1. CmdOK(d) /\ Typed
    BY DEF IInv
  <2>2. d = c /\ ~Settled(c) => d = cmd /\ main = "wait" /\ (deadline[c] \/ sessionErr \/ oomKilled[c])
    BY <2>1, ReachedIsCurrent DEF CmdOK, CtxDone
  <2> QED
    BY <1>2, <1>4, <2>1, <2>2 DEF CmdOK, Fresh, Settled, Condemned, CtxDone, Typed, Cmds
<1> QED
  BY <1>6, <1>7 DEF IInv, Cmds

\* The grace period is over.
LEMMA GraceOverKeeps == ASSUME IInv, NEW c \in Cmds, GraceOver(c) PROVE IInv'
<1> USE DEF GraceOver, fileVars, procVars, ctxVars
<1>2. killer' \in [Cmds -> {"off", "spawned", "select", "term", "grace", "kill", "gone"}]
  BY DEF IInv, Typed, Flags
<1>3. Typed' /\ UnderWay'
  BY <1>2 DEF IInv, Typed, UnderWay
<1>4. ASSUME NEW d \in Cmds PROVE CmdOK(d)'
  <2>1. CmdOK(d)
    BY DEF IInv
  <2>2. killer'[d] = killer[d] \/ (killer[d] = "grace" /\ killer'[d] = "kill")
    BY DEF IInv, Typed, Flags
  <2> QED
    BY <2>1, <2>2 DEF CmdOK, Fresh, Settled, Condemned, CtxDone
<1> QED
  BY <1>3, <1>4 DEF IInv, Cmds

\* SIGKILL to the group.
LEMMA KillGroupKeeps == ASSUME IInv, NEW c \in Cmds, KillGroup(c) PROVE IInv'
<1> USE Constants DEF KillGroup, SigKill, Signal, fileVars, ctxVars
<1>1. /\ leader' \in {leader, [leader EXCEPT ![c] = IF @ = "running" THEN "signal" ELSE @]}
      /\ desc' \in {desc, [desc EXCEPT ![c] = IF @ = "escaped" THEN @ ELSE "none"]}
  OBVIOUS
<1>2. /\ \A d \in Cmds : leader'[d] = leader[d] \/ (d = c /\ leader[c] = "running" /\ leader'[c] = "signal")
      /\ \A d \in Cmds : desc'[d] = desc[d] \/ (d = c /\ desc'[c] = "none")
  BY <1>1 DEF IInv, Typed
<1>3. leader' \in [Cmds -> {"none", "running", "zero", "nonzero", "signal"}]
      /\ desc' \in [Cmds -> {"none", "piped", "quiet", "escaped"}]
  BY <1>1 DEF IInv, Typed
<1>4. \A d \in Cmds : signalled'[d] <=> signalled[d] \/ (d = c /\ ~Settled(c))
  BY DEF IInv, Typed, Flags, Settled
<1>5. signalled' \in Flags
  BY DEF IInv, Typed, Flags
<1>6. Typed' /\ UnderWay'
  BY <1>3, <1>5 DEF IInv, Typed, UnderWay
<1>7. ASSUME NEW d \in Cmds PROVE CmdOK(d)'
  <2>1. CmdOK(d) /\ Typed
    BY DEF IInv
  <2>2. d = c /\ ~Settled(c) => d = cmd /\ main = "wait" /\ (deadline[c] \/ sessionErr \/ oomKilled[c])
    BY <2>1, ReachedIsCurrent DEF CmdOK, CtxDone
  <2> QED
    BY <1>2, <1>4, <2>1, <2>2 DEF CmdOK, Fresh, Settled, Condemned, CtxDone, Typed, Cmds
<1> QED
  BY <1>6, <1>7 DEF IInv, Cmds

\* The watcher finds the tree above its budget.
LEMMA WatcherReadsKeeps == ASSUME IInv, NEW c \in Cmds, WatcherReads(c) PROVE IInv'
<1> USE DEF WatcherReads, MayExceed, fileVars, procVars, ctxVars
<1>2. watcher' \in [Cmds -> {"off", "watch", "over", "flagged", "gone"}]
  BY DEF IInv, Typed, Flags
<1>3. Typed' /\ UnderWay'
  BY <1>2 DEF IInv, Typed, UnderWay
<1>4. ASSUME NEW d \in Cmds PROVE CmdOK(d)'
  <2>1. CmdOK(d)
    BY DEF IInv
  <2>2. watcher'[d] = watcher[d] \/ (watcher[d] = "watch" /\ watcher'[d] = "over")
    BY DEF IInv, Typed, Flags
  <2> QED
    BY <2>1, <2>2 DEF CmdOK, Fresh, Settled, Condemned, CtxDone
<1> QED
  BY <1>3, <1>4 DEF IInv, Cmds

\* It sets oomKilled.
LEMMA WatcherFlagsKeeps == ASSUME IInv, NEW c \in Cmds, WatcherFlags(c) PROVE IInv'
<1> USE DEF WatcherFlags, fileVars, procVars, ctxVars
<1>2. watcher' \in [Cmds -> {"off", "watch", "over", "flagged", "gone"}] /\ oomKilled' \in Flags
  BY DEF IInv, Typed, Flags
<1>3. Typed' /\ UnderWay'
  BY <1>2 DEF IInv, Typed, UnderWay
<1>4. ASSUME NEW d \in Cmds PROVE CmdOK(d)'
  <2>1. CmdOK(d)
    BY DEF IInv
  <2>2. (watcher'[d] = watcher[d] /\ oomKilled'[d] = oomKilled[d])
            \/ (watcher[d] = "over" /\ oomKilled'[d] = TRUE)
    BY DEF IInv, Typed, Flags
  <2> QED
    BY <2>1, <2>2 DEF CmdOK, Fresh, Settled, Condemned, CtxDone
<1> QED
  BY <1>3, <1>4 DEF IInv, Cmds

\* It kills, after it has set oomKilled.
LEMMA WatcherKillsKeeps == ASSUME IInv, NEW c \in Cmds, WatcherKills(c) PROVE IInv'
<1> USE Constants DEF WatcherKills, SigKill, Signal, fileVars, ctxVars
<1>1. /\ leader' \in {leader, [leader EXCEPT ![c] = IF @ = "running" THEN "signal" ELSE @]}
      /\ desc' \in {desc, [desc EXCEPT ![c] = IF @ = "escaped" THEN @ ELSE "none"]}
  OBVIOUS
<1>2. /\ \A d \in Cmds : leader'[d] = leader[d] \/ (d = c /\ leader[c] = "running" /\ leader'[c] = "signal")
      /\ \A d \in Cmds : desc'[d] = desc[d] \/ (d = c /\ desc'[c] = "none")
  BY <1>1 DEF IInv, Typed
<1>3. leader' \in [Cmds -> {"none", "running", "zero", "nonzero", "signal"}]
      /\ desc' \in [Cmds -> {"none", "piped", "quiet", "escaped"}]
  BY <1>1 DEF IInv, Typed
<1>4. \A d \in Cmds : signalled'[d] <=> signalled[d] \/ (d = c /\ ~Settled(c))
  BY DEF IInv, Typed, Flags, Settled
<1>5. signalled' \in Flags
  BY DEF IInv, Typed, Flags
<1>6. Typed' /\ UnderWay'
  BY <1>3, <1>5 DEF IInv, Typed, UnderWay
<1>7. ASSUME NEW d \in Cmds PROVE CmdOK(d)'
  <2>1. CmdOK(d) /\ Typed
    BY DEF IInv
  <2>2. d = c /\ ~Settled(c) => d = cmd /\ main = "wait" /\ (deadline[c] \/ sessionErr \/ oomKilled[c])
    BY <2>1, ReachedIsCurrent DEF CmdOK, CtxDone
  <2> QED
    BY <1>2, <1>4, <2>1, <2>2 DEF CmdOK, Fresh, Settled, Condemned, CtxDone, Typed, Cmds
<1> QED
  BY <1>6, <1>7 DEF IInv, Cmds

\* It is told to stop.
LEMMA WatcherStopsKeeps == ASSUME IInv, NEW c \in Cmds, WatcherStops(c) PROVE IInv'
<1> USE DEF WatcherStops, fileVars, procVars, ctxVars
<1>2. watcher' \in [Cmds -> {"off", "watch", "over", "flagged", "gone"}]
  BY DEF IInv, Typed, Flags
<1>3. Typed' /\ UnderWay'
  BY <1>2 DEF IInv, Typed, UnderWay
<1>4. ASSUME NEW d \in Cmds PROVE CmdOK(d)'
  <2>1. CmdOK(d)
    BY DEF IInv
  <2>2. watcher'[d] = watcher[d] \/ (watcher[d] = "watch" /\ watcher'[d] = "gone")
    BY DEF IInv, Typed, Flags
  <2> QED
    BY <2>1, <2>2 DEF CmdOK, Fresh, Settled, Condemned, CtxDone
<1> QED
  BY <1>3, <1>4 DEF IInv, Cmds

\* A deadline strikes the command under way.
LEMMA DeadlineKeeps == ASSUME IInv, NEW c \in Cmds, Deadline(c) PROVE IInv'
<1> USE DEF Deadline, Current, Wake, fileVars, procVars
<1>2. deadline' \in Flags /\ overran' \in Flags
      /\ killer' \in [Cmds -> {"off", "spawned", "select", "term", "grace", "kill", "gone"}]
  BY DEF IInv, Typed, Flags
<1>3. Typed' /\ UnderWay'
  BY <1>2 DEF IInv, Typed, UnderWay
<1>4. ASSUME NEW d \in Cmds PROVE CmdOK(d)'
  <2>1. CmdOK(d)
    BY DEF IInv
  <2>2. IF d = c THEN deadline'[d] = TRUE /\ d = cmd /\ main \notin {"next", "stream", "done", "over"}
                    ELSE deadline'[d] = deadline[d] /\ killer'[d] = killer[d]
    BY DEF IInv, Typed, Flags, Current
  <2> QED
    BY <2>1, <2>2 DEF CmdOK, Fresh, Settled, Condemned, CtxDone
<1> QED
  BY <1>3, <1>4 DEF IInv, Cmds

\* The leader ends by itself.
LEMMA LeaderExitsKeeps == ASSUME IInv, NEW c \in Cmds, LeaderExits(c) PROVE IInv'
<1> USE DEF LeaderExits, fileVars, goVars, ctxVars
<1>1. PICK e \in {"zero", "nonzero"} : leader' = [leader EXCEPT ![c] = e]
  OBVIOUS
<1>2. leader' \in [Cmds -> {"none", "running", "zero", "nonzero", "signal"}]
  BY <1>1 DEF IInv, Typed, Flags
<1>3. Typed' /\ UnderWay'
  BY <1>2 DEF IInv, Typed, UnderWay
<1>4. ASSUME NEW d \in Cmds PROVE CmdOK(d)'
  <2>1. CmdOK(d)
    BY DEF IInv
  <2>2. /\ leader'[d] = leader[d] \/ (leader[d] = "running" /\ leader'[d] # "running" /\ d = c)
        /\ leader[d] = "zero" => leader'[d] = "zero"
    BY <1>1 DEF IInv, Typed, Flags
  <2> QED
    BY <1>1, <2>1, <2>2 DEF CmdOK, Fresh, Settled, Condemned, CtxDone
<1> QED
  BY <1>3, <1>4 DEF IInv, Cmds

\* The leader forks.
LEMMA ForksKeeps == ASSUME IInv, NEW c \in Cmds, Forks(c) PROVE IInv'
<1> USE DEF Forks, fileVars, goVars, ctxVars
<1>1. PICK e \in {"piped", "quiet", "escaped"} : desc' = [desc EXCEPT ![c] = e]
  OBVIOUS
<1>2. desc' \in [Cmds -> {"none", "piped", "quiet", "escaped"}]
  BY <1>1 DEF IInv, Typed, Flags
<1>3. Typed' /\ UnderWay'
  BY <1>2 DEF IInv, Typed, UnderWay
<1>4. ASSUME NEW d \in Cmds PROVE CmdOK(d)'
  <2>1. CmdOK(d)
    BY DEF IInv
  <2>2. desc'[d] = desc[d] \/ leader[d] = "running"
    BY <1>1 DEF IInv, Typed, Flags
  <2> QED
    BY <1>1, <2>1, <2>2 DEF CmdOK, Fresh, Settled, Condemned, CtxDone
<1> QED
  BY <1>3, <1>4 DEF IInv, Cmds

\* A descendant ends by itself.
LEMMA DescendantExitsKeeps == ASSUME IInv, NEW c \in Cmds, DescendantExits(c) PROVE IInv'
<1> USE DEF DescendantExits, fileVars, goVars, ctxVars
<1>2. desc' \in [Cmds -> {"none", "piped", "quiet", "escaped"}]
  BY DEF IInv, Typed, Flags
<1>3. Typed' /\ UnderWay'
  BY <1>2 DEF IInv, Typed, UnderWay
<1>4. ASSUME NEW d \in Cmds PROVE CmdOK(d)'
  <2>1. CmdOK(d)
    BY DEF IInv
  <2>2. desc'[d] \in {desc[d], "none"}
    BY DEF IInv, Typed, Flags
  <2> QED
    BY <2>1, <2>2 DEF CmdOK, Fresh, Settled, Condemned, CtxDone
<1> QED
  BY <1>3, <1>4 DEF IInv, Cmds

\* Ctrl-C.
LEMMA SessionCancelKeeps == ASSUME IInv, SessionCancel PROVE IInv'
<1> USE DEF SessionCancel, Wake, fileVars, procVars
<1>2. killer' \in [Cmds -> {"off", "spawned", "select", "term", "grace", "kill", "gone"}]
  BY DEF IInv, Typed, Flags
<1>3. Typed' /\ UnderWay'
  BY <1>2 DEF IInv, Typed, UnderWay
<1>4. ASSUME NEW d \in Cmds PROVE CmdOK(d)'
  <2>1. CmdOK(d)
    BY DEF IInv
  <2>2. /\ killer'[d] = killer[d] \/ (killer[d] = "select" /\ killer'[d] = "term")
        /\ sessionErr' = TRUE
    BY DEF IInv, Typed, Flags
  <2> QED
    BY <2>1, <2>2 DEF CmdOK, Fresh, Settled, Condemned, CtxDone
<1> QED
  BY <1>3, <1>4 DEF IInv, Cmds

-----------------------------------------------------------------------------
(* Theorems *)

\* No command has been started, and there is nothing to settle.
LEMMA InitStep == Init => IInv
<1> SUFFICES ASSUME Init PROVE IInv
  OBVIOUS
<1>1. Typed /\ UnderWay
  <2>1. cmd \in 1 .. NCmds + 1
    BY Constants DEF Init
  <2>2. deadline \in Flags /\ released \in Flags /\ finished \in Flags
        /\ oomKilled \in Flags /\ overran \in Flags /\ signalled \in Flags
    BY DEF Init, Flags
  <2> QED
    BY <2>1, <2>2 DEF Init, Typed, UnderWay
<1>2. ASSUME NEW c \in Cmds PROVE CmdOK(c)
  <2>1. ~(c < cmd) /\ cmd = 1
    BY Constants DEF Init, Cmds
  <2> QED
    BY <2>1 DEF Init, CmdOK, Fresh, Settled, CtxDone
<1> QED
  BY <1>1, <1>2 DEF IInv

\* Every step keeps the inductive invariant.
LEMMA InvStep == IInv /\ [Next]_vars => IInv'
<1> SUFFICES ASSUME IInv, [Next]_vars PROVE IInv'
  OBVIOUS
<1>1. CASE NextCommand
  BY <1>1, NextCommandKeeps
<1>2. CASE WaitReturns
  BY <1>2, WaitReturnsKeeps
<1>3. CASE CloseChannels
  BY <1>3, CloseChannelsKeeps
<1>4. CASE FlushStream
  BY <1>4, FlushStreamKeeps
<1>5. CASE CancelCommand
  BY <1>5, CancelCommandKeeps
<1>6. CASE Conclude
  BY <1>6, ConcludeKeeps
<1>7. CASE RecordStep
  BY <1>7, RecordStepKeeps
<1>8. ASSUME NEW c \in Cmds, EnterSelect(c) PROVE IInv'
  BY <1>8, EnterSelectKeeps
<1>9. ASSUME NEW c \in Cmds, TermGroup(c) PROVE IInv'
  BY <1>9, TermGroupKeeps
<1>10. ASSUME NEW c \in Cmds, GraceOver(c) PROVE IInv'
  BY <1>10, GraceOverKeeps
<1>11. ASSUME NEW c \in Cmds, KillGroup(c) PROVE IInv'
  BY <1>11, KillGroupKeeps
<1>12. ASSUME NEW c \in Cmds, WatcherReads(c) PROVE IInv'
  BY <1>12, WatcherReadsKeeps
<1>13. ASSUME NEW c \in Cmds, WatcherFlags(c) PROVE IInv'
  BY <1>13, WatcherFlagsKeeps
<1>14. ASSUME NEW c \in Cmds, WatcherKills(c) PROVE IInv'
  BY <1>14, WatcherKillsKeeps
<1>15. ASSUME NEW c \in Cmds, WatcherStops(c) PROVE IInv'
  BY <1>15, WatcherStopsKeeps
<1>16. ASSUME NEW c \in Cmds, Deadline(c) PROVE IInv'
  BY <1>16, DeadlineKeeps
<1>17. ASSUME NEW c \in Cmds, LeaderExits(c) PROVE IInv'
  BY <1>17, LeaderExitsKeeps
<1>18. ASSUME NEW c \in Cmds, Forks(c) PROVE IInv'
  BY <1>18, ForksKeeps
<1>19. ASSUME NEW c \in Cmds, DescendantExits(c) PROVE IInv'
  BY <1>19, DescendantExitsKeeps
<1>20. CASE SessionCancel
  BY <1>20, SessionCancelKeeps
<1>21. CASE CloseStream
  BY <1>21, CloseStreamKeeps
<1>22. CASE UNCHANGED vars
  <2> USE <1>22 DEF vars, fileVars, procVars, goVars, ctxVars
  <2>1. Typed' /\ UnderWay'
    BY DEF IInv, Typed, UnderWay
  <2>2. ASSUME NEW c \in Cmds PROVE CmdOK(c)'
    <3>1. CmdOK(c)
      BY DEF IInv
    <3> QED
      BY <3>1 DEF CmdOK, Fresh, Settled, Condemned, CtxDone
  <2> QED
    BY <2>1, <2>2 DEF IInv, Cmds
<1> QED
  BY <1>1, <1>2, <1>3, <1>4, <1>5, <1>6, <1>7, <1>8, <1>9, <1>10, <1>11, <1>12, <1>13, <1>14,
     <1>15, <1>16, <1>17, <1>18, <1>19, <1>20, <1>21, <1>22
  DEF Next, Main, Output, Over, Killer, Watcher, WatcherRuns, Processes

\* The inductive invariant holds of every reachable state.
LEMMA Invariance == Spec => []IInv
  BY InitStep, InvStep, PTL DEF Spec

\* Every variable of a step keeps its type: in particular a step is recorded with
\* a class of the configuration, or not at all.
THEOREM StepTyped == Spec => []TypeOK
<1>1. IInv => TypeOK
  BY TypeParts DEF IInv
<1> QED
  BY Invariance, <1>1, PTL

\* A step whose processes were signalled (scheduler.go: runCommands, watchRSS) is
\* never recorded as a verdict of the tests, and its sandbox is marked dirty.
THEOREM SignalledNeverJudged == Spec => []SignalledIsKnown
<1>1. IInv => SignalledIsKnown
  BY DEF IInv, CmdOK, SignalledIsKnown
<1> QED
  BY Invariance, <1>1, PTL

\* runCommands starts a command only after every earlier one has ended with 0,
\* within its deadline and without a signal.
THEOREM ChainOnlyGoesOn == Spec => []ChainStops
<1>1. IInv => ChainStops
  <2> SUFFICES ASSUME IInv, NEW c \in Cmds, NEW d \in Cmds, c < d, leader[d] # "none"
               PROVE  leader[c] = "zero" /\ ~signalled[c] /\ ~deadline[c]
    BY DEF ChainStops
  <2>1. ~(d > cmd)
    BY DEF IInv, CmdOK, Fresh
  <2>2. c < cmd
    <3>1. c \in Nat /\ d \in Nat /\ cmd \in Nat /\ (d < cmd \/ d = cmd)
      BY <2>1, Order DEF IInv
    <3> QED
      BY <3>1
  <2> QED
    BY <2>2 DEF IInv, CmdOK
<1> QED
  BY Invariance, <1>1, PTL
==============================================================================
