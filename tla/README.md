# A TLA+ model of golens-mutant

golens-mutant runs mutation-testing commands file by file: it discovers the packages of a source
tree of any language, gives each package a sandbox directory, and lets a pool of workers run the
configured command chain on one file after another, recording every file's result so that an
interrupted session can be resumed. This directory holds TLA+ models of its concurrent and
fault-handling parts and of the selection that feeds them, the TLC configurations that check them,
and proofs of the safety properties for every value of the constants.

`PROJECT.json` lists components, runs, hazards, findings and theorems, and maps every definition
to the lines it stands for. Line numbers below are in `src/internal/scheduler/scheduler.go`
unless a file is named.

## The system

| part | state it keeps | operations | correct when |
|---|---|---|---|
| scheduler (`scheduler.go`) | per package `pending`, `aborted`, `active`, `done/total`; `capacity`, `active` workers, `resolved` | `New`, `SkipDone`, `Run`, `worker`, `nextWork`, `requeue`, `fileFinished`, `record`, `runFile` | no file is lost or counted twice, one step per sandbox, the package limit holds, `Run` returns with everything recorded |
| step execution (`runCommands`, kill goroutine, `watchRSS`, `procs_unix.go`) | contexts, the channels `finished` and `stopRSS`, `oomKilled`, the process group | start, wait, SIGTERM, SIGKILL, classification | a killed command is never a test verdict; an overrun step ends and leaves nothing running |
| workspace (`workspace.go`) | on disk: the directory, `.mutant-prepared`; in memory `mu`, `prepared`, `dirty`, `bootMu` | `TryAcquire`, `prepare`, `syncTree`, `bootstrap`, `RestorePristine`, `MarkDirty`, `Release` | every step starts on the source's files, in a directory that was bootstrapped |
| monitor (`monitor.go`) and the capacity it governs (226-262) | last sample, gate, two timers, error streak; `capacity`, `lastStep` | `poll`, `Allowed`, `ClosedFor`, `OpenFor`; a scaling step | the timers measure the gate; slots go only under sustained pressure, one at a time, and come back |
| report store (`jsonstore.go`, `sqlitestore.go`) | in memory `results`; on disk a report per package and `resume-state.json`, or a table | `Record`, `Resume`, `Summarize` | nothing acknowledged is lost that can be read back; the summary covers earlier sessions |
| live output (`cmd/mutant/stream.go`) | partial line, bounded queue, drop count, a drainer goroutine | `Write`, `Flush`, `Close` | a stalled console never stalls a command; no line vanishes uncounted |
| discovery (`discover.go`, `glob.go`) | `seenFiles`, the packages and their files | `Discover`, `MatchGlob`, `TestsFor`, `MarkExempt`, `Select` | a file belongs to its innermost package, once, whatever the roots; the matcher finds every match |
| dry run (`dryrun.go`) | none | `renderPlan` | it shows what the session would do |
| wiring (`main.go`) | the signal context | selection, resume, `SkipDone`, `Run`, `Summarize` | the queue is what was selected and not recorded |
| configuration, version | none that changes | pure or output only | |

Interactions: `main.go` discovers the packages, narrows them by exemptions and selectors, reads the
resume state, gives it to `SkipDone` and calls `Run` (or renders the plan and ends). `Run`
spawns worker goroutines and looks at the monitor every 250 ms. A worker reads a queue under
`s.mu`, checks the package's sandbox out *without* it, looks at the queue again, waits for the
monitor's gate, runs the step, records to the store, and updates the queue's state. A step
starts one killer goroutine and perhaps a memory watcher per command, and its output passes
through the stream sink. The monitor polls in a goroutine of its own.

What is hard to test here is exactly what lies between these critical sections: the queue head
that is stale once the sandbox has been acquired, the package slot reserved in advance, Ctrl-C
between the end of a step and its record, the deadline racing a command's own end, a crash
between the two writes of `Record` or between bootstrap and marker, a full output queue. Each
hazard is listed in `PROJECT.json` with the properties that watch it.

## The modules

| module | models | abstracted |
|---|---|---|
| `Session` | what a session promises about files and the report: an earlier result stays, one of this session gives way only to a later run of its file, an uninterrupted session ends only when every file is recorded or its package dropped | everything else |
| `Scheduler` | one session: `Run`'s controller, the workers, `nextWork`, `runFile`, the sandbox locks and flags | files and packages are model values; a step is one action with a set of outcomes; the monitor is a Boolean gate with any duration up to the threshold |
| `Step` | the inside of `runCommands` per command (main, killer, watcher, a leader and one descendant process), then what `runFile` makes of it: dirty mark, interruption check, class | of the output only whether a rule matches it, and with which class |
| `Sandbox` | the disk and memory of the sandbox cache over failing operations (the look at the marker too), crashes, restarts, and edits, deletions and creations in the source | a file's content is compared with the source only (`Contents`) |
| `Monitor`, `Capacity` | `poll` and the timers; the controller's scaling steps beside them | a sample is good, bad or an error; a time is an age, cut off at `MaxAge` |
| `ResultStore` | the JSON and the SQLite store over several sessions, whole or narrowed, with resume on or off, unreadable reports, files recorded twice | a session is the set of files it may record |
| `StreamSink` | `Write`, `Flush`, `Close`, drainer, console | a byte is `\r`, `\n` or `x` |
| `Glob` | `MatchGlob` and its parts, as recursive functions | characters of a small alphabet |
| `Selection` | from the target roots to the scheduler's queue or the dry run's plan | the tree is fixed; a path is a sequence of names |
| `*Proofs` | the theorems; `PackageGateProofs` builds on `SchedulerProofs` | |
| `MC*` | model values, small packages and symmetry for TLC | |

**Scheduler.** One action is one critical section of the code, or one call made between two of
them. `pc[w]` names the place a worker is at: `top` (361-370), `scan` (429-451, action `Look`),
`try` and `prep` (`TryAcquire`, `prepare`), `claim` (484-495), `putback` (489), `failed`,
`failrec`, `failfin` (454-478), `gated` (388-404), `start`, `exec`, `post`, `rec`, `fin`,
`abort` (`runFile`), `release` (407), `unclaim` (393-402), `nowork` (373-386), `exit`.
`Scheduler.active`, the count of running workers, is the number of workers that are not `off`.
`done` and `total` are told by `recs`, the number of `record` calls per file. Comments in the
module give the source operation of each action.

**Composition.** `Scheduler` keeps its own copy of the sandbox flags because the scheduler's
properties need only these (`holder`, `prepared`, `dirty`). `Sandbox` refines them down to file
operations, and takes from `Scheduler` that a sandbox has one user at a time
(`SandboxExclusive`, proved). Likewise `Step` has the inside of the `RunCommands` action, and
its results are the outcomes `Scheduler` chooses from. `Capacity` extends `Monitor` with the part
of the controller's tick that `Scheduler` only approximates: there the durations are any, here
they are what the monitor's polls make of them, and a poll may fall between the tick's two
readings. `Selection` uses `Glob`, and ends where `Scheduler` begins: its queue, one entry per
package with the files to run and those to report as skipped, is `Queue`, `Unmapped` and
`resolved` there. `ResultStore` takes a session for any order of `Record` calls. `Scheduler`
implements `Session` under the mapping `Fate`, `StoredOf`, `aborted`, `cancelled`, `Phase`: a
second record of a file (`SchedulerTwice`) replaces its stored result there too.

Definitions marked `\* mutant` are not part of the model. Each is a plausible bug of the
definition after it, used to see that a property can fail.

## What the runs show

Passing runs:

| run | bounds | shows |
|---|---|---|
| `SchedulerCore` | 2 workers, packages of 2 and 1 files and an unmapped one, limit 1, fresh or resumed, Ctrl-C, aborting timeouts, workers after the cache, `scale_down_after` | sandboxes are exclusive; the package gate leaks no slot and holds for files run for the first time; what the store is told is true; nothing is claimed after an aborting timeout; `Session` is implemented |
| `SchedulerFaults` | 2 workers, 1 package of 2, every preparation, restore, record, start and memory failure | no file is lost; `Run` returns complete; steps start in clean sandboxes |
| `SchedulerLive` | 2 workers, 2 packages of 1, Ctrl-C, gate and capacity moving, fairness | `Run` ends once the gate stays open; a cancelled `Run` ends whatever the gate does |
| `StepChain` | 2 commands, timeout, budget, Ctrl-C, escaping processes, output rules and overlapping exit-code ranges, no process need end, fairness | a step with a signalled command is recorded as a timeout or memory kill or not at all, and dirties its sandbox; the chain stops at the first failure; after a deadline nothing of the group is left; a step ends, but for an escaped process that holds the pipe or a console that takes no more output |
| `SandboxCache` | 2 packages of 2 files, every operation may fail, kills, engine deaths, crashes, a source that changes between sessions | steps start on the source's files, and bootstrapped unless the look at the marker failed; the marker means a completed bootstrap and no debris |
| `Capacity` | 4 slots, threshold 2, ages up to 8, fail-open after 3 errors (5 in the program), fairness | the timers; no slot is lost but under pressure that lasted, one per interval; all of them come back |
| `ResultStore` | 2 packages of 2 files, 2 classes, both storages, whole and narrowed sessions, resume off, crashes, failing writes, unreadable reports, second records | nothing acknowledged disappears or goes uncounted in a package no session has ignored; while no write has failed, a crash there costs one file at most and the resume state only grows |
| `StreamSink` | 2 commands of up to 4 bytes in any chunks, a queue of 1, a console that may stall for good | command outputs do not mix, chunking is invisible, every line is accounted for, `Write` never waits for the console, `Close` ends if the console takes its lines |
| `Selection` | a tree of 4 directories and 5 files, 5 lists of roots, every placement of markers, 4 settings, 6 command lines, 3 resume states; a zoo of patterns against every name of 1 or 2 segments over 6, and 3 longer ones | the matcher finds a match exactly when there is one; files belong to their innermost package once; the queue is what was selected and not recorded; a dry run shows it |

Runs that end in a counterexample, each a disagreement between the code and its own documents:

| run | what happens |
|---|---|
| `SchedulerTwice` | Two workers read the same head; the second, after the first has claimed, run and released, fails the re-check (485) and *requeues* the file, which then runs and counts again. The sibling branch (462-464) drops the stale head for exactly this reason. |
| `SchedulerGate` | The preparation of one file of a package fails. Before it is finished off, another worker claims the last queued file: `fileFinished` (476) for the first then finds the queue empty and frees the package's slot while the second is running, and a second package starts beside it. |
| `ResultLostReport` | A failed package report leaves the file in memory; the next `Record` lists it in the resume state; later sessions skip it and their summaries do not count it. |

On `SchedulerTwice`: with the mismatch branch changed to drop the stale head, `NoFileLost` still
holds on the instance of `SchedulerFaults`: a stale head is always in its queue, in another
worker's hands, or recorded. The put-back is not needed to keep files. With one worker no head
can go stale, and `AtMostOnce` holds.

The same put-back also breaks the package gate, with three workers and nothing failing (the
instance of `SchedulerGate` with `Workers = {w1, w2, w3}` and `Faults = {}`): while two workers
hold the stale head of a package, its last file finishes and the package leaves the gate; one of
the two puts the file back (489), the other claims it (492) in a package that is no longer
active, and a second package starts beside it. `FirstRunsGated` is what holds: proved for any
number of workers, without failing preparations, and until the session is cancelled.

### Further disagreements, visible in the models and not kept as runs

Where a property or a state is named, a configuration with it shows the behaviour; the others
were met while translating the code.

- `workers_after_cache` (config.go:158-159: no new worker until the sandboxes are bootstrapped).
  The worker to be spawned is not yet counted when 301 tests `active <= 1`, so the second one is
  spawned while
  no sandbox is prepared.
- `scale_down_after: "0"` (config.go:143-144: how long the gate must stay closed). Capacity is
  lowered with the gate open too (366, 246), and with a calculated ramp-up `Run` can be left with
  no worker and a controller that never spawns one. `Scheduler` has `ScaleDownAfter = 0` for it.
- A descendant that left the process group and keeps the output pipe open: `cmd.Wait` (660)
  never returns, and neither the deadline nor Ctrl-C ends the step. `StepEnds` excepts it.
- A console that stalls for good: `flushStream` (663) and the deferred `closeStream` (590) wait for
  the queue and the drainer (stream.go:160-162, 190-192) with no deadline and no context, so that
  a step never ends then, timed out or cancelled or not. stream.go:39-43 keeps a stalled console
  from stalling the child process; the worker it does stall. `StepEnds` excepts this too: nothing
  is assumed of `FlushStream` and `CloseStream` (`Output`).
- os.Stat of the marker failing with anything but "does not exist" (workspace.go:165-193): `prepare`
  takes it for a sandbox of a previous run, re-syncs, and hands it out without a bootstrap and
  without a clean slate, against workspace.go:157-160. It is `blind` in `Sandbox`, and
  `StepStartsSynced` excepts it (what was bootstrapped, not what is synced).
- A package report that cannot be read or parsed is passed over without a word
  (jsonstore.go:120-124), although the resume state lists its files: they are skipped, the summary
  does not count them, and the next `Record` takes them out of the resume state, against
  jsonstore.go:112-113. It is `Ignore` in `ResultStore`: `AckedKept`, `SummaryHasAcked`,
  `LosesAtMostOne` and `ResumeGrows` claim nothing for such a package from then on, the first two
  until it is recorded again.
- An engine that dies on its own (542: an exit code like any other) marks nothing dirty. Its
  mutants outside the next target file stay, against README.md:145-149. In `Sandbox` they are
  "stray", and `StepStartsSynced` excepts exactly them.
- Failing open with the gate already open restarts the timer of `OpenFor` (monitor.go:113,
  against the contract at 190). Hence `OpenForNeverMore`, and no exact counterpart of
  `ClosedForExact`.
- `a/b` and `a__b` share a report file (jsonstore.go:149), and a sandbox directory under two locks
  (workspace.go:328). With a `Slug` that maps two packages to one file, a resumed session loses
  acknowledged results: `AckedKept` fails. The theorems about `ResultStore` assume `SlugsDiffer`.
- The deadline is looked at (670) only after the command's output has been flushed to the console
  (663). A command that ended in time becomes a "timeout" when the console stalls long enough,
  against config.go:26 and stream.go:39-43. In `Step` a deadline without `overran` shows it.
- A sampler that keeps failing and recovering: each failing open restarts the timer of `OpenFor`
  (monitor.go:110-115), so that with the gate open all the time the capacity may never come back,
  against monitor.go:190-192. `<>[]ok => <>[](capacity = MaxCap)` fails in `Capacity` with
  `ScaleDownAfter` above `ErrFailOpen`; hence the two premises of `Recovers`.
- `resume.enabled: false` (config.go:505: "whether resume state is persisted") does not stop the
  JSON store from writing
  `resume-state.json`, without the entries of earlier sessions; the SQLite store keeps them. A
  killed session of this kind leaves a report and a resume state of different sessions.
- discover.go:62-63: "Packages with no runnable files are dropped". Only packages without any
  file are; one whose files all lack a test mapping stays, and its files are reported as skipped.
- glob.go:38-40 calls a segment's matching equivalent to `path.Match`. It also takes `!` for a
  negation, knows no escapes inside a class, and matches `?` against a byte, not a character.
- Two exit-code keys for one range (`"2"` and `"2-2"`) with different classes: the map's order
  decides (config.go:265). `ByExitCode` leaves the choice open.
- Keys and durations are read leniently: an exit-code key may be followed by anything, `"5min"` is
  five seconds, and a negative duration is accepted.
- `largest_first` sorts before `--file` narrows the packages, so that the order is one of sizes
  that are no longer there. A package at the working directory needs `--file ./name`.
- A file deleted from the source after the sandbox was prepared stays in it, mutants included
  (workspace.go:190): "leftover" in `Sandbox`, which no property forbids.
- An engine killed by a signal that is not the program's has exit code -1, which the default
  classes take for "killed".

## Bounds

- `RecCap = 2`: `record` calls counted per file; two are enough to see a repetition.
- `QueueSlack = 1`: a queue may be one entry longer than it was at first. The code has no such
  limit: two workers that keep requeueing each other's stale heads can grow it for ever. At the
  limit a worker waits while another can act, so no behaviour is cut off by a deadlock. The
  theorems do not depend on it being 1.
- `ScaleDownAfter` ticks: durations are cut off there, since only "at least the threshold" is
  tested; the time since the last scaling step is any value, an over-approximation.
- `MaxAge`: ages beyond it are equal. It must cover the loss of every slot (`CapacityAssumption`),
  which the theorems assume too; no behaviour ends there.
- `MaxBytes`, `QueueCap`, `NCmds`: bytes of a command, the size of the stream queue (1024 in the
  program; a queue of one is full soonest), commands of a step. Four bytes hold a `\r\n` cut in the
  middle after a line or before one, an overwriting `\r`, and more lines than the queue takes.
- `Alphabet`, `Probes`, the tree and `Settings` of `Selection`: three levels of directories are
  what an innermost package between two roots needs; the patterns combine every special character
  once, alone, next to a star, and below `**`, and one class has two ranges. `Ranges` of `Step`
  overlap and nest.
- Two packages and two workers are the smallest instance with a gate and a race: every
  stale-head counterexample but the one of three workers above needs two only. `FirstRunsGated`
  was checked with three workers on two packages of one file as well (6 million states, too long
  for a regular run), before it was proved. Symmetry is used in safety runs only.

## Fairness

`Scheduler!FairSpec` assumes weak fairness of the controller and of each worker: the Go runtime runs
every goroutine that can run, the ticker ticks, sleeps end, and a step ends. The last holds under
the conditions of `Step!StepEnds`: a timeout is set, no process escapes with the output pipe, and
the console takes the live output. Nothing is assumed of Ctrl-C and the gate. `Terminates` therefore
asks for a gate that stays open, and for stale heads put back only finitely often, since two workers
may requeue each other's heads for ever without that assumption. `Step!FairSpec` lets goroutines run
and time pass; no process is assumed to end by itself, or to exceed its memory budget, and nothing
is assumed of the console, which `FlushStream` and `CloseStream` wait for: `StepEnds` has the step
that waits there for ever as a case of its own. `Capacity!FairSpec` has both tickers tick (weak
fairness of `PollStep`, `ReadClosed`, `Step`) and time pass (strong fairness of `Tick`: an instant
in which the controller runs again and again comes to an end). `StreamSink!StalledSpec` lets `Write`
and its caller run and assumes nothing of the drainer, which may be stuck in the console's write.
`SinkCloses` is stated for the behaviours in which the drainer is not: it has the drainer's fairness
as its premise.

## What is proved

All theorems hold for any finite sets and any settings the named assumptions of the modules allow.
Most modules follow the same pattern: an inductive invariant `IInv` made of named parts, one lemma
per action or per part, and short theorems that read the properties off it.

**`SchedulerProofs`**: `TypeOK`, `SandboxExclusive`, `NoFileLost`, `ReturnComplete`,
`StepsStartClean`, `StoreTruthful` and `SlotNotLeaked` are invariants, no step violates
`NoClaimAfterTimeout`, and `Scheduler` implements `Session`. The inductive invariant, with two more
on top of it:

- `LocalOK`: where a worker has a file in hand, it is a runnable, unresolved file of the package
  it works for; an outcome "cancelled" exists only under a cancellation; a worker about to count
  a file finished has recorded it. `TypeOK` is not inductive without it.
- `QueueOK`: queues hold no file of an earlier session (for `PriorKept`).
- `HolderOK`: the lock of a sandbox names the worker inside. Exclusion follows because one lock
  has one value.
- `CleanOK`: from `claim` to `exec` the sandbox is clean. It is kept because only the holder
  runs a step, so only the holder can make it dirty.
- `PhaseOK`: workers live only while `Run` loops or waits.
- `NoFileLost` and `DrainOK`: every unrecorded file is queued or carried, and once the loop was
  left, carried. Both follow from one lemma about steps, `CustodyStep`: a carried file stays with
  its worker until it is recorded, and a file leaves its queue only into a worker's hands. The
  invariants are then two short consequences instead of two case analyses. `ReturnComplete` is
  `DrainOK` with no worker left.
- `TimeoutOK` (beside `IInv`): a recorded timeout has aborted its package, or its recorder is
  between the record and the abort, and still holds the sandbox. A worker that claims a file of
  the package holds that sandbox too, so it is the same worker, which it cannot be.
- `SlotNotLeaked` is inductive beside `IInv` as it stands.

The refinement proof has one lemma per action that changes the abstract state (`RecordRefines`,
`AbortRefines`, `ReturnRefines`, `StartRefines`, `CancelRefines`) and one for all others.

**`PackageGateProofs`**: `FirstRunsGated`, if no preparation fails. The danger is a package that
leaves the gate while a worker still looks at a head of it. `HeadKeepsSlot` is the heart: the file a
worker heads for and that was never run is queued, by `NoFileLost`, or carried; the worker that
finishes another file of the package holds the sandbox, so nobody else carries it; hence the queue
is not empty and the package stays in the gate.

**`StepProofs`**: `TypeOK`, `SignalledIsKnown` and `ChainStops`. `CmdOK` says for each command which
combinations of leader, killer, watcher, context and flags there are: in particular, that a signal
has been sent means that the deadline, the cancellation or the memory flag is already visible to
whoever reads them after `Wait`.

**`SandboxProofs`**: `TypeOK`, `StepStartsSynced` and `MarkerMeansBootstrapped`. `SyncOK` counts
down the files `syncTree` has still to visit (what it has visited is pristine), `FreshOK` says that
a first preparation works in an emptied directory, `FlagsOK` relates the flags in memory to the
disk, `MarkerOK` the marker to the bootstrap and a ready sandbox to the marker or to a failed look
at it, `DownOK` what a crash leaves.

**`CapacityProofs`**: `TypeOK`, `ClosedForExact`, `OpenForNeverMore`, and `LoweredUnderPressure` as
a property of steps. `TimersOK` bounds what the controller has read by the history of the gate, also
when a poll has turned it since. `NoCollapse` rests on `EvenSteps`: if n slots have been lost since
the gate closed, it closed at least n - 1 intervals before the last step, so that the count of slots
and the age of the gate grow together.

**`ResultStoreProofs`**, if packages have distinct report files (`SlugsDiffer`, the assumption that
fails in the list above): `TypeOK`, `AckedKept`, `SummaryHasAcked`, `LosesAtMostOne`, and
`ResumeGrows` as a property of steps. The invariant relates memory, reports and resume state at each
place of `Record`, for each storage. What has been acknowledged is a set per file, the results that
may be on disk: one, and after a second `Record` has begun two. `AgreeOK` and `DoneOK`, for the
last two properties, are about packages no session has ignored, as long as no write has failed.

**`StreamSinkProofs`**: `TypeOK`, `NoteHasRoom`, `FlushSeparates`, `ChunkingInvisible` and
`NothingUnaccounted`, for a queue and outputs of any length. `BarrierOK` follows the barrier through
the queue: nothing is queued behind it, so that the queue is empty when the drainer has run it, and
the note has room and the next command a queue without foreign lines.
- `ChunkingInvisible` rests on `CutInv`: the lines emitted so far are what the part already cut into
  lines shows, the unfinished line starts where that part ends, and a carriage return that was
  decided to be an overwrite really was one, whatever chunk it came in. `ContentInvariance` says
  that a decision never changes when more output follows.
- `NothingUnaccounted` rests on `AcctInv`: the lines offered are those printed, those queued and
  those counted as dropped, with at most one note for them on its way.

Both argue by a least counterexample over positions (`WFMin`), since the library's induction
theorems cannot be instantiated.

**`SelectionProofs`**: `DiscoverMeaning`, `QueueMeaning`, `PlanIsSession` and `GlobMeaning`, for
every tree, list of roots, configuration, command line and resume state, and for patterns and names
of any length. What is assumed (`TreeAssumption`, `SettingsAssumption`) is that the tree is one:
`WalkDir` meets every path once, no path contains ".", and there is a root; and that patterns and
names are sequences of segments over an alphabet that lists each character once
(`AlphabetAssumption`).
- `WalkInv` says in closed form what k walks have found: the packages below the first k roots, and
  for each directory d exactly the wanted files it owns and that lie below one of these roots,
  each once. The roots still to be walked may bring packages further inside, so the heart is the
  lemma `Innermost`: the package that the walk of a root finds for a file, among the packages it
  knows, is the innermost of all packages below any root; where that one is not below the root,
  the walk finds none. The reason is that the prefixes of one path are comparable: what lies between
  a file and a package below the root lies below the root too.
- `PkgInv` says that the list of packages, from `Drop` on, lists each selected directory once, with
  the files and the mark the narrowing so far gives it, in whatever order.
- `InOrder`, the model of `append` loops and of `sort.SliceStable`, is shown to be a permutation of
  what it is given: the ranks of n positions in a total order are 0 to n - 1 (`Ranks`).
- `GlobMeaning` compares recursive functions with a meaning that does not search: a pattern can be
  cut into parts, and the name into pieces the parts stand for. No induction theorem of the library
  can be used, so the argument has two halves. The meaning satisfies the equations of `InClass`,
  `MatchSegment` and `MatchGlob` (`ClassStands`, `SegmentStep`, `GlobStep`), so a function that
  satisfies them exists, and what `CHOOSE` picks satisfies them too. And two solutions agree: where
  they differ they differ at a shortest place (`ShorterFirst`), and the equations look only at
  shorter ones. `SegmentMeans`, itself recursive, exists as the least set of pairs closed under its
  clauses (`LeastFixed`), and where the members of a class begin is a least set as well (`Members`).

Only model-checked: the liveness properties, `OverrunLeavesNothing` among them (fairness is outside
the prover's reach); `PackageGate` and the other properties with a counterexample.
`TypeOK` of `ResultStore` and `StreamSink` is proved and not listed in a run.

## Notes on faithfulness

- `resume.enabled` is a choice of `ResultStore`'s sessions; in `Scheduler` a session without it is
  the fresh one.
- `report.go:2-3` and the README say an interrupted run loses at most one file. The store does
  (`LosesAtMostOne`); a session with several workers has several files in flight, and each of
  them is run again.
- `Step`: a goroutine just started is assumed to reach its `select` before the timeout passes.
  Once `finished` and the context are both ready, the killer's choice is random, as in Go, and its
  late signals are in the model.
- `Sandbox`: the bootstrap command is taken to be set; without one, "deps" is trivially true.
- `Step`: blank commands, which 596 skips, are taken to be absent from the chain.
- `Sandbox`: an engine that ends normally is taken to have restored its mutants; this is what
  the code relies on. One that dies (`EngineCrashes`) has not.
- `StreamSink`: standard output and error are the same writer, so `os/exec` runs one copy
  goroutine per command.

## Not modelled

- Reading `/proc`, the thresholds of the gate, and the reuse of process-group numbers.
- Loading, defaulting and validating the configuration, and parsing durations and exit-code keys:
  conversions whose results are constants here. Parsing flags, printing, exit codes.
- Raw logs, the counters and durations of the summary, the schema of the database, and
  `ReadResume`'s copy of a database with a hot WAL.
- The exclude patterns of `syncTree`, errors of discovery's walk, the list of exempt patterns that
  matched nothing.
- An engine that outlives a killed session in its own process group (procs_unix.go:14) and goes on
  mutating a sandbox that the next session uses: nothing in the code could notice it.
- The Windows fallback (procs_windows.go) and the version string.

What is left out of these is input or output; no further state of the program is shared between
goroutines or outlives a session.

## Plan

Done: `Scheduler` with `Session`, its runs and proofs; `Step`; `Sandbox`; `Monitor` and `Capacity`;
`ResultStore`; `StreamSink`; `Glob` and `Selection`; proofs for all of them. Left:

- Crash and restart over the scheduler's custody of files and the store's two writes, as one
  module whose abstract specification is "every file has a result in the end".
