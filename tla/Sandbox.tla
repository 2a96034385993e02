------------------------------- MODULE Sandbox -------------------------------
(***************************************************************************)
(* The sandbox cache (internal/workspace/workspace.go): what a package's   *)
(* directory holds on disk, the flags a session keeps about it in memory,  *)
(* and a mutation engine working in it.  The disk outlives a session; the  *)
(* flags do not.  A sandbox has one user at a time (Sandbox.mu; module     *)
(* Scheduler), so use[p] is the place of that user, or "free".             *)
(***************************************************************************)
EXTENDS Naturals, FiniteSets

CONSTANTS
    Pkgs, Files,    \* the packages; the source files of each of them
    IOFails,        \* file operations and the bootstrap command may fail
    EngineDies      \* an engine may end without restoring, and unkilled

ASSUME SandboxAssumption == IsFiniteSet(Files) /\ {IOFails, EngineDies} \subseteq BOOLEAN

\* A file of the sandbox, against the source: missing, equal, as it was before
\* an edit, mutated by an engine, left mutated by one that died on its own; and
\* where the source no longer has the file, left over in a prepared sandbox, or
\* debris of a preparation that was never completed.
Contents == {"absent", "pristine", "old", "mutated", "stray", "leftover", "debris"}
UseStates == {"free", "check", "remove", "mkdir", "sync", "resync", "boot", "booting", "mark",
              "clean", "held", "ready", "run"}

VARIABLES
    source,     \* the files the source has in this session
    content,    \* a file in the sandbox, against the source: see Contents
    made,       \* the directory exists
    marker,     \* .mutant-prepared exists
    deps,       \* the bootstrap command has completed in this directory
    prepared,   \* Sandbox.prepared
    dirty,      \* Sandbox.dirty
    blind,      \* this session's last look at the marker failed (history)
    use,        \* where the holder of the sandbox is
    todo,       \* the files syncTree has still to visit
    up          \* a session is running

diskVars == <<source, content, made, marker, deps>>
vars == <<diskVars, prepared, dirty, blind, use, todo, up>>

Init ==
    /\ source \in SUBSET Files \ {{}}
    /\ content = [p \in Pkgs |-> [f \in Files |-> "absent"]]
    /\ made = [p \in Pkgs |-> FALSE]
    /\ marker = [p \in Pkgs |-> FALSE]
    /\ deps = [p \in Pkgs |-> FALSE]
    /\ prepared = [p \in Pkgs |-> FALSE]
    /\ dirty = [p \in Pkgs |-> FALSE]
    /\ blind = [p \in Pkgs |-> FALSE]
    /\ use = [p \in Pkgs |-> "free"]
    /\ todo = [p \in Pkgs |-> {}]
    /\ up = TRUE

Move(p, from, to) == use[p] = from /\ use' = [use EXCEPT ![p] = to]

\* An error of any operation of prepare: the lock is released, the flags stay.
Fail(p) ==
    /\ IOFails /\ use' = [use EXCEPT ![p] = "free"]
    /\ UNCHANGED <<prepared, dirty>>

-----------------------------------------------------------------------------
(* TryAcquire and prepare *)

SkipPrepare(p) == prepared[p] /\ ~dirty[p]

TryAcquire(p) ==
    /\ up /\ Move(p, "free", IF SkipPrepare(p) THEN "held" ELSE "check")
    /\ UNCHANGED <<diskVars, prepared, dirty, blind, todo, up>>

\* os.Stat of the marker. Only "it does not exist" leads to the first use; when
\* the look fails in any other way, prepare goes on as if the marker were there.
StatMarker(p) ==
    /\ \/ /\ Move(p, "check", IF marker[p] THEN "resync" ELSE "remove")
          /\ blind' = [blind EXCEPT ![p] = FALSE]
       \/ IOFails /\ Move(p, "check", "resync") /\ blind' = [blind EXCEPT ![p] = TRUE]
    /\ todo' = [todo EXCEPT ![p] = source]
    /\ UNCHANGED <<diskVars, prepared, dirty, up>>

\* os.RemoveAll; when it fails, part of the tree is gone.
RemoveAll_Skipped(p) ==                                                  \* mutant
    /\ use[p] = "remove" /\ Move(p, "remove", "mkdir")
    /\ UNCHANGED <<diskVars, prepared, dirty, blind, todo, up>>
RemoveAll(p) ==
    /\ use[p] = "remove"
    /\ \/ /\ Move(p, "remove", "mkdir")
          /\ content' = [content EXCEPT ![p] = [f \in Files |-> "absent"]]
          /\ made' = [made EXCEPT ![p] = FALSE]
          /\ deps' = [deps EXCEPT ![p] = FALSE]
          /\ UNCHANGED <<prepared, dirty>>
       \/ /\ Fail(p)
          /\ \E gone \in SUBSET Files :
               content' = [content EXCEPT ![p] = [f \in Files |-> IF f \in gone THEN "absent" ELSE @[f]]]
          /\ deps' = [deps EXCEPT ![p] = FALSE]
          /\ UNCHANGED made
    /\ UNCHANGED <<source, marker, blind, todo, up>>

MkdirAll_NotMade(p) ==                                                   \* mutant
    Move(p, "mkdir", "sync") /\ UNCHANGED <<diskVars, prepared, dirty, blind, todo, up>>
MkdirAll(p) ==
    /\ use[p] = "mkdir"
    /\ \/ Move(p, "mkdir", "sync") /\ made' = [made EXCEPT ![p] = TRUE] /\ UNCHANGED <<prepared, dirty>>
       \/ Fail(p) /\ UNCHANGED made
    /\ UNCHANGED <<source, content, marker, deps, blind, todo, up>>

\* syncTree visits one file: identical content (sameFile) is left, anything
\* else is replaced by a copy, by rename.
SameFile_ByPresence(p, f) == content[p][f] # "absent"                    \* mutant
SameFile(p, f) == content[p][f] = "pristine"

\* The walk makes the directories it meets, so a copy that succeeds is in one; a
\* file at the root of a sandbox that does not exist is a copy that fails.
SyncFile(p) ==
    /\ use[p] \in {"sync", "resync"} /\ todo[p] # {}
    /\ \/ \E f \in todo[p] :
            /\ todo' = [todo EXCEPT ![p] = @ \ {f}]
            /\ content' = IF SameFile(p, f) THEN content
                          ELSE [content EXCEPT ![p][f] = "pristine"]
            /\ made' = [made EXCEPT ![p] = TRUE]
            /\ UNCHANGED <<use, prepared, dirty>>
       \/ Fail(p) /\ UNCHANGED <<content, made, todo>>
    /\ UNCHANGED <<source, marker, deps, blind, up>>

SyncDone_MarksFirst(p) ==                                                \* mutant
    /\ todo[p] = {} /\ (Move(p, "sync", "boot") \/ Move(p, "resync", "clean"))
    /\ marker' = [marker EXCEPT ![p] = TRUE]
    /\ UNCHANGED <<source, content, made, deps, prepared, dirty, blind, todo, up>>
SyncDone(p) ==
    /\ todo[p] = {} /\ (Move(p, "sync", "boot") \/ Move(p, "resync", "clean"))
    /\ UNCHANGED <<diskVars, prepared, dirty, blind, todo, up>>

\* bootMu: one bootstrap command at a time, over all sandboxes.
BootFree(p) == p \in Pkgs /\ \A q \in Pkgs : use[q] # "booting"

LockBootstrap(p) ==
    /\ BootFree(p) /\ Move(p, "boot", "booting")
    /\ UNCHANGED <<diskVars, prepared, dirty, blind, todo, up>>

Bootstrap(p) ==         \* the command ends; a cancelled session kills it
    /\ use[p] = "booting"
    /\ \/ Move(p, "booting", "mark") /\ deps' = [deps EXCEPT ![p] = TRUE] /\ UNCHANGED <<prepared, dirty>>
       \/ Fail(p) /\ UNCHANGED deps
    /\ UNCHANGED <<source, content, made, marker, blind, todo, up>>

\* A failing os.WriteFile may leave the file behind.
WriteMarker(p) ==
    /\ use[p] = "mark"
    /\ \/ Move(p, "mark", "clean") /\ marker' = [marker EXCEPT ![p] = TRUE] /\ UNCHANGED <<prepared, dirty>>
       \/ Fail(p) /\ \E left \in BOOLEAN : marker' = [marker EXCEPT ![p] = left]
    /\ UNCHANGED <<source, content, made, deps, blind, todo, up>>

SetPrepared(p) ==
    /\ Move(p, "clean", "held")
    /\ dirty' = [dirty EXCEPT ![p] = FALSE]
    /\ prepared' = [prepared EXCEPT ![p] = TRUE]
    /\ UNCHANGED <<diskVars, blind, todo, up>>

-----------------------------------------------------------------------------
(* The step in a held sandbox: RestorePristine, the engine, its end *)

RestorePristine(p) ==   \* makes the file's directory and copies it
    /\ use[p] = "held"
    /\ \/ \E f \in source :
            /\ Move(p, "held", "ready") /\ content' = [content EXCEPT ![p][f] = "pristine"]
            /\ made' = [made EXCEPT ![p] = TRUE] /\ UNCHANGED <<prepared, dirty>>
       \/ Fail(p) /\ UNCHANGED <<content, made>>
    /\ UNCHANGED <<source, marker, deps, blind, todo, up>>

Unused(p) ==            \* the claim is given up (requeue): Release
    /\ Move(p, "held", "free")
    /\ UNCHANGED <<diskVars, prepared, dirty, blind, todo, up>>

StartEngine(p) == Move(p, "ready", "run") /\ UNCHANGED <<diskVars, prepared, dirty, blind, todo, up>>

Mutate(p) ==            \* a stray mutant stays one, mutated again or not
    /\ use[p] = "run"
    /\ \E f \in source : content[p][f] # "stray" /\ content' = [content EXCEPT ![p][f] = "mutated"]
    /\ UNCHANGED <<source, made, marker, deps, prepared, dirty, blind, use, todo, up>>

Mutant(p, f) == f \in source /\ content[p][f] = "mutated"

\* An engine that ends by itself has restored what it mutated; a test run that
\* only executes mutants never needs to.
EngineEnds(p) ==
    /\ Move(p, "run", "free")
    /\ content' = [content EXCEPT ![p] = [f \in Files |-> IF Mutant(p, f) THEN "pristine" ELSE @[f]]]
    /\ UNCHANGED <<source, made, marker, deps, prepared, dirty, blind, todo, up>>

\* Timeout, memory kill or Ctrl-C: MarkDirty, then Release.
EngineKilled(p) ==
    /\ Move(p, "run", "free")
    /\ dirty' = [dirty EXCEPT ![p] = TRUE]
    /\ UNCHANGED <<diskVars, prepared, blind, todo, up>>

\* The engine dies on its own (the kernel's OOM killer, a crash): an exit code
\* like any other to runCommands. Nobody restores its mutants.
EngineCrashes(p) ==
    /\ EngineDies /\ Move(p, "run", "free")
    /\ content' = [content EXCEPT ![p] = [f \in Files |-> IF Mutant(p, f) THEN "stray" ELSE @[f]]]
    /\ UNCHANGED <<source, made, marker, deps, prepared, dirty, blind, todo, up>>

-----------------------------------------------------------------------------
(* The end of a session, orderly or by a crash, and the next one *)

Crash ==
    /\ up /\ up' = FALSE
    /\ use' = [p \in Pkgs |-> "free"]
    /\ prepared' = [p \in Pkgs |-> FALSE]
    /\ dirty' = [p \in Pkgs |-> FALSE]
    /\ blind' = [p \in Pkgs |-> FALSE]
    /\ todo' = [p \in Pkgs |-> {}]
    /\ UNCHANGED diskVars

\* What a file of the sandbox is once the source has the files now, some edited.
After(p, f, now, edited) ==
    IF content[p][f] \in {"absent", "mutated", "stray"} THEN content[p][f]
    ELSE IF f \in now
         THEN IF content[p][f] = "pristine" /\ f \notin edited THEN "pristine" ELSE "old"
         ELSE IF marker[p] /\ content[p][f] # "debris" THEN "leftover" ELSE "debris"

Restart ==              \* meanwhile source files were edited, deleted, created
    /\ ~up /\ up' = TRUE
    /\ \E now \in SUBSET Files \ {{}}, edited \in SUBSET Files :
         /\ source' = now
         /\ content' = [p \in Pkgs |-> [f \in Files |-> After(p, f, now, edited)]]
    /\ UNCHANGED <<made, marker, deps, prepared, dirty, blind, use, todo>>

Prepare(p) == StatMarker(p) \/ RemoveAll(p) \/ MkdirAll(p) \/ SyncFile(p) \/ SyncDone(p)
              \/ LockBootstrap(p) \/ Bootstrap(p) \/ WriteMarker(p) \/ SetPrepared(p)
RunStep(p) == RestorePristine(p) \/ Unused(p) \/ StartEngine(p) \/ Mutate(p) \/ EngineEnds(p)
              \/ EngineKilled(p) \/ EngineCrashes(p)

Next == \/ Crash \/ Restart
        \/ \E p \in Pkgs : TryAcquire(p) \/ Prepare(p) \/ RunStep(p)

Spec == Init /\ [][Next]_vars

-----------------------------------------------------------------------------
(* Properties *)

TypeOK ==
    /\ source \subseteq Files
    /\ content \in [Pkgs -> [Files -> Contents]]
    /\ {made, marker, deps, prepared, dirty, blind} \subseteq [Pkgs -> BOOLEAN]
    /\ use \in [Pkgs -> UseStates]
    /\ todo \in [Pkgs -> SUBSET Files]
    /\ up \in BOOLEAN
    /\ \A p \in Pkgs : /\ made[p] \/ \A f \in Files : content[p][f] = "absent"
                      /\ use[p] \in {"sync", "boot", "booting", "mark"} => made[p]

\* When an engine starts, every source file is in the sandbox as the source has
\* it: no mutant leaked by a killed step of this or of an earlier session, no
\* failed or interrupted preparation, no file as it was before an edit; only what
\* an engine that died on its own left behind escapes MarkDirty. The dependencies
\* are installed too, with one exception: where this session could not look at
\* the marker (os.Stat failed, but not with "does not exist"), prepare re-syncs and
\* trusts a bootstrap nobody has made.
StepStartsSynced ==
    \A p \in Pkgs : use[p] = "ready" =>
        /\ \A f \in source : content[p][f] \in {"pristine", "stray"}
        /\ deps[p] \/ blind[p]

\* The marker on disk, which lets a later session skip the bootstrap and the
\* clean slate, is there only after a bootstrap that completed in a directory
\* free of what interrupted preparations before it had left there.
MarkerMeansBootstrapped ==
    \A p \in Pkgs : marker[p] => deps[p] /\ \A f \in Files : content[p][f] # "debris"
=============================================================================
