---------------------------- MODULE SandboxProofs ----------------------------
(***************************************************************************)
(* Proofs about module Sandbox, for any packages and files, with or        *)
(* without failing file operations and dying engines.  The inductive       *)
(* invariant follows a package through prepare: what is known of the disk  *)
(* at each place, and what the flags and the marker stand for.             *)
(***************************************************************************)
EXTENDS Sandbox, TLAPS

Fresh == {"mkdir", "sync", "boot", "booting", "mark"}
Preparing == {"check", "remove", "resync", "clean"} \cup Fresh

\* What the marker stands for, where there is none, and who relies on it: a
\* re-sync, and a sandbox that is ready, unless the look at the marker failed.
MarkerOK ==
    \A p \in Pkgs :
        /\ marker[p] => made[p] /\ deps[p] /\ \A f \in Files : content[p][f] # "debris"
        /\ use[p] \in {"remove"} \cup Fresh => ~marker[p]
        /\ use[p] \in {"resync", "clean"} => marker[p] \/ blind[p]
        /\ prepared[p] /\ ~dirty[p] => marker[p] \/ blind[p]

\* How far a first preparation has come.
FreshOK ==
    \A p \in Pkgs :
        /\ use[p] \in Fresh => \A f \in Files : content[p][f] # "debris"
        /\ use[p] \in Fresh \ {"mkdir"} => made[p]
        /\ use[p] = "mark" => deps[p]

\* What syncTree has visited is the source's, and stays so to its end.
SyncOK ==
    \A p \in Pkgs :
        /\ use[p] \in {"remove", "mkdir"} => source \subseteq todo[p]
        /\ use[p] \in {"sync", "resync"} => \A f \in source \ todo[p] : content[p][f] = "pristine"
        /\ use[p] \in {"boot", "booting", "mark", "clean"} => \A f \in source : content[p][f] = "pristine"

\* A prepared sandbox that is not dirty holds the source's files, but for what a
\* dead engine left; only its engine at work may have mutated them.
FlagsOK ==
    \A p \in Pkgs :
        /\ use[p] \in Preparing => ~(prepared[p] /\ ~dirty[p])
        /\ use[p] \in {"held", "ready", "run"} => prepared[p] /\ ~dirty[p]
        /\ prepared[p] /\ ~dirty[p] /\ use[p] # "run" =>
              \A f \in source : content[p][f] \in {"pristine", "stray"}
        /\ use[p] = "run" => \A f \in source : content[p][f] \in {"pristine", "stray", "mutated"}

\* The memory of a session is gone with it.
DownOK == ~up => \A p \in Pkgs : use[p] = "free" /\ ~prepared[p]

\* Each variable's type, and a directory that does not exist holds nothing.
Typed ==
    /\ source \subseteq Files
    /\ content \in [Pkgs -> [Files -> Contents]]
    /\ made \in [Pkgs -> BOOLEAN] /\ marker \in [Pkgs -> BOOLEAN] /\ deps \in [Pkgs -> BOOLEAN]
    /\ prepared \in [Pkgs -> BOOLEAN] /\ dirty \in [Pkgs -> BOOLEAN] /\ blind \in [Pkgs -> BOOLEAN]
    /\ use \in [Pkgs -> UseStates] /\ todo \in [Pkgs -> SUBSET Files] /\ up \in BOOLEAN

Unmade == \A p \in Pkgs : made[p] \/ \A f \in Files : content[p][f] = "absent"

IInv == Typed /\ Unmade /\ MarkerOK /\ FreshOK /\ SyncOK /\ FlagsOK /\ DownOK

-----------------------------------------------------------------------------
(* Types *)

\* TypeOK, part by part: the provers take the memberships one at a time.
LEMMA TypeParts == Typed /\ Unmade /\ FreshOK => TypeOK
  BY DEF TypeOK, Typed, Unmade, FreshOK, Fresh

\* An operation of prepare that fails only frees the sandbox (an error of prepare
\* releases the lock).
LEMMA FailTyped ==
    ASSUME NEW p \in Pkgs, Typed, Fail(p)
    PROVE  use' \in [Pkgs -> UseStates] /\ prepared' \in [Pkgs -> BOOLEAN] /\ dirty' \in [Pkgs -> BOOLEAN]
  BY DEF Fail, Typed, UseStates

\* A step of the holder's place keeps the places typed.
LEMMA MoveTyped ==
    ASSUME NEW p \in Pkgs, Typed, NEW a, NEW b \in UseStates, Move(p, a, b)
    PROVE  use' \in [Pkgs -> UseStates]
  BY DEF Move, Typed

\* Replacing what a whole sandbox holds keeps the contents typed.
LEMMA SetTyped ==
    ASSUME NEW p \in Pkgs, Typed, NEW g \in [Files -> Contents], content' = [content EXCEPT ![p] = g]
    PROVE  content' \in [Pkgs -> [Files -> Contents]]
  BY DEF Typed

\* Writing one file of a sandbox changes that file and no other.
LEMMA SetFile ==
    ASSUME NEW p \in Pkgs, Typed, NEW f \in Files, NEW c \in Contents, content' = [content EXCEPT ![p][f] = c]
    PROVE  /\ content' \in [Pkgs -> [Files -> Contents]]
           /\ \A q \in Pkgs, g \in Files : content'[q][g] = IF q = p /\ g = f THEN c ELSE content[q][g]
<1>1. [content[p] EXCEPT ![f] = c] \in [Files -> Contents]
  BY DEF Typed
<1>2. content' = [content EXCEPT ![p] = [content[p] EXCEPT ![f] = c]]
  BY DEF Typed
<1> QED
  BY <1>1, <1>2 DEF Typed

\* os.RemoveAll, successful or stopped half-way, keeps the state typed and leaves
\* no files without a directory.
LEMMA RemoveAllTyped ==
    ASSUME NEW p \in Pkgs, Typed, Unmade, RemoveAll(p)
    PROVE  Typed' /\ Unmade'
<1>1. CASE Move(p, "remove", "mkdir") /\ content' = [content EXCEPT ![p] = [f \in Files |-> "absent"]]
          /\ made' = [made EXCEPT ![p] = FALSE] /\ deps' = [deps EXCEPT ![p] = FALSE] /\ UNCHANGED <<prepared, dirty>>
  <2>1. [f \in Files |-> "absent"] \in [Files -> Contents]
    BY DEF Contents
  <2>2. content' \in [Pkgs -> [Files -> Contents]]
    BY <1>1, <2>1, SetTyped
  <2>3. use' \in [Pkgs -> UseStates]
    BY <1>1, MoveTyped DEF UseStates
  <2> QED
    BY <1>1, <2>2, <2>3 DEF RemoveAll, Typed, Unmade
<1>2. ASSUME Fail(p), NEW gone \in SUBSET Files, 
    content' = [content EXCEPT ![p] = [f \in Files |-> IF f \in gone THEN "absent" ELSE @[f]]],
    deps' = [deps EXCEPT ![p] = FALSE], UNCHANGED made PROVE Typed' /\ Unmade'
  <2>1. [f \in Files |-> IF f \in gone THEN "absent" ELSE content[p][f]] \in [Files -> Contents]
    BY DEF Contents, Typed
  <2>2. content' \in [Pkgs -> [Files -> Contents]]
    BY <1>2, <2>1, SetTyped
  <2> QED
    BY <1>2, <2>2, FailTyped DEF RemoveAll, Typed, Unmade
<1> QED
  BY <1>1, <1>2 DEF RemoveAll

\* os.MkdirAll, likewise.
LEMMA MkdirAllTyped ==
    ASSUME NEW p \in Pkgs, Typed, Unmade, MkdirAll(p)
    PROVE  Typed' /\ Unmade'
<1>1. CASE Move(p, "mkdir", "sync") /\ made' = [made EXCEPT ![p] = TRUE] /\ UNCHANGED <<prepared, dirty>>
  BY <1>1, MoveTyped DEF MkdirAll, Typed, Unmade, UseStates
<1>2. CASE Fail(p) /\ UNCHANGED made
  BY <1>2, FailTyped DEF MkdirAll, Typed, Unmade
<1> QED
  BY <1>1, <1>2 DEF MkdirAll

\* syncTree's visit of a file, which leaves the sandbox a directory.
LEMMA SyncFileTyped ==
    ASSUME NEW p \in Pkgs, Typed, Unmade, SyncFile(p)
    PROVE  Typed' /\ Unmade'
<1>1. ASSUME NEW f \in todo[p], todo' = [todo EXCEPT ![p] = @ \ {f}],
     content' = IF SameFile(p, f) THEN content ELSE [content EXCEPT ![p][f] = "pristine"],
     made' = [made EXCEPT ![p] = TRUE], UNCHANGED <<use, prepared, dirty>> PROVE Typed' /\ Unmade'
  <2>1. f \in Files /\ "pristine" \in Contents
    BY DEF Typed, Contents
  <2>2. content' \in [Pkgs -> [Files -> Contents]] /\ \A q \in Pkgs \ {p} : content'[q] = content[q]
    <3>1. CASE SameFile(p, f)
      BY <1>1, <3>1 DEF Typed
    <3>2. CASE ~SameFile(p, f)
      BY <1>1, <2>1, <3>2, SetFile DEF Typed
    <3> QED
      BY <3>1, <3>2
  <2>3. todo' \in [Pkgs -> SUBSET Files]
    BY <1>1 DEF Typed
  <2> QED
    BY <1>1, <2>2, <2>3 DEF SyncFile, Typed, Unmade
<1>2. CASE Fail(p) /\ UNCHANGED <<content, made, todo>>
  BY <1>2, FailTyped DEF SyncFile, Typed, Unmade
<1> QED
  BY <1>1, <1>2 DEF SyncFile

\* The bootstrap command, ended or killed.
LEMMA BootstrapTyped ==
    ASSUME NEW p \in Pkgs, Typed, Unmade, Bootstrap(p)
    PROVE  Typed' /\ Unmade'
<1>1. CASE Move(p, "booting", "mark") /\ deps' = [deps EXCEPT ![p] = TRUE] /\ UNCHANGED <<prepared, dirty>>
  BY <1>1, MoveTyped DEF Bootstrap, Typed, Unmade, UseStates
<1>2. CASE Fail(p) /\ UNCHANGED deps
  BY <1>2, FailTyped DEF Bootstrap, Typed, Unmade
<1> QED
  BY <1>1, <1>2 DEF Bootstrap

\* Writing the marker, whole or in part.
LEMMA WriteMarkerTyped ==
    ASSUME NEW p \in Pkgs, Typed, Unmade, WriteMarker(p)
    PROVE  Typed' /\ Unmade'
<1>1. CASE Move(p, "mark", "clean") /\ marker' = [marker EXCEPT ![p] = TRUE] /\ UNCHANGED <<prepared, dirty>>
  BY <1>1, MoveTyped DEF WriteMarker, Typed, Unmade, UseStates
<1>2. ASSUME Fail(p), NEW left \in BOOLEAN, marker' = [marker EXCEPT ![p] = left] PROVE Typed' /\ Unmade'
  BY <1>2, FailTyped DEF WriteMarker, Typed, Unmade
<1> QED
  BY <1>1, <1>2 DEF WriteMarker

\* RestorePristine, likewise.
LEMMA RestorePristineTyped ==
    ASSUME NEW p \in Pkgs, Typed, Unmade, RestorePristine(p)
    PROVE  Typed' /\ Unmade'
<1>1. ASSUME NEW f \in source, Move(p, "held", "ready"), content' = [content EXCEPT ![p][f] = "pristine"],
             made' = [made EXCEPT ![p] = TRUE], UNCHANGED <<prepared, dirty>> PROVE Typed' /\ Unmade'
  <2>1. f \in Files /\ "pristine" \in Contents
    BY DEF Typed, Contents
  <2>2. content' \in [Pkgs -> [Files -> Contents]] /\ \A q \in Pkgs \ {p} : content'[q] = content[q]
    BY <1>1, <2>1, SetFile DEF Typed
  <2>3. use' \in [Pkgs -> UseStates]
    BY <1>1, MoveTyped DEF UseStates
  <2> QED
    BY <1>1, <2>2, <2>3 DEF RestorePristine, Typed, Unmade
<1>2. CASE Fail(p) /\ UNCHANGED <<content, made>>
  BY <1>2, FailTyped DEF RestorePristine, Typed, Unmade
<1> QED
  BY <1>1, <1>2 DEF RestorePristine

-----------------------------------------------------------------------------
(* The inductive invariant, one lemma per conjunct and one step per action *)

\* Every step keeps the types, and files only where there is a directory.
LEMMA TypeStep == IInv /\ [Next]_vars => (Typed /\ Unmade)'
<1> SUFFICES ASSUME IInv, [Next]_vars PROVE Typed' /\ Unmade'
  OBVIOUS
<1> USE DEF IInv
<1>1. ASSUME NEW p \in Pkgs, TryAcquire(p) PROVE Typed' /\ Unmade'
  BY <1>1 DEF TryAcquire, SkipPrepare, Move, diskVars, Typed, Unmade, UseStates, Contents
<1>2. ASSUME NEW p \in Pkgs, StatMarker(p) PROVE Typed' /\ Unmade'
  BY <1>2 DEF StatMarker, Move, diskVars, Typed, Unmade, UseStates, Contents
<1>3. ASSUME NEW p \in Pkgs, RemoveAll(p) PROVE Typed' /\ Unmade'
  BY <1>3, RemoveAllTyped
<1>4. ASSUME NEW p \in Pkgs, MkdirAll(p) PROVE Typed' /\ Unmade'
  BY <1>4, MkdirAllTyped
<1>5. ASSUME NEW p \in Pkgs, SyncFile(p) PROVE Typed' /\ Unmade'
  BY <1>5, SyncFileTyped
<1>6. ASSUME NEW p \in Pkgs, SyncDone(p) PROVE Typed' /\ Unmade'
  BY <1>6 DEF SyncDone, Move, diskVars, Typed, Unmade, UseStates, Contents
<1>7. ASSUME NEW p \in Pkgs, LockBootstrap(p) PROVE Typed' /\ Unmade'
  BY <1>7 DEF LockBootstrap, Move, diskVars, Typed, Unmade, UseStates, Contents
<1>8. ASSUME NEW p \in Pkgs, Bootstrap(p) PROVE Typed' /\ Unmade'
  BY <1>8, BootstrapTyped
<1>9. ASSUME NEW p \in Pkgs, WriteMarker(p) PROVE Typed' /\ Unmade'
  BY <1>9, WriteMarkerTyped
<1>10. ASSUME NEW p \in Pkgs, SetPrepared(p) PROVE Typed' /\ Unmade'
  BY <1>10 DEF SetPrepared, Move, diskVars, Typed, Unmade, UseStates, Contents
<1>11. ASSUME NEW p \in Pkgs, RestorePristine(p) PROVE Typed' /\ Unmade'
  BY <1>11, RestorePristineTyped
<1>12. ASSUME NEW p \in Pkgs, Unused(p) PROVE Typed' /\ Unmade'
  BY <1>12 DEF Unused, Move, diskVars, Typed, Unmade, UseStates, Contents
<1>13. ASSUME NEW p \in Pkgs, StartEngine(p) PROVE Typed' /\ Unmade'
  BY <1>13 DEF StartEngine, Move, diskVars, Typed, Unmade, UseStates, Contents
<1>14. ASSUME NEW p \in Pkgs, Mutate(p) PROVE Typed' /\ Unmade'
  <2>1. made[p]
    BY <1>14 DEF Mutate, FlagsOK, Unmade, Typed
  <2>2. PICK f \in source : content' = [content EXCEPT ![p][f] = "mutated"]
    BY <1>14 DEF Mutate
  <2>3. f \in Files /\ "mutated" \in Contents
    BY DEF Typed, Contents
  <2>4. content' \in [Pkgs -> [Files -> Contents]] /\ \A q \in Pkgs \ {p} : content'[q] = content[q]
    BY <2>2, <2>3, SetFile DEF Typed
  <2> QED
    BY <1>14, <2>1, <2>4 DEF Mutate, Typed, Unmade
<1>15. ASSUME NEW p \in Pkgs, EngineEnds(p) PROVE Typed' /\ Unmade'
  BY <1>15 DEF EngineEnds, Move, Mutant, Typed, Unmade, UseStates, Contents
<1>16. ASSUME NEW p \in Pkgs, EngineKilled(p) PROVE Typed' /\ Unmade'
  BY <1>16 DEF EngineKilled, Move, diskVars, Typed, Unmade, UseStates, Contents
<1>17. ASSUME NEW p \in Pkgs, EngineCrashes(p) PROVE Typed' /\ Unmade'
  BY <1>17 DEF EngineCrashes, Move, Mutant, Typed, Unmade, UseStates, Contents
<1>18. CASE Crash
  BY <1>18 DEF Crash, diskVars, Typed, Unmade, UseStates
<1>19. CASE Restart
  BY <1>19 DEF Restart, After, DownOK, Typed, Unmade, UseStates, Contents
<1>20. CASE UNCHANGED vars
  BY <1>20 DEF vars, diskVars, Typed, Unmade
<1> QED
  BY <1>1, <1>2, <1>3, <1>4, <1>5, <1>6, <1>7, <1>8, <1>9, <1>10, <1>11,
     <1>12, <1>13, <1>14, <1>15, <1>16, <1>17, <1>18, <1>19, <1>20 DEF Next, Prepare, RunStep

\* Every step keeps what the marker stands for: only WriteMarker sets it, after the
\* bootstrap and over a clean slate; RemoveAll and a failed preparation are on
\* unmarked sandboxes, and an edit of the source leaves no debris under a marker.
LEMMA MarkerStep == IInv /\ [Next]_vars => MarkerOK'
<1> SUFFICES ASSUME IInv, [Next]_vars PROVE MarkerOK'
  OBVIOUS
<1> USE SandboxAssumption DEF IInv, Typed, MarkerOK
<1>1. ASSUME NEW p \in Pkgs, TryAcquire(p) PROVE MarkerOK'
  BY <1>1 DEF TryAcquire, SkipPrepare, Move, diskVars, FreshOK, Fresh
<1>2. ASSUME NEW p \in Pkgs, StatMarker(p) PROVE MarkerOK'
  BY <1>2 DEF StatMarker, Move, diskVars, FreshOK, FlagsOK, Preparing, Fresh
<1>3. ASSUME NEW p \in Pkgs, RemoveAll(p) PROVE MarkerOK'
  BY <1>3 DEF RemoveAll, Move, Fail, FreshOK, Fresh
<1>4. ASSUME NEW p \in Pkgs, MkdirAll(p) PROVE MarkerOK'
  BY <1>4 DEF MkdirAll, Move, Fail, FreshOK, Fresh
<1>5. ASSUME NEW p \in Pkgs, SyncFile(p) PROVE MarkerOK'
  BY <1>5 DEF SyncFile, SameFile, Fail, FreshOK, Fresh
<1>6. ASSUME NEW p \in Pkgs, SyncDone(p) PROVE MarkerOK'
  BY <1>6 DEF SyncDone, Move, diskVars, FreshOK, Fresh
<1>7. ASSUME NEW p \in Pkgs, LockBootstrap(p) PROVE MarkerOK'
  BY <1>7 DEF LockBootstrap, Move, diskVars, FreshOK, Fresh
<1>8. ASSUME NEW p \in Pkgs, Bootstrap(p) PROVE MarkerOK'
  BY <1>8 DEF Bootstrap, Move, Fail, FreshOK, Fresh
<1>9. ASSUME NEW p \in Pkgs, WriteMarker(p) PROVE MarkerOK'
  <2>1. CASE Move(p, "mark", "clean") /\ marker' = [marker EXCEPT ![p] = TRUE] /\ UNCHANGED <<prepared, dirty>>
    BY <1>9, <2>1 DEF WriteMarker, Move, FreshOK, Fresh
  <2>2. ASSUME Fail(p), NEW left \in BOOLEAN, marker' = [marker EXCEPT ![p] = left]
       PROVE  MarkerOK'
    BY <1>9, <2>2 DEF WriteMarker, Move, Fail, FreshOK, Fresh
  <2> QED
    BY <1>9, <2>1, <2>2 DEF WriteMarker
<1>10. ASSUME NEW p \in Pkgs, SetPrepared(p) PROVE MarkerOK'
  BY <1>10 DEF SetPrepared, Move, diskVars, FreshOK, Fresh
<1>11. ASSUME NEW p \in Pkgs, RestorePristine(p) PROVE MarkerOK'
  BY <1>11 DEF RestorePristine, Move, Fail, FreshOK, Fresh
<1>12. ASSUME NEW p \in Pkgs, Unused(p) PROVE MarkerOK'
  BY <1>12 DEF Unused, Move, diskVars, FreshOK, Fresh
<1>13. ASSUME NEW p \in Pkgs, StartEngine(p) PROVE MarkerOK'
  BY <1>13 DEF StartEngine, Move, diskVars, FreshOK, Fresh
<1>14. ASSUME NEW p \in Pkgs, Mutate(p) PROVE MarkerOK'
  BY <1>14 DEF Mutate, FreshOK, Fresh
<1>15. ASSUME NEW p \in Pkgs, EngineEnds(p) PROVE MarkerOK'
  BY <1>15 DEF EngineEnds, Move, Mutant, FreshOK, Fresh
<1>16. ASSUME NEW p \in Pkgs, EngineKilled(p) PROVE MarkerOK'
  BY <1>16 DEF EngineKilled, Move, diskVars, FreshOK, Fresh
<1>17. ASSUME NEW p \in Pkgs, EngineCrashes(p) PROVE MarkerOK'
  BY <1>17 DEF EngineCrashes, Move, Mutant, FreshOK, Fresh
<1>18. CASE Crash
  BY <1>18 DEF Crash, diskVars, FreshOK, Fresh
<1>19. CASE Restart
  BY <1>19 DEF Restart, After, DownOK, FreshOK, Fresh
<1>20. CASE UNCHANGED vars
  BY <1>20 DEF vars, diskVars, FreshOK, Fresh
<1> QED
  BY <1>1, <1>2, <1>3, <1>4, <1>5, <1>6, <1>7, <1>8, <1>9, <1>10, <1>11,
     <1>12, <1>13, <1>14, <1>15, <1>16, <1>17, <1>18, <1>19, <1>20 DEF Next, Prepare, RunStep

\* Every step of a first preparation keeps the clean slate RemoveAll has made.
LEMMA FreshStep == IInv /\ [Next]_vars => FreshOK'
<1> SUFFICES ASSUME IInv, [Next]_vars PROVE FreshOK'
  OBVIOUS
<1> USE SandboxAssumption DEF IInv, Typed, FreshOK
<1>1. ASSUME NEW p \in Pkgs, TryAcquire(p) PROVE FreshOK'
  BY <1>1 DEF TryAcquire, SkipPrepare, Move, diskVars, MarkerOK, Fresh
<1>2. ASSUME NEW p \in Pkgs, StatMarker(p) PROVE FreshOK'
  BY <1>2 DEF StatMarker, Move, diskVars, MarkerOK, Fresh
<1>3. ASSUME NEW p \in Pkgs, RemoveAll(p) PROVE FreshOK'
  BY <1>3 DEF RemoveAll, Move, Fail, MarkerOK, Fresh
<1>4. ASSUME NEW p \in Pkgs, MkdirAll(p) PROVE FreshOK'
  BY <1>4 DEF MkdirAll, Move, Fail, MarkerOK, Fresh
<1>5. ASSUME NEW p \in Pkgs, SyncFile(p) PROVE FreshOK'
  BY <1>5 DEF SyncFile, SameFile, Fail, MarkerOK, Fresh
<1>6. ASSUME NEW p \in Pkgs, SyncDone(p) PROVE FreshOK'
  BY <1>6 DEF SyncDone, Move, diskVars, MarkerOK, Fresh
<1>7. ASSUME NEW p \in Pkgs, LockBootstrap(p) PROVE FreshOK'
  BY <1>7 DEF LockBootstrap, Move, diskVars, MarkerOK, Fresh
<1>8. ASSUME NEW p \in Pkgs, Bootstrap(p) PROVE FreshOK'
  BY <1>8 DEF Bootstrap, Move, Fail, MarkerOK, Fresh
<1>9. ASSUME NEW p \in Pkgs, WriteMarker(p) PROVE FreshOK'
  BY <1>9 DEF WriteMarker, Move, Fail, MarkerOK, Fresh
<1>10. ASSUME NEW p \in Pkgs, SetPrepared(p) PROVE FreshOK'
  BY <1>10 DEF SetPrepared, Move, diskVars, MarkerOK, Fresh
<1>11. ASSUME NEW p \in Pkgs, RestorePristine(p) PROVE FreshOK'
  BY <1>11 DEF RestorePristine, Move, Fail, MarkerOK, Fresh
<1>12. ASSUME NEW p \in Pkgs, Unused(p) PROVE FreshOK'
  BY <1>12 DEF Unused, Move, diskVars, MarkerOK, Fresh
<1>13. ASSUME NEW p \in Pkgs, StartEngine(p) PROVE FreshOK'
  BY <1>13 DEF StartEngine, Move, diskVars, MarkerOK, Fresh
<1>14. ASSUME NEW p \in Pkgs, Mutate(p) PROVE FreshOK'
  BY <1>14 DEF Mutate, MarkerOK, Fresh
<1>15. ASSUME NEW p \in Pkgs, EngineEnds(p) PROVE FreshOK'
  BY <1>15 DEF EngineEnds, Move, Mutant, MarkerOK, Fresh
<1>16. ASSUME NEW p \in Pkgs, EngineKilled(p) PROVE FreshOK'
  BY <1>16 DEF EngineKilled, Move, diskVars, MarkerOK, Fresh
<1>17. ASSUME NEW p \in Pkgs, EngineCrashes(p) PROVE FreshOK'
  BY <1>17 DEF EngineCrashes, Move, Mutant, MarkerOK, Fresh
<1>18. CASE Crash
  BY <1>18 DEF Crash, diskVars, MarkerOK, Fresh
<1>19. CASE Restart
  BY <1>19 DEF Restart, After, DownOK, MarkerOK, Fresh
<1>20. CASE UNCHANGED vars
  BY <1>20 DEF vars, diskVars, MarkerOK, Fresh
<1> QED
  BY <1>1, <1>2, <1>3, <1>4, <1>5, <1>6, <1>7, <1>8, <1>9, <1>10, <1>11,
     <1>12, <1>13, <1>14, <1>15, <1>16, <1>17, <1>18, <1>19, <1>20 DEF Next, Prepare, RunStep

\* Every step keeps the files syncTree has visited equal to the source's: no engine
\* runs there, and the source changes between sessions only.
LEMMA SyncStep == IInv /\ [Next]_vars => SyncOK'
<1> SUFFICES ASSUME IInv, [Next]_vars PROVE SyncOK'
  OBVIOUS
<1> USE SandboxAssumption DEF IInv, Typed, SyncOK
<1>1. ASSUME NEW p \in Pkgs, TryAcquire(p) PROVE SyncOK'
  BY <1>1 DEF TryAcquire, SkipPrepare, Move, diskVars
<1>2. ASSUME NEW p \in Pkgs, StatMarker(p) PROVE SyncOK'
  BY <1>2 DEF StatMarker, Move, diskVars
<1>3. ASSUME NEW p \in Pkgs, RemoveAll(p) PROVE SyncOK'
  <2>1. CASE Move(p, "remove", "mkdir") /\ content' = [content EXCEPT ![p] = [f \in Files |-> "absent"]]
              /\ made' = [made EXCEPT ![p] = FALSE] /\ deps' = [deps EXCEPT ![p] = FALSE]
              /\ UNCHANGED <<prepared, dirty>>
    BY <1>3, <2>1 DEF RemoveAll, Move
  <2>2. CASE Fail(p)
    BY <1>3, <2>2 DEF RemoveAll, Move, Fail
  <2> QED
    BY <1>3, <2>1, <2>2 DEF RemoveAll
<1>4. ASSUME NEW p \in Pkgs, MkdirAll(p) PROVE SyncOK'
  <2>1. CASE Move(p, "mkdir", "sync") /\ made' = [made EXCEPT ![p] = TRUE] /\ UNCHANGED <<prepared, dirty>>
    BY <1>4, <2>1 DEF MkdirAll, Move
  <2>2. CASE Fail(p) /\ UNCHANGED made
    BY <1>4, <2>2 DEF MkdirAll, Move, Fail
  <2> QED
    BY <1>4, <2>1, <2>2 DEF MkdirAll
<1>5. ASSUME NEW p \in Pkgs, SyncFile(p) PROVE SyncOK'
  <2>1. CASE ~Fail(p)
    BY <1>5, <2>1 DEF SyncFile, SameFile
  <2>2. CASE Fail(p)
    BY <1>5, <2>2 DEF SyncFile, SameFile, Fail
  <2> QED
    BY <1>5, <2>1, <2>2 DEF SyncFile
<1>6. ASSUME NEW p \in Pkgs, SyncDone(p) PROVE SyncOK'
  BY <1>6 DEF SyncDone, Move, diskVars
<1>7. ASSUME NEW p \in Pkgs, LockBootstrap(p) PROVE SyncOK'
  BY <1>7 DEF LockBootstrap, Move, diskVars
<1>8. ASSUME NEW p \in Pkgs, Bootstrap(p) PROVE SyncOK'
  BY <1>8 DEF Bootstrap, Move, Fail
<1>9. ASSUME NEW p \in Pkgs, WriteMarker(p) PROVE SyncOK'
  BY <1>9 DEF WriteMarker, Move, Fail
<1>10. ASSUME NEW p \in Pkgs, SetPrepared(p) PROVE SyncOK'
  BY <1>10 DEF SetPrepared, Move, diskVars
<1>11. ASSUME NEW p \in Pkgs, RestorePristine(p) PROVE SyncOK'
  BY <1>11 DEF RestorePristine, Move, Fail
<1>12. ASSUME NEW p \in Pkgs, Unused(p) PROVE SyncOK'
  BY <1>12 DEF Unused, Move, diskVars
<1>13. ASSUME NEW p \in Pkgs, StartEngine(p) PROVE SyncOK'
  BY <1>13 DEF StartEngine, Move, diskVars
<1>14. ASSUME NEW p \in Pkgs, Mutate(p) PROVE SyncOK'
  BY <1>14 DEF Mutate
<1>15. ASSUME NEW p \in Pkgs, EngineEnds(p) PROVE SyncOK'
  BY <1>15 DEF EngineEnds, Move, Mutant
<1>16. ASSUME NEW p \in Pkgs, EngineKilled(p) PROVE SyncOK'
  BY <1>16 DEF EngineKilled, Move, diskVars
<1>17. ASSUME NEW p \in Pkgs, EngineCrashes(p) PROVE SyncOK'
  BY <1>17 DEF EngineCrashes, Move, Mutant
<1>18. CASE Crash
  BY <1>18 DEF Crash, diskVars
<1>19. CASE Restart
  BY <1>19 DEF Restart, After, DownOK
<1>20. CASE UNCHANGED vars
  BY <1>20 DEF vars, diskVars
<1> QED
  BY <1>1, <1>2, <1>3, <1>4, <1>5, <1>6, <1>7, <1>8, <1>9, <1>10, <1>11,
     <1>12, <1>13, <1>14, <1>15, <1>16, <1>17, <1>18, <1>19, <1>20 DEF Next, Prepare, RunStep

\* Every step keeps what prepared and ~dirty promise: a killed engine sets dirty,
\* an engine that ends restores, SetPrepared follows a whole syncTree.
LEMMA FlagsStep == IInv /\ [Next]_vars => FlagsOK'
<1> SUFFICES ASSUME IInv, [Next]_vars PROVE FlagsOK'
  OBVIOUS
<1> USE SandboxAssumption DEF IInv, Typed, FlagsOK
<1>1. ASSUME NEW p \in Pkgs, TryAcquire(p) PROVE FlagsOK'
  BY <1>1 DEF TryAcquire, SkipPrepare, Move, diskVars, SyncOK, Preparing, Fresh
<1>2. ASSUME NEW p \in Pkgs, StatMarker(p) PROVE FlagsOK'
  BY <1>2 DEF StatMarker, Move, diskVars, SyncOK, Preparing, Fresh
<1>3. ASSUME NEW p \in Pkgs, RemoveAll(p) PROVE FlagsOK'
  BY <1>3 DEF RemoveAll, Move, Fail, SyncOK, Preparing, Fresh
<1>4. ASSUME NEW p \in Pkgs, MkdirAll(p) PROVE FlagsOK'
  BY <1>4 DEF MkdirAll, Move, Fail, SyncOK, Preparing, Fresh
<1>5. ASSUME NEW p \in Pkgs, SyncFile(p) PROVE FlagsOK'
  BY <1>5 DEF SyncFile, SameFile, Fail, SyncOK, Preparing, Fresh
<1>6. ASSUME NEW p \in Pkgs, SyncDone(p) PROVE FlagsOK'
  BY <1>6 DEF SyncDone, Move, diskVars, SyncOK, Preparing, Fresh
<1>7. ASSUME NEW p \in Pkgs, LockBootstrap(p) PROVE FlagsOK'
  BY <1>7 DEF LockBootstrap, Move, diskVars, SyncOK, Preparing, Fresh
<1>8. ASSUME NEW p \in Pkgs, Bootstrap(p) PROVE FlagsOK'
  BY <1>8 DEF Bootstrap, Move, Fail, SyncOK, Preparing, Fresh
<1>9. ASSUME NEW p \in Pkgs, WriteMarker(p) PROVE FlagsOK'
  BY <1>9 DEF WriteMarker, Move, Fail, SyncOK, Preparing, Fresh
<1>10. ASSUME NEW p \in Pkgs, SetPrepared(p) PROVE FlagsOK'
  BY <1>10 DEF SetPrepared, Move, diskVars, SyncOK, Preparing, Fresh
<1>11. ASSUME NEW p \in Pkgs, RestorePristine(p) PROVE FlagsOK'
  <2>1. CASE ~Fail(p)
    BY <1>11, <2>1 DEF RestorePristine, Move, SyncOK, Preparing, Fresh
  <2>2. CASE Fail(p)
    BY <1>11, <2>2 DEF RestorePristine, Move, Fail, SyncOK, Preparing, Fresh
  <2> QED
    BY <1>11, <2>1, <2>2 DEF RestorePristine
<1>12. ASSUME NEW p \in Pkgs, Unused(p) PROVE FlagsOK'
  BY <1>12 DEF Unused, Move, diskVars, SyncOK, Preparing, Fresh
<1>13. ASSUME NEW p \in Pkgs, StartEngine(p) PROVE FlagsOK'
  BY <1>13 DEF StartEngine, Move, diskVars, SyncOK, Preparing, Fresh
<1>14. ASSUME NEW p \in Pkgs, Mutate(p) PROVE FlagsOK'
  BY <1>14 DEF Mutate, SyncOK, Preparing, Fresh
<1>15. ASSUME NEW p \in Pkgs, EngineEnds(p) PROVE FlagsOK'
  BY <1>15 DEF EngineEnds, Move, Mutant, SyncOK, Preparing, Fresh
<1>16. ASSUME NEW p \in Pkgs, EngineKilled(p) PROVE FlagsOK'
  BY <1>16 DEF EngineKilled, Move, diskVars, SyncOK, Preparing, Fresh
<1>17. ASSUME NEW p \in Pkgs, EngineCrashes(p) PROVE FlagsOK'
  BY <1>17 DEF EngineCrashes, Move, Mutant, SyncOK, Preparing, Fresh
<1>18. CASE Crash
  BY <1>18 DEF Crash, diskVars, SyncOK, Preparing, Fresh
<1>19. CASE Restart
  BY <1>19 DEF Restart, After, DownOK, SyncOK, Preparing, Fresh
<1>20. CASE UNCHANGED vars
  BY <1>20 DEF vars, diskVars, SyncOK, Preparing, Fresh
<1> QED
  BY <1>1, <1>2, <1>3, <1>4, <1>5, <1>6, <1>7, <1>8, <1>9, <1>10, <1>11,
     <1>12, <1>13, <1>14, <1>15, <1>16, <1>17, <1>18, <1>19, <1>20 DEF Next, Prepare, RunStep

\* A session that has ended holds no sandbox and no flag.
LEMMA DownStep == IInv /\ [Next]_vars => DownOK'
<1> SUFFICES ASSUME IInv, [Next]_vars PROVE DownOK'
  OBVIOUS
<1> USE SandboxAssumption DEF IInv, Typed, DownOK
<1>1. ASSUME NEW p \in Pkgs, TryAcquire(p) PROVE DownOK'
  BY <1>1 DEF TryAcquire, SkipPrepare, Move, diskVars
<1>2. ASSUME NEW p \in Pkgs, StatMarker(p) PROVE DownOK'
  BY <1>2 DEF StatMarker, Move, diskVars
<1>3. ASSUME NEW p \in Pkgs, RemoveAll(p) PROVE DownOK'
  BY <1>3 DEF RemoveAll, Move, Fail
<1>4. ASSUME NEW p \in Pkgs, MkdirAll(p) PROVE DownOK'
  BY <1>4 DEF MkdirAll, Move, Fail
<1>5. ASSUME NEW p \in Pkgs, SyncFile(p) PROVE DownOK'
  BY <1>5 DEF SyncFile, SameFile, Fail
<1>6. ASSUME NEW p \in Pkgs, SyncDone(p) PROVE DownOK'
  BY <1>6 DEF SyncDone, Move, diskVars
<1>7. ASSUME NEW p \in Pkgs, LockBootstrap(p) PROVE DownOK'
  BY <1>7 DEF LockBootstrap, Move, diskVars
<1>8. ASSUME NEW p \in Pkgs, Bootstrap(p) PROVE DownOK'
  BY <1>8 DEF Bootstrap, Move, Fail
<1>9. ASSUME NEW p \in Pkgs, WriteMarker(p) PROVE DownOK'
  BY <1>9 DEF WriteMarker, Move, Fail
<1>10. ASSUME NEW p \in Pkgs, SetPrepared(p) PROVE DownOK'
  BY <1>10 DEF SetPrepared, Move, diskVars
<1>11. ASSUME NEW p \in Pkgs, RestorePristine(p) PROVE DownOK'
  BY <1>11 DEF RestorePristine, Move, Fail
<1>12. ASSUME NEW p \in Pkgs, Unused(p) PROVE DownOK'
  BY <1>12 DEF Unused, Move, diskVars
<1>13. ASSUME NEW p \in Pkgs, StartEngine(p) PROVE DownOK'
  BY <1>13 DEF StartEngine, Move, diskVars
<1>14. ASSUME NEW p \in Pkgs, Mutate(p) PROVE DownOK'
  BY <1>14 DEF Mutate
<1>15. ASSUME NEW p \in Pkgs, EngineEnds(p) PROVE DownOK'
  BY <1>15 DEF EngineEnds, Move, Mutant
<1>16. ASSUME NEW p \in Pkgs, EngineKilled(p) PROVE DownOK'
  BY <1>16 DEF EngineKilled, Move, diskVars
<1>17. ASSUME NEW p \in Pkgs, EngineCrashes(p) PROVE DownOK'
  BY <1>17 DEF EngineCrashes, Move, Mutant
<1>18. CASE Crash
  BY <1>18 DEF Crash, diskVars
<1>19. CASE Restart
  BY <1>19 DEF Restart, After, DownOK
<1>20. CASE UNCHANGED vars
  BY <1>20 DEF vars, diskVars
<1> QED
  BY <1>1, <1>2, <1>3, <1>4, <1>5, <1>6, <1>7, <1>8, <1>9, <1>10, <1>11,
     <1>12, <1>13, <1>14, <1>15, <1>16, <1>17, <1>18, <1>19, <1>20 DEF Next, Prepare, RunStep

\* Nothing is prepared, marked or there when the first session starts.
LEMMA InitStep == Init => IInv
  BY SandboxAssumption DEF Init, IInv, Typed, Unmade, MarkerOK, FreshOK, SyncOK, FlagsOK, DownOK,
     UseStates, Contents, Fresh, Preparing

-----------------------------------------------------------------------------
(* Theorems *)

\* The inductive invariant holds of every reachable state.
LEMMA Invariance == Spec => []IInv
<1>1. IInv /\ [Next]_vars => IInv'
  BY TypeStep, MarkerStep, FreshStep, SyncStep, FlagsStep, DownStep DEF IInv
<1> QED
  BY InitStep, <1>1, PTL DEF Spec

\* Every variable of the cache keeps its type, a sandbox without a directory holds
\* no file and a first preparation works in a directory, through failures, crashes and restarts.
THEOREM SandboxTyped == Spec => []TypeOK
<1>1. IInv => TypeOK
  BY TypeParts DEF IInv
<1> QED
  BY Invariance, <1>1, PTL

\* TryAcquire and prepare (workspace.go) never hand a step a sandbox that is not
\* the source's, whatever earlier steps and sessions left and whatever failed, but
\* for what an engine that died on its own left behind; nor one that is not
\* bootstrapped, unless this session's look at its marker failed.
THEOREM StepsSynced == Spec => []StepStartsSynced
<1>1. IInv => StepStartsSynced
  BY DEF IInv, Typed, MarkerOK, FlagsOK, StepStartsSynced
<1> QED
  BY Invariance, <1>1, PTL

\* prepare's marker (workspace.go) is on disk only after a bootstrap that completed
\* in a directory without debris, over any number of sessions and edits.
THEOREM MarkerSound == Spec => []MarkerMeansBootstrapped
<1>1. IInv => MarkerMeansBootstrapped
  BY DEF IInv, MarkerOK, MarkerMeansBootstrapped
<1> QED
  BY Invariance, <1>1, PTL
=============================================================================
