------------------------------- MODULE Session -------------------------------
(***************************************************************************)
(* What a session promises about the files it is given, with no workers,   *)
(* queues or sandboxes (internal/scheduler/scheduler.go: Run "drives the   *)
(* session to completion"; README: results are recorded file by file and   *)
(* a later session picks up what is left), and what the report holds of    *)
(* them meanwhile.  Scheduler implements it.                               *)
(***************************************************************************)
CONSTANTS Packages,     \* the packages of the session
          FilesOf,      \* FilesOf[p]: the files of p that are to be run
          EarlierFiles, \* the sets of files an earlier session may have recorded
          Outcomes      \* the results a run of a file may have

Files == UNION {FilesOf[p] : p \in Packages}

VARIABLES fate,         \* "earlier", "open" or "recorded", per file
          report,       \* the stored result of a file: "none", "earlier" or an outcome
          dropped,      \* packages given up after a timeout
          interrupted,  \* Ctrl-C
          phase         \* "running", then "over" (or "failed" before any file ran)

sessionVars == <<fate, report, dropped, interrupted, phase>>

Init ==
    /\ \E earlier \in EarlierFiles :
         /\ fate = [f \in Files |-> IF f \in earlier THEN "earlier" ELSE "open"]
         /\ report = [f \in Files |-> IF f \in earlier THEN "earlier" ELSE "none"]
    /\ dropped = [p \in Packages |-> FALSE]
    /\ interrupted = FALSE
    /\ phase = "running"

\* A run of a file gives it a result, which the store may fail to write. What an
\* earlier session recorded is never run; what this one recorded may be run again,
\* and the later result replaces the first: no result of this session is final.
Record(f, r) ==
    /\ phase = "running" /\ fate[f] # "earlier"
    /\ fate' = [fate EXCEPT ![f] = "recorded"]
    /\ report' \in {report, [report EXCEPT ![f] = r]}
    /\ UNCHANGED <<dropped, interrupted, phase>>

\* A package is given up only after one of its files has run in this session.
Drop(p) ==
    /\ phase = "running"
    /\ \E f \in FilesOf[p] : fate[f] = "recorded"
    /\ dropped' = [dropped EXCEPT ![p] = TRUE]
    /\ UNCHANGED <<fate, report, interrupted, phase>>

Interrupt ==
    /\ phase = "running" /\ ~interrupted
    /\ interrupted' = TRUE
    /\ UNCHANGED <<fate, report, dropped, phase>>

\* An uninterrupted session ends only when nothing is open but what was dropped.
Finish ==
    /\ phase = "running"
    /\ interrupted \/ \A p \in Packages : dropped[p] \/ \A f \in FilesOf[p] : fate[f] # "open"
    /\ phase' = "over"
    /\ UNCHANGED <<fate, report, dropped, interrupted>>

Fail ==
    /\ phase = "running" /\ \A f \in Files : fate[f] # "recorded"
    /\ phase' = "failed"
    /\ UNCHANGED <<fate, report, dropped, interrupted>>

Next == (\E f \in Files, r \in Outcomes : Record(f, r)) \/ (\E p \in Packages : Drop(p))
        \/ Interrupt \/ Finish \/ Fail

Spec == Init /\ [][Next]_sessionVars
=============================================================================
