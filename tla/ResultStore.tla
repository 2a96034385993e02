----------------------------- MODULE ResultStore -----------------------------
(***************************************************************************)
(* The report store over several sessions.  The JSON store                 *)
(* (internal/report/jsonstore.go) records into the memory of the session,  *)
(* then the report of the package, then the resume state; a new session    *)
(* reads the resume state and seeds its memory from the package reports,   *)
(* passing over one that it cannot read or parse.                          *)
(* The SQLite store (internal/report/sqlitestore.go) upserts one row, and  *)
(* reads the table back.  A session may be narrowed by --package, --file   *)
(* and --exempt, may run with resume disabled (cmd/mutant/main.go), and    *)
(* may crash between any two writes; a JSON file is written to a temporary *)
(* file that is renamed, so a write happens whole or not at all.           *)
(***************************************************************************)
EXTENDS Naturals, FiniteSets

CONSTANTS
    Pkgs, Files,    \* the packages; the package-relative names of their files
    Slug,           \* Slug[p]: the name of the report file of package p
    Results, None,  \* result classes; no result
    Storages,       \* the values of reports.storage: "json", "sqlite"
    Selections,     \* the sets of files a session may be narrowed to
    WriteFails,     \* a write may fail
    ReadFails       \* a package report may be unreadable, or not parse

Entries == Pkgs \X Files

ASSUME StoreAssumption ==
    /\ IsFiniteSet(Pkgs) /\ IsFiniteSet(Files)
    /\ DOMAIN Slug = Pkgs /\ None \notin Results /\ {WriteFails, ReadFails} \subseteq BOOLEAN
    /\ Storages \subseteq {"json", "sqlite"} /\ Selections \subseteq SUBSET Entries

Slugs == {Slug[p] : p \in Pkgs}
Report == [Files -> Results \cup {None}]
Empty == [f \in Files |-> None]
Nothing == [p \in Pkgs |-> Empty]
Listed(map) == {e \in Entries : map[e[1]][e[2]] # None}

VARIABLES
    storage,    \* reports.storage
    results,    \* JSONStore.results, the memory of the session
    reports,    \* packages/<slug>.json
    saved,      \* resume-state.json, or the table file_results
    at,         \* where the session is: "down", "idle" or in a call of Record
    rec,        \* the entry that call is about, or None
    sel,        \* the files this session is about
    todo,       \* those it runs: SkipDone has left out the recorded ones
    open,       \* those it has not recorded yet
    acked,      \* history: see Acknowledge
    failed,     \* history: a write has failed
    ignored     \* history: see Ignore

sessionVars == <<sel, todo, ignored>>
vars == <<storage, results, reports, saved, at, rec, sessionVars, open, acked, failed>>

Init ==
    /\ storage \in Storages
    /\ results = Nothing
    /\ reports = [s \in Slugs |-> Empty]
    /\ saved = Nothing
    /\ at = "down" /\ rec = None
    /\ sel = {} /\ todo = {} /\ open = {}
    /\ acked = [p \in Pkgs |-> [f \in Files |-> {}]]
    /\ failed = FALSE /\ ignored = {}

-----------------------------------------------------------------------------
(* Resume, and SkipDone with what it returned *)

\* A package of the resume state is seeded from its report, if that can be read.
Seeded_Selected(p, lost) ==                                              \* mutant
    IF saved[p] = Empty \/ p \in lost \/ ~\E f \in Files : <<p, f>> \in sel'
    THEN Empty ELSE reports[Slug[p]]
Seeded(p, lost) == IF saved[p] = Empty \/ p \in lost THEN Empty ELSE reports[Slug[p]]

\* The packages whose reports a session may fail to read.
Unreadable == IF ReadFails THEN {p \in Pkgs : saved[p] # Empty} ELSE {}

\* A session of the JSON store that has not read the report of a package holds
\* nothing of it, and rewrites the resume state all the same.
Ignore(lost) ==
    /\ ignored' = ignored \cup lost
    /\ acked' = [p \in Pkgs |-> [f \in Files |-> IF p \in lost THEN {} ELSE acked[p][f]]]

Start(s) ==
    /\ at = "down" /\ at' = "idle"
    /\ sel' = s /\ todo' = s \ Listed(saved) /\ open' = todo'
    /\ IF storage = "json"
       THEN \E lost \in SUBSET Unreadable :
               results' = [p \in Pkgs |-> Seeded(p, lost)] /\ Ignore(lost)
       ELSE UNCHANGED <<results, ignored, acked>>
    /\ UNCHANGED <<storage, reports, saved, rec, failed>>

\* With resume disabled nothing is read: every file is run again.
StartOver(s) ==
    /\ at = "down" /\ at' = "idle"
    /\ sel' = s /\ todo' = s /\ open' = s
    /\ Ignore(IF storage = "json" THEN Pkgs ELSE {})
    /\ UNCHANGED <<storage, results, reports, saved, rec, failed>>

-----------------------------------------------------------------------------
(* Record: one call at a time (mu) *)

Return == at' = "idle" /\ rec' = None
Fail == WriteFails /\ Return /\ failed' = TRUE     \* Record returns the error

\* What has been acknowledged for a file: nothing until Record returns nil, then
\* that result, and those of later calls until one of them returns nil in turn.
Acknowledge(e, r) == acked' = [acked EXCEPT ![e[1]][e[2]] = {r}]

\* The JSON store's upsert into the memory; a file that was claimed twice (module
\* Scheduler) is recorded twice.
Remember(p, f, r) ==
    /\ storage = "json"
    /\ at = "idle" /\ <<p, f>> \in todo
    /\ results' = [results EXCEPT ![p][f] = r]
    /\ rec' = <<p, f>>
    /\ open' = open \ {<<p, f>>}
    /\ acked' = [acked EXCEPT ![p][f] = IF @ = {} THEN {} ELSE @ \cup {r}]
    /\ at' = "package"
    /\ UNCHANGED <<storage, reports, saved, sessionVars, failed>>

WritePackage ==
    /\ at = "package"
    /\ \/ /\ at' = "resume" /\ reports' = [reports EXCEPT ![Slug[rec[1]]] = results[rec[1]]]
          /\ UNCHANGED <<rec, failed>>
       \/ Fail /\ UNCHANGED reports
    /\ UNCHANGED <<storage, results, saved, sessionVars, open, acked>>

\* The resume state is rewritten from the whole memory.
ResumeState_OnePackage == [p \in Pkgs |-> IF p = rec[1] THEN results[p] ELSE Empty]  \* mutant
ResumeState == results

WriteResume_Later ==                                                     \* mutant
    /\ at = "resume" /\ Return
    /\ Acknowledge(rec, results[rec[1]][rec[2]])
    /\ saved' = IF open = {} THEN ResumeState ELSE saved
    /\ UNCHANGED <<storage, results, reports, sessionVars, open, failed>>
WriteResume ==
    /\ at = "resume"
    /\ \/ /\ Return /\ saved' = ResumeState
          /\ Acknowledge(rec, results[rec[1]][rec[2]])
          /\ UNCHANGED failed
       \/ Fail /\ UNCHANGED <<saved, acked>>
    /\ UNCHANGED <<storage, results, reports, sessionVars, open>>

\* SQLiteStore.Record: one statement, atomic.
Upsert(p, f, r) ==
    /\ storage = "sqlite"
    /\ at = "idle" /\ <<p, f>> \in todo
    /\ open' = open \ {<<p, f>>}
    /\ \/ /\ Return /\ saved' = [saved EXCEPT ![p][f] = r] /\ Acknowledge(<<p, f>>, r)
          /\ UNCHANGED failed
       \/ Fail /\ UNCHANGED <<saved, acked>>
    /\ UNCHANGED <<storage, results, reports, sessionVars>>

-----------------------------------------------------------------------------
(* The end of a session *)

Down == at' = "down" /\ rec' = None /\ results' = Nothing /\ sel' = {} /\ todo' = {} /\ open' = {}

\* What Summarize counts: the memory of the session, or the whole table.
Counted == IF storage = "json" THEN results ELSE saved

\* main.go, after Run has returned: the summary is written and never read back.
Summarize ==
    /\ at = "idle" /\ Down
    /\ UNCHANGED <<storage, reports, saved, acked, failed, ignored>>

Crash ==
    /\ at # "down" /\ Down
    /\ UNCHANGED <<storage, reports, saved, acked, failed, ignored>>

Next ==
    \/ \E s \in Selections : Start(s) \/ StartOver(s)
    \/ \E p \in Pkgs, f \in Files, r \in Results : Remember(p, f, r) \/ Upsert(p, f, r)
    \/ WritePackage \/ WriteResume \/ Summarize \/ Crash

Spec == Init /\ [][Next]_vars

-----------------------------------------------------------------------------
(* Properties *)

TypeOK ==
    /\ storage \in Storages
    /\ {results, saved} \subseteq [Pkgs -> Report]
    /\ acked \in [Pkgs -> [Files -> SUBSET Results]]
    /\ reports \in [Slugs -> Report]
    /\ at \in {"down", "idle", "package", "resume"}
    /\ rec \in Entries \cup {None}
    /\ open \subseteq todo /\ todo \subseteq sel /\ sel \subseteq Entries
    /\ at = "down" => sel = {} /\ Listed(results) = {}
    /\ ignored \subseteq Pkgs /\ failed \in BOOLEAN

\* A result for which Record has returned without an error stays in the resume
\* state until Record is called for that file again, and from then on one of the
\* results recorded since: no failed write, crash, second record or narrower later
\* session drops it (D8, F1). Two things do, in the JSON store, and end the claim
\* (Ignore clears acked): a session with resume disabled, and one that cannot read
\* the report of the package.
AckedKept == \A p \in Pkgs, f \in Files :
                acked[p][f] # {} => saved[p][f] \in acked[p][f]

\* What a session skips because it was recorded is what its summary will count, in
\* a package no session has ignored: memory, seeded package by package, and resume
\* state agree.
SummaryCovers ==
    at # "down" => \A e \in Listed(saved) : e[1] \in ignored \/ e \in Listed(Counted)

\* A crash loses the file being recorded at most (report.go: "an interrupted
\* run loses at most one file"): every other one the session has finished or
\* skipped has a result in the resume state, as long as no write has failed and
\* in packages the JSON store has never ignored, for want of a readable report or
\* with resume disabled; from then on report and resume state of a package may be
\* of different sessions.
LosesAtMostOne ==
    ~failed => \A e \in sel \ open : e[1] \in ignored \/ e \in Listed(saved) \cup {rec}

\* An acknowledged result, or a later one of that file, is counted by the summary
\* of every later session, however narrow its selection, with the two exceptions
\* of AckedKept.
SummaryHasAcked ==
    at # "down" => \A p \in Pkgs, f \in Files :
                      acked[p][f] # {} => Counted[p][f] \in acked[p][f]

\* An entry of the table never disappears. One of the resume state does not as long
\* as no write has failed and the package has not been ignored.
ResumeGrows ==
    [][storage = "sqlite" \/ ~failed =>
          \A e \in Listed(saved) : e[1] \in ignored' \/ e \in Listed(saved')]_vars
==============================================================================
