------------------------------ MODULE Selection ------------------------------
(***************************************************************************)
(* What a session works on: Discover walks the target roots                *)
(* (internal/discover/discover.go), exemptions and selectors narrow the    *)
(* packages, and main.go either renders the plan of a dry run              *)
(* (cmd/mutant/dryrun.go) or hands the queue to the scheduler, without     *)
(* what an earlier session has recorded.  A path is the sequence of its    *)
(* segments below the working directory; the walks are in their order.     *)
(***************************************************************************)
EXTENDS Integers, Sequences, FiniteSets, SequencesExt, Glob

CONSTANTS
    Dirs, Files,    \* the directories and the files of the tree, as WalkDir meets them
    RootLists,      \* the lists of mutation.target_roots
    MarkerSets,     \* the sets of directories that hold the package marker
    Settings,       \* [include, exclude: sets of patterns; tests: list of patterns;
                    \*  all, largest: BOOLEAN]
    CommandLines,   \* [exempt: set of patterns; package, file: pattern or <<>>]
    Probes,         \* names to try patterns with
    Recordings      \* sets of [package, file] an earlier session may have recorded

Paths == Seq(Segments)

\* WalkDir meets every directory and every file once; "." is never a segment of a
\* path below the working directory; a configuration has a root (config.go:365-366).
ASSUME TreeAssumption ==
    /\ Dirs \in Seq(Paths) /\ IsInjective(Dirs) /\ <<<<".">>>> \notin ToSet(Dirs)
    /\ Files \in Seq(Paths \ {<<>>}) /\ IsInjective(Files)
    /\ RootLists \subseteq Seq(Paths) \ {<<>>}
    /\ MarkerSets \subseteq SUBSET ToSet(Dirs)

ASSUME SettingsAssumption ==
    /\ \A c \in Settings : /\ c.tests \in Seq(Paths) /\ c.include \subseteq Paths
                          /\ c.all \in BOOLEAN /\ c.largest \in BOOLEAN
    /\ Probes \subseteq Paths

VARIABLES
    roots, marked, cfg,         \* the tree and the configuration
    args,       \* the command line, chosen when it is first read
    stage,      \* "packages", "files", "drop", "exempt", "select", "ready" and the ends
    root,       \* the root being walked
    order,      \* the package directories, in the order they were found
    files,      \* Package.Files of each directory
    seen,       \* seenFiles
    pkgs,       \* the list of packages, [name, files, exempt]
    recorded,   \* the resume state
    queue       \* what the scheduler is given: [name, pending, skipped]

inputs == <<roots, marked, cfg>>
vars == <<inputs, args, stage, root, order, files, seen, pkgs, recorded, queue>>

Init ==
    /\ roots \in RootLists /\ marked \in MarkerSets
    /\ cfg \in Settings /\ args = [exempt |-> {}, package |-> <<>>, file |-> <<>>]
    /\ stage = "packages" /\ root = 1
    /\ order = <<>> /\ files = [d \in ToSet(Dirs) |-> <<>>] /\ seen = {}
    /\ pkgs = <<>> /\ recorded = {} /\ queue = <<>>

-----------------------------------------------------------------------------
(* Slices: the elements at some positions, sorted; the elements of a set, in   *)
(* the order they had                                                          *)

\* The elements of s at the positions `at`, in the strict order `before` of them.
InOrder(s, at, before) ==
    [k \in 1 .. Cardinality(at) |->
        s[CHOOSE i \in at : Cardinality({j \in at : <<j, i>> \in before}) = k - 1]]

Kept(s, set) ==
    LET at == {i \in DOMAIN s : s[i] \in set}
    IN  InOrder(s, at, {p \in at \X at : p[1] < p[2]})

-----------------------------------------------------------------------------
(* Discover *)

\* pkgName: the path of the package below the working directory.
PkgName(d) == IF d = <<>> THEN <<<<".">>>> ELSE d

\* innermostPackage: the nearest known package above the file, up to the root.
Above(ds, f) == CHOOSE d \in ds : \A e \in ds : Len(e) <= Len(d)
Packages(r, f) == {d \in ToSet(order) : IsPrefix(r, d) /\ IsPrefix(d, Front(f))}

Rel(d, f) == SubSeq(f, Len(d) + 1, Len(f))

\* TestsFor: the first mapping that matches; 0 if none does and the fallback is
\* to skip the file.
TestsFor(rel) ==
    LET hits == {i \in DOMAIN cfg.tests : MatchGlob[cfg.tests[i]][rel]} IN
    IF hits # {} THEN CHOOSE i \in hits : \A j \in hits : i <= j
    ELSE IF cfg.all THEN Len(cfg.tests) + 1 ELSE 0

\* The walk of the files of a root: those that d gets.
Claimed_Again(r, d) ==                                                   \* mutant
    Kept(Files, {f \in ToSet(Files) :
        /\ IsPrefix(r, f) /\ Packages(r, f) # {} /\ Above(Packages(r, f), f) = d
        /\ MatchAny(cfg.include, Rel(d, f)) /\ ~MatchAny(cfg.exclude, Rel(d, f))})
Claimed(r, d) ==
    Kept(Files, {f \in ToSet(Files) :
        /\ IsPrefix(r, f) /\ f \notin seen
        /\ Packages(r, f) # {} /\ Above(Packages(r, f), f) = d
        /\ MatchAny(cfg.include, Rel(d, f)) /\ ~MatchAny(cfg.exclude, Rel(d, f))})

File(d, f) == [rel |-> Rel(d, f), tests |-> TestsFor(Rel(d, f))]
Run(f) == f.tests # 0

WalkPackages ==
    /\ stage = "packages" /\ stage' = "files"
    /\ order' = order \o Kept(Dirs, {d \in marked : IsPrefix(roots[root], d) /\ d \notin ToSet(order)})
    /\ UNCHANGED <<inputs, args, root, files, seen, pkgs, recorded, queue>>

WalkFiles ==
    /\ stage = "files"
    /\ LET new == [d \in DOMAIN files |-> Claimed(roots[root], d)] IN
       /\ files' = [d \in DOMAIN files |->
                       files[d] \o [i \in DOMAIN new[d] |-> File(d, new[d][i])]]
       /\ seen' = seen \cup UNION {ToSet(new[d]) : d \in DOMAIN files}
    /\ IF root < Len(roots)
       THEN stage' = "packages" /\ root' = root + 1
       ELSE stage' = "drop" /\ UNCHANGED root
    /\ UNCHANGED <<inputs, args, order, pkgs, recorded, queue>>

\* sort.SliceStable by the number of runnable files, when the order asks for it.
LargestFirst(q) ==
    LET size(i) == Cardinality({k \in DOMAIN q[i].files : Run(q[i].files[k])})
    IN  InOrder(q, DOMAIN q, {p \in (DOMAIN q) \X (DOMAIN q) :
            size(p[1]) > size(p[2]) \/ (size(p[1]) = size(p[2]) /\ p[1] < p[2])})

WithFiles(ps) == Kept(ps, {p \in ToSet(ps) : p.files # <<>>})

\* Packages without files are dropped; a session needs one that is left.
Drop ==
    /\ stage = "drop"
    /\ LET found == [i \in DOMAIN order |->
                        [name |-> PkgName(order[i]), files |-> files[order[i]], exempt |-> FALSE]]
           kept == WithFiles(found)
       IN  /\ pkgs' = IF cfg.largest THEN LargestFirst(kept) ELSE kept
           /\ stage' = IF kept = <<>> THEN "error" ELSE "exempt"
    /\ UNCHANGED <<inputs, args, root, order, files, seen, recorded, queue>>

-----------------------------------------------------------------------------
(* MarkExempt and Select *)

MarkExempt ==
    /\ stage = "exempt" /\ stage' = "select"
    /\ args' \in CommandLines
    /\ pkgs' = [i \in DOMAIN pkgs |->
                   [pkgs[i] EXCEPT !.exempt = MatchAny(args'.exempt, pkgs[i].name)]]
    /\ UNCHANGED <<inputs, root, order, files, seen, recorded, queue>>

ByPackage(ps) ==
    IF args.package = <<>> THEN ps
    ELSE Kept(ps, {p \in ToSet(ps) : MatchGlob[args.package][p.name]})

\* A file selector speaks of "package/file".
ByFile_Relative(ps) ==                                                   \* mutant
    IF args.file = <<>> THEN ps
    ELSE WithFiles([i \in DOMAIN ps |-> [ps[i] EXCEPT !.files =
                       Kept(@, {f \in ToSet(@) : MatchGlob[args.file][f.rel]})]])
ByFile(ps) ==
    IF args.file = <<>> THEN ps
    ELSE WithFiles([i \in DOMAIN ps |-> [ps[i] EXCEPT !.files =
                       Kept(@, {f \in ToSet(@) : MatchGlob[args.file][ps[i].name \o f.rel]})]])

Select ==
    /\ stage = "select"
    /\ LET kept == ByFile(ByPackage(pkgs)) IN
       IF kept = <<>> THEN stage' = "error" /\ UNCHANGED pkgs
                      ELSE stage' = "ready" /\ pkgs' = kept
    /\ UNCHANGED <<inputs, args, root, order, files, seen, recorded, queue>>

-----------------------------------------------------------------------------
(* The dry run, or the session *)

IsRecorded(p, f, done) == [package |-> p.name, file |-> f.rel] \in done

\* renderPlan: how a file is shown.
Shown_RecordedFirst(p, f, done) ==                                             \* mutant
    IF p.exempt THEN "exempt"
    ELSE IF IsRecorded(p, f, done) THEN "recorded"
    ELSE IF Run(f) THEN "runs" ELSE "unmapped"
Shown(p, f, done) ==
    IF p.exempt THEN "exempt"
    ELSE IF ~Run(f) THEN "unmapped"
    ELSE IF IsRecorded(p, f, done) THEN "recorded" ELSE "runs"

\* What scheduler.New and SkipDone make of a package.
Work(p, done) == [name |-> p.name,
            pending |-> Kept(p.files, {f \in ToSet(p.files) : Run(f) /\ ~IsRecorded(p, f, done)}),
            skipped |-> Kept(p.files, {f \in ToSet(p.files) : ~Run(f)})]

\* The resume state is read, in a dry run by ReadResume.
DryRun ==
    /\ stage = "ready" /\ stage' = "planned"
    /\ recorded' \in Recordings
    /\ UNCHANGED <<inputs, args, root, order, files, seen, pkgs, queue>>

Given(ps) == Kept(ps, {p \in ToSet(ps) : ~p.exempt})

Start ==
    /\ stage = "ready"
    /\ \E done \in Recordings :
          /\ recorded' = done
          /\ queue' = [i \in DOMAIN Given(pkgs) |-> Work(Given(pkgs)[i], done)]
    /\ stage' = IF Given(pkgs) = <<>> THEN "error" ELSE "started"
    /\ UNCHANGED <<inputs, args, root, order, files, seen, pkgs>>

Ended == stage \in {"error", "planned", "started"} /\ UNCHANGED vars

Next == WalkPackages \/ WalkFiles \/ Drop \/ MarkExempt \/ Select \/ DryRun \/ Start \/ Ended

Spec == Init /\ [][Next]_vars

-----------------------------------------------------------------------------
(* Properties *)

\* What a pattern means, without the matcher's search: the pattern can be cut
\* into parts and the name into as many, each part standing for its piece.
IsRange(body, i) == i + 2 <= Len(body) /\ body[i + 1] = "-"

\* Where the members of a class begin: the first at 1, each other after the one
\* before it, which is a range x-y wherever it can be one.
Members(body) ==
    {i \in DOMAIN body : \A starts \in SUBSET DOMAIN body :
        (/\ 1 \in starts
         /\ \A j \in starts : LET next == IF IsRange(body, j) THEN j + 3 ELSE j + 1
                             IN  next \in DOMAIN body => next \in starts)
        => i \in starts}

ClassHas(body, c) ==
    \E i \in Members(body) :
        IF IsRange(body, i)
        THEN \E k \in Byte(body[i]) .. Byte(body[i + 2]) : c = Alphabet[k]
        ELSE c = body[i]

StandsFor(part, piece) ==
    \/ part = <<"*">>
    \/ part = <<"?">> /\ Len(piece) = 1
    \/ \E c \in Chars : piece = <<c>> /\ part = <<"\\", c>>
    \/ \E c \in Chars \ {"*", "?", "[", "\\"} : piece = <<c>> /\ part = <<c>>
    \/ \E c \in Chars :
          /\ piece = <<c>> /\ Len(part) > 2 /\ part[1] = "[" /\ part[Len(part)] = "]"
          /\ LET neg == Negates(part[2])
                 body == SubSeq(part, IF neg THEN 3 ELSE 2, Len(part) - 1)
             IN  body # <<>> /\ "]" \notin ToSet(From(body, 2)) /\ neg # ClassHas(body, c)

SegmentMeans[p \in Segments] == [s \in Segments |->
    \/ p = <<>> /\ s = <<>>
    \/ \E i \in 1 .. Len(p), j \in 0 .. Len(s) :
          /\ StandsFor(SubSeq(p, 1, i), SubSeq(s, 1, j))
          /\ SegmentMeans[From(p, i + 1)][From(s, j + 1)]]

GlobMeans(pat, name) ==
    \E cut \in [0 .. Len(pat) -> 0 .. Len(name)] :
        /\ cut[0] = 0 /\ cut[Len(pat)] = Len(name)
        /\ \A i \in DOMAIN pat :
              IF pat[i] = <<"*", "*">> THEN cut[i - 1] <= cut[i]
              ELSE cut[i] = cut[i - 1] + 1 /\ SegmentMeans[pat[i]][name[cut[i]]]

\* The matcher finds a match exactly when there is one: no backtracking over
\* stars, classes or "**" misses one or accepts too much (glob.go:5-9).
GlobMeaning ==
    stage = "packages" /\ root = 1 =>
        \A pat \in cfg.include, name \in Probes :
            MatchGlob[pat][name] = GlobMeans(pat, name)

\* Whatever the order and overlap of the target roots, every file belongs to
\* its innermost package below any root, once, if the patterns want it there
\* (discover.go:60-63, F4).
DiscoverMeaning ==
    stage = "drop" =>
        LET known == {d \in marked : \E i \in DOMAIN roots : IsPrefix(roots[i], d)}
            innermost(f) == {d \in known : /\ IsPrefix(d, Front(f))
                                           /\ \A e \in known : IsPrefix(e, Front(f)) => IsPrefix(e, d)}
            wanted(rel) == MatchAny(cfg.include, rel) /\ ~MatchAny(cfg.exclude, rel)
        IN  \A d \in ToSet(Dirs) :
              LET rels == {Rel(d, f) : f \in {g \in ToSet(Files) : d \in innermost(g)}} IN
              /\ {files[d][i].rel : i \in DOMAIN files[d]} = {r \in rels : wanted(r)}
              /\ Len(files[d]) = Cardinality({r \in rels : wanted(r)})

\* A package that is exempt or not selected never reaches the scheduler, and
\* neither does a file that is recorded or not selected; everything else does,
\* with the tests of its first mapping (discover.go:44-46, 173-178; D13).
QueueMeaning ==
    stage = "started" =>
        LET wanted(d, rel) ==
                /\ ~MatchAny(args.exempt, PkgName(d))
                /\ args.package # <<>> => MatchGlob[args.package][PkgName(d)]
                /\ args.file # <<>> => MatchGlob[args.file][PkgName(d) \o rel]
            hits(rel) == {i \in DOMAIN cfg.tests : MatchGlob[cfg.tests[i]][rel]}
            given(d) == {f \in ToSet(files[d]) : wanted(d, f.rel)}
            runs(d) == {f \in given(d) :
                          /\ cfg.all \/ hits(f.rel) # {}
                          /\ [package |-> PkgName(d), file |-> f.rel] \notin recorded}
            skips(d) == {f \in given(d) : ~cfg.all /\ hits(f.rel) = {}}
            at(d) == {i \in DOMAIN queue : queue[i].name = PkgName(d)}
        IN  /\ \A d \in ToSet(Dirs) :
                /\ runs(d) = UNION {ToSet(queue[i].pending) : i \in at(d)}
                /\ skips(d) = UNION {ToSet(queue[i].skipped) : i \in at(d)}
                /\ \A f \in runs(d) : hits(f.rel) # {} => f.tests \in hits(f.rel)
                                        /\ \A i \in hits(f.rel) : f.tests <= i
            /\ Len(queue) = Cardinality({queue[i].name : i \in DOMAIN queue})

\* The plan of a dry run is what the session would do with the same resume
\* state: the files shown without a remark are its queue, in order, and those
\* shown as skipped for want of a mapping its skip records.
PlanIsSession ==
    stage = "planned" =>
        LET given == Given(pkgs)
            shown(p, as) == Kept(p.files, {f \in ToSet(p.files) : Shown(p, f, recorded) = as})
        IN  /\ \A i \in DOMAIN given :
                /\ shown(given[i], "runs") = Work(given[i], recorded).pending
                /\ shown(given[i], "unmapped") = Work(given[i], recorded).skipped
            /\ \A i \in DOMAIN pkgs : pkgs[i] \in ToSet(given)
                                       \/ shown(pkgs[i], "exempt") = pkgs[i].files
==============================================================================
