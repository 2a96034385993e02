--------------------------- MODULE ResultStoreProofs ---------------------------
(***************************************************************************)
(* Proofs about module ResultStore, for any packages, files and results,   *)
(* any selections, both storages, failing reads and writes, and crashes.   *)
(* The JSON store keeps a result only where no two packages share a report *)
(* file.                                                                   *)
(***************************************************************************)
EXTENDS ResultStore, TLAPS

\* Every package has a report file of its own (jsonstore.go: slug).
SlugsDiffer == \A p, q \in Pkgs : Slug[p] = Slug[q] => p = q

Json == storage = "json"
Maps == [Pkgs -> Report]
AckMaps == [Pkgs -> [Files -> SUBSET Results]]

\* Each variable's type; a session that is down holds nothing.
Typed ==
    /\ storage \in Storages
    /\ results \in Maps /\ saved \in Maps /\ acked \in AckMaps
    /\ reports \in [Slugs -> Report]
    /\ at \in {"down", "idle", "package", "resume"}
    /\ rec \in Entries \cup {None}
    /\ sel \subseteq Entries /\ todo \subseteq sel /\ open \subseteq todo
    /\ failed \in BOOLEAN /\ ignored \subseteq Pkgs
DownOK == at = "down" => sel = {} /\ \A p \in Pkgs, f \in Files : results[p][f] = None

\* A call of Record under way is the JSON store's; its result is in the memory.
CallOK ==
    at \in {"package", "resume"} =>
        /\ Json /\ rec \in Entries
        /\ results[rec[1]][rec[2]] # None
        /\ at = "resume" => reports[Slug[rec[1]]] = results[rec[1]]

\* What has been acknowledged, or was recorded since, is in the resume state, and
\* for the JSON store in the package report and in the memory.
KeptOK ==
    /\ AckedKept
    /\ Json => \A p \in Pkgs, f \in Files :
          acked[p][f] # {} =>
              /\ reports[Slug[p]][f] \in acked[p][f]
              /\ at # "down" => results[p][f] \in acked[p][f]

\* Until a write fails, and in packages that have not been ignored, resume state,
\* memory and reports of the JSON store hold results for the same files, but for
\* the file being recorded.
AgreeOK ==
    Json /\ ~failed => \A p \in Pkgs \ ignored, f \in Files :
        /\ saved[p][f] # None => reports[Slug[p]][f] # None
        /\ saved[p][f] # None /\ at # "down" => results[p][f] # None
        /\ results[p][f] # None /\ ~(at = "package" /\ rec = <<p, f>>) => reports[Slug[p]][f] # None

\* What this session need not run any more has a saved result.
DoneOK ==
    ~failed => \A p \in Pkgs \ ignored, f \in Files :
        <<p, f>> \in sel \ open =>
            saved[p][f] # None \/ (at \in {"package", "resume"} /\ rec = <<p, f>>)

IInv == Typed /\ DownOK /\ CallOK /\ KeptOK /\ AgreeOK /\ DoneOK

\* TypeOK, part by part.
LEMMA TypeParts == Typed /\ DownOK => TypeOK
  BY DEF Typed, DownOK, TypeOK, Maps, AckMaps, Listed, Entries

\* Storing a result for one file changes that entry and no other.
Set(m, p, f, r) == [m EXCEPT ![p][f] = r]

LEMMA SetEntry ==
    \A m \in Maps, p \in Pkgs, f \in Files, r \in Results \cup {None} :
        /\ Set(m, p, f, r) \in Maps
        /\ \A q \in Pkgs, g \in Files : Set(m, p, f, r)[q][g] = IF q = p /\ g = f THEN r ELSE m[q][g]
<1> SUFFICES ASSUME NEW m \in Maps, NEW p \in Pkgs, NEW f \in Files, NEW r \in Results \cup {None}
             PROVE  /\ Set(m, p, f, r) \in Maps
                    /\ \A q \in Pkgs, g \in Files :
                          Set(m, p, f, r)[q][g] = IF q = p /\ g = f THEN r ELSE m[q][g]
  OBVIOUS
<1>1. [m[p] EXCEPT ![f] = r] \in Report
  BY DEF Maps, Report
<1>2. Set(m, p, f, r) = [m EXCEPT ![p] = [m[p] EXCEPT ![f] = r]]
  BY DEF Set
<1> QED
  BY <1>1, <1>2 DEF Maps, Report

\* So it is for what is acknowledged.
LEMMA SetAcked ==
    \A m \in AckMaps, p \in Pkgs, f \in Files, rs \in SUBSET Results :
        /\ Set(m, p, f, rs) \in AckMaps
        /\ \A q \in Pkgs, g \in Files : Set(m, p, f, rs)[q][g] = IF q = p /\ g = f THEN rs ELSE m[q][g]
<1> SUFFICES ASSUME NEW m \in AckMaps, NEW p \in Pkgs, NEW f \in Files, NEW rs \in SUBSET Results
             PROVE  /\ Set(m, p, f, rs) \in AckMaps
                    /\ \A q \in Pkgs, g \in Files :
                          Set(m, p, f, rs)[q][g] = IF q = p /\ g = f THEN rs ELSE m[q][g]
  OBVIOUS
<1>1. [m[p] EXCEPT ![f] = rs] \in [Files -> SUBSET Results]
  BY DEF AckMaps
<1>2. Set(m, p, f, rs) = [m EXCEPT ![p] = [m[p] EXCEPT ![f] = rs]]
  BY DEF Set
<1> QED
  BY <1>1, <1>2 DEF AckMaps

\* The empty report and the empty memory.
LEMMA NothingTyped ==
    Empty \in Report /\ Nothing \in Maps /\ \A p \in Pkgs, f \in Files : Nothing[p][f] = None
  BY DEF Empty, Nothing, Report, Maps

\* The entry of the call of Record under way.
LEMMA RecEntry == rec \in Entries => rec[1] \in Pkgs /\ rec[2] \in Files /\ rec = <<rec[1], rec[2]>>
  BY DEF Entries

\* A session that ignores packages gives up what was acknowledged for them, and
\* no more.
LEMMA IgnoreTyped ==
    ASSUME Typed, NEW lost \in SUBSET Pkgs, Ignore(lost)
    PROVE  /\ acked' \in AckMaps
           /\ \A p \in Pkgs, f \in Files : acked'[p][f] = IF p \in lost THEN {} ELSE acked[p][f]
<1>1. acked' = [p \in Pkgs |-> [f \in Files |-> IF p \in lost THEN {} ELSE acked[p][f]]]
  BY DEF Ignore
<1>2. \A p \in Pkgs, f \in Files : acked[p][f] \in SUBSET Results
  BY DEF Typed, AckMaps
<1>3. ASSUME NEW p \in Pkgs
      PROVE  [f \in Files |-> IF p \in lost THEN {} ELSE acked[p][f]] \in [Files -> SUBSET Results]
  BY <1>2
<1> QED
  BY <1>1, <1>3 DEF AckMaps

\* What Start seeds the memory of the JSON store with (jsonstore.go: Resume).
LEMMA SeededTyped ==
    ASSUME Typed, NEW lost
    PROVE  /\ [p \in Pkgs |-> Seeded(p, lost)] \in Maps
           /\ \A p \in Pkgs, f \in Files :
                 /\ saved[p][f] # None /\ p \notin lost => Seeded(p, lost)[f] = reports[Slug[p]][f]
                 /\ Seeded(p, lost)[f] \in {None, reports[Slug[p]][f]}
<1>1. \A p \in Pkgs : Slug[p] \in Slugs /\ reports[Slug[p]] \in Report
  BY DEF Typed, Slugs
<1>2. \A p \in Pkgs, f \in Files : saved[p][f] # None => saved[p] # Empty
  BY DEF Empty
<1> QED
  BY <1>1, <1>2, NothingTyped DEF Seeded, Maps, Empty

\* A session of the JSON store that starts, with resume enabled: memory from the
\* reports that can be read.
LEMMA StartJsonStep ==
    ASSUME SlugsDiffer, IInv, NEW s \in Selections, Start(s), Json
    PROVE  IInv'
<1> USE StoreAssumption DEF IInv
<1>1. PICK lost \in SUBSET Pkgs : results' = [p \in Pkgs |-> Seeded(p, lost)] /\ Ignore(lost)
  BY DEF Start, Json, Unreadable
<1> DEFINE seed == [p \in Pkgs |-> Seeded(p, lost)]
<1>2. seed \in Maps /\ \A p \in Pkgs, f \in Files :
         /\ saved[p][f] # None /\ p \notin lost => seed[p][f] = reports[Slug[p]][f]
         /\ seed[p][f] \in {None, reports[Slug[p]][f]}
  BY SeededTyped
<1>3. results' = seed
  BY <1>1
<1> HIDE DEF seed
<1>4. /\ acked' \in AckMaps /\ ignored' = ignored \cup lost
      /\ \A p \in Pkgs, f \in Files : acked'[p][f] = IF p \in lost THEN {} ELSE acked[p][f]
  BY <1>1, IgnoreTyped DEF Ignore
<1>5. UNCHANGED <<storage, reports, saved, rec, failed>> /\ at = "down" /\ at' = "idle"
      /\ sel' = s /\ todo' = s \ Listed(saved) /\ open' = s \ Listed(saved)
  BY DEF Start
<1>6. Typed' /\ DownOK' /\ CallOK'
  BY <1>2, <1>3, <1>4, <1>5 DEF Typed, DownOK, CallOK, Entries
<1>7. KeptOK'
  <2> SUFFICES ASSUME NEW p \in Pkgs, NEW f \in Files, acked'[p][f] # {}
               PROVE  /\ saved[p][f] \in acked'[p][f] /\ reports[Slug[p]][f] \in acked'[p][f]
                      /\ seed[p][f] \in acked'[p][f]
    BY <1>3, <1>5 DEF KeptOK, AckedKept
  <2>1. p \notin lost /\ acked'[p][f] = acked[p][f]
    BY <1>4
  <2>2. saved[p][f] \in acked[p][f] /\ reports[Slug[p]][f] \in acked[p][f]
    BY <2>1 DEF KeptOK, AckedKept
  <2>3. saved[p][f] # None
    BY <2>2 DEF Typed, AckMaps
  <2> QED
    BY <1>2, <2>1, <2>2, <2>3
<1>8. AgreeOK'
  BY <1>2, <1>3, <1>4, <1>5 DEF AgreeOK, Json
<1>9. DoneOK'
  BY <1>4, <1>5 DEF DoneOK, Listed, Entries
<1> QED
  BY <1>6, <1>7, <1>8, <1>9

\* One of the SQLite store: nothing to seed.
LEMMA StartSqliteStep == ASSUME IInv, NEW s \in Selections, Start(s), ~Json PROVE IInv'
<1> USE StoreAssumption DEF IInv
<1>1. UNCHANGED <<storage, results, reports, saved, rec, failed, ignored, acked>> /\ at = "down" /\ at' = "idle"
      /\ sel' = s /\ todo' = s \ Listed(saved) /\ open' = s \ Listed(saved)
  BY DEF Start, Json
<1>2. Typed' /\ DownOK' /\ CallOK'
  BY <1>1 DEF Typed, DownOK, CallOK, Entries
<1>3. KeptOK'
  BY <1>1 DEF KeptOK, AckedKept, Json
<1>4. AgreeOK' /\ DoneOK'
  BY <1>1 DEF AgreeOK, DoneOK, Json, Listed, Entries
<1> QED
  BY <1>2, <1>3, <1>4

\* A session that starts with resume disabled: nothing is read, all is run.
LEMMA StartOverStep == ASSUME IInv, NEW s \in Selections, StartOver(s) PROVE IInv'
<1> USE StoreAssumption DEF IInv
<1> DEFINE lost == IF Json THEN Pkgs ELSE {}
<1>1. UNCHANGED <<storage, results, reports, saved, rec, failed>> /\ at = "down" /\ at' = "idle"
      /\ sel' = s /\ todo' = s /\ open' = s /\ Ignore(lost)
  BY DEF StartOver, Json
<1>2. lost \in SUBSET Pkgs
  OBVIOUS
<1>3. /\ acked' \in AckMaps /\ ignored' = ignored \cup lost
      /\ \A p \in Pkgs, f \in Files : acked'[p][f] = IF p \in lost THEN {} ELSE acked[p][f]
  BY <1>1, <1>2, IgnoreTyped DEF Ignore
<1>4. Typed' /\ DownOK' /\ CallOK'
  BY <1>1, <1>2, <1>3 DEF Typed, DownOK, CallOK, Entries
<1>5. KeptOK'
  BY <1>1, <1>3 DEF KeptOK, AckedKept, Json
<1>6. AgreeOK' /\ DoneOK'
  BY <1>1, <1>3 DEF AgreeOK, DoneOK, Json
<1> QED
  BY <1>4, <1>5, <1>6

\* Record of the JSON store begins: the result is in the memory.
LEMMA RememberStep ==
    ASSUME IInv, NEW p \in Pkgs, NEW f \in Files, NEW r \in Results, Remember(p, f, r)
    PROVE  IInv'
<1> USE StoreAssumption DEF IInv
<1>1. results' \in Maps /\ \A q \in Pkgs, g \in Files :
         results'[q][g] = IF q = p /\ g = f THEN r ELSE results[q][g]
  <2>1. results' = Set(results, p, f, r) /\ results \in Maps /\ r \in Results \cup {None}
    BY DEF Remember, Set, Typed
  <2> QED
    BY <2>1, SetEntry
<1>2. /\ Json /\ at = "idle" /\ at' = "package" /\ <<p, f>> \in todo /\ rec' = <<p, f>>
      /\ open' = open \ {<<p, f>>}
      /\ UNCHANGED <<storage, reports, saved, sel, todo, failed, ignored>>
  BY DEF Remember, Json, sessionVars
<1>3. r # None
  OBVIOUS
<1>ack. acked' \in AckMaps /\ \A q \in Pkgs, g \in Files :
         /\ acked'[q][g] = {} <=> acked[q][g] = {}
         /\ acked[q][g] \subseteq acked'[q][g]
         /\ acked[q][g] # {} /\ q = p /\ g = f => r \in acked'[q][g]
  <2> DEFINE rs == IF acked[p][f] = {} THEN {} ELSE acked[p][f] \cup {r}
  <2>1. acked' = Set(acked, p, f, rs) /\ acked \in AckMaps
    BY DEF Remember, Set, Typed
  <2>2. rs \in SUBSET Results
    BY DEF Typed, AckMaps
  <2>3. acked' \in AckMaps /\ \A q \in Pkgs, g \in Files :
           acked'[q][g] = IF q = p /\ g = f THEN rs ELSE acked[q][g]
    BY <2>1, <2>2, SetAcked
  <2> QED
    BY <2>3
<1>4. Typed' /\ DownOK'
  BY <1>1, <1>2, <1>ack DEF Typed, DownOK, Entries
<1>5. CallOK'
  BY <1>1, <1>2, <1>3 DEF CallOK, Json, Entries
<1>6. KeptOK'
  <2> SUFFICES ASSUME NEW q \in Pkgs, NEW g \in Files, acked'[q][g] # {}
               PROVE  /\ saved[q][g] \in acked'[q][g] /\ reports[Slug[q]][g] \in acked'[q][g]
                      /\ results'[q][g] \in acked'[q][g]
    BY <1>2 DEF KeptOK, AckedKept
  <2>1. acked[q][g] # {} /\ acked[q][g] \subseteq acked'[q][g]
    BY <1>ack
  <2>2. saved[q][g] \in acked[q][g] /\ reports[Slug[q]][g] \in acked[q][g] /\ results[q][g] \in acked[q][g]
    BY <1>2, <2>1 DEF KeptOK, AckedKept
  <2> QED
    BY <1>1, <1>ack, <2>1, <2>2
<1>7. AgreeOK'
  BY <1>1, <1>2, <1>3 DEF AgreeOK, Json
<1>8. DoneOK'
  <2> SUFFICES ASSUME ~failed, NEW q \in Pkgs \ ignored, NEW g \in Files, <<q, g>> \in sel \ open'
               PROVE  saved[q][g] # None \/ <<p, f>> = <<q, g>>
    BY <1>2 DEF DoneOK
  <2>1. <<q, g>> \in sel \ open \/ <<q, g>> = <<p, f>>
    BY <1>2
  <2> QED
    BY <1>2, <2>1 DEF DoneOK
<1> QED
  BY <1>4, <1>5, <1>6, <1>7, <1>8

\* The report of the package is written, or the write fails.
LEMMA WritePackageStep == ASSUME SlugsDiffer, IInv, WritePackage PROVE IInv'
<1> USE StoreAssumption DEF IInv
<1>1. at = "package" /\ UNCHANGED <<storage, results, saved, sel, todo, ignored, open, acked>> /\ Json
      /\ rec \in Entries
  BY DEF WritePackage, sessionVars, CallOK
<1>2. rec[1] \in Pkgs /\ rec[2] \in Files /\ rec = <<rec[1], rec[2]>>
  BY <1>1, RecEntry
<1>3. CASE at' = "resume" /\ failed' = failed /\ rec' = rec /\ reports' = [reports EXCEPT ![Slug[rec[1]]] = results[rec[1]]]
  <2>1. reports' \in [Slugs -> Report]
    BY <1>2, <1>3 DEF Typed, Slugs, Maps
  <2>2. \A p \in Pkgs : reports'[Slug[p]] = IF p = rec[1] THEN results[p] ELSE reports[Slug[p]]
    BY <1>2, <1>3 DEF Typed, Slugs, SlugsDiffer
  <2>3. Typed' /\ DownOK' /\ CallOK'
    BY <1>1, <1>2, <1>3, <2>1, <2>2 DEF Typed, DownOK, CallOK, Json
  <2>4. KeptOK'
    BY <1>1, <1>3, <2>2 DEF KeptOK, AckedKept, Json
  <2>5. AgreeOK'
    BY <1>1, <1>2, <1>3, <2>2 DEF AgreeOK, Json
  <2>6. DoneOK'
    BY <1>1, <1>3 DEF DoneOK, Json
  <2> QED
    BY <2>3, <2>4, <2>5, <2>6
<1>4. CASE Fail /\ UNCHANGED reports
  <2>1. at' = "idle" /\ rec' = None /\ failed' = TRUE
    BY <1>4 DEF Fail, Return
  <2>2. Typed' /\ DownOK' /\ CallOK'
    BY <1>1, <1>4, <2>1 DEF Typed, DownOK, CallOK
  <2>3. KeptOK'
    BY <1>1, <1>4, <2>1 DEF KeptOK, AckedKept, Json
  <2>4. AgreeOK' /\ DoneOK'
    BY <2>1 DEF AgreeOK, DoneOK
  <2> QED
    BY <2>2, <2>3, <2>4
<1> QED
  BY <1>3, <1>4 DEF WritePackage

\* The resume state is written from the memory and the result acknowledged, or
\* the write fails.
LEMMA WriteResumeStep == ASSUME IInv, WriteResume PROVE IInv'
<1> USE StoreAssumption DEF IInv
<1>1. at = "resume" /\ at' = "idle" /\ Json
      /\ UNCHANGED <<storage, results, reports, sel, todo, ignored, open>> /\ rec \in Entries /\ rec' = None
  BY DEF WriteResume, Fail, Return, sessionVars, CallOK
<1>2. rec[1] \in Pkgs /\ rec[2] \in Files /\ rec = <<rec[1], rec[2]>>
  BY <1>1, RecEntry
<1>3. CASE saved' = results /\ Acknowledge(rec, results[rec[1]][rec[2]]) /\ failed' = failed
  <2>1. {results[rec[1]][rec[2]]} \in SUBSET Results
    BY <1>1, <1>2 DEF Typed, Maps, Report, CallOK
  <2>2. acked' \in AckMaps /\ \A p \in Pkgs, f \in Files :
           acked'[p][f] = IF p = rec[1] /\ f = rec[2] THEN {results[p][f]} ELSE acked[p][f]
    <3>1. acked' = Set(acked, rec[1], rec[2], {results[rec[1]][rec[2]]}) /\ acked \in AckMaps
      BY <1>3 DEF Acknowledge, Set, Typed
    <3>2. acked' \in AckMaps /\ \A p \in Pkgs, f \in Files :
             acked'[p][f] = IF p = rec[1] /\ f = rec[2] THEN {results[rec[1]][rec[2]]} ELSE acked[p][f]
      BY <1>2, <2>1, <3>1, SetAcked
    <3> QED
      BY <3>2
  <2>3. Typed' /\ DownOK' /\ CallOK'
    BY <1>1, <1>3, <2>2 DEF Typed, DownOK, CallOK
  <2>4. KeptOK'
    <3>1. ASSUME NEW p \in Pkgs, NEW f \in Files, acked'[p][f] # {}
          PROVE  reports'[Slug[p]][f] \in acked'[p][f] /\ results'[p][f] \in acked'[p][f]
      <4>1. CASE p = rec[1] /\ f = rec[2]
        BY <1>1, <1>2, <2>2, <3>1, <4>1 DEF CallOK
      <4>2. CASE ~(p = rec[1] /\ f = rec[2])
        BY <1>1, <2>2, <3>1, <4>2 DEF KeptOK
      <4> QED
        BY <4>1, <4>2
    <3> QED
      BY <1>1, <1>3, <3>1 DEF KeptOK, AckedKept
  <2>5. AgreeOK'
    BY <1>1, <1>3 DEF AgreeOK, Json
  <2>6. DoneOK'
    <3> SUFFICES ASSUME ~failed, NEW p \in Pkgs \ ignored, NEW f \in Files, <<p, f>> \in sel \ open
                 PROVE  results[p][f] # None
      BY <1>1, <1>3 DEF DoneOK
    <3>1. saved[p][f] # None \/ rec = <<p, f>>
      BY <1>1 DEF DoneOK
    <3> QED
      BY <1>1, <1>2, <3>1 DEF AgreeOK, CallOK
  <2> QED
    BY <2>3, <2>4, <2>5, <2>6
<1>4. CASE Fail /\ UNCHANGED <<saved, acked>>
  <2>1. failed' = TRUE
    BY <1>4 DEF Fail
  <2>2. Typed' /\ DownOK' /\ CallOK'
    BY <1>1, <1>4, <2>1 DEF Typed, DownOK, CallOK
  <2>3. KeptOK'
    BY <1>1, <1>4 DEF KeptOK, AckedKept, Json
  <2>4. AgreeOK' /\ DoneOK'
    BY <2>1 DEF AgreeOK, DoneOK
  <2> QED
    BY <2>2, <2>3, <2>4
<1> QED
  BY <1>3, <1>4 DEF WriteResume, ResumeState

\* Record of the SQLite store: one statement, or none.
LEMMA UpsertStep ==
    ASSUME IInv, NEW p \in Pkgs, NEW f \in Files, NEW r \in Results, Upsert(p, f, r)
    PROVE  IInv'
<1> USE StoreAssumption DEF IInv
<1>1. /\ ~Json /\ at = "idle" /\ <<p, f>> \in todo /\ open' = open \ {<<p, f>>}
      /\ UNCHANGED <<storage, results, reports, sel, todo, ignored>> /\ at' = "idle" /\ rec' = None
  BY DEF Upsert, Fail, Return, Json, sessionVars
<1>2. CASE saved' = [saved EXCEPT ![p][f] = r] /\ Acknowledge(<<p, f>>, r) /\ UNCHANGED failed
  <2>1. acked' = Set(acked, p, f, {r}) /\ saved' = Set(saved, p, f, r)
    BY <1>2 DEF Acknowledge, Set
  <2>2. /\ saved' \in Maps /\ acked' \in AckMaps
        /\ \A q \in Pkgs, g \in Files :
              /\ saved'[q][g] = IF q = p /\ g = f THEN r ELSE saved[q][g]
              /\ acked'[q][g] = IF q = p /\ g = f THEN {r} ELSE acked[q][g]
    <3>1. saved \in Maps /\ acked \in AckMaps /\ r \in Results \cup {None} /\ {r} \in SUBSET Results
      BY DEF Typed
    <3>2. saved' \in Maps /\ \A q \in Pkgs, g \in Files :
             saved'[q][g] = IF q = p /\ g = f THEN r ELSE saved[q][g]
      BY <2>1, <3>1, SetEntry
    <3>3. acked' \in AckMaps /\ \A q \in Pkgs, g \in Files :
             acked'[q][g] = IF q = p /\ g = f THEN {r} ELSE acked[q][g]
      BY <2>1, <3>1, SetAcked
    <3> QED
      BY <3>2, <3>3
  <2>3. r # None
    OBVIOUS
  <2>4. Typed' /\ DownOK' /\ CallOK'
    BY <1>1, <1>2, <2>2 DEF Typed, DownOK, CallOK, Entries
  <2>5. KeptOK'
    BY <1>1, <2>2 DEF KeptOK, AckedKept, Json
  <2>6. AgreeOK' /\ DoneOK'
    BY <1>1, <1>2, <2>2, <2>3 DEF AgreeOK, DoneOK, Json
  <2> QED
    BY <2>4, <2>5, <2>6
<1>3. CASE Fail /\ UNCHANGED <<saved, acked>>
  <2>1. at' = "idle" /\ failed' = TRUE
    BY <1>3 DEF Fail, Return
  <2>2. Typed' /\ DownOK' /\ CallOK'
    BY <1>1, <1>3, <2>1 DEF Typed, DownOK, CallOK, Entries
  <2>3. KeptOK'
    BY <1>1, <1>3 DEF KeptOK, AckedKept, Json
  <2>4. AgreeOK' /\ DoneOK'
    BY <2>1 DEF AgreeOK, DoneOK
  <2> QED
    BY <2>2, <2>3, <2>4
<1> QED
  BY <1>2, <1>3 DEF Upsert

\* A session ends, with its summary or by a crash: its memory is gone.
LEMMA EndStep ==
    ASSUME IInv, Down, UNCHANGED <<storage, reports, saved, acked, failed, ignored>>
    PROVE  IInv'
<1> USE DEF IInv
<1>1. at' = "down" /\ rec' = None /\ results' = Nothing /\ sel' = {} /\ todo' = {} /\ open' = {}
  BY DEF Down
<1>2. Typed' /\ DownOK' /\ CallOK'
  BY <1>1, NothingTyped DEF Typed, DownOK, CallOK
<1>3. KeptOK'
  BY <1>1 DEF KeptOK, AckedKept, Json
<1>4. AgreeOK' /\ DoneOK'
  BY <1>1, NothingTyped DEF AgreeOK, DoneOK, Json
<1> QED
  BY <1>2, <1>3, <1>4

\* No session has run yet.
LEMMA InitStep == Init => IInv
<1> SUFFICES ASSUME Init PROVE IInv
  OBVIOUS
<1>1. Typed /\ DownOK /\ CallOK
  BY NothingTyped DEF Init, Typed, DownOK, CallOK, AckMaps
<1>2. KeptOK /\ AgreeOK /\ DoneOK
  BY NothingTyped DEF Init, KeptOK, AckedKept, AgreeOK, DoneOK, Json
<1> QED
  BY <1>1, <1>2 DEF IInv

\* Every step keeps the inductive invariant.
LEMMA InvStep == SlugsDiffer => (IInv /\ [Next]_vars => IInv')
<1> SUFFICES ASSUME SlugsDiffer, IInv, [Next]_vars PROVE IInv'
  OBVIOUS
<1>1. ASSUME NEW s \in Selections, Start(s) PROVE IInv'
  BY <1>1, StartJsonStep, StartSqliteStep
<1>2. ASSUME NEW s \in Selections, StartOver(s) PROVE IInv'
  BY <1>2, StartOverStep
<1>3. ASSUME NEW p \in Pkgs, NEW f \in Files, NEW r \in Results, Remember(p, f, r) PROVE IInv'
  BY <1>3, RememberStep
<1>4. ASSUME NEW p \in Pkgs, NEW f \in Files, NEW r \in Results, Upsert(p, f, r) PROVE IInv'
  BY <1>4, UpsertStep
<1>5. CASE WritePackage
  BY <1>5, WritePackageStep
<1>6. CASE WriteResume
  BY <1>6, WriteResumeStep
<1>7. CASE Summarize
  BY <1>7, EndStep DEF Summarize
<1>8. CASE Crash
  BY <1>8, EndStep DEF Crash
<1>9. CASE UNCHANGED vars
  BY <1>9 DEF vars, sessionVars, IInv, Typed, DownOK, CallOK, KeptOK, AckedKept, AgreeOK, DoneOK, Json
<1> QED
  BY <1>1, <1>2, <1>3, <1>4, <1>5, <1>6, <1>7, <1>8, <1>9 DEF Next

\* The inductive invariant holds of every reachable state.
LEMMA Invariance == SlugsDiffer => (Spec => []IInv)
<1> SUFFICES ASSUME SlugsDiffer PROVE Spec => []IInv
  OBVIOUS
<1>1. IInv /\ [Next]_vars => IInv'
  BY InvStep
<1> QED
  BY InitStep, <1>1, PTL DEF Spec

\* Every variable of the stores keeps its type.
THEOREM StoreTyped == SlugsDiffer => (Spec => []TypeOK)
<1> SUFFICES ASSUME SlugsDiffer PROVE Spec => []TypeOK
  OBVIOUS
<1>1. IInv => TypeOK
  BY TypeParts DEF IInv
<1> QED
  BY Invariance, <1>1, PTL

\* What Record (jsonstore.go, sqlitestore.go) has acknowledged stays in the resume
\* state, or a result recorded since does, through failed writes, crashes, second
\* records and narrower sessions: until, in the JSON store, a session runs with
\* resume disabled or passes over a report it cannot read.
THEOREM AckedStays == SlugsDiffer => (Spec => []AckedKept)
<1> SUFFICES ASSUME SlugsDiffer PROVE Spec => []AckedKept
  OBVIOUS
<1>1. IInv => AckedKept
  BY DEF IInv, KeptOK
<1> QED
  BY Invariance, <1>1, PTL

\* The summary (Summarize) of every later session counts it, with the same two
\* exceptions.
THEOREM AckedCounted == SlugsDiffer => (Spec => []SummaryHasAcked)
<1> SUFFICES ASSUME SlugsDiffer PROVE Spec => []SummaryHasAcked
  OBVIOUS
<1>1. IInv => SummaryHasAcked
  BY DEF IInv, KeptOK, AckedKept, SummaryHasAcked, Counted, Json
<1> QED
  BY Invariance, <1>1, PTL

\* A crash between any two writes loses the file being recorded at most, while no
\* write has failed and in packages no session of the JSON store has ignored.
THEOREM LosesOne == SlugsDiffer => (Spec => []LosesAtMostOne)
<1> SUFFICES ASSUME SlugsDiffer PROVE Spec => []LosesAtMostOne
  OBVIOUS
<1>1. IInv => LosesAtMostOne
  <2> SUFFICES ASSUME IInv, ~failed, NEW e \in sel \ open, e[1] \notin ignored, e # rec
               PROVE  e \in Listed(saved)
    BY DEF LosesAtMostOne
  <2>1. e \in Entries /\ e[1] \in Pkgs /\ e[2] \in Files /\ e = <<e[1], e[2]>>
    BY DEF IInv, Typed, Entries
  <2>2. saved[e[1]][e[2]] # None
    BY <2>1 DEF IInv, DoneOK
  <2> QED
    BY <2>1, <2>2 DEF Listed
<1> QED
  BY Invariance, <1>1, PTL

\* The SQLite store never drops a row. No write of the JSON store's resume state
\* drops an entry of a package no session has ignored, while no write has failed
\* (jsonstore.go: the memory it is written from was seeded with every recorded
\* package whose report can be read).
THEOREM ResumeOnlyGrows == SlugsDiffer => (Spec => ResumeGrows)
<1> SUFFICES ASSUME SlugsDiffer PROVE Spec => ResumeGrows
  OBVIOUS
<1>1. IInv /\ [Next]_vars =>
        (storage = "sqlite" \/ ~failed =>
            \A e \in Listed(saved) : e[1] \in ignored' \/ e \in Listed(saved'))
  <2> SUFFICES ASSUME IInv, [Next]_vars, storage = "sqlite" \/ ~failed
               PROVE  \A p \in Pkgs, f \in Files : saved[p][f] # None => p \in ignored' \/ saved'[p][f] # None
    BY DEF Listed, Entries
  <2>1. CASE WriteResume
    BY <2>1 DEF WriteResume, ResumeState, sessionVars, IInv, CallOK, AgreeOK, Json
  <2>2. ASSUME NEW p \in Pkgs, NEW f \in Files, NEW r \in Results, Upsert(p, f, r)
        PROVE  \A q \in Pkgs, g \in Files : saved[q][g] # None => saved'[q][g] # None
    <3>1. saved' \in {Set(saved, p, f, r), saved} /\ saved \in Maps /\ r \in Results \cup {None} /\ r # None
      BY <2>2, StoreAssumption DEF Upsert, Set, IInv, Typed
    <3> QED
      BY <3>1, SetEntry
  <2>3. CASE UNCHANGED saved
    BY <2>3
  <2> QED
    BY <2>1, <2>2, <2>3
    DEF Next, Start, StartOver, Remember, WritePackage, Summarize, Crash, vars
<1> QED
  BY Invariance, <1>1, PTL DEF Spec, ResumeGrows
================================================================================
