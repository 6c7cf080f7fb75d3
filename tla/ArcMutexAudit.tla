--------------------------- MODULE ArcMutexAudit ---------------------------
(***************************************************************************)
(* main of src/audit_arc_mutex.py: the loop over the corpus that extracts  *)
(* the Arc<Mutex<..>> occurrences of each file, reads the file a second    *)
(* time, scores every occurrence with analyze_usage_pattern and files it  *)
(* as test or production code, then the report assembled from those       *)
(* lists.                                                                  *)
(*                                                                         *)
(* The corpus is chosen in Init.  A file is a model value with             *)
(*   - a path "<root>/<dir>/<stem>.rs", dir and stem taken from small sets  *)
(*     of real names, on which is_test_file's substring tests are decided; *)
(*   - the occurrences extract_arc_mutex_usage finds in it, each reduced   *)
(*     to what analyze_usage_pattern looks at: its inner type, whether its *)
(*     context window is read-heavy (ArcMutexExtract models that window)   *)
(*     and whether its own line builds and clones the Arc;                 *)
(*   - what analyze_usage_pattern reads from the whole file: the number of *)
(*     `.clone()` calls, and whether it mentions threading or channels.    *)
(* An occurrence's line number is its position in the file's list.         *)
(***************************************************************************)
EXTENDS Integers, Sequences, FiniteSets

CONSTANTS
    Files,         \* the .rs files find_rust_files returns
    FileOrder,     \* the order rglob yields them in
    PathChoices,   \* the paths a file may have
    OccChoices,    \* the occurrence signals an occurrence may have
    FileChoices,   \* the whole-file signals a file may have
    MaxOcc,        \* the most occurrences one file holds
    TopFilesLimit  \* the cut of top_files, sorted_files[:20]

\* Directory and file names of the corpus, and the substring facts about
\* them that is_test_file tests.
Dirs  == {"src", "tests", "test", "examples"}
Stems == {"lib", "server_test", "server_tests", "tests", "latest_value"}
Paths == [dir: Dirs, stem: Stems]

\* Inner types as the pattern captures them, generic ones without their
\* last ">" (ArcMutexExtract): the first is one of simple_types, the second
\* holds "Sender".
InnerTypes  == {"bool", "Sender<Event", "HashMap<K, V"}
SimpleTypes == {"bool"}
SenderTypes == {"Sender<Event"}

OccSignals  == [type: InnerTypes, read_heavy: BOOLEAN, defensive: BOOLEAN]
FileSignals == [clone_count: Nat, threading: BOOLEAN, channel: BOOLEAN]

ASSUME ArcMutexAssumption ==
    /\ FileOrder \in Seq(Files)
    /\ \A f \in Files : \E i \in 1..Len(FileOrder) : FileOrder[i] = f
    /\ \A i, j \in 1..Len(FileOrder) : FileOrder[i] = FileOrder[j] => i = j
    /\ PathChoices \subseteq Paths
    /\ OccChoices \subseteq OccSignals
    /\ FileChoices \subseteq FileSignals
    /\ MaxOcc \in Nat
    /\ TopFilesLimit \in Nat

VARIABLES
    path, occ, sig,   \* the corpus
    pc,               \* "files", "read", "analyze", "done" or "crashed"
    fi,               \* index of the current file in FileOrder
    ui,               \* index of the current usage in usages
    usages,           \* the occurrences of the current file
    all_usages, test_usages, prod_usages,
    report            \* the report json.dump writes

corpus == <<path, occ, sig>>
vars == <<corpus, pc, fi, ui, usages, all_usages, test_usages, prod_usages,
          report>>

Severities == {"HIGH", "MEDIUM", "LOW"}

\* is_test_file: the six substring tests on str(file_path).
IsTestFile(p) ==
    \/ p.dir = "tests"                            \* '/tests/' in path_str
    \/ p.dir = "test"                             \* '/test/' in path_str
    \/ p.stem = "server_test"                     \* endswith('_test.rs')
    \/ p.stem = "server_tests"                    \* endswith('_tests.rs')
    \/ p.stem = "latest_value"                    \* 'test_' in path_str
    \/ p.stem \in {"server_tests", "tests"}       \* 'tests.rs' in path_str

\* The one-element list holding tag when the check holds.
When(cond, tag) == IF cond THEN <<tag>> ELSE <<>>

SeverityOf(n) ==
    IF n >= 3 THEN "HIGH" ELSE IF n >= 1 THEN "MEDIUM" ELSE "LOW"

\* analyze_usage_pattern(usage, file_content): the checks in code order,
\* each appending one issue and at most one recommendation.
Analyze(o, s) ==
    LET issues ==
          When(o.type \in SimpleTypes, "simple_type")
          \o When(s.clone_count > 5, "many_clones")
          \o When(o.read_heavy, "read_heavy")
          \o When(~s.threading, "no_threading")
          \o When(o.defensive, "defensive")
        recs ==
          When(o.type \in SimpleTypes, "atomic")
          \o When(o.read_heavy, "rwlock")
          \o When(~s.threading, "rc_refcell")
          \o When(o.type \in SenderTypes \/ s.channel, "channels")
    IN  [issues |-> issues, recommendations |-> recs,
         severity |-> SeverityOf(Len(issues))]

\* The usage dictionary main keeps for occurrence k of file f.
UsageOf(f, k) ==
    [file |-> f, line |-> k, type |-> occ[f][k].type,
     analysis |-> Analyze(occ[f][k], sig[f])]

\* The issue and recommendation messages analyze_usage_pattern appends,
\* one tag for each.
IssueTags == {"simple_type", "many_clones", "read_heavy", "no_threading",
              "defensive"}
RecTags   == {"atomic", "rwlock", "rc_refcell", "channels"}

Usages == [file: Files, line: Nat, type: InnerTypes,
           analysis: [issues: Seq(IssueTags), recommendations: Seq(RecTags),
                      severity: Severities]]

Init ==
    /\ path \in [Files -> PathChoices]
    /\ occ \in [Files -> UNION {[1..n -> OccChoices] : n \in 0..MaxOcc}]
    /\ sig \in [Files -> FileChoices]
    /\ pc = "files"
    /\ fi = 1
    /\ ui = 1
    /\ usages = <<>>
    /\ all_usages = <<>>
    /\ test_usages = <<>>
    /\ prod_usages = <<>>
    /\ report = <<>>

CurFile == FileOrder[fi]

(***************************************************************************)
(* One iteration of the loop over find_rust_files: extract_arc_mutex_usage *)
(* reads the file and returns its occurrences; a file without any is left *)
(* at once (`if usages:`), one with some is read a second time.            *)
(***************************************************************************)
ExtractFile ==
    /\ pc = "files"
    /\ fi <= Len(FileOrder)
    /\ usages' = occ[CurFile]
    /\ IF occ[CurFile] = <<>>
          THEN fi' = fi + 1 /\ UNCHANGED pc
          ELSE pc' = "read" /\ UNCHANGED fi
    /\ UNCHANGED <<corpus, ui, all_usages, test_usages, prod_usages, report>>

\* The open in extract_arc_mutex_usage raises; nothing catches it.
ExtractReadFails ==
    /\ pc = "files"
    /\ fi <= Len(FileOrder)
    /\ pc' = "crashed"
    /\ UNCHANGED <<corpus, fi, ui, usages, all_usages, test_usages,
                   prod_usages, report>>

\* Mutant: the usage loop starts at index 0.
ReadContentZeroBased ==
    /\ pc = "read"
    /\ pc' = "analyze"
    /\ ui' = 0
    /\ UNCHANGED <<corpus, fi, usages, all_usages, test_usages, prod_usages,
                   report>>

\* main reads the whole file again for analyze_usage_pattern and starts
\* the loop over its usages.
ReadContent ==
    /\ pc = "read"
    /\ pc' = "analyze"
    /\ ui' = 1
    /\ UNCHANGED <<corpus, fi, usages, all_usages, test_usages, prod_usages,
                   report>>

\* The second open raises; nothing catches it either.
ReadContentFails ==
    /\ pc = "read"
    /\ pc' = "crashed"
    /\ UNCHANGED <<corpus, fi, ui, usages, all_usages, test_usages,
                   prod_usages, report>>

\* Mutant: each usage is put at the front of its list.
AnalyzeUsagePrepend ==
    /\ pc = "analyze"
    /\ ui <= Len(usages)
    /\ LET u == UsageOf(CurFile, ui)
       IN  /\ IF IsTestFile(path[CurFile])
                 THEN test_usages' = <<u>> \o test_usages
                      /\ UNCHANGED prod_usages
                 ELSE prod_usages' = <<u>> \o prod_usages
                      /\ UNCHANGED test_usages
           /\ all_usages' = <<u>> \o all_usages
    /\ ui' = ui + 1
    /\ UNCHANGED <<corpus, pc, fi, usages, report>>

\* One usage: analysed, filed as test or production code by the path of
\* its file, and added to all_usages.
AnalyzeUsage ==
    /\ pc = "analyze"
    /\ ui <= Len(usages)
    /\ LET u == UsageOf(CurFile, ui)
       IN  /\ IF IsTestFile(path[CurFile])
                 THEN test_usages' = Append(test_usages, u)
                      /\ UNCHANGED prod_usages
                 ELSE prod_usages' = Append(prod_usages, u)
                      /\ UNCHANGED test_usages
           /\ all_usages' = Append(all_usages, u)
    /\ ui' = ui + 1
    /\ UNCHANGED <<corpus, pc, fi, usages, report>>

\* The usage loop ends; the file loop goes on with the next file.
EndFile ==
    /\ pc = "analyze"
    /\ ui > Len(usages)
    /\ fi' = fi + 1
    /\ pc' = "files"
    /\ UNCHANGED <<corpus, ui, usages, all_usages, test_usages, prod_usages,
                   report>>

\* The lengths of the groupings of main after the loop: the usages of
\* all_usages that by_file lists under f, and those of prod_usages that
\* by_severity lists under sv.  by_severity is a defaultdict that the
\* printing loop over HIGH, MEDIUM and LOW has read at every severity, so
\* each of the three is a key of the report.
ByFileCount(f) ==
    Cardinality({i \in 1..Len(all_usages) : all_usages[i].file = f})
BySeverityCount(sv) ==
    Cardinality({i \in 1..Len(prod_usages) : prod_usages[i].analysis.severity = sv})
TypesOf(us)    == {us[i].type : i \in 1..Len(us)}

\* The keys of by_file, and the order the defaultdict inserted them in: g
\* is inserted before f when a usage of g comes before every usage of f.
FileKeys == {all_usages[i].file : i \in 1..Len(all_usages)}
InsertedBefore(g, f) ==
    \E i \in 1..Len(all_usages) :
       /\ all_usages[i].file = g
       /\ \A j \in 1..i : all_usages[j].file # f

\* sorted(by_file.items(), key=len, reverse=True) is stable: g comes before
\* f when it has more usages, or as many and was inserted first.
SortedBefore(g, f) ==
    \/ ByFileCount(g) > ByFileCount(f)
    \/ ByFileCount(g) = ByFileCount(f) /\ InsertedBefore(g, f)

\* The 1-based position of f in sorted_files.
SortedPos(f) == Cardinality({g \in FileKeys : SortedBefore(g, f)}) + 1

\* The length of sorted_files[:TopFilesLimit] when by_file has n keys.
TopCount(n) == IF n < TopFilesLimit THEN n ELSE TopFilesLimit

\* top_files: for each position of sorted_files[:20], the entry of the file
\* there.
TopFiles ==
    [r \in 1..TopCount(Cardinality(FileKeys)) |->
       LET f == CHOOSE g \in FileKeys : SortedPos(g) = r
       IN  [file |-> f, count |-> ByFileCount(f), is_test |-> IsTestFile(path[f])]]

\* Mutant: the severity counts are taken over every usage.
SaveReportAllSeverities ==
    /\ pc = "files"
    /\ fi > Len(FileOrder)
    /\ report' =
          [total |-> Len(all_usages), test |-> Len(test_usages),
           production |-> Len(prod_usages),
           by_severity |-> [sv \in Severities |->
              Cardinality({i \in 1..Len(all_usages) :
                              all_usages[i].analysis.severity = sv})],
           unique_types |-> Cardinality(TypesOf(prod_usages)),
           production_usages |-> prod_usages,
           top_files |-> TopFiles]
    /\ pc' = "done"
    /\ UNCHANGED <<corpus, fi, ui, usages, all_usages, test_usages, prod_usages>>

(***************************************************************************)
(* The report main dumps once the loop is over: the summary counts, the    *)
(* production usages and the first 20 files of sorted_files.              *)
(***************************************************************************)
SaveReport ==
    /\ pc = "files"
    /\ fi > Len(FileOrder)
    /\ report' =
          [total |-> Len(all_usages), test |-> Len(test_usages),
           production |-> Len(prod_usages),
           by_severity |-> [sv \in Severities |-> BySeverityCount(sv)],
           unique_types |-> Cardinality(TypesOf(prod_usages)),
           production_usages |-> prod_usages,
           top_files |-> TopFiles]
    /\ pc' = "done"
    /\ UNCHANGED <<corpus, fi, ui, usages, all_usages, test_usages, prod_usages>>

Next ==
    \/ ExtractFile
    \/ ExtractReadFails
    \/ ReadContent
    \/ ReadContentFails
    \/ AnalyzeUsage
    \/ EndFile
    \/ SaveReport

Spec == Init /\ [][Next]_vars

-----------------------------------------------------------------------------

TypeOK ==
    /\ path \in [Files -> PathChoices]
    /\ occ \in [Files -> Seq(OccChoices)]
    /\ sig \in [Files -> FileChoices]
    /\ pc \in {"files", "read", "analyze", "done", "crashed"}
    /\ fi \in 1..(Len(FileOrder) + 1)
    /\ ui \in 1..(MaxOcc + 1)
    /\ usages \in Seq(OccChoices)
    /\ all_usages \in Seq(Usages)
    /\ test_usages \in Seq(Usages)
    /\ prod_usages \in Seq(Usages)
    /\ report = <<>> \/ report.total \in Nat

-----------------------------------------------------------------------------
(***************************************************************************)
(* Reference: the occurrences of the corpus as (file, line) pairs, their   *)
(* counts, and the order of the corpus: file by file as rglob returned     *)
(* them, line by line within a file.                                       *)
(***************************************************************************)
ProdFiles == {f \in Files : ~IsTestFile(path[f])}
TestFiles == Files \ ProdFiles

OccOf(F) == UNION {{<<f, k>> : k \in 1..Len(occ[f])} : f \in F}

\* The number of occurrences in the files of F: one (file, line) pair each.
CountOcc(F) == Cardinality(OccOf(F))

\* The position of a file in the order rglob returned the corpus in.
FilePos(f) == CHOOSE i \in 1..Len(FileOrder) : FileOrder[i] = f

\* The files with an occurrence; g ranks above f when it has more
\* occurrences, or as many and comes earlier in the order of rglob.
HasOcc == {g \in Files : occ[g] # <<>>}
RanksAbove(g, f) ==
    \/ Len(occ[g]) > Len(occ[f])
    \/ Len(occ[g]) = Len(occ[f]) /\ FilePos(g) < FilePos(f)
CorpusRank(f) == Cardinality({g \in HasOcc : RanksAbove(g, f)}) + 1

\* Usage u comes before usage v in corpus order: it is of an earlier file,
\* or of an earlier line of the same file.
CorpusBefore(u, v) ==
    \/ FilePos(u.file) < FilePos(v.file)
    \/ u.file = v.file /\ u.line < v.line

\* The (file, line) pairs a list of usages is of.
KeysOf(us) == {<<us[i].file, us[i].line>> : i \in 1..Len(us)}

(***************************************************************************)
(* The summary main dumps counts the corpus: every occurrence once in the  *)
(* total, production ones in `production` and test ones in `test`; the     *)
(* severity counts are over production occurrences only and split them by  *)
(* the severity analyze_usage_pattern gives; top_files lists the files     *)
(* with occurrences from most to fewest, ties in the order rglob returned  *)
(* them, cut after TopFilesLimit, each entry counting all the occurrences  *)
(* of its file.                                                            *)
(***************************************************************************)
ReportMatchesCorpus ==
    pc = "done" =>
       /\ report.total = CountOcc(Files)
       /\ report.production = CountOcc(ProdFiles)
       /\ report.test = CountOcc(TestFiles)
       /\ \A sv \in Severities :
             report.by_severity[sv] =
                Cardinality({fk \in OccOf(ProdFiles) :
                   Analyze(occ[fk[1]][fk[2]], sig[fk[1]]).severity = sv})
       /\ Len(report.top_files) =
             IF Cardinality(HasOcc) < TopFilesLimit THEN Cardinality(HasOcc)
                                                    ELSE TopFilesLimit
       /\ \A r \in 1..Len(report.top_files) :
             LET f == report.top_files[r].file
             IN  /\ f \in HasOcc
                 /\ CorpusRank(f) = r
                 /\ report.top_files[r] =
                       [file |-> f, count |-> Len(occ[f]), is_test |-> f \in TestFiles]

(***************************************************************************)
(* production_usages lists every production occurrence exactly once, file  *)
(* by file in the order rglob returned them and line by line within a      *)
(* file, each with the analysis of its own occurrence and file.            *)
(***************************************************************************)
ProductionUsagesInCorpusOrder ==
    pc = "done" =>
       LET pu == report.production_usages
       IN  /\ KeysOf(pu) = OccOf(ProdFiles)
           /\ \A i \in 1..Len(pu) : pu[i] = UsageOf(pu[i].file, pu[i].line)
           /\ \A i, j \in 1..Len(pu) : i < j => CorpusBefore(pu[i], pu[j])

(***************************************************************************)
(* Spec sections 2 and 6: a file is test code when its path has a tests    *)
(* directory segment or its name ends with the _test/_tests suffix; every  *)
(* other file is production code.                                          *)
(***************************************************************************)
SpecTestPath(p) ==
    p.dir \in {"tests", "test"} \/ p.stem \in {"server_test", "server_tests"}

TestTagFollowsPathConvention ==
    /\ \A i \in 1..Len(test_usages) : SpecTestPath(path[test_usages[i].file])
    /\ \A i \in 1..Len(prod_usages) : ~SpecTestPath(path[prod_usages[i].file])
=============================================================================
