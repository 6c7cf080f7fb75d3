--------------------------- MODULE CodebaseAudit ---------------------------
(***************************************************************************)
(* main of src/comprehensive_audit.py: the overview of the corpus, then    *)
(* seven analysis passes (analyze_todos, analyze_clone_usage,              *)
(* analyze_box_usage, analyze_string_allocations, analyze_must_use,        *)
(* analyze_async_usage, analyze_public_vs_private), each calling           *)
(* find_rust_files again and opening every file in turn, then the report  *)
(* dumped as JSON.  The corpus is described in CodebaseCorpus.             *)
(***************************************************************************)
EXTENDS CodebaseCorpus, TLC
LOCAL INSTANCE FiniteSetsExt

VARIABLES
    pc,          \* "overview", a pass name, "save", "done" or "crashed"
    fi,          \* index in find_rust_files() of the file being read
    overview,    \* the file counts of main
    todos, clone_stats, box_stats, string_stats, must_use_stats,
    async_stats, api_stats,      \* the dictionaries the passes return
    report       \* the report json.dump writes

stats == <<overview, todos, clone_stats, box_stats, string_stats,
           must_use_stats, async_stats, api_stats>>
vars == <<corpus, pc, fi, stats, report>>

\* The passes in the order main calls them.
Passes == <<"todos", "clone", "box", "strings", "must_use", "async", "api">>
PassNames == {Passes[i] : i \in 1..7}

CurFile == RustFiles[fi]

\* The total of a function's values over a finite domain.
Total(g) == MapThenSumSet(LAMBDA x : g[x], DOMAIN g)

Init ==
    /\ CorpusInit
    /\ pc = "overview"
    /\ fi = 1
    /\ overview = <<>>
    /\ todos = [k \in KeywordSet |-> <<>>]
    /\ clone_stats = [total |-> 0, by_file |-> <<>>, hot_spots |-> <<>>]
    /\ box_stats = [box_dyn |-> 0, box_dyn_error |-> 0, files_with_box |-> <<>>]
    /\ string_stats = [total |-> 0, by_pattern |-> [p \in StringPatterns |-> 0],
                       hot_spots |-> <<>>]
    /\ must_use_stats = [result_functions |-> 0, must_use_count |-> 0,
                         missing_must_use |-> <<>>]
    /\ async_stats = [async_functions |-> 0, await_calls |-> 0, files |-> <<>>]
    /\ api_stats = [k \in ApiKinds |-> 0]
    /\ report = <<>>

\* all_files, test_files and prod_files of main.
CountFiles ==
    /\ pc = "overview"
    /\ overview' =
          [total_files |-> Len(RustFiles),
           production_files |->
              Len(SelectSeq(RustFiles, LAMBDA f : ~IsTestFile(path[f]))),
           test_files |-> Len(SelectSeq(RustFiles, LAMBDA f : IsTestFile(path[f])))]
    /\ pc' = "todos"
    /\ UNCHANGED <<corpus, fi, todos, clone_stats, box_stats, string_stats,
                   must_use_stats, async_stats, api_stats, report>>

\* open() or the utf-8 decoding raises; no pass catches it, nor does main.
ReadFails ==
    /\ pc \in PassNames
    /\ fi <= Len(RustFiles)
    /\ CurFile \in unreadable
    /\ pc' = "crashed"
    /\ UNCHANGED <<corpus, fi, stats, report>>

\* The per-file step of one pass: the file is opened and read.
ReadFile(p) == pc = p /\ fi <= Len(RustFiles) /\ CurFile \notin unreadable

\* The pass after p, and "save" after the last one.
After(p) == LET i == CHOOSE i \in 1..7 : Passes[i] = p
            IN  IF i = 7 THEN "save" ELSE Passes[i + 1]

\* The entries analyze_todos appends for keyword k and file f: one per line
\* whose upper-cased text contains k, in line order.
TodoEntries(f, k) ==
    LET L    == content[f].lines
        hits == SelectSeq([n \in 1..Len(L) |-> n], LAMBDA n : k \in L[n])
    IN  [i \in 1..Len(hits) |->
           [file |-> f, line |-> hits[i], is_test |-> IsTestFile(path[f])]]

\* One file of analyze_todos: for every line and every keyword found in
\* it, an entry is appended to that keyword's list.
AnalyzeTodosFile ==
    /\ ReadFile("todos")
    /\ todos' = [k \in KeywordSet |-> todos[k] \o TodoEntries(CurFile, k)]
    /\ fi' = fi + 1
    /\ UNCHANGED <<corpus, pc, overview, clone_stats, box_stats, string_stats,
                   must_use_stats, async_stats, api_stats, report>>

\* One file of analyze_clone_usage: a file with a `.clone()` gets an entry
\* in by_file, in the order the files are read.
AnalyzeCloneFile ==
    /\ ReadFile("clone")
    /\ LET c == content[CurFile].clones
       IN  clone_stats' =
              IF c > 0
                 THEN [clone_stats EXCEPT !.total = @ + c,
                         !.by_file = Append(@, [file |-> CurFile, count |-> c])]
                 ELSE clone_stats
    /\ fi' = fi + 1
    /\ UNCHANGED <<corpus, pc, overview, todos, box_stats, string_stats,
                   must_use_stats, async_stats, api_stats, report>>

(***************************************************************************)
(* The end of analyze_clone_usage: by_file sorted by count, descending,    *)
(* cut at HotSpotLimit entries, and the entries over 10 kept.  Python's    *)
(* sort is stable, also with reverse=True, so equal counts keep the order  *)
(* of by_file: an entry is ranked by its count, then by its position.      *)
(***************************************************************************)
Ranked(bf, Ahead(_, _)) ==
    LET items == [i \in 1..Len(bf) |-> [pos |-> i, file |-> bf[i].file,
                                        count |-> bf[i].count]]
        top   == SubSeq(SortSeq(items, Ahead), 1, Min({HotSpotLimit, Len(bf)}))
        hot   == SelectSeq(top, LAMBDA e : e.count > 10)
    IN  [i \in 1..Len(hot) |-> [file |-> hot[i].file, count |-> hot[i].count,
                                is_test |-> IsTestFile(path[hot[i].file])]]

\* Mutant: equal counts come out in reverse order of by_file.
RankHotSpotsUnstable ==
    /\ pc = "clone"
    /\ fi > Len(RustFiles)
    /\ clone_stats' = [clone_stats EXCEPT !.hot_spots =
          Ranked(clone_stats.by_file, LAMBDA a, b : a.count > b.count
                                         \/ (a.count = b.count /\ a.pos > b.pos))]
    /\ pc' = After(pc)
    /\ fi' = 1
    /\ UNCHANGED <<corpus, overview, todos, box_stats, string_stats,
                   must_use_stats, async_stats, api_stats, report>>

RankHotSpots ==
    /\ pc = "clone"
    /\ fi > Len(RustFiles)
    /\ clone_stats' = [clone_stats EXCEPT !.hot_spots =
          Ranked(clone_stats.by_file, LAMBDA a, b : a.count > b.count
                                         \/ (a.count = b.count /\ a.pos < b.pos))]
    /\ pc' = After(pc)
    /\ fi' = 1
    /\ UNCHANGED <<corpus, overview, todos, box_stats, string_stats,
                   must_use_stats, async_stats, api_stats, report>>

\* One file of analyze_box_usage: a file with a `Box<dyn` or a
\* `Result<.*Box<dyn.*Error` match is listed with both counts.
AnalyzeBoxFile ==
    /\ ReadFile("box")
    /\ LET bd == content[CurFile].box_dyn
           be == content[CurFile].box_dyn_error
       IN  box_stats' =
              IF bd > 0 \/ be > 0
                 THEN [box_stats EXCEPT !.box_dyn = @ + bd,
                         !.box_dyn_error = @ + be,
                         !.files_with_box = Append(@,
                            [file |-> CurFile, box_dyn |-> bd,
                             box_dyn_error |-> be,
                             is_test |-> IsTestFile(path[CurFile])])]
                 ELSE box_stats
    /\ fi' = fi + 1
    /\ UNCHANGED <<corpus, pc, overview, todos, clone_stats, string_stats,
                   must_use_stats, async_stats, api_stats, report>>

\* One file of analyze_string_allocations: every pattern's count is added
\* to its own total and to the grand total; a file with more than 20 in
\* all is a hot spot.
AnalyzeStringsFile ==
    /\ ReadFile("strings")
    /\ LET s  == content[CurFile].strings
           ft == Total(s)
       IN  string_stats' =
              [string_stats EXCEPT
                 !.by_pattern = [p \in StringPatterns |-> @[p] + s[p]],
                 !.total = @ + ft,
                 !.hot_spots = IF ft > 20
                                  THEN Append(@, [file |-> CurFile, count |-> ft,
                                           is_test |-> IsTestFile(path[CurFile])])
                                  ELSE @]
    /\ fi' = fi + 1
    /\ UNCHANGED <<corpus, pc, overview, todos, clone_stats, box_stats,
                   must_use_stats, async_stats, api_stats, report>>

\* One file of analyze_must_use: a file with Result functions and no
\* #[must_use] at all is listed.
AnalyzeMustUseFile ==
    /\ ReadFile("must_use")
    /\ LET r == content[CurFile].result_fns
           m == content[CurFile].must_uses
       IN  must_use_stats' =
              [must_use_stats EXCEPT !.result_functions = @ + r,
                 !.must_use_count = @ + m,
                 !.missing_must_use =
                    IF r > 0 /\ m = 0
                       THEN Append(@, [file |-> CurFile, result_functions |-> r])
                       ELSE @]
    /\ fi' = fi + 1
    /\ UNCHANGED <<corpus, pc, overview, todos, clone_stats, box_stats,
                   string_stats, async_stats, api_stats, report>>

\* One file of analyze_async_usage: a file with an `async fn` or an
\* `.await` is listed with both counts.
AnalyzeAsyncFile ==
    /\ ReadFile("async")
    /\ LET a == content[CurFile].async_fns
           w == content[CurFile].awaits
       IN  async_stats' =
              [async_stats EXCEPT !.async_functions = @ + a,
                 !.await_calls = @ + w,
                 !.files = IF a > 0 \/ w > 0
                              THEN Append(@, [file |-> CurFile,
                                      async_functions |-> a, await_calls |-> w])
                              ELSE @]
    /\ fi' = fi + 1
    /\ UNCHANGED <<corpus, pc, overview, todos, clone_stats, box_stats,
                   string_stats, must_use_stats, api_stats, report>>

\* One file of analyze_public_vs_private: each of the six counts is added.
AnalyzeApiFile ==
    /\ ReadFile("api")
    /\ api_stats' = [k \in ApiKinds |-> api_stats[k] + content[CurFile].api[k]]
    /\ fi' = fi + 1
    /\ UNCHANGED <<corpus, pc, overview, todos, clone_stats, box_stats,
                   string_stats, must_use_stats, async_stats, report>>

\* Mutant: the next pass starts before the first file.
EndPassZeroBased ==
    /\ pc \in PassNames \ {"clone"}
    /\ fi > Len(RustFiles)
    /\ pc' = After(pc)
    /\ fi' = 0
    /\ UNCHANGED <<corpus, stats, report>>

\* A pass other than analyze_clone_usage returns its dictionary; main goes
\* on with the next pass, which lists the files again.
EndPass ==
    /\ pc \in PassNames \ {"clone"}
    /\ fi > Len(RustFiles)
    /\ pc' = After(pc)
    /\ fi' = 1
    /\ UNCHANGED <<corpus, stats, report>>

\* The report main dumps with json.dump.
SaveReport ==
    /\ pc = "save"
    /\ report' =
          [overview |-> overview,
           todos |-> [total |-> Total([k \in KeywordSet |-> Len(todos[k])]),
                      by_type |-> [k \in KeywordSet |-> Len(todos[k])],
                      details |-> todos],
           clone_usage |-> clone_stats, box_usage |-> box_stats,
           string_allocations |-> string_stats, must_use |-> must_use_stats,
           async_usage |-> async_stats, api_surface |-> api_stats]
    /\ pc' = "done"
    /\ UNCHANGED <<corpus, fi, stats>>

\* The report file cannot be opened for writing.
SaveFails ==
    /\ pc = "save"
    /\ pc' = "crashed"
    /\ UNCHANGED <<corpus, fi, stats, report>>

Next ==
    \/ CountFiles
    \/ ReadFails
    \/ AnalyzeTodosFile
    \/ AnalyzeCloneFile
    \/ RankHotSpots
    \/ AnalyzeBoxFile
    \/ AnalyzeStringsFile
    \/ AnalyzeMustUseFile
    \/ AnalyzeAsyncFile
    \/ AnalyzeApiFile
    \/ EndPass
    \/ SaveReport
    \/ SaveFails

Spec == Init /\ [][Next]_vars

\* main runs alone and never waits: while it has a step to take it takes it.
FairSpec == Spec /\ WF_vars(Next)

-----------------------------------------------------------------------------

TypeOK ==
    /\ CorpusInit
    /\ pc \in PassNames \cup {"overview", "save", "done", "crashed"}
    /\ fi \in 1..(Len(RustFiles) + 1)
    /\ todos \in [KeywordSet -> Seq([file: Files, line: Nat, is_test: BOOLEAN])]
    /\ clone_stats \in
          [total: Nat, by_file: Seq([file: Files, count: Nat]),
           hot_spots: Seq([file: Files, count: Nat, is_test: BOOLEAN])]
    /\ box_stats \in
          [box_dyn: Nat, box_dyn_error: Nat,
           files_with_box: Seq([file: Files, box_dyn: Nat, box_dyn_error: Nat,
                                is_test: BOOLEAN])]
    /\ string_stats \in
          [total: Nat, by_pattern: [StringPatterns -> Nat],
           hot_spots: Seq([file: Files, count: Nat, is_test: BOOLEAN])]
    /\ must_use_stats \in
          [result_functions: Nat, must_use_count: Nat,
           missing_must_use: Seq([file: Files, result_functions: Nat])]
    /\ async_stats \in
          [async_functions: Nat, await_calls: Nat,
           files: Seq([file: Files, async_functions: Nat, await_calls: Nat])]
    /\ api_stats \in [ApiKinds -> Nat]

(***************************************************************************)
(* The refinement: the run as main performs it, pass after pass and file   *)
(* after file, implements CodebaseReport.  Every step before the dump is   *)
(* a stutter of the abstract run, the dump writes exactly the closed-form  *)
(* report (counts summed per file, each listing in rglob order, the clone  *)
(* hot spots ranked by count with ties in rglob order and cut at           *)
(* HotSpotLimit), a report is written only when no scanned file is        *)
(* unreadable, and, main being weakly fair, the run ends.                  *)
(***************************************************************************)
Audit == INSTANCE CodebaseReport
            WITH status <- IF pc \in {"done", "crashed"} THEN pc ELSE "running"

ReportImplemented == Audit!Spec
=============================================================================
