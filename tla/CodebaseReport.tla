-------------------------- MODULE CodebaseReport --------------------------
(***************************************************************************)
(* What main of src/comprehensive_audit.py promises, stated without its    *)
(* loops: the run ends, and either it fails without writing anything or    *)
(* every file of find_rust_files could be read and the report it writes is *)
(* the one below, each section a closed-form count or listing over the     *)
(* corpus.  CodebaseAudit is shown to implement this specification.        *)
(***************************************************************************)
EXTENDS CodebaseCorpus
LOCAL INSTANCE FiniteSetsExt

VARIABLES
    status,   \* "running", "done" or "crashed"
    report    \* the report written, <<>> before

avars == <<corpus, status, report>>

\* The files the passes read, and where rglob yields a file.
Scanned == {f \in Files : path[f].dir # "target"}
Pos(f) == CHOOSE i \in 1..Len(FileOrder) : FileOrder[i] = f

\* The elements of a finite set S listed in the order of the strict total
\* order Lt, and a listing mapped element by element.
InOrder(S, Lt(_, _)) ==
    [i \in 1..Cardinality(S) |->
       CHOOSE x \in S : Cardinality({y \in S : Lt(y, x)}) = i - 1]
Each(s, E(_)) == [i \in 1..Len(s) |-> E(s[i])]
ByPos(S) == InOrder(S, LAMBDA g, h : Pos(g) < Pos(h))

Sum(S, g(_)) == MapThenSumSet(g, S)

\* The (file, line) pairs of the lines whose upper-cased text holds k.
Hits(k) ==
    {fn \in UNION {{<<f, n>> : n \in 1..Len(content[f].lines)} : f \in Scanned} :
       k \in content[fn[1]].lines[fn[2]]}

TodoDetails(k) ==
    Each(InOrder(Hits(k), LAMBDA x, y : Pos(x[1]) < Pos(y[1])
                                       \/ (x[1] = y[1] /\ x[2] < y[2])),
         LAMBDA h : [file |-> h[1], line |-> h[2],
                     is_test |-> IsTestFile(path[h[1]])])

\* Clone hot spots: a file is ahead of another with fewer clones, or with
\* as many and yielded earlier; the hot spots are the files over 10 clones
\* that fewer than HotSpotLimit files are ahead of, listed in that order.
Clones(f) == content[f].clones
Cloned == {f \in Scanned : Clones(f) > 0}
Ahead(g, f) == Clones(g) > Clones(f) \/ (Clones(g) = Clones(f) /\ Pos(g) < Pos(f))
HotFiles ==
    {f \in Cloned : Clones(f) > 10
                    /\ Cardinality({g \in Cloned : Ahead(g, f)}) < HotSpotLimit}

StringTotal(f) == Sum(StringPatterns, LAMBDA p : content[f].strings[p])

Report ==
    [overview |->
        [total_files |-> Cardinality(Scanned),
         production_files |-> Cardinality({f \in Scanned : ~IsTestFile(path[f])}),
         test_files |-> Cardinality({f \in Scanned : IsTestFile(path[f])})],
     todos |->
        [total |-> Sum(KeywordSet, LAMBDA k : Cardinality(Hits(k))),
         by_type |-> [k \in KeywordSet |-> Cardinality(Hits(k))],
         details |-> [k \in KeywordSet |-> TodoDetails(k)]],
     clone_usage |->
        [total |-> Sum(Scanned, Clones),
         by_file |-> Each(ByPos(Cloned),
                          LAMBDA f : [file |-> f, count |-> Clones(f)]),
         hot_spots |-> Each(InOrder(HotFiles, Ahead),
                            LAMBDA f : [file |-> f, count |-> Clones(f),
                                        is_test |-> IsTestFile(path[f])])],
     box_usage |->
        [box_dyn |-> Sum(Scanned, LAMBDA f : content[f].box_dyn),
         box_dyn_error |-> Sum(Scanned, LAMBDA f : content[f].box_dyn_error),
         files_with_box |->
            Each(ByPos({f \in Scanned : content[f].box_dyn > 0
                                        \/ content[f].box_dyn_error > 0}),
                 LAMBDA f : [file |-> f, box_dyn |-> content[f].box_dyn,
                             box_dyn_error |-> content[f].box_dyn_error,
                             is_test |-> IsTestFile(path[f])])],
     string_allocations |->
        [total |-> Sum(Scanned, StringTotal),
         by_pattern |-> [p \in StringPatterns |->
                           Sum(Scanned, LAMBDA f : content[f].strings[p])],
         hot_spots |-> Each(ByPos({f \in Scanned : StringTotal(f) > 20}),
                            LAMBDA f : [file |-> f, count |-> StringTotal(f),
                                        is_test |-> IsTestFile(path[f])])],
     must_use |->
        [result_functions |-> Sum(Scanned, LAMBDA f : content[f].result_fns),
         must_use_count |-> Sum(Scanned, LAMBDA f : content[f].must_uses),
         missing_must_use |->
            Each(ByPos({f \in Scanned : content[f].result_fns > 0
                                        /\ content[f].must_uses = 0}),
                 LAMBDA f : [file |-> f,
                             result_functions |-> content[f].result_fns])],
     async_usage |->
        [async_functions |-> Sum(Scanned, LAMBDA f : content[f].async_fns),
         await_calls |-> Sum(Scanned, LAMBDA f : content[f].awaits),
         files |-> Each(ByPos({f \in Scanned : content[f].async_fns > 0
                                               \/ content[f].awaits > 0}),
                        LAMBDA f : [file |-> f,
                                    async_functions |-> content[f].async_fns,
                                    await_calls |-> content[f].awaits])],
     api_surface |->
        [k \in ApiKinds |-> Sum(Scanned, LAMBDA f : content[f].api[k])]]

Init ==
    /\ CorpusInit
    /\ status = "running"
    /\ report = <<>>

\* Every file could be read: the report is written.
Write ==
    /\ status = "running"
    /\ Scanned \cap unreadable = {}
    /\ report' = Report
    /\ status' = "done"
    /\ UNCHANGED corpus

\* The run fails and nothing is written.
Fail ==
    /\ status = "running"
    /\ status' = "crashed"
    /\ UNCHANGED <<corpus, report>>

Spec == Init /\ [][Write \/ Fail]_avars /\ WF_avars(Write \/ Fail)
=============================================================================
