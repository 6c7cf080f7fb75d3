-------------------------- MODULE CodebaseCorpus --------------------------
(***************************************************************************)
(* The corpus src/comprehensive_audit.py audits, as find_rust_files and    *)
(* is_test_file see it, shared by the detailed model of main               *)
(* (CodebaseAudit) and the report it promises (CodebaseReport).            *)
(*                                                                         *)
(* A file is a model value with a path "<root>/<dir>/<stem>.rs" and a      *)
(* content reduced to what the passes count in it:                         *)
(*   - lines: for each line, the keywords of todos that occur in           *)
(*     line.upper() (the comment text itself is left out);                 *)
(*   - the number of matches of each regex or substring the other passes   *)
(*     count (`.clone()`, `Box<dyn`, the four string patterns, ...).       *)
(* A file that cannot be opened or decoded fails every time it is opened.  *)
(* The corpus is chosen in Init and does not change during the run.        *)
(***************************************************************************)
EXTENDS Integers, Sequences, FiniteSets

CONSTANTS
    Files,          \* the .rs files under the root
    FileOrder,      \* the order Path.rglob yields them in
    PathChoices,    \* the paths a file may have
    ContentChoices, \* the contents a file may have
    HotSpotLimit    \* the cut sorted_files[:20] of analyze_clone_usage

Dirs  == {"src", "tests", "benches", "target"}
Stems == {"lib", "server_test", "latest_value"}
Paths == [dir: Dirs, stem: Stems]

\* The keys of the todos dictionary, in their order.
Keywords == <<"TODO", "FIXME", "XXX", "HACK">>
KeywordSet == {Keywords[i] : i \in 1..4}

\* The four patterns of analyze_string_allocations and the six counters
\* of analyze_public_vs_private.
StringPatterns == {"to_string", "to_owned", "String_from", "format"}
ApiKinds == {"pub_fn", "pub_crate_fn", "private_fn", "pub_struct",
             "pub_enum", "pub_trait"}

Contents ==
    [lines: Seq(SUBSET KeywordSet), clones: Nat, box_dyn: Nat,
     box_dyn_error: Nat, strings: [StringPatterns -> Nat], result_fns: Nat,
     must_uses: Nat, async_fns: Nat, awaits: Nat, api: [ApiKinds -> Nat]]

ASSUME CodebaseAssumption ==
    /\ FileOrder \in Seq(Files)
    /\ \A f \in Files : \E i \in 1..Len(FileOrder) : FileOrder[i] = f
    /\ \A i, j \in 1..Len(FileOrder) : FileOrder[i] = FileOrder[j] => i = j
    /\ PathChoices \subseteq Paths
    /\ ContentChoices \subseteq Contents
    /\ HotSpotLimit \in Nat

VARIABLES
    path,        \* the path of each file
    content,     \* what the passes count in each file
    unreadable   \* the files whose open() or decoding raises

corpus == <<path, content, unreadable>>

\* is_test_file on the paths of Paths; its other three tests ('/test/',
\* '_tests.rs' and 'tests.rs') hold of none of them.
IsTestFile(p) ==
    \/ p.dir = "tests"                      \* '/tests/' in path_str
    \/ p.stem = "server_test"               \* endswith('_test.rs')
    \/ p.stem = "latest_value"              \* 'test_' in path_str
    \/ p.dir = "benches"                    \* 'benches/' in path_str

\* find_rust_files(root_dir): rglob order, /target/ left out.
RustFiles == SelectSeq(FileOrder, LAMBDA f : path[f].dir # "target")

CorpusInit ==
    /\ path \in [Files -> PathChoices]
    /\ content \in [Files -> ContentChoices]
    /\ unreadable \in {{}} \cup {{f} : f \in Files}
=============================================================================
