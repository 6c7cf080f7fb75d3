----------------------------- MODULE TraitAudit -----------------------------
(***************************************************************************)
(* The trait audit of src/audit_traits.py (main, check_trait_usage,        *)
(* find_rust_files): one pass that extracts the traits of every file, then *)
(* for every single-method trait a fresh scan of the whole corpus that     *)
(* builds its usage profile, then its classification.                      *)
(*                                                                         *)
(* The corpus is chosen in Init and never changes: where each trait is     *)
(* declared, the facts extract_traits finds for it (modelled in detail by  *)
(* TraitExtract) and, per file and trait, how many times the three usage   *)
(* regexes of check_trait_usage match.  Every read of a file may fail (a   *)
(* decoding or I/O error); the code lets such an error escape from         *)
(* extract_traits and swallows it in check_trait_usage.                    *)
(***************************************************************************)
EXTENDS Integers, Sequences, FiniteSets, TraitClassifier
LOCAL INSTANCE FiniteSetsExt

CONSTANTS
    Files,          \* the .rs files under the root
    FileOrder,      \* the order in which Path.rglob yields them
    Traits,         \* the trait declarations of the corpus
    NoTrait,        \* no trait is being profiled
    MethodCounts,   \* method counts a declaration may have
    AssocCounts,    \* numbers of associated types a declaration may have
    GenericChoices, \* whether a declaration header may contain '<'
    ImplCounts,     \* matches of `impl.*Name` one file may hold
    DynCounts,      \* matches of `dyn Name` one file may hold
    BoundCounts     \* matches of `: Name` one file may hold

ASSUME ConstantsAssumption ==
    /\ FileOrder \in Seq(Files)
    /\ \A f \in Files : \E i \in 1..Len(FileOrder) : FileOrder[i] = f
    /\ \A i, j \in 1..Len(FileOrder) : FileOrder[i] = FileOrder[j] => i = j
    /\ NoTrait \notin Traits /\ IsFiniteSet(Traits)
    /\ MethodCounts \subseteq Nat /\ AssocCounts \subseteq Nat
    /\ GenericChoices \subseteq BOOLEAN
    /\ ImplCounts \subseteq Nat /\ DynCounts \subseteq Nat
    /\ BoundCounts \subseteq Nat

VARIABLES
    decl,         \* the file each trait is declared in
    facts,        \* what extract_traits records for each trait
    matches,      \* matches[f][t]: usage-regex matches of t's name in f
    pc,           \* "extract", "select", "scan", "done" or "crashed"
    fi,           \* index into FileOrder of the file loop under way
    all_traits,   \* the traits extracted so far
    pending,      \* single-method traits not yet classified
    cur,          \* the trait whose usage is being scanned
    usage,        \* the usage_patterns accumulator of check_trait_usage
    categorized   \* the classified traits, in the order they were classified

corpus == <<decl, facts, matches>>
vars == <<decl, facts, matches, pc, fi, all_traits, pending, cur, usage,
          categorized>>

MatchCounts == [impl: ImplCounts, dyn: DynCounts, bound: BoundCounts]

Results == [trait: Traits, category: Categories, usage: Usages(Files)]

\* find_rust_files of audit_traits.py: every .rs file, build output included.
RustFiles == FileOrder

\* The traits extract_traits returns for file f.
TraitsIn(f) == {t \in Traits : decl[t] = f}

\* by_method_count[1]: the traits main goes on to analyse.
SingleMethod(t) == facts[t].method_count = 1

\* The usage_patterns dictionary check_trait_usage starts from.
EmptyUsage ==
    [impl_count |-> 0, dyn_usage |-> 0, bound_usage |-> 0,
     impl_files |-> <<>>, dyn_files |-> <<>>, bound_files |-> <<>>]

\* Mutant: the file is listed whether or not the regex matched.
AddMatchesAlwaysList(u, f, m) ==
    [u EXCEPT !.impl_count = @ + m.impl, !.impl_files = Append(@, f),
              !.dyn_usage = @ + m.dyn, !.dyn_files = Append(@, f),
              !.bound_usage = @ + m.bound, !.bound_files = Append(@, f)]

\* The three `if re.search(...)` blocks for one file that was read: each
\* adds the number of matches and lists the file when there was one.
AddMatches(u, f, m) ==
    [u EXCEPT !.impl_count = @ + m.impl,
              !.impl_files = IF m.impl > 0 THEN Append(@, f) ELSE @,
              !.dyn_usage = @ + m.dyn,
              !.dyn_files = IF m.dyn > 0 THEN Append(@, f) ELSE @,
              !.bound_usage = @ + m.bound,
              !.bound_files = IF m.bound > 0 THEN Append(@, f) ELSE @]

Init ==
    /\ decl \in [Traits -> Files]
    /\ facts \in [Traits -> Facts(MethodCounts, AssocCounts, GenericChoices)]
    /\ matches \in [Files -> [Traits -> MatchCounts]]
    /\ pc = "extract"
    /\ fi = 1
    /\ all_traits = {}
    /\ pending = {}
    /\ cur = NoTrait
    /\ usage = EmptyUsage
    /\ categorized = <<>>

(***************************************************************************)
(* main, first loop: extract_traits(rs_file) reads one file and its traits *)
(* are added to all_traits.                                                *)
(***************************************************************************)
ExtractFile ==
    /\ pc = "extract"
    /\ fi <= Len(RustFiles)
    /\ all_traits' = all_traits \cup TraitsIn(RustFiles[fi])
    /\ fi' = fi + 1
    /\ UNCHANGED <<corpus, pc, pending, cur, usage, categorized>>

\* The open/read in extract_traits raises; nothing catches it.
ExtractReadFails ==
    /\ pc = "extract"
    /\ fi <= Len(RustFiles)
    /\ pc' = "crashed"
    /\ UNCHANGED <<corpus, fi, all_traits, pending, cur, usage, categorized>>

\* The traits are grouped by method count and the single-method ones kept.
SelectSingleMethod ==
    /\ pc = "extract"
    /\ fi > Len(RustFiles)
    /\ pending' = {t \in all_traits : SingleMethod(t)}
    /\ pc' = "select"
    /\ UNCHANGED <<corpus, fi, all_traits, cur, usage, categorized>>

\* Mutant: the file loop restarts at index 0 (an off-by-one).
BeginUsageZeroBased(t) ==
    /\ pc = "select"
    /\ t \in pending
    /\ cur' = t
    /\ usage' = EmptyUsage
    /\ fi' = 0
    /\ pc' = "scan"
    /\ UNCHANGED <<corpus, all_traits, pending, categorized>>

\* The loop over single_method_traits calls check_trait_usage for t, which
\* starts from a fresh accumulator and a fresh file list.
BeginUsage(t) ==
    /\ pc = "select"
    /\ t \in pending
    /\ cur' = t
    /\ usage' = EmptyUsage
    /\ fi' = 1
    /\ pc' = "scan"
    /\ UNCHANGED <<corpus, all_traits, pending, categorized>>

\* One iteration of check_trait_usage's loop over a file that is read.
ScanFile ==
    /\ pc = "scan"
    /\ fi <= Len(RustFiles)
    /\ usage' = AddMatches(usage, RustFiles[fi], matches[RustFiles[fi]][cur])
    /\ fi' = fi + 1
    /\ UNCHANGED <<corpus, pc, all_traits, pending, cur, categorized>>

\* The read raises and `except Exception: continue` skips the file.
ScanReadFails ==
    /\ pc = "scan"
    /\ fi <= Len(RustFiles)
    /\ fi' = fi + 1
    /\ UNCHANGED <<corpus, pc, all_traits, pending, cur, usage, categorized>>

\* check_trait_usage returns; the trait is classified and filed under its
\* category.
RecordCategory ==
    /\ pc = "scan"
    /\ fi > Len(RustFiles)
    /\ categorized' = Append(categorized,
          [trait |-> cur, category |-> Classify(facts[cur], usage).category,
           usage |-> usage])
    /\ pending' = pending \ {cur}
    /\ pc' = "select"
    /\ UNCHANGED <<corpus, fi, all_traits, cur, usage>>

\* Mutant: the report is written before the loop has finished.
SaveReportEarly ==
    /\ pc = "select"
    /\ pc' = "done"
    /\ UNCHANGED <<corpus, fi, all_traits, pending, cur, usage, categorized>>

\* Every single-method trait is classified: the report is written.
SaveReport ==
    /\ pc = "select"
    /\ pending = {}
    /\ pc' = "done"
    /\ UNCHANGED <<corpus, fi, all_traits, pending, cur, usage, categorized>>

Next ==
    \/ ExtractFile
    \/ ExtractReadFails
    \/ SelectSingleMethod
    \/ \E t \in Traits : BeginUsage(t)
    \/ ScanFile
    \/ ScanReadFails
    \/ RecordCategory
    \/ SaveReport

Spec == Init /\ [][Next]_vars

-----------------------------------------------------------------------------

TypeOK ==
    /\ decl \in [Traits -> Files]
    /\ facts \in [Traits -> Facts(MethodCounts, AssocCounts, GenericChoices)]
    /\ matches \in [Files -> [Traits -> MatchCounts]]
    /\ pc \in {"extract", "select", "scan", "done", "crashed"}
    /\ fi \in 1..(Len(RustFiles) + 1)
    /\ all_traits \subseteq Traits
    /\ pending \subseteq Traits
    /\ cur \in Traits \cup {NoTrait}
    /\ usage \in Usages(Files)
    /\ categorized \in Seq(Results)

-----------------------------------------------------------------------------
(***************************************************************************)
(* Reference: the profile check_trait_usage would return for trait t if    *)
(* exactly the files of R were read: per kind, the matches of those files  *)
(* summed, and those of them with a match listed in corpus order.          *)
(***************************************************************************)
ProfileOver(t, R) ==
    LET Total(k) == MapThenSumSet(LAMBDA f : matches[f][t][k], R)
        Hits(k)  == SelectSeq(RustFiles, LAMBDA f : f \in R /\ matches[f][t][k] > 0)
    IN  [impl_count |-> Total("impl"), dyn_usage |-> Total("dyn"),
         bound_usage |-> Total("bound"), impl_files |-> Hits("impl"),
         dyn_files |-> Hits("dyn"), bound_files |-> Hits("bound")]

ScannedFiles == {RustFiles[i] : i \in 1..(fi - 1)}

(***************************************************************************)
(* check_trait_usage: every profile, the one being built and every one     *)
(* filed with a category, is exactly the contribution of some set of files *)
(* that were read, for this trait only: a file counts for all three kinds  *)
(* or for none, the counts are the sums of the per-file match counts (not  *)
(* the number of files), and nothing is left over from an earlier trait.   *)
(***************************************************************************)
ProfileIsOfReadFiles ==
    /\ pc = "scan" => \E R \in SUBSET ScannedFiles : usage = ProfileOver(cur, R)
    /\ \A i \in 1..Len(categorized) :
          \E R \in SUBSET Files :
             categorized[i].usage = ProfileOver(categorized[i].trait, R)

(***************************************************************************)
(* A file that check_trait_usage skips because its read failed can only    *)
(* push a trait towards removal: the category the audit files is never     *)
(* more in favour of keeping the trait than the one the whole corpus gives.*)
(***************************************************************************)
SkippedFilesOnlyLeanTowardsRemoval ==
    \A i \in 1..Len(categorized) :
       LET r == categorized[i]
       IN  Rank(r.category)
             <= Rank(Classify(facts[r.trait], ProfileOver(r.trait, Files)).category)

(***************************************************************************)
(* main: once the report is written, every single-method trait of the     *)
(* corpus has been classified exactly once and no other trait has.        *)
(***************************************************************************)
ReportCoversSingleMethodTraits ==
    pc = "done" =>
       /\ {categorized[i].trait : i \in 1..Len(categorized)}
             = {t \in Traits : facts[t].method_count = 1}
       /\ Len(categorized) = Cardinality({t \in Traits : facts[t].method_count = 1})

(***************************************************************************)
(* Spec section 7: an unreadable unit is skipped and never aborts the run. *)
(***************************************************************************)
RunNeverAborts == pc # "crashed"
=============================================================================
