-------------------------- MODULE TraitAuditProofs --------------------------
(***************************************************************************)
(* Proofs about TraitAudit for every corpus: every value of the constants  *)
(* that satisfies ConstantsAssumption.                                     *)
(***************************************************************************)
EXTENDS TraitAudit, FiniteSetTheorems, SequenceTheorems, TLAPS

(***************************************************************************)
(* TypeOK is not inductive by itself: RecordCategory files `cur` as a      *)
(* trait, and ScanFile looks up the matches of `cur`, which is only known  *)
(* to be a trait, not NoTrait, while a scan is under way.                  *)
(***************************************************************************)
ScanHasTrait == pc = "scan" => cur \in Traits

IInv == TypeOK /\ ScanHasTrait

-----------------------------------------------------------------------------
(***************************************************************************)
(* The bookkeeping behind ReportCoversSingleMethodTraits.  While the files *)
(* are read, all_traits holds the traits of the files read so far and      *)
(* nothing is filed.  From the selection on, the filed traits and the      *)
(* pending ones together are the single-method traits, and every step of   *)
(* the loop moves one trait from pending to the report, so the report's    *)
(* length and the number pending add up to the number of such traits.     *)
(***************************************************************************)
Done == {categorized[i].trait : i \in 1..Len(categorized)}

SM == {t \in Traits : facts[t].method_count = 1}

Extracted == {t \in Traits : \E i \in 1..(fi - 1) : decl[t] = RustFiles[i]}

CoverInv ==
    /\ pc = "extract" => all_traits = Extracted /\ categorized = <<>>
    /\ pc \in {"select", "scan", "done"} =>
          /\ Done \cup pending = SM
          /\ IsFiniteSet(pending)
          /\ Len(categorized) + Cardinality(pending) = Cardinality(SM)
    /\ pc = "scan" => cur \in pending
    /\ pc = "done" => pending = {}

\* The profile check_trait_usage starts from is a well-typed accumulator.
LEMMA EmptyUsageType == EmptyUsage \in Usages(Files)
  BY DEF EmptyUsage, Usages

\* Overwriting the six fields of a profile with well-typed values keeps it
\* a profile.
LEMMA UsageUpdate ==
  ASSUME NEW u \in Usages(Files), NEW c1 \in Nat, NEW c2 \in Nat, NEW c3 \in Nat,
         NEW s1 \in Seq(Files), NEW s2 \in Seq(Files), NEW s3 \in Seq(Files)
  PROVE  [u EXCEPT !.impl_count = c1, !.impl_files = s1, !.dyn_usage = c2,
                   !.dyn_files = s2, !.bound_usage = c3, !.bound_files = s3]
           \in Usages(Files)
  BY DEF Usages
\* Adding the matches of one file keeps the accumulator well typed.
LEMMA AddMatchesType ==
  ASSUME NEW u \in Usages(Files), NEW f \in Files, NEW m \in MatchCounts
  PROVE  AddMatches(u, f, m) \in Usages(Files)
  <1>1. m.impl \in Nat /\ m.dyn \in Nat /\ m.bound \in Nat
    BY ConstantsAssumption DEF MatchCounts
  <1>2. u.impl_count \in Nat /\ u.dyn_usage \in Nat /\ u.bound_usage \in Nat
    BY DEF Usages
  <1>3. u.impl_files \in Seq(Files) /\ u.dyn_files \in Seq(Files)
        /\ u.bound_files \in Seq(Files)
    BY DEF Usages
  <1>. DEFINE Grow(s, n) == IF n > 0 THEN Append(s, f) ELSE s
  <1>4. ASSUME NEW s \in Seq(Files), NEW n PROVE Grow(s, n) \in Seq(Files)
    OBVIOUS
  <1>5. AddMatches(u, f, m) =
          [u EXCEPT !.impl_count = u.impl_count + m.impl,
                    !.impl_files = Grow(u.impl_files, m.impl),
                    !.dyn_usage = u.dyn_usage + m.dyn,
                    !.dyn_files = Grow(u.dyn_files, m.dyn),
                    !.bound_usage = u.bound_usage + m.bound,
                    !.bound_files = Grow(u.bound_files, m.bound)]
    BY DEF AddMatches
  <1>6. /\ u.impl_count + m.impl \in Nat
        /\ u.dyn_usage + m.dyn \in Nat
        /\ u.bound_usage + m.bound \in Nat
    BY <1>1, <1>2
  <1>7. /\ Grow(u.impl_files, m.impl) \in Seq(Files)
        /\ Grow(u.dyn_files, m.dyn) \in Seq(Files)
        /\ Grow(u.bound_files, m.bound) \in Seq(Files)
    BY <1>3, <1>4
  <1>. HIDE DEF Grow
  <1>8. [u EXCEPT !.impl_count = u.impl_count + m.impl,
                   !.impl_files = Grow(u.impl_files, m.impl),
                   !.dyn_usage = u.dyn_usage + m.dyn,
                   !.dyn_files = Grow(u.dyn_files, m.dyn),
                   !.bound_usage = u.bound_usage + m.bound,
                   !.bound_files = Grow(u.bound_files, m.bound)] \in Usages(Files)
    BY <1>6, <1>7, UsageUpdate
  <1>. QED
    BY <1>5, <1>8

\* The classifier always returns one of the three categories.
LEMMA ClassifyCategory ==
  ASSUME NEW t, NEW u
  PROVE  Classify(t, u).category \in Categories
  <1>. DEFINE k == KeepReasons(t, u)
               r == RemoveReasons(t, u)
  <1>1. CASE k = <<>> /\ r # <<>>
    BY <1>1 DEF Classify, CategoryOfReasons, Categories
  <1>2. CASE ~(k = <<>> /\ r # <<>>) /\ Len(k) <= 1 /\ Len(r) >= 2
    BY <1>2 DEF Classify, CategoryOfReasons, Categories
  <1>3. CASE ~(k = <<>> /\ r # <<>>) /\ ~(Len(k) <= 1 /\ Len(r) >= 2)
    BY <1>3 DEF Classify, CategoryOfReasons, Categories
  <1>. QED
    BY <1>1, <1>2, <1>3

LEMMA InitIInv == Init => IInv
  <1>. SUFFICES ASSUME Init PROVE IInv
    OBVIOUS
  <1>1. Len(RustFiles) \in Nat
    BY ConstantsAssumption DEF RustFiles
  <1>. QED
    BY <1>1, EmptyUsageType DEF Init, IInv, TypeOK, ScanHasTrait, Usages

\* The file list main walks is a list of files of the corpus.
LEMMA RustFilesType ==
    /\ Len(RustFiles) \in Nat
    /\ \A i \in 1..Len(RustFiles) : RustFiles[i] \in Files
<1>1. RustFiles \in Seq(Files)
  BY ConstantsAssumption DEF RustFiles
<1>. QED
  BY <1>1, LenProperties, ElementOfSeq

LEMMA NextIInv == IInv /\ [Next]_vars => IInv'
  <1>. SUFFICES ASSUME IInv, [Next]_vars PROVE IInv'
    OBVIOUS
  <1>. USE DEF IInv, TypeOK, ScanHasTrait, corpus, Facts, Usages, MatchCounts,
                Results
  <1>0. /\ Len(RustFiles) \in Nat
        /\ \A i \in 1..Len(RustFiles) : RustFiles[i] \in Files
    BY RustFilesType
  <1>1. CASE ExtractFile
    BY <1>0, <1>1 DEF ExtractFile, TraitsIn
  <1>2. CASE ExtractReadFails
    BY <1>2 DEF ExtractReadFails
  <1>3. CASE SelectSingleMethod
    BY <1>3 DEF SelectSingleMethod
  <1>4. ASSUME NEW t \in Traits, BeginUsage(t) PROVE IInv'
    BY <1>0, <1>4, EmptyUsageType DEF BeginUsage
  <1>5. CASE ScanFile
    <2>1. RustFiles[fi] \in Files
      BY <1>0, <1>5 DEF ScanFile
    <2>2. matches[RustFiles[fi]][cur] \in MatchCounts
      BY <1>5, <2>1 DEF ScanFile
    <2>3. usage' \in Usages(Files)
      BY <1>5, <2>1, <2>2, AddMatchesType DEF ScanFile
    <2>. QED
      BY <1>0, <1>5, <2>3 DEF ScanFile
  <1>6. CASE ScanReadFails
    BY <1>0, <1>6 DEF ScanReadFails
  <1>7. CASE RecordCategory
    <2>1. [trait |-> cur, category |-> Classify(facts[cur], usage).category,
           usage |-> usage] \in Results
      BY <1>7, ClassifyCategory DEF RecordCategory, Results
    <2>. QED
      BY <1>7, <2>1 DEF RecordCategory
  <1>8. CASE SaveReport
    BY <1>8 DEF SaveReport
  <1>9. CASE UNCHANGED vars
    BY <1>9 DEF vars
  <1>. QED
    BY <1>1, <1>2, <1>3, <1>4, <1>5, <1>6, <1>7, <1>8, <1>9 DEF Next

(***************************************************************************)
(* Every state of every audit is well typed: the accumulator of            *)
(* check_trait_usage is a usage profile, the file loop index stays within  *)
(* the file list, and every filed result names a trait and a category.     *)
(***************************************************************************)
THEOREM TypeCorrect == Spec => []TypeOK
  <1>1. Spec => []IInv
    BY InitIInv, NextIInv, PTL DEF Spec
  <1>. QED
    BY <1>1, PTL DEF IInv

LEMMA InitCover == Init => CoverInv
  BY DEF Init, CoverInv, Extracted

\* Once every file is read, all_traits is the set of all traits: each is
\* declared in a file, and find_rust_files lists every file.
LEMMA ExtractedAll ==
  ASSUME TypeOK, fi = Len(RustFiles) + 1
  PROVE  Extracted = Traits
  <1>1. \A f \in Files : \E i \in 1..Len(RustFiles) : RustFiles[i] = f
    BY ConstantsAssumption DEF RustFiles
  <1>. QED
    BY <1>1 DEF Extracted, TypeOK

LEMMA SMFinite == IsFiniteSet(SM)
  BY ConstantsAssumption, FS_Subset DEF SM

LEMMA NextCover == IInv /\ CoverInv /\ [Next]_vars => CoverInv'
  <1>. SUFFICES ASSUME IInv, CoverInv, [Next]_vars PROVE CoverInv'
    OBVIOUS
  <1>. USE DEF IInv, TypeOK
  <1>0. Len(RustFiles) \in Nat
    BY ConstantsAssumption DEF RustFiles
  <1>1. CASE ExtractFile
    <2>1. Extracted' = Extracted \cup TraitsIn(RustFiles[fi])
      BY <1>0, <1>1 DEF ExtractFile, Extracted, TraitsIn, corpus
    <2>. QED
      BY <1>1, <2>1 DEF ExtractFile, CoverInv
  <1>2. CASE ExtractReadFails
    BY <1>2 DEF ExtractReadFails, CoverInv
  <1>3. CASE SelectSingleMethod
    <2>1. fi = Len(RustFiles) + 1
      BY <1>0, <1>3 DEF SelectSingleMethod
    <2>2. all_traits = Traits
      BY <1>3, <2>1, ExtractedAll DEF SelectSingleMethod, CoverInv
    <2>3. pending' = SM /\ categorized' = <<>>
      BY <1>3, <2>2 DEF SelectSingleMethod, SingleMethod, SM, CoverInv, corpus
    <2>4. Done' = {} /\ SM' = SM
      BY <1>3, <2>3 DEF SelectSingleMethod, Done, SM, corpus
    <2>5. Cardinality(SM) \in Nat
      BY SMFinite, FS_CardinalityType
    <2>6. Len(categorized') = 0
      BY <2>3
    <2>7. /\ Done' \cup pending' = SM'
          /\ IsFiniteSet(pending')
          /\ Len(categorized') + Cardinality(pending') = Cardinality(SM')
      BY <2>3, <2>4, <2>5, <2>6, SMFinite
    <2>. QED
      BY <1>3, <2>7 DEF SelectSingleMethod, CoverInv
  <1>4. ASSUME NEW t \in Traits, BeginUsage(t) PROVE CoverInv'
    BY <1>4 DEF BeginUsage, CoverInv, Done, SM, corpus
  <1>5. CASE ScanFile
    BY <1>5 DEF ScanFile, CoverInv, Done, SM, corpus
  <1>6. CASE ScanReadFails
    BY <1>6 DEF ScanReadFails, CoverInv, Done, SM, corpus
  <1>7. CASE RecordCategory
    <2>1. cur \in pending /\ IsFiniteSet(pending)
      BY <1>7 DEF RecordCategory, CoverInv
    <2>2. IsFiniteSet(pending') /\ Cardinality(pending') = Cardinality(pending) - 1
      BY <1>7, <2>1, FS_RemoveElement DEF RecordCategory
    <2>3. Cardinality(pending) \in Nat
      BY <2>1, FS_CardinalityType
    <2>4. Done' = Done \cup {cur} /\ Len(categorized') = Len(categorized) + 1
      BY <1>7 DEF RecordCategory, Done
    <2>5. SM' = SM
      BY <1>7 DEF RecordCategory, SM, corpus
    <2>6. Done' \cup pending' = Done \cup pending
      BY <1>7, <2>1, <2>4 DEF RecordCategory
    <2>. QED
      BY <1>7, <2>2, <2>3, <2>4, <2>5, <2>6 DEF RecordCategory, CoverInv
  <1>8. CASE SaveReport
    BY <1>8 DEF SaveReport, CoverInv, Done, SM, corpus
  <1>9. CASE UNCHANGED vars
    BY <1>9 DEF vars, CoverInv, Done, SM, Extracted, corpus
  <1>. QED
    BY <1>1, <1>2, <1>3, <1>4, <1>5, <1>6, <1>7, <1>8, <1>9 DEF Next

(***************************************************************************)
(* main files every single-method trait exactly once before it writes the  *)
(* report: the traits in the report are the single-method traits of the    *)
(* whole corpus, and there are as many entries as such traits.             *)
(***************************************************************************)
THEOREM ReportCoversSingleMethod == Spec => []ReportCoversSingleMethodTraits
  <1>1. Spec => [](IInv /\ CoverInv)
    <2>1. Init => IInv /\ CoverInv
      BY InitIInv, InitCover
    <2>2. IInv /\ CoverInv /\ [Next]_vars => (IInv /\ CoverInv)'
      BY NextIInv, NextCover
    <2>. QED
      BY <2>1, <2>2, PTL DEF Spec
  <1>2. IInv /\ CoverInv => ReportCoversSingleMethodTraits
    <2>. SUFFICES ASSUME IInv, CoverInv, pc = "done"
                  PROVE  ReportCoversSingleMethodTraits
      BY DEF ReportCoversSingleMethodTraits
    <2>1. pending = {} /\ Done = SM /\ Len(categorized) = Cardinality(SM)
      BY FS_EmptySet DEF CoverInv
    <2>. QED
      BY <2>1 DEF ReportCoversSingleMethodTraits, Done, SM
  <1>. QED
    BY <1>1, <1>2, PTL
=============================================================================
