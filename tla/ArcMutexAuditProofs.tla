------------------------ MODULE ArcMutexAuditProofs ------------------------
(***************************************************************************)
(* Proofs about main of audit_arc_mutex.py (ArcMutexAudit) for every       *)
(* corpus: every set of files, every order rglob returns them in and every *)
(* choice of paths, occurrences and file signals.                          *)
(***************************************************************************)
EXTENDS ArcMutexAudit, SequenceTheorems, FiniteSetTheorems, TLAPS

(***************************************************************************)
(* The inductive invariant for TypeOK.  The corpus never holds more than   *)
(* MaxOcc occurrences in one file.  While a file is read a second time and *)
(* its usages are analysed, the loop is on a file of FileOrder, and        *)
(* `usages` is that file's list of occurrences.                            *)
(***************************************************************************)
AInv ==
    /\ TypeOK
    /\ \A f \in Files : Len(occ[f]) <= MaxOcc
    /\ pc \in {"read", "analyze"} => fi <= Len(FileOrder) /\ usages = occ[CurFile]

Analyses == [issues: Seq(IssueTags), recommendations: Seq(RecTags),
             severity: Severities]

\* The one-element-or-empty lists the checks append are lists of tags.
LEMMA WhenType ==
    ASSUME NEW T, NEW c \in BOOLEAN, NEW t \in T
    PROVE  When(c, t) \in Seq(T)
<1>1. <<t>> \in Seq(T) /\ <<>> \in Seq(T)
  OBVIOUS
<1>. QED
  BY <1>1 DEF When

\* Concatenated lists of tags are lists of tags.
LEMMA ConcatTags ==
    ASSUME NEW T, NEW a \in Seq(T), NEW b \in Seq(T)
    PROVE  a \o b \in Seq(T)
BY ConcatProperties

\* analyze_usage_pattern returns issues, recommendations and a severity.
LEMMA AnalyzeType ==
    ASSUME NEW o \in OccSignals, NEW s \in FileSignals
    PROVE  Analyze(o, s) \in Analyses
<1>. DEFINE issues ==
          When(o.type \in SimpleTypes, "simple_type")
          \o When(s.clone_count > 5, "many_clones")
          \o When(o.read_heavy, "read_heavy")
          \o When(~s.threading, "no_threading")
          \o When(o.defensive, "defensive")
        recs ==
          When(o.type \in SimpleTypes, "atomic")
          \o When(o.read_heavy, "rwlock")
          \o When(~s.threading, "rc_refcell")
          \o When(o.type \in SenderTypes \/ s.channel, "channels")
<1>0. /\ (o.type \in SimpleTypes) \in BOOLEAN
      /\ (s.clone_count > 5) \in BOOLEAN
      /\ o.read_heavy \in BOOLEAN /\ o.defensive \in BOOLEAN
      /\ (~s.threading) \in BOOLEAN
      /\ (o.type \in SenderTypes \/ s.channel) \in BOOLEAN
  BY DEF OccSignals, FileSignals
<1>1. issues \in Seq(IssueTags)
  <2>1. /\ When(o.type \in SimpleTypes, "simple_type") \in Seq(IssueTags)
        /\ When(s.clone_count > 5, "many_clones") \in Seq(IssueTags)
        /\ When(o.read_heavy, "read_heavy") \in Seq(IssueTags)
        /\ When(~s.threading, "no_threading") \in Seq(IssueTags)
        /\ When(o.defensive, "defensive") \in Seq(IssueTags)
    BY <1>0, WhenType DEF IssueTags
  <2>. QED
    BY <2>1, ConcatTags
<1>2. recs \in Seq(RecTags)
  <2>1. /\ When(o.type \in SimpleTypes, "atomic") \in Seq(RecTags)
        /\ When(o.read_heavy, "rwlock") \in Seq(RecTags)
        /\ When(~s.threading, "rc_refcell") \in Seq(RecTags)
        /\ When(o.type \in SenderTypes \/ s.channel, "channels") \in Seq(RecTags)
    BY <1>0, WhenType DEF RecTags
  <2>. QED
    BY <2>1, ConcatTags
<1>3. SeverityOf(Len(issues)) \in Severities
  BY DEF SeverityOf, Severities
<1>. QED
  BY <1>1, <1>2, <1>3 DEF Analyze, Analyses

\* The usage dictionary of an occurrence of a file of the corpus is a usage.
LEMMA UsageType ==
    ASSUME NEW f \in Files, NEW k \in Nat,
           occ[f][k] \in OccChoices, sig[f] \in FileChoices
    PROVE  UsageOf(f, k) \in Usages
<1>1. occ[f][k] \in OccSignals /\ sig[f] \in FileSignals
  BY ArcMutexAssumption
<1>2. occ[f][k].type \in InnerTypes
  BY <1>1 DEF OccSignals
<1>3. Analyze(occ[f][k], sig[f]) \in Analyses
  BY <1>1, AnalyzeType
<1>. QED
  BY <1>2, <1>3 DEF UsageOf, Usages, Analyses

\* Appending a usage to a list of usages.
LEMMA AppendUsage ==
    ASSUME NEW s \in Seq(Usages), NEW u \in Usages
    PROVE  Append(s, u) \in Seq(Usages)
BY AppendProperties

\* The files of FileOrder are files of the corpus.
LEMMA CurFileType ==
    ASSUME NEW i \in 1..Len(FileOrder)
    PROVE  FileOrder[i] \in Files
BY ArcMutexAssumption, ElementOfSeq

LEMMA InitAInv == Init => AInv
<1>. SUFFICES ASSUME Init PROVE AInv
  OBVIOUS
<1>1. ASSUME NEW f \in Files
      PROVE  occ[f] \in Seq(OccChoices) /\ Len(occ[f]) <= MaxOcc
  <2>1. PICK n \in 0..MaxOcc : occ[f] \in [1..n -> OccChoices]
    BY DEF Init
  <2>2. n \in Nat
    BY ArcMutexAssumption
  <2>. QED
    BY <2>1, <2>2
<1>2. Len(FileOrder) \in Nat /\ MaxOcc \in Nat
  BY ArcMutexAssumption
<1>. QED
  BY <1>1, <1>2, EmptySeq DEF Init, AInv, TypeOK

\* The facts about the current file every step of the loop relies on.
LEMMA CurFileFacts ==
    ASSUME AInv, pc \in {"read", "analyze"}
    PROVE  /\ fi \in 1..Len(FileOrder)
           /\ CurFile \in Files
           /\ usages = occ[CurFile]
           /\ Len(usages) <= MaxOcc
<1>1. fi \in 1..Len(FileOrder) /\ usages = occ[CurFile]
  BY DEF AInv, TypeOK
<1>2. CurFile \in Files
  BY <1>1, CurFileType DEF CurFile
<1>. QED
  BY <1>1, <1>2 DEF AInv

\* AInv holds after a step that keeps the corpus and leaves the other
\* variables within their types, on the file the step is on.
LEMMA AInvPrime ==
    ASSUME AInv,
           path' = path, occ' = occ, sig' = sig,
           pc' \in {"files", "read", "analyze", "done", "crashed"},
           fi' \in 1..(Len(FileOrder) + 1),
           ui' \in 1..(MaxOcc + 1),
           usages' \in Seq(OccChoices),
           all_usages' \in Seq(Usages),
           test_usages' \in Seq(Usages),
           prod_usages' \in Seq(Usages),
           report' = <<>> \/ report'.total \in Nat,
           pc' \in {"read", "analyze"} =>
              fi' <= Len(FileOrder) /\ usages' = occ[FileOrder[fi']]
    PROVE  AInv'
<1>1. TypeOK'
  BY DEF AInv, TypeOK
<1>2. (\A f \in Files : Len(occ[f]) <= MaxOcc)'
  BY DEF AInv
<1>3. (pc \in {"read", "analyze"} => fi <= Len(FileOrder) /\ usages = occ[CurFile])'
  BY DEF CurFile
<1>. QED
  BY <1>1, <1>2, <1>3 DEF AInv

LEMMA ExtractFileStep ==
    ASSUME AInv, ExtractFile
    PROVE  AInv'
<1>1. fi \in 1..Len(FileOrder) /\ CurFile \in Files
  BY CurFileType DEF AInv, TypeOK, ExtractFile, CurFile
<1>2. /\ occ[CurFile] \in Seq(OccChoices)
      /\ Len(FileOrder) \in Nat /\ MaxOcc \in Nat
      /\ ui \in 1..(MaxOcc + 1)
      /\ all_usages \in Seq(Usages) /\ test_usages \in Seq(Usages)
      /\ prod_usages \in Seq(Usages)
      /\ report = <<>> \/ report.total \in Nat
  BY <1>1, ArcMutexAssumption DEF AInv, TypeOK
<1>3. /\ usages' = occ[CurFile]
      /\ UNCHANGED <<path, occ, sig, ui, all_usages, test_usages,
                     prod_usages, report>>
  BY DEF ExtractFile, corpus
<1>4. CASE occ[CurFile] = <<>>
  <2>1. fi' = fi + 1 /\ pc' = pc /\ pc = "files"
    BY <1>4 DEF ExtractFile
  <2>. QED
    BY <1>1, <1>2, <1>3, <2>1, AInvPrime
<1>5. CASE occ[CurFile] # <<>>
  <2>1. fi' = fi /\ pc' = "read"
    BY <1>5 DEF ExtractFile
  <2>. QED
    BY <1>1, <1>2, <1>3, <2>1, AInvPrime DEF CurFile
<1>. QED
  BY <1>4, <1>5

LEMMA AnalyzeUsageStep ==
    ASSUME AInv, AnalyzeUsage
    PROVE  AInv'
<1>1. /\ fi \in 1..Len(FileOrder) /\ CurFile \in Files
      /\ usages = occ[CurFile] /\ Len(usages) <= MaxOcc
  BY CurFileFacts DEF AnalyzeUsage
<1>2. ui \in 1..Len(usages) /\ ui' = ui + 1
  BY DEF AInv, TypeOK, AnalyzeUsage
<1>3. UsageOf(CurFile, ui) \in Usages
  <2>1. usages \in Seq(OccChoices) /\ sig \in [Files -> FileChoices]
    BY DEF AInv, TypeOK
  <2>2. occ[CurFile][ui] \in OccChoices
    BY <1>1, <1>2, <2>1, ElementOfSeq
  <2>. QED
    BY <1>1, <1>2, <2>1, <2>2, UsageType
<1>4. /\ all_usages' \in Seq(Usages)
      /\ test_usages' \in Seq(Usages)
      /\ prod_usages' \in Seq(Usages)
  <2>1. all_usages \in Seq(Usages) /\ test_usages \in Seq(Usages)
        /\ prod_usages \in Seq(Usages)
    BY DEF AInv, TypeOK
  <2>2. all_usages' = Append(all_usages, UsageOf(CurFile, ui))
    BY DEF AnalyzeUsage
  <2>3. CASE IsTestFile(path[CurFile])
    <3>1. test_usages' = Append(test_usages, UsageOf(CurFile, ui))
          /\ prod_usages' = prod_usages
      BY <2>3 DEF AnalyzeUsage
    <3>. QED
      BY <1>3, <2>1, <2>2, <3>1, AppendUsage
  <2>4. CASE ~IsTestFile(path[CurFile])
    <3>1. prod_usages' = Append(prod_usages, UsageOf(CurFile, ui))
          /\ test_usages' = test_usages
      BY <2>4 DEF AnalyzeUsage
    <3>. QED
      BY <1>3, <2>1, <2>2, <3>1, AppendUsage
  <2>. QED
    BY <2>3, <2>4
<1>5. ui + 1 \in 1..(MaxOcc + 1)
  BY <1>1, <1>2, ArcMutexAssumption DEF AInv, TypeOK
<1>6. /\ UNCHANGED <<path, occ, sig, pc, fi, usages, report>>
      /\ pc = "analyze"
  BY DEF AnalyzeUsage, corpus
<1>7. /\ usages \in Seq(OccChoices) /\ fi \in 1..(Len(FileOrder) + 1)
      /\ report = <<>> \/ report.total \in Nat
  BY DEF AInv, TypeOK
<1>. QED
  BY <1>1, <1>2, <1>4, <1>5, <1>6, <1>7, AInvPrime DEF CurFile

\* The facts of AInv every step keeps as they are.
LEMMA AInvTypes ==
    ASSUME AInv
    PROVE  /\ pc \in {"files", "read", "analyze", "done", "crashed"}
           /\ fi \in 1..(Len(FileOrder) + 1)
           /\ ui \in 1..(MaxOcc + 1)
           /\ usages \in Seq(OccChoices)
           /\ all_usages \in Seq(Usages)
           /\ test_usages \in Seq(Usages)
           /\ prod_usages \in Seq(Usages)
           /\ report = <<>> \/ report.total \in Nat
           /\ Len(FileOrder) \in Nat /\ MaxOcc \in Nat
BY ArcMutexAssumption DEF AInv, TypeOK

LEMMA SaveReportStep ==
    ASSUME AInv, SaveReport
    PROVE  AInv'
<1>1. report'.total = Len(all_usages) /\ pc' = "done"
  BY DEF SaveReport
<1>2. UNCHANGED <<path, occ, sig, fi, ui, usages, all_usages, test_usages,
                  prod_usages>>
  BY DEF SaveReport, corpus
<1>. QED
  BY <1>1, <1>2, AInvTypes, AInvPrime

LEMMA NextAInv == AInv /\ [Next]_vars => AInv'
<1>. SUFFICES ASSUME AInv, [Next]_vars PROVE AInv'
  OBVIOUS
<1>0. ASSUME ExtractReadFails \/ ReadContent \/ ReadContentFails \/ EndFile
      PROVE  UNCHANGED <<path, occ, sig, all_usages, test_usages, prod_usages, report>>
  BY <1>0 DEF corpus, ExtractReadFails, ReadContent, ReadContentFails, EndFile
<1>1. CASE ExtractFile
  BY <1>1, ExtractFileStep
<1>2. CASE ExtractReadFails
  <2>1. pc' = "crashed" /\ UNCHANGED <<fi, ui, usages>>
    BY <1>2 DEF ExtractReadFails
  <2>. QED
    BY <1>0, <1>2, <2>1, AInvTypes, AInvPrime DEF ExtractReadFails
<1>3. CASE ReadContent
  <2>1. pc' = "analyze" /\ ui' = 1 /\ UNCHANGED <<fi, usages>> /\ pc = "read"
    BY <1>3 DEF ReadContent
  <2>2. fi <= Len(FileOrder) /\ usages = occ[FileOrder[fi]]
    BY <2>1 DEF AInv, CurFile
  <2>. QED
    BY <1>0, <1>3, <2>1, <2>2, AInvTypes, AInvPrime DEF ReadContent
<1>4. CASE ReadContentFails
  <2>1. pc' = "crashed" /\ UNCHANGED <<fi, ui, usages>>
    BY <1>4 DEF ReadContentFails
  <2>. QED
    BY <1>0, <1>4, <2>1, AInvTypes, AInvPrime DEF ReadContentFails
<1>5. CASE AnalyzeUsage
  BY <1>5, AnalyzeUsageStep
<1>6. CASE EndFile
  <2>1. pc' = "files" /\ fi' = fi + 1 /\ UNCHANGED <<ui, usages>> /\ pc = "analyze"
    BY <1>6 DEF EndFile
  <2>2. fi <= Len(FileOrder)
    BY <2>1 DEF AInv
  <2>. QED
    BY <1>0, <1>6, <2>1, <2>2, AInvTypes, AInvPrime DEF EndFile
<1>7. CASE SaveReport
  BY <1>7, SaveReportStep
<1>8. CASE UNCHANGED vars
  <2>1. UNCHANGED <<path, occ, sig, pc, fi, ui, usages, all_usages,
                    test_usages, prod_usages, report>>
    BY <1>8 DEF vars, corpus
  <2>. QED
    BY <2>1, AInvTypes, AInvPrime DEF AInv, CurFile
<1>. QED
  BY <1>1, <1>2, <1>3, <1>4, <1>5, <1>6, <1>7, <1>8 DEF Next

(***************************************************************************)
(* main of audit_arc_mutex.py only builds well-typed state for every       *)
(* corpus: the file and usage cursors stay within the file order and one   *)
(* past the largest file, and every usage it files names a file of the     *)
(* corpus, an inner type and an analysis made of the issue and             *)
(* recommendation tags analyze_usage_pattern appends and a severity.       *)
(***************************************************************************)
THEOREM TypeCorrect == Spec => []TypeOK
<1>1. AInv => TypeOK
  BY DEF AInv
<1>. QED
  BY <1>1, InitAInv, NextAInv, PTL DEF Spec
-----------------------------------------------------------------------------
(***************************************************************************)
(* The three lists of main.  AllSeen is the set of occurrences the loop    *)
(* has passed: those of the files before the current one and, while a      *)
(* file is analysed, its lines before the current usage.  all_usages holds *)
(* exactly those, test_usages those of test files and prod_usages those of *)
(* production files, each list in corpus order and each usage with the     *)
(* analysis of its own occurrence; once the loop has passed every file,    *)
(* SaveReport dumps the report built from the three lists.                 *)
(***************************************************************************)
AllSeen ==
    {fk \in OccOf(Files) :
        \/ FilePos(fk[1]) < fi
        \/ pc = "analyze" /\ fk[1] = CurFile /\ fk[2] < ui}

SeenOf(F) == {fk \in AllSeen : fk[1] \in F}

InCorpusOrder(L) ==
    /\ \A i \in 1..Len(L) : L[i] = UsageOf(L[i].file, L[i].line)
    /\ \A i, j \in 1..Len(L) : i < j => CorpusBefore(L[i], L[j])

\* The report SaveReport writes, from the lists as they are.
SavedReport ==
    [total |-> Len(all_usages), test |-> Len(test_usages),
     production |-> Len(prod_usages),
     by_severity |-> [sv \in Severities |-> BySeverityCount(sv)],
     unique_types |-> Cardinality(TypesOf(prod_usages)),
     production_usages |-> prod_usages,
     top_files |-> TopFiles]

OrderInv ==
    /\ KeysOf(all_usages) = AllSeen
    /\ KeysOf(test_usages) = SeenOf(TestFiles)
    /\ KeysOf(prod_usages) = SeenOf(ProdFiles)
    /\ InCorpusOrder(all_usages)
    /\ InCorpusOrder(test_usages)
    /\ InCorpusOrder(prod_usages)
    /\ pc = "done" => /\ fi = Len(FileOrder) + 1
                      /\ report = SavedReport

\* FilePos inverts FileOrder, which lists every file once.
LEMMA FilePosFacts ==
    /\ \A f \in Files : FilePos(f) \in 1..Len(FileOrder) /\ FileOrder[FilePos(f)] = f
    /\ \A j \in 1..Len(FileOrder) : FilePos(FileOrder[j]) = j
<1>1. \A f \in Files : FilePos(f) \in 1..Len(FileOrder) /\ FileOrder[FilePos(f)] = f
  BY ArcMutexAssumption DEF FilePos
<1>2. ASSUME NEW j \in 1..Len(FileOrder) PROVE FilePos(FileOrder[j]) = j
  <2>1. FileOrder[j] \in Files
    BY CurFileType
  <2>2. FilePos(FileOrder[j]) \in 1..Len(FileOrder)
        /\ FileOrder[FilePos(FileOrder[j])] = FileOrder[j]
    BY <1>1, <2>1
  <2>. QED
    BY <2>2, ArcMutexAssumption
<1>. QED
  BY <1>1, <1>2

\* The occurrences are the pairs of a file and one of its line positions.
LEMMA OccOfMem ==
    ASSUME NEW fk
    PROVE  fk \in OccOf(Files)
             <=> \E f \in Files : \E k \in 1..Len(occ[f]) : fk = <<f, k>>
BY DEF OccOf

LEMMA OccElem ==
    ASSUME NEW fk \in OccOf(Files)
    PROVE  /\ fk[1] \in Files
           /\ fk[2] \in 1..Len(occ[fk[1]])
           /\ fk = <<fk[1], fk[2]>>
<1>1. PICK f \in Files : \E k \in 1..Len(occ[f]) : fk = <<f, k>>
  BY OccOfMem
<1>2. PICK k \in 1..Len(occ[f]) : fk = <<f, k>>
  BY <1>1
<1>. QED
  BY <1>1, <1>2

\* The occurrences of a set of files are those of the corpus in its files.
LEMMA OccOfPart ==
    ASSUME NEW F \in SUBSET Files
    PROVE  OccOf(F) = {fk \in OccOf(Files) : fk[1] \in F}
<1>1. ASSUME NEW fk \in OccOf(F) PROVE fk \in OccOf(Files) /\ fk[1] \in F
  <2>1. PICK f \in F : \E k \in 1..Len(occ[f]) : fk = <<f, k>>
    BY DEF OccOf
  <2>. QED
    BY <2>1 DEF OccOf
<1>2. ASSUME NEW fk \in OccOf(Files), fk[1] \in F PROVE fk \in OccOf(F)
  BY <1>2, OccElem DEF OccOf
<1>. QED
  BY <1>1, <1>2

\* The only file at the position of the current file is the current file.
LEMMA AtCurFile ==
    ASSUME NEW f \in Files, NEW i \in 1..Len(FileOrder)
    PROVE  FilePos(f) = i <=> f = FileOrder[i]
BY FilePosFacts

\* Appending a usage adds its (file, line) pair.
LEMMA KeysAppend ==
    ASSUME NEW S, NEW s \in Seq(S), NEW u \in S
    PROVE  KeysOf(Append(s, u)) = KeysOf(s) \cup {<<u.file, u.line>>}
<1>1. /\ Len(Append(s, u)) = Len(s) + 1
      /\ \A i \in 1..Len(s) : Append(s, u)[i] = s[i]
      /\ Append(s, u)[Len(s) + 1] = u
      /\ Len(s) \in Nat
  BY AppendProperties, LenProperties
<1>. QED
  BY <1>1 DEF KeysOf

\* A usage that comes after every usage of a list in corpus order keeps
\* the list in corpus order when it is appended.
LEMMA AppendInOrder ==
    ASSUME NEW L \in Seq(Usages), NEW u \in Usages,
           InCorpusOrder(L),
           u = UsageOf(u.file, u.line),
           \A i \in 1..Len(L) : CorpusBefore(L[i], u)
    PROVE  InCorpusOrder(Append(L, u))
<1>. DEFINE M == Append(L, u)
<1>1. /\ Len(M) = Len(L) + 1 /\ Len(L) \in Nat
      /\ \A i \in 1..Len(L) : M[i] = L[i]
      /\ M[Len(L) + 1] = u
  BY AppendProperties, LenProperties
<1>2. \A i \in 1..Len(M) : M[i] = UsageOf(M[i].file, M[i].line)
  BY <1>1 DEF InCorpusOrder
<1>3. \A i, j \in 1..Len(M) : i < j => CorpusBefore(M[i], M[j])
  <2>1. SUFFICES ASSUME NEW i \in 1..Len(M), NEW j \in 1..Len(M), i < j
                 PROVE  CorpusBefore(M[i], M[j])
    OBVIOUS
  <2>2. CASE j = Len(L) + 1
    BY <1>1, <2>1, <2>2
  <2>3. CASE j # Len(L) + 1
    <3>1. i \in 1..Len(L) /\ j \in 1..Len(L)
      BY <1>1, <2>1, <2>3
    <3>. QED
      BY <1>1, <2>1, <3>1 DEF InCorpusOrder
  <2>. QED
    BY <2>2, <2>3
<1>. QED
  BY <1>2, <1>3 DEF InCorpusOrder

\* While a file is analysed, every usage already listed comes before the
\* usage of the current line in corpus order.
LEMMA SeenBefore ==
    ASSUME AInv, pc = "analyze",
           NEW L, KeysOf(L) \subseteq AllSeen, NEW i \in 1..Len(L)
    PROVE  CorpusBefore(L[i], UsageOf(CurFile, ui))
<1>1. fi \in 1..Len(FileOrder) /\ CurFile \in Files
  BY CurFileFacts
<1>2. FilePos(CurFile) = fi
  BY <1>1, FilePosFacts DEF CurFile
<1>3. <<L[i].file, L[i].line>> \in AllSeen
  BY DEF KeysOf
<1>4. FilePos(L[i].file) < fi \/ (L[i].file = CurFile /\ L[i].line < ui)
  BY <1>3 DEF AllSeen
<1>. QED
  BY <1>2, <1>4 DEF CorpusBefore, UsageOf

\* AllSeen and its parts after a step that keeps the corpus.
LEMMA SeenPrime ==
    ASSUME path' = path, occ' = occ
    PROVE  /\ AllSeen' = {fk \in OccOf(Files) :
                            \/ FilePos(fk[1]) < fi'
                            \/ pc' = "analyze" /\ fk[1] = FileOrder[fi'] /\ fk[2] < ui'}
           /\ SeenOf(TestFiles)' = {fk \in AllSeen' : fk[1] \in TestFiles}
           /\ SeenOf(ProdFiles)' = {fk \in AllSeen' : fk[1] \in ProdFiles}
BY DEF AllSeen, SeenOf, OccOf, TestFiles, ProdFiles, CurFile

\* OrderInv holds after a step that keeps the corpus, the three lists and
\* AllSeen, and that ends the loop only past the last file and with the
\* report of the lists.
LEMMA OrderFrame ==
    ASSUME OrderInv,
           path' = path, occ' = occ, sig' = sig,
           all_usages' = all_usages, test_usages' = test_usages,
           prod_usages' = prod_usages, AllSeen' = AllSeen,
           pc' = "done" => /\ fi' = Len(FileOrder) + 1
                           /\ report' = SavedReport
    PROVE  OrderInv'
<1>1. \A f, k : UsageOf(f, k)' = UsageOf(f, k)
  BY DEF UsageOf
<1>2. SavedReport' = SavedReport
  <2>1. /\ \A f : ByFileCount(f)' = ByFileCount(f)
        /\ FileKeys' = FileKeys
        /\ \A f, g : InsertedBefore(g, f)' = InsertedBefore(g, f)
    BY DEF ByFileCount, FileKeys, InsertedBefore
  <2>2. \A f, g : SortedBefore(g, f)' = SortedBefore(g, f)
    BY <2>1 DEF SortedBefore
  <2>3. \A f : SortedPos(f)' = SortedPos(f)
    BY <2>1, <2>2 DEF SortedPos
  <2>4. TopFiles' = TopFiles
    BY <2>1, <2>3 DEF TopFiles
  <2>. QED
    BY <2>4 DEF SavedReport, BySeverityCount, ByFileCount, TypesOf
<1>3. SeenOf(TestFiles)' = SeenOf(TestFiles) /\ SeenOf(ProdFiles)' = SeenOf(ProdFiles)
  BY SeenPrime DEF SeenOf
<1>. QED
  BY <1>1, <1>2, <1>3 DEF OrderInv, InCorpusOrder, KeysOf

LEMMA InitOrder == Init => OrderInv
<1>. SUFFICES ASSUME Init PROVE OrderInv
  OBVIOUS
<1>1. AllSeen = {}
  <2>1. ASSUME NEW fk \in OccOf(Files) PROVE FilePos(fk[1]) \in 1..Len(FileOrder)
    BY OccElem, FilePosFacts
  <2>2. fi = 1 /\ pc = "files"
    BY DEF Init
  <2>3. \A fk \in OccOf(Files) : ~(FilePos(fk[1]) < fi) /\ pc # "analyze"
    BY <2>1, <2>2
  <2>. QED
    BY <2>3, Zenon DEF AllSeen
<1>2. SeenOf(TestFiles) = {} /\ SeenOf(ProdFiles) = {}
  BY <1>1 DEF SeenOf
<1>3. /\ all_usages = <<>> /\ test_usages = <<>> /\ prod_usages = <<>>
      /\ pc = "files"
  BY DEF Init
<1>4. KeysOf(<<>>) = {} /\ InCorpusOrder(<<>>)
  BY EmptySeq DEF KeysOf, InCorpusOrder
<1>. QED
  BY <1>1, <1>2, <1>3, <1>4 DEF OrderInv

\* EndFile: the lines of the file just left were all passed, so the file
\* joins the files before the cursor and AllSeen stays as it is.
LEMMA EndFileOrder ==
    ASSUME AInv, OrderInv, EndFile
    PROVE  OrderInv'
<1>1. /\ fi \in 1..Len(FileOrder) /\ CurFile \in Files
      /\ usages = occ[CurFile]
  BY CurFileFacts DEF EndFile
<1>2. /\ ui > Len(usages) /\ ui \in Int /\ fi' = fi + 1 /\ pc' = "files"
      /\ pc = "analyze"
      /\ UNCHANGED <<path, occ, sig, all_usages, test_usages, prod_usages>>
  BY DEF EndFile, corpus, AInv, TypeOK
<1>3. AllSeen' = AllSeen
  <2>1. AllSeen' = {fk \in OccOf(Files) : FilePos(fk[1]) < fi + 1}
    BY <1>2, SeenPrime
  <2>2. ASSUME NEW fk \in OccOf(Files)
        PROVE  (FilePos(fk[1]) < fi + 1)
                 <=> (FilePos(fk[1]) < fi \/ (fk[1] = CurFile /\ fk[2] < ui))
    <3>1. /\ fk[1] \in Files /\ fk[2] \in 1..Len(occ[fk[1]])
      BY OccElem
    <3>2. FilePos(fk[1]) \in 1..Len(FileOrder)
      BY <3>1, FilePosFacts
    <3>3. FilePos(fk[1]) = fi <=> fk[1] = CurFile
      BY <1>1, <3>1, AtCurFile DEF CurFile
    <3>4. fk[1] = CurFile => fk[2] < ui
      BY <1>1, <1>2, <3>1
    <3>. QED
      BY <1>1, <3>2, <3>3, <3>4
  <2>. QED
    BY <1>2, <2>1, <2>2 DEF AllSeen
<1>. QED
  BY <1>2, <1>3, OrderFrame

\* ExtractFile: a file without occurrences is passed at once, one with
\* some is only entered; AllSeen stays as it is.
LEMMA ExtractFileOrder ==
    ASSUME AInv, OrderInv, ExtractFile
    PROVE  OrderInv'
<1>1. /\ fi \in 1..Len(FileOrder) /\ CurFile \in Files /\ pc = "files"
      /\ UNCHANGED <<path, occ, sig, all_usages, test_usages, prod_usages>>
  BY CurFileType DEF AInv, TypeOK, ExtractFile, CurFile, corpus
<1>2. AllSeen = {fk \in OccOf(Files) : FilePos(fk[1]) < fi}
  BY <1>1 DEF AllSeen
<1>3. CASE occ[CurFile] = <<>>
  <2>1. fi' = fi + 1 /\ pc' = "files"
    BY <1>1, <1>3 DEF ExtractFile
  <2>2. AllSeen' = {fk \in OccOf(Files) : FilePos(fk[1]) < fi + 1}
    BY <1>1, <2>1, SeenPrime
  <2>3. ASSUME NEW fk \in OccOf(Files)
        PROVE  (FilePos(fk[1]) < fi + 1) <=> (FilePos(fk[1]) < fi)
    <3>1. /\ fk[1] \in Files /\ fk[2] \in 1..Len(occ[fk[1]])
      BY OccElem
    <3>2. FilePos(fk[1]) \in 1..Len(FileOrder)
      BY <3>1, FilePosFacts
    <3>3. fk[1] # CurFile
      BY <1>3, <3>1, EmptySeq
    <3>4. FilePos(fk[1]) # fi
      BY <1>1, <3>1, <3>3, AtCurFile DEF CurFile
    <3>. QED
      BY <1>1, <3>2, <3>4
  <2>. QED
    BY <1>1, <1>2, <2>1, <2>2, <2>3, OrderFrame
<1>4. CASE occ[CurFile] # <<>>
  <2>1. fi' = fi /\ pc' = "read"
    BY <1>4 DEF ExtractFile
  <2>2. AllSeen' = AllSeen
    BY <1>1, <1>2, <2>1, SeenPrime
  <2>. QED
    BY <1>1, <2>1, <2>2, OrderFrame
<1>. QED
  BY <1>3, <1>4

\* AnalyzeUsage: the usage of the current line is the next occurrence in
\* corpus order; it goes at the end of all_usages and at the end of the
\* list of its file's kind, and the other list is left alone.
LEMMA AnalyzeUsageOrder ==
    ASSUME AInv, OrderInv, AnalyzeUsage
    PROVE  OrderInv'
<1>. DEFINE u == UsageOf(CurFile, ui)
            x == <<CurFile, ui>>
<1>1. /\ fi \in 1..Len(FileOrder) /\ CurFile \in Files
      /\ usages = occ[CurFile]
  BY CurFileFacts DEF AnalyzeUsage
<1>2. /\ ui \in 1..Len(usages) /\ ui' = ui + 1
      /\ pc = "analyze" /\ pc' = "analyze" /\ fi' = fi
      /\ UNCHANGED <<path, occ, sig>>
  BY DEF AInv, TypeOK, AnalyzeUsage, corpus
<1>3. AllSeen' = AllSeen \cup {x}
  <2>1. AllSeen' = {fk \in OccOf(Files) :
                      FilePos(fk[1]) < fi \/ (fk[1] = CurFile /\ fk[2] < ui + 1)}
    BY <1>2, SeenPrime DEF CurFile
  <2>2. AllSeen = {fk \in OccOf(Files) :
                     FilePos(fk[1]) < fi \/ (fk[1] = CurFile /\ fk[2] < ui)}
    BY <1>2 DEF AllSeen
  <2>3. x \in OccOf(Files)
    BY <1>1, <1>2, OccOfMem
  <2>4. ASSUME NEW fk \in OccOf(Files)
        PROVE  (fk[1] = CurFile /\ fk[2] < ui + 1)
                 <=> (fk[1] = CurFile /\ fk[2] < ui) \/ fk = x
    <3>1. fk[2] \in Int /\ fk = <<fk[1], fk[2]>>
      BY OccElem
    <3>. QED
      BY <1>2, <3>1
  <2>. QED
    BY <2>1, <2>2, <2>3, <2>4
<1>4. /\ u \in Usages
      /\ u.file = CurFile /\ u.line = ui
      /\ u = UsageOf(u.file, u.line)
  <2>1. usages \in Seq(OccChoices) /\ sig \in [Files -> FileChoices]
    BY DEF AInv, TypeOK
  <2>2. occ[CurFile][ui] \in OccChoices
    BY <1>1, <1>2, <2>1, ElementOfSeq
  <2>3. u \in Usages
    BY <1>1, <1>2, <2>1, <2>2, UsageType
  <2>. QED
    BY <2>3 DEF UsageOf
<1>5. /\ all_usages \in Seq(Usages) /\ test_usages \in Seq(Usages)
      /\ prod_usages \in Seq(Usages)
  BY DEF AInv, TypeOK
<1>6. \A f, k : UsageOf(f, k)' = UsageOf(f, k)
  BY <1>2 DEF UsageOf
<1>7. \A L : KeysOf(L) \subseteq AllSeen =>
             \A i \in 1..Len(L) : CorpusBefore(L[i], u)
  BY <1>2, SeenBefore
<1>8. /\ SeenOf(TestFiles)' = {fk \in AllSeen \cup {x} : fk[1] \in TestFiles}
      /\ SeenOf(ProdFiles)' = {fk \in AllSeen \cup {x} : fk[1] \in ProdFiles}
  BY <1>2, <1>3, SeenPrime
<1>9. /\ all_usages' = Append(all_usages, u)
      /\ KeysOf(all_usages') = AllSeen'
      /\ InCorpusOrder(all_usages')
  <2>1. all_usages' = Append(all_usages, u)
    BY DEF AnalyzeUsage
  <2>2. KeysOf(all_usages) = AllSeen /\ InCorpusOrder(all_usages)
    BY DEF OrderInv
  <2>. QED
    BY <1>3, <1>4, <1>5, <1>7, <2>1, <2>2, KeysAppend, AppendInOrder
<1>10. SeenOf(TestFiles) \subseteq AllSeen /\ SeenOf(ProdFiles) \subseteq AllSeen
  BY DEF SeenOf
<1>11. CASE IsTestFile(path[CurFile])
  <2>1. test_usages' = Append(test_usages, u) /\ prod_usages' = prod_usages
    BY <1>11 DEF AnalyzeUsage
  <2>2. CurFile \in TestFiles /\ CurFile \notin ProdFiles
    BY <1>1, <1>11 DEF TestFiles, ProdFiles
  <2>3. /\ KeysOf(test_usages') = SeenOf(TestFiles)'
        /\ InCorpusOrder(test_usages')
    <3>1. KeysOf(test_usages) = SeenOf(TestFiles) /\ InCorpusOrder(test_usages)
      BY DEF OrderInv
    <3>2. SeenOf(TestFiles)' = SeenOf(TestFiles) \cup {x}
      BY <1>8, <2>2 DEF SeenOf
    <3>. QED
      BY <1>4, <1>5, <1>7, <1>10, <2>1, <3>1, <3>2, KeysAppend, AppendInOrder
  <2>4. KeysOf(prod_usages') = SeenOf(ProdFiles)'
    <3>1. SeenOf(ProdFiles)' = SeenOf(ProdFiles)
      BY <1>8, <2>2 DEF SeenOf
    <3>. QED
      BY <2>1, <3>1 DEF OrderInv
  <2>5. InCorpusOrder(prod_usages')
    BY <2>1 DEF OrderInv
  <2>. QED
    BY <1>2, <1>6, <1>9, <2>3, <2>4, <2>5 DEF OrderInv, InCorpusOrder
<1>12. CASE ~IsTestFile(path[CurFile])
  <2>1. prod_usages' = Append(prod_usages, u) /\ test_usages' = test_usages
    BY <1>12 DEF AnalyzeUsage
  <2>2. CurFile \in ProdFiles /\ CurFile \notin TestFiles
    BY <1>1, <1>12 DEF TestFiles, ProdFiles
  <2>3. /\ KeysOf(prod_usages') = SeenOf(ProdFiles)'
        /\ InCorpusOrder(prod_usages')
    <3>1. KeysOf(prod_usages) = SeenOf(ProdFiles) /\ InCorpusOrder(prod_usages)
      BY DEF OrderInv
    <3>2. SeenOf(ProdFiles)' = SeenOf(ProdFiles) \cup {x}
      BY <1>8, <2>2 DEF SeenOf
    <3>. QED
      BY <1>4, <1>5, <1>7, <1>10, <2>1, <3>1, <3>2, KeysAppend, AppendInOrder
  <2>4. KeysOf(test_usages') = SeenOf(TestFiles)'
    <3>1. SeenOf(TestFiles)' = SeenOf(TestFiles)
      BY <1>8, <2>2 DEF SeenOf
    <3>. QED
      BY <2>1, <3>1 DEF OrderInv
  <2>5. InCorpusOrder(test_usages')
    BY <2>1 DEF OrderInv
  <2>. QED
    BY <1>2, <1>6, <1>9, <2>3, <2>4, <2>5 DEF OrderInv, InCorpusOrder
<1>. QED
  BY <1>11, <1>12

LEMMA NextOrder == AInv /\ OrderInv /\ [Next]_vars => OrderInv'
<1>. SUFFICES ASSUME AInv, OrderInv, [Next]_vars PROVE OrderInv'
  OBVIOUS
<1>0. ASSUME ExtractReadFails \/ ReadContent \/ ReadContentFails \/ SaveReport
      PROVE  UNCHANGED <<path, occ, sig, fi, all_usages, test_usages, prod_usages>>
  BY <1>0 DEF corpus, ExtractReadFails, ReadContent, ReadContentFails, SaveReport
<1>1. CASE ExtractFile
  BY <1>1, ExtractFileOrder
<1>2. CASE ExtractReadFails \/ ReadContentFails
  <2>1. pc' = "crashed" /\ pc \in {"files", "read"}
    BY <1>2 DEF ExtractReadFails, ReadContentFails
  <2>2. AllSeen' = AllSeen
    BY <1>0, <1>2, <2>1, SeenPrime DEF AllSeen
  <2>. QED
    BY <1>0, <1>2, <2>1, <2>2, OrderFrame
<1>3. CASE ReadContent
  <2>1. pc' = "analyze" /\ ui' = 1 /\ pc = "read"
    BY <1>3 DEF ReadContent
  <2>2. ASSUME NEW fk \in OccOf(Files) PROVE ~(fk[2] < 1)
    BY OccElem
  <2>3. AllSeen' = AllSeen
    BY <1>0, <1>3, <2>1, <2>2, SeenPrime DEF AllSeen
  <2>. QED
    BY <1>0, <1>3, <2>1, <2>3, OrderFrame
<1>4. CASE AnalyzeUsage
  BY <1>4, AnalyzeUsageOrder
<1>5. CASE EndFile
  BY <1>5, EndFileOrder
<1>6. CASE SaveReport
  <2>1. /\ pc' = "done" /\ pc = "files"
        /\ report' = SavedReport
        /\ fi > Len(FileOrder)
    BY <1>6 DEF SaveReport, SavedReport, BySeverityCount, ByFileCount
  <2>2. fi = Len(FileOrder) + 1
    BY <2>1, AInvTypes
  <2>3. AllSeen' = AllSeen
    BY <1>0, <1>6, <2>1, SeenPrime DEF AllSeen
  <2>. QED
    BY <1>0, <1>6, <2>1, <2>2, <2>3, OrderFrame
<1>7. CASE UNCHANGED vars
  <2>1. UNCHANGED <<path, occ, sig, pc, fi, ui, all_usages, test_usages,
                    prod_usages, report>>
    BY <1>7 DEF vars, corpus
  <2>2. AllSeen' = AllSeen
    BY <2>1 DEF AllSeen, OccOf, CurFile
  <2>3. pc' = "done" => /\ fi' = Len(FileOrder) + 1
                        /\ report' = SavedReport
    BY <2>1 DEF OrderInv
  <2>. QED
    BY <2>1, <2>2, <2>3, OrderFrame
<1>. QED
  BY <1>1, <1>2, <1>3, <1>4, <1>5, <1>6, <1>7 DEF Next

\* Once the loop has passed every file, AllSeen is every occurrence.
LEMMA SeenAtEnd ==
    ASSUME fi = Len(FileOrder) + 1
    PROVE  AllSeen = OccOf(Files)
<1>1. ASSUME NEW fk \in OccOf(Files) PROVE FilePos(fk[1]) < fi
  BY OccElem, FilePosFacts
<1>. QED
  BY <1>1 DEF AllSeen

\* A one-to-one map of a finite set onto another gives both the same size.
LEMMA InjCard ==
    ASSUME NEW S, NEW T, NEW g, IsFiniteSet(S), g \in [S -> T],
           \A a, b \in S : g[a] = g[b] => a = b,
           \A t \in T : \E a \in S : g[a] = t
    PROVE  IsFiniteSet(T) /\ Cardinality(T) = Cardinality(S)
<1>1. g \in Bijection(S, T)
  BY DEF Bijection, Injection, Surjection, IsInjective
<1>. QED
  BY <1>1, FS_Bijection DEF ExistsBijection

\* A list in corpus order names each (file, line) pair at most once, so any
\* set of its positions has as many pairs as positions.
LEMMA KeysCard ==
    ASSUME NEW L \in Seq(Usages),
           \A i, j \in 1..Len(L) : i < j => CorpusBefore(L[i], L[j]),
           NEW S \in SUBSET (1..Len(L))
    PROVE  /\ IsFiniteSet(S)
           /\ Cardinality({<<L[i].file, L[i].line>> : i \in S}) = Cardinality(S)
<1>. DEFINE key(i) == <<L[i].file, L[i].line>>
            T == {key(i) : i \in S}
            g == [i \in S |-> key(i)]
<1>0. Len(L) \in Nat /\ Len(FileOrder) \in Nat
  BY LenProperties, ArcMutexAssumption
<1>1. IsFiniteSet(S)
  <2>1. IsFiniteSet(1..Len(L))
    BY <1>0, FS_Interval
  <2>. QED
    BY <2>1, FS_Subset
<1>2. ASSUME NEW i \in S, NEW j \in S, i < j PROVE key(i) # key(j)
  <2>1. /\ L[i] \in Usages /\ L[j] \in Usages
        /\ CorpusBefore(L[i], L[j])
    BY <1>2, ElementOfSeq
  <2>2. /\ L[i].file \in Files /\ L[j].file \in Files
        /\ L[i].line \in Int /\ L[j].line \in Int
    BY <2>1 DEF Usages
  <2>3. FilePos(L[i].file) \in Int /\ FilePos(L[j].file) \in Int
    BY <1>0, <2>2, FilePosFacts
  <2>. QED
    BY <2>1, <2>2, <2>3 DEF CorpusBefore
<1>3. \A a, b \in S : g[a] = g[b] => a = b
  BY <1>2
<1>4. g \in [S -> T] /\ \A t \in T : \E a \in S : g[a] = t
  OBVIOUS
<1>5. IsFiniteSet(T) /\ Cardinality(T) = Cardinality(S)
  BY <1>1, <1>3, <1>4, InjCard
<1>. QED
  BY <1>1, <1>5

\* The (file, line) pairs of a list in corpus order at the positions whose
\* usage lies in P are the pairs of the list whose usage lies in P.
LEMMA FilterKeys ==
    ASSUME NEW L \in Seq(Usages), InCorpusOrder(L), NEW P
    PROVE  {<<L[i].file, L[i].line>> : i \in {j \in 1..Len(L) : L[j] \in P}}
             = {fk \in KeysOf(L) : UsageOf(fk[1], fk[2]) \in P}
<1>1. \A i \in 1..Len(L) : L[i] = UsageOf(L[i].file, L[i].line)
  BY DEF InCorpusOrder
<1>. QED
  BY <1>1 DEF KeysOf

\* The length of a list in corpus order is the number of its pairs.
LEMMA LenKeys ==
    ASSUME NEW L \in Seq(Usages),
           \A i, j \in 1..Len(L) : i < j => CorpusBefore(L[i], L[j])
    PROVE  Cardinality(KeysOf(L)) = Len(L)
<1>1. Cardinality({<<L[i].file, L[i].line>> : i \in 1..Len(L)}) = Cardinality(1..Len(L))
  BY KeysCard
<1>2. Cardinality(1..Len(L)) = Len(L)
  <2>1. Len(L) \in Nat
    BY LenProperties
  <2>2. Cardinality(1..Len(L)) = IF 1 > Len(L) THEN 0 ELSE Len(L) - 1 + 1
    BY <2>1, FS_Interval
  <2>. QED
    BY <2>1, <2>2
<1>. QED
  BY <1>1, <1>2 DEF KeysOf

\* Once the report is saved, each list holds the pairs of its files.
LEMMA KeysAtDone ==
    ASSUME AInv, OrderInv, pc = "done"
    PROVE  /\ KeysOf(all_usages) = OccOf(Files)
           /\ KeysOf(test_usages) = OccOf(TestFiles)
           /\ KeysOf(prod_usages) = OccOf(ProdFiles)
           /\ report = SavedReport
<1>1. fi = Len(FileOrder) + 1 /\ report = SavedReport
  BY DEF OrderInv
<1>2. AllSeen = OccOf(Files)
  BY <1>1, SeenAtEnd
<1>3. TestFiles \subseteq Files /\ ProdFiles \subseteq Files
  BY DEF TestFiles, ProdFiles
<1>4. OccOf(TestFiles) = SeenOf(TestFiles) /\ OccOf(ProdFiles) = SeenOf(ProdFiles)
  BY <1>2, <1>3, OccOfPart DEF SeenOf
<1>. QED
  BY <1>1, <1>2, <1>4 DEF OrderInv

\* The size of a list in corpus order of the occurrences of F is CountOcc(F).
LEMMA LenCount ==
    ASSUME NEW L \in Seq(Usages), InCorpusOrder(L), NEW F, KeysOf(L) = OccOf(F)
    PROVE  Len(L) = CountOcc(F)
BY LenKeys DEF InCorpusOrder, CountOcc

\* by_severity[sv] counts the production occurrences of severity sv.
LEMMA SeverityAtDone ==
    ASSUME AInv, OrderInv, pc = "done", NEW sv \in Severities
    PROVE  BySeverityCount(sv) =
             Cardinality({fk \in OccOf(ProdFiles) :
                Analyze(occ[fk[1]][fk[2]], sig[fk[1]]).severity = sv})
<1>. DEFINE pu == prod_usages
            P == {v \in Usages : v.analysis.severity = sv}
            S == {j \in 1..Len(pu) : pu[j] \in P}
<1>1. pu \in Seq(Usages) /\ InCorpusOrder(pu)
  BY DEF AInv, TypeOK, OrderInv
<1>2. {i \in 1..Len(pu) : pu[i].analysis.severity = sv} = S
  BY <1>1, ElementOfSeq
<1>3. Cardinality({<<pu[i].file, pu[i].line>> : i \in S}) = Cardinality(S)
  BY <1>1, KeysCard DEF InCorpusOrder
<1>4. {<<pu[i].file, pu[i].line>> : i \in S}
        = {fk \in KeysOf(pu) : UsageOf(fk[1], fk[2]) \in P}
  BY <1>1, FilterKeys
<1>5. KeysOf(pu) = OccOf(ProdFiles)
  BY KeysAtDone
<1>6. ASSUME NEW fk \in OccOf(ProdFiles)
      PROVE  UsageOf(fk[1], fk[2]) \in P
               <=> Analyze(occ[fk[1]][fk[2]], sig[fk[1]]).severity = sv
  <2>1. fk \in OccOf(Files)
    BY OccOfPart DEF ProdFiles
  <2>2. fk[1] \in Files /\ fk[2] \in 1..Len(occ[fk[1]])
    BY <2>1, OccElem
  <2>3. occ[fk[1]] \in Seq(OccChoices) /\ sig[fk[1]] \in FileChoices
    BY <2>2 DEF AInv, TypeOK
  <2>4. occ[fk[1]][fk[2]] \in OccChoices
    BY <2>2, <2>3, ElementOfSeq
  <2>5. UsageOf(fk[1], fk[2]) \in Usages
    BY <2>2, <2>3, <2>4, UsageType
  <2>. QED
    BY <2>5 DEF UsageOf
<1>. QED
  BY <1>2, <1>3, <1>4, <1>5, <1>6 DEF BySeverityCount

\* The pairs of one file with each of its first m lines are m pairs.
LEMMA PairsCard ==
    ASSUME NEW x, NEW m \in Nat
    PROVE  Cardinality({<<x, k>> : k \in 1..m}) = m
<1>. DEFINE T == {<<x, k>> : k \in 1..m}
            g == [k \in 1..m |-> <<x, k>>]
<1>1. IsFiniteSet(1..m) /\ Cardinality(1..m) = IF 1 > m THEN 0 ELSE m - 1 + 1
  BY FS_Interval
<1>2. Cardinality(1..m) = m
  BY <1>1
<1>3. g \in [1..m -> T] /\ \A t \in T : \E a \in 1..m : g[a] = t
  OBVIOUS
<1>4. \A a, b \in 1..m : g[a] = g[b] => a = b
  OBVIOUS
<1>5. IsFiniteSet(T) /\ Cardinality(T) = Cardinality(1..m)
  <2>1. IsFiniteSet(1..m)
    BY <1>1
  <2>2. g \in Bijection(1..m, T)
    BY <1>3, <1>4 DEF Bijection, Injection, Surjection, IsInjective
  <2>3. ExistsBijection(1..m, T)
    BY <2>2 DEF ExistsBijection
  <2>. QED
    BY <2>1, <2>3, FS_Bijection
<1>. QED
  BY <1>2, <1>5

\* A top_files entry counts every occurrence of its file.
LEMMA FileCountAtDone ==
    ASSUME AInv, OrderInv, pc = "done", NEW f \in Files
    PROVE  ByFileCount(f) = Len(occ[f])
<1>. DEFINE al == all_usages
            S == {i \in 1..Len(al) : al[i].file = f}
            n == Len(occ[f])
            T == {<<f, k>> : k \in 1..n}
<1>1. al \in Seq(Usages) /\ InCorpusOrder(al)
  BY DEF AInv, TypeOK, OrderInv
<1>2. Cardinality({<<al[i].file, al[i].line>> : i \in S}) = Cardinality(S)
  BY <1>1, KeysCard DEF InCorpusOrder
<1>3. {<<al[i].file, al[i].line>> : i \in S} = {fk \in KeysOf(al) : fk[1] = f}
  BY DEF KeysOf
<1>4. {fk \in OccOf(Files) : fk[1] = f} = T
  BY OccElem DEF OccOf
<1>5. n \in Nat
  BY DEF AInv, TypeOK
<1>7. Cardinality(T) = n
  BY <1>5, PairsCard
<1>. QED
  BY <1>2, <1>3, <1>4, <1>7, KeysAtDone DEF ByFileCount

\* The files top_files lists are those with an occurrence.
LEMMA TopFilesAtDone ==
    ASSUME AInv, OrderInv, pc = "done"
    PROVE  {all_usages[i].file : i \in 1..Len(all_usages)}
             = {g \in Files : occ[g] # <<>>}
<1>. DEFINE al == all_usages
<1>1. KeysOf(al) = OccOf(Files)
  BY KeysAtDone
<1>2. ASSUME NEW i \in 1..Len(al) PROVE al[i].file \in Files /\ occ[al[i].file] # <<>>
  <2>1. <<al[i].file, al[i].line>> \in OccOf(Files)
    BY <1>1 DEF KeysOf
  <2>2. al[i].file \in Files /\ al[i].line \in 1..Len(occ[al[i].file])
    BY <2>1, OccElem
  <2>. QED
    BY <2>2
<1>3. ASSUME NEW h \in Files, occ[h] # <<>> PROVE \E i \in 1..Len(al) : al[i].file = h
  <2>1. Len(occ[h]) \in Nat \ {0}
    BY <1>3, EmptySeq DEF AInv, TypeOK
  <2>2. <<h, 1>> \in KeysOf(al)
    BY <1>1, <2>1 DEF OccOf
  <2>. QED
    BY <2>2 DEF KeysOf
<1>. QED
  BY <1>2, <1>3

\* FileOrder lists every file once, so the corpus is finite.
LEMMA FilesFinite == IsFiniteSet(Files)
<1>1. FileOrder \in [1..Len(FileOrder) -> Files] /\ Len(FileOrder) \in Nat
  BY ArcMutexAssumption, LenProperties
<1>2. FileOrder \in Bijection(1..Len(FileOrder), Files)
  BY <1>1, ArcMutexAssumption DEF Bijection, Injection, Surjection, IsInjective
<1>3. IsFiniteSet(1..Len(FileOrder))
  BY <1>1, FS_Interval
<1>4. ExistsBijection(1..Len(FileOrder), Files)
  BY <1>2 DEF ExistsBijection
<1>. QED
  BY <1>3, <1>4, FS_Bijection

\* The files ranked above f.
AboveOf(f) == {g \in HasOcc : RanksAbove(g, f)}

\* RanksAbove orders the files strictly and totally.
LEMMA RanksAboveOrder ==
    ASSUME NEW f \in Files, NEW g \in Files, NEW h \in Files,
           \A x \in Files : Len(occ[x]) \in Nat
    PROVE  /\ ~RanksAbove(f, f)
           /\ RanksAbove(g, f) /\ RanksAbove(h, g) => RanksAbove(h, f)
           /\ f # g => RanksAbove(f, g) \/ RanksAbove(g, f)
<1>1. FilePos(f) \in Int /\ FilePos(g) \in Int /\ FilePos(h) \in Int
  BY FilePosFacts
<1>2. f # g => FilePos(f) # FilePos(g)
  BY FilePosFacts
<1>3. Len(occ[f]) \in Nat /\ Len(occ[g]) \in Nat /\ Len(occ[h]) \in Nat
  OBVIOUS
<1>. QED
  BY <1>1, <1>2, <1>3 DEF RanksAbove

\* The files with an occurrence, and those above any file, are finitely many.
LEMMA AboveFinite ==
    ASSUME NEW f
    PROVE  /\ IsFiniteSet(HasOcc) /\ Cardinality(HasOcc) \in Nat
           /\ IsFiniteSet(AboveOf(f)) /\ Cardinality(AboveOf(f)) \in Nat
<1>1. IsFiniteSet(HasOcc)
  BY FilesFinite, FS_Subset DEF HasOcc
<1>2. IsFiniteSet(AboveOf(f))
  BY <1>1, FS_Subset DEF AboveOf
<1>. QED
  BY <1>1, <1>2, FS_CardinalityType

\* A file with occurrences ranks between 1 and their number.
LEMMA RankRange ==
    ASSUME \A x \in Files : Len(occ[x]) \in Nat, NEW f \in HasOcc
    PROVE  CorpusRank(f) \in 1..Cardinality(HasOcc)
<1>1. AboveOf(f) \subseteq HasOcc \ {f}
  BY RanksAboveOrder DEF AboveOf, HasOcc
<1>2. IsFiniteSet(HasOcc) /\ Cardinality(HasOcc) \in Nat
      /\ Cardinality(AboveOf(f)) \in Nat
  BY AboveFinite
<1>3. IsFiniteSet(HasOcc \ {f}) /\ Cardinality(HasOcc \ {f}) = Cardinality(HasOcc) - 1
  BY <1>2, FS_RemoveElement
<1>4. Cardinality(AboveOf(f)) <= Cardinality(HasOcc \ {f})
  BY <1>1, <1>3, FS_Subset
<1>. QED
  BY <1>2, <1>3, <1>4 DEF CorpusRank, AboveOf

\* A file ranked above another has a smaller rank.
LEMMA RankMono ==
    ASSUME \A x \in Files : Len(occ[x]) \in Nat,
           NEW f \in HasOcc, NEW g \in HasOcc, RanksAbove(g, f)
    PROVE  CorpusRank(g) < CorpusRank(f)
<1>1. AboveOf(g) \cup {g} \subseteq AboveOf(f)
  BY RanksAboveOrder DEF AboveOf, HasOcc
<1>2. g \notin AboveOf(g)
  BY RanksAboveOrder DEF AboveOf, HasOcc
<1>3. IsFiniteSet(AboveOf(g)) /\ IsFiniteSet(AboveOf(f))
      /\ Cardinality(AboveOf(g)) \in Nat /\ Cardinality(AboveOf(f)) \in Nat
  BY AboveFinite
<1>4. IsFiniteSet(AboveOf(g) \cup {g})
      /\ Cardinality(AboveOf(g) \cup {g}) = Cardinality(AboveOf(g)) + 1
  BY <1>2, <1>3, FS_AddElement
<1>5. Cardinality(AboveOf(g) \cup {g}) <= Cardinality(AboveOf(f))
  BY <1>1, <1>3, FS_Subset
<1>. QED
  BY <1>3, <1>4, <1>5 DEF CorpusRank, AboveOf

\* Every rank from 1 to the number of files with occurrences is taken.
LEMMA RankOnto ==
    ASSUME \A x \in Files : Len(occ[x]) \in Nat,
           NEW r \in 1..Cardinality(HasOcc)
    PROVE  \E f \in HasOcc : CorpusRank(f) = r
<1>. DEFINE n == Cardinality(HasOcc)
            I == {CorpusRank(f) : f \in HasOcc}
            rho == [f \in HasOcc |-> CorpusRank(f)]
<1>1. IsFiniteSet(HasOcc) /\ n \in Nat
  BY AboveFinite
<1>2. \A f, g \in HasOcc : CorpusRank(f) = CorpusRank(g) => f = g
  <2>1. SUFFICES ASSUME NEW f \in HasOcc, NEW g \in HasOcc, f # g
                 PROVE  CorpusRank(f) # CorpusRank(g)
    OBVIOUS
  <2>2. RanksAbove(f, g) \/ RanksAbove(g, f)
    BY <2>1, RanksAboveOrder DEF HasOcc
  <2>3. CorpusRank(f) \in Int /\ CorpusRank(g) \in Int
    BY RankRange
  <2>. QED
    BY <2>2, <2>3, RankMono
<1>3. rho \in Bijection(HasOcc, I)
  BY <1>2 DEF Bijection, Injection, Surjection, IsInjective
<1>4. ExistsBijection(HasOcc, I)
  BY <1>3 DEF ExistsBijection
<1>5. Cardinality(I) = n
  BY <1>1, <1>4, FS_Bijection
<1>6. I \subseteq 1..n
  BY RankRange
<1>7. IsFiniteSet(1..n) /\ Cardinality(1..n) = IF 1 > n THEN 0 ELSE n - 1 + 1
  BY <1>1, FS_Interval
<1>8. Cardinality(1..n) = n
  BY <1>1, <1>7
<1>9. I = 1..n
  BY <1>5, <1>6, <1>7, <1>8, FS_Subset
<1>. QED
  BY <1>9

\* by_file was filled in corpus order, so a file with occurrences was
\* inserted before another exactly when rglob returned it first.
LEMMA InsertedAtDone ==
    ASSUME AInv, OrderInv, pc = "done", NEW f \in HasOcc, NEW g \in HasOcc
    PROVE  InsertedBefore(g, f) <=> FilePos(g) < FilePos(f)
<1>. DEFINE al == all_usages
<1>1. /\ al \in Seq(Usages)
      /\ \A i, j \in 1..Len(al) : i < j => CorpusBefore(al[i], al[j])
  BY DEF AInv, TypeOK, OrderInv, InCorpusOrder
<1>2. \A i \in 1..Len(al) : al[i].file \in Files
  <2>. SUFFICES ASSUME NEW i \in 1..Len(al) PROVE al[i].file \in Files
    OBVIOUS
  <2>1. al[i] \in Usages
    BY <1>1, ElementOfSeq
  <2>. QED
    BY <2>1 DEF Usages
<1>3. \A x \in HasOcc : \E i \in 1..Len(al) : al[i].file = x
  BY TopFilesAtDone DEF HasOcc
<1>4. \A i \in 1..Len(al) : FilePos(al[i].file) \in Int
  BY <1>2, FilePosFacts
<1>5. FilePos(f) \in Int /\ FilePos(g) \in Int
  BY FilePosFacts DEF HasOcc
<1>6. Len(al) \in Nat
  BY <1>1, LenProperties
<1>7. ASSUME InsertedBefore(g, f) PROVE FilePos(g) < FilePos(f)
  <2>1. PICK i \in 1..Len(al) : al[i].file = g /\ \A j \in 1..i : al[j].file # f
    BY <1>7 DEF InsertedBefore
  <2>2. PICK j \in 1..Len(al) : al[j].file = f
    BY <1>3
  <2>3. i < j
    BY <1>6, <2>1, <2>2
  <2>4. CorpusBefore(al[i], al[j])
    BY <1>1, <2>3
  <2>5. f # g
    BY <2>1, <2>2
  <2>. QED
    BY <2>1, <2>2, <2>4, <2>5 DEF CorpusBefore
<1>8. ASSUME FilePos(g) < FilePos(f) PROVE InsertedBefore(g, f)
  <2>1. PICK i \in 1..Len(al) : al[i].file = g
    BY <1>3
  <2>2. ASSUME NEW j \in 1..i, al[j].file = f PROVE FALSE
    <3>1. f # g
      BY <1>5, <1>8
    <3>2. j < i /\ j \in 1..Len(al)
      BY <1>6, <2>1, <2>2, <3>1
    <3>3. CorpusBefore(al[j], al[i])
      BY <1>1, <3>2
    <3>. QED
      BY <1>5, <1>8, <2>1, <2>2, <3>1, <3>3 DEF CorpusBefore
  <2>. QED
    BY <2>1, <2>2 DEF InsertedBefore
<1>. QED
  BY <1>7, <1>8

\* At the end, a file's place in sorted_files is its rank in the corpus.
LEMMA SortedAtDone ==
    ASSUME AInv, OrderInv, pc = "done", NEW f \in HasOcc
    PROVE  SortedPos(f) = CorpusRank(f)
<1>1. FileKeys = HasOcc
  BY TopFilesAtDone DEF FileKeys, HasOcc
<1>2. ASSUME NEW g \in HasOcc PROVE SortedBefore(g, f) <=> RanksAbove(g, f)
  <2>1. ByFileCount(g) = Len(occ[g]) /\ ByFileCount(f) = Len(occ[f])
    BY FileCountAtDone DEF HasOcc
  <2>2. InsertedBefore(g, f) <=> FilePos(g) < FilePos(f)
    BY InsertedAtDone
  <2>. QED
    BY <2>1, <2>2 DEF SortedBefore, RanksAbove
<1>3. {g \in FileKeys : SortedBefore(g, f)} = {g \in HasOcc : RanksAbove(g, f)}
  BY <1>1, <1>2
<1>. QED
  BY <1>3 DEF SortedPos, CorpusRank

\* A file's entry in top_files carries the count and test tag the corpus
\* gives it.
LEMMA EntryAtDone ==
    ASSUME AInv, OrderInv, pc = "done", NEW f \in Files
    PROVE  [file |-> f, count |-> ByFileCount(f), is_test |-> IsTestFile(path[f])]
             = [file |-> f, count |-> Len(occ[f]), is_test |-> f \in TestFiles]
<1>1. ByFileCount(f) = Len(occ[f])
  BY FileCountAtDone
<1>2. (f \in TestFiles) <=> IsTestFile(path[f])
  BY DEF TestFiles, ProdFiles
<1>3. CASE f \in TestFiles
  <2>1. IsTestFile(path[f]) = TRUE /\ (f \in TestFiles) = TRUE
    BY <1>2, <1>3
  <2>. QED
    BY <1>1, <2>1
<1>4. CASE f \notin TestFiles
  <2>1. IsTestFile(path[f]) = FALSE /\ (f \in TestFiles) = FALSE
    BY <1>2, <1>4
  <2>. QED
    BY <1>1, <2>1
<1>. QED
  BY <1>3, <1>4

\* top_files is the corpus's files with occurrences, by rank, cut after
\* TopFilesLimit.
LEMMA TopFilesAtDoneMatch ==
    ASSUME AInv, OrderInv, pc = "done"
    PROVE  /\ Len(TopFiles) =
                IF Cardinality(HasOcc) < TopFilesLimit THEN Cardinality(HasOcc)
                                                       ELSE TopFilesLimit
           /\ \A r \in 1..Len(TopFiles) :
                LET f == TopFiles[r].file
                IN  /\ f \in HasOcc
                    /\ CorpusRank(f) = r
                    /\ TopFiles[r] =
                         [file |-> f, count |-> Len(occ[f]), is_test |-> f \in TestFiles]
<1>. DEFINE n == Cardinality(HasOcc)
            k == TopCount(n)
            F(r) == CHOOSE g \in FileKeys : SortedPos(g) = r
            E(r) == [file |-> F(r), count |-> ByFileCount(F(r)),
                     is_test |-> IsTestFile(path[F(r)])]
<1>0. \A x \in Files : Len(occ[x]) \in Nat
  BY LenProperties DEF AInv, TypeOK
<1>1. FileKeys = HasOcc
  BY TopFilesAtDone DEF FileKeys, HasOcc
<1>2. n \in Nat /\ TopFilesLimit \in Nat
  BY AboveFinite, ArcMutexAssumption
<1>3. k \in Nat /\ k <= n /\ k = IF n < TopFilesLimit THEN n ELSE TopFilesLimit
  BY <1>2 DEF TopCount
<1>4. TopFiles = [r \in 1..k |-> E(r)]
  BY <1>1 DEF TopFiles
<1>5. Len(TopFiles) = k
  <2>1. TopFiles \in [1..k -> {E(r) : r \in 1..k}]
    BY <1>4
  <2>2. TopFiles \in Seq({E(r) : r \in 1..k})
    BY <1>3, <2>1, SeqDef
  <2>3. DOMAIN TopFiles = 1..Len(TopFiles) /\ Len(TopFiles) \in Nat
    BY <2>2, LenProperties
  <2>. QED
    BY <1>3, <2>1, <2>3
<1>6. ASSUME NEW r \in 1..k
      PROVE  /\ F(r) \in HasOcc
             /\ CorpusRank(F(r)) = r
             /\ E(r) = [file |-> F(r), count |-> Len(occ[F(r)]),
                        is_test |-> F(r) \in TestFiles]
  <2>0. r \in 1..Cardinality(HasOcc)
    BY <1>2, <1>3
  <2>1. PICK g \in HasOcc : CorpusRank(g) = r
    BY <1>0, <2>0, RankOnto
  <2>2. \E x \in FileKeys : SortedPos(x) = r
    BY <1>1, <2>1, SortedAtDone
  <2>3. F(r) \in HasOcc /\ SortedPos(F(r)) = r
    BY <1>1, <2>2
  <2>4. CorpusRank(F(r)) = r
    BY <2>3, SortedAtDone
  <2>. QED
    BY <2>3, <2>4, EntryAtDone DEF HasOcc
<1>. QED
  BY <1>3, <1>4, <1>5, <1>6

\* The report main saves counts the corpus (ReportMatchesCorpus).
LEMMA ReportFromOrder ==
    ASSUME AInv, OrderInv
    PROVE  ReportMatchesCorpus
<1>. SUFFICES ASSUME pc = "done" PROVE ReportMatchesCorpus
  BY DEF ReportMatchesCorpus
<1>1. /\ all_usages \in Seq(Usages) /\ InCorpusOrder(all_usages)
      /\ test_usages \in Seq(Usages) /\ InCorpusOrder(test_usages)
      /\ prod_usages \in Seq(Usages) /\ InCorpusOrder(prod_usages)
  BY DEF AInv, TypeOK, OrderInv
<1>2. report = SavedReport
  BY KeysAtDone
<1>3. /\ report.total = CountOcc(Files)
      /\ report.production = CountOcc(ProdFiles)
      /\ report.test = CountOcc(TestFiles)
  BY <1>1, <1>2, KeysAtDone, LenCount DEF SavedReport
<1>4. \A sv \in Severities :
         report.by_severity[sv] =
            Cardinality({fk \in OccOf(ProdFiles) :
               Analyze(occ[fk[1]][fk[2]], sig[fk[1]]).severity = sv})
  BY <1>2, SeverityAtDone DEF SavedReport
<1>5. /\ Len(report.top_files) =
           IF Cardinality(HasOcc) < TopFilesLimit THEN Cardinality(HasOcc)
                                                  ELSE TopFilesLimit
      /\ \A r \in 1..Len(report.top_files) :
           LET f == report.top_files[r].file
           IN  /\ f \in HasOcc
               /\ CorpusRank(f) = r
               /\ report.top_files[r] =
                     [file |-> f, count |-> Len(occ[f]), is_test |-> f \in TestFiles]
  BY <1>2, TopFilesAtDoneMatch DEF SavedReport
<1>. QED
  BY <1>3, <1>4, <1>5 DEF ReportMatchesCorpus

\* At the end of the loop the invariants give production_usages its order.
LEMMA ProductionFromOrder ==
    ASSUME AInv, OrderInv
    PROVE  ProductionUsagesInCorpusOrder
<1>. SUFFICES ASSUME pc = "done" PROVE ProductionUsagesInCorpusOrder
  BY DEF ProductionUsagesInCorpusOrder
<1>1. KeysOf(prod_usages) = OccOf(ProdFiles) /\ report = SavedReport
  BY KeysAtDone
<1>2. report.production_usages = prod_usages
  BY <1>1 DEF SavedReport
<1>3. InCorpusOrder(prod_usages)
  BY DEF OrderInv
<1>. QED
  BY <1>1, <1>2, <1>3 DEF InCorpusOrder, ProductionUsagesInCorpusOrder

(***************************************************************************)
(* For every corpus, once main has saved the report its counts are those   *)
(* of the corpus: `total`, `production` and `test` count every occurrence, *)
(* the production ones and the test ones once each, by_severity splits the *)
(* production occurrences by the severity analyze_usage_pattern gives, and *)
(* each top_files entry counts all the occurrences of its file.            *)
(***************************************************************************)
THEOREM ReportMatchesCorpusHolds == Spec => []ReportMatchesCorpus
<1>1. Init => AInv /\ OrderInv
  BY InitAInv, InitOrder
<1>2. AInv /\ OrderInv /\ [Next]_vars => AInv' /\ OrderInv'
  BY NextAInv, NextOrder
<1>3. AInv /\ OrderInv => ReportMatchesCorpus
  BY ReportFromOrder
<1>. QED
  BY <1>1, <1>2, <1>3, PTL DEF Spec

(***************************************************************************)
(* For every corpus, the production_usages main saves list each production *)
(* occurrence once, file by file in rglob's order and line by line, each   *)
(* with the analysis of its own occurrence and file.                       *)
(***************************************************************************)
THEOREM ProductionUsagesInCorpusOrderHolds == Spec => []ProductionUsagesInCorpusOrder
<1>1. Init => AInv /\ OrderInv
  BY InitAInv, InitOrder
<1>2. AInv /\ OrderInv /\ [Next]_vars => AInv' /\ OrderInv'
  BY NextAInv, NextOrder
<1>3. AInv /\ OrderInv => ProductionUsagesInCorpusOrder
  BY ProductionFromOrder
<1>. QED
  BY <1>1, <1>2, <1>3, PTL DEF Spec
=============================================================================
