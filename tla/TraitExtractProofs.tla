------------------------- MODULE TraitExtractProofs -------------------------
(***************************************************************************)
(* Proofs about extract_traits (TraitExtract) for every alphabet of        *)
(* symbols and every file length: the brace walk of audit_traits.py        *)
(* delimits every body at the brace that matches its header.               *)
(***************************************************************************)
EXTENDS TraitExtract, SequenceTheorems, FiniteSetTheorems, TLAPS

\* The positions h+1..q of the file that hold a symbol of C.
Hits(C, h, q) == {i \in (h + 1)..q : content[i] \in C}

Opens == {"lb", "hdr"}

LEMMA TextsAreSeqs == Texts \subseteq Seq(Alphabet)
<1>1. SUFFICES ASSUME NEW n \in 0..MaxLen, NEW t \in [1..n -> Alphabet]
               PROVE  t \in Seq(Alphabet)
  BY DEF Texts
<1>2. n \in Nat
  BY ExtractAssumption
<1>. QED
  BY <1>2

\* A set of positions of an interval is finite and has a natural size.
LEMMA IntervalSubset ==
    ASSUME NEW a \in Int, NEW b \in Int, NEW S \in SUBSET (a..b)
    PROVE  IsFiniteSet(S) /\ Cardinality(S) \in Nat
<1>1. IsFiniteSet(a..b)
  BY FS_Interval
<1>2. IsFiniteSet(S)
  BY <1>1, FS_Subset
<1>. QED
  BY <1>2, FS_CardinalityType

\* Extending the range by one position adds that position's hit, if any.
LEMMA HitsStep ==
    ASSUME NEW C, NEW h \in Int, NEW q \in Int, q >= h
    PROVE  /\ Cardinality(Hits(C, h, q)) \in Nat
           /\ Cardinality(Hits(C, h, q + 1))
                 = Cardinality(Hits(C, h, q)) + (IF content[q + 1] \in C THEN 1 ELSE 0)
<1>1. IsFiniteSet(Hits(C, h, q)) /\ Cardinality(Hits(C, h, q)) \in Nat
  <2>1. h + 1 \in Int /\ Hits(C, h, q) \in SUBSET ((h + 1)..q)
    BY DEF Hits
  <2>. QED
    BY <2>1, IntervalSubset
<1>2. q + 1 \notin Hits(C, h, q)
  BY DEF Hits
<1>3. CASE content[q + 1] \in C
  <2>1. Hits(C, h, q + 1) = Hits(C, h, q) \cup {q + 1}
    BY <1>3 DEF Hits
  <2>. QED
    BY <1>1, <1>2, <1>3, <2>1, FS_AddElement
<1>4. CASE content[q + 1] \notin C
  <2>1. Hits(C, h, q + 1) = Hits(C, h, q)
    BY <1>4 DEF Hits
  <2>. QED
    BY <1>1, <1>4, <2>1
<1>. QED
  BY <1>1, <1>3, <1>4

LEMMA DepthHits ==
    ASSUME NEW h, NEW q
    PROVE  Depth(h, q) = 1 + Cardinality(Hits(Opens, h, q))
                           - Cardinality(Hits({"rb"}, h, q))
BY DEF Depth, Hits, Opens

\* The walk starts at depth 1 right after the header.
LEMMA DepthBase ==
    ASSUME NEW h \in Int
    PROVE  Depth(h, h) = 1
<1>1. Hits(Opens, h, h) = {} /\ Hits({"rb"}, h, h) = {}
  BY DEF Hits
<1>. QED
  BY <1>1, DepthHits, FS_EmptySet

\* One more symbol changes the depth by its BraceDelta.
LEMMA DepthStep ==
    ASSUME NEW h \in Int, NEW q \in Int, q >= h
    PROVE  /\ Depth(h, q) \in Int
           /\ Depth(h, q + 1) = Depth(h, q) + BraceDelta(content[q + 1])
<1>1. /\ Cardinality(Hits(Opens, h, q)) \in Nat
      /\ Cardinality(Hits(Opens, h, q + 1))
            = Cardinality(Hits(Opens, h, q)) + (IF content[q + 1] \in Opens THEN 1 ELSE 0)
  BY HitsStep
<1>2. /\ Cardinality(Hits({"rb"}, h, q)) \in Nat
      /\ Cardinality(Hits({"rb"}, h, q + 1))
            = Cardinality(Hits({"rb"}, h, q)) + (IF content[q + 1] \in {"rb"} THEN 1 ELSE 0)
  BY HitsStep
<1>3. BraceDelta(content[q + 1])
        = (IF content[q + 1] \in Opens THEN 1 ELSE 0)
          - (IF content[q + 1] \in {"rb"} THEN 1 ELSE 0)
  BY DEF BraceDelta, Opens
<1>. QED
  BY <1>1, <1>2, <1>3, DepthHits
-----------------------------------------------------------------------------
(***************************************************************************)
(* The inductive invariant.  While the while-loop of extract_traits runs,  *)
(* brace_count is the reference depth of the symbols walked so far and     *)
(* the depth has stayed positive before the last one: the walk has not     *)
(* yet passed the matching '}'.  BodyIsMatchedSpan alone is not inductive: *)
(* EndScan needs this fact about the walk to know which '}' it stopped at. *)
(***************************************************************************)
TraitRec == [line: Nat, header: Nat, body: Seq(Alphabet),
             closed: BOOLEAN, method_count: Nat, assoc_types: Nat]

WalkInv ==
    pc = "scan" =>
       /\ hpos \in 1..Len(content)
       /\ pos \in (hpos + 1)..(Len(content) + 1)
       /\ brace_count = Depth(hpos, pos - 1)
       /\ \A r \in (hpos + 1)..(pos - 2) : Depth(hpos, r) > 0

IInv == TypeOK /\ WalkInv /\ BodyIsMatchedSpan

\* The record EndScan appends.
NewTrait ==
    [line |-> LineOf(mstart), header |-> hpos,
     body |-> SubSeq(content, hpos + 1, pos - 2),
     closed |-> brace_count = 0,
     method_count |-> MethodCount(SubSeq(content, hpos + 1, pos - 2)),
     assoc_types |-> AssocCount(SubSeq(content, hpos + 1, pos - 2))]

\* The counts of a body are natural numbers.
LEMMA CountsNat ==
    ASSUME NEW b \in Seq(Alphabet)
    PROVE  MethodCount(b) \in Nat /\ AssocCount(b) \in Nat
<1>0. 1 \in Int /\ Len(b) \in Int
  OBVIOUS
<1>1. Cardinality({i \in 1..Len(b) : b[i] = "fn" /\ ~InComment(b, i)}) \in Nat
  <2>1. {i \in 1..Len(b) : b[i] = "fn" /\ ~InComment(b, i)} \in SUBSET (1..Len(b))
    OBVIOUS
  <2>. QED
    BY <1>0, <2>1, IntervalSubset
<1>2. Cardinality({i \in 1..Len(b) : b[i] = "ty"}) \in Nat
  <2>1. {i \in 1..Len(b) : b[i] = "ty"} \in SUBSET (1..Len(b))
    OBVIOUS
  <2>. QED
    BY <1>0, <2>1, IntervalSubset
<1>. QED
  BY <1>1, <1>2 DEF MethodCount, AssocCount

\* The line of a position is a natural number.
LEMMA LineOfNat ==
    ASSUME NEW p \in Int
    PROVE  LineOf(p) \in Nat
<1>1. {i \in 1..(p - 1) : content[i] = "nl"} \in SUBSET (1..(p - 1))
  OBVIOUS
<1>2. Cardinality({i \in 1..(p - 1) : content[i] = "nl"}) \in Nat
  <2>1. 1 \in Int /\ p - 1 \in Int
    OBVIOUS
  <2>. QED
    BY <1>1, <2>1, IntervalSubset
<1>. QED
  BY <1>2 DEF LineOf

\* A record built from naturals and a body of the file is a trait record.
LEMMA RecType ==
    ASSUME NEW l \in Nat, NEW hh \in Nat, NEW b \in Seq(Alphabet), NEW c \in BOOLEAN
    PROVE  [line |-> l, header |-> hh, body |-> b, closed |-> c,
            method_count |-> MethodCount(b), assoc_types |-> AssocCount(b)]
           \in TraitRec
BY CountsNat DEF TraitRec

LEMMA InitIInv == Init => IInv
<1>. SUFFICES ASSUME Init PROVE IInv
  OBVIOUS
<1>1. content \in Seq(Alphabet)
  BY TextsAreSeqs DEF Init
<1>2. TypeOK
  BY <1>1 DEF Init, TypeOK
<1>. QED
  BY <1>2 DEF Init, IInv, WalkInv, BodyIsMatchedSpan
\* A step that leaves the file and the records alone keeps BodyIsMatchedSpan.
LEMMA SpanUnchanged ==
    ASSUME BodyIsMatchedSpan, content' = content, traits' = traits
    PROVE  BodyIsMatchedSpan'
<1>1. \A h, q : Closes(h, q)' = Closes(h, q)
  BY DEF Closes, Depth
<1>. QED
  BY <1>1 DEF BodyIsMatchedSpan

\* finditer yields a header: the walk starts at depth 1 right after it.
LEMMA FindHeaderStep ==
    ASSUME IInv, FindHeader
    PROVE  IInv'
<1>1. content \in Seq(Alphabet) /\ Len(content) \in Nat
  BY TextsAreSeqs DEF IInv, TypeOK
<1>2. PICK p \in mpos..Len(content) :
        \E h \in p..Len(content) :
           HeaderAt(p, h) /\ mstart' = p /\ hpos' = h /\ pos' = h + 1
  BY DEF FindHeader
<1>3. PICK h \in p..Len(content) :
        HeaderAt(p, h) /\ mstart' = p /\ hpos' = h /\ pos' = h + 1
  BY <1>2
<1>4. /\ content' = content /\ mpos' = mpos /\ traits' = traits
      /\ brace_count' = 1 /\ pc' = "scan"
  BY DEF FindHeader
<1>5. mpos \in 1..(Len(content) + 1)
  BY DEF IInv, TypeOK
<1>6. TypeOK'
  BY <1>1, <1>3, <1>4, <1>5 DEF IInv, TypeOK
<1>7. Depth(h, h) = 1
  BY <1>1, <1>5, DepthBase
<1>8. WalkInv'
  <2>1. h \in 1..Len(content) /\ h + 1 \in (h + 1)..(Len(content) + 1)
    BY <1>1, <1>5
  <2>2. (h + 1)..(h + 1 - 2) = {}
    BY <1>1, <1>5
  <2>. QED
    BY <1>3, <1>4, <1>7, <2>1, <2>2 DEF WalkInv, Depth
<1>9. BodyIsMatchedSpan'
  BY <1>4, SpanUnchanged DEF IInv
<1>. QED
  BY <1>6, <1>8, <1>9 DEF IInv

\* finditer is exhausted: nothing changes but pc.
LEMMA NoMoreHeadersStep ==
    ASSUME IInv, NoMoreHeaders
    PROVE  IInv'
<1>1. TypeOK'
  BY DEF IInv, TypeOK, NoMoreHeaders
<1>2. WalkInv'
  BY DEF NoMoreHeaders, WalkInv
<1>3. BodyIsMatchedSpan'
  BY SpanUnchanged DEF IInv, NoMoreHeaders
<1>. QED
  BY <1>1, <1>2, <1>3 DEF IInv

\* One iteration of the while loop moves the walk one symbol on.
LEMMA ScanCharStep ==
    ASSUME IInv, ScanChar
    PROVE  IInv'
<1>1. content \in Seq(Alphabet) /\ Len(content) \in Nat
  BY TextsAreSeqs DEF IInv, TypeOK
<1>2. /\ hpos \in 1..Len(content)
      /\ pos \in (hpos + 1)..(Len(content) + 1)
      /\ brace_count = Depth(hpos, pos - 1)
      /\ \A r \in (hpos + 1)..(pos - 2) : Depth(hpos, r) > 0
  BY DEF IInv, WalkInv, ScanChar
<1>3. /\ pos <= Len(content) /\ brace_count > 0
      /\ brace_count' = brace_count + BraceDelta(content[pos])
      /\ pos' = pos + 1
      /\ UNCHANGED <<content, mpos, mstart, hpos, pc, traits>>
  BY DEF ScanChar
<1>4. /\ Depth(hpos, pos - 1) \in Int
      /\ Depth(hpos, pos) = Depth(hpos, pos - 1) + BraceDelta(content[pos])
  <2>1. pos - 1 \in Int /\ pos - 1 >= hpos /\ (pos - 1) + 1 = pos
    BY <1>1, <1>2
  <2>. QED
    BY <1>1, <1>2, <2>1, DepthStep
<1>5. BraceDelta(content[pos]) \in {-1, 0, 1}
  BY DEF BraceDelta
<1>6. brace_count' = Depth(hpos, pos) /\ brace_count' \in Nat
  BY <1>2, <1>3, <1>4, <1>5
<1>7. TypeOK'
  BY <1>1, <1>2, <1>3, <1>6 DEF IInv, TypeOK
<1>8. \A r \in (hpos + 1)..(pos - 1) : Depth(hpos, r) > 0
  BY <1>1, <1>2, <1>3
<1>9. WalkInv'
  BY <1>1, <1>2, <1>3, <1>6, <1>8 DEF WalkInv, Depth
<1>10. BodyIsMatchedSpan'
  BY <1>3, SpanUnchanged DEF IInv
<1>. QED
  BY <1>7, <1>9, <1>10 DEF IInv
\* When the while loop ends, brace_count is 0 exactly when the walk stopped
\* right after the brace that matches the header, and no other '}' of the
\* file matches it.
LEMMA WalkEnd ==
    ASSUME IInv, pc = "scan", ~(pos <= Len(content) /\ brace_count > 0)
    PROVE  /\ brace_count = 0 <=> \E q \in (hpos + 1)..Len(content) : Closes(hpos, q)
           /\ \A q \in (hpos + 1)..Len(content) : Closes(hpos, q) => q = pos - 1
<1>1. Len(content) \in Nat
  BY TextsAreSeqs DEF IInv, TypeOK
<1>2. /\ hpos \in 1..Len(content)
      /\ pos \in (hpos + 1)..(Len(content) + 1)
      /\ brace_count = Depth(hpos, pos - 1)
      /\ \A r \in (hpos + 1)..(pos - 2) : Depth(hpos, r) > 0
      /\ brace_count \in Nat
  BY DEF IInv, WalkInv, TypeOK
<1>3. Depth(hpos, hpos) = 1
  BY <1>1, <1>2, DepthBase
<1>4. ASSUME NEW q \in (hpos + 1)..Len(content), Closes(hpos, q)
      PROVE  q = pos - 1
  <2>1. Depth(hpos, q) = 0 /\ \A r \in (hpos + 1)..(q - 1) : Depth(hpos, r) > 0
    BY <1>4 DEF Closes
  <2>2. CASE q < pos - 1
    BY <1>1, <1>2, <2>1, <2>2
  <2>3. CASE q > pos - 1
    <3>1. brace_count = 0
      BY <1>1, <1>2, <2>3
    <3>2. CASE pos - 1 = hpos
      BY <1>2, <1>3, <3>1, <3>2
    <3>3. CASE pos - 1 # hpos
      <4>1. pos - 1 \in (hpos + 1)..(q - 1)
        BY <1>1, <1>2, <2>3, <3>3
      <4>. QED
        BY <1>2, <2>1, <3>1, <4>1
    <3>. QED
      BY <3>2, <3>3
  <2>. QED
    BY <1>1, <1>2, <2>2, <2>3
<1>5. ASSUME brace_count = 0
      PROVE  pos - 1 \in (hpos + 1)..Len(content) /\ Closes(hpos, pos - 1)
  <2>1. pos - 1 # hpos
    BY <1>2, <1>3, <1>5
  <2>2. pos - 1 \in (hpos + 1)..Len(content)
    BY <1>1, <1>2, <2>1
  <2>3. (hpos + 1)..(pos - 1 - 1) = (hpos + 1)..(pos - 2)
    BY <1>1, <1>2
  <2>. QED
    BY <1>2, <1>5, <2>2, <2>3 DEF Closes
<1>6. ASSUME NEW q \in (hpos + 1)..Len(content), Closes(hpos, q)
      PROVE  brace_count = 0
  BY <1>2, <1>4, <1>6 DEF Closes
<1>. QED
  BY <1>4, <1>5, <1>6
\* The loop is left and the record is appended: its body is the span up to
\* the matching '}', and it is closed exactly when there is one.
LEMMA EndScanStep ==
    ASSUME IInv, EndScan
    PROVE  IInv'
<1>1. content \in Seq(Alphabet) /\ Len(content) \in Nat
  BY TextsAreSeqs DEF IInv, TypeOK
<1>2. /\ pc = "scan"
      /\ ~(pos <= Len(content) /\ brace_count > 0)
      /\ traits' = Append(traits, NewTrait)
      /\ mpos' = hpos + 1
      /\ pc' = "find"
      /\ UNCHANGED <<content, mstart, hpos, pos, brace_count>>
  BY DEF EndScan, NewTrait
<1>3. /\ hpos \in 1..Len(content)
      /\ pos \in (hpos + 1)..(Len(content) + 1)
      /\ mstart \in 1..(Len(content) + 1)
      /\ brace_count \in Nat
      /\ traits \in Seq(TraitRec)
  BY <1>2 DEF IInv, WalkInv, TypeOK, TraitRec
<1>4. SubSeq(content, hpos + 1, pos - 2) \in Seq(Alphabet)
  <2>1. hpos + 1 \in Int /\ pos - 2 \in Int
    BY <1>3
  <2>2. \A i \in (hpos + 1)..(pos - 2) : content[i] \in Alphabet
    BY <1>1, <1>3
  <2>. QED
    BY <2>1, <2>2, SubSeqProperties
<1>5. NewTrait \in TraitRec
  <2>1. LineOf(mstart) \in Nat
    BY <1>3, LineOfNat
  <2>2. hpos \in Nat /\ (brace_count = 0) \in BOOLEAN
    BY <1>3
  <2>. QED
    BY <1>4, <2>1, <2>2, RecType DEF NewTrait
<1>6. /\ traits' \in Seq(TraitRec)
      /\ Len(traits') = Len(traits) + 1
      /\ \A i \in 1..Len(traits) : traits'[i] = traits[i]
      /\ traits'[Len(traits) + 1] = NewTrait
  BY <1>2, <1>3, <1>5, AppendProperties
<1>7. TypeOK'
  BY <1>1, <1>2, <1>3, <1>6 DEF IInv, TypeOK, TraitRec
<1>8. WalkInv'
  BY <1>2 DEF WalkInv
<1>9. BodyIsMatchedSpan'
  <2>1. SUFFICES ASSUME NEW i \in 1..Len(traits')
                 PROVE  /\ traits'[i].closed
                              <=> \E q \in (traits'[i].header + 1)..Len(content) :
                                     Closes(traits'[i].header, q)
                        /\ \A q \in (traits'[i].header + 1)..Len(content) :
                              Closes(traits'[i].header, q)
                              => traits'[i].body
                                 = SubSeq(content, traits'[i].header + 1, q - 1)
    <3>1. \A h, q : Closes(h, q)' = Closes(h, q)
      BY <1>2 DEF Closes, Depth
    <3>. QED
      BY <1>2, <3>1 DEF BodyIsMatchedSpan
  <2>2. CASE i \in 1..Len(traits)
    <3>1. traits'[i] = traits[i]
      BY <1>6, <2>2
    <3>. QED
      BY <2>2, <3>1 DEF IInv, BodyIsMatchedSpan
  <2>3. CASE i = Len(traits) + 1
    <3>1. /\ traits'[i].header = hpos
          /\ traits'[i].closed = (brace_count = 0)
          /\ traits'[i].body = SubSeq(content, hpos + 1, pos - 2)
      BY <1>6, <2>3 DEF NewTrait
    <3>2. /\ brace_count = 0 <=> \E q \in (hpos + 1)..Len(content) : Closes(hpos, q)
          /\ \A q \in (hpos + 1)..Len(content) : Closes(hpos, q) => q = pos - 1
      BY <1>2, WalkEnd
    <3>3. \A q \in (hpos + 1)..Len(content) :
             Closes(hpos, q) => SubSeq(content, hpos + 1, pos - 2)
                                  = SubSeq(content, hpos + 1, q - 1)
      BY <1>3, <3>2
    <3>. QED
      BY <3>1, <3>2, <3>3
  <2>. QED
    BY <1>3, <1>6, <2>2, <2>3
<1>. QED
  BY <1>7, <1>8, <1>9 DEF IInv

LEMMA NextIInv == IInv /\ [Next]_vars => IInv'
<1>. SUFFICES ASSUME IInv, [Next]_vars PROVE IInv'
  OBVIOUS
<1>1. CASE UNCHANGED vars
  <2>1. TypeOK' /\ WalkInv'
    BY <1>1 DEF vars, IInv, TypeOK, WalkInv, Depth
  <2>2. BodyIsMatchedSpan'
    BY <1>1, SpanUnchanged DEF vars, IInv
  <2>. QED
    BY <2>1, <2>2 DEF IInv
<1>. QED
  BY <1>1, FindHeaderStep, NoMoreHeadersStep, ScanCharStep, EndScanStep DEF Next

(***************************************************************************)
(* extract_traits only builds well-typed records: every trait has a line,  *)
(* a header position, a body over the file's symbols and natural counts,   *)
(* and every cursor of the finditer loop and the brace walk stays in the   *)
(* file.                                                                   *)
(***************************************************************************)
THEOREM TypeCorrect == Spec => []TypeOK
<1>1. IInv => TypeOK
  BY DEF IInv
<1>. QED
  BY <1>1, InitIInv, NextIInv, PTL DEF Spec

(***************************************************************************)
(* For every file, the brace walk of extract_traits (audit_traits.py)      *)
(* gives every trait the body between its header's '{' and the brace that  *)
(* matches it, whatever the nesting, and marks it closed exactly when that *)
(* brace exists.                                                           *)
(***************************************************************************)
THEOREM BodyIsMatchedSpanHolds == Spec => []BodyIsMatchedSpan
<1>1. IInv => BodyIsMatchedSpan
  BY DEF IInv
<1>. QED
  BY <1>1, InitIInv, NextIInv, PTL DEF Spec
=============================================================================
