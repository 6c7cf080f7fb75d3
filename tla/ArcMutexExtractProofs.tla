----------------------- MODULE ArcMutexExtractProofs -----------------------
(***************************************************************************)
(* Proofs about the loop of extract_arc_mutex_usage (ArcMutexExtract) for  *)
(* every alphabet of line kinds and every file length.                     *)
(***************************************************************************)
EXTENDS ArcMutexExtract, SequenceTheorems, FiniteSetTheorems, TLAPS

\* What a match may hold: any line number, the group captured on some line
\* kind, and a list of lines.
MatchRecs ==
    [line: Nat, inner: {Capture(AfterPrefix(k)) : k \in LineKinds},
     context: Seq(Alphabet)]

(***************************************************************************)
(* The inductive invariant: every match recorded so far is on a line       *)
(* already scanned and carries the window Context computes for that line.  *)
(***************************************************************************)
IInv ==
    /\ lines \in Seq(Alphabet)
    /\ ln \in 1..(Len(lines) + 1)
    /\ matches \in Seq(MatchRecs)
    /\ \A i \in 1..Len(matches) :
          /\ matches[i].line \in 1..(ln - 1)
          /\ matches[i].context = Context(matches[i].line)

(***************************************************************************)
(* What OccurrencesFollowLines needs besides IInv: the loop only stops     *)
(* past the last line, and the matches are ordered by line, each on a line *)
(* with a match, with as many entries for every scanned line as the line   *)
(* has matches.                                                            *)
(***************************************************************************)
LinesOf(l) == {i \in 1..Len(matches) : matches[i].line = l}

OccInv ==
    /\ pc \in {"scan", "done"}
    /\ pc = "done" => ln = Len(lines) + 1
    /\ \A i \in 1..Len(matches) : MatchesOn(lines[matches[i].line]) > 0
    /\ \A i, j \in 1..Len(matches) : i < j => matches[i].line <= matches[j].line
    /\ \A l \in 1..(ln - 1) : Cardinality(LinesOf(l)) = MatchesOn(lines[l])

LEMMA TextsAreSeqs == Texts \subseteq Seq(Alphabet)
<1>1. SUFFICES ASSUME NEW n \in 0..MaxLines, NEW t \in [1..n -> Alphabet]
               PROVE  t \in Seq(Alphabet)
  BY DEF Texts
<1>2. n \in Nat
  BY ExtractAssumption
<1>. QED
  BY <1>2

\* A window is a list of lines of the file.
LEMMA ContextType ==
    ASSUME lines \in Seq(Alphabet), NEW n \in 1..Len(lines)
    PROVE  Context(n) \in Seq(Alphabet)
BY SubSeqProperties DEF Context

\* Advancing the line counter keeps the lines already scanned scanned.
LEMMA NextLine ==
    ASSUME NEW l \in Nat, NEW l2, l2 = l + 1
    PROVE  1..(l - 1) \subseteq 1..(l2 - 1) /\ (l \in 1..(l2 - 1) <=> l >= 1)
OBVIOUS

LEMMA InitIInv == Init => IInv
BY TextsAreSeqs DEF Init, IInv

\* The entry ScanLine appends for a match on line n.
NewMatch(n) ==
    [line |-> n, inner |-> Capture(AfterPrefix(lines[n])), context |-> Context(n)]

(***************************************************************************)
(* One ScanLine step from a state of IInv: it keeps the old entries,       *)
(* appends MatchesOn of the line (0 or 1) copies of NewMatch(ln), and      *)
(* moves to the next line.                                                 *)
(***************************************************************************)
LEMMA ScanLineStep ==
    ASSUME IInv, ScanLine
    PROVE  /\ ln \in 1..Len(lines) /\ lines[ln] \in Alphabet
           /\ ln' = ln + 1 /\ lines' = lines /\ pc' = pc
           /\ Len(matches) \in Nat /\ MatchesOn(lines[ln]) \in 0..1
           /\ matches' \in Seq(MatchRecs)
           /\ Len(matches') = Len(matches) + MatchesOn(lines[ln])
           /\ \A i \in 1..Len(matches') :
                 matches'[i] = IF i <= Len(matches) THEN matches[i]
                               ELSE NewMatch(ln)
<1> DEFINE k == lines[ln]
           new == [i \in 1..MatchesOn(k) |-> NewMatch(ln)]
<1>1. ln \in 1..Len(lines) /\ k \in Alphabet
  BY DEF ScanLine, IInv
<1>2. NewMatch(ln) \in MatchRecs
  <2>1. Alphabet \subseteq LineKinds
    BY ExtractAssumption
  <2>. QED
    BY <1>1, <2>1, ContextType DEF MatchRecs, IInv, NewMatch
<1>3. MatchesOn(k) \in 0..1
  BY DEF MatchesOn
<1>4. new \in Seq(MatchRecs) /\ Len(new) = MatchesOn(k)
  BY <1>2, <1>3
<1>5. matches' = matches \o new /\ ln' = ln + 1 /\ lines' = lines /\ pc' = pc
  BY DEF ScanLine, NewMatch
<1>6. matches \in Seq(MatchRecs) /\ Len(matches) \in Nat
  BY LenProperties DEF IInv
<1>7. /\ matches \o new \in Seq(MatchRecs)
      /\ Len(matches \o new) = Len(matches) + Len(new)
      /\ \A i \in 1..(Len(matches) + Len(new)) :
            (matches \o new)[i] = IF i <= Len(matches) THEN matches[i]
                                  ELSE new[i - Len(matches)]
  BY <1>4, <1>6, ConcatProperties
<1>8. ASSUME NEW i \in 1..Len(matches'), ~(i <= Len(matches))
      PROVE  matches'[i] = NewMatch(ln)
  <2>1. i - Len(matches) \in 1..MatchesOn(k)
    BY <1>3, <1>4, <1>5, <1>6, <1>7, <1>8
  <2>2. matches'[i] = new[i - Len(matches)]
    BY <1>5, <1>7, <1>8, Zenon
  <2>. QED
    BY <2>1, <2>2
<1>. QED
  BY <1>1, <1>3, <1>4, <1>5, <1>6, <1>7, <1>8

LEMMA NextIInv == IInv /\ [Next]_vars => IInv'
<1> SUFFICES ASSUME IInv, [Next]_vars PROVE IInv'
  OBVIOUS
<1>1. CASE ScanLine
  <2>1. /\ ln \in 1..Len(lines) /\ ln' = ln + 1 /\ lines' = lines
        /\ Len(matches) \in Nat
        /\ matches' \in Seq(MatchRecs)
        /\ \A i \in 1..Len(matches') :
              matches'[i] = IF i <= Len(matches) THEN matches[i]
                            ELSE NewMatch(ln)
    BY <1>1, ScanLineStep
  <2>6b. 1..(ln - 1) \subseteq 1..(ln' - 1) /\ ln \in 1..(ln' - 1)
    <3>1. ln \in Nat /\ ln >= 1 /\ ln' = ln + 1
      BY <2>1
    <3>. QED
      BY <3>1, NextLine
  <2>9. ASSUME NEW i \in 1..Len(matches')
        PROVE  /\ matches'[i].line \in 1..(ln' - 1)
               /\ matches'[i].context = Context(matches'[i].line)
    <3>1. CASE i <= Len(matches)
      <4>1. matches'[i] = matches[i]
        BY <2>1, <3>1
      <4>2. /\ matches[i].line \in 1..(ln - 1)
            /\ matches[i].context = Context(matches[i].line)
        BY <3>1 DEF IInv
      <4>3. matches'[i].line \in 1..(ln' - 1)
        BY <2>6b, <4>1, <4>2
      <4>4. matches'[i].context = Context(matches'[i].line)
        BY <4>1, <4>2, Zenon
      <4>. QED
        BY <4>3, <4>4
    <3>2. CASE ~(i <= Len(matches))
      <4>4. matches'[i] = NewMatch(ln)
        BY <2>1, <3>2, Zenon
      <4>5. NewMatch(ln).line = ln /\ NewMatch(ln).context = Context(ln)
        BY DEF NewMatch
      <4>6. matches'[i].line \in 1..(ln' - 1)
        BY <2>6b, <4>4, <4>5
      <4>7. matches'[i].context = Context(matches'[i].line)
        BY <4>4, <4>5, Zenon
      <4>. QED
        BY <4>6, <4>7
    <3>. QED
      BY <3>1, <3>2
  <2>10. ASSUME NEW n PROVE Context(n)' = Context(n)
    BY <2>1 DEF Context
  <2>11. ASSUME NEW i \in 1..Len(matches')
         PROVE  (/\ matches[i].line \in 1..(ln - 1)
                 /\ matches[i].context = Context(matches[i].line))'
    BY <2>9, <2>10
  <2>12. lines' \in Seq(Alphabet) /\ ln' \in 1..(Len(lines') + 1)
    BY <2>1 DEF IInv
  <2>. QED
    BY <2>1, <2>11, <2>12 DEF IInv
<1>2. CASE Finish
  BY <1>2 DEF Finish, IInv, Context
<1>3. CASE UNCHANGED vars
  BY <1>3 DEF vars, IInv, Context
<1>. QED
  BY <1>1, <1>2, <1>3 DEF Next

LEMMA IInvContext == IInv => ContextHoldsMatchLine
<1> SUFFICES ASSUME IInv, NEW i \in 1..Len(matches)
             PROVE  LET l == matches[i].line
                    IN  \E s \in (l - 3)..l, e \in l..(l + 3) :
                           /\ s >= 1 /\ e <= Len(lines)
                           /\ matches[i].context = SubSeq(lines, s, e)
  BY DEF ContextHoldsMatchLine
<1> DEFINE l == matches[i].line
          s == IF l - 2 > 1 THEN l - 2 ELSE 1
          e == IF l + 3 < Len(lines) THEN l + 3 ELSE Len(lines)
<1>1. l \in 1..Len(lines) /\ Len(lines) \in Nat
  BY DEF IInv
<1>2. /\ s \in (l - 3)..l /\ e \in l..(l + 3)
      /\ s >= 1 /\ e <= Len(lines)
  BY <1>1
<1>3. matches[i].context = SubSeq(lines, s, e)
  BY DEF IInv, Context
<1>. QED
  BY <1>2, <1>3

LEMMA InitOcc == Init => OccInv
BY DEF Init, OccInv, LinesOf

\* The entries of a line before ln stay the same when ScanLine appends
\* entries for line ln, and line ln gets exactly MatchesOn of it.
LEMMA ScanLineCounts ==
    ASSUME IInv, OccInv, ScanLine
    PROVE  \A l \in 1..ln :
              LinesOf(l)' = IF l < ln THEN LinesOf(l)
                            ELSE (Len(matches) + 1)..(Len(matches) + MatchesOn(lines[ln]))
<1>1. /\ ln \in 1..Len(lines) /\ Len(matches) \in Nat
      /\ MatchesOn(lines[ln]) \in 0..1
      /\ Len(matches') = Len(matches) + MatchesOn(lines[ln])
      /\ \A i \in 1..Len(matches') :
            matches'[i] = IF i <= Len(matches) THEN matches[i] ELSE NewMatch(ln)
  BY ScanLineStep
<1>2. NewMatch(ln).line = ln
  BY DEF NewMatch
<1>3. \A i \in 1..Len(matches) : matches[i].line \in 1..(ln - 1)
  BY DEF IInv
<1>4. ASSUME NEW i \in 1..Len(matches')
      PROVE  /\ i <= Len(matches) => matches'[i].line = matches[i].line
             /\ ~(i <= Len(matches)) => matches'[i].line = ln
  BY <1>1, <1>2
<1>5. ASSUME NEW l \in 1..(ln - 1) PROVE LinesOf(l)' = LinesOf(l)
  <2>1. ASSUME NEW i \in 1..Len(matches')
        PROVE  matches'[i].line = l <=> (i <= Len(matches) /\ matches[i].line = l)
    BY <1>1, <1>4, <1>5
  <2>2. 1..Len(matches) \subseteq 1..Len(matches')
    BY <1>1
  <2>. QED
    BY <2>1, <2>2 DEF LinesOf
<1>6. ASSUME NEW l \in {ln}
      PROVE  LinesOf(l)' = (Len(matches) + 1)..(Len(matches) + MatchesOn(lines[ln]))
  <2>1. ASSUME NEW i \in 1..Len(matches')
        PROVE  matches'[i].line = ln <=> ~(i <= Len(matches))
    BY <1>1, <1>3, <1>4
  <2>2. LinesOf(l)' = {i \in 1..Len(matches') : matches'[i].line = ln}
    BY <1>6 DEF LinesOf
  <2>3. {i \in 1..Len(matches') : matches'[i].line = ln}
          = {i \in 1..Len(matches') : ~(i <= Len(matches))}
    BY <2>1
  <2>4. {i \in 1..Len(matches') : ~(i <= Len(matches))}
          = (Len(matches) + 1)..(Len(matches) + MatchesOn(lines[ln]))
    BY <1>1
  <2>. QED
    BY <2>2, <2>3, <2>4
<1>. QED
  <2> SUFFICES ASSUME NEW l \in 1..ln
               PROVE  LinesOf(l)' = IF l < ln THEN LinesOf(l)
                           ELSE (Len(matches) + 1)..(Len(matches) + MatchesOn(lines[ln]))
    OBVIOUS
  <2>1. CASE l < ln
    BY <1>1, <1>5, <2>1
  <2>2. CASE ~(l < ln)
    BY <1>1, <1>6, <2>2
  <2>. QED
    BY <2>1, <2>2

LEMMA NextOcc == IInv /\ OccInv /\ [Next]_vars => OccInv'
<1> SUFFICES ASSUME IInv, OccInv, [Next]_vars PROVE OccInv'
  OBVIOUS
<1>1. CASE ScanLine
  <2> DEFINE L == Len(matches)
             M == MatchesOn(lines[ln])
  <2>1. /\ ln \in 1..Len(lines) /\ ln' = ln + 1 /\ lines' = lines /\ pc' = pc
        /\ L \in Nat /\ M \in 0..1 /\ Len(matches') = L + M
        /\ \A i \in 1..Len(matches') :
              matches'[i] = IF i <= L THEN matches[i] ELSE NewMatch(ln)
    BY <1>1, ScanLineStep
  <2>2. NewMatch(ln).line = ln
    BY DEF NewMatch
  <2>3. \A i \in 1..L : matches[i].line \in 1..(ln - 1)
    BY DEF IInv
  <2>4. pc' \in {"scan", "done"} /\ (pc' = "done" => ln' = Len(lines') + 1)
    BY <1>1, <2>1 DEF ScanLine, OccInv
  <2>5. \A i \in 1..Len(matches') : MatchesOn(lines'[matches'[i].line]) > 0
    <3> SUFFICES ASSUME NEW i \in 1..Len(matches')
                 PROVE  MatchesOn(lines[matches'[i].line]) > 0
      BY <2>1
    <3>1. CASE i <= L
      <4>1. i \in 1..Len(matches) /\ matches'[i] = matches[i]
        BY <2>1, <3>1
      <4>2. MatchesOn(lines[matches[i].line]) > 0
        BY <4>1 DEF OccInv
      <4>. QED
        BY <4>1, <4>2
    <3>2. CASE ~(i <= L)
      <4>1. M = 1
        BY <2>1, <3>2
      <4>2. matches'[i].line = ln
        BY <2>1, <2>2, <3>2
      <4>. QED
        BY <4>1, <4>2
    <3>. QED
      BY <3>1, <3>2
  <2>6. \A i, j \in 1..Len(matches') : i < j => matches'[i].line <= matches'[j].line
    <3> SUFFICES ASSUME NEW i \in 1..Len(matches'), NEW j \in 1..Len(matches'), i < j
                 PROVE  matches'[i].line <= matches'[j].line
      OBVIOUS
    <3>1. CASE j <= L
      BY <2>1, <3>1 DEF OccInv
    <3>2. CASE ~(j <= L) /\ i <= L
      BY <2>1, <2>2, <2>3, <3>2
    <3>3. CASE ~(j <= L) /\ ~(i <= L)
      BY <2>1, <2>2, <3>3
    <3>. QED
      BY <3>1, <3>2, <3>3
  <2>7. ASSUME NEW l \in 1..(ln' - 1)
        PROVE  Cardinality(LinesOf(l)') = MatchesOn(lines'[l])
    <3>1. CASE l < ln
      <4>1. l \in 1..(ln - 1)
        BY <2>1, <3>1
      <4>2. LinesOf(l)' = LinesOf(l)
        BY <1>1, <2>1, <3>1, ScanLineCounts
      <4>. QED
        BY <2>1, <4>1, <4>2 DEF OccInv
    <3>2. CASE l = ln
      <4>1. LinesOf(l)' = (L + 1)..(L + M)
        BY <1>1, <2>1, <3>2, ScanLineCounts
      <4>2. Cardinality((L + 1)..(L + M))
              = IF L + 1 > L + M THEN 0 ELSE (L + M) - (L + 1) + 1
        <5>1. L + 1 \in Int /\ L + M \in Int
          BY <2>1
        <5>. QED
          BY <5>1, FS_Interval
      <4>3. Cardinality(LinesOf(l)') = M
        BY <2>1, <4>1, <4>2
      <4>4. MatchesOn(lines'[l]) = M
        BY <2>1, <3>2
      <4>. QED
        BY <4>3, <4>4
    <3>. QED
      BY <2>1, <3>1, <3>2
  <2>. QED
    BY <2>4, <2>5, <2>6, <2>7 DEF OccInv
<1>2. CASE Finish
  <2>1. ln = Len(lines) + 1
    BY <1>2 DEF Finish, IInv
  <2>. QED
    BY <1>2, <2>1 DEF Finish, OccInv, LinesOf
<1>3. CASE UNCHANGED vars
  BY <1>3 DEF vars, OccInv, LinesOf
<1>. QED
  BY <1>1, <1>2, <1>3 DEF Next

LEMMA OccFollow == IInv /\ OccInv => OccurrencesFollowLines
<1> SUFFICES ASSUME IInv, OccInv PROVE OccurrencesFollowLines
  OBVIOUS
<1>1. Scanned = 1..(ln - 1)
  BY DEF Scanned, OccInv
<1>. QED
  BY <1>1 DEF OccurrencesFollowLines, OccInv, IInv, LinesOf

(***************************************************************************)
(* extract_arc_mutex_usage reports one occurrence per match, in line       *)
(* order, each with the 1-based number of its own line: for every file,   *)
(* every line scanned so far (all of them once the loop is over) has as    *)
(* many occurrences as matches, and none of another line.                  *)
(***************************************************************************)
THEOREM OccurrencesFollowLinesHolds == Spec => []OccurrencesFollowLines
<1>1. Init => IInv /\ OccInv
  BY InitIInv, InitOcc
<1>2. IInv /\ OccInv /\ [Next]_vars => (IInv /\ OccInv)'
  BY NextIInv, NextOcc
<1>3. IInv /\ OccInv => OccurrencesFollowLines
  BY OccFollow
<1>. QED
  BY <1>1, <1>2, <1>3, PTL DEF Spec

(***************************************************************************)
(* The window kept with every Arc<Mutex> occurrence is a run of            *)
(* consecutive lines of the file holding the occurrence's own line and at  *)
(* most three lines on either side of it (lines[max(0, n-3):min(len, n+3)] *)
(* in extract_arc_mutex_usage), for files of any length.                   *)
(***************************************************************************)
THEOREM ContextWindowCorrect == Spec => []ContextHoldsMatchLine
<1>1. Init => IInv
  BY InitIInv
<1>2. IInv /\ [Next]_vars => IInv'
  BY NextIInv
<1>3. IInv => ContextHoldsMatchLine
  BY IInvContext
<1>. QED
  BY <1>1, <1>2, <1>3, PTL DEF Spec
-----------------------------------------------------------------------------
(***************************************************************************)
(* The group the pattern captures.  The text after `Arc<Mutex<` is one of  *)
(* two token sequences: BoolText for `bool>>,` and MapText for             *)
(* `HashMap<K, V>>>,` (a plain line is scanned as the latter, though no    *)
(* match is taken from it).  The candidates of each are listed, and the    *)
(* first one the regex engine tries is picked.                             *)
(***************************************************************************)
Tokens == {"a", "<", ">"}
MapText == <<"a", "<", "a", ">", ">", ">", "a">>
BoolText == <<"a", ">", ">", "a">>

\* A triple is its three components.
LEMMA TripleParts ==
    ASSUME NEW A, NEW B, NEW C, NEW c \in A \X B \X C
    PROVE  c = <<c[1], c[2], c[3]>>
OBVIOUS

LEMMA TripleIn ==
    ASSUME NEW g \in BOOLEAN
    PROVE  /\ <<3, g, 0>> \in (1..7) \X BOOLEAN \X (0..7)
           /\ <<1, g, 1>> \in (1..7) \X BOOLEAN \X (0..7)
           /\ <<1, g, 0>> \in (1..4) \X BOOLEAN \X (0..4)
OBVIOUS

LEMMA MapTextIs == AfterPrefix("decl_map") = MapText /\ AfterPrefix("plain") = MapText
<1>. DEFINE u == <<"a", "<", "a", ">">>
            v == <<">", ">", "a">>
<1>1. TypeOf("decl_map") = u /\ TypeOf("plain") = u
  BY DEF TypeOf
<1>2. u \in Seq(Tokens) /\ v \in Seq(Tokens) /\ MapText \in Seq(Tokens)
  BY DEF Tokens, MapText
<1>3. /\ u \o v \in Seq(Tokens)
      /\ Len(u \o v) = 7
      /\ \A i \in 1..7 : (u \o v)[i] = IF i <= 4 THEN u[i] ELSE v[i - 4]
  BY <1>2, ConcatProperties
<1>4. u \o v = MapText
  <2>1. Len(u \o v) = Len(MapText) /\ \A i \in 1..Len(u \o v) : (u \o v)[i] = MapText[i]
    BY <1>3 DEF MapText
  <2>. QED
    BY <1>2, <1>3, <2>1, SeqEqual
<1>. QED
  BY <1>1, <1>4 DEF AfterPrefix

LEMMA MapCandidates == Candidates(MapText) = {<<3, FALSE, 0>>, <<1, TRUE, 1>>}
<1>1. Len(MapText) = 7
  BY DEF MapText
<1>2. ASSUME NEW c \in Candidates(MapText)
      PROVE  c \in {<<3, FALSE, 0>>, <<1, TRUE, 1>>}
  <2>1. c \in (1..7) \X BOOLEAN \X (0..7) /\ Fits(MapText, c[1], c[2], c[3])
    BY <1>1 DEF Candidates
  <2>2. NoGt(MapText, 1, c[1])
    BY <2>1 DEF Fits
  <2>3. c[1] <= 3
    <3>1. SUFFICES ASSUME c[1] >= 4 PROVE FALSE
      BY <2>1
    <3>2. 4 \in 1..c[1] /\ MapText[4] = ">"
      BY <2>1, <3>1 DEF MapText
    <3>. QED
      BY <2>2, <3>2 DEF NoGt
  <2>4. CASE c[2]
    <3>1. /\ MapText[c[1] + 1] = "<" /\ c[3] >= 1
          /\ NoGt(MapText, c[1] + 2, c[1] + c[3] + 1)
      BY <2>1, <2>4 DEF Fits
    <3>2. c[1] = 1
      BY <2>1, <2>3, <3>1 DEF MapText
    <3>3. c[3] <= 1
      <4>1. SUFFICES ASSUME c[3] >= 2 PROVE FALSE
        BY <2>1
      <4>2. 4 \in (c[1] + 2)..(c[1] + c[3] + 1) /\ MapText[4] = ">"
        BY <2>1, <3>2, <4>1 DEF MapText
      <4>. QED
        BY <3>1, <4>2 DEF NoGt
    <3>4. c[2] = TRUE
      BY <2>1, <2>4, Zenon
    <3>5. c = <<c[1], c[2], c[3]>>
      BY <2>1, TripleParts
    <3>6. c[3] = 1
      BY <2>1, <3>1, <3>3
    <3>7. c = <<1, TRUE, 1>>
      BY <3>2, <3>4, <3>5, <3>6
    <3>. QED
      BY <3>7
  <2>5. CASE ~c[2]
    <3>1. c[3] = 0 /\ MapText[c[1] + 1] = ">"
      BY <2>1, <2>5 DEF Fits
    <3>2. c[1] = 3
      BY <2>1, <2>3, <3>1 DEF MapText
    <3>3. c[2] = FALSE
      BY <2>1, <2>5, Zenon
    <3>4. c = <<c[1], c[2], c[3]>>
      BY <2>1, TripleParts
    <3>5. c = <<3, FALSE, 0>>
      BY <3>1, <3>2, <3>3, <3>4
    <3>. QED
      BY <3>5
  <2>. QED
    BY <2>1, <2>4, <2>5
<1>3. <<3, FALSE, 0>> \in Candidates(MapText) /\ <<1, TRUE, 1>> \in Candidates(MapText)
  <2>1. Fits(MapText, 3, FALSE, 0) /\ Fits(MapText, 1, TRUE, 1)
    BY DEF Fits, NoGt, MapText
  <2>2. /\ <<3, FALSE, 0>> \in (1..7) \X BOOLEAN \X (0..7)
        /\ <<1, TRUE, 1>> \in (1..7) \X BOOLEAN \X (0..7)
    <3>1. FALSE \in BOOLEAN /\ TRUE \in BOOLEAN
      OBVIOUS
    <3>2. <<3, FALSE, 0>> \in (1..7) \X BOOLEAN \X (0..7)
      BY <3>1, TripleIn
    <3>3. <<1, TRUE, 1>> \in (1..7) \X BOOLEAN \X (0..7)
      BY <3>1, TripleIn
    <3>. QED
      BY <3>2, <3>3
  <2>. QED
    BY <1>1, <2>1, <2>2 DEF Candidates
<1>. QED
  BY <1>2, <1>3

LEMMA CaptureMap == Capture(MapText) = <<"a", "<", "a">>
<1>. DEFINE C == Candidates(MapText)
            P(c) == \A d \in C \ {c} : Before(c, d)
            win == <<3, FALSE, 0>>
            lose == <<1, TRUE, 1>>
<1>1. C = {win, lose}
  BY MapCandidates
<1>2. win # lose
  OBVIOUS
<1>3. Before(win, lose) /\ ~Before(lose, win)
  BY DEF Before
<1>4. P(win)
  <2>1. C \ {win} = {lose}
    BY <1>1, <1>2
  <2>. QED
    BY <1>3, <2>1
<1>5. ~P(lose)
  <2>1. win \in C \ {lose}
    BY <1>1, <1>2
  <2>. QED
    BY <1>3, <2>1
<1>6. (CHOOSE c \in Candidates(MapText) :
          \A d \in Candidates(MapText) \ {c} : Before(c, d)) = win
  <2>1. \A c \in C : P(c) <=> c = win
    BY <1>1, <1>4, <1>5
  <2>. QED
    BY <1>1, <2>1
<1>7. Capture(MapText) = SubSeq(MapText, 1, 3)
  <2>. DEFINE ch == CHOOSE c \in Candidates(MapText) :
                      \A d \in Candidates(MapText) \ {c} : Before(c, d)
  <2>1. Candidates(MapText) # {}
    BY <1>1
  <2>2. Capture(MapText) = SubSeq(MapText, 1, IF ch[2] THEN ch[1] + ch[3] + 2 ELSE ch[1])
    BY <2>1 DEF Capture
  <2>3. ch[2] = FALSE /\ ch[1] = 3
    <3>1. ch = win
      BY <1>6
    <3>2. win[2] = FALSE /\ win[1] = 3
      OBVIOUS
    <3>. QED
      BY <3>1, <3>2
  <2>4. (IF ch[2] THEN ch[1] + ch[3] + 2 ELSE ch[1]) = 3
    BY <2>3, Zenon
  <2>. QED
    BY <2>2, <2>4
<1>8. SubSeq(MapText, 1, 3) = <<"a", "<", "a">>
  <2>1. MapText \in Seq(Tokens) /\ <<"a", "<", "a">> \in Seq(Tokens)
    BY DEF MapText, Tokens
  <2>2. /\ SubSeq(MapText, 1, 3) \in Seq(Tokens)
        /\ Len(SubSeq(MapText, 1, 3)) = 3
        /\ \A i \in 1..3 : SubSeq(MapText, 1, 3)[i] = MapText[i]
    <3>1. \A i \in 1..3 : MapText[i] \in Tokens
      BY DEF MapText, Tokens
    <3>. QED
      BY <3>1, SubSeqProperties
  <2>3. Len(SubSeq(MapText, 1, 3)) = Len(<<"a", "<", "a">>)
        /\ \A i \in 1..Len(SubSeq(MapText, 1, 3)) :
              SubSeq(MapText, 1, 3)[i] = <<"a", "<", "a">>[i]
    BY <2>2 DEF MapText
  <2>. QED
    BY <2>1, <2>2, <2>3, SeqEqual
<1>. QED
  BY <1>7, <1>8

LEMMA BoolTextIs == AfterPrefix("decl_bool") = BoolText
<1>. DEFINE u == <<"a">>
            v == <<">", ">", "a">>
<1>1. TypeOf("decl_bool") = u
  BY DEF TypeOf
<1>2. u \in Seq(Tokens) /\ v \in Seq(Tokens) /\ BoolText \in Seq(Tokens)
  BY DEF Tokens, BoolText
<1>3. /\ u \o v \in Seq(Tokens)
      /\ Len(u \o v) = 4
      /\ \A i \in 1..4 : (u \o v)[i] = IF i <= 1 THEN u[i] ELSE v[i - 1]
  BY <1>2, ConcatProperties
<1>4. u \o v = BoolText
  <2>1. Len(u \o v) = Len(BoolText) /\ \A i \in 1..Len(u \o v) : (u \o v)[i] = BoolText[i]
    BY <1>3 DEF BoolText
  <2>. QED
    BY <1>2, <1>3, <2>1, SeqEqual
<1>. QED
  BY <1>1, <1>4 DEF AfterPrefix

LEMMA BoolCandidates == Candidates(BoolText) = {<<1, FALSE, 0>>}
<1>1. Len(BoolText) = 4
  BY DEF BoolText
<1>2. ASSUME NEW c \in Candidates(BoolText)
      PROVE  c = <<1, FALSE, 0>>
  <2>1. c \in (1..4) \X BOOLEAN \X (0..4) /\ Fits(BoolText, c[1], c[2], c[3])
    BY <1>1 DEF Candidates
  <2>2. NoGt(BoolText, 1, c[1])
    BY <2>1 DEF Fits
  <2>3. c[1] = 1
    <3>1. SUFFICES ASSUME c[1] >= 2 PROVE FALSE
      BY <2>1
    <3>2. 2 \in 1..c[1] /\ BoolText[2] = ">"
      BY <2>1, <3>1 DEF BoolText
    <3>. QED
      BY <2>2, <3>2 DEF NoGt
  <2>4. ~c[2]
    <3>1. SUFFICES ASSUME c[2] PROVE FALSE
      OBVIOUS
    <3>2. BoolText[c[1] + 1] = "<"
      BY <2>1, <3>1 DEF Fits
    <3>. QED
      BY <2>3, <3>2 DEF BoolText
  <2>5. c[3] = 0 /\ c[2] = FALSE
    <3>1. c[3] = 0
      BY <2>1, <2>4 DEF Fits
    <3>2. c[2] = FALSE
      BY <2>1, <2>4, Zenon
    <3>. QED
      BY <3>1, <3>2
  <2>6. c = <<c[1], c[2], c[3]>>
    BY <2>1, TripleParts
  <2>. QED
    BY <2>3, <2>5, <2>6
<1>3. <<1, FALSE, 0>> \in Candidates(BoolText)
  <2>1. Fits(BoolText, 1, FALSE, 0)
    BY DEF Fits, NoGt, BoolText
  <2>2. <<1, FALSE, 0>> \in (1..4) \X BOOLEAN \X (0..4)
    <3>1. FALSE \in BOOLEAN
      OBVIOUS
    <3>. QED
      BY <3>1, TripleIn
  <2>. QED
    BY <1>1, <2>1, <2>2 DEF Candidates
<1>. QED
  BY <1>2, <1>3

LEMMA CaptureBool == Capture(BoolText) = <<"a">>
<1>. DEFINE win == <<1, FALSE, 0>>
            ch == CHOOSE c \in Candidates(BoolText) :
                     \A d \in Candidates(BoolText) \ {c} : Before(c, d)
<1>1. Candidates(BoolText) = {win}
  BY BoolCandidates
<1>2. ch = win
  <2>1. \A d \in Candidates(BoolText) \ {win} : Before(win, d)
    BY <1>1
  <2>. QED
    BY <1>1, <2>1
<1>3. Capture(BoolText) = SubSeq(BoolText, 1, IF ch[2] THEN ch[1] + ch[3] + 2 ELSE ch[1])
  BY <1>1 DEF Capture
<1>4. (IF ch[2] THEN ch[1] + ch[3] + 2 ELSE ch[1]) = 1
  <2>1. win[2] = FALSE /\ win[1] = 1
    OBVIOUS
  <2>2. ch[2] = FALSE /\ ch[1] = 1
    BY <1>2, <2>1
  <2>. QED
    BY <2>2, Zenon
<1>5. SubSeq(BoolText, 1, 1) = <<"a">>
  <2>1. BoolText \in Seq(Tokens) /\ <<"a">> \in Seq(Tokens)
    BY DEF BoolText, Tokens
  <2>2. /\ SubSeq(BoolText, 1, 1) \in Seq(Tokens)
        /\ Len(SubSeq(BoolText, 1, 1)) = 1
        /\ \A i \in 1..1 : SubSeq(BoolText, 1, 1)[i] = BoolText[i]
    <3>1. \A i \in 1..1 : BoolText[i] \in Tokens
      BY DEF BoolText, Tokens
    <3>. QED
      BY <3>1, SubSeqProperties
  <2>3. Len(SubSeq(BoolText, 1, 1)) = Len(<<"a">>)
        /\ \A i \in 1..Len(SubSeq(BoolText, 1, 1)) : SubSeq(BoolText, 1, 1)[i] = <<"a">>[i]
    BY <2>2 DEF BoolText
  <2>. QED
    BY <2>1, <2>2, <2>3, SeqEqual
<1>. QED
  BY <1>3, <1>4, <1>5

\* Every captured group is a sequence of tokens.
LEMMA CaptureTokens == \A k \in LineKinds : Capture(AfterPrefix(k)) \in Seq(Tokens)
<1>1. <<"a">> \in Seq(Tokens) /\ <<"a", "<", "a">> \in Seq(Tokens)
  BY DEF Tokens
<1>. QED
  BY <1>1, BoolTextIs, MapTextIs, CaptureBool, CaptureMap DEF LineKinds, DeclKinds

(***************************************************************************)
(* `Arc<Mutex<HashMap<K, V>>>` yields the inner type `HashMap<K, V`: the   *)
(* first [^>]+ of the pattern in extract_arc_mutex_usage also takes the    *)
(* '<' of the nested type, the backtracking stops at the first `>>`, and   *)
(* the nested type's own '>' is lost.                                      *)
(***************************************************************************)
THEOREM NestedInnerTypeTruncated ==
    /\ Capture(AfterPrefix("decl_map")) = <<"a", "<", "a">>
    /\ Capture(AfterPrefix("decl_map")) # TypeOf("decl_map")
<1>1. TypeOf("decl_map") = <<"a", "<", "a", ">">>
  BY DEF TypeOf
<1>2. <<"a", "<", "a">> # <<"a", "<", "a", ">">>
  OBVIOUS
<1>. QED
  BY <1>1, <1>2, MapTextIs, CaptureMap

\* The file is one of the texts the model considers.
LEMMA TextsBound ==
    ASSUME NEW t \in Texts
    PROVE  t \in Seq(Alphabet) /\ Len(t) <= MaxLines
<1>1. PICK n \in 0..MaxLines : t \in [1..n -> Alphabet]
  BY DEF Texts
<1>2. n \in Nat
  BY ExtractAssumption
<1>3. t \in Seq(Alphabet) /\ Len(t) = n
  BY <1>1, <1>2
<1>. QED
  BY <1>1, <1>2, <1>3

TextInv == lines \in Texts

LEMMA TextsInv == Spec => []TextInv
<1>1. Init => TextInv
  BY DEF Init, TextInv
<1>2. TextInv /\ [Next]_vars => TextInv'
  BY DEF Next, ScanLine, Finish, vars, TextInv
<1>. QED
  BY <1>1, <1>2, PTL DEF Spec

\* A function on 1..n is a sequence.
LEMMA FcnIsSeq ==
    ASSUME NEW S, NEW n \in Nat, NEW f \in [1..n -> S]
    PROVE  f \in Seq(S)
OBVIOUS

LEMMA IInvType == IInv /\ OccInv /\ lines \in Texts => TypeOK
<1>. SUFFICES ASSUME IInv, OccInv, lines \in Texts PROVE TypeOK
  OBVIOUS
<1>. DEFINE R == [line: 1..MaxLines, inner: Seq(Tokens), context: Seq(Alphabet)]
<1>1. Len(lines) <= MaxLines /\ ln \in 1..(Len(lines) + 1)
  BY TextsBound DEF IInv
<1>2. \A i \in 1..Len(matches) : matches[i] \in R
  <2>1. SUFFICES ASSUME NEW i \in 1..Len(matches) PROVE matches[i] \in R
    OBVIOUS
  <2>2. matches[i] \in MatchRecs /\ matches[i].line \in 1..(ln - 1)
    BY DEF IInv
  <2>3. matches[i].inner \in Seq(Tokens)
    BY <2>2, CaptureTokens DEF MatchRecs
  <2>4. matches[i].line \in 1..MaxLines
    BY <1>1, <2>2, ExtractAssumption DEF IInv
  <2>. QED
    BY <2>2, <2>3, <2>4 DEF MatchRecs
<1>3. matches \in Seq(R)
  <2>1. matches \in Seq(MatchRecs)
    BY DEF IInv
  <2>2. /\ Len(matches) \in Nat
        /\ matches \in [1..Len(matches) -> MatchRecs]
    BY <2>1, LenProperties
  <2>3. matches \in [1..Len(matches) -> R]
    BY <1>2, <2>2, Zenon
  <2>. QED
    BY <2>2, <2>3, FcnIsSeq
<1>. QED
  BY <1>1, <1>3 DEF TypeOK, OccInv, Tokens

(***************************************************************************)
(* extract_arc_mutex_usage only records well-typed occurrences: for every  *)
(* file, each has a line number of the file, an inner type made of the     *)
(* pattern's tokens and a window of the file's lines, and the loop's line  *)
(* counter stays within one past the last line.                            *)
(***************************************************************************)
THEOREM TypeCorrect == Spec => []TypeOK
<1>1. Init => IInv /\ OccInv
  BY InitIInv, InitOcc
<1>2. IInv /\ OccInv /\ [Next]_vars => (IInv /\ OccInv)'
  BY NextIInv, NextOcc
<1>3. Spec => [](IInv /\ OccInv)
  BY <1>1, <1>2, PTL DEF Spec
<1>4. IInv /\ OccInv /\ TextInv => TypeOK
  BY IInvType DEF TextInv
<1>. QED
  BY <1>3, <1>4, TextsInv, PTL
=============================================================================
