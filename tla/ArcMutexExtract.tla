-------------------------- MODULE ArcMutexExtract --------------------------
(***************************************************************************)
(* extract_arc_mutex_usage of src/audit_arc_mutex.py on one file: the loop *)
(* over its lines, the capture of the inner type by the pattern            *)
(*     Arc<Mutex<([^>]+(?:<[^>]+>)?)>>                                     *)
(* and the context window kept with each match.                           *)
(*                                                                         *)
(* A line is one of a few kinds, each standing for the lines the code      *)
(* treats alike:                                                           *)
(*   "decl_bool"  `x: Arc<Mutex<bool>>,`                                   *)
(*   "decl_map"   `x: Arc<Mutex<HashMap<K, V>>>,`                          *)
(*   "plain"      anything else                                            *)
(* The text of a type is a sequence of tokens: "<", ">", and "a" for a run *)
(* of other characters (a name, `, `, a space), which the pattern's        *)
(* [^>] classes treat alike.                                               *)
(***************************************************************************)
EXTENDS Integers, Sequences, FiniteSets

CONSTANTS
    Alphabet,   \* the line kinds a file may contain
    MaxLines    \* the longest file considered

DeclKinds == {"decl_bool", "decl_map"}
LineKinds == DeclKinds \cup {"plain"}

ASSUME ExtractAssumption ==
    /\ Alphabet \subseteq LineKinds
    /\ MaxLines \in Nat

VARIABLES
    lines,     \* content.split('\n')
    ln,        \* line_num of the loop
    matches,   \* the occurrences appended so far
    pc         \* "scan" or "done"

vars == <<lines, ln, matches, pc>>

Texts == UNION {[1..n -> Alphabet] : n \in 0..MaxLines}

\* The declared inner type of a declaration line, and the text the pattern
\* scans after `Arc<Mutex<`: the type, the two closing '>' and a trailing
\* `,`.
TypeOf(k) == IF k = "decl_bool" THEN <<"a">> ELSE <<"a", "<", "a", ">">>
AfterPrefix(k) == TypeOf(k) \o <<">", ">", "a">>

(***************************************************************************)
(* The group the pattern captures on text s, by the order in which the     *)
(* regex engine backtracks: the longest [^>]+ first, for each length the   *)
(* optional group tried before its absence, and inside it the longest      *)
(* [^>]+ first.  A candidate <<n, g, m>> takes n tokens, then the group    *)
(* `<` m tokens `>` if g, then `>>`.                                       *)
(***************************************************************************)
NoGt(s, i, j) == \A p \in i..j : s[p] # ">"

Fits(s, n, g, m) ==
    LET e == IF g THEN n + m + 2 ELSE n
    IN  /\ e + 2 <= Len(s)
        /\ NoGt(s, 1, n)
        /\ g => /\ s[n + 1] = "<" /\ m >= 1
                /\ NoGt(s, n + 2, n + m + 1) /\ s[n + m + 2] = ">"
        /\ ~g => m = 0
        /\ s[e + 1] = ">" /\ s[e + 2] = ">"

\* Candidate c is tried before candidate d.
Before(c, d) ==
    \/ c[1] > d[1]
    \/ c[1] = d[1] /\ c[2] /\ ~d[2]
    \/ c[1] = d[1] /\ c[2] = d[2] /\ c[3] > d[3]

Candidates(s) ==
    {c \in (1..Len(s)) \X BOOLEAN \X (0..Len(s)) : Fits(s, c[1], c[2], c[3])}

\* match.group(1); <<>> stands for no match.
Capture(s) ==
    IF Candidates(s) = {} THEN <<>>
    ELSE LET c == CHOOSE c \in Candidates(s) :
                     \A d \in Candidates(s) \ {c} : Before(c, d)
         IN  SubSeq(s, 1, IF c[2] THEN c[1] + c[3] + 2 ELSE c[1])

\* The matches re.finditer finds on a line of kind k.
MatchesOn(k) == IF k \in DeclKinds /\ Capture(AfterPrefix(k)) # <<>>
                   THEN 1 ELSE 0

\* Mutant: the max(0, ...) clamp is dropped, so a negative start counts
\* from the end of the list as Python slicing does.
ContextNoClamp(n) ==
    LET start == n - 3
        stop  == IF n + 3 < Len(lines) THEN n + 3 ELSE Len(lines)
    IN  IF start >= 0 THEN SubSeq(lines, start + 1, stop)
        ELSE SubSeq(lines, IF Len(lines) + start >= 0
                             THEN Len(lines) + start + 1 ELSE 1, stop)

\* lines[context_start:context_end] with context_start = max(0, n - 3) and
\* context_end = min(len(lines), n + 3), as 1-based positions.
Context(n) ==
    SubSeq(lines, IF n - 2 > 1 THEN n - 2 ELSE 1,
                  IF n + 3 < Len(lines) THEN n + 3 ELSE Len(lines))

Init ==
    /\ lines \in Texts
    /\ ln = 1
    /\ matches = <<>>
    /\ pc = "scan"

\* Mutant: lines are numbered from 0 (enumerate(lines)).
ScanLineZeroBased ==
    /\ pc = "scan"
    /\ ln <= Len(lines)
    /\ matches' = matches \o
          [i \in 1..MatchesOn(lines[ln]) |->
             [line |-> ln - 1, inner |-> Capture(AfterPrefix(lines[ln])),
              context |-> Context(ln)]]
    /\ ln' = ln + 1
    /\ UNCHANGED <<lines, pc>>

\* One iteration of `for line_num, line in enumerate(lines, 1)`: a match
\* on the line appends its line number, inner type and context.
ScanLine ==
    /\ pc = "scan"
    /\ ln <= Len(lines)
    /\ matches' = matches \o
          [i \in 1..MatchesOn(lines[ln]) |->
             [line |-> ln, inner |-> Capture(AfterPrefix(lines[ln])),
              context |-> Context(ln)]]
    /\ ln' = ln + 1
    /\ UNCHANGED <<lines, pc>>

\* Mutant: the loop stops before the last line.
FinishEarly ==
    /\ pc = "scan"
    /\ ln >= Len(lines)
    /\ pc' = "done"
    /\ UNCHANGED <<lines, ln, matches>>

\* The loop is over: extract_arc_mutex_usage returns its matches.
Finish ==
    /\ pc = "scan"
    /\ ln > Len(lines)
    /\ pc' = "done"
    /\ UNCHANGED <<lines, ln, matches>>

Next == ScanLine \/ Finish

Spec == Init /\ [][Next]_vars

-----------------------------------------------------------------------------

TypeOK ==
    /\ lines \in Texts
    /\ ln \in 1..(Len(lines) + 1)
    /\ matches \in Seq([line: 1..MaxLines, inner: Seq({"a", "<", ">"}),
                        context: Seq(Alphabet)])
    /\ pc \in {"scan", "done"}

(***************************************************************************)
(* Spec 4.1: the occurrences are one per match, in textual order, each     *)
(* carrying the 1-based number of the line it was found on: every line     *)
(* scanned so far, and once the function returns every line of the file,  *)
(* contributes exactly as many occurrences as it has matches, and no line  *)
(* is credited with another's.                                             *)
(***************************************************************************)
Scanned == IF pc = "done" THEN 1..Len(lines) ELSE 1..(ln - 1)

OccurrencesFollowLines ==
    /\ \A i \in 1..Len(matches) :
          /\ matches[i].line \in Scanned
          /\ MatchesOn(lines[matches[i].line]) > 0
    /\ \A i, j \in 1..Len(matches) : i < j => matches[i].line <= matches[j].line
    /\ \A l \in Scanned :
          Cardinality({i \in 1..Len(matches) : matches[i].line = l})
             = MatchesOn(lines[l])

(***************************************************************************)
(* Spec 3 (Occurrence.context_window): the window is a run of consecutive  *)
(* lines of the file that holds the match line and reaches at most 3 lines *)
(* before and after it.                                                    *)
(***************************************************************************)
ContextHoldsMatchLine ==
    \A i \in 1..Len(matches) :
       LET l == matches[i].line
       IN  \E s \in (l - 3)..l, e \in l..(l + 3) :
              /\ s >= 1 /\ e <= Len(lines)
              /\ matches[i].context = SubSeq(lines, s, e)

(***************************************************************************)
(* Spec 3: the window is symmetric, 3 lines before and 3 after the match,  *)
(* cut only at the ends of the file.                                       *)
(***************************************************************************)
ContextWindowSymmetric ==
    \A i \in 1..Len(matches) :
       LET l == matches[i].line
       IN  matches[i].context =
              SubSeq(lines, IF l - 3 > 1 THEN l - 3 ELSE 1,
                            IF l + 3 < Len(lines) THEN l + 3 ELSE Len(lines))

(***************************************************************************)
(* Spec 3 (Occurrence.inner_signature): the captured inner type is the     *)
(* declared type, which may itself hold one level of nested '<..>'.        *)
(***************************************************************************)
InnerTypeIsDeclaredType ==
    \A i \in 1..Len(matches) :
       matches[i].inner = TypeOf(lines[matches[i].line])
=============================================================================
