---------------------------- MODULE TraitExtract ----------------------------
(***************************************************************************)
(* extract_traits of src/audit_traits.py on one file: the finditer loop    *)
(* over trait headers and, for each header, the character-by-character    *)
(* brace-depth walk that delimits the body, then the member and            *)
(* associated-type counts taken from the body.                             *)
(*                                                                         *)
(* The file content is a sequence of symbols; each symbol stands for a     *)
(* piece of text that the code treats uniformly:                           *)
(*   "hdr"  the text the header regex matches after its leading blanks,    *)
(*          `[pub] trait Name[<..>] [: ..] {`, ending with its '{'         *)
(*   "lb" "rb" a brace `{` or `}`  "nl" a line break      "ws" a blank     *)
(*   "fn"  `fn name`            "ty"  `type Name`      "cm"  `//`          *)
(*   "x"   any other text without braces, blanks or line breaks            *)
(***************************************************************************)
EXTENDS Integers, Sequences, FiniteSets

CONSTANTS
    Alphabet,   \* the symbols a file may contain
    MaxLen      \* the longest file considered

Symbols == {"hdr", "lb", "rb", "nl", "ws", "fn", "ty", "cm", "x"}

ASSUME ExtractAssumption ==
    /\ Alphabet \subseteq Symbols
    /\ MaxLen \in Nat

VARIABLES
    content,      \* the text of the file
    mpos,         \* where finditer resumes its search (match.end())
    mstart,       \* match.start() of the current header match
    hpos,         \* position of the current header symbol
    pos,          \* the scan position of the brace walk
    brace_count,  \* the brace depth of the walk
    pc,           \* "find", "scan" or "done"
    traits        \* the records appended so far

vars == <<content, mpos, mstart, hpos, pos, brace_count, pc, traits>>

Texts == UNION {[1..n -> Alphabet] : n \in 0..MaxLen}

Space == {"ws", "nl"}

\* `^` under re.MULTILINE: p is the start of the text or of a line.
LineStart(p) == IF p = 1 THEN TRUE ELSE content[p - 1] = "nl"

\* The regex matches at p with its header symbol at h: `^` holds at p (the
\* start of the text or of a line), and `\s*` takes everything up to h.
HeaderAt(p, h) ==
    /\ p <= h
    /\ content[h] = "hdr"
    /\ \A i \in p..(h - 1) : content[i] \in Space
    /\ LineStart(p)

IsMatchStart(p) == \E h \in p..Len(content) : HeaderAt(p, h)

\* Mutant: the '{' that ends a header inside the body is not counted.
BraceDeltaNoHeader(c) ==
    CASE c = "lb" -> 1
      [] c = "rb" -> -1
      [] OTHER   -> 0

\* The if/elif of the while loop: '{' (the one ending a header included)
\* deepens, '}' closes.
BraceDelta(c) ==
    CASE c \in {"lb", "hdr"} -> 1
      [] c = "rb"            -> -1
      [] OTHER              -> 0

\* Symbol i of b lies after a `//` on its line.
InComment(b, i) ==
    \E j \in 1..(i - 1) :
       /\ b[j] = "cm"
       /\ \A k \in (j + 1)..(i - 1) : b[k] # "nl"

\* The per-line loop: `//...` stripped, then `\bfn\s+(\w+)` counted.
MethodCount(b) == Cardinality({i \in 1..Len(b) : b[i] = "fn" /\ ~InComment(b, i)})

\* `re.findall(r'type\s+(\w+)', trait_body)` on the unstripped body.
AssocCount(b) == Cardinality({i \in 1..Len(b) : b[i] = "ty"})

\* content[:match.start()].count('\n') + 1
LineOf(p) == Cardinality({i \in 1..(p - 1) : content[i] = "nl"}) + 1

Init ==
    /\ content \in Texts
    /\ mpos = 1
    /\ mstart = 1
    /\ hpos = 1
    /\ pos = 1
    /\ brace_count = 0
    /\ pc = "find"
    /\ traits = <<>>

\* finditer yields the leftmost match at or after mpos; the walk starts
\* right after the header's '{' with depth 1.
FindHeader ==
    /\ pc = "find"
    /\ \E p \in mpos..Len(content) :
          /\ IsMatchStart(p)
          /\ \A q \in mpos..(p - 1) : ~IsMatchStart(q)
          /\ \E h \in p..Len(content) :
                /\ HeaderAt(p, h)
                /\ mstart' = p
                /\ hpos' = h
                /\ pos' = h + 1
          /\ brace_count' = 1
          /\ pc' = "scan"
    /\ UNCHANGED <<content, mpos, traits>>

\* finditer is exhausted: extract_traits returns.
NoMoreHeaders ==
    /\ pc = "find"
    /\ \A p \in mpos..Len(content) : ~IsMatchStart(p)
    /\ pc' = "done"
    /\ UNCHANGED <<content, mpos, mstart, hpos, pos, brace_count, traits>>

\* One iteration of `while pos < len(content) and brace_count > 0`.
ScanChar ==
    /\ pc = "scan"
    /\ pos <= Len(content)
    /\ brace_count > 0
    /\ brace_count' = brace_count + BraceDelta(content[pos])
    /\ pos' = pos + 1
    /\ UNCHANGED <<content, mpos, mstart, hpos, pc, traits>>

\* Mutant: finditer resumes one symbol past match.end().
EndScanResumeLate ==
    /\ pc = "scan"
    /\ ~(pos <= Len(content) /\ brace_count > 0)
    /\ LET body == SubSeq(content, hpos + 1, pos - 2)
       IN  traits' = Append(traits,
              [line |-> LineOf(mstart), header |-> hpos, body |-> body,
               closed |-> brace_count = 0,
               method_count |-> MethodCount(body),
               assoc_types |-> AssocCount(body)])
    /\ mpos' = hpos + 2
    /\ pc' = "find"
    /\ UNCHANGED <<content, mstart, hpos, pos, brace_count>>

\* The loop is left; trait_body = content[start_pos:pos-1] is taken whether
\* or not the depth reached 0, its members are counted and the record is
\* appended; finditer resumes at match.end().
EndScan ==
    /\ pc = "scan"
    /\ ~(pos <= Len(content) /\ brace_count > 0)
    /\ LET body == SubSeq(content, hpos + 1, pos - 2)
       IN  traits' = Append(traits,
              [line |-> LineOf(mstart), header |-> hpos, body |-> body,
               closed |-> brace_count = 0,
               method_count |-> MethodCount(body),
               assoc_types |-> AssocCount(body)])
    /\ mpos' = hpos + 1
    /\ pc' = "find"
    /\ UNCHANGED <<content, mstart, hpos, pos, brace_count>>

Next == FindHeader \/ NoMoreHeaders \/ ScanChar \/ EndScan

Spec == Init /\ [][Next]_vars

-----------------------------------------------------------------------------

TypeOK ==
    /\ content \in Texts
    /\ mpos \in 1..(Len(content) + 1)
    /\ mstart \in 1..(Len(content) + 1)
    /\ hpos \in 1..(Len(content) + 1)
    /\ pos \in 1..(Len(content) + 2)
    /\ brace_count \in Nat
    /\ pc \in {"find", "scan", "done"}
    /\ traits \in Seq([line: Nat, header: Nat, body: Seq(Alphabet),
                       closed: BOOLEAN, method_count: Nat, assoc_types: Nat])

(***************************************************************************)
(* Reference for the walk: the depth after the symbols h+1..q of a body    *)
(* opened at h, and the matching closing brace, the first q where it is 0. *)
(***************************************************************************)
Depth(h, q) ==
    1 + Cardinality({i \in (h + 1)..q : content[i] \in {"lb", "hdr"}})
      - Cardinality({i \in (h + 1)..q : content[i] = "rb"})

Closes(h, q) == Depth(h, q) = 0 /\ \A r \in (h + 1)..(q - 1) : Depth(h, r) > 0

(***************************************************************************)
(* Spec 4.1 and 8: the body of every extracted trait is exactly the text   *)
(* between its header's '{' and the textually matching '}', whatever the   *)
(* nesting (headers nested in the body included), and the walk reports the *)
(* body as closed exactly when such a '}' exists.                          *)
(***************************************************************************)
BodyIsMatchedSpan ==
    \A i \in 1..Len(traits) :
       LET h == traits[i].header
       IN  /\ traits[i].closed <=> \E q \in (h + 1)..Len(content) : Closes(h, q)
           /\ \A q \in (h + 1)..Len(content) :
                 Closes(h, q) => traits[i].body = SubSeq(content, h + 1, q - 1)

(***************************************************************************)
(* Spec 4.1 step 3: a header whose '{' is never closed is dropped, never   *)
(* reported with a truncated body.                                         *)
(***************************************************************************)
UnclosedHeaderSkipped == \A i \in 1..Len(traits) : traits[i].closed

(***************************************************************************)
(* Spec 3 (DeclarationUnit.location): the line reported for a trait is the *)
(* line of its header.                                                     *)
(***************************************************************************)
HeaderLineReported ==
    \A i \in 1..Len(traits) : traits[i].line = LineOf(traits[i].header)
=============================================================================
