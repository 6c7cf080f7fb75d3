-------------------------- MODULE MC_CodebaseAudit --------------------------
(* A small corpus for CodebaseAudit: three files, each with one of three   *)
(* paths and one of three contents, one of them possibly unreadable.       *)
EXTENDS CodebaseAudit

CONSTANTS f1, f2, f3

MCFiles == {f1, f2, f3}
MCFileOrder == <<f1, f2, f3>>

\* A production file, a test file by its name, and build output.
MCPaths ==
    {[dir |-> "src", stem |-> "lib"], [dir |-> "src", stem |-> "server_test"],
     [dir |-> "target", stem |-> "lib"]}

Counts(n) == [p \in StringPatterns |-> n]
Api(n) == [k \in ApiKinds |-> n]

\* A file with 12 clones, a line holding both TODO and FIXME and 24 string
\* allocations; one with 11 clones, a HACK line, Result functions without
\* #[must_use] and async code; and a file with none of these.
MCContents ==
    {[lines |-> <<{"TODO", "FIXME"}, {}>>, clones |-> 12, box_dyn |-> 1,
      box_dyn_error |-> 0, strings |-> Counts(6), result_fns |-> 1,
      must_uses |-> 1, async_fns |-> 0, awaits |-> 0, api |-> Api(1)],
     [lines |-> <<{"HACK"}>>, clones |-> 11, box_dyn |-> 0,
      box_dyn_error |-> 1, strings |-> Counts(1), result_fns |-> 2,
      must_uses |-> 0, async_fns |-> 1, awaits |-> 2, api |-> Api(0)],
     [lines |-> <<>>, clones |-> 0, box_dyn |-> 0, box_dyn_error |-> 0,
      strings |-> Counts(0), result_fns |-> 0, must_uses |-> 0,
      async_fns |-> 0, awaits |-> 0, api |-> Api(0)]}
=============================================================================
