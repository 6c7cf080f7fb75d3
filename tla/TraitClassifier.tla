-------------------------- MODULE TraitClassifier --------------------------
(***************************************************************************)
(* The trait-necessity classifier of src/audit_traits.py                   *)
(* (analyze_trait_necessity): a pure function from the structural facts of *)
(* one trait declaration and its corpus-wide usage profile to a category   *)
(* and two ordered lists of reasons.                                       *)
(*                                                                         *)
(* A reason is abstracted to a tag naming the rule that produced it; the   *)
(* human-readable wording (and the counts it quotes) is left out.          *)
(***************************************************************************)
EXTENDS Integers, Sequences

Categories == {"DEFINITELY_REMOVE", "MAYBE_REMOVE", "KEEP_AS_IS"}

\* The structural facts extract_traits records for one trait.
Facts(MethodCounts, AssocCounts, GenericChoices) ==
    [method_count: MethodCounts, assoc_types: AssocCounts,
     has_generics: GenericChoices]

\* The accumulator check_trait_usage returns.
Usages(Files) ==
    [impl_count: Nat, dyn_usage: Nat, bound_usage: Nat,
     impl_files: Seq(Files), dyn_files: Seq(Files), bound_files: Seq(Files)]

\* The one-element list holding tag when the rule's condition holds.
When(cond, tag) == IF cond THEN <<tag>> ELSE <<>>

\* reasons_to_keep, in the order the rules append to it.
KeepReasons(t, u) ==
    When(t.assoc_types > 0, "assoc_types")
    \o When(t.has_generics, "generics")
    \o When(u.dyn_usage > 0, "trait_objects")
    \o When(u.impl_count > 1, "multiple_impls")
    \o When(u.bound_usage > 2, "trait_bound")

\* Mutant: the `impl_count == 0` branch is missing.
RemoveReasonsNoZeroImpl(t, u) ==
    When(t.method_count = 1, "single_method")
    \o When(u.impl_count = 1, "one_impl")

\* reasons_to_remove, in the order the rules append to it; the three
\* impl_count branches form one if/elif chain.
RemoveReasons(t, u) ==
    When(t.method_count = 1, "single_method")
    \o When(u.impl_count = 0, "no_impls")
    \o When(u.impl_count = 1, "one_impl")

\* The final if/elif/else that turns the two reason lists into a category.
CategoryOfReasons(keep, remove) ==
    CASE keep = <<>> /\ remove # <<>>          -> "DEFINITELY_REMOVE"
      [] Len(keep) <= 1 /\ Len(remove) >= 2    -> "MAYBE_REMOVE"
      [] OTHER                                 -> "KEEP_AS_IS"

\* analyze_trait_necessity(trait_info, usage): category, keep, remove.
Classify(t, u) ==
    [category |-> CategoryOfReasons(KeepReasons(t, u), RemoveReasons(t, u)),
     keep     |-> KeepReasons(t, u),
     remove   |-> RemoveReasons(t, u)]

\* How far a category leans towards keeping the trait.
Rank(c) ==
    CASE c = "DEFINITELY_REMOVE" -> 0
      [] c = "MAYBE_REMOVE"      -> 1
      [] c = "KEEP_AS_IS"        -> 2
=============================================================================
