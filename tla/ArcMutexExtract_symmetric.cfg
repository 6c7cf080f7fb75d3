\* A match on one of five lines: the window the slice keeps is compared
\* with the symmetric one.
CONSTANTS
    Alphabet = {"decl_bool", "decl_map", "plain"}
    MaxLines = 5
SPECIFICATION Spec
INVARIANT ContextWindowSymmetric
CHECK_DEADLOCK FALSE
