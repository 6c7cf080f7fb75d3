\* Files of up to six lines, long enough for a match to have a cut window
\* at both ends and a full one in the middle.
CONSTANTS
    Alphabet = {"decl_bool", "decl_map", "plain"}
    MaxLines = 6
SPECIFICATION Spec
INVARIANT TypeOK
INVARIANT OccurrencesFollowLines
INVARIANT ContextHoldsMatchLine
CHECK_DEADLOCK FALSE
