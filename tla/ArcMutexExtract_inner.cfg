\* A field of type Arc<Mutex<HashMap<K, V>>>: the inner type captured is
\* compared with the declared one.
CONSTANTS
    Alphabet = {"decl_bool", "decl_map", "plain"}
    MaxLines = 1
SPECIFICATION Spec
INVARIANT InnerTypeIsDeclaredType
CHECK_DEADLOCK FALSE
