\* Violation run: a header whose body is never closed.
CONSTANTS
    Alphabet = {"hdr", "lb", "rb", "x"}
    MaxLen = 3
SPECIFICATION Spec
INVARIANT UnclosedHeaderSkipped
CHECK_DEADLOCK FALSE
