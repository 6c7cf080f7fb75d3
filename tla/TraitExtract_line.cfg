\* Violation run: blank lines before a header.
CONSTANTS
    Alphabet = {"hdr", "rb", "nl", "ws"}
    MaxLen = 4
SPECIFICATION Spec
INVARIANT HeaderLineReported
CHECK_DEADLOCK FALSE
