\* Every file of up to 6 symbols over headers, braces, line breaks and
\* other text: nested headers and nested blocks, closed and unclosed.
CONSTANTS
    Alphabet = {"hdr", "lb", "rb", "nl", "x"}
    MaxLen = 6
SPECIFICATION Spec
INVARIANT TypeOK
INVARIANT BodyIsMatchedSpan
CHECK_DEADLOCK FALSE
