SPECIFICATION FramingSpec
CONSTANTS
    Numbers = {5}
    Chars = {7, 8}
    LenSpan = 3
    TextLimit = 2
    FieldLimit = 2
    Garbage = Garbage
INVARIANT ReadAsWritten
\* a reader that has thrown reads no further
CHECK_DEADLOCK FALSE
