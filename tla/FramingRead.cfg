SPECIFICATION FramingSpec
CONSTANTS
    Numbers = {5}
    Chars = {7, 8}
    LenSpan = 2
    TextLimit = 3
    FieldLimit = 2
    Garbage = Garbage
INVARIANT ReadsBack
\* a reader that has thrown reads no further
CHECK_DEADLOCK FALSE
