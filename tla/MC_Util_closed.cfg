\* A field whose connection closes before its terminator.
CONSTANTS
    Bytes = {"a"}
    BufSpace = 3
    MaxLen = 3
    LongBits = 8
    IntBits = 5
SPECIFICATION Spec
INVARIANT ClosedFieldFails
