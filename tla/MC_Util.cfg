\* Widths are scaled down (a long of 8 bits, an int of 5) so that three
\* characters reach both the ERANGE of strtol and the wrap of the int cast;
\* a 3-byte buffer truncates a 3-byte field.
CONSTANTS
    Bytes = {"a"}
    BufSpace = 3
    MaxLen = 3
    LongBits = 8
    IntBits = 5
SPECIFICATION Spec
INVARIANT LineMatchesSpec
INVARIANT ReadBytesMatchesSpec
INVARIANT WriteBytesMatchesSpec
INVARIANT StrToNumMatchesSpec
