CONSTANTS
    ByteBits = 8
    WordBits = 16
    Columns <- MCWide
    Chars <- MCChars
    MaxRun = 3
SPECIFICATION Spec
INVARIANTS
    RoundTrip
CHECK_DEADLOCK FALSE
