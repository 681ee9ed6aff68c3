CONSTANTS
    ByteBits = 8
    WordBits = 16
    Columns <- MCColumns
    Chars <- MCChars
    MaxRun = 3
SPECIFICATION Spec
INVARIANTS
    RoundTrip
    CandidatesAreExact
    ShortestWins
CHECK_DEADLOCK FALSE
