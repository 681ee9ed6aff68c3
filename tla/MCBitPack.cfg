CONSTANTS
    ByteBits = 4
    WordBits = 12
    Inputs <- MCInputs
SPECIFICATION PackSpec
INVARIANTS
    UnpackedIsPacked
    PackInv
CHECK_DEADLOCK FALSE
