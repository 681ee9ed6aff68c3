SPECIFICATION MCSpec
CONSTANTS
    Schemas <- MCSchemas
    Texts <- MCTexts
    Printed <- MCPrinted
    Zero <- MCZero
    MaxRows = 2
    MaxRounds = 2
    Inputs <- MCInputs
    Base = 3
    CountBytes = 2
INVARIANTS
    FailureKeepsTheFile
    SecondTripIsExact
    ReadsWhatIsThere
    ComesBack
CHECK_DEADLOCK FALSE
