SPECIFICATION MCSpec
CONSTANTS
    Byte <- MCByte
    Number <- MCNumber
    NumberWidth = 2
    NumberBytes <- MCNumberBytes
    LengthWidth = 1
    MaxLength = 2
    LengthBytes <- MCLengthBytes
    GroupTypes <- MCGroupTypes
    IntMax = 3
    TicksPerMicro = 4
    Int64s <- MCInt64s
    Float64s <- MCFloat64s
    Strings <- MCStrings
    MaxBatch = 3
    MaxSeen = 6
INVARIANTS
    KeysTellRowsApart
    OperatorsAgree
    SumsThatFitAreRight
    AnswersAreOfTheRows
CHECK_DEADLOCK FALSE
