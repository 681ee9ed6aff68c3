SPECIFICATION MCSpec
CONSTANTS
    Exprs <- MCExprs
    Rows <- MCRows
    IntMax = 3
    Break = "n"
    Base = 10
    Scale = 2
    DecimalBits = 9
    Half = 4
    Shifts <- MCShifts
    Patterns <- MCPatterns
    Subjects <- MCSubjects
    DecimalTexts <- MCDecimalTexts
    Coordinates <- MCCoordinates
    Objects <- MCObjects
    Keys <- MCKeys
    Arrays <- MCArrays
    Elements <- MCElements
INVARIANTS
    TypesAreKept
    EagerMeansLazy
    DoublesByBits
    LikeIsSql
    DecimalsAreRight
    CellsKeepOrder
    
CHECK_DEADLOCK FALSE
