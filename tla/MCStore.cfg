CONSTANTS
    Types <- MCTypes
    RowsPerGroup = 2
    IntMin <- MCIntMin
    IntMax = 2
    PackedSpan = 2
    Compress = TRUE
    CsvRows <- MCCsvRows
    MaxRows = 3
    MaxConverts = 1
    DiskMayFill = TRUE
SPECIFICATION Spec
INVARIANTS
    TypeOK
    IInv
    ReadsReturnTheCsv
    AllRowsOrNone
    GroupsAreFull
    StatsAreTheRange
    SuccessMeansSealed
PROPERTIES
    DiskOnlyGrows
    ImplementsTable
CHECK_DEADLOCK FALSE
