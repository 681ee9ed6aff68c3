CONSTANTS
    Types <- MCTypes
    RowsPerGroup = 2
    IntMin <- MCIntMin
    IntMax = 2
    PackedSpan = 4
    Compress = TRUE
    CsvRows <- MCCsvRows
    MaxRows = 1
    MaxConverts = 1
    DiskMayFill = FALSE
SPECIFICATION Spec
INVARIANTS
    OpenStoreIsFinished
CHECK_DEADLOCK FALSE
