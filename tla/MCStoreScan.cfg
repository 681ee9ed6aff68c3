CONSTANTS
    Types <- MCTypes
    RowsPerGroup = 2
    IntMin <- MCIntMin
    IntMax = 1
    PackedSpan = 4
    Compress = FALSE
    CsvRows <- MCCsvRows
    MaxRows = 3
    MaxConverts = 2
    DiskMayFill = FALSE
    ColIds <- MCColIds
    Skips <- MCSkips
SPECIFICATION SSpec
INVARIANTS
    ScanGivesTheRows
    MetadataIsTrue
PROPERTIES
    ImplementsTable
CHECK_DEADLOCK FALSE
