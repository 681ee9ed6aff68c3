SPECIFICATION FairSpec
CONSTANTS
    Cases <- MCCases
    Int64Min <- MCInt64Min
    Int64Max = 9999
    Target = 1
    CounterId = 1
    FirstDay = 1
    LastDay = 2
    RefererHash = 1
    UrlHash = 1
    GoogleUrls <- MCGoogleUrls
    GoogleHosts <- MCGoogleHosts
    GoogleTitles <- MCGoogleTitles
    Shifts = 3
    TopK = 2
    Skipped = 1
    ManyRows = 1
INVARIANTS
    ResultIsAnAnswer
    SkippedGroupsHoldNoMatch
    ColumnsComeWithRows
PROPERTY QueryEnds
CHECK_DEADLOCK FALSE
