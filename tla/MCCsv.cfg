CONSTANTS
    Fields <- MCFields
    RowWidths <- MCWidths
    MaxRows = 2
    Texts <- MCTexts
SPECIFICATION Spec
INVARIANTS
    QuotesAgree
    RowsEndOutsideQuotes
    ReadsWhatWasWritten
CHECK_DEADLOCK FALSE
