\* Two updates in flight at once.
CONSTANTS
    Refund = {1, 2}
    Legacy = {1}
    MaxRepeats = 1
    MaxMapped = 2
SPECIFICATION StaleSpec
INVARIANTS
    StaleTypeOK
    TerminalRecordIsTrue
PROPERTY TerminalRecordsKept
CHECK_DEADLOCK FALSE
