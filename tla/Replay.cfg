\* Two files with all ties; three files with broken records and streams without a
\* destination; and two files sent over and over up to a limit of four records.
CONSTANTS
    Calls <- MCCalls
    Route <- MCRoute
    Nothing = Nothing
    U64 = 8
    MaxTotal = 4
SPECIFICATION FairSpec
INVARIANTS MergedInOrder PacedForward FileOrderKept LimitKept
PROPERTIES Finishes
CHECK_DEADLOCK FALSE
