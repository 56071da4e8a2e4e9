SPECIFICATION Spec
CONSTANTS
    JournalLimit = 2
    MaxReplay = 2
    PageLimit = 1
    Faults = {"drop", "timeout", "blocked"}
    MaxSequence = 4
    MaxAttach = 2
    MaxFaults = 2
    MaxQueue = 2
INVARIANT TypeOK
INVARIANT QuietMeansSynced
INVARIANT HistoryWhole
CHECK_DEADLOCK FALSE
PROPERTY CatchesUp
