SPECIFICATION Spec
CONSTANTS
    JournalLimit = 4
    MaxReplay = 2
    PageLimit = 2
    Faults = {"drop"}
    MaxSequence = 4
    MaxAttach = 1
    MaxFaults = 1
    MaxQueue = 2
PROPERTY ReplayCatchesUp
CHECK_DEADLOCK FALSE
