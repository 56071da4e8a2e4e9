SPECIFICATION Spec
CONSTANTS
    c1 = c1
    Clients <- OneClient
    JournalLimit = 2
    Faults = {"kill"}
    MaxSequence = 4
    MaxBoot = 3
    MaxBatch = 2
INVARIANT SequenceNamesOneEvent
CHECK_DEADLOCK FALSE
