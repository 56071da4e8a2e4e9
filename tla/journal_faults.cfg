SPECIFICATION Spec
CONSTANTS
    c1 = c1
    Clients <- OneClient
    JournalLimit = 2
    Faults = {"kill", "io"}
    MaxSequence = 4
    MaxBoot = 2
    MaxBatch = 2
INVARIANT TypeOK
INVARIANT JournalBounded
INVARIANT StreamContiguous
INVARIANT PublishedUnique
INVARIANT ReplayAgreesWithStream
INVARIANT ReplayComplete
INVARIANT DurableAtRest
PROPERTY StreamSpec
CHECK_DEADLOCK FALSE
