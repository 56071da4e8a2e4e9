SPECIFICATION Spec
CONSTANTS
    Offers = {{"load", "resume", "list"}, {}}
    MaxOps = 2
    MaxBoot = 2
    MaxUpdates = 2
    MaxFaults = 1
INVARIANT TypeOK
INVARIANT OwnReply
INVARIANT ImportWhole
PROPERTY StaleForCause
PROPERTY NoReplacement
PROPERTY OpenReturns
PROPERTY RowsSettle
CHECK_DEADLOCK FALSE
