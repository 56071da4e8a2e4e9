SPECIFICATION Spec
CONSTANTS
    c1 = c1
    c2 = c2
    r1 = r1
    r2 = r2
    r3 = r3
    k1 = k1
    Conns <- TwoConns
    Requests <- ThreeRequests
    CommandOf <- MixedCommands
    Offers <- MixedOffers
    Granted <- MixedScopes
    Codes <- OneCode
    CacheLimit = 2
    MaxOps = 4
    MaxFaults = 1
INVARIANT TypeOK
INVARIANT PairedOnce
INVARIANT RetryWindow
INVARIANT AnswerIsOwn
PROPERTY CallReturns
PROPERTY StopStopsUnlessHeld
CHECK_DEADLOCK FALSE
