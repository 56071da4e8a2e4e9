SPECIFICATION Spec
CONSTANTS
    c1 = c1
    c2 = c2
    r1 = r1
    r2 = r2
    r3 = r3
    k1 = k1
    Conns <- OneConn
    Requests <- ThreeRequests
    CommandOf <- InputOnly
    Offers <- DevOnly
    Granted <- AllScopes
    Codes <- OneCode
    CacheLimit = 2
    MaxOps = 5
    MaxFaults = 1
INVARIANT OncePerRequest
CHECK_DEADLOCK FALSE
