\* Two connections of two requests each; two fragments of data, two of parity.
CONSTANTS
    Conns = {c1, c2}
    NoReq = NoReq
    MaxRequests = 2
    K = 2
    M = 2
    ChunkSize = 1
    MaxFailures = 1
SPECIFICATION Spec
INVARIANTS
    ConnectionOnly
    PlainIsOwn
    StopHasCause
SYMMETRY ConnSymmetry
CHECK_DEADLOCK FALSE
