\* Two connections of two requests each, every fault.
CONSTANTS
    Conns = {c1, c2}
    NoBlob = NoBlob
    MaxRequests = 2
    MaxBody = 1
    Faults = {"badurl", "backend", "disconnect", "stop"}
SPECIFICATION Spec
SYMMETRY ConnSymmetry
INVARIANTS
    EveryRequestIsAnswered
    RefusedIsNotStored
    BodyNeedsUpload
    AttributesAreLocal
CHECK_DEADLOCK FALSE
