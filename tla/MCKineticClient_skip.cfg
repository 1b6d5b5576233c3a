\* The scan of the deadlines skips calls.
CONSTANTS
    Calls = {c1, c2}
    NoCall = NoCall
    ChanCap = 2
    Faults = {"late"}
SPECIFICATION Spec
INVARIANT
    NoLateCallSkipped
CHECK_DEADLOCK FALSE
