\* Two calls, room in the channel for both tokens and the stop, deadlines pass.
CONSTANTS
    Calls = {c1, c2}
    NoCall = NoCall
    ChanCap = 3
    Faults = {"late"}
SPECIFICATION FairSpec
PROPERTIES
    EveryCallCompletes
    EveryCallReturns
    DestructorReturns
CHECK_DEADLOCK FALSE
