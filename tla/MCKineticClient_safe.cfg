\* Two calls on one client, a channel of one message, every fault.
CONSTANTS
    Calls = {c1, c2}
    NoCall = NoCall
    ChanCap = 1
    Faults = {"late", "silent"}
SPECIFICATION Spec
INVARIANTS
    TypeOK
    NoLostWakeup
    EveryCallHeld
    AnsweredByOwnRequest
    SessionIsolated
PROPERTY
    ImplementsRpcService
CHECK_DEADLOCK FALSE
