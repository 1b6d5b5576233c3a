\* Two operations of any kind on the chunks of a host.
CONSTANTS
    Ops = {o1, o2}
    NoOp = NoOp
    Chunks = 1
SPECIFICATION Spec
SYMMETRY OpSymmetry
INVARIANTS
    OwnReply
    OkIsDone
    CommitDecides
CHECK_DEADLOCK FALSE
