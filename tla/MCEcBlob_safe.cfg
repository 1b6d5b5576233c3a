\* Three data and two parity fragments, a download.
CONSTANTS
    K = 3
    M = 2
    ChunkSize = 2
    Downloads = {d1}
SPECIFICATION Spec
INVARIANTS
    TypeOK
    NeverDecodes
CHECK_DEADLOCK FALSE
