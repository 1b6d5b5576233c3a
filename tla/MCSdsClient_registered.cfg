\* One upload of a file of one chunk.
CONSTANTS
    Uploads = {u1}
    Downloads = {}
    MaxPieces = 2
    ChunkSize = 2
SPECIFICATION Spec
PROPERTY
    OkIsRegistered
CHECK_DEADLOCK FALSE
