\* Two uploads and a download of a content, files of up to two chunks.
CONSTANTS
    Uploads = {u1, u2}
    Downloads = {d1}
    MaxPieces = 4
    ChunkSize = 2
SPECIFICATION Spec
INVARIANTS
    RoundTrip
    RegistersLength
    ErrorIsUnregistered
SYMMETRY OperationSymmetry
CHECK_DEADLOCK FALSE
