\* Three uploads, a download and a removal of a name two directories deep; or
\* three uploads, two downloads and two removals of a name of the map.
CONSTANTS
    Uploads = {u1, u2, u3}
    Downloads = {d1}
    Removals = {r1}
    MemDownloads = {e1, e2}
    MemRemovals = {s1, s2}
    NoBlob = NoBlob
    Pieces = 2
    Batch = 2
    Depth = 2
    ReadErrors = 1
    Faults = {"crash", "rename", "unlink"}
SPECIFICATION MCSpec
SYMMETRY OpSymmetry
INVARIANTS
    OneWriter
    NothingToOverwrite
    WholeWhenPublished
    NoResidue
    DownloadReadsOneBlob
    RefusalIsProgress
    PreparedOwnsItem
PROPERTY
    OrphanBlocksTheName
    ImplementsBlobStore
    MapImplementsBlobStore
CHECK_DEADLOCK FALSE
