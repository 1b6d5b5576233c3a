\* Any three of two uploads, a download and a removal, on two drives, pages of
\* two keys; nothing fails.
CONSTANTS
    Uploads = {u1, u2}
    Downloads = {d1}
    Removals = {r1}
    NDrives = 2
    MaxBlocks = 1
    MetaBlocks = 0
    MaxReturned = 2
    GetWindow = 2
    DeleteWindow = 2
    MaxOps = 3
    MaxFailures = 0
SPECIFICATION Spec
SYMMETRY OpSymmetry
INVARIANTS
    RemovalIsComplete
    NoOrphan
    DeliversWhatStays
    ManifestIsLast
CHECK_DEADLOCK FALSE
