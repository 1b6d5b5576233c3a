\* Any two of an upload with large attributes, a download and a removal, on two
\* drives; an RPC fails.
CONSTANTS
    Uploads = {u1}
    Downloads = {d1}
    Removals = {r1}
    NDrives = 2
    MaxBlocks = 1
    MetaBlocks = 1
    MaxReturned = 2
    GetWindow = 2
    DeleteWindow = 2
    MaxOps = 2
    MaxFailures = 1
SPECIFICATION FairSpec
PROPERTY
    OperationsEnd
CHECK_DEADLOCK FALSE
