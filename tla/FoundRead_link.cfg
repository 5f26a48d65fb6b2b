CONSTANTS
    OsBytes = {7}
    SegLens = {1, 258}
    MaxSegs = 2
    MaxMsgs = 3
    MaxWrites = 1
SPECIFICATION Spec
INVARIANT DeliveredAsFramed
