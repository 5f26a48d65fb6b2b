CONSTANTS
    Names = {s1}
    Limits = {0, 2}
    MaxRequests = 3
SPECIFICATION FairSpec
INVARIANTS TypeOK NoCommandBeforeVersion
PROPERTY ServedOrClosed
