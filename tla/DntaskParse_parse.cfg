CONSTANTS
    MaxNode = 6
    MaxUser = 2
    MaxPassword = 2
    MaxAccount = 2
    HostLens = {1, 6}
    NameLens = {0, 1, 17}
    LocalUserLens = {3}
    FilenameSize = 128
SPECIFICATION Spec
INVARIANT ParseMatchesReference
