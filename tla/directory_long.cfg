SPECIFICATION Spec
CONSTANTS
    Thread = {t1}
    na = na
    nb = nb
    nc = nc
    nd = nd
    Name = {na, nb, nc, nd}
    NameLen <- MCLong
    Hash <- MCHashes
    BLK_SIZE = 48
    REntries = 3
    MaxBlocks = 2
    Foreign <- MCNoForeign
    LinearLists = TRUE
    Disciplined = TRUE
INVARIANT
    SplitKeepsNames
CHECK_DEADLOCK FALSE
SYMMETRY Symmetric
