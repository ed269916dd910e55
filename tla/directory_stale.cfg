SPECIFICATION Spec
CONSTANTS
    Thread = {t1, t2}
    na = na
    nb = nb
    nc = nc
    nd = nd
    Name = {na, nb, nc, nd}
    NameLen <- MCHalf
    Hash <- MCHashes
    BLK_SIZE = 48
    REntries = 3
    MaxBlocks = 2
    Foreign <- MCNoForeign
    LinearLists = FALSE
    Disciplined = FALSE
INVARIANT
    AddedIsFound
CHECK_DEADLOCK FALSE
SYMMETRY Symmetric
