SPECIFICATION Spec
CONSTANTS
    Thread = {t1, t2}
    na = na
    nb = nb
    nc = nc
    nd = nd
    Name = {na, nb, nc, nd}
    NameLen <- MCShort
    Hash <- MCHashes
    BLK_SIZE = 48
    REntries = 3
    MaxBlocks = 2
    Foreign <- MCForeignShort
    LinearLists = FALSE
    Disciplined = FALSE
INVARIANT
    FindsAll
CHECK_DEADLOCK FALSE
SYMMETRY Symmetric
