SPECIFICATION Spec
CONSTANTS
    Thread = {t1, t2}
    na = na
    nb = nb
    nc = nc
    nd = nd
    Name = {na, nb, nc, nd}
    NameLen <- MCLen
    Hash <- MCHash
    BLK_SIZE = 48
    REntries = 3
    MaxBlocks = 2
    Foreign <- MCForeign
    LinearLists = TRUE
    Disciplined = TRUE
INVARIANTS
    BlocksTiled
    IndexSound
CHECK_DEADLOCK FALSE
SYMMETRY Symmetric
