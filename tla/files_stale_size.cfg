SPECIFICATION Spec
CONSTANTS
    Root = Root
    Blocks <- MCBlocks
    RootMax = 2
    NodeMax = 2
    MaxLen = 100
    Near = 2
    MaxFba = 5
    BlockSize = 2
    InOrder = TRUE
INVARIANT
    PreparedBlocks
