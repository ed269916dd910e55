SPECIFICATION Spec
CONSTANTS
    Root = Root
    Blocks <- MCBlocks
    RootMax = 2
    NodeMax = 2
    MaxLen = 4
    Near = 2
    MaxFba = 5
    BlockSize = 2
    InOrder = TRUE
INVARIANTS
    MapExact
    OwnsExactly
    TransfersAgree
    WriteHasBlocks
    FailsOnlyWhenFull
PROPERTY
    OperationsEnd
