SPECIFICATION Fair
CONSTANTS
    Root = Root
    Blocks <- MCFew
    RootMax = 2
    NodeMax = 2
    MaxLen = 4
    Near = 2
    MaxFba = 3
    BlockSize = 2
    InOrder = TRUE
PROPERTY
    TruncateReturns
