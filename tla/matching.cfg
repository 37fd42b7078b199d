SPECIFICATION MCSpec
CONSTANTS
    MCPrices = {1, 2, 3}
    MCAmounts = {0, 1, 2, 3}
    MaxAsks = 2
    MaxBids = 2
INVARIANTS
    LoopInv
    UncrossedOnReturn
PROPERTY ImplementsClearing
CHECK_DEADLOCK FALSE
