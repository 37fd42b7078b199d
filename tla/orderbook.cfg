SPECIFICATION MCSpec
CONSTANTS
    MCPrices = {1, 2}
    MCAmounts = {1, 2}
    MCTimes = {1, 2}
    DatasetSize = 2
    MaxInserts = 2
INVARIANTS
    BookSorted
    NextTimeIsSuccessor
PROPERTIES
    UncrossedAfterMatch
    MatchConfined
    FillsDebitedIfUnique
