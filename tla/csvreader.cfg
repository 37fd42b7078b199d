SPECIFICATION Spec
CONSTANT Files <- MCFiles
INVARIANTS
    TokeniseCorrect
    GoodRowsInOrder
    CleanSuffices
CHECK_DEADLOCK FALSE
