SPECIFICATION Spec
CONSTANTS
    MaxFrames = 3
    MaxChunks = 3
    MaxReplies = 2
INVARIANTS
    NothingLeftBehind
    ClosedIsTold
PROPERTIES
    RepliesImplementChannel
    MessagesImplementChannel
CHECK_DEADLOCK FALSE
