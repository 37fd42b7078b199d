SPECIFICATION CrowSpec
CONSTANTS
    Workers = 2
    Connection = {c1, c2, c3, c4}
    Timeout = 2
    MaxId = 3
INVARIANT DeadlinesAreLive
PROPERTY OnlyIdleTimedOut
SYMMETRY Symmetry
