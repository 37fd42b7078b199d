\* Two requests, so that one follows another in the same read.
SPECIFICATION Spec
CONSTANTS
  Octet = {"b", "b1", "b2"}
  Request <- Requests
  MaxRequests = 2
INVARIANTS
    AnswersInOrder
    RequestsArriveWhole
\* The connection ends, or waits for more.
CHECK_DEADLOCK FALSE
