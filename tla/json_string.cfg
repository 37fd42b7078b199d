SPECIFICATION Spec
CONSTANTS
  Piece <- Pieces
  MaxPieces = 3
  Stored <- Strings
  Handler = {"strict", "ignore", "replace"}
  BufferSize = 18
INVARIANTS
    BufferFits
    ParsedIsDumped
    RoundTrip
\* The loops end.
CHECK_DEADLOCK FALSE
