SPECIFICATION Spec
CONSTANTS
  Base = 8
  IPText <- MCIPText
  Now <- MCNow
  NewEvidence <- MCEvidence
  NewHeader <- MCHeader
  Handshakes <- MCHandshakes
  Whole <- MCWhole
  Streamed <- MCStreamed
  Protocol = 1
  LastNonce = {1, 9}
  RecvQSize = 1
  ReadSize = 12
  MaxSent = 3
INVARIANTS HashesTheMessage RoundTrip InOrder NothingHeldBack
CHECK_DEADLOCK FALSE
