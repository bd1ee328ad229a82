SPECIFICATION Spec
CONSTANTS
  p1 = p1
  p2 = p2
  NoPin = NoPin
  MaxSessions = 2
  MaxCerts = 1
  MaxFrame = 2
  Overhead = 1
  Pins <- MCPins
  Peers <- MCPeers
  Sizes <- MCSizes
INVARIANTS NothingKept SignsWhatWasGiven InfoIsCurrent
PROPERTY SignOpEnds
