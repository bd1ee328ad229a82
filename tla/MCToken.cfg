\* Two connections for one slot, while the signer is closed and its vault after it.
SPECIFICATION FairSpec
CONSTANTS
  Conns = {c1, c2}
  Slots = 1
INVARIANT SlotsExact
PROPERTIES
  KeyNeedsPin
  ImplementsOracle
  HandlerEnds
  EverythingEnds
CHECK_DEADLOCK FALSE
