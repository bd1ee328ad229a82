\* Two clients publish twice each and subscribe, again and again; the ring holds
\* two of the four replies, so that it turns over while replays run.
SPECIFICATION Spec
CONSTANTS
  Conns = {c1, c2}
  SubIds = {s1}
  Filters = {{c1, c2}}
  MaxClients = 2
  MaxSubs = 2
  MaxRecent = 2
  MaxEvents = 2
SYMMETRY ConnSymmetry
INVARIANTS
  NoLostReply
  PublisherOrder
  OkBeforeReply
CHECK_DEADLOCK FALSE
