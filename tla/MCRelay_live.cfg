\* Two clients with filters of their own, one reply each, handlers fairly run.
SPECIFICATION FairSpec
CONSTANTS
  Conns = {c1, c2}
  SubIds = {s1}
  Filters = {{c1, c2}, {c1}}
  MaxClients = 2
  MaxSubs = 2
  MaxRecent = 1
  MaxEvents = 1
PROPERTIES
  HandlersServe
CHECK_DEADLOCK FALSE
