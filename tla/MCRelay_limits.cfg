\* Three connections for two slots, two subscription ids for one subscription.
SPECIFICATION Spec
CONSTANTS
  Conns = {c1, c2, c3}
  SubIds = {s1, s2}
  Filters = {{c1, c2, c3}}
  MaxClients = 2
  MaxSubs = 1
  MaxRecent = 2
  MaxEvents = 0
SYMMETRY ConnSymmetry
INVARIANTS
  ClientTableExact
  SubsBounded
CHECK_DEADLOCK FALSE
