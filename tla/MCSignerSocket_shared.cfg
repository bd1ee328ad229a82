\* Three runs of one vault, and one of another that has its name.
CONSTANTS
  r1 = r1
  r2 = r2
  r3 = r3
  r4 = r4
  v1 = v1
  v2 = v2
  Runs = {r1, r2, r3, r4}
  Vaults = {v1, v2}
  VaultOf <- TwoVaults
SPECIFICATION FairSpec
INVARIANTS Reachable NoStaleSocket BindsFreePath
PROPERTY StartDecides
CHECK_DEADLOCK FALSE
