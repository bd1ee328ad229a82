SPECIFICATION FairSpec
CONSTANTS
  a = a
  b = b
  c = c
  d = d
  Vaults <- MCVaults
  ArgLists <- MCArgLists
  New = a
  Label <- MCLabel
  SealedName <- MCSealedName
  Port <- MCPort
  Android <- MCAndroid
INVARIANTS
  VaultsLast
  NothingLeft
  ResultIsWhole
  VaultsApart
PROPERTIES
  ReadyWhenListening
  ImplementsOracles
  StopsForGood
CHECK_DEADLOCK FALSE
