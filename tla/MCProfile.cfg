\* Two passwords and none, 206 orders of certificates and 17 other files.
SPECIFICATION Spec
CONSTANTS
  NoAlias = ""
  Empty = ""
  Passwords = {"", "p", "q"}
  Files <- MCFiles
INVARIANTS
  AbandonLeavesNothing
  OpenedIsWhole
  ChainFits
PROPERTIES
  KeepsOthers
  
