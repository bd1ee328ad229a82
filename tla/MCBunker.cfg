\* One connection, the PKCS#11 signer of the same identity and the closing routines.
SPECIFICATION FairSpec
CONSTANT Conns = {c1}
INVARIANTS
  KeyExclusive
  ClosedIsQuiet
  WaitReportsFailures
PROPERTIES
  SignedRefusedOnlyForCause
  ImplementsOracle
  ShutdownCompletes
  EventsServed
