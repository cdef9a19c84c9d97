SPECIFICATION Spec
CONSTANTS
  b1 = b1
  b2 = b2
  a1 = a1
  a2 = a2
  Build = {b1, b2}
  Auth = {a1, a2}
  FileLists <- MixedLists
  MaxRequests <- TwoRequests
CHECK_DEADLOCK FALSE
SYMMETRY Slots
INVARIANTS
  TypeOK
  EveryCredentialListed
  QuotaOrError
  ModelsMoveForward
