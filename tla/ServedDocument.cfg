SPECIFICATION ServedSpec
CONSTANTS
  r1 = r1
  r2 = r2
  k1 = k1
  k2 = k2
  short = short
  long = long
  None = None
  Request = {r1, r2}
  Key <- Keys
  Hint = {"h1", "h2"}
  MaskKey <- Mask
  Field = {"key_h1", "key_h2"}
  KeyField <- Checkbox
  Config = {short, long}
  DefaultConfig = long
  AllowAll <- Everybody
  Ticked <- NoTicks
  UsageTTL <- TTLOf
  CapabilitiesTTL <- TTLOf
  MinUsageTTL = 1
  BuildDeadline = 1
  ClientRequest <- Asked
  ProxyKeyLists <- Lists
  MaxTime = 3
  MaxArrivals = 2
  MaxReconfigure = 1
  Header = {None, 99}
  Call <- Calls
  Record = {1, 2}
  Uncounted = {1}
SYMMETRY Slots
CONSTRAINTS
  OneDocument
  Shortened
CHECK_DEADLOCK FALSE
INVARIANTS
  ServedDataAge
  ShapedForTheCaller
  ProvenanceIsHonest
  LastModelHasRow
  RowsOnlyGrow
