SPECIFICATION Spec
CONSTANTS
  r1 = r1
  r2 = r2
  k1 = k1
  k2 = k2
  open = open
  None = None
  Request = {r1, r2}
  Key <- Keys
  Hint = {"h1", "h2"}
  MaskKey <- Mask
  Field = {"key_h1", "key_h2"}
  KeyField <- Checkbox
  Config = {open}
  DefaultConfig = open
  AllowAll <- Everybody
  Ticked <- NoTicks
  UsageTTL <- UsageTTLOf
  CapabilitiesTTL <- CapTTLOf
  MinUsageTTL = 1
  BuildDeadline = 1
  ClientRequest <- SomeCalls
  ProxyKeyLists <- OneList
  MaxTime = 2
  MaxArrivals = 3
  MaxReconfigure = 1
SYMMETRY Slots
INVARIANTS
  TypeOK
  NoPreReconfigureDocument
  RefreshSeesLaterStore
  GrantBudget
