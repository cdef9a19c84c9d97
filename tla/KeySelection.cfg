SPECIFICATION FairSelectionSpec
CONSTANTS
  r1 = r1
  k1 = k1
  k2 = k2
  None = None
  Request = {r1}
  Key <- Keys
  Hint = {"h1", "h2"}
  MaskKey <- Mask
  Field = {"key_h1", "key_h2"}
  KeyField <- Checkbox
  Block <- Blocks
  DefaultBlock <- Empty
  DefaultTTL = 2
  Config <- Configs
  DefaultConfig <- ParsedEmpty
  AllowAll <- AllowAllOf
  Ticked <- TickedOf
  UsageTTL <- UsageTTLOf
  CapabilitiesTTL <- UsageTTLOf
  MinUsageTTL = 1
  BuildDeadline = 1
  ClientRequest <- SomeCalls
  ProxyKeyLists <- SomeLists
  MaxTime = 1
  MaxArrivals = 2
  MaxReconfigure = 1
INVARIANTS
  SelectionTypes
  AuthorizedService
  BlockInForce
  RefusedWasBarred
PROPERTIES
  RequestsAnswered
