SPECIFICATION Spec
CONSTANTS
  b1 = b1
  b2 = b2
  None = None
  Build = {b1, b2}
  Id = {"house", "sol", "nova"}
  Alias <- Aliases
  Overridden = {"sol"}
  PriceTables <- Prices
  ModelLists = {{"house", "nova"}, {"sol"}}
  Content <- Contents
  CatalogTTL = 1
  FetchLimit = 1
  MaxTime = 3
SYMMETRY Slots
INVARIANTS
  TypeOK
  AgeIsHonest
  MatchedMeansAvailable
  StaleIsExplained
  UnmatchedIsExplained
PROPERTY SnapshotKept
