SPECIFICATION Spec
CONSTANTS
  Record = {1, 2, 3, 4, 5, 6, 7}
  RawProvider = {"anthropic", "claude", "openai", ""}
  Normalize <- Names
  Provider = {"claude", "codex"}
  Auth = {"a1", "a2"}
  Model = {"sonnet", "opus", "image"}
  Blank = ""
  None = None
  RecordOf <- Deliveries
  FollowUp = {3}
  MaxTime = 2
CHECK_DEADLOCK FALSE
INVARIANTS
  TypeOK
  NamesTheNewest
  CountersAddUp
  LastModelIsCounted
PROPERTIES
  NewestRequestWins
  CountersNeverFall
