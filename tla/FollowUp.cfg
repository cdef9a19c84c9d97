SPECIFICATION Spec
CONSTANTS
  Record = {1, 2, 3, 4, 5}
  RawProvider = {"anthropic", "claude", "openai", ""}
  Normalize <- Names
  Provider = {"claude", "codex"}
  Auth = {"a1", "a2"}
  Model = {"sonnet", "opus", "image"}
  Blank = ""
  None = None
  RecordOf <- Requests
  FollowUp = {3}
  MaxTime = 3
CHECK_DEADLOCK FALSE
INVARIANT RequestModelStays
