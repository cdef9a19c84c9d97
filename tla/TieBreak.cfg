SPECIFICATION Spec
CONSTANTS
  None = None
  Run = {1}
  Provider = {"chutes", "groq", "nebius", "together"}
  Rank <- RankOfName
  Name <- NameOfName
  Id = {"m", " "}
  Blank = " "
  Entry <- Entries
  Payload <- Payloads
CHECK_DEADLOCK FALSE
INVARIANT TiesBreakOnName
