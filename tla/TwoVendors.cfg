SPECIFICATION Spec
CONSTANTS
  None = None
  Run = {1, 2}
  Provider = {"alibaba", "deepseek", "nebius"}
  Rank <- RankOfName
  Name <- NameOfName
  Id = {"m", " "}
  Blank = " "
  Entry <- Entries
  Payload <- Payloads
CHECK_DEADLOCK FALSE
INVARIANT RunsAgree
