SPECIFICATION Spec
CONSTANTS
  None = None
  Percent <- Percents
  Kind = {"session", "weekly_scoped"}
  Field = {"five_hour", "seven_day_opus"}
  Name = {"Opus", "Fable 5", "Fable-5", "Scoped", "***", ""}
  Template <- Templates
  Expand <- Expansions
  Rules <- ClaudeRules
  Payloads <- Answers
  Model = {1, 2, 3}
  Family <- Families
  FamilyOf <- FamilyOfModel
  Time = {1, 2}
  Listings <- ModelListings
  Bodies <- CodexBodies
  Snapshots <- CopilotSnapshots
CHECK_DEADLOCK FALSE
INVARIANT ModelsKeepPayloadOrder
