SPECIFICATION Spec
CONSTANTS
  None = None
  Id = {"house", "sol", "gpt-5", "a:b", ""}
  Skipped = {"a:b", ""}
  Forced = {"gpt-5"}
  Owner = {"acme", "anthropic", "openai"}
  KindOf <- Kinds
  Provider = {"claude", "codex"}
  Inputs <- OneNumber
CHECK_DEADLOCK FALSE
INVARIANT DefaultsAreLast
