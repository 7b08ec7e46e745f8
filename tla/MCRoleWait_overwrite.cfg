SPECIFICATION Spec
CONSTANTS
  NoText = ""
  FallbackText = "fallback"
  Waiters = {w1}
  IsReviewer = TRUE
  MainTexts <- MCMain
  SummaryTexts <- MCSummary
  Parsed <- MCParsed
  Derived <- MCDerived
  PromptRestarts = TRUE
  Faults = {"http"}
  MaxFaults = 1
INVARIANT PrimaryIsMainAnswer
