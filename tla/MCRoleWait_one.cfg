SPECIFICATION Spec
CONSTANTS
  NoText = ""
  FallbackText = "fallback"
  Waiters = {w1}
  IsReviewer = TRUE
  MainTexts <- MCMain
  SummaryTexts <- MCSummary
  Parsed <- MCParsed
  Derived <- MCDerived
  PromptRestarts = FALSE
  Faults = {"crash", "http"}
  MaxFaults = 2
INVARIANTS TypeOK CompletedReadable PrimaryIsMainWithoutFaults
PROPERTIES DecisionFinal PromptAfterArtifact ImplementsRoleRun
