SPECIFICATION FairSpec
CONSTANTS
  NoText = ""
  FallbackText = "fallback"
  Waiters = {w1}
  IsReviewer = FALSE
  MainTexts <- MCMain
  SummaryTexts <- MCSummary
  Parsed <- MCParsedOther
  Derived <- MCDerived
  PromptRestarts = TRUE
  Faults = {"http"}
  MaxFaults = 2
INVARIANT ReportedCompletionHolds
PROPERTY EventuallySettled
