SPECIFICATION Spec
CONSTANTS
  NoText = ""
  FallbackText = "fallback"
  Waiters = {w1, w2}
  IsReviewer = TRUE
  MainTexts <- MCMainSmall
  SummaryTexts <- MCSummarySmall
  Parsed <- MCParsed
  Derived <- MCDerived
  PromptRestarts = TRUE
  Faults = {}
  MaxFaults = 0
SYMMETRY MCSymmetry
VIEW MCView
INVARIANTS CompletedHasResult PassOnlyFromAgent
