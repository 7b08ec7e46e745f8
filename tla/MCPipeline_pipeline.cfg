SPECIFICATION FairSpec
CONSTANTS
  Starts = {"scout", "architect", "coder", "reviewer", "publisher", "coder_fix"}
  Routings = {"next_action", "loop", "head_of_it"}
  Verdicts = {"PASS", "NEEDS_FIX", "BLOCKED"}
  None = "none"
  Invented = "invented"
  MaxSlips = 2
  MaxLost = 2
  MaxFailed = 2
INVARIANTS TypeOK  OwnReports
PROPERTY Published
CHECK_DEADLOCK FALSE
