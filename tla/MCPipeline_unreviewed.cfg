SPECIFICATION FairSpec
CONSTANTS
  Starts = {"scout"}
  Routings = {"next_action"}
  Verdicts = {"PASS", "NEEDS_FIX", "BLOCKED"}
  None = "none"
  Invented = "invented"
  MaxSlips = 0
  MaxLost = 0
  MaxFailed = 0
INVARIANT PublisherAfterPass
CHECK_DEADLOCK FALSE
