SPECIFICATION FairSpec
CONSTANTS
  NoText = ""
  limit = 1
  max_pages = 2
  Lag = TRUE
  Words <- MCWords
  MaxTurns = 2
  MaxEvents = 2
  MaxFaults = 1
  Requests <- MCRequests
  max_polls = 2
  start_attempts = 2
  final_retries = 2
INVARIANTS TypeOK CollectedOnce EmptyAfterAllLooks EmptyOnlyIfSilent FinishWins
PROPERTY CallEnds
