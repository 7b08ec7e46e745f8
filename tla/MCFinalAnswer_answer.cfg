SPECIFICATION FairSpec
CONSTANTS
  NoText = ""
  limit = 1
  max_pages = 2
  retry_total = 1
  retry_interval = 1
  Lag = TRUE
  Words <- MCAnswers
  MaxTurns = 2
  MaxEvents = 4
  MaxFaults = 1
INVARIANTS TypeOK NewestFirst NothingSkipped NoAnswerMissed AnswerOfFinishedTurn
PROPERTY RequestEnds
