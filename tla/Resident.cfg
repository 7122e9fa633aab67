CONSTANTS
  r1 = r1
  r2 = r2
  note = note
  NoAction = NoAction
  Replies <- TwoReplies
  Quiet <- OneNote
  MaxMessages = 1
  MaxTurns = 2
  MaxExperiments = 2
SPECIFICATION FairSpec
INVARIANTS
  NothingForgotten
  DoneIsTrue
  CapHolds
PROPERTIES
  PendingResolves
CHECK_DEADLOCK FALSE
