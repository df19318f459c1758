SPECIFICATION FairSpec
CONSTANTS
  Waiting <- Two
  Posted <- Post
  SeqMax = 2
  FirstSeq = 1
  Faults <- Serial
CHECK_DEADLOCK FALSE
INVARIANTS Intact AnswerMatches NoneLost
PROPERTY Returns
