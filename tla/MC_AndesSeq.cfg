SPECIFICATION Spec
CONSTANTS
  Waiting <- Two
  Posted <- NoPost
  SeqMax = 4
  FirstSeq = 1
  Faults <- Overlap
CHECK_DEADLOCK FALSE
INVARIANT UniqueSeq
