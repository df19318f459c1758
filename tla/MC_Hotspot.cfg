SPECIFICATION FairSpec
CONSTANTS
  NChanges = 4
  PolicyRules <- Rule4
  Exceptions <- Rule3
  MaxAge = 1
  Faults <- KillRmtree
INVARIANTS TypeOK NoDoubleApply LeftoversFlagged CleanStop ServeOnlyBehindRules StartedMeansOurs WorkerOwnsAdapter
PROPERTIES ErrorsKept StopCompletes ServesOrEnds
