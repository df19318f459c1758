SPECIFICATION FairSpec
CONSTANTS
  Tasks <- Threads3
  Timers <- TwoTimers
  Periodic <- OnePeriodic
  Pool = 1
  Commands <- TwoKinds
  Backlog = 1
  Loads <- LoadKinds
INVARIANTS TypeOK PeriodicAlive Quiet
PROPERTIES CommandsInOrder Executed CloseReturns
