SPECIFICATION FairSpec
CONSTANTS
  Tasks <- Threads3
  Timers <- TwoTimers
  Periodic <- OnePeriodic
  Pool = 1
  Commands <- TwoKinds
  Backlog = 1
  Loads = {"timers"}
PROPERTIES RunsExpired
