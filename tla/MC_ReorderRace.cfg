SPECIFICATION Spec
CONSTANTS
  Stations <- TwoStations
  Busy <- OneStation
  MaxEntries = 1
  PoolSize = 2
  BAWinSize = 3
  MAXSEQ = 15
  FirstNo = 13
  MaxNo = 17
  MaxGap = 1
  MaxAge = 2
  Events <- AllButEap
  Racing = "frames"
INVARIANTS PoolConserved TableConsistent
