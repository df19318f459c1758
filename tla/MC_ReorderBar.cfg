SPECIFICATION Spec
CONSTANTS
  Stations <- OneStation
  Busy <- OneStation
  MaxEntries = 1
  PoolSize = 3
  BAWinSize = 3
  MAXSEQ = 15
  FirstNo = 13
  MaxNo = 18
  MaxGap = 1
  MaxAge = 1
  Events <- Bars
  Racing = "no"
INVARIANT AtMostOnce
