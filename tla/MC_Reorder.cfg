SPECIFICATION FairSpec
CONSTANTS
  Stations <- OneStation
  Busy <- OneStation
  MaxEntries = 1
  PoolSize = 5
  BAWinSize = 3
  MAXSEQ = 15
  FirstNo = 13
  MaxNo = 19
  MaxGap = 1
  MaxAge = 1
  Events <- Sessions
  Racing = "no"
INVARIANTS OnceInOrder WindowHeld HeadIsBlocked
PROPERTY Drained
