SPECIFICATION Spec
CONSTANTS
  PRIVATE_NETWORKS <- OneNetwork
  MaxForeign = 1
INVARIANTS NoFallback Served UnrelatedUntouched UndoCovers
PROPERTY TheirsKept
