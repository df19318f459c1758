SPECIFICATION Spec
CONSTANTS
  NFiles = 2
  NVersions = 2
  Faults <- KillPanic
INVARIANTS TypeOK UnloadedClean LoadedWithFirmware
PROPERTY UnrelatedKept
