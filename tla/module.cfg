SPECIFICATION FairSpec
CONSTANTS
  None = None
  Tasks = {t1, t2}
  MaxPlugs = 3
  NrDevices = 2
INVARIANTS TypeOK ListSound DeviceAlive NothingBehind
PROPERTIES UnloadEnds
CHECK_DEADLOCK FALSE
