SPECIFICATION FairSpec
CONSTANTS
  None = None
  Clients = {c1, c2}
  Leavers = {c1}
  MaxSends = 2
  Window = 1
  Failing = {"accept", "memory", "crypto"}
  Encrypted = TRUE
INVARIANTS TypeOK LocksExclusive
PROPERTIES MessagePrinted DistributionEnds
CHECK_DEADLOCK FALSE
