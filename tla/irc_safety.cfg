SPECIFICATION Spec
CONSTANTS
  None = None
  Clients = {c1, c2, c3}
  Leavers = {}
  MaxSends = 2
  Window = 2
  Failing = {}
  Encrypted = TRUE
SYMMETRY Symmetry
CONSTRAINT NoSharedId
INVARIANTS WholeOnce SenderOrder EndsForReason CopiesLayered
PROPERTIES DistributionComplete
CHECK_DEADLOCK FALSE
