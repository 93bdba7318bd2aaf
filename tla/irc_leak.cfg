SPECIFICATION Spec
CONSTANTS
  None = None
  Clients = {c1}
  Leavers = {c1}
  MaxSends = 2
  Window = 2
  Failing = {}
  Encrypted = FALSE
INVARIANT ClosesOwnFile
CHECK_DEADLOCK FALSE
