SPECIFICATION Spec
CONSTANTS
  None = None
  Server = Server
  Clients = {c1}
  Quitters = {}
  Failing = {}
  MaxLines = 6
  Window = 6
  Delay = FALSE
INVARIANTS TypeOK NoMutualBlock InStep
CHECK_DEADLOCK FALSE
