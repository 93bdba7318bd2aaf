SPECIFICATION FairSpec
CONSTANTS
  None = None
  Server = Server
  Clients = {c1, c2}
  Quitters = {c1}
  Failing = {c1, Server}
  MaxLines = 1
  Window = 1
  Delay = TRUE
PROPERTIES AllRead NextServed
CHECK_DEADLOCK FALSE
