SPECIFICATION Spec
CONSTANTS
  None = None
  Tasks = {t1}
  Files = {f1}
  HostFds = {3}
  SessionIds = {s1}
  RingSize = 1
INVARIANT OpenFailureReported
CHECK_DEADLOCK FALSE
