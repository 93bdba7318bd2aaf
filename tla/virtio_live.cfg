SPECIFICATION FairSpec
CONSTANTS
  None = None
  Tasks = {t1, t2}
  Files = {f1}
  HostFds = {3}
  SessionIds = {s1}
  RingSize = 1
PROPERTIES CallReturns
