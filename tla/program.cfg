SPECIFICATION FairSpec
CONSTANTS
  None = None
  Tasks = {t1, t2}
  Files = {f1, f2}
  HostFds = {3, 4}
  SessionIds = {s1, s2}
INVARIANTS TypeOK FailsEarly NothingLeft
PROPERTIES ProgramEnds ExitReleases
CHECK_DEADLOCK FALSE
