SPECIFICATION Spec
CONSTANTS
  None = None
  Tasks = {t1, t2}
  Files = {f1, f2}
  HostFds = {3, 4}
  SessionIds = {s1, s2}
  RingSize = 2
SYMMETRY Symmetry
INVARIANTS TypeOK SingleOutstanding FilesOwned HostFdsOwned CryptSucceeds SessionsPrivate
PROPERTIES ImplementsService
