SPECIFICATION KicksWithIntx
CONSTANTS
  NQueues = 3
  Vectors = {v1, v2}
  NoVector = NoVector
SYMMETRY Symmetry
INVARIANTS TypeOK KickPending HostAllOrNone ServedWhenReady BuggyGuestKnown GuestAllOrNone StepsAllowed InterruptKept
