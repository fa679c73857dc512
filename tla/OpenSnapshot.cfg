CONSTANTS
  p1 = p1
  u1 = u1
  u2 = u2
  Procs = {p1}
  Users = {u1, u2}
  Setups <- OpenSetups
  DeadlineCalls <- SetReadDeadlineOnly
  MaxBytes = 0
  MaxTime = 1
  MaxReconnects = 0
SPECIFICATION SFairSpec
INVARIANTS OnePanicAtMost
PROPERTIES WrapperUnaffected SnapshotCallsReturn
