CONSTANTS
  p1 = p1
  u1 = u1
  u2 = u2
  u3 = u3
  Procs = {p1}
  Users = {u1, u2, u3}
  Setups <- OpenSetups
  DeadlineCalls <- SetReadDeadlineOnly
  MaxBytes = 0
  MaxTime = 1
  MaxReconnects = 0
SPECIFICATION SSpec
INVARIANT CloseWaitsForIO
