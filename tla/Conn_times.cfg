CONSTANTS
  p1 = p1
  p2 = p2
  Procs = {p1, p2}
  Setups <- ClockSetups
  DeadlineCalls <- NoDeadlines
  MaxBytes = 2
  MaxTime = 2
  MaxReconnects = 0
SPECIFICATION Spec
SYMMETRY ProcSymmetry
INVARIANTS StampsOrdered
