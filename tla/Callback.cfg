CONSTANTS
  p1 = p1
  p2 = p2
  p3 = p3
  Procs = {p1, p2, p3}
  Setups <- PlainSetups
  DeadlineCalls <- NoDeadlines
  MaxBytes = 0
  MaxTime = 1
  MaxReconnects = 1
SPECIFICATION BFairSpec
INVARIANTS ReconnectsReported
PROPERTIES HangsOnlyOnItself
\* A callback that calls Close waits for itself.
CHECK_DEADLOCK FALSE
