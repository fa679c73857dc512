CONSTANTS
  p1 = p1
  p2 = p2
  p3 = p3
  Procs = {p1, p2, p3}
  Setups <- TcpSetups
  DeadlineCalls <- NoDeadlines
  MaxBytes = 1
  MaxTime = 1
  MaxReconnects = 0
SPECIFICATION Spec
SYMMETRY ProcSymmetry
INVARIANTS NoLostWakeup ClosedOnce ReportFinal ReportComplete CloseAgreement MissingSampleExplained
