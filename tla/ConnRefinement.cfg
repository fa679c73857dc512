CONSTANTS
  p1 = p1
  p2 = p2
  Procs = {p1, p2}
  Setups <- PlainSetups
  DeadlineCalls <- SetDeadlineOnly
  MaxBytes = 1
  MaxTime = 1
  MaxReconnects = 0
SPECIFICATION FairSpec
PROPERTIES ImplementsContract CloseReturns WindsDown
