SPECIFICATION MCSpec
CONSTANTS
  MaxLen = 6
  Lines <- SomeLines
  MaxLines = 2
  Majors <- SomeMajors
  Minors <- OneMinor
  Builds <- EdgeBuilds
  Procs = {g1, g2}
  Hosts <- TwoHosts
INVARIANTS ParsesNumbers RoundTrip CheckIsNumeric PreviousLTSC NumbersAgree ValueAsWritten
\* Nothing is left to do once every Get has returned.
CHECK_DEADLOCK FALSE
