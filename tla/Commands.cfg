SPECIFICATION MCSpec
CONSTANTS
  CommandLines <- SomeLines
  PathNames <- ShortNames
  maxRedirects = 2
  Names <- FiveNames
  Server = "Server"
  HopByHop <- TwoHopByHop
  rank <- Alphabetical
  MaxHops = 4
INVARIANTS SavedOnce SavedHere OnlyLeftUnreported PrintedInOrder
\* The programs end.
CHECK_DEADLOCK FALSE
