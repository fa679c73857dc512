SPECIFICATION MCSpec
CONSTANTS
  Hosts <- Host49
  Overrides <- SomeVersions
  Masks <- AllMasks
  Codes <- AllCodes
  Scales <- FewScales
INVARIANT ValidIsWritten
