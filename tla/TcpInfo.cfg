SPECIFICATION MCSpec
CONSTANTS
  Hosts <- AllVersions
  Overrides <- AllVersions
  Masks <- AllMasks
  Codes <- AllCodes
  Scales <- FewScales
INVARIANTS FlagsExact ValidWasWritten NothingWithheld OptionsExact FieldsApart TroubleWarned NewestVersion
