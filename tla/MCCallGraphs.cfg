SPECIFICATION Spec
CONSTANTS
  Contracts <- MCContracts
  NoContract = "-"
  Definitions <- MCDefinitions
  Selectors <- MCSelectors
  Facts <- MCFacts
  Unresolved = "?"
  Projects <- MCProjects
  SpotsOf <- MCSpotsOf
  Directions = {"inward", "both ways"}
  StateVariables = {"x", "y"}
  Pointers = {"q"}
  Elsewhere = "-"
INVARIANTS GraphsAreClosures VisitsAreExact CallsReachTheirTargets EntryPointsAreTheInterface CapturesAreWhatRuns CachedLengthsDoNotChange LockedEtherIsReal UnlockedEtherIsSent ConstantsAreNeverWritten
PROPERTIES Ends
