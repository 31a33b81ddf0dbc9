SPECIFICATION Spec
CONSTANTS
  None = None
  High = 2
  MaxEdits = 2
  MaxRuns = 2
  Occurrences <- MCOccurrences
  Severity <- MCSeverity
  Places <- MCPlaces
  Projects <- MCProjects
  Requests <- MCRequests
  Trees <- MCTrees
INVARIANTS
  TypeOK
  EveryFindingIsAccountedFor
  FailsExactlyOnWhatIsNew
  StaleEntriesAreTheGone
  GreenStepHasNothingNew
CHECK_DEADLOCK FALSE
