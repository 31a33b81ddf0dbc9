SPECIFICATION Spec
CONSTANTS
  None = None
  High = 2
  MaxEdits = 1
  MaxRuns = 2
  Occurrences <- MCOccurrences
  Severity <- MCSeverity
  Places <- MCPlaces
  Projects <- MCProjects
  Requests <- MCRequests
  Trees <- MCTrees
INVARIANTS
  GreenStepWasChecked
CHECK_DEADLOCK FALSE
