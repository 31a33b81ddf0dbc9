CONSTANTS
  None = None
  a = a
  b = b
  s = s
  t = t
  Actions <- MCActions
  Initials <- MCInitials
  Ranks <- MCRanks
  MaxActions = 3
  Setup <- MCSetup
  Execute <- MCExecute
  Check <- MCCheck
  Expects <- MCExpects
  Kind <- MCKind
  Simpler <- MCSimpler
  Targets <- ShrinkTargets
  Configs <- ShrinkConfigs
SPECIFICATION Spec
PROPERTIES JournalDescribesMinimal FailingStepIsTheFailure
CHECK_DEADLOCK FALSE
