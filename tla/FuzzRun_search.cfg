CONSTANTS
  None = None
  a = a
  b = b
  s = s
  t = t
  Actions <- MCActions
  Initials <- MCInitials
  Ranks <- MCRanks
  MaxActions = 2
  Setup <- MCSetup
  Execute <- MCExecute
  Check <- MCCheck
  Expects <- MCExpects
  Kind <- MCKind
  Simpler <- MCSimpler
  Targets <- MCTargets
  Configs <- MCConfigs
SPECIFICATION MCSpec
INVARIANTS TypeOK ReplayRunsTheCaseNamed OnlyCompletedCasesCount
  WarningIsDeserved
PROPERTIES ImplementsSearch Terminates
CHECK_DEADLOCK FALSE
