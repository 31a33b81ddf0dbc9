SPECIFICATION Spec
CHECK_DEADLOCK FALSE
CONSTANTS
  Alice = Alice
  Bob = Bob
  TokenId = TokenId
  OtherId = OtherId
  None = None
  Actors <- MCActors
  Admin = Alice
  Token = TokenId
  Amounts = {1}
  Fees = {1}
  Jumps = {1}
  InitialSupply = 1
  Keys <- MCKeys
  Worlds <- MCWorlds
  Configs <- MCConfigs
  NetworkLimits <- Limits
  Targets <- MCTargets
  MaxActions = 3
  Actions <- MCActions
  Preconditions <- MCPreconditions
  NextState <- MCNextState
  Script <- MCScript
  Expects <- MCExpects
  Holds <- MCHolds
  Reading <- MCReading
  Code <- MCCode
  MaxSeq = 5
  MaxTime = 17
  MaxEntries = 6
INVARIANTS
  TypeOK
  RecordsAccountForStorage
  ReadOnlyGuardIsExact
  PassedCaseLostNothing
PROPERTIES
  AuthorizationStaysInItsAction
  NegativeTestsAreExact
  BreachIsNeverPassed
  ClockMovesForward
