SPECIFICATION TurnSpec
CONSTANTS
  Texts <- OneOfEach
  MaxTurns = 5
  MaxSubmits = 3
  MaxCrash = 1
  MaxTimeout = 1
  MaxFault = 1
  MaxFaults = 1
INVARIANTS
  AuthorityFirst
  RoutesAgree
  ActiveIsTheTurn
PROPERTY TurnObserved
\* The turns of the conversation are bounded.
CHECK_DEADLOCK FALSE
