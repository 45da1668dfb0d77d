SPECIFICATION FairSpec
CONSTANTS
  Sessions <- OneSession
  MaxVersion = 2
  MaxAdvertised = 3
  MaxCrashes = 1
INVARIANTS TypeOK SessionsClean WholeBinary
PROPERTIES UpdatesForward SessionsEnd Settles
CHECK_DEADLOCK FALSE
