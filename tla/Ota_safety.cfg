SPECIFICATION WaitingSpec
CONSTANTS
  Services <- OneService
  Containers <- TwoContainers
  Tags <- TwoTags
  Cfg <- CfgOf
  ImageTags <- ImageTagsOf
  Private <- SecondTag
  MaxCmds = 2
  MaxCrashes = 1
INVARIANTS TypeOK OneVerdict CompletedIsDone StoredBeforeStart EnvInPlace EngineInv
PROPERTIES StoredOnlyWhenDown UntouchedUntilFetched HandlerAdvances LooksLikeCommandLoop
CHECK_DEADLOCK TRUE
