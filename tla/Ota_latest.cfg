SPECIFICATION Spec
CONSTANTS
  Services <- OneService
  Containers <- TwoContainers
  Tags <- TwoTags
  Cfg <- CfgOf
  ImageTags <- ImageTagsOf
  Private <- SecondTag
  MaxCmds = 3
  MaxCrashes = 0
INVARIANTS LoadsLastStored
CHECK_DEADLOCK FALSE
