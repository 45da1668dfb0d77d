SPECIFICATION FairSpec
CONSTANTS
  Containers <- OneContainer
  States <- TwoStates
  FileStates <- TwoFileStates
  Unknown = Unknown
  MaxCmds = 2
  MaxCrashes = 1
  MaxMeddling = 1
INVARIANTS TypeOK CallbackIsTrue
PROPERTIES NextMessageReached StatusEndsCurrent
