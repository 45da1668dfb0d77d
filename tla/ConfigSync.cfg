SPECIFICATION FairSpec
CONSTANTS
  Keys <- TwoSpellings
  Paths <- OneFile
  Path <- PathOf
  Etags <- TwoEtags
  MaxPublish = 3
  MaxTouch = 1
  MaxFaults = 1
INVARIANTS TypeOK SyncedIsOnRecord
PROPERTIES Mirrors MirrorsInTheEnd
CHECK_DEADLOCK FALSE
