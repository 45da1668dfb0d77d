SPECIFICATION FairSpec
CONSTANTS
  Senders = {s1}
  QueueSize = 1
  MaxMsgs = 2
  MaxConns = 2
  MaxRecv = 1
PROPERTY StopEndsAll
PROPERTY Reconnects
PROPERTY QueuedIsWritten
