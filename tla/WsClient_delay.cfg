SPECIFICATION Spec
CONSTANTS
  Senders = {s1}
  QueueSize = 1
  MaxMsgs = 1
  MaxConns = 2
  MaxRecv = 1
PROPERTY ReconnectsAfterDelay
