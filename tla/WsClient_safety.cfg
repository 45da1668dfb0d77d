SPECIFICATION Spec
CONSTANTS
  Senders = {s1, s2}
  QueueSize = 2
  MaxMsgs = 4
  MaxConns = 3
  MaxRecv = 2
SYMMETRY SenderSymmetry
INVARIANT TypeOK
INVARIANT HandlersSerial
INVARIANT NoLeakedConn
INVARIANT EachMessageOnce
INVARIANT OnlyRequeuedOvertaken
INVARIANT SafeInv
PROPERTY OnlyFailureDisconnects
PROPERTY KeepsPromise
