SPECIFICATION FairSpec
CONSTANTS
  GroupBits = 2
  MaxVarIntBytes = 3
  WordBits = 5
  MaxStringLength = 2
  HashSize = 1
  UUIDSize = 1
  ConnectPacketMinSize = 5
  Messages <- MCMessages
  HeaderSize = 4
  MaxPacketSize = 9
  InitSize = 5
  MaxSent = 3
  MaxStreams = 2
INVARIANTS NothingLost BufferFits ErrorsJustified MeaningKept VarIntsRoundTrip
PROPERTY EventuallyReturned
CHECK_DEADLOCK FALSE
