SPECIFICATION Spec
CONSTANTS
  Flights <- MCFlights
  DCID <- MCDCID
  OtherDCID <- MCOtherDCID
  Replies <- CoalescedReplies
  ReplyBytes <- MCReplyBytes
  Addr = "client"
  OtherAddr = "other"
  BufferSize = 80
  MaxExpiry = 2
  MaxReplies = 3
INVARIANT LearnsAllSCIDs
