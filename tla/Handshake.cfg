SPECIFICATION FairSpec
CONSTANTS
  Flights <- MCFlights
  DCID <- MCDCID
  OtherDCID <- MCOtherDCID
  Replies <- MCReplies
  ReplyBytes <- MCReplyBytes
  Addr = "client"
  OtherAddr = "other"
  BufferSize = 80
  MaxExpiry = 2
  MaxReplies = 3
INVARIANTS HelloFaithful OpensWhenCovered  RoutesToOwner
PROPERTY ServerGetsHello
