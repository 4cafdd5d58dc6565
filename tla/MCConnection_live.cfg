\* Calls that match.  Nobody may block for ever: without a fault every message
\* arrives, with one both sides come to an end.
CONSTANTS
  HeaderLen = 2
  SizeMax = 4
  MinBuffer = 1
  DefaultBuffer = 2
  MaxBuffer = 3
  Capacity = 3
  Transport = "tcp"
  Programs <- MatchedPrograms
  KeepAfter = {"SendRefused"}
  MaxFaults = 1
SPECIFICATION FairSpec
PROPERTIES AllDelivered PeerGoneUnblocks
