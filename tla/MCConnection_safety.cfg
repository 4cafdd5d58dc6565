\* Both owners drop the connection after any exception that may have left
\* half a frame behind.
CONSTANTS
  HeaderLen = 2
  SizeMax = 4
  MinBuffer = 1
  DefaultBuffer = 2
  MaxBuffer = 3
  Capacity = 3
  Transport = "tcp"
  Programs <- MixedPrograms
  KeepAfter = {"SendRefused"}
  MaxFaults = 2
SPECIFICATION Spec
INVARIANTS TypeOK DeliveredIntact InStep
PROPERTY ChannelSpec
\* Two owners may both wait for a message nobody will send.
CHECK_DEADLOCK FALSE
