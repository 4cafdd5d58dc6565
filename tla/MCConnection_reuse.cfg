\* Both owners go on with the same connection after every exception, as a
\* VDMSClient does: frames may be torn, the buffer bound must hold.
CONSTANTS
  HeaderLen = 2
  SizeMax = 4
  MinBuffer = 1
  DefaultBuffer = 2
  MaxBuffer = 3
  Capacity = 3
  Transport = "tcp"
  Programs <- MixedPrograms
  KeepAfter <- AllExceptions
  MaxFaults = 2
SPECIFICATION Spec
INVARIANT BufferWithinLimit
\* Two owners may both wait for a message nobody will send.
CHECK_DEADLOCK FALSE
