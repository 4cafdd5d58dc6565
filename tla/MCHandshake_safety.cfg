\* Two clients, one or two handlers, every configuration of the instance.
CONSTANTS
  a = a  b = b  h = h  g = g
  Client = {a, b}
  Handler = {h, g}
  Configs <- AllConfigs
  MaxQueue = 1
  MaxCalls = 2
  MaxFaults = 2
SPECIFICATION FairSpec
INVARIANTS TypeOK NoDowngrade SocketsOwned RefusedWithReason
PROPERTY ConnectReturns
\* Clients stop after MaxCalls calls, handlers wait for ever for clients.
CHECK_DEADLOCK FALSE
