\* A server that turns one request down.
CONSTANTS
  SessionExpiry <- FewSession
  RefreshExpiry <- FewRefresh
  Sizes = {0}
  SizeLimit = 1
  SizeModulus = 4
  Reuses = {FALSE}
  Latency = 1
  Stall = 1
  MaxQueries = 2
  MaxTime = 4
  MaxGrants = 5
  MaxFaults = 1
SPECIFICATION Spec
INVARIANT CatchNeverHit
CHECK_DEADLOCK FALSE
