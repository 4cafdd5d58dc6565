\* Queries with a serialised size that does not fit in a uint32_t.
CONSTANTS
  SessionExpiry <- FewSession
  RefreshExpiry <- FewRefresh
  Sizes = {0, 2, 4, 5}
  SizeLimit = 1
  SizeModulus = 4
  Reuses = {FALSE}
  Latency = 1
  Stall = 1
  MaxQueries = 2
  MaxTime = 4
  MaxGrants = 5
  MaxFaults = 0
SPECIFICATION Spec
INVARIANT NothingTruncated
CHECK_DEADLOCK FALSE
