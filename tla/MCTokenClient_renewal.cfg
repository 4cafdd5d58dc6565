\* Owners that drop the client after an exception and owners that go on with it
\* and its connection.
CONSTANTS
  SessionExpiry <- AnySession
  RefreshExpiry <- AnyRefresh
  Sizes = {0, 2}
  SizeLimit = 1
  SizeModulus = 4
  Reuses = {TRUE, FALSE}
  Latency = 1
  Stall = 1
  MaxQueries = 2
  MaxTime = 5
  MaxGrants = 5
  MaxFaults = 1
SPECIFICATION Spec
INVARIANTS TypeOK AnswersTheQuery CarriesLatestToken UsedInTime NoRenewalLoop
PROPERTY OnlyNewerTokens
\* Calls, time and grants are bounded.
CHECK_DEADLOCK FALSE
