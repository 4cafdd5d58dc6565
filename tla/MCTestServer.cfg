SPECIFICATION TestSpec
CONSTANTS
  Sessions = {s1, s2}
  Configs <- ConfigsHere
  MaxRequests = 3
INVARIANTS TypeOK CountedOnce ReadyHasItsPair OnlyRudeClientsKill DialsAListener
PROPERTIES DestructorReturns
CHECK_DEADLOCK FALSE
