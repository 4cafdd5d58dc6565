\* Three threads negotiate TLS, each of them more than once.
CONSTANTS
  Thread = {t1, t2, t3}
  MaxCalls = 2
SPECIFICATION Spec
INVARIANTS SettledComplete OneMethodEach
PROPERTY SettledForGood
\* Threads stop after MaxCalls calls.
CHECK_DEADLOCK FALSE
