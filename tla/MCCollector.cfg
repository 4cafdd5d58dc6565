\* Scrapes, faults and restarts of the server in any order, two signals.
CONSTANTS
  MaxScrapes = 4
  MaxFaults = 3
  MaxSignals = 2
SPECIFICATION FairSpec
INVARIANTS TypeOK ConnectedAgrees OwnAnswer RecoversAtOnce StagesReported
PROPERTY Stops
\* Scrapes and signals are bounded.
CHECK_DEADLOCK FALSE
