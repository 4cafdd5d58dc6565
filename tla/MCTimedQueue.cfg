SPECIFICATION Spec
CONSTANTS
  Digits = 1
  Inf = Inf
  NaN = NaN
  Places = 5
  Double <- DoubleHere
  MinNormal = 8
  Infinite = 96
  Queues = {q1, q2}
  Timers = {t1, t2}
  Histograms = {a}
  Summaries = {b}
  NoMetric = NoMetric
  Bounds <- BoundsHere
  Load <- LoadHere
  MaxWhole = 12
  MaxTime = 4
  MaxStarts = 3
SYMMETRY Alike
INVARIANTS TypeOK ObservedOnce TimeConserved ScrapedIsCollected RewrittenAlike ReadsWhatIsWritten
PROPERTIES ScrapedOnlyGrows
CHECK_DEADLOCK FALSE
