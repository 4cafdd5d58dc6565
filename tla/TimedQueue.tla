----------------------------- MODULE TimedQueue -----------------------------
(***************************************************************************)
(* metrics::TimedQueue (include/metrics/TimedQueue.h) with the             *)
(* metrics::Timer (Timer.h) each of its elements carries and the           *)
(* ScopeTimer (util/ScopeTimer.h) inside, used by one thread: queues and   *)
(* free-standing timers (as in ClientCollector::Collect) are made, filled, *)
(* moved from one to another and destroyed while time passes, and every    *)
(* timer that ends is observed by the metric it was started for.           *)
(*                                                                         *)
(* The metrics themselves are prometheus-cpp's.  What they collect is      *)
(* written and read as MetricsJson says.                                   *)
(***************************************************************************)
EXTENDS MetricsJson

CONSTANTS Queues, Timers,    \* the variables of the program that hold them
          Histograms,        \* metrics of type prometheus::Histogram
          Summaries,         \* metrics of type prometheus::Summary
          NoMetric,          \* the null pointer
          Bounds,            \* the bucket boundaries of the histograms
          Load,              \* Load[t]: what a gauge says when the clock says t
          MaxWhole,          \* a bound below which every whole number is a double
          MaxTime, MaxStarts \* bounds on the clock and on the timers started

Metrics == Histograms \cup Summaries

ASSUME MetricAssumption ==
  /\ NoMetric \notin Metrics
  /\ IsFiniteSet(Queues) /\ IsFiniteSet(Timers) /\ IsFiniteSet(Metrics)
  /\ MaxTime \in Nat /\ MaxStarts \in Nat
  \* Boundaries have no more digits than are written.
  /\ Bounds \in Seq(0..MaxTime) /\ \A i \in DOMAIN Bounds : Bounds[i] < PowerOf10[Digits]
  /\ Load \in [0..MaxTime -> Finite \cup Special]

\* Whole numbers up to MaxWhole are doubles and, but for zero, neither
\* subnormal nor near the largest double; clock and counters stay below it.
ASSUME WholeAssumption ==
  /\ MaxWhole \in Nat \ {0} /\ MaxStarts <= MaxWhole
  /\ MaxTime <= MaxWhole /\ MaxTime * MaxStarts <= MaxWhole
  /\ \A n \in 0..MaxWhole : AsDouble(n) \in Finite
  /\ Double[MinNormal] <= AsDouble(1)
  /\ \E e \in 0..Infinite : /\ AsDouble(MaxWhole) <= PowerOf10[e]
                            /\ PowerOf10[e] <= Double[Infinite - 1]

VARIABLES
  clock,
  metric,    \* metric[q]: _wait_timer of q, with which goes a _push_counter
  queue,     \* queue[q]: the timers of the elements of q, front first
  timer,     \* timer[t]: the timer in t
  samples,   \* samples[m][d]: how often m observed the duration d
  started,   \* started[m]: value of the counter that goes with m
  busy       \* busy[m]: time spent so far in timers of m, summed over them

vars == <<clock, metric, queue, timer, samples, started, busy>>

Durations == 0..MaxTime

\* The sum of what f is on S
Total(f, S) == FoldFunctionOnSet(+, 0, f, S)

\* An empty Timer.  Another one has a ScopeTimer that runs since `since`.
Idle == [metric |-> NoMetric, since |-> 0]
\* Mutant: _start is taken from a clock that is ahead of the other one.
StartedAhead(m) == IF m = NoMetric THEN Idle ELSE [metric |-> m, since |-> clock + 1]

\* Timer::reset: a ScopeTimer with _start, unless the metric is null
StartedFor(m) == IF m = NoMetric THEN Idle ELSE [metric |-> m, since |-> clock]

Destroyed == "destroyed"    \* a queue that is not constructed, or is no more

-----------------------------------------------------------------------------
\* ~ScopeTimer: the callback observes the time since _start.
Elapsed(t) == clock - t.since

\* The observations when the timers of the sequence ts are destroyed.
Observed(ts) ==
  [m \in Metrics |-> [d \in Durations |->
     samples[m][d] + Cardinality({i \in DOMAIN ts : ts[i].metric = m /\ Elapsed(ts[i]) = d})]]

\* Timer::reset: the counter goes up for a null metric too.
Increment(m) == started' = [started EXCEPT ![m] = @ + 1]

MayStart == Total(started, Metrics \cup {NoMetric}) < MaxStarts

-----------------------------------------------------------------------------
(* Operations of TimedQueue *)

Construct(q, m) ==
  /\ metric[q] = Destroyed
  /\ metric' = [metric EXCEPT ![q] = m]
  /\ UNCHANGED <<clock, queue, timer, samples, started, busy>>

\* push_back and emplace_back
Push(q) ==
  /\ metric[q] # Destroyed
  /\ MayStart
  /\ queue' = [queue EXCEPT ![q] = Append(@, StartedFor(metric[q]))]
  /\ Increment(metric[q])
  /\ UNCHANGED <<clock, metric, timer, samples, busy>>

\* pop_front and release_front, which the caller calls on a queue that is not
\* empty()
Pop(q) ==
  /\ queue[q] # <<>>
  /\ samples' = Observed(<<Head(queue[q])>>)
  /\ queue' = [queue EXCEPT ![q] = Tail(@)]
  /\ UNCHANGED <<clock, metric, timer, started, busy>>

\* Mutant: the elements are pushed anew.
MoveRestarts(from, to) ==
  /\ metric[from] # Destroyed /\ metric[to] = Destroyed
  /\ metric' = [metric EXCEPT ![to] = metric[from]]
  /\ queue' = [queue EXCEPT ![from] = <<>>,
                           ![to] = [i \in DOMAIN queue[from] |-> StartedFor(metric[from])]]
  /\ UNCHANGED <<clock, timer, samples, started, busy>>

\* TimedQueue(TimedQueue&&): the list moves, the pointers are copied.
MoveConstruct(from, to) ==
  /\ metric[from] # Destroyed /\ metric[to] = Destroyed
  /\ metric' = [metric EXCEPT ![to] = metric[from]]
  /\ queue' = [queue EXCEPT ![from] = <<>>, ![to] = queue[from]]
  /\ UNCHANGED <<clock, timer, samples, started, busy>>

\* operator=(TimedQueue&&): the elements of the target are destroyed; it goes
\* on with the pointers of the source.
MoveAssign(from, to) ==
  /\ from # to
  /\ metric[from] # Destroyed /\ metric[to] # Destroyed
  /\ samples' = Observed(queue[to])
  /\ metric' = [metric EXCEPT ![to] = metric[from]]
  /\ queue' = [queue EXCEPT ![from] = <<>>, ![to] = queue[from]]
  /\ UNCHANGED <<clock, timer, started, busy>>

\* The destructor, with whatever is still queued
Destroy(q) ==
  /\ metric[q] # Destroyed
  /\ samples' = Observed(queue[q])
  /\ metric' = [metric EXCEPT ![q] = Destroyed]
  /\ queue' = [queue EXCEPT ![q] = <<>>]
  /\ UNCHANGED <<clock, timer, started, busy>>

-----------------------------------------------------------------------------
(* Operations of Timer *)

\* reset: the old ScopeTimer ends, one for m starts unless m is null.
Reset(t, m) ==
  /\ MayStart
  /\ samples' = Observed(<<timer[t]>>)
  /\ timer' = [timer EXCEPT ![t] = StartedFor(m)]
  /\ Increment(m)
  /\ UNCHANGED <<clock, metric, queue, busy>>

\* Mutant: the source keeps its ScopeTimer.
CopyTimer(from, to) ==
  /\ from # to
  /\ samples' = Observed(<<timer[to]>>)
  /\ timer' = [timer EXCEPT ![to] = timer[from]]
  /\ UNCHANGED <<clock, metric, queue, started, busy>>

\* operator=(Timer&&)
MoveTimer(from, to) ==
  /\ from # to
  /\ samples' = Observed(<<timer[to]>>)
  /\ timer' = [timer EXCEPT ![from] = Idle, ![to] = timer[from]]
  /\ UNCHANGED <<clock, metric, queue, started, busy>>

\* The destructor
DestroyTimer(t) ==
  /\ samples' = Observed(<<timer[t]>>)
  /\ timer' = [timer EXCEPT ![t] = Idle]
  /\ UNCHANGED <<clock, metric, queue, started, busy>>

-----------------------------------------------------------------------------
(* Surroundings *)

RunningFor(m) ==
  (UNION {{<<q, i>> : i \in {j \in DOMAIN queue[q] : queue[q][j].metric = m}} : q \in Queues})
  \cup {<<t>> : t \in {u \in Timers : timer[u].metric = m}}

Tick ==
  /\ clock < MaxTime
  /\ clock' = clock + 1
  /\ busy' = [m \in Metrics |-> busy[m] + Cardinality(RunningFor(m))]
  /\ UNCHANGED <<metric, queue, timer, samples, started>>

Init ==
  /\ clock = 0
  /\ metric = [q \in Queues |-> Destroyed]
  /\ queue = [q \in Queues |-> <<>>]
  /\ timer = [t \in Timers |-> Idle]
  /\ samples = [m \in Metrics |-> [d \in Durations |-> 0]]
  /\ started = [m \in Metrics \cup {NoMetric} |-> 0]
  /\ busy = [m \in Metrics |-> 0]

Next ==
  \/ \E q \in Queues :
       \/ \E m \in Metrics \cup {NoMetric} : Construct(q, m)
       \/ Push(q)
       \/ Pop(q)
       \/ Destroy(q)
       \/ \E p \in Queues : MoveConstruct(p, q) \/ MoveAssign(p, q)
  \/ \E t \in Timers :
       \/ \E m \in Metrics \cup {NoMetric} : Reset(t, m)
       \/ DestroyTimer(t)
       \/ \E u \in Timers : MoveTimer(u, t)
  \/ Tick

Spec == Init /\ [][Next]_vars

-----------------------------------------------------------------------------
(* What the registry collects *)

Count(m) == Total(samples[m], Durations)
Sum(m)   == Total([d \in Durations |-> d * samples[m][d]], Durations)

CountUpTo(m, d) == Total(samples[m], 0..d)

Longest(m) == Max({d \in Durations : samples[m][d] > 0})

Label(n, v) == [name |-> n, value |-> v]

\* prometheus::Histogram::Collect: cumulative counts, the last for infinity
CollectHistogram(m) ==
  [label |-> <<Label("queue", m)>>, timestamp_ms |-> 0,
   sample_count |-> Count(m), sample_sum |-> AsDouble(Sum(m)),
   bucket |-> [i \in DOMAIN Bounds |-> [cumulative_count |-> CountUpTo(m, Bounds[i]),
                                       upper_bound      |-> AsDouble(Bounds[i])]]
              \o <<[cumulative_count |-> Count(m), upper_bound |-> Inf]>>]

\* prometheus::Summary::Collect: the quantile of no observation is NaN
CollectSummary(m) ==
  [label |-> <<Label("stage", "query"), Label("address", m)>>, timestamp_ms |-> 0,
   sample_count |-> Count(m), sample_sum |-> AsDouble(Sum(m)),
   quantile |-> <<[quantile |-> AsDouble(1),
                   value    |-> IF Count(m) = 0 THEN NaN ELSE AsDouble(Longest(m))]>>]

AsValue(labels, timestamp, d) == [label |-> labels, timestamp_ms |-> timestamp, value |-> d]

Pushes(m) == AsValue(<<Label("queue", m)>>, 0, AsDouble(started[m]))

\* Some order of the metrics of a family, the same for every scrape
CounterOrder   == SetToSeq(Metrics \cup {NoMetric})
HistogramOrder == SetToSeq(Histograms)
SummaryOrder   == SetToSeq(Summaries)

Family(name, type, ms) == [name |-> name, help |-> "help", type |-> type, metric |-> ms]

\* The families of the registry, one of each type, in the order of Collect
Registry ==
  <<Family("pushes", "Counter", Mapped(Pushes, CounterOrder)),
    Family("wait_seconds", "Histogram", Mapped(CollectHistogram, HistogramOrder)),
    Family("query_seconds", "Summary", Mapped(CollectSummary, SummaryOrder)),
    Family("load", "Gauge", <<AsValue(<<>>, 0, Load[clock]), AsValue(<<>>, clock, Load[clock])>>),
    Family("spare", "Untyped", <<>>)>>

Answer == WriteFamilies(Registry)

-----------------------------------------------------------------------------
(* Properties *)

TypeOK ==
  /\ clock \in Durations
  /\ metric \in [Queues -> Metrics \cup {NoMetric, Destroyed}]
  /\ \A q \in Queues : \A i \in DOMAIN queue[q] :
       queue[q][i] \in [metric : Metrics \cup {NoMetric}, since : 0..clock]
  /\ timer \in [Timers -> [metric : Metrics \cup {NoMetric}, since : 0..clock]]
  /\ samples \in [Metrics -> [Durations -> Nat]]
  /\ started \in [Metrics \cup {NoMetric} -> 0..MaxStarts]
  /\ busy \in [Metrics -> Nat]

\* Every timer that was started for a metric is either still running or was
\* observed by that very metric, once, whatever was popped, moved, assigned
\* over, reset or abandoned in between.
ObservedOnce ==
  \A m \in Metrics : started[m] = Count(m) + Cardinality(RunningFor(m))

\* No time is lost or counted twice when timers move: what a metric summed up,
\* and the time its running timers have spent so far, make up the time spent
\* in timers of that metric (for a queue: its length integrated over time).
Age(r) == Elapsed(IF Len(r) = 2 THEN queue[r[1]][r[2]] ELSE timer[r[1]])

TimeConserved ==
  \A m \in Metrics : busy[m] = Sum(m) + Total([r \in RunningFor(m) |-> Age(r)], RunningFor(m))

Distance(a, b) == IF a > b THEN a - b ELSE b - a

\* How far the doubles around t are apart
Gap(t) == Double[Below(t) + 1] - Double[Below(t)]

\* a may be read as b: half a unit of the last digit kept may be lost when it
\* is written, and half the distance of the doubles there when it is read.  A
\* number of at most Digits digits stays as it is.
Close(a, b) ==
  IF a \in Special \/ b \in Special THEN a = b
  ELSE /\ 2 * Distance(a, b) <= PowerOf10[Excess[a]] + Gap(Shortened(a))
       /\ Shortened(a) = a => b = a

SameMetric(m, n, type) ==
  /\ Range(m.label) = Range(n.label) /\ Len(m.label) = Len(n.label)
  /\ m.timestamp_ms = n.timestamp_ms
  /\ CASE type \in {"Counter", "Gauge", "Untyped"} -> Close(m.value, n.value)
       [] type = "Histogram" ->
            /\ m.sample_count = n.sample_count /\ Close(m.sample_sum, n.sample_sum)
            /\ m.bucket = n.bucket
       [] type = "Summary" ->
            /\ m.sample_count = n.sample_count /\ Close(m.sample_sum, n.sample_sum)
            /\ Len(m.quantile) = Len(n.quantile)
            /\ \A i \in DOMAIN m.quantile :
                 /\ Close(m.quantile[i].quantile, n.quantile[i].quantile)
                 /\ Close(m.quantile[i].value, n.quantile[i].value)

\* What the ambassador reads, unless it throws, is what the database collected:
\* families and metrics in order, names, types and labels (in some order), exact
\* counts and bucket boundaries, sums and values as closely as 16 digits allow.
SameFamily(f, g) ==
  /\ <<g.name, g.help, g.type>> = <<f.name, f.help, f.type>>
  /\ Len(g.metric) = Len(f.metric)
  /\ \A j \in DOMAIN f.metric : SameMetric(f.metric[j], g.metric[j], f.type)

ScrapedIsCollected ==
  LET collected == Registry
      answer    == WriteFamilies(collected)
      scraped   == ReadFamilies(answer)
  IN  ~Throws(answer) =>
        /\ Len(scraped) = Len(collected)
        /\ \A i \in DOMAIN collected : SameFamily(collected[i], scraped[i])

\* The double read of j is less than half a unit of its last digit away from the
\* text.  (Of 1e+23 it is not: the nearest double is 8388608 less, and has 23
\* digits, of which the writer would leave out 7.)
Recalls(j) ==
  j.v \in Special \/ LET x == ReadDouble(j) IN
    2 * Distance(x, j.v) < PowerOf10[Excess[IF x < j.v THEN x ELSE j.v]]

\* Writing again what was read gives the JSON that was read, as the test of
\* ClientCollector asserts of its example: no digit is lost twice where the
\* doubles are as dense as the decimals that are written.
RewrittenAlike ==
  LET answer == Answer IN
    ~Throws(answer) /\ (\A j \in DoublesOf(answer) : Recalls(j))
      => WriteFamilies(ReadFamilies(answer)) = answer

\* std::stod throws for what the writer makes of d: a subnormal number that has
\* more digits than are written, the smallest normal numbers where they are
\* rounded down, and the largest doubles where they are rounded up.
Unreadable(d) == DoubleThrows(WriteDouble(d))

\* The reader never takes a member the writer left out (which is undefined), and
\* an answer makes it throw only because of the gauge: no count, no sum, no
\* boundary and no quantile ever does.
ReadsWhatIsWritten ==
  LET answer == Answer IN
    /\ Complete(answer)
    /\ Throws(answer) <=> Unreadable(Load[clock])

\* Prometheus takes a counter, and the sum of the observed durations, to only
\* ever grow (include/metrics/README.md).  So they do as the ambassador reads
\* them: no operation takes an observation back, and of two values the larger
\* is never written, nor read, as the smaller.
AsScraped(d) == ReadDouble(WriteDouble(d))

ScrapedOnlyGrows ==
  [][\A m \in Metrics : /\ AsScraped(AsDouble(started'[m])) >= AsScraped(AsDouble(started[m]))
                        /\ AsScraped(AsDouble(Sum(m)')) >= AsScraped(AsDouble(Sum(m)))
    ]_<<started, samples>>
=============================================================================
