----------------------------- MODULE MetricsJson -----------------------------
(***************************************************************************)
(* The wire form of metrics: metrics::JsonWriter (include/metrics/         *)
(* JsonWriter.h), with which the database answers a GetMetrics command,    *)
(* and metrics::JsonReader (include/metrics/JsonReader.h), with which the  *)
(* Prometheus ambassador reads the answer.                                 *)
(*                                                                         *)
(* A JSON object is a function from member names, an array a sequence, a   *)
(* scalar a record [kind, v]; null, which has neither members nor          *)
(* elements, is the empty function.                                        *)
(*                                                                         *)
(* Values, and the decimals they are written as, are natural numbers,      *)
(* multiples of 10^-Places, or one of the model values Inf (either         *)
(* infinity) and NaN; signs are left out.  Places is large enough for      *)
(* every double to be one of them (1074 for IEEE 754).                     *)
(***************************************************************************)
EXTENDS Integers, SequencesExt

CONSTANTS Digits,     \* significant decimal digits the writer keeps
          Places,     \* decimal places of the numbers
          Double,     \* Double[n]: the value of the double whose bit pattern is n
          MinNormal,  \* the pattern of the smallest normal number
          Infinite,   \* the pattern of infinity: Double[Infinite] is where the
                      \* largest double's successor would be
          Inf, NaN

ASSUME DigitsAssumption == Digits \in Nat \ {0} /\ Places \in Nat
ASSUME SpecialAssumption == Inf \notin Int /\ NaN \notin Int
\* Bit patterns are in the order of the numbers.
ASSUME DoubleAssumption ==
  /\ MinNormal \in Nat /\ Infinite \in Nat /\ 0 < MinNormal /\ MinNormal < Infinite
  /\ Double \in [0..Infinite -> Nat] /\ Double[0] = 0
  /\ \A n \in 0..(Infinite - 1) : Double[n] < Double[n + 1]

Special == {Inf, NaN}
Finite  == {Double[n] : n \in 0..(Infinite - 1)}

MetricTypes == {"Counter", "Gauge", "Summary", "Untyped", "Histogram"}

Null      == <<>>
Text(s)   == [kind |-> "text", v |-> s]
Number(n) == [kind |-> "number", v |-> n]

Optional(condition, object) == IF condition THEN object ELSE Null

\* The members of two objects that share none
Merged(f, g) == [n \in DOMAIN f \cup DOMAIN g |-> IF n \in DOMAIN f THEN f[n] ELSE g[n]]

Mapped(Op(_), s) == [i \in DOMAIN s |-> Op(s[i])]

-----------------------------------------------------------------------------
(* JsonWriter *)

PowerOf10[n \in Nat] == IF n = 0 THEN 1 ELSE 10 * PowerOf10[n - 1]

\* The whole number n
AsDouble(n) == n * PowerOf10[Places]

\* Mutant: the text is cut after Digits digits.
ShortenedToFirst(d) ==
  IF d \in Special THEN d ELSE IF d >= AsDouble(PowerOf10[Digits]) THEN d \div 10 ELSE d

\* How many digits of d there are after the first Digits
Excess[d \in Nat] == IF d < PowerOf10[Digits] THEN 0 ELSE 1 + Excess[d \div 10]

\* The multiple of the scale that is nearest to d, the even one when two are
Nearest(d, scale) ==
  LET down == d \div scale
      rest == 2 * (d % scale)
  IN  scale * (IF rest > scale \/ (rest = scale /\ down % 2 = 1) THEN down + 1 ELSE down)

\* oss.precision(_prc); oss << val: the decimal with Digits significant digits
\* that is nearest to the value.
Shortened(d) == IF d \in Special THEN d ELSE Nearest(d, PowerOf10[Excess[d]])

WriteDouble(d) == Text(Shortened(d))

\* Mutant: the boundary goes by the name Prometheus has for it.
WriteBucketLe(b) == [le |-> WriteDouble(b.upper_bound), count |-> Number(b.cumulative_count)]

WriteBucket(b) == [max |-> WriteDouble(b.upper_bound), count |-> Number(b.cumulative_count)]

WriteQuantile(q) == [quantile |-> WriteDouble(q.quantile), value |-> WriteDouble(q.value)]

\* labels[lbl.name] = ...: of two labels with one name the later stays.
WriteLabels(labels) ==
  [n \in {l.name : l \in Range(labels)} |->
     Text(labels[CHOOSE i \in DOMAIN labels :
                   /\ labels[i].name = n
                   /\ \A j \in DOMAIN labels : labels[j].name = n => j <= i].value)]

\* The metadata of a metric, of which an empty label list and a zero timestamp
\* are left out, and the members that depend on the type.  An array nothing is
\* appended to stays null.
WriteMetric(m, type) ==
  Merged(
    Merged(Optional(m.label # <<>>, [labels |-> WriteLabels(m.label)]),
           Optional(m.timestamp_ms # 0, [timestamp_ms |-> Number(m.timestamp_ms)])),
    CASE type \in {"Counter", "Gauge", "Untyped"} ->
           [value |-> WriteDouble(m.value)]
      [] type = "Histogram" ->
           [count   |-> Number(m.sample_count),
            sum     |-> WriteDouble(m.sample_sum),
            buckets |-> Mapped(WriteBucket, m.bucket)]
      [] type = "Summary" ->
           [count     |-> Number(m.sample_count),
            sum       |-> WriteDouble(m.sample_sum),
            quantiles |-> Mapped(WriteQuantile, m.quantile)])

WriteFamily(f) ==
  [name    |-> Text(f.name),
   help    |-> Text(f.help),
   type    |-> Text(f.type),
   metrics |-> Mapped(LAMBDA m : WriteMetric(m, f.type), f.metric)]

WriteFamilies(fs) == [families |-> Mapped(WriteFamily, fs)]

-----------------------------------------------------------------------------
(* JsonReader *)

\* The pattern of the largest double that is not above t
Below(t) == CHOOSE n \in 0..Infinite : /\ Double[n] <= t
                                       /\ n = Infinite \/ t < Double[n + 1]

\* The pattern of the double that is nearest to t, the even one when two are
Pattern(t) ==
  LET n == Below(t)
      RoundsUp == LET middle == Double[n] + Double[n + 1]
                  IN  2 * t > middle \/ (2 * t = middle /\ n % 2 = 1)
  IN  IF n < Infinite /\ RoundsUp THEN n + 1 ELSE n

\* ParseAs<double> of a string, which is what doubles are written as: std::stod
\* returns the nearest double.
ReadDouble(j) == IF j.v \in Special THEN j.v ELSE Double[Pattern(j.v)]

\* It throws out_of_range when strtod sets ERANGE: for what is rounded to
\* infinity, and for what is rounded to zero or to a subnormal number.
DoubleThrows(j) ==
  /\ j.v \notin Special
  /\ \/ Pattern(j.v) = Infinite
     \/ Pattern(j.v) < MinNormal /\ Double[Pattern(j.v)] # j.v

\* Mutant: the case 'G' is forgotten.
ReadTypeNotGauge(j) ==
  IF j.kind = "text" /\ j.v \in MetricTypes \ {"Gauge"} THEN j.v ELSE "Untyped"

\* ParseAs<MetricType>, which looks at the first letter of a string.
ReadType(j) == IF j.kind = "text" /\ j.v \in MetricTypes THEN j.v ELSE "Untyped"

ReadLabels(mtc) ==
  IF "labels" \in DOMAIN mtc
  THEN Mapped(LAMBDA n : [name |-> n, value |-> mtc.labels[n].v],
              SetToSeq(DOMAIN mtc.labels))
  ELSE <<>>

\* Mutant: the timestamp is not read.
ReadLabelsOnly(mtc) == [label |-> ReadLabels(mtc), timestamp_ms |-> 0]

\* emplace_metric_metadata.  The items of the object come in key order, which
\* no definition here depends on.
ReadMetadata(mtc) ==
  [label |-> ReadLabels(mtc),
   timestamp_ms |-> IF "timestamp_ms" \in DOMAIN mtc THEN mtc.timestamp_ms.v ELSE 0]

ReadBucket(buc) ==
  [cumulative_count |-> buc["count"].v, upper_bound |-> ReadDouble(buc["max"])]

ReadQuantile(qnt) ==
  [quantile |-> ReadDouble(qnt["quantile"]), value |-> ReadDouble(qnt["value"])]

\* parse_counter_values, parse_gauge_values and parse_untyped_values
ReadValue(mtc) == Merged(ReadMetadata(mtc), [value |-> ReadDouble(mtc["value"])])

\* parse_histogram_values
ReadHistogram(mtc) ==
  Merged(ReadMetadata(mtc), [sample_count |-> mtc["count"].v,
                             sample_sum   |-> ReadDouble(mtc["sum"]),
                             bucket       |-> Mapped(ReadBucket, mtc["buckets"])])

\* parse_summary_values
ReadSummary(mtc) ==
  Merged(ReadMetadata(mtc), [sample_count |-> mtc["count"].v,
                             sample_sum   |-> ReadDouble(mtc["sum"]),
                             quantile     |-> Mapped(ReadQuantile, mtc["quantiles"])])

\* parse_family_values
ReadMetrics(type, json) ==
  CASE type \in {"Counter", "Gauge", "Untyped"} -> Mapped(ReadValue, json)
    [] type = "Histogram"                       -> Mapped(ReadHistogram, json)
    [] type = "Summary"                         -> Mapped(ReadSummary, json)

ReadFamily(fam) ==
  [name   |-> fam["name"].v,
   help   |-> fam["help"].v,
   type   |-> ReadType(fam["type"]),
   metric |-> ReadMetrics(ReadType(fam["type"]), fam["metrics"])]

\* parse_metrics
ReadFamilies(json) == Mapped(ReadFamily, json["families"])

\* The members the reader takes with operator[] of a const object, which is
\* undefined for a member that is not there.
MetricMembers(type) ==
  CASE type = "Histogram" -> {"count", "sum", "buckets"}
    [] type = "Summary"   -> {"count", "sum", "quantiles"}
    [] OTHER              -> {"value"}

Complete(json) ==
  /\ "families" \in DOMAIN json
  /\ \A fam \in Range(json["families"]) :
       /\ {"name", "help", "type", "metrics"} \subseteq DOMAIN fam
       /\ \A mtc \in Range(fam["metrics"]) :
            /\ MetricMembers(ReadType(fam["type"])) \subseteq DOMAIN mtc
            /\ "buckets" \in DOMAIN mtc =>
                 \A b \in Range(mtc["buckets"]) : {"count", "max"} \subseteq DOMAIN b
            /\ "quantiles" \in DOMAIN mtc =>
                 \A q \in Range(mtc["quantiles"]) : {"quantile", "value"} \subseteq DOMAIN q

\* The doubles that are read of a metric, and of an answer
DoublesIn(mtc) ==
  {mtc[key] : key \in {"value", "sum"} \cap DOMAIN mtc}
  \cup (IF "buckets" \in DOMAIN mtc THEN {b["max"] : b \in Range(mtc["buckets"])} ELSE {})
  \cup (IF "quantiles" \in DOMAIN mtc
        THEN UNION {{q["quantile"], q["value"]} : q \in Range(mtc["quantiles"])} ELSE {})

DoublesOf(json) ==
  UNION {UNION {DoublesIn(mtc) : mtc \in Range(fam["metrics"])} : fam \in Range(json["families"])}

\* Whether parse_metrics leaves by an exception of std::stod.
Throws(json) == \E j \in DoublesOf(json) : DoubleThrows(j)
=============================================================================
