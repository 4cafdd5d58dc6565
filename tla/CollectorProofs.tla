-------------------------- MODULE CollectorProofs --------------------------
(* What is proved of Collector for any number of scrapes, faults, signals. *)
EXTENDS Collector, FiniteSetTheorems, TLAPS

\* A collection that ended, as the log has it.
Ended == [how : {"metrics", "nothing"}, stage : Stage, answer : 0..MaxScrapes,
          calm : BOOLEAN]

\* Types that TypeOK leaves out, and the stage that goes with each place in
\* Collect.
LogType ==
  /\ log \in Seq(Ended)
  /\ Len(log) <= MaxScrapes
  /\ pc # "idle" => Len(log) < MaxScrapes
  /\ pc = "connect" => timer = "connect"
  /\ pc \in {"query", "await"} => timer = "query"
  /\ pc = "parse" => timer = "parse"
  /\ failures <= Len(log)

TypeInv == TypeOK /\ LogType

\* The collection before this one left no client behind, or there was none.
StartsAnew == log = <<>> \/ ~Metrics(Len(log))

\* ConnectedAgrees, and what holds in the middle of a collection.
Agreement ==
  /\ ConnectedAgrees
  /\ pc = "connect" => client = nullptr /\ connected = 0 /\ StartsAnew
  /\ pc \in {"query", "await", "parse"} => client # nullptr /\ connected = 1

\* A client has one query under way at most, the one of this collection.
OneQuery ==
  /\ OwnAnswer
  /\ owed = IF pc = "await" THEN <<Len(log) + 1>> ELSE <<>>
  /\ pc = "parse" => answer = Len(log) + 1

\* In a collection that starts anew, and as long as nothing goes wrong, the
\* client is connected to the server that runs.
Recovery ==
  /\ RecoversAtOnce
  /\ pc # "idle" /\ calm => server = "up"
  /\ pc \in {"query", "await", "parse"} /\ calm /\ StartsAnew => client = epoch

\* The collections that entered each stage, and those that failed.
Connecting == {j \in 1..Len(log) : j = 1 \/ ~Metrics(j - 1)}
Querying == {j \in 1..Len(log) : log[j].stage # "connect"}
Parsing == {j \in 1..Len(log) : log[j].stage = "parse"}
Failing == {j \in 1..Len(log) : ~Metrics(j)}

\* The stages this collection has left already count too.
StageCounts ==
  /\ observed["connect"] = Cardinality(Connecting)
       + IF pc \in {"query", "await", "parse"} /\ StartsAnew THEN 1 ELSE 0
  /\ observed["query"] = Cardinality(Querying) + IF pc = "parse" THEN 1 ELSE 0
  /\ observed["parse"] = Cardinality(Parsing)
  /\ failures = Cardinality(Failing)

IInv == TypeInv /\ Agreement /\ OneQuery /\ Recovery /\ StageCounts
-----------------------------------------------------------------------------
(* Steps that leave Collect alone, and the end of a collection *)

\* What is not a step of Collect.
Elsewhere == Signal \/ MainStep \/ Server

LEMMA ElsewhereLeavesWorker == Elsewhere => UNCHANGED worker
  BY DEF Elsewhere, Signal, MainStep, Wakes, Unregisters, Server

\* A collection that ends adds one entry to the log.
LEMMA LogGrows ==
  ASSUME TypeInv, NEW e \in Ended, log' = Append(log, e)
  PROVE  /\ log' \in Seq(Ended)
         /\ Len(log') = Len(log) + 1 /\ Len(log) \in Nat
         /\ \A j \in 1..Len(log) : log'[j] = log[j]
         /\ log'[Len(log')] = e
  BY DEF TypeInv, LogType

\* The entry a collection that ends adds.
Entry(how) == [how |-> how, stage |-> timer, answer |-> answer', calm |-> calm']

LEMMA EntryType ==
  ASSUME TypeInv, pc # "idle", answer' = answer, calm' \in BOOLEAN,
         NEW how \in {"metrics", "nothing"}
  PROVE  Entry(how) \in Ended
  BY DEF TypeInv, TypeOK, Entry, Ended

LEMMA TypeInit == Init => TypeInv
  <1> SUFFICES ASSUME Init PROVE TypeInv
    OBVIOUS
  <1>1. /\ MaxScrapes \in Nat /\ MaxFaults \in Nat /\ MaxSignals \in Nat
        /\ Len(log) = 0 /\ log \in Seq(Ended) /\ owed \in Seq(1..MaxScrapes)
    BY CollectorAssumption DEF Init
  <1>2. /\ client \in 0..epoch /\ epoch \in Nat \ {0} /\ answer \in 0..MaxScrapes
        /\ failures \in 0..MaxScrapes /\ signals \in 0..MaxSignals /\ faults \in 0..MaxFaults
    BY <1>1 DEF Init, nullptr
  <1>3. timer \in Stage \cup {"off"} /\ observed \in [Stage -> Nat] /\ (timer = "off" <=> pc = "idle")
    BY DEF Init
  <1>4. TypeOK
    BY <1>1, <1>2, <1>3 DEF Init, TypeOK
  <1> QED
    BY <1>1, <1>4 DEF Init, TypeInv, LogType

LEMMA FaultType ==
  ASSUME TypeInv, NoFault \/ Fault
  PROVE  faults' \in 0..MaxFaults /\ calm' \in BOOLEAN
  <1>1. MaxFaults \in Nat /\ faults \in 0..MaxFaults /\ calm \in BOOLEAN
    BY CollectorAssumption DEF TypeInv, TypeOK
  <1>2. CASE NoFault
    BY <1>1, <1>2 DEF NoFault
  <1>3. CASE Fault
    <2>1. faults' \in 0..MaxFaults
      BY <1>1, <1>3 DEF Fault
    <2>2. calm' = FALSE
      BY <1>3 DEF Fault
    <2> QED
      BY <2>1, <2>2
  <1> QED
    BY <1>2, <1>3

\* A stage that ends is counted once more.
LEMMA ResetType ==
  ASSUME TypeInv, NEW stage \in Stage \cup {"off"}, Reset(stage)
  PROVE  timer' = stage /\ observed' \in [Stage -> Nat]
  BY DEF TypeInv, TypeOK, Reset

\* The answer Collect reads is that of its own query, hence there is one.
LEMMA TypeStep ==
  ASSUME TypeInv, OneQuery, [Next]_vars
  PROVE  TypeInv'
  <1> USE CollectorAssumption
  <1>1. CASE Collect
    <2>1. /\ timer' \in {"connect", "query"} /\ observed' \in [Stage -> Nat]
          /\ pc' = timer'
      BY <1>1, ResetType DEF Collect, Goto, Stage
    <2> QED
      BY <1>1, <2>1, SMTT(30) DEF Collect, TypeInv, TypeOK, LogType, Stage, process
  <1>2. CASE Connects
    <2>1. timer' = "query" /\ observed' \in [Stage -> Nat]
      BY <1>2, ResetType DEF Connects, Stage
    <2> QED
      BY <1>2, <2>1, FaultType DEF Connects, TypeInv, TypeOK, LogType, Goto, Stage, process
  <1>3. CASE Sends
    <2>1. owed' \in Seq(1..MaxScrapes)
      <3>1. Len(log) + 1 \in 1..MaxScrapes
        BY <1>3 DEF Sends, TypeInv, LogType
      <3> QED
        BY <1>3, <3>1 DEF Sends, TypeInv, TypeOK
    <2> QED
      BY <1>3, <2>1, FaultType DEF Sends, TypeInv, TypeOK, LogType, Goto, Stage, process
  <1>4. CASE Receives
    <2>1. timer' = "parse" /\ observed' \in [Stage -> Nat]
      BY <1>4, ResetType DEF Receives, Stage
    <2>2. owed = <<Len(log) + 1>> /\ Len(log) + 1 \in 1..MaxScrapes
      BY <1>4 DEF Receives, OneQuery, TypeInv, LogType
    <2>3. owed' \in Seq(1..MaxScrapes) /\ answer' \in 0..MaxScrapes
      BY <1>4, <2>2 DEF Receives
    <2> QED
      BY <1>4, <2>1, <2>3, FaultType DEF Receives, TypeInv, TypeOK, LogType, Goto, Stage, process
  <1>5. CASE Parses
    <2>1. timer' = "off" /\ observed' \in [Stage -> Nat]
      BY <1>5, ResetType DEF Parses
    <2>2. calm' \in BOOLEAN /\ faults' \in 0..MaxFaults
      BY <1>5, FaultType DEF Parses
    <2>3. Entry("metrics") \in Ended /\ log' = Append(log, Entry("metrics"))
      BY <1>5, <2>2, EntryType DEF Parses, Ends, Entry
    <2>4. log' \in Seq(Ended) /\ Len(log') = Len(log) + 1
      BY <2>3, LogGrows
    <2>5. Len(log) \in Nat /\ Len(log) < MaxScrapes
      BY <1>5 DEF Parses, TypeInv, LogType
    <2> QED
      BY <1>5, <2>1, <2>2, <2>4, <2>5 DEF Parses, TypeInv, TypeOK, LogType, Goto, process
  <1>6. CASE Fails
    <2>1. timer' = "off" /\ observed' \in [Stage -> Nat]
      BY <1>6, ResetType DEF Fails
    <2>2. calm' \in BOOLEAN /\ faults' \in 0..MaxFaults
      BY <1>6, FaultType DEF Fails
    <2>3. pc # "idle"
      BY <1>6 DEF Fails
    <2>4. Entry("nothing") \in Ended /\ log' = Append(log, Entry("nothing"))
      BY <1>6, <2>2, <2>3, EntryType DEF Fails, Ends, Entry
    <2>5. log' \in Seq(Ended) /\ Len(log') = Len(log) + 1
      BY <2>4, LogGrows
    <2>6. Len(log) \in Nat /\ Len(log) < MaxScrapes
      BY <2>3 DEF TypeInv, LogType
    <2>7. owed' \in Seq(1..MaxScrapes) /\ client' = 0 /\ connected' = 0
      BY <1>6 DEF Fails, DropClient, nullptr
    <2> QED
      BY <1>6, <2>1, <2>2, <2>5, <2>6, <2>7 DEF Fails, TypeInv, TypeOK, LogType, Goto, process
  <1>7. CASE Elsewhere
    <2>1. UNCHANGED worker
      BY <1>7, ElsewhereLeavesWorker
    <2>2. CASE Signal
      BY <2>1, <2>2 DEF Signal, SigHandler, TypeInv, TypeOK, LogType, worker
    <2>3. CASE MainStep
      BY <2>1, <2>3 DEF MainStep, Wakes, Unregisters, TypeInv, TypeOK, LogType, worker
    <2>4. CASE Server
      <3>1. faults' \in 0..MaxFaults /\ calm' \in BOOLEAN
        BY <2>4, FaultType DEF Server
      <3>2. epoch' \in Nat \ {0} /\ epoch <= epoch' /\ server' \in {"up", "mute", "down"}
        BY <2>4 DEF Server, TypeInv, TypeOK
      <3> QED
        BY <2>1, <2>4, <3>1, <3>2 DEF Server, TypeInv, TypeOK, LogType, worker, process
    <2> QED
      BY <1>7, <2>2, <2>3, <2>4 DEF Elsewhere
  <1>8. CASE UNCHANGED vars
    BY <1>8 DEF vars, worker, process, TypeInv, TypeOK, LogType
  <1> QED
    BY <1>1, <1>2, <1>3, <1>4, <1>5, <1>6, <1>7, <1>8 DEF Next, WorkerStep, Elsewhere

-----------------------------------------------------------------------------
(* Gauge and client *)

LEMMA AgreementStep ==
  ASSUME TypeInv, Agreement, [Next]_vars
  PROVE  Agreement'
  <1> USE DEF Agreement, ConnectedAgrees, Goto
  <1>1. CASE Collect
    BY <1>1 DEF Collect, StartsAnew, Metrics, TypeInv, TypeOK, nullptr
  <1>2. CASE Connects
    BY <1>2 DEF Connects, TypeInv, TypeOK, nullptr
  <1>3. CASE Sends
    BY <1>3 DEF Sends
  <1>4. CASE Receives
    BY <1>4 DEF Receives
  <1>5. CASE Parses
    <2>1. Entry("metrics") \in Ended /\ log' = Append(log, Entry("metrics"))
      BY <1>5, FaultType, EntryType DEF Parses, Ends, Entry
    <2>2. log' # <<>> /\ Metrics(Len(log))'
      BY <2>1, LogGrows DEF Metrics, Entry
    <2> QED
      BY <1>5, <2>2 DEF Parses
  <1>6. CASE Fails
    <2>1. Entry("nothing") \in Ended /\ log' = Append(log, Entry("nothing"))
      BY <1>6, FaultType, EntryType DEF Fails, Ends, Entry
    <2>2. log' # <<>> /\ ~Metrics(Len(log))'
      BY <2>1, LogGrows DEF Metrics, Entry
    <2> QED
      BY <1>6, <2>2 DEF Fails, DropClient
  <1>7. CASE Elsewhere \/ UNCHANGED vars
    <2>1. UNCHANGED worker
      BY <1>7, ElsewhereLeavesWorker DEF vars
    <2> QED
      BY <2>1 DEF worker, StartsAnew, Metrics
  <1> QED
    BY <1>1, <1>2, <1>3, <1>4, <1>5, <1>6, <1>7 DEF Next, WorkerStep, Elsewhere

-----------------------------------------------------------------------------
(* Answers *)

LEMMA OneQueryStep ==
  ASSUME TypeInv, OneQuery, [Next]_vars
  PROVE  OneQuery'
  <1> USE DEF OneQuery, OwnAnswer, Goto
  <1>1. CASE Collect
    BY <1>1 DEF Collect, Metrics
  <1>2. CASE Connects
    BY <1>2 DEF Connects, Metrics
  <1>3. CASE Sends
    BY <1>3 DEF Sends, Metrics
  <1>4. CASE Receives
    BY <1>4 DEF Receives, Metrics
  <1>5. CASE Parses
    <2>1. Entry("metrics") \in Ended /\ log' = Append(log, Entry("metrics"))
      BY <1>5, FaultType, EntryType DEF Parses, Ends, Entry
    <2>2. /\ Len(log') = Len(log) + 1 /\ Len(log) \in Nat
          /\ \A j \in 1..Len(log) : log'[j] = log[j]
          /\ log'[Len(log')].answer = Len(log')
      BY <1>5, <2>1, LogGrows DEF Parses, Entry
    <2>3. \A j \in 1..Len(log') : j \in 1..Len(log) \/ j = Len(log')
      BY <2>2
    <2> QED
      BY <1>5, <2>2, <2>3 DEF Parses, Metrics
  <1>6. CASE Fails
    <2>1. Entry("nothing") \in Ended /\ log' = Append(log, Entry("nothing"))
      BY <1>6, FaultType, EntryType DEF Fails, Ends, Entry
    <2>2. /\ Len(log') = Len(log) + 1 /\ Len(log) \in Nat
          /\ \A j \in 1..Len(log) : log'[j] = log[j]
          /\ log'[Len(log')].how = "nothing"
      BY <2>1, LogGrows DEF Entry
    <2>3. \A j \in 1..Len(log') : j \in 1..Len(log) \/ j = Len(log')
      BY <2>2
    <2> QED
      BY <1>6, <2>2, <2>3 DEF Fails, DropClient, Metrics
  <1>7. CASE Elsewhere \/ UNCHANGED vars
    <2>1. UNCHANGED worker
      BY <1>7, ElsewhereLeavesWorker DEF vars
    <2> QED
      BY <2>1 DEF worker, Metrics
  <1> QED
    BY <1>1, <1>2, <1>3, <1>4, <1>5, <1>6, <1>7 DEF Next, WorkerStep, Elsewhere

-----------------------------------------------------------------------------
(* Recovery *)

\* The entry a failed collection adds is not calm when it started anew.
LEMMA FailsNotCalm ==
  ASSUME TypeInv, Recovery, Agreement, Fails, StartsAnew
  PROVE  calm' = FALSE
  <1>1. CASE Fault
    BY <1>1 DEF Fault
  <1>2. CASE pc = "connect" /\ server = "down" /\ NoFault
    BY <1>2 DEF Recovery, NoFault, TypeInv, TypeOK
  <1>3. CASE pc \in {"query", "await"} /\ ~Alive /\ NoFault
    BY <1>3 DEF Recovery, NoFault, Alive, TypeInv, TypeOK
  <1> QED
    BY <1>1, <1>2, <1>3 DEF Fails

LEMMA RecoveryStep ==
  ASSUME TypeInv, Agreement, Recovery, [Next]_vars
  PROVE  Recovery'
  <1> USE DEF Recovery, RecoversAtOnce, Goto
  <1>1. CASE Collect
    BY <1>1 DEF Collect, Metrics, StartsAnew, Agreement, ConnectedAgrees, nullptr
  <1>2. CASE Connects
    BY <1>2 DEF Connects, NoFault, Metrics, StartsAnew
  <1>3. CASE Sends
    BY <1>3 DEF Sends, NoFault, Metrics, StartsAnew
  <1>4. CASE Receives
    BY <1>4 DEF Receives, NoFault, Metrics, StartsAnew
  <1>5. CASE Parses
    <2>1. Entry("metrics") \in Ended /\ log' = Append(log, Entry("metrics"))
      BY <1>5, FaultType, EntryType DEF Parses, Ends, Entry
    <2>2. /\ Len(log') = Len(log) + 1 /\ Len(log) \in Nat
          /\ \A j \in 1..Len(log) : log'[j] = log[j]
          /\ log'[Len(log')].how = "metrics"
      BY <2>1, LogGrows DEF Entry
    <2>3. \A j \in 1..Len(log') : j \in 1..Len(log) \/ j = Len(log')
      BY <2>2
    <2> QED
      BY <1>5, <2>2, <2>3 DEF Parses, Metrics
  <1>6. CASE Fails
    <2>1. Entry("nothing") \in Ended /\ log' = Append(log, Entry("nothing"))
      BY <1>6, FaultType, EntryType DEF Fails, Ends, Entry
    <2>2. /\ Len(log') = Len(log) + 1 /\ Len(log) \in Nat
          /\ \A j \in 1..Len(log) : log'[j] = log[j]
          /\ log'[Len(log')].calm = calm'
      BY <2>1, LogGrows DEF Entry
    <2>3. \A j \in 1..Len(log') : j \in 1..Len(log) \/ j = Len(log')
      BY <2>2
    <2>4. log'[Len(log')].calm /\ (Len(log') > 1 => ~Metrics(Len(log))) => FALSE
      BY <1>6, <2>2, FailsNotCalm DEF StartsAnew, TypeInv, LogType
    <2> QED
      BY <1>6, <2>2, <2>3, <2>4 DEF Fails, Metrics
  <1>7. CASE Signal \/ MainStep \/ UNCHANGED vars
    BY <1>7 DEF Signal, MainStep, Wakes, Unregisters, vars, worker, Metrics, StartsAnew
  <1>8. CASE Server
    BY <1>8 DEF Server, Fault, NoFault, worker, Metrics, StartsAnew
  <1> QED
    BY <1>1, <1>2, <1>3, <1>4, <1>5, <1>6, <1>7, <1>8 DEF Next, WorkerStep

-----------------------------------------------------------------------------
(* Stages *)

\* A set of entries of a log of length n, when the next entry is added.
LEMMA CountNext ==
  ASSUME NEW n \in Nat, NEW S \in SUBSET (1..n)
  PROVE  /\ IsFiniteSet(S) /\ Cardinality(S) \in Nat
         /\ Cardinality(S \cup {n + 1}) = Cardinality(S) + 1
  <1>1. IsFiniteSet(1..n)
    BY FS_Interval
  <1>2. IsFiniteSet(S)
    BY <1>1, FS_Subset
  <1>3. n + 1 \notin S
    OBVIOUS
  <1> QED
    BY <1>2, <1>3, FS_AddElement, FS_CardinalityType

\* Each of the four sets keeps its elements, and gets the new entry if that
\* belongs to it.
LEMMA CountsGrow ==
  ASSUME TypeInv, NEW e \in Ended, log' = Append(log, e)
  PROVE  /\ Cardinality(Connecting') = Cardinality(Connecting) + IF StartsAnew THEN 1 ELSE 0
         /\ Cardinality(Querying') = Cardinality(Querying) + IF e.stage # "connect" THEN 1 ELSE 0
         /\ Cardinality(Parsing') = Cardinality(Parsing) + IF e.stage = "parse" THEN 1 ELSE 0
         /\ Cardinality(Failing') = Cardinality(Failing) + IF e.how # "metrics" THEN 1 ELSE 0
  <1> DEFINE n == Len(log)
  <1>1. /\ n \in Nat /\ Len(log') = n + 1 /\ log'[n + 1] = e
        /\ \A j \in 1..n : log'[j] = log[j]
    BY LogGrows
  <1>2. \A j \in 1..n + 1 : j \in 1..n \/ j = n + 1
    BY <1>1
  <1>3. StartsAnew <=> n + 1 = 1 \/ ~Metrics(n)
    BY <1>1 DEF StartsAnew, TypeInv, LogType
  <1>4. Connecting' = IF StartsAnew THEN Connecting \cup {n + 1} ELSE Connecting
    BY <1>1, <1>2, <1>3 DEF Connecting, Metrics
  <1>5. Querying' = IF e.stage # "connect" THEN Querying \cup {n + 1} ELSE Querying
    BY <1>1, <1>2 DEF Querying
  <1>6. Parsing' = IF e.stage = "parse" THEN Parsing \cup {n + 1} ELSE Parsing
    BY <1>1, <1>2 DEF Parsing
  <1>7. Failing' = IF e.how # "metrics" THEN Failing \cup {n + 1} ELSE Failing
    BY <1>1, <1>2 DEF Failing, Metrics
  <1>8. /\ Connecting \in SUBSET (1..n) /\ Querying \in SUBSET (1..n)
        /\ Parsing \in SUBSET (1..n) /\ Failing \in SUBSET (1..n)
    BY DEF Connecting, Querying, Parsing, Failing
  <1>9. \A S \in SUBSET (1..n) : /\ Cardinality(S) \in Nat
                                 /\ Cardinality(S \cup {n + 1}) = Cardinality(S) + 1
    BY <1>1, CountNext
  <1> HIDE DEF n
  <1>10. Cardinality(Connecting') = Cardinality(Connecting) + IF StartsAnew THEN 1 ELSE 0
    <2>1. CASE StartsAnew
      <3>1. Connecting' = Connecting \cup {n + 1}
        BY <1>4, <2>1
      <3> QED
        BY <1>8, <1>9, <2>1, <3>1
    <2>2. CASE ~StartsAnew
      <3>1. Connecting' = Connecting
        BY <1>4, <2>2
      <3>2. Cardinality(Connecting) \in Nat
        BY <1>8, <1>9
      <3> QED
        BY <2>2, <3>1, <3>2
    <2> QED
      BY <2>1, <2>2
  <1>11. Cardinality(Querying') = Cardinality(Querying) + IF e.stage # "connect" THEN 1 ELSE 0
    <2>1. CASE e.stage = "connect"
      <3>1. Querying' = Querying
        BY <1>5, <2>1
      <3>2. Cardinality(Querying) \in Nat
        BY <1>8, <1>9
      <3> QED
        BY <2>1, <3>1, <3>2
    <2>2. CASE ~(e.stage = "connect")
      <3>1. Querying' = Querying \cup {n + 1}
        BY <1>5, <2>2
      <3> QED
        BY <1>8, <1>9, <2>2, <3>1
    <2> QED
      BY <2>1, <2>2
  <1>12. Cardinality(Parsing') = Cardinality(Parsing) + IF e.stage = "parse" THEN 1 ELSE 0
    <2>1. CASE e.stage = "parse"
      <3>1. Parsing' = Parsing \cup {n + 1}
        BY <1>6, <2>1
      <3> QED
        BY <1>8, <1>9, <2>1, <3>1
    <2>2. CASE ~(e.stage = "parse")
      <3>1. Parsing' = Parsing
        BY <1>6, <2>2
      <3>2. Cardinality(Parsing) \in Nat
        BY <1>8, <1>9
      <3> QED
        BY <2>2, <3>1, <3>2
    <2> QED
      BY <2>1, <2>2
  <1>13. Cardinality(Failing') = Cardinality(Failing) + IF e.how # "metrics" THEN 1 ELSE 0
    <2>1. CASE e.how = "metrics"
      <3>1. Failing' = Failing
        BY <1>7, <2>1
      <3>2. Cardinality(Failing) \in Nat
        BY <1>8, <1>9
      <3> QED
        BY <2>1, <3>1, <3>2
    <2>2. CASE ~(e.how = "metrics")
      <3>1. Failing' = Failing \cup {n + 1}
        BY <1>7, <2>2
      <3> QED
        BY <1>8, <1>9, <2>2, <3>1
    <2> QED
      BY <2>1, <2>2
  <1> QED
    BY <1>10, <1>11, <1>12, <1>13

\* Where nothing is added to the log the counts stay.
LEMMA CountsStay ==
  ASSUME UNCHANGED log
  PROVE  /\ Cardinality(Connecting') = Cardinality(Connecting)
         /\ Cardinality(Querying') = Cardinality(Querying)
         /\ Cardinality(Parsing') = Cardinality(Parsing)
         /\ Cardinality(Failing') = Cardinality(Failing)
         /\ StartsAnew' = StartsAnew
  BY DEF Connecting, Querying, Parsing, Failing, StartsAnew, Metrics

LEMMA CountType ==
  ASSUME TypeInv
  PROVE  /\ Cardinality(Connecting) \in Nat /\ Cardinality(Querying) \in Nat
         /\ Cardinality(Parsing) \in Nat /\ Cardinality(Failing) \in Nat
  <1>1. Len(log) \in Nat
    BY DEF TypeInv, LogType
  <1>2. /\ Connecting \in SUBSET (1..Len(log)) /\ Querying \in SUBSET (1..Len(log))
        /\ Parsing \in SUBSET (1..Len(log)) /\ Failing \in SUBSET (1..Len(log))
    BY DEF Connecting, Querying, Parsing, Failing
  <1> QED
    BY <1>1, <1>2, CountNext

\* What Reset does to the counters, by the stage that ends.
LEMMA ResetCounts ==
  ASSUME TypeInv, NEW stage, Reset(stage)
  PROVE  \A s \in Stage : observed'[s] = observed[s] + IF s = timer THEN 1 ELSE 0
  BY DEF TypeInv, TypeOK, Reset, Stage

LEMMA StageCountsStep ==
  ASSUME TypeInv, Agreement, StageCounts, [Next]_vars
  PROVE  StageCounts'
  <1>0. "connect" \in Stage /\ "query" \in Stage /\ "parse" \in Stage
    BY DEF Stage
  <1>1. /\ observed["connect"] \in Nat /\ observed["query"] \in Nat
        /\ observed["parse"] \in Nat /\ failures \in Nat
    BY <1>0, CollectorAssumption DEF TypeInv, TypeOK
  <1> USE CountType, <1>0, <1>1 DEF StageCounts, Goto
  <1>2. CASE Collect
    <2>1. pc = "idle" /\ timer = "off" /\ UNCHANGED <<log, failures>> /\ pc' \in {"connect", "query"}
      BY <1>2 DEF Collect, TypeInv, TypeOK
    <2>2. UNCHANGED observed
      BY <1>2, <2>1 DEF Collect, Reset
    <2>3. pc' = "query" => ~StartsAnew
      BY <1>2, <2>1 DEF Collect, Agreement, ConnectedAgrees, StartsAnew, TypeInv, TypeOK
    <2> QED
      BY <2>1, <2>2, <2>3, CountsStay
  <1>3. CASE Connects
    <2>1. pc = "connect" /\ timer = "connect" /\ UNCHANGED <<log, failures>> /\ pc' = "query"
      BY <1>3 DEF Connects, TypeInv, LogType
    <2>2. /\ observed'["connect"] = observed["connect"] + 1
          /\ observed'["query"] = observed["query"] /\ observed'["parse"] = observed["parse"]
      BY <1>3, <2>1, ResetCounts DEF Connects
    <2>3. StartsAnew
      BY <2>1 DEF Agreement
    <2> QED
      BY <2>1, <2>2, <2>3, CountsStay
  <1>4. CASE Sends
    BY <1>4, CountsStay DEF Sends
  <1>5. CASE Receives
    <2>1. pc = "await" /\ timer = "query" /\ UNCHANGED <<log, failures>> /\ pc' = "parse"
      BY <1>5 DEF Receives, TypeInv, LogType
    <2>2. /\ observed'["query"] = observed["query"] + 1
          /\ observed'["connect"] = observed["connect"] /\ observed'["parse"] = observed["parse"]
      BY <1>5, <2>1, ResetCounts DEF Receives
    <2> QED
      BY <2>1, <2>2, CountsStay
  <1>6. CASE Parses
    <2>1. pc = "parse" /\ timer = "parse" /\ UNCHANGED failures /\ pc' = "idle"
      BY <1>6 DEF Parses, TypeInv, LogType
    <2>2. Entry("metrics") \in Ended /\ log' = Append(log, Entry("metrics"))
      BY <1>6, FaultType, EntryType DEF Parses, Ends, Entry
    <2>3. /\ observed'["parse"] = observed["parse"] + 1
          /\ observed'["connect"] = observed["connect"] /\ observed'["query"] = observed["query"]
      BY <1>6, <2>1, ResetCounts DEF Parses
    <2>4. Entry("metrics").stage = "parse" /\ Entry("metrics").how = "metrics"
      BY <2>1 DEF Entry
    <2>5. /\ Cardinality(Connecting') = Cardinality(Connecting) + IF StartsAnew THEN 1 ELSE 0
          /\ Cardinality(Querying') = Cardinality(Querying) + 1
          /\ Cardinality(Parsing') = Cardinality(Parsing) + 1
          /\ Cardinality(Failing') = Cardinality(Failing)
      BY <2>2, <2>4, CountsGrow
    <2> QED
      BY <2>1, <2>3, <2>5
  <1>7. CASE Fails
    <2>1. /\ failures' = failures + 1 /\ pc' = "idle"
          /\ pc \in {"connect", "query", "await", "parse"}
      BY <1>7 DEF Fails, TypeInv, TypeOK
    <2>2. Entry("nothing") \in Ended /\ log' = Append(log, Entry("nothing"))
      BY <1>7, FaultType, EntryType DEF Fails, Ends, Entry
    <2>3. Entry("nothing").stage = timer /\ Entry("nothing").how # "metrics"
      BY DEF Entry
    <2>4. /\ Cardinality(Connecting') = Cardinality(Connecting) + IF StartsAnew THEN 1 ELSE 0
          /\ Cardinality(Querying') = Cardinality(Querying) + IF timer # "connect" THEN 1 ELSE 0
          /\ Cardinality(Parsing') = Cardinality(Parsing) + IF timer = "parse" THEN 1 ELSE 0
          /\ Cardinality(Failing') = Cardinality(Failing) + 1
      BY <2>2, <2>3, CountsGrow
    <2>5. \A s \in Stage : observed'[s] = observed[s] + IF s = timer THEN 1 ELSE 0
      BY <1>7, ResetCounts DEF Fails
    <2>6. CASE pc = "connect"
      <3>1. timer = "connect" /\ StartsAnew
        BY <2>6 DEF TypeInv, LogType, Agreement
      <3> QED
        BY <2>1, <2>4, <2>5, <2>6, <3>1
    <2>7. CASE pc \in {"query", "await"}
      <3>1. timer = "query"
        BY <2>7 DEF TypeInv, LogType
      <3> QED
        BY <2>1, <2>4, <2>5, <2>7, <3>1
    <2>8. CASE pc = "parse"
      <3>1. timer = "parse"
        BY <2>8 DEF TypeInv, LogType
      <3> QED
        BY <2>1, <2>4, <2>5, <2>8, <3>1
    <2> QED
      BY <2>1, <2>6, <2>7, <2>8
  <1>8. CASE Elsewhere \/ UNCHANGED vars
    <2>1. UNCHANGED worker
      BY <1>8, ElsewhereLeavesWorker DEF vars
    <2> QED
      BY <2>1, CountsStay DEF worker
  <1> QED
    BY <1>2, <1>3, <1>4, <1>5, <1>6, <1>7, <1>8 DEF Next, WorkerStep, Elsewhere

-----------------------------------------------------------------------------
(* The theorems *)

LEMMA CollectorInit == Init => IInv
  <1> SUFFICES ASSUME Init PROVE IInv
    OBVIOUS
  <1>1. Len(log) = 0 /\ log = <<>>
    BY DEF Init
  <1>2. TypeInv
    BY TypeInit
  <1>3. Agreement /\ OneQuery /\ Recovery
    BY <1>1 DEF Init, Agreement, ConnectedAgrees, OneQuery, OwnAnswer, Recovery,
                RecoversAtOnce, nullptr
  <1>4. /\ Cardinality(Connecting) = 0 /\ Cardinality(Querying) = 0
        /\ Cardinality(Parsing) = 0 /\ Cardinality(Failing) = 0
    <2>1. Connecting = {} /\ Querying = {} /\ Parsing = {} /\ Failing = {}
      BY <1>1 DEF Connecting, Querying, Parsing, Failing
    <2> QED
      BY <2>1, FS_EmptySet
  <1>5. StageCounts
    BY <1>4 DEF Init, StageCounts, Stage
  <1> QED
    BY <1>2, <1>3, <1>5 DEF IInv

LEMMA CollectorInductive == Spec => []IInv
  <1>1. IInv /\ [Next]_vars => IInv'
    BY TypeStep, AgreementStep, OneQueryStep, RecoveryStep, StageCountsStep DEF IInv
  <1> QED
    BY CollectorInit, <1>1, PTL DEF Spec

\* Every variable of the ambassador keeps its type; a timer runs exactly while a
\* collection does, and no more failures are counted than collections ended.
THEOREM CollectorTypes == Spec => []TypeOK
  <1>1. IInv => TypeOK
    BY DEF IInv, TypeInv
  <1> QED
    BY <1>1, CollectorInductive, PTL

\* Between collections the gauge, the client and the outcome of the last
\* collection agree, wherever Collect threw and whatever the server did.
THEOREM GaugeAgrees == Spec => []ConnectedAgrees
  <1>1. IInv => ConnectedAgrees
    BY DEF IInv, Agreement
  <1> QED
    BY <1>1, CollectorInductive, PTL

\* No scrape reports the answer to a query another scrape gave up: the owner
\* drops the client, and the answers on their way to it, after every exception.
THEOREM AnswersOwnQuery == Spec => []OwnAnswer
  <1>1. IInv => OwnAnswer
    BY DEF IInv, OneQuery
  <1> QED
    BY <1>1, CollectorInductive, PTL

\* After one failed collection the next one succeeds if the server is up and
\* nothing goes wrong meanwhile.
THEOREM RecoversAfterOne == Spec => []RecoversAtOnce
  <1>1. IInv => RecoversAtOnce
    BY DEF IInv, Recovery
  <1> QED
    BY <1>1, CollectorInductive, PTL

\* Every stage a collection entered is reported once and every failure counted,
\* however the collection was left.
THEOREM StagesCounted == Spec => []StagesReported
  <1>1. IInv => StagesReported
    <2> SUFFICES ASSUME IInv, pc = "idle" PROVE StagesReported
      BY DEF StagesReported
    <2>1. /\ observed["connect"] = Cardinality(Connecting)
          /\ observed["query"] = Cardinality(Querying)
          /\ observed["parse"] = Cardinality(Parsing)
          /\ failures = Cardinality(Failing)
      BY CountType DEF IInv, StageCounts
    <2> QED
      BY <2>1 DEF StagesReported, Connecting, Querying, Parsing, Failing
  <1> QED
    BY <1>1, CollectorInductive, PTL
=============================================================================
