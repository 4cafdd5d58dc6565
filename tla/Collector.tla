----------------------------- MODULE Collector -----------------------------
(***************************************************************************)
(* The Prometheus ambassador: ClientCollector::Collect, run by the one     *)
(* worker thread of the exposer at each scrape, and PromServer, whose main *)
(* thread waits for a signal and then unregisters the collector.  The      *)
(* server it queries may crash, restart, fall silent or answer nonsense.   *)
(*                                                                         *)
(* A VDMSClient is seen as its connection: to which incarnation of the     *)
(* server it leads, and the queries whose answers are on their way over it.*)
(* Collections are numbered, and a query has the number of its collection. *)
(***************************************************************************)
EXTENDS Naturals, Sequences, FiniteSets

CONSTANTS MaxScrapes, MaxFaults, MaxSignals    \* bounds

ASSUME CollectorAssumption == {MaxScrapes, MaxFaults, MaxSignals} \subseteq Nat

\* The summaries a collection reports its stages to.
Stage == {"connect", "query", "parse"}

Signals == {"SIGINT", "SIGTERM", "SIGQUIT"}

VARIABLES client,    \* _client: the incarnation it is connected to, or nullptr
          owed,      \* queries whose answers are on their way to it
          connected, \* the gauge client_connected
          failures,  \* the sum of failures_total
          timer,     \* the stage whose time is being taken
          observed,  \* for each stage, the times it was reported
          pc,        \* where Collect is; "idle" outside it
          answer,    \* the query whose answer Collect is parsing
          log,       \* the collections that ended, and how
          main,      \* run() goes on, unregisters, or has returned
          shutdown,
          signals,   \* signals so far
          server,    \* "up", "mute" or "down"
          epoch,     \* incarnations of the server
          calm,      \* nothing went wrong since the current collection began
          faults

worker == <<client, owed, connected, failures, timer, observed, pc, answer, log>>
process == <<main, shutdown, signals>>
vars == <<worker, process, server, epoch, calm, faults>>

nullptr == 0

Init ==
  /\ client = nullptr /\ owed = <<>>
  /\ connected = 0 /\ failures = 0
  /\ timer = "off" /\ observed = [s \in Stage |-> 0]
  /\ pc = "idle" /\ answer = 0 /\ log = <<>>
  /\ main = "run" /\ shutdown = FALSE /\ signals = 0
  /\ server \in {"up", "down"} /\ epoch = 1
  /\ calm = TRUE /\ faults = 0

Fault == faults < MaxFaults /\ faults' = faults + 1 /\ calm' = FALSE

NoFault == UNCHANGED <<faults, calm>>
-----------------------------------------------------------------------------
(* ClientCollector::Collect *)

\* Mutant: what was timed before is discarded.
ResetDiscards(stage) == timer' = stage /\ UNCHANGED observed

\* Timer::reset, or its destructor: the ScopeTimer that runs reports and the
\* next one starts.
Reset(stage) ==
  /\ timer' = stage
  /\ observed' = IF timer = "off" THEN observed ELSE [observed EXCEPT ![timer] = @ + 1]

Ends(how) == log' = Append(log, [how |-> how, stage |-> timer, answer |-> answer',
                                 calm |-> calm'])

Goto(label) == pc' = label

\* A collection connects if there is no client.
Collect ==
  /\ pc = "idle"
  /\ main # "returned"
  /\ Len(log) < MaxScrapes
  /\ calm' = (server = "up")
  /\ answer' = 0
  /\ IF client = nullptr
       THEN Goto("connect") /\ Reset("connect") /\ UNCHANGED connected
       ELSE Goto("query") /\ Reset("query") /\ connected' = 1
  /\ UNCHANGED <<client, owed, failures, log, process, server, epoch, faults>>

\* The constructor of VDMSClient is through.
Connects ==
  /\ pc = "connect"
  /\ server = "up"
  /\ client' = epoch
  /\ owed' = <<>>
  /\ connected' = 1
  /\ Goto("query")
  /\ Reset("query")
  /\ UNCHANGED <<failures, answer, log, process, server, epoch>>
  /\ NoFault

\* The connection still leads to a server that runs.
Alive == client = epoch /\ server # "down"

Sends ==
  /\ pc = "query"
  /\ Alive
  /\ owed' = Append(owed, Len(log) + 1)
  /\ Goto("await")
  /\ UNCHANGED <<client, connected, failures, timer, observed, answer, log,
                 process, server, epoch>>
  /\ NoFault

Receives ==
  /\ pc = "await"
  /\ Alive /\ server = "up"
  /\ answer' = Head(owed)
  /\ owed' = Tail(owed)
  /\ Goto("parse")
  /\ Reset("parse")
  /\ UNCHANGED <<client, connected, failures, log, process, server, epoch>>
  /\ NoFault

\* Mutant: the timer outlives the call.
KeepsTiming ==
  /\ pc = "parse"
  /\ Goto("idle")
  /\ NoFault
  /\ UNCHANGED <<client, owed, connected, failures, timer, observed, answer,
                 process, server, epoch>>
  /\ Ends("metrics")

\* The metrics go to the exposer.
Parses ==
  /\ pc = "parse"
  /\ Goto("idle")
  /\ Reset("off")
  /\ NoFault
  /\ UNCHANGED <<client, owed, connected, failures, answer, process, server, epoch>>
  /\ Ends("metrics")

\* Mutants: the client is kept after a failure; the gauge is set back only if
\* there was no client; a client whose connection looks sound is kept.
KeepsClient == connected' = 0 /\ UNCHANGED <<client, owed>>
KeepsGauge ==
  /\ client' = nullptr
  /\ owed' = <<>>
  /\ connected' = IF client = nullptr THEN 0 ELSE connected
KeepsBusyClient ==
  /\ client' = IF pc = "await" /\ Alive THEN client ELSE nullptr
  /\ owed' = IF pc = "await" /\ Alive THEN owed ELSE <<>>
  /\ connected' = 0

\* After a failure the client and its connection are destroyed.
DropClient == client' = nullptr /\ owed' = <<>> /\ connected' = 0

\* Connecting or querying throws: the connection is dead, or a signal, a
\* refused token or the like gets in the way.  Or parsing does, or what comes
\* is no array.
Fails ==
  /\ \/ pc = "connect" /\ server = "down" /\ NoFault
     \/ pc \in {"query", "await"} /\ ~Alive /\ NoFault
     \/ pc # "idle" /\ Fault
  /\ failures' = failures + 1
  /\ DropClient
  /\ Goto("idle")
  /\ Reset("off")
  /\ UNCHANGED <<answer, process, server, epoch>>
  /\ Ends("nothing")

WorkerStep == Connects \/ Sends \/ Receives \/ Parses \/ Fails
-----------------------------------------------------------------------------
(* PromServer, and the server. *)

\* Mutant: one of the signals handled is forgotten here.
ForgetsQuit(signo) == signo \in {"SIGINT", "SIGTERM"}

\* What sighandler stores.
SigHandler(signo) == signo \in Signals

Signal ==
  /\ signals < MaxSignals
  /\ main # "returned"
  /\ signals' = signals + 1
  /\ \E signo \in Signals : shutdown' = SigHandler(signo)
  /\ UNCHANGED <<worker, main, server, epoch, calm, faults>>

\* run() wakes up every second.
Wakes ==
  /\ main = "run"
  /\ shutdown
  /\ main' = "unregister"
  /\ UNCHANGED <<worker, shutdown, signals, server, epoch, calm, faults>>

\* RemoveCollectable waits for the collection under way; the exposer starts no
\* other one afterwards.
Unregisters ==
  /\ main = "unregister"
  /\ pc = "idle"
  /\ main' = "returned"
  /\ UNCHANGED <<worker, shutdown, signals, server, epoch, calm, faults>>

MainStep == Wakes \/ Unregisters

\* The server dies, stops to answer, or is started again.
Server ==
  /\ \/ server # "down" /\ server' = "down" /\ UNCHANGED epoch /\ Fault
     \/ server = "up" /\ server' = "mute" /\ UNCHANGED epoch /\ Fault
     \/ server = "down" /\ server' = "up" /\ epoch' = epoch + 1 /\ NoFault
  /\ UNCHANGED <<worker, process>>

Next == Collect \/ WorkerStep \/ Signal \/ MainStep \/ Server

Spec == Init /\ [][Next]_vars

\* Threads run: run() wakes up, and the worker goes on when it can.
FairSpec == Spec /\ WF_vars(MainStep) /\ WF_vars(WorkerStep)
-----------------------------------------------------------------------------
(* What the ambassador promises. *)

TypeOK ==
  /\ client \in 0..epoch /\ connected \in {0, 1}
  /\ owed \in Seq(1..MaxScrapes) /\ answer \in 0..MaxScrapes
  /\ failures \in 0..MaxScrapes
  /\ timer \in Stage \cup {"off"} /\ observed \in [Stage -> Nat]
  /\ pc \in {"idle", "connect", "query", "await", "parse"}
  /\ timer = "off" <=> pc = "idle"
  /\ main \in {"run", "unregister", "returned"} /\ shutdown \in BOOLEAN
  /\ signals \in 0..MaxSignals /\ faults \in 0..MaxFaults
  /\ server \in {"up", "mute", "down"} /\ epoch \in Nat \ {0} /\ calm \in BOOLEAN

Metrics(k) == log[k].how = "metrics"

\* Between collections the gauge, the client and the outcome of the last
\* collection agree: it left metrics, or nothing, no client and a gauge of 0,
\* wherever it failed.
ConnectedAgrees ==
  pc = "idle" =>
    /\ connected = 1 <=> client # nullptr
    /\ connected = 1 <=> log # <<>> /\ Metrics(Len(log))

\* The metrics a scrape reports are the answer to its own query and not to one
\* that an earlier scrape gave up.
OwnAnswer == \A k \in 1..Len(log) : Metrics(k) => log[k].answer = k

\* One failed collection is enough to be rid of a dead connection: the next one
\* succeeds if the server is up and nothing else goes wrong meanwhile.
RecoversAtOnce ==
  \A k \in 1..Len(log) :
    log[k].calm /\ (k > 1 => ~Metrics(k - 1)) => Metrics(k)

\* Every stage a collection entered is reported once, however it was left; a
\* collection enters "connect" if it is the first or the one before failed.
StagesReported ==
  LET ended == 1..Len(log)
      Count(P(_)) == Cardinality({j \in ended : P(j)})
  IN  pc = "idle" =>
        /\ observed["connect"] = Count(LAMBDA j : j = 1 \/ ~Metrics(j - 1))
        /\ observed["query"] = Count(LAMBDA j : log[j].stage # "connect")
        /\ observed["parse"] = Count(LAMBDA j : log[j].stage = "parse")
        /\ failures = Count(LAMBDA j : ~Metrics(j))

\* A process told to stop stops, whatever signals follow the first one, unless
\* the server falls silent for ever.
Stops ==
  <>[](server = "mute") \/ (signals > 0 ~> main = "returned")
=============================================================================
