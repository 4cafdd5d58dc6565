# Verification of aperturedb-cpp

TLA+ models of the C++ client library of ApertureDB (`src/comm`, `src/aperturedb`, and the Prometheus
ambassador in `tools/`), TLC configurations that check them on small instances, and TLAPS proofs
of their safety properties for all values of the constants. All paths below are relative to the
repository.

Check a model with `tlc -config MCX_y.cfg MCX.tla`, the proofs of module `X` with
`tlapm XProofs.tla`. `PROJECT.json` maps definitions to source lines.

## 1. Inventory

| Component | State it keeps | Operations | Interacts with |
|---|---|---|---|
| `comm::Connection`, `TCPConnection`, `TLSConnection` | socket, `_max_buffer_size`, `_buffer_str` | `send_message`, `recv_message`, `set_max_buffer_size`, `shutdown` | the kernel (partial reads and writes, EINTR, resets, timeouts); the peer's Connection; `ConnMetrics` callbacks |
| `ConnClient`, `ConnServer`, `TCPSocket`, `TLSSocket`, `HelloMessage` | cached `_connection`; listening socket with backlog | `connect`; `accept`, `negotiate_protocol` | each other over the wire; OpenSSL handshakes; the sockets they create and must close |
| `comm_openssl_bio` | two process-wide globals | `comm_openssl_bio`, `comm_openssl_bio_init` | every thread that makes a TLSSocket |
| `VDMSClient`, `VDMSClientImpl`, `TokenBasedVDMSClient` | `_auth_token` with lifetimes | constructor, `query`, `re_authenticate`, `refresh_token` | `ConnClient`, the server, the clock |
| `ClientCollector`, `PromServer` (ambassador) | `_client`, gauge, counters, stage timer; `shutdown` | `Collect`; `run`, `sighandler` | VDMSClient; the exposer's worker thread; signals |
| `TimedQueue`, `Timer`, `ScopeTimer` | queue of timed elements | push, pop, release, reset | Prometheus metrics |
| test servers `VDMSServer`, `AuthEnabledVDMSServer`, `Barrier` | thread, stop flag, tokens | constructor, work thread, destructor | ConnServer; VDMSClient |
| `JsonReader`, `JsonWriter`, `Base64` | none | pure conversions | the ambassador; callers |
| `TLS.cc` | OpenSSL contexts | set-up calls | sockets |
| `Exception`, `Address`, `PromConfig`, `send_query` | none of interest | printing, parsing | - |

What is hard about them:

* **Framing.** A frame is a size and that many bytes, over a stream that the kernel splits anywhere.
  After an exception half a frame may be in the stream and the object remains usable, so everything
  depends on what the owner does next. Both directions share one socket and both sides may write
  first. The limit on the size is per side, changeable, and the only bound on memory.
* **Establishment.** Client and server decide separately which protocol the answer to the hello
  settles; the socket moves between objects while exceptions fly; the backlog is bounded and
  handlers serve one connection at a time; the client has no receive timeout.
* **One-time initialisation** without a lock, by every thread that negotiates TLS.
* **Tokens.** They are checked, sent and examined at three different times; expiry fields may be
  missing; an exception leaves an answer behind on a connection that pairs answers by order.
* **Ownership of OpenSSL objects.** Some calls count a reference, some adopt the caller's, and every
  constructor may throw between two of them; OpenSSL drops a key that does not fit without a word,
  and compares nothing when certificate and key are of different types.
* **Observations.** A timer must report once, to the metric it was started for, although its queue is
  moved, assigned over or abandoned; its sum then passes a writer that rounds and a reader that takes
  members for granted.
* **The test servers' threads.** A destructor joins a thread that blocks in calls which do not look at
  its flag, and an exception in the thread ends all tests.
* **Collection.** Any stage may fail; client, gauge, timer and counters must agree afterwards, and
  shutdown waits for a collection that waits for a server.

`PROJECT.json` lists the hazards at the lines where they bite, with the properties that cover them.

Correctness, per component: messages arrive whole and in order and nothing else does, and a buffer
never exceeds its limit (Connection); both ends agree on the protocol, prefer TLS, leak no socket and
let a `connect()` return as long as handlers become free (Handshake); one complete BIO method remains (BioInit); answers match
their queries, the latest token is used, and in time (TokenClient); gauge, client and counters agree,
recovery takes one scrape, shutdown ends (Collector); every timer is observed once and scraped as it
was observed (TimedQueue); objects are released once and a server has the certificate and the key
it was constructed from (ServerContext); the process survives polite clients and the destructor returns (TestServer).

## 2. Plan

1. *Done first*: Connection with MessageChannel as its abstract specification, and its proofs;
   Handshake; BioInit; TokenClient; Collector.
2. *Done next*: MetricsJson and TimedQueue (an element is observed once, through moves and resets,
   and what is scraped is what was collected); ServerContext (TLS contexts, their reference counts,
   the constructors of ConnServer and ConnClient) and TestServer, which uses it (thread, stop flag,
   join in the destructor, Barrier); liveness of the handshake with TLS and several handlers.
3. *Done, proofs*: every safety invariant, action property and refinement that a passing run checks.
4. *Left*: liveness stays with TLC, see section 7. What section 8 lists is not modelled.

How the modules build on each other: Connection implements MessageChannel, so Handshake and
TokenClient use whole messages in order. TokenClient promises most to an owner that drops the client
after an exception; Collector shows that the ambassador is such an owner. TimedQueue extends
MetricsJson, whose operators it applies to what its registry collects: the path of an observation
from a ~ScopeTimer in the database to the Prometheus server behind the ambassador. TestServer extends
ServerContext, so that construction, sessions and destruction happen in the order its threads choose.

## 3. Modules

### MessageChannel
What a Connection promises: per direction, the messages returned are a prefix of those sent.

### Connection
`Connection.cc`, `TCPConnection.cc`, `TLSConnection.cc`. Two sides, each one thread with a program of
calls (`todo`), and a second thread that may call `shutdown`. A byte is `[frame, at]`: which frame it
belongs to and where. That is all the framing can tell apart, and it makes any torn, lost or repeated
byte visible. Each byte the kernel moves is a step, so every split into `read`/`write` calls occurs.

| Action | Code |
|---|---|
| `SendRefused`, `BeginSend` | `send_message` up to the first write; `TooLarge` is `check_message_size` |
| `Write`, `WriteFails` | `write` in the header and body loops; peer gone, EINTR, short header |
| `BeginRecv`, `ReadHeader`, `HeaderRead` | `recv_message` up to the size check and `resize` |
| `ReadBody`, `EmptyBody` | the body loop, which is not entered for an empty body |
| `ReadFails` | end of stream, reset, EINTR, the timeout of accepted plain sockets |
| `SetMaxBufferSize` | the clamp to `[MIN, MAX]_BUFFER_SIZE` |
| `Close`, `Shutdown`, `Crash`, `Reset` | destructor; `shutdown` from another thread; process death; what TCP does when a socket is closed with unread bytes |

`Decoded`: four bytes that are the header of a frame decode to its size, any other four decode to
*any* size. `KeepAfter` says after which exceptions the owner goes on with the object. The code leaves
this to the user; `{"SendRefused"}` is what is safe, all exceptions is what `VDMSClient` allows.
The metrics callbacks come after a message is through and only count; they are left out.

### Handshake
`ConnClient::connect` against `ConnServer::accept` and `negotiate_protocol`. Several clients dial one
socket with a backlog; handler threads accept, negotiate, serve, drop. A configuration (`config`)
fixes versions, allowed masks, who verifies, who has a certificate. The TLS handshake is three
flights that either side can break. `wire[i]` has both directions and the open ends of connection
`i`, so a forgotten socket stays visible. Every message can fail to arrive because the other end
closed, died or vanished, on the server's side too (`host`); a server that closes with unread bytes may destroy its own answer.
Simplifications: a client's hello is written at once with the connection, and the rare failure to
write it is reported as the failure to read the answer.

### BioInit
`OpenSSLBio.cc`. Every access to `bio_initialized` and `comm_bio_method` is a step. The calls into
OpenSSL between them are opaque, so the compiler keeps their order; a data race is formally undefined
behaviour, and these are the outcomes that the build produces on a processor that keeps stores in
order. A property that fails here fails in any case.

### TokenClient
`VDMSClientImpl.cc`, `TokenBasedVDMSClient.cc`, `VDMSClient.cc`, against the server of
`test/AuthEnabledVDMSServer.cc`, which may also refuse or answer what the client cannot use. The
constructor authenticates; `query` checks the refresh token, then the session token, each against
the clock, and renews first. The clock ticks freely, except that a message travels at most `Latency`
and the client needs at most `Stall` from a check to the request: two assumptions on the environment
that only `UsedInTime` speaks of. `reuses` says whether the owner goes on after an exception.
`comm::Exception` and `VDMS::Exception` are told apart because the translation is stated in the code.
A renewal that fails because of a message too large to receive leaves a torn stream; that case is
Connection's and not repeated here.

### Collector
`ClientCollector.cc`, `PromServer.cc`, `Timer.h`. The worker's collection step by step, the server's
crashes, restarts and silences, signals, and main's wait. A VDMSClient is reduced to the server
incarnation it is connected to and the answers still on their way to it. The exposer is external: it
has one worker (`PromServer.cc` asks for one), and removal of a collectable waits for the collection
under way. A signal may also hit the worker and interrupt its read; that is one of the faults.

### MetricsJson and TimedQueue
`JsonWriter.h`, `JsonReader.h` as operators on JSON values: objects are functions, arrays sequences.
Numbers are multiples of 10^-`Places`, or an infinity or NaN (signs are left out: what is written is a
sign and the text of the absolute value). The doubles among them are the array `Double`, in the order
of their bit patterns: the subnormal ones are those before `MinNormal`, and at `Infinite` is the
number from which on a decimal is rounded to infinity. For IEEE 754, `Places` is 1074. `Shortened`
keeps `Digits` significant decimal digits, as the stream does: `Excess` counts the digits after them,
`Nearest` rounds, to even at a tie. `ReadDouble` is `std::stod`: the double nearest to the decimal
(`Pattern`, to even at a tie); `DoubleThrows` when strtod reports ERANGE. Members that the writer
leaves out, and what the reader takes by `operator[]` without a look (`Complete`), are told apart.

`TimedQueue.h`, `Timer.h`, `ScopeTimer.h`: variables that hold queues and timers, all operations on
them, and a clock. `samples` counts the observations of each metric, `started` is the push or start
counter, `busy` accumulates the time spent in timers of a metric and is there only to be compared.
What prometheus-cpp collects of the samples is external. `Total` is the sum of a function over a
finite set. `MetricAssumption` asks for two things of the registry. Bucket boundaries have no more
digits than are written: those of the tests (`0.001`, `0.01`, `10.0`) have one or two, and the writer
keeps 16; a boundary that did not survive would be another bucket to Prometheus. Gauges are not negative,
as follows from the signs being left out. Durations, boundaries and sums are whole ticks, which are
doubles (`WholeAssumption`): that seconds are fractions, and that the program's additions of them round,
is left out. A gauge is a double that depends on the clock (`Load`): any sequence of doubles, one per tick.

| Action | Code |
|---|---|
| `Construct`, `Push`, `Pop`, `Destroy` | constructor; `push_back`, `emplace_back`; `pop_front`, `release_front`; implicit destructor |
| `MoveConstruct`, `MoveAssign` | defaulted moves: the list moves, the metric pointers are copied |
| `Reset`, `MoveTimer`, `DestroyTimer` | `Timer::reset`, moves, destructor; a ScopeTimer that ends observes |
| `Tick` | time, and with it a gauge of the registry |

### ServerContext
`TLS.cc` and the constructors in `ConnServer.cc` and `ConnClient.cc`. A memory has OpenSSL's count for
each object and, for each holder (the locals, the constructed object, the context, the EVP_PKEY, each
session), what it will release. `pc` walks through the calls; at each one whose result the code looks
at, `Throws` unwinds. An `SSL_CTX` that dies releases its certificate, key and chain. The RSA key and
the EVP_PKEY that wraps it in the context are one object. `certified` says what the first certificate is
for: the private key given, another RSA key, or a key of another type, which the context keeps in a
place of its own and compares with nothing (`Mismatch`). Allocations whose result the code does not
look at succeed.

### TestServer
`VDMSServer.cc`, `AuthEnabledVDMSServer.cc` (`auth`), `Barrier.cc`. Owner, thread and client
interleave; `Negotiate` is Handshake in one step, what `Receive` throws is what the two `read`
functions throw. A configuration of the kind `any` stands for other programs: it makes, uses and
drops a ConnServer or ConnClient and its sessions in any order. `rude` remembers that the client sent
something malformed, was silent when it owed the hello or the TLS handshake, reset the connection, or closed it before it
had its answers. Any exception that leaves the thread ends the process (`Terminates`).

## 4. Runs

| Run | Instance | Shows |
|---|---|---|
| `connection_safety` | 12 pairs of programs, frames of 2 to 5 bytes (`HeaderLen` 2), 3 bytes in flight, 2 faults | `DeliveredIntact`, `InStep`, refinement of MessageChannel (`ChannelSpec`), for owners that drop the object |
| `connection_live` | 5 matching pairs, 1 fault, deadlock checked | without a fault everything arrives and both end; with one the other side is let go (`AllDelivered`, `PeerGoneUnblocks`) |
| `connection_reuse` | as the first, owners go on after any exception | any bytes may be read as a size, and the limit still bounds the buffer (`BufferWithinLimit`) |
| `handshake` | 2 clients with 2 calls each, 1 or 2 handlers, backlog of 1, 6 configurations, 2 faults | `NoDowngrade`, `SocketsOwned`, `RefusedWithReason`; `ConnectReturns` although clients have no timeout |
| `bio_settles` | 3 threads with 2 calls each | `SettledComplete`, `SettledForGood`, `OneMethodEach` |
| `bio_race` | 2 threads with 1 call | violation of `ReturnedReadsAndWrites`, see section 6 |
| `token_renewal` | 2 queries, 5 ticks, lifetimes missing / over on arrival / short, 1 fault, both kinds of owner | `AnswersTheQuery`, `CarriesLatestToken`, `UsedInTime`, `NoRenewalLoop`, `OnlyNewerTokens` |
| `token_catch` | as above, smaller | violation of `CatchNeverHit` |
| `collector` | 4 scrapes, 3 faults, 2 signals | `ConnectedAgrees`, `OwnAnswer`, `RecoversAtOnce`, `StagesReported`, `Stops` |
| `metrics` | 2 queues, 2 timers, a histogram and a summary, a gauge with another value each tick, 4 ticks, 3 starts, 1 digit, doubles of 4 bits | `ObservedOnce`, `TimeConserved`, `ScrapedIsCollected`, `RewrittenAlike`, `ReadsWhatIsWritten`, `ScrapedOnlyGrows` |
| `test_server` | 118 configurations: plain and TLS, generated, given, mismatching, garbage and chained certificates, and such for another type of key; 3 requests outstanding, 2 sessions | `CountedOnce`, `ReadyHasItsPair`, `OnlyRudeClientsKill`, `DialsAListener`, `DestructorReturns` |
| `token_size` | sizes around a modulus of 4 | violation of `NothingTruncated` |

Bounds, and why they suffice: `HeaderLen` 2 is the least at which a header can be cut; `Capacity` 3
is less than most frames, so writers block in header and body; sizes 0, 1, 2, 3 with limits 1 to 3
hit each side of each check. Two faults cover a failure and a failure in its aftermath. In Handshake
two calls per client are a failure and its retry or a success and the cached connection; a backlog of
1 fills at once. In BioInit three threads are the least at which a third can arrive between the two
that race. In TokenClient two queries and five ticks let both tokens expire between and during
queries; a run is a constructor and two queries, each with two renewals, hence five grants. Four
scrapes are enough for success, failure, failure, recovery. In TimedQueue two variables of each kind
are what a move needs, three starts fill one queue, move it and assign over it; sums reach 12, so that
one digit rounds up, down and at a tie. The doubles have 4 significant bits and 12 exponents:
they are as dense as numbers of one digit, neither all of which are doubles nor the reverse, and the
largest, the smallest normal and a subnormal one, which the gauge is at first, are rounded to where
`std::stod` throws; the answers of the last two ticks, with the largest sums, are read. In TestServer
the client asks without end, three requests may be outstanding; two sessions let one go before and one after the context's owner; two further
certificates are the first chain in which `reset` frees one that was added. The counts of a run's steps stop by guards
(`MaxCalls`, `MaxQueries`, `MaxTime`, `MaxScrapes`, ...), which is why most runs do not check
deadlock; `connection_live` does.

## 5. Fairness

* Connection: `WF(OwnerStep(s))`: a thread in a call is scheduled, and the kernel moves a byte if it
  can. No fairness for faults.
* Handshake: weak fairness for each client and handler thread, as far as the library drives it:
  receive timeouts expire, which `ConnServer` sets. No owner has to let go of a connection (the
  ambassador keeps its own for ever), none has to leave it idle until a plain connection times out, and
  a served TLS connection does not end by a timeout at all, since `TLSConnection::read` starts over.
  `ConnectReturns` says what that comes to: a call waits for ever only if the server's host stays
  silent for ever, which a client without a timeout never notices, or every handler stays for ever with
  a client that keeps its connection or vanished without closing it. Without either exception TLC finds
  the property violated.
* TestServer: weak fairness of construction, of the thread (receive timeouts included), of the wait at
  the barrier and of the join. Nothing is assumed of the client: it may stay silent or ask for ever.
* Collector: weak fairness of main's loop, which wakes every second, and of the worker where it can
  go on. Nothing is assumed of the server; `Stops` therefore excludes one that is silent for ever.

## 6. Where code and text disagree

* `bio_race`: a TLS socket may be made with a BIO method another thread is still filling in
  (`comm/OpenSSLBio.cc:68`), while the tests run a TLS server and a TLS client in one process and
  expect messages to arrive. The second thread saw the flag unset and stores the pointer to its own,
  blank method; the first goes on with that one and returns it, with only the fields it set since.
  In the shortest traces the method lacks its read at least. It needs two first uses at once;
  `bio_settles` shows that what remains is sound.
* `token_catch`: the catch in `VDMSClient::query` that "should never be hit" is hit when a renewal is
  refused.
* `token_size`: the size check sees the query's size modulo 2^32.

Remarks without a run: `VDMSClient.h:88` says the ConnClient constructor connects, `ConnClient.cc:50`
does not. The exposer gathers the registry before the ClientCollector (`PromServer.cc:62`), so that a
scrape reports `prometheus_connected` as of the scrape before. The help text of the query summary
says microseconds, `Timer` reports seconds. A silent server holds up the ambassador's shutdown.
`~VDMSServer` waits for ever if nobody connected or a TLS client is silent (`VDMSServer.cc:47`).
A client that connects and says nothing for ten minutes ends the process of a test server.
A certificate for another type of key than the RSA key that `set_tls_private_key` reads is accepted
without complaint (`TLS.cc:196`, `:238`): OpenSSL compares within a key type only, the server listens,
and its TLS handshakes fail. Two programs that both send first wait for each other for ever if what
they send does not fit the kernels' buffers (`Connection.cc:67`); `connection_live` has none such.
`JsonWriter` keeps `max_digits10 - 1`, that is 16, significant digits, where a double may need 17:
what is read is not always the double that was written, but integers up to 2^53 are. Nor is it always
written again alike: the double 100000000000000008388608 is written `1e+23`, which is read as
99999999999999991611392 and written `9.999999999999999e+22`; `RewrittenAlike` leaves such decimals out
(`Recalls`). `std::stod` (`JsonReader.h:27`) throws for most subnormal numbers, for the smallest normal
one, written `2.225073858507201e-308`, and for the largest, written `1.797693134862316e+308`: the whole
scrape fails.
`set_tls_private_key` leaves a reference of the RSA key behind when it succeeds (`TLS.cc:238`).
`set_tls_certificate` frees the certificates of a chain it has given to the context (`TLS.cc:219`),
which the context and its sessions then use and free again; `CountedOnce` names both exceptions.

## 7. Proofs

Every theorem holds for all values of the constants under the named assumptions of the module it is
about. The invariants that the runs check are seldom inductive: each module of proofs defines a
stronger one (`IInv`, `TypeInv`, `TestInv`), which TLC checked on the run's instance first, and shows
that `Init` implies it, that each action keeps it, one step per action, and that it implies the
properties.

**Connection** (`ConnectionProofs`; `ConnectionAssumption`: sizes are naturals,
`MIN <= DEFAULT <= MAX <= SizeMax`, header and capacity at least 1).

* `TypeCorrect`: `Spec => []TypeOK`. `TypeOK` is not inductive: a decoded size is only typed because
  every byte in a stream belongs to a frame that was begun, and a returned payload because a receiver
  consumed the bytes it counts. `Grounded` adds this, with the facts that a side in a call has a call
  to finish; `TypeInv == TypeOK /\ Grounded` is inductive.
* `BufferBounded`: `Spec => []BufferWithinLimit`, with no assumption on `KeepAfter`.
* `StaysInStep`, `DeliveryCorrect`, `ImplementsChannel`, assuming `KeepAfter \subseteq {"SendRefused"}`:
  the invariant `InStep`, then `DeliveredIntact`, then the refinement of MessageChannel. `InStep` says
  that each stream is whole frames in order with at most the last one cut (`Framed`), that an open
  sender is about to write the byte that follows (`SendSync`), and that an open receiver has consumed
  whole frames, one per returned message, plus the `pos` bytes of the next (`RecvSync`). `Follow`
  names the byte after a prefix and is kept by every step because streams only grow, or, on a reset,
  lose a tail nobody has read. `DeliveredIntact` alone is not inductive: it says nothing of the
  message being read. The assumption is needed: TLC finds `DeliveredIntact` violated as soon as an
  owner goes on after a failed send or a refused receive.

**BioInit** (`BioInitProofs`; finitely many threads). `OneMethodPerThread`, `LastMethodComplete` and
the action property `LastMethodStays`. A *maker* is a thread that made a method. `OncePerMaker`:
there are at most as many methods as makers, a maker that is through has set the flag, hence makes
no second one. `LastIsFilled`: the method in the global is being filled, field by field, by one
maker that loads no other pointer; this is what the argument a thread loaded before another one's
method replaced its own does not tell, and why the last method is complete although an earlier one
may stay half filled.

**TokenClient** (`TokenClientProofs`; `TokenAssumption`: bounds and delays are naturals, a
lifetime is a natural or missing). `ClientTypes`, `OwnAnswerOnly`, `LatestTokenOnly`, `TokensUsedInTime`, `NoRenewalTwice`,
`NeverAnOlderToken` (an action property). `OneMessage`: an owner that drops the client after an
exception has one message under way at most, the request it waits for or its answer; from this
follows that the answer matches, and that the token is the latest except while a newer one is on its
way (`Latest`). `TokensInOrder` holds of every owner: answers bring tokens in the order of their
grants, all newer than the client's. `SpentSoFar` lists the renewals a call may have made by where it
is. `Delays` follows the time of a token through grant, arrival, check and request, a bound for
each (`AsGranted`, `SoonTaken`, `CheckedBefore`, `SentInTime`, `OnTime`), and `UsedInTime` is their sum.

**Collector** (`CollectorProofs`; the bounds are naturals). `CollectorTypes`, `GaugeAgrees`,
`AnswersOwnQuery`, `RecoversAfterOne`, `StagesCounted`. The properties speak of the time between
collections or of their log; `Agreement`, `OneQuery`, `Recovery` and `StageCounts` say what holds in
the middle of one: a client with at most the query of this collection outstanding, connected to the
running server as long as the collection began without a client and nothing went wrong, and counters
that are the cardinalities of four sets of positions in the log plus what this collection has left
behind. `CountsGrow` relates these sets before and after an entry is added.

**Handshake** (`HandshakeProofs`; `HandshakeAssumption`). `HandshakeTypes`, `AgreedModeOnly`,
`NoGroundlessRefusal`, `OneOwnerEach`. What is on a wire depends on the configuration (`FromClient`,
`ForClient`), so that both ends settle on the protocol `Agreed` computes (`Settling`), although each
decides on its own and at another time. `ClientEnds` and `ServerEnds` say who has the open ends: the
connection that is cached or under way at the client's; one handler or one place in the backlog at the
server's, never two, and only of connections that were dialled, which is what keeps a new connection
apart from all of these.

**ServerContext** (`ServerContextProofs`; `ContextAssumption`, `SessionAssumption`).
`EveryReferenceCounted` and `ConstructedHasItsPair`. The first part of the module is about memories:
`Take` and `Drop` keep them `Sound`, that is, counts are numbers of holders (plus the reference of
the key that is left behind), holders form no circle, and a context or EVP_PKEY that holds something
is held itself; without this, what dies with the last reference could not be computed. `Place` says
what the locals and the owner have at each point of the constructors, so that unwinding releases all
of it; `Order` which texts are loaded and which are to come, `Fits` that the context has what was
loaded. A key that does not fit is refused only if the certificate came before it, hence the part of
`Order` on the order of the two.

**TestServer** (`TestServerProofs`; `TestAssumption`). `ThreadsUseContext`: `TestSpec => ContextSpec`,
each step of the threads is one of ServerContext or leaves its variables alone. So the theorems above
hold of every interleaving (`TestServerCounts`, `TestServerHasItsPair`), and its invariant may be assumed
for the rest. `TestServerTypes`, `PoliteClientsAreSafe`, `ListensWhenDialled`: `Threads` and `Barred`
tie the places of owner and thread to the state of the server they share and to the count of the
barrier; `Talk` says what a client that is not rude can have sent by where the thread is, so that
every exception that leaves the thread can be charged to a rude one.

**TimedQueue and MetricsJson** (`TimedQueueProofs`; `MetricAssumption`, `DigitsAssumption`,
`SpecialAssumption`, `DoubleAssumption`, `WholeAssumption`). Any finite sets of queues, timers and
metrics, any boundaries, any digits, any doubles that grow with their bit patterns.

* Sums. The library's induction theorems take a predicate and cannot be used; but `WFMin` with
  `NatLessThanWellFounded` gives a least member of a set of naturals, hence induction for *sets* of
  numbers and of finite sets. From it: `Total` exists and does not depend on the order in which
  the fold takes the elements, changes with one summand, adds up, and survives a bijection (a `Tail`
  or a move renames the places of timers). `Fibers` counts a finite set by the values of a function:
  what a metric gains per duration is what the timers that end contribute.
* `TypeCorrect`, `EveryTimerOnce`, `NoTimeLost`. Neither invariant is inductive by itself, because a
  place in a queue says nothing of the timers that are not there any more. With a *weight* for each
  duration, `Held(m, w)` adds up the weights of what `m` observed and of what is running for it:
  an operation that ends, moves or abandons timers keeps it for every weight, and a start or a tick
  changes it as it changes `started` or `busy`. `HeldInv` says this of the two weights that matter:
  1 per timer (`One`), which makes `ObservedOnce`, and its duration (`Time`), which makes
  `TimeConserved`. `TypeInv` adds that a destroyed queue is empty, or a move would overwrite timers.
* `ScrapesGrow`, an action property. Each step adds to `samples` and `started` (`StepObserves`), and
  `ShortenedGrows`: rounding never puts the larger of two numbers below the smaller, also where they
  have different numbers of digits and where rounding up adds a digit; nor does the rounding to a
  double (`PatternGrows`).
* `ScrapesFaithful`: writing stays within half a unit of the last digit kept (`ShortenedClose`), reading
  within half the distance of the doubles around (`ReadClose`); a double that is written exactly is read
  exactly (`PatternOfDouble`), as boundaries are, which have at most `Digits` digits (`WholeExact`).
  Labels come back in another order but with their names and values, and from there metric by metric,
  family by family.
* `RewritesAlike`: rounding to digits is idempotent (`ShortenedTwice`), and of the decimals with `Digits`
  digits a double less than half a unit away has no other next to it (`WrittenAgain`), also at a power
  of ten, below which the unit is smaller.
* `ReadsWhole`: the members each type of metric is written with are those it is read with, and of all
  the numbers in the registry only the gauge can be one for which `std::stod` throws: counts and sums are
  at most `MaxWhole` (`CountedWhole`), and such numbers are read (`WholeReadable`).

`WholeAssumption` says that the whole numbers up to `MaxWhole` are doubles, none of them near the largest
nor below the smallest normal one, and that clock and counters stay below it: 2^53 for the program. What
a counter does beyond 2^53, where adding one changes nothing, is not part of these theorems.

Only model-checked: all liveness (`AllDelivered`, `PeerGoneUnblocks`, `ConnectReturns`, `Stops`,
`DestructorReturns`), since neither fairness nor ENABLED is within the prover's reach; and the
violations of section 6, which are behaviours and not theorems.

## 8. Not modelled

* Exceptions, addresses, configuration files, `main` and `send_query`: sequential printing, parsing
  and one-shot input and output, without state to get wrong between steps. Which exception is thrown
  where is part of the modules.
* Base64: character arithmetic over a table; nothing in the modelled parts calls it.
* `ConnMetrics` callbacks and byte histograms: they only count.
* The objects left behind by `negotiate_protocol` when it moves the socket: nothing between `accept`
  and `negotiate_protocol` uses them, so a model would have to invent their user.
* `OpenSSLInitializer`: its construction may run twice, or twice at once, with no effect in OpenSSL.
* The parameter `config` that the thread of AuthEnabledVDMSServer reads after it is gone
  (`AuthEnabledVDMSServer.cc:38`): undefined, hence lifetimes of any value; TokenClient already
  allows lifetimes that are missing, over on arrival and short.
* Certificate chains after `NextInChain` freed one: what OpenSSL does with it is undefined.
