----------------------------- MODULE Handshake -----------------------------
(***************************************************************************)
(* ConnClient::connect against ConnServer::accept and negotiate_protocol:  *)
(* several clients dial one listening socket, its backlog is emptied by    *)
(* handler threads, each of which negotiates a protocol and then serves    *)
(* the connection.  Messages are whole: Connection shows that TCPConnection*)
(* delivers them so.                                                       *)
(*                                                                         *)
(* A set of protocols is a Protocol bit mask, {} is Protocol::None.  The   *)
(* TLS handshake is OpenSSL's, cut down to its three flights.              *)
(***************************************************************************)
EXTENDS Naturals, Sequences, FiniteSets

CONSTANTS Client, Handler,
          Configs,        \* configurations, with the fields assumed below
          MaxQueue,       \* MAX_CONN_QUEUE
          MaxCalls,       \* bound on the connect() calls of a client
          MaxFaults       \* bound on failures from outside

Protocols == SUBSET {"TCP", "TLS"}

\* A configuration has, for each client, the PROTOCOL_VERSION it was built with
\* and its allowed_protocols, both also for the server; the clients and handlers
\* that speak something else, the clients whose port or host name is no good,
\* those that verify the server and do not trust it; whether the server has a
\* certificate and its key; and its handler threads.
ASSUME HandshakeAssumption ==
  /\ Client \cap Handler = {}
  /\ \A x \in Configs :
       /\ x.version \in [Client -> Nat \ {0}] /\ x.serverVersion \in Nat \ {0}
       /\ x.allowed \in [Client -> Protocols] /\ x.serverAllowed \in Protocols
       /\ x.foreign \subseteq Client \cup Handler
       /\ x.badAddress \subseteq Client /\ x.distrustful \subseteq Client
       /\ x.certificate \in BOOLEAN
       /\ x.handlers \subseteq Handler /\ x.handlers # {}
  /\ MaxQueue \in Nat \ {0} /\ MaxCalls \in Nat /\ MaxFaults \in Nat

VARIABLES config,     \* the configuration of this run
          cpc,        \* where a client is in connect(); "idle" outside it
          calls,      \* connect() calls a client made, the current included
          conn,       \* ConnClient::_connection
          outcome,    \* how the last connect() of a client ended
          wire,       \* the socket pair of each dialled connection
          backlog,    \* connections established, not yet accepted
          host,       \* the server's: the listening socket is open or closed, or
                      \* nothing more is heard of the host
          spc,        \* where a handler is
          serving,    \* the connection a handler holds
          mode,       \* the protocol a handler negotiated for it
          faults

vars == <<config, cpc, calls, conn, outcome, wire, backlog, host, spc,
          serving, mode, faults>>

clientVars == <<cpc, calls, conn, outcome>>
serverVars == <<backlog, host, spc, serving, mode>>

\* A dialled connection: the client and which of its calls dialled it.
Id == Client \X (1..MaxCalls)

Hello(v, p) == [type |-> "hello", version |-> v, protocol |-> p]
Tls(flight) == [type |-> flight]
Junk == [type |-> "junk"]

None == [id |-> <<>>, mode |-> "none"]

Init ==
  /\ config \in Configs
  /\ cpc = [c \in Client |-> "idle"]
  /\ calls = [c \in Client |-> 0]
  /\ conn = [c \in Client |-> None]
  /\ outcome = [c \in Client |-> "none"]
  /\ wire = [i \in Id |-> [up |-> <<>>, down |-> <<>>, client |-> FALSE,
                           server |-> FALSE]]
  /\ backlog = <<>>
  /\ host = "listening"
  /\ spc = [h \in Handler |-> "accept"]
  /\ serving = [h \in Handler |-> <<>>]
  /\ mode = [h \in Handler |-> "none"]
  /\ faults = 0

Fault == faults < MaxFaults /\ faults' = faults + 1

\* Mutant: the two tests on the mask in the other order.
TcpFirst(p) == IF "TCP" \in p THEN "tcp" ELSE IF "TLS" \in p THEN "tls" ELSE "none"

\* What both ends make of the protocols in the server's answer: TLS first.
Choose(p) == IF "TLS" \in p THEN "tls" ELSE IF "TCP" \in p THEN "tcp" ELSE "none"

\* The mode an answer settles; version 0 is the answer to another version.
Settled(m) ==
  IF m.type = "hello" /\ m.version # 0 THEN Choose(m.protocol) ELSE "none"
-----------------------------------------------------------------------------
(* ConnClient::connect *)

This(c) == <<c, calls[c]>>

\* connect() throws e, and the socket goes with the objects that held it.
Fails(c, e) ==
  /\ cpc' = [cpc EXCEPT ![c] = "idle"]
  /\ outcome' = [outcome EXCEPT ![c] = e]
  /\ UNCHANGED <<calls, conn>>

\* Mutant: the descriptor is not closed.
Leaks(i) == UNCHANGED wire

Hangs(i) == wire' = [wire EXCEPT ![i].client = FALSE]

Succeeds(c, m) ==
  /\ cpc' = [cpc EXCEPT ![c] = "idle"]
  /\ conn' = [conn EXCEPT ![c] = [id |-> This(c), mode |-> m]]
  /\ outcome' = [outcome EXCEPT ![c] = "connected"]
  /\ UNCHANGED calls

\* connect() returns the cached connection, if there is one, dead or alive.
Connect(c) ==
  /\ cpc[c] = "idle"
  /\ calls[c] < MaxCalls
  /\ calls' = [calls EXCEPT ![c] = @ + 1]
  /\ \/ /\ conn[c] # None
        /\ outcome' = [outcome EXCEPT ![c] = "connected"]
        /\ UNCHANGED cpc
     \/ /\ conn[c] = None
        /\ c \in config.badAddress
        /\ outcome' = [outcome EXCEPT ![c] = "AddressError"]
        /\ UNCHANGED cpc
     \/ /\ conn[c] = None
        /\ c \notin config.badAddress
        /\ cpc' = [cpc EXCEPT ![c] = "dial"]
        /\ UNCHANGED outcome
  /\ UNCHANGED <<conn, wire, serverVars, faults>>

\* The kernels establish the connection, and the hello follows.
Dial(c) ==
  /\ cpc[c] = "dial"
  /\ host = "listening"
  /\ Len(backlog) < MaxQueue
  /\ wire' = [wire EXCEPT ![This(c)] =
                [up |-> <<IF c \in config.foreign THEN Junk
                          ELSE Hello(config.version[c], config.allowed[c])>>,
                 down |-> <<>>, client |-> TRUE, server |-> TRUE]]
  /\ backlog' = Append(backlog, This(c))
  /\ cpc' = [cpc EXCEPT ![c] = "wait"]
  /\ UNCHANGED <<calls, conn, outcome, host, spc, serving, mode, faults>>

\* Nobody listens or answers, the backlog stays full too long, or socket()
\* fails.
DialFails(c) ==
  /\ cpc[c] = "dial"
  /\ \/ host # "listening" /\ UNCHANGED faults
     \/ Fault
  /\ Fails(c, "ConnectionError")
  /\ UNCHANGED <<wire, serverVars>>

\* The server's answer to the hello.
Answer(c) ==
  /\ cpc[c] = "wait"
  /\ wire[This(c)].down # <<>>
  /\ LET i == This(c)
         m == Head(wire[i].down)
         rest == [wire EXCEPT ![i].down = Tail(@)]
     IN
     \/ /\ m.type # "hello"
        /\ Fails(c, "InvalidMessageSize")
        /\ wire' = [rest EXCEPT ![i].client = FALSE]
     \/ /\ m.type = "hello"
        /\ Settled(m) = "none"
        /\ Fails(c, "ProtocolError")
        /\ wire' = [rest EXCEPT ![i].client = FALSE]
     \/ /\ Settled(m) = "tls"
        /\ cpc' = [cpc EXCEPT ![c] = "tls"]
        /\ wire' = [rest EXCEPT ![i].up = Append(@, Tls("ClientHello"))]
        /\ UNCHANGED <<calls, conn, outcome>>
     \/ /\ Settled(m) = "tcp"
        /\ Succeeds(c, "tcp")
        /\ wire' = rest
  /\ UNCHANGED <<serverVars, faults>>

\* SSL_connect reads the server's flight and sends the last one, or gives up.
ClientTls(c) ==
  /\ cpc[c] = "tls"
  /\ wire[This(c)].down # <<>>
  /\ LET i == This(c)
         m == Head(wire[i].down)
         rest == [wire EXCEPT ![i].down = Tail(@)]
     IN
     \/ /\ m.type = "ServerHello"
        /\ c \notin config.distrustful
        /\ Succeeds(c, "tls")
        /\ wire' = [rest EXCEPT ![i].up = Append(@, Tls("Finished"))]
     \/ /\ m.type = "ServerHello"
        /\ c \in config.distrustful
        /\ Fails(c, "TLSError")
        /\ wire' = [rest EXCEPT ![i].up = Append(@, Tls("Alert")),
                                ![i].client = FALSE]
     \/ /\ m.type # "ServerHello"
        /\ Fails(c, "TLSError")
        /\ wire' = [rest EXCEPT ![i].client = FALSE]
  /\ UNCHANGED <<serverVars, faults>>

\* The server closes before it answers.  A client has no receive timeout.
ServerGone(c) ==
  /\ cpc[c] \in {"wait", "tls"}
  /\ wire[This(c)].down = <<>>
  /\ ~wire[This(c)].server
  /\ Fails(c, IF cpc[c] = "tls" THEN "TLSError" ELSE "ConnectionShutDown")
  /\ Hangs(This(c))
  /\ UNCHANGED <<serverVars, faults>>

\* The owner lets go of the ConnClient and of the connection.
Leave(c) ==
  /\ cpc[c] = "idle"
  /\ calls[c] > 0
  /\ cpc' = [cpc EXCEPT ![c] = "left"]
  /\ conn' = [conn EXCEPT ![c] = None]
  /\ IF conn[c] = None THEN UNCHANGED wire ELSE Hangs(conn[c].id)
  /\ UNCHANGED <<calls, outcome, serverVars, faults>>

\* The client's process dies: its kernel closes the socket, if it has one.
ClientDies(c) ==
  /\ cpc[c] # "left"
  /\ Fault
  /\ cpc' = [cpc EXCEPT ![c] = "left"]
  /\ conn' = [conn EXCEPT ![c] = None]
  /\ wire' = [i \in Id |-> IF i[1] = c THEN [wire[i] EXCEPT !.client = FALSE]
                                       ELSE wire[i]]
  /\ UNCHANGED <<calls, outcome, serverVars>>

\* The client's host vanishes from the network: nothing is closed, nothing
\* more is heard of it.
ClientVanishes(c) ==
  /\ cpc[c] # "left"
  /\ Fault
  /\ cpc' = [cpc EXCEPT ![c] = "left"]
  /\ UNCHANGED <<calls, conn, outcome, wire, serverVars>>
-----------------------------------------------------------------------------
(* ConnServer::accept and negotiate_protocol *)

\* accept(); the accepted socket inherits the receive timeout.  When accept()
\* itself times out it is called again, when it fails the handler is back here.
Accept(h) ==
  /\ h \in config.handlers
  /\ spc[h] = "accept"
  /\ host = "listening"
  /\ backlog # <<>>
  /\ serving' = [serving EXCEPT ![h] = Head(backlog)]
  /\ backlog' = Tail(backlog)
  /\ spc' = [spc EXCEPT ![h] = "hello"]
  /\ UNCHANGED <<clientVars, wire, host, mode, faults>>

\* What is left of wire w when the server closes its end of i: closing with
\* unread bytes resets the connection, and answers on their way may be lost.
Closed(w, i) ==
  {[w EXCEPT ![i].server = FALSE]}
    \cup (IF w[i].up = <<>> THEN {}
          ELSE {[w EXCEPT ![i].server = FALSE, ![i].down = <<>>]})

\* Mutant: the handler goes on holding what it dropped.
KeepsHandle(h, w) ==
  /\ spc' = [spc EXCEPT ![h] = "accept"]
  /\ mode' = [mode EXCEPT ![h] = "none"]
  /\ wire' \in Closed(w, serving[h])
  /\ UNCHANGED serving

\* negotiate_protocol throws or the owner is done: the handler lets go of the
\* connection and accepts the next one.
Drops(h, w) ==
  /\ spc' = [spc EXCEPT ![h] = "accept"]
  /\ serving' = [serving EXCEPT ![h] = <<>>]
  /\ mode' = [mode EXCEPT ![h] = "none"]
  /\ wire' \in Closed(w, serving[h])

\* Mutant: the masks are compared instead of intersected.
ReplyIfEqual(h, m) ==
  IF h \in config.foreign THEN Junk
  ELSE IF m.version # config.serverVersion THEN Hello(0, {})
  ELSE Hello(config.serverVersion, IF m.protocol = config.serverAllowed THEN m.protocol ELSE {})

\* The answer to a client's hello.
Reply(h, m) ==
  IF h \in config.foreign THEN Junk
  ELSE IF m.version # config.serverVersion THEN Hello(0, {})
  ELSE Hello(config.serverVersion, m.protocol \cap config.serverAllowed)

Negotiate(h) ==
  /\ host # "silent"
  /\ spc[h] = "hello"
  /\ wire[serving[h]].up # <<>>
  /\ LET i == serving[h]
         m == Head(wire[i].up)
         read == [wire EXCEPT ![i].up = Tail(@)]
         r == Reply(h, m)
         sent == [read EXCEPT ![i].down = Append(@, r)]
     IN
     \/ /\ m.type # "hello"                          \* ProtocolError
        /\ Drops(h, read)
     \/ /\ m.type = "hello"                          \* WriteFail
        /\ ~wire[i].client
        /\ Drops(h, read)
     \/ /\ m.type = "hello"                          \* ProtocolError
        /\ Settled(r) = "none"
        /\ Drops(h, sent)
     \/ /\ m.type = "hello"
        /\ Settled(r) # "none"
        /\ mode' = [mode EXCEPT ![h] = Settled(r)]
        /\ spc' = [spc EXCEPT ![h] = IF mode'[h] = "tls" THEN "tls" ELSE "serve"]
        /\ wire' = sent
        /\ UNCHANGED serving
  /\ UNCHANGED <<clientVars, backlog, host, faults>>

\* SSL_accept reads a flight of the client.
ServerTls(h) ==
  /\ host # "silent"
  /\ spc[h] = "tls"
  /\ wire[serving[h]].up # <<>>
  /\ LET i == serving[h]
         m == Head(wire[i].up)
         read == [wire EXCEPT ![i].up = Tail(@)]
     IN
     \/ /\ m.type = "ClientHello"
        /\ config.certificate
        /\ wire' = [read EXCEPT ![i].down = Append(@, Tls("ServerHello"))]
        /\ UNCHANGED <<spc, serving, mode>>
     \/ /\ m.type = "ClientHello"
        /\ ~config.certificate
        /\ Drops(h, [read EXCEPT ![i].down = Append(@, Tls("Alert"))])
     \/ /\ m.type = "Finished"
        /\ spc' = [spc EXCEPT ![h] = "serve"]
        /\ wire' = read
        /\ UNCHANGED <<serving, mode>>
     \/ /\ m.type \notin {"ClientHello", "Finished"}
        /\ Drops(h, read)
  /\ UNCHANGED <<clientVars, backlog, host, faults>>

\* Mutant: the accepted socket has no receive timeout.
NoTimeout(h) ==
  /\ host # "silent"
  /\ spc[h] \in {"hello", "tls", "serve"}
  /\ wire[serving[h]].up = <<>>
  /\ ~wire[serving[h]].client
  /\ Drops(h, wire)
  /\ UNCHANGED <<clientVars, backlog, host, faults>>

\* The handler reads and nothing comes: the client closed, or the receive
\* timeout expires.  Only TLSConnection::read ignores the timeout and goes
\* back to reading.
NothingComes(h) ==
  /\ host # "silent"
  /\ spc[h] \in {"hello", "tls", "serve"}
  /\ wire[serving[h]].up = <<>>
  /\ ~wire[serving[h]].client \/ ~(spc[h] = "serve" /\ mode[h] = "tls")
  /\ Drops(h, wire)
  /\ UNCHANGED <<clientVars, backlog, host, faults>>

\* The owner of the connection is done with it.
HangUp(h) ==
  /\ host # "silent"
  /\ spc[h] = "serve"
  /\ Drops(h, wire)
  /\ UNCHANGED <<clientVars, backlog, host, faults>>

\* The ConnServer is destroyed: the backlog is reset.
Stop ==
  /\ host = "listening"
  /\ Fault
  /\ host' = "stopped"
  /\ backlog' = <<>>
  /\ wire' = [i \in Id |->
                IF \E n \in 1..Len(backlog) : backlog[n] = i
                  THEN [wire[i] EXCEPT !.server = FALSE] ELSE wire[i]]
  /\ UNCHANGED <<clientVars, spc, serving, mode>>

\* The server's host vanishes from the network: nothing is closed.
HostFallsSilent ==
  /\ host # "silent"
  /\ Fault
  /\ host' = "silent"
  /\ UNCHANGED <<clientVars, wire, backlog, spc, serving, mode>>

\* connect() as its thread runs it.
ClientWorks(c) ==
  \/ Connect(c) \/ Dial(c) \/ DialFails(c) \/ Answer(c) \/ ClientTls(c)
  \/ ServerGone(c)

ClientStep(c) == ClientWorks(c) \/ Leave(c)

\* A handler serves a client that is there: for as long as that client cares to
\* keep the connection, if it asks now and then or the connection is TLS.
Serves(h) ==
  /\ spc[h] = "serve"
  /\ wire[serving[h]].client
  /\ cpc[serving[h][1]] # "left"

\* What a handler does whatever its clients do.
ServerWorks(h) ==
  Accept(h) \/ Negotiate(h) \/ ServerTls(h) \/ (NothingComes(h) /\ ~Serves(h))

ServerStep(h) ==
  Accept(h) \/ Negotiate(h) \/ ServerTls(h) \/ NothingComes(h)

Next ==
  /\ UNCHANGED config
  /\ \/ \E c \in Client : ClientStep(c) \/ ClientDies(c) \/ ClientVanishes(c)
     \/ \E h \in Handler : ServerStep(h) \/ HangUp(h)
     \/ Stop \/ HostFallsSilent

Spec == Init /\ [][Next]_vars

\* Threads run and receive timeouts expire.  No owner has to let go of its
\* connection, and none has to leave it idle until it times out.
FairSpec ==
  /\ Spec
  /\ \A c \in Client : WF_vars(UNCHANGED config /\ ClientWorks(c))
  /\ \A h \in Handler : WF_vars(UNCHANGED config /\ ServerWorks(h))
-----------------------------------------------------------------------------
(* What the handshake promises. *)

TypeOK ==
  /\ config \in Configs
  /\ cpc \in [Client -> {"idle", "dial", "wait", "tls", "left"}]
  /\ calls \in [Client -> 0..MaxCalls]
  /\ \A c \in Client : conn[c] = None \/ conn[c] \in [id : Id, mode : {"tcp", "tls"}]
  /\ outcome \in [Client -> {"none", "connected", "AddressError", "ConnectionError",
                             "ConnectionShutDown", "InvalidMessageSize",
                             "ProtocolError", "TLSError"}]
  /\ \A i \in Id : wire[i].client \in BOOLEAN /\ wire[i].server \in BOOLEAN
  /\ backlog \in Seq(Id) /\ Len(backlog) <= MaxQueue
  /\ host \in {"listening", "stopped", "silent"}
  /\ spc \in [Handler -> {"accept", "hello", "tls", "serve"}]
  /\ \A h \in Handler : serving[h] \in IF spc[h] = "accept" THEN {<<>>} ELSE Id
  /\ mode \in [Handler -> {"none", "tcp", "tls"}]
  /\ faults \in 0..MaxFaults

\* The mode two ends of a connection must agree on.
Agreed(c) ==
  LET both == config.allowed[c] \cap config.serverAllowed
  IN  CASE "TLS" \in both -> "tls" [] both = {"TCP"} -> "tcp" [] OTHER -> "none"

\* Both ends of a negotiated connection use the same mode, it is one both
\* allow, and it is TLS whenever both allow TLS: neither a failed TLS handshake
\* nor an earlier attempt makes either end fall back to plain TCP.
NoDowngrade ==
  /\ \A c \in Client : conn[c] # None => conn[c].mode = Agreed(c)
  /\ \A h \in Handler : spc[h] = "serve" => mode[h] = Agreed(serving[h][1])
  /\ \A c \in Client, h \in Handler :
       conn[c] # None /\ serving[h] = conn[c].id /\ spc[h] \in {"tls", "serve"}
         => mode[h] = conn[c].mode

\* No failed or abandoned connect() keeps a socket: the client's ends that are
\* open are those of the call in progress, of the cached connection, and of a
\* vanished host; the server's are in the backlog or in one handler each.
SocketsOwned ==
  /\ \A i \in Id : wire[i].client =>
       \/ conn[i[1]].id = i
       \/ cpc[i[1]] \in {"wait", "tls", "left"} /\ i = This(i[1])
  /\ \A i \in Id : wire[i].server =>
       Cardinality({h \in Handler : serving[h] = i})
         + Cardinality({n \in 1..Len(backlog) : backlog[n] = i}) = 1

\* connect() throws ProtocolError only when the versions differ or when no
\* protocol is allowed by both.
RefusedWithReason ==
  \A c \in Client : outcome[c] = "ProtocolError" =>
    \/ config.version[c] # config.serverVersion
    \/ Agreed(c) = "none"

\* The handler has a client that keeps it: one that is there, or a TLS client
\* whose host is gone, which TLSConnection::read waits for through every timeout.
Pinned(h) ==
  Serves(h) \/ /\ spc[h] = "serve" /\ mode[h] = "tls"
               /\ wire[serving[h]].client

\* A call of connect() returns or throws, although a client sets no receive
\* timeout: a handler always comes back for the next connection in the backlog,
\* because what does not say hello, breaks off the TLS handshake, closes or
\* vanishes ends there.  The exceptions are for ever: the server's host has
\* fallen silent, or every handler is kept by a client that never lets go of
\* its connection or that vanished without closing it.
ConnectReturns ==
  \A c \in Client :
    \/ cpc[c] \in {"dial", "wait", "tls"} ~> cpc[c] \in {"idle", "left"}
    \/ <>[](host = "silent")
    \/ <>[](\A h \in config.handlers : Pinned(h))
=============================================================================
