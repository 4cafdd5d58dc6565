-------------------------- MODULE HandshakeProofs --------------------------
(* What is proved of Handshake for all clients, handlers and configurations. *)
EXTENDS Handshake, FiniteSetTheorems, TLAPS

-----------------------------------------------------------------------------
(* The inductive invariant *)

Both(c) == config.allowed[c] \cap config.serverAllowed

Flights == {Junk} \cup {Tls(f) : f \in {"ClientHello", "ServerHello", "Finished", "Alert"}}

\* What client c may have sent: the hello it was configured for, or what is none.
FromClient(c) == Flights \cup {Hello(config.version[c], config.allowed[c])}

\* What it may have been sent: the two versions differ, or this is what both allow.
ForClient(c) ==
  Flights \cup {Hello(config.serverVersion, Both(c))}
          \cup {m \in {Hello(0, {})} : config.version[c] # config.serverVersion}

Ends(c) == [up : Seq(FromClient(c)), down : Seq(ForClient(c)),
            client : BOOLEAN, server : BOOLEAN]

WireInv == DOMAIN wire = Id /\ \A i \in Id : wire[i] \in Ends(i[1])

Outcomes == {"none", "connected", "AddressError", "ConnectionError",
             "ConnectionShutDown", "InvalidMessageSize", "ProtocolError", "TLSError"}

Connecting(c) == cpc[c] \in {"dial", "wait", "tls"}

ClientInv ==
  /\ config \in Configs
  /\ cpc \in [Client -> {"idle", "dial", "wait", "tls", "left"}]
  /\ calls \in [Client -> 0..MaxCalls]
  /\ conn \in [Client -> {None} \cup [id : Id, mode : {"tcp", "tls"}]]
  /\ outcome \in [Client -> Outcomes]
  /\ \A c \in Client : Connecting(c) => calls[c] # 0

ServerInv ==
  /\ backlog \in Seq(Id) /\ Len(backlog) <= MaxQueue
  /\ host \in {"listening", "stopped", "silent"}
  /\ spc \in [Handler -> {"accept", "hello", "tls", "serve"}]
  /\ serving \in [Handler -> {<<>>} \cup Id]
  /\ \A h \in Handler : serving[h] = <<>> <=> spc[h] = "accept"
  /\ mode \in [Handler -> {"none", "tcp", "tls"}]
  /\ faults \in 0..MaxFaults

TypeInv == ClientInv /\ ServerInv /\ WireInv

\* Both ends settle on what the configuration says, from the answer on.
Settling ==
  /\ \A c \in Client : cpc[c] = "tls" => Agreed(c) = "tls"
  /\ \A c \in Client : conn[c] # None => conn[c].id[1] = c /\ conn[c].mode = Agreed(c)
  /\ \A h \in Handler : spc[h] \in {"tls", "serve"} =>
       mode[h] = Agreed(serving[h][1]) /\ mode[h] \in {"tcp", "tls"}

\* A client has no connection while it makes one.
ClientEnds ==
  /\ \A c \in Client : Connecting(c) => conn[c] = None
  /\ \A i \in Id : wire[i].client =>
       \/ conn[i[1]].id = i
       \/ cpc[i[1]] \in {"wait", "tls", "left"} /\ i = This(i[1])

\* An open end of the server's has one owner, and so has a closed one while
\* somebody holds it.
Dialled(i) == i[2] <= calls[i[1]] /\ (cpc[i[1]] = "dial" => i[2] # calls[i[1]])

OneOwner ==
  /\ \A h, k \in Handler : serving[h] = serving[k] /\ serving[h] # <<>> => h = k
  /\ \A n, m \in 1..Len(backlog) : backlog[n] = backlog[m] => n = m
  /\ \A h \in Handler, n \in 1..Len(backlog) : serving[h] # backlog[n]

Owned ==
  \A i \in Id : wire[i].server =>
    (\E h \in Handler : serving[h] = i) \/ (\E n \in 1..Len(backlog) : backlog[n] = i)

OnceDialled ==
  /\ \A h \in Handler : serving[h] # <<>> => Dialled(serving[h])
  /\ \A n \in 1..Len(backlog) : Dialled(backlog[n])

ServerEnds == OneOwner /\ Owned /\ OnceDialled

IInv == TypeInv /\ Settling /\ RefusedWithReason /\ ClientEnds /\ ServerEnds

-----------------------------------------------------------------------------
(* What a step does, as far as the invariant is concerned *)

\* A wire like the present one but for connection i, the ends of which are these.
Like(w, i, client, server) ==
  /\ DOMAIN w = Id
  /\ w[i] \in Ends(i[1]) /\ w[i].client = client /\ w[i].server = server
  /\ \A j \in Id : j # i => w[j] = wire[j]

Changes(i, client, server) == Like(wire', i, client, server)

Keeps(i) == Changes(i, wire[i].client, wire[i].server)

\* The client settles on TLS.
Proceeds(c) ==
  /\ cpc[c] = "wait" /\ cpc' = [cpc EXCEPT ![c] = "tls"] /\ Agreed(c) = "tls"
  /\ Keeps(This(c))
  /\ UNCHANGED <<config, calls, conn, outcome, serverVars, faults>>

Connects(c) ==
  /\ cpc[c] \in {"wait", "tls"} /\ Agreed(c) \in {"tcp", "tls"} /\ Succeeds(c, Agreed(c))
  /\ Keeps(This(c))
  /\ UNCHANGED <<config, serverVars, faults>>

Reasonable(c, e) ==
  /\ e \in Outcomes
  /\ e = "ProtocolError" => config.version[c] # config.serverVersion \/ Agreed(c) = "none"

GivesUp(c) ==
  /\ cpc[c] \in {"wait", "tls"}
  /\ \E e : Fails(c, e) /\ Reasonable(c, e)
  /\ Changes(This(c), FALSE, wire[This(c)].server)
  /\ UNCHANGED <<config, serverVars, faults>>

\* A handler goes on with the mode it settled on.
Moves(h) ==
  /\ spc[h] \in {"hello", "tls"}
  /\ \E p \in {"tls", "serve"} : spc' = [spc EXCEPT ![h] = p]
  /\ mode' = [mode EXCEPT ![h] = Agreed(serving[h][1])]
  /\ Agreed(serving[h][1]) \in {"tcp", "tls"}
  /\ Keeps(serving[h])
  /\ UNCHANGED <<config, clientVars, backlog, host, serving, faults>>

LetsGo(h) ==
  /\ spc[h] # "accept"
  /\ spc' = [spc EXCEPT ![h] = "accept"]
  /\ serving' = [serving EXCEPT ![h] = <<>>]
  /\ mode' = [mode EXCEPT ![h] = "none"]
  /\ Changes(serving[h], wire[serving[h]].client, FALSE)
  /\ UNCHANGED <<config, clientVars, backlog, host, faults>>

AnyStep ==
  \/ /\ UNCHANGED config
     /\ \/ \E c \in Client : \/ Connect(c) \/ Dial(c) \/ DialFails(c) \/ Leave(c)
                            \/ ClientDies(c) \/ ClientVanishes(c)
        \/ \E h \in Handler : Accept(h)
        \/ Stop \/ HostFallsSilent
  \/ \E c \in Client : Proceeds(c) \/ Connects(c) \/ GivesUp(c)
  \/ \E h \in Handler : Moves(h) \/ LetsGo(h)
  \/ UNCHANGED vars

-----------------------------------------------------------------------------
(* Data *)

LEMMA Ids ==
  ASSUME NEW i \in Id
  PROVE  /\ i[1] \in Client /\ i[2] \in 1..MaxCalls
         /\ i = <<i[1], i[2]>> /\ i # <<>>
  BY DEF Id

LEMMA Naturals ==
  /\ MaxQueue \in Nat /\ MaxCalls \in Nat /\ MaxFaults \in Nat
  BY HandshakeAssumption

LEMMA Current ==
  ASSUME ClientInv, NEW c \in Client, Connecting(c)
  PROVE  /\ calls[c] \in 1..MaxCalls /\ This(c) \in Id
         /\ This(c)[1] = c /\ This(c)[2] = calls[c]
  <1>1. calls[c] \in 1..MaxCalls
    BY Naturals DEF ClientInv
  <1> QED
    BY <1>1 DEF This, Id

LEMMA Configured ==
  ASSUME ClientInv, NEW c \in Client
  PROVE  /\ config.version[c] \in Nat /\ config.version[c] # 0
         /\ config.serverVersion \in Nat /\ config.serverVersion # 0
         /\ Both(c) \in Protocols
  BY HandshakeAssumption DEF ClientInv, Both, Protocols

\* What the two ends agree on is what each makes of the answer.
LEMMA AgreedIsChoice ==
  ASSUME ClientInv, NEW c \in Client
  PROVE  Agreed(c) = Choose(Both(c)) /\ Choose(Both(c)) \in {"none", "tcp", "tls"}
  <1>1. Both(c) \in SUBSET {"TCP", "TLS"}
    BY Configured DEF Protocols
  <1>2. Choose(Both(c)) \in {"none", "tcp", "tls"}
    BY DEF Choose
  <1>3. CASE "TLS" \in Both(c)
    BY <1>3 DEF Agreed, Choose, Both
  <1>4. CASE "TLS" \notin Both(c) /\ "TCP" \in Both(c)
    <2>1. Both(c) = {"TCP"}
      BY <1>1, <1>4
    <2> QED
      BY <1>4, <2>1 DEF Agreed, Choose, Both
  <1>5. CASE "TLS" \notin Both(c) /\ "TCP" \notin Both(c)
    <2>1. Both(c) # {"TCP"}
      BY <1>5
    <2> QED
      BY <1>5, <2>1 DEF Agreed, Choose, Both
  <1> QED
    BY <1>2, <1>3, <1>4, <1>5

\* The two ends of a connection, and what a change of one part leaves.
LEMMA EndParts ==
  ASSUME NEW c, NEW e \in Ends(c)
  PROVE  /\ e.up \in Seq(FromClient(c)) /\ e.down \in Seq(ForClient(c))
         /\ e.client \in BOOLEAN /\ e.server \in BOOLEAN
         /\ \A x : [e EXCEPT !.up = x] = [up |-> x, down |-> e.down, client |-> e.client,
                                          server |-> e.server]
         /\ \A x : [e EXCEPT !.down = x] = [up |-> e.up, down |-> x, client |-> e.client,
                                            server |-> e.server]
         /\ \A x : [e EXCEPT !.client = x] = [up |-> e.up, down |-> e.down, client |-> x,
                                              server |-> e.server]
         /\ \A x : [e EXCEPT !.server = x] = [up |-> e.up, down |-> e.down,
                                              client |-> e.client, server |-> x]
  <1>1. e \in [up : Seq(FromClient(c)), down : Seq(ForClient(c)),
               client : BOOLEAN, server : BOOLEAN]
    BY DEF Ends
  <1> QED
    BY <1>1

\* A sequence that loses its first element or gets one more.
LEMMA TailSeq ==
  ASSUME NEW S, NEW q \in Seq(S), q # <<>>
  PROVE  Tail(q) \in Seq(S) /\ Head(q) \in S
  OBVIOUS

LEMMA AppendSeq ==
  ASSUME NEW S, NEW q \in Seq(S), NEW x \in S
  PROVE  Append(q, x) \in Seq(S)
  OBVIOUS

\* What a hello says.
LEMMA Hellos ==
  ASSUME ClientInv, NEW c \in Client
  PROVE  /\ \A m \in FromClient(c) : m.type = "hello" =>
              m = Hello(config.version[c], config.allowed[c])
         /\ \A m \in ForClient(c) : m.type = "hello" =>
              \/ m = Hello(0, {}) /\ config.version[c] # config.serverVersion
              \/ m = Hello(config.serverVersion, Both(c))
  <1>1. \A m \in Flights : m.type # "hello"
    BY DEF Flights, Junk, Tls
  <1> QED
    BY <1>1 DEF FromClient, ForClient

LEMMA Settlements ==
  ASSUME ClientInv, NEW c \in Client, NEW m \in ForClient(c)
  PROVE  /\ Settled(m) \in {"none", "tcp", "tls"}
         /\ Settled(m) # "none" => Agreed(c) = Settled(m)
         /\ m.type = "hello" /\ Settled(m) = "none" =>
              config.version[c] # config.serverVersion \/ Agreed(c) = "none"
  <1>1. CASE m.type # "hello"
    BY <1>1 DEF Settled
  <1>2. CASE m = Hello(0, {}) /\ config.version[c] # config.serverVersion
    <2>1. m.version = 0
      BY <1>2 DEF Hello
    <2> QED
      BY <1>2, <2>1 DEF Settled
  <1>3. CASE m = Hello(config.serverVersion, Both(c))
    <2>1. m.type = "hello" /\ m.version # 0 /\ m.protocol = Both(c)
      BY <1>3, Configured DEF Hello
    <2>2. Settled(m) = Agreed(c)
      BY <2>1, AgreedIsChoice DEF Settled
    <2> QED
      BY <2>1, <2>2, AgreedIsChoice
  <1> QED
    BY <1>1, <1>2, <1>3, Hellos

\* The server's answer to a hello is one of those, and settles the same mode.
LEMMA Replies ==
  ASSUME ClientInv, NEW c \in Client, NEW h,
         NEW m, m = Hello(config.version[c], config.allowed[c])
  PROVE  Reply(h, m) \in ForClient(c)
  <1>1. m.version = config.version[c] /\ m.protocol = config.allowed[c]
    BY DEF Hello
  <1>2. CASE h \in config.foreign
    BY <1>2 DEF Reply, ForClient, Flights
  <1>3. CASE h \notin config.foreign /\ config.version[c] # config.serverVersion
    BY <1>1, <1>3 DEF Reply, ForClient
  <1>4. CASE h \notin config.foreign /\ config.version[c] = config.serverVersion
    BY <1>1, <1>4 DEF Reply, ForClient, Both
  <1> QED
    BY <1>2, <1>3, <1>4

LEMMA FlightsOK ==
  ASSUME NEW c, NEW f \in {"ClientHello", "ServerHello", "Finished", "Alert"}
  PROVE  Tls(f) \in FromClient(c) /\ Tls(f) \in ForClient(c)
  BY DEF Flights, FromClient, ForClient

\* A change of one part of a connection.
LEMMA Unchanged ==
  ASSUME WireInv, NEW i \in Id
  PROVE  Like(wire, i, wire[i].client, wire[i].server)
  BY DEF WireInv, Like

LEMMA ChangeUp ==
  ASSUME NEW i \in Id, NEW w, NEW cl, NEW sv, Like(w, i, cl, sv),
         NEW u \in Seq(FromClient(i[1])), NEW v, v = [w EXCEPT ![i].up = u]
  PROVE  Like(v, i, cl, sv)
  <1>1. w[i] \in Ends(i[1]) /\ DOMAIN w = Id
    BY DEF Like
  <1>2. v[i] = [w[i] EXCEPT !.up = u] /\ DOMAIN v = Id /\ \A j \in Id : j # i => v[j] = w[j]
    BY <1>1
  <1>3. v[i] = [up |-> u, down |-> w[i].down, client |-> w[i].client, server |-> w[i].server]
    BY <1>1, <1>2, EndParts
  <1>4. v[i] \in Ends(i[1]) /\ v[i].client = w[i].client /\ v[i].server = w[i].server
    BY <1>1, <1>3, EndParts DEF Ends
  <1> QED
    BY <1>2, <1>3, <1>4 DEF Like

LEMMA ChangeDown ==
  ASSUME NEW i \in Id, NEW w, NEW cl, NEW sv, Like(w, i, cl, sv),
         NEW d \in Seq(ForClient(i[1])), NEW v, v = [w EXCEPT ![i].down = d]
  PROVE  Like(v, i, cl, sv)
  <1>1. w[i] \in Ends(i[1]) /\ DOMAIN w = Id
    BY DEF Like
  <1>2. v[i] = [w[i] EXCEPT !.down = d] /\ DOMAIN v = Id /\ \A j \in Id : j # i => v[j] = w[j]
    BY <1>1
  <1>3. v[i] = [up |-> w[i].up, down |-> d, client |-> w[i].client, server |-> w[i].server]
    BY <1>1, <1>2, EndParts
  <1>4. v[i] \in Ends(i[1]) /\ v[i].client = w[i].client /\ v[i].server = w[i].server
    BY <1>1, <1>3, EndParts DEF Ends
  <1> QED
    BY <1>2, <1>3, <1>4 DEF Like

LEMMA CloseClient ==
  ASSUME NEW i \in Id, NEW w, NEW cl, NEW sv, Like(w, i, cl, sv),
         NEW v, v = [w EXCEPT ![i].client = FALSE]
  PROVE  Like(v, i, FALSE, sv)
  <1>1. w[i] \in Ends(i[1]) /\ DOMAIN w = Id
    BY DEF Like
  <1>2. v[i] = [w[i] EXCEPT !.client = FALSE] /\ DOMAIN v = Id
        /\ \A j \in Id : j # i => v[j] = w[j]
    BY <1>1
  <1>3. v[i] = [up |-> w[i].up, down |-> w[i].down, client |-> FALSE, server |-> w[i].server]
    BY <1>1, <1>2, EndParts
  <1>4. v[i] \in Ends(i[1]) /\ v[i].client = FALSE /\ v[i].server = w[i].server
    BY <1>1, <1>3, EndParts DEF Ends
  <1> QED
    BY <1>2, <1>4 DEF Like

LEMMA CloseServer ==
  ASSUME NEW i \in Id, NEW w, NEW cl, NEW sv, Like(w, i, cl, sv),
         NEW v \in Closed(w, i)
  PROVE  Like(v, i, cl, FALSE)
  <1>1. w[i] \in Ends(i[1]) /\ DOMAIN w = Id
    BY DEF Like
  <1> DEFINE open == [w EXCEPT ![i].server = FALSE]
  <1>2. Like(open, i, cl, FALSE)
    <2>1. open[i] = [w[i] EXCEPT !.server = FALSE] /\ DOMAIN open = Id
          /\ \A j \in Id : j # i => open[j] = w[j]
      BY <1>1
    <2> HIDE DEF open
    <2>2. open[i] = [up |-> w[i].up, down |-> w[i].down, client |-> w[i].client, server |-> FALSE]
      BY <1>1, <2>1, EndParts
    <2>3. open[i] \in Ends(i[1]) /\ open[i].client = w[i].client /\ open[i].server = FALSE
      BY <1>1, <2>2, EndParts DEF Ends
    <2> QED
      BY <2>1, <2>3 DEF Like
  <1>3. v = open \/ v = [open EXCEPT ![i].down = <<>>]
    BY DEF Closed
  <1>4. <<>> \in Seq(ForClient(i[1]))
    OBVIOUS
  <1> HIDE DEF open
  <1> QED
    BY <1>2, <1>3, <1>4, ChangeDown

\* Messages that are read from a connection, and put on one.
LEMMA ReadUp ==
  ASSUME WireInv, NEW i \in Id, wire[i].up # <<>>, NEW v, v = [wire EXCEPT ![i].up = Tail(@)]
  PROVE  /\ Like(v, i, wire[i].client, wire[i].server)
         /\ Head(wire[i].up) \in FromClient(i[1])
  <1>1. Head(wire[i].up) \in FromClient(i[1]) /\ Tail(wire[i].up) \in Seq(FromClient(i[1]))
    BY TailSeq, EndParts DEF WireInv
  <1> DEFINE rest == Tail(wire[i].up)
  <1>2. v = [wire EXCEPT ![i].up = rest]
    OBVIOUS
  <1>3. Like(wire, i, wire[i].client, wire[i].server)
    BY Unchanged
  <1>4. rest \in Seq(FromClient(i[1]))
    BY <1>1
  <1> HIDE DEF rest
  <1>5. Like(v, i, wire[i].client, wire[i].server)
    BY <1>2, <1>3, <1>4, ChangeUp
  <1> QED
    BY <1>1, <1>5

LEMMA ReadDown ==
  ASSUME WireInv, NEW i \in Id, wire[i].down # <<>>, NEW v, v = [wire EXCEPT ![i].down = Tail(@)]
  PROVE  /\ Like(v, i, wire[i].client, wire[i].server)
         /\ Head(wire[i].down) \in ForClient(i[1])
  <1>1. Head(wire[i].down) \in ForClient(i[1]) /\ Tail(wire[i].down) \in Seq(ForClient(i[1]))
    BY TailSeq, EndParts DEF WireInv
  <1> DEFINE rest == Tail(wire[i].down)
  <1>2. v = [wire EXCEPT ![i].down = rest]
    OBVIOUS
  <1>3. Like(wire, i, wire[i].client, wire[i].server)
    BY Unchanged
  <1>4. rest \in Seq(ForClient(i[1]))
    BY <1>1
  <1> HIDE DEF rest
  <1>5. Like(v, i, wire[i].client, wire[i].server)
    BY <1>2, <1>3, <1>4, ChangeDown
  <1> QED
    BY <1>1, <1>5

LEMMA PutUp ==
  ASSUME NEW i \in Id, NEW w, NEW cl, NEW sv, Like(w, i, cl, sv),
         NEW m \in FromClient(i[1]), NEW v, v = [w EXCEPT ![i].up = Append(@, m)]
  PROVE  Like(v, i, cl, sv)
  <1>1. w[i] \in Ends(i[1])
    BY DEF Like
  <1>2. Append(w[i].up, m) \in Seq(FromClient(i[1]))
    BY <1>1, AppendSeq, EndParts
  <1>3. v = [w EXCEPT ![i].up = Append(w[i].up, m)]
    OBVIOUS
  <1> QED
    BY <1>2, <1>3, ChangeUp

LEMMA PutDown ==
  ASSUME NEW i \in Id, NEW w, NEW cl, NEW sv, Like(w, i, cl, sv),
         NEW m \in ForClient(i[1]), NEW v, v = [w EXCEPT ![i].down = Append(@, m)]
  PROVE  Like(v, i, cl, sv)
  <1>1. w[i] \in Ends(i[1])
    BY DEF Like
  <1>2. Append(w[i].down, m) \in Seq(ForClient(i[1]))
    BY <1>1, AppendSeq, EndParts
  <1>3. v = [w EXCEPT ![i].down = Append(w[i].down, m)]
    OBVIOUS
  <1> QED
    BY <1>2, <1>3, ChangeDown

-----------------------------------------------------------------------------
(* Every step is one of those *)

LEMMA AnswerCases ==
  ASSUME TypeInv, UNCHANGED config, NEW c \in Client, Answer(c)
  PROVE  Proceeds(c) \/ Connects(c) \/ GivesUp(c)
  <1> DEFINE i == This(c)
             m == Head(wire[i].down)
             rest == [wire EXCEPT ![i].down = Tail(@)]
  <1>1. cpc[c] = "wait" /\ wire[i].down # <<>> /\ UNCHANGED <<serverVars, faults>>
    BY DEF Answer
  <1>2. i \in Id /\ i[1] = c /\ WireInv /\ ClientInv
    BY <1>1, Current DEF TypeInv, Connecting
  <1>3. /\ m \in ForClient(c)
        /\ Like(rest, i, wire[i].client, wire[i].server)
    BY <1>1, <1>2, ReadDown
  <1>4. ASSUME NEW e, Fails(c, e), Reasonable(c, e), wire' = [rest EXCEPT ![i].client = FALSE]
        PROVE  GivesUp(c)
    <2> HIDE DEF rest, i, m
    <2>1. Like(wire', i, FALSE, wire[i].server)
      BY <1>2, <1>3, <1>4, CloseClient
    <2> QED
      BY <1>1, <1>4, <2>1 DEF GivesUp, Changes, i
  <1>5. CASE /\ m.type # "hello"
             /\ Fails(c, "InvalidMessageSize")
             /\ wire' = [rest EXCEPT ![i].client = FALSE]
    <2>1. Reasonable(c, "InvalidMessageSize")
      BY DEF Reasonable, Outcomes
    <2> HIDE DEF rest, i, m
    <2> QED
      BY <1>4, <1>5, <2>1
  <1>6. CASE /\ m.type = "hello"
             /\ Settled(m) = "none"
             /\ Fails(c, "ProtocolError")
             /\ wire' = [rest EXCEPT ![i].client = FALSE]
    <2> HIDE DEF rest, i, m
    <2>1. Reasonable(c, "ProtocolError")
      BY <1>2, <1>3, <1>6, Settlements DEF Reasonable, Outcomes
    <2> QED
      BY <1>4, <1>6, <2>1
  <1>7. CASE /\ Settled(m) = "tls"
             /\ cpc' = [cpc EXCEPT ![c] = "tls"]
             /\ wire' = [rest EXCEPT ![i].up = Append(@, Tls("ClientHello"))]
             /\ UNCHANGED <<calls, conn, outcome>>
    <2> HIDE DEF rest, i, m
    <2>1. Agreed(c) = "tls"
      BY <1>2, <1>3, <1>7, Settlements
    <2>2. Tls("ClientHello") \in FromClient(i[1])
      BY FlightsOK
    <2>3. Like(wire', i, wire[i].client, wire[i].server)
      BY <1>2, <1>3, <1>7, <2>2, PutUp
    <2> QED
      BY <1>1, <1>7, <2>1, <2>3 DEF Proceeds, Keeps, Changes, i
  <1>8. CASE /\ Settled(m) = "tcp"
             /\ Succeeds(c, "tcp")
             /\ wire' = rest
    <2> HIDE DEF rest, i, m
    <2>1. Agreed(c) = "tcp"
      BY <1>2, <1>3, <1>8, Settlements
    <2> QED
      BY <1>1, <1>3, <1>8, <2>1 DEF Connects, Keeps, Changes, i
  <1> QED
    BY <1>5, <1>6, <1>7, <1>8 DEF Answer

LEMMA ClientTlsCases ==
  ASSUME TypeInv, Settling, UNCHANGED config, NEW c \in Client, ClientTls(c)
  PROVE  Connects(c) \/ GivesUp(c)
  <1> DEFINE i == This(c)
             m == Head(wire[i].down)
             rest == [wire EXCEPT ![i].down = Tail(@)]
  <1>1. cpc[c] = "tls" /\ wire[i].down # <<>> /\ UNCHANGED <<serverVars, faults>>
    BY DEF ClientTls
  <1>2. i \in Id /\ i[1] = c /\ WireInv /\ ClientInv
    BY <1>1, Current DEF TypeInv, Connecting
  <1>3. Like(rest, i, wire[i].client, wire[i].server)
    BY <1>1, <1>2, ReadDown
  <1>4. ASSUME Fails(c, "TLSError"), Like(wire', i, FALSE, wire[i].server)
        PROVE  GivesUp(c)
    <2>1. Reasonable(c, "TLSError")
      BY DEF Reasonable, Outcomes
    <2> HIDE DEF rest, i, m
    <2> QED
      BY <1>1, <1>4, <2>1 DEF GivesUp, Changes, i
  <1>5. CASE Succeeds(c, "tls") /\ wire' = [rest EXCEPT ![i].up = Append(@, Tls("Finished"))]
    <2> HIDE DEF rest, i, m
    <2>1. Agreed(c) = "tls"
      BY <1>1 DEF Settling
    <2>2. Tls("Finished") \in FromClient(i[1])
      BY FlightsOK
    <2>3. Like(wire', i, wire[i].client, wire[i].server)
      BY <1>2, <1>3, <1>5, <2>2, PutUp
    <2> QED
      BY <1>1, <1>5, <2>1, <2>3 DEF Connects, Keeps, Changes, i
  <1>6. CASE /\ Fails(c, "TLSError")
             /\ wire' = [rest EXCEPT ![i].up = Append(@, Tls("Alert")), ![i].client = FALSE]
    <2> DEFINE told == [rest EXCEPT ![i].up = Append(@, Tls("Alert"))]
    <2>1. wire' = [told EXCEPT ![i].client = FALSE]
      BY <1>6
    <2> HIDE DEF rest, i, m
    <2>2. Tls("Alert") \in FromClient(i[1])
      BY FlightsOK
    <2>3. Like(told, i, wire[i].client, wire[i].server)
      BY <1>2, <1>3, <2>2, PutUp
    <2> HIDE DEF told
    <2>4. Like(wire', i, FALSE, wire[i].server)
      BY <1>2, <2>1, <2>3, CloseClient
    <2> QED
      BY <1>4, <1>6, <2>4
  <1>7. CASE Fails(c, "TLSError") /\ wire' = [rest EXCEPT ![i].client = FALSE]
    <2> HIDE DEF rest, i, m
    <2>1. Like(wire', i, FALSE, wire[i].server)
      BY <1>2, <1>3, <1>7, CloseClient
    <2> QED
      BY <1>4, <1>7, <2>1
  <1> QED
    BY <1>5, <1>6, <1>7 DEF ClientTls

LEMMA ServerGoneCases ==
  ASSUME TypeInv, UNCHANGED config, NEW c \in Client, ServerGone(c)
  PROVE  GivesUp(c)
  <1> DEFINE i == This(c)
  <1>1. /\ cpc[c] \in {"wait", "tls"}
        /\ \E e \in {"TLSError", "ConnectionShutDown"} : Fails(c, e)
        /\ wire' = [wire EXCEPT ![i].client = FALSE]
        /\ UNCHANGED <<serverVars, faults>>
    BY DEF ServerGone, Hangs
  <1>2. i \in Id /\ WireInv
    BY <1>1, Current DEF TypeInv, Connecting
  <1>3. \A e \in {"TLSError", "ConnectionShutDown"} : Reasonable(c, e)
    BY DEF Reasonable, Outcomes
  <1> HIDE DEF i
  <1>4. Like(wire', i, FALSE, wire[i].server)
    BY <1>1, <1>2, Unchanged, CloseClient
  <1> QED
    BY <1>1, <1>3, <1>4 DEF GivesUp, Changes, i

LEMMA Held ==
  ASSUME TypeInv, NEW h \in Handler, spc[h] # "accept"
  PROVE  /\ serving[h] \in Id /\ serving[h][1] \in Client
         /\ WireInv /\ ClientInv /\ spc[h] \in {"hello", "tls", "serve"}
  <1>1. serving[h] \in Id /\ spc[h] \in {"hello", "tls", "serve"}
    BY DEF TypeInv, ServerInv
  <1> QED
    BY <1>1, Ids DEF TypeInv

LEMMA DropsCases ==
  ASSUME TypeInv, UNCHANGED <<config, clientVars, backlog, host, faults>>,
         NEW h \in Handler, spc[h] # "accept",
         NEW w, Like(w, serving[h], wire[serving[h]].client, wire[serving[h]].server), Drops(h, w)
  PROVE  LetsGo(h)
  <1>1. /\ spc' = [spc EXCEPT ![h] = "accept"]
        /\ serving' = [serving EXCEPT ![h] = <<>>]
        /\ mode' = [mode EXCEPT ![h] = "none"]
        /\ wire' \in Closed(w, serving[h])
    BY DEF Drops
  <1> DEFINE i == serving[h]
  <1>2. i \in Id
    BY Held
  <1>3. Like(wire', i, wire[i].client, FALSE)
    <2> HIDE DEF i
    <2>1. Like(w, i, wire[i].client, wire[i].server) /\ wire' \in Closed(w, i)
      BY <1>1 DEF i
    <2> QED
      BY <1>2, <2>1, CloseServer
  <1> QED
    BY <1>1, <1>3 DEF LetsGo, Changes

LEMMA NegotiateCases ==
  ASSUME TypeInv, UNCHANGED config, NEW h \in Handler, Negotiate(h)
  PROVE  Moves(h) \/ LetsGo(h)
  <1> DEFINE i == serving[h]
             c == i[1]
             m == Head(wire[i].up)
             read == [wire EXCEPT ![i].up = Tail(@)]
             r == Reply(h, m)
             sent == [read EXCEPT ![i].down = Append(@, r)]
  <1>1. spc[h] = "hello" /\ wire[i].up # <<>> /\ UNCHANGED <<clientVars, backlog, host, faults>>
    BY DEF Negotiate
  <1>2. i \in Id /\ c \in Client /\ WireInv /\ ClientInv
    BY <1>1, Held
  <1>3. Like(read, i, wire[i].client, wire[i].server) /\ m \in FromClient(c)
    BY <1>1, <1>2, ReadUp
  <1>4. CASE Drops(h, read)
    <2> HIDE DEF read
    <2> QED
      BY <1>1, <1>3, <1>4, DropsCases
  <1>5. ASSUME m.type = "hello"
        PROVE  r \in ForClient(c) /\ Like(sent, i, wire[i].client, wire[i].server)
    <2> HIDE DEF i, c, m, read
    <2>1. m = Hello(config.version[c], config.allowed[c])
      BY <1>2, <1>3, <1>5, Hellos
    <2>2. r \in ForClient(c)
      BY <1>2, <2>1, Replies
    <2> HIDE DEF r
    <2>3. r \in ForClient(i[1])
      BY <2>2 DEF c
    <2> QED
      BY <1>2, <1>3, <2>2, <2>3, PutDown
  <1>6. CASE m.type = "hello" /\ Drops(h, sent)
    <2> HIDE DEF sent, m
    <2> QED
      BY <1>1, <1>5, <1>6, DropsCases
  <1>7. CASE /\ m.type = "hello"
             /\ Settled(r) # "none"
             /\ mode' = [mode EXCEPT ![h] = Settled(r)]
             /\ spc' = [spc EXCEPT ![h] = IF mode'[h] = "tls" THEN "tls" ELSE "serve"]
             /\ wire' = sent
             /\ UNCHANGED serving
    <2> HIDE DEF i, c, m, read, r, sent
    <2>1. Agreed(c) = Settled(r) /\ Agreed(c) \in {"tcp", "tls"}
      BY <1>2, <1>5, <1>7, Settlements
    <2>2. \E p \in {"tls", "serve"} : spc' = [spc EXCEPT ![h] = p]
      BY <1>7
    <2>3. Like(wire', i, wire[i].client, wire[i].server)
      BY <1>5, <1>7
    <2> QED
      BY <1>1, <1>7, <2>1, <2>2, <2>3 DEF Moves, Keeps, Changes, c, i
  <1> QED
    BY <1>4, <1>6, <1>7 DEF Negotiate

LEMMA ServerTlsCases ==
  ASSUME TypeInv, Settling, UNCHANGED config, NEW h \in Handler, ServerTls(h)
  PROVE  Moves(h) \/ LetsGo(h)
  <1> DEFINE i == serving[h]
             m == Head(wire[i].up)
             read == [wire EXCEPT ![i].up = Tail(@)]
  <1>1. spc[h] = "tls" /\ wire[i].up # <<>> /\ UNCHANGED <<clientVars, backlog, host, faults>>
    BY DEF ServerTls
  <1>2. i \in Id /\ i[1] \in Client /\ WireInv /\ ClientInv
    BY <1>1, Held
  <1>3. Like(read, i, wire[i].client, wire[i].server)
    BY <1>1, <1>2, ReadUp
  <1>4. ASSUME NEW f \in {"ClientHello", "ServerHello", "Finished", "Alert"}
        PROVE  Like([read EXCEPT ![i].down = Append(@, Tls(f))], i, wire[i].client, wire[i].server)
    <2> HIDE DEF i, m, read
    <2>1. Tls(f) \in ForClient(i[1])
      BY FlightsOK
    <2> QED
      BY <1>2, <1>3, <2>1, PutDown
  <1>5. /\ mode[h] = Agreed(i[1]) /\ mode[h] \in {"tcp", "tls"}
        /\ mode = [mode EXCEPT ![h] = Agreed(i[1])]
    <2>1. mode[h] = Agreed(i[1]) /\ mode[h] \in {"tcp", "tls"}
      BY <1>1 DEF Settling
    <2>2. mode \in [Handler -> {"none", "tcp", "tls"}]
      BY DEF TypeInv, ServerInv
    <2> QED
      BY <2>1, <2>2
  <1>6. CASE /\ wire' = [read EXCEPT ![i].down = Append(@, Tls("ServerHello"))]
             /\ UNCHANGED <<spc, serving, mode>>
    <2>1. spc' = [spc EXCEPT ![h] = "tls"]
      BY <1>1, <1>6 DEF TypeInv, ServerInv
    <2> HIDE DEF i, m, read
    <2>2. Like(wire', i, wire[i].client, wire[i].server)
      BY <1>4, <1>6
    <2> QED
      BY <1>1, <1>5, <1>6, <2>1, <2>2 DEF Moves, Keeps, Changes, i
  <1>7. CASE Drops(h, [read EXCEPT ![i].down = Append(@, Tls("Alert"))])
    <2> DEFINE told == [read EXCEPT ![i].down = Append(@, Tls("Alert"))]
    <2>1. Like(told, i, wire[i].client, wire[i].server)
      BY <1>4
    <2> HIDE DEF told
    <2>2. Drops(h, told)
      BY <1>7 DEF told
    <2> QED
      BY <1>1, <2>1, <2>2, DropsCases
  <1>8. CASE /\ spc' = [spc EXCEPT ![h] = "serve"]
             /\ wire' = read
             /\ UNCHANGED <<serving, mode>>
    <2> HIDE DEF i, m, read
    <2> QED
      BY <1>1, <1>3, <1>5, <1>8 DEF Moves, Keeps, Changes, i
  <1>9. CASE Drops(h, read)
    <2> HIDE DEF read
    <2> QED
      BY <1>1, <1>3, <1>9, DropsCases
  <1> QED
    BY <1>6, <1>7, <1>8, <1>9 DEF ServerTls

LEMMA EndsCases ==
  ASSUME TypeInv, UNCHANGED config, NEW h \in Handler, NothingComes(h) \/ HangUp(h)
  PROVE  LetsGo(h)
  <1>1. spc[h] # "accept" /\ Drops(h, wire) /\ UNCHANGED <<clientVars, backlog, host, faults>>
    BY DEF NothingComes, HangUp
  <1>2. Like(wire, serving[h], wire[serving[h]].client, wire[serving[h]].server)
    BY <1>1, Held, Unchanged
  <1> QED
    BY <1>1, <1>2, DropsCases

LEMMA StepCases ==
  ASSUME TypeInv, Settling, [Next]_vars
  PROVE  AnyStep
  <1>1. ASSUME UNCHANGED config, NEW c \in Client, ClientStep(c) \/ ClientDies(c) \/ ClientVanishes(c)
        PROVE  AnyStep
    BY <1>1, AnswerCases, ClientTlsCases, ServerGoneCases DEF ClientStep, ClientWorks, AnyStep
  <1>2. ASSUME UNCHANGED config, NEW h \in Handler, ServerStep(h) \/ HangUp(h)
        PROVE  AnyStep
    BY <1>2, NegotiateCases, ServerTlsCases, EndsCases DEF ServerStep, AnyStep
  <1> QED
    BY <1>1, <1>2 DEF Next, AnyStep

-----------------------------------------------------------------------------
(* Types *)

LEMMA WireStep ==
  ASSUME WireInv, UNCHANGED config, NEW i \in Id, NEW cl, NEW sv, Changes(i, cl, sv)
  PROVE  WireInv'
  <1>1. /\ DOMAIN wire' = Id /\ wire'[i] \in Ends(i[1])
        /\ \A j \in Id : j # i => wire'[j] = wire[j]
    BY DEF Changes, Like
  <1>2. \A c : Ends(c)' = Ends(c)
    BY DEF Ends, FromClient, ForClient, Flights, Both
  <1>3. \A j \in Id : wire'[j] \in Ends(j[1])
    BY <1>1 DEF WireInv
  <1> QED
    BY <1>1, <1>2, <1>3 DEF WireInv

LEMMA WireStays ==
  ASSUME WireInv, UNCHANGED <<config, wire>>
  PROVE  WireInv'
  <1>1. \A c : Ends(c)' = Ends(c)
    BY DEF Ends, FromClient, ForClient, Flights, Both
  <1> QED
    BY <1>1 DEF WireInv

\* Ends that only get closed.
LEMMA WireCloses ==
  ASSUME WireInv, UNCHANGED config, DOMAIN wire' = Id,
         \A i \in Id : \/ wire'[i] = wire[i]
                       \/ wire'[i] = [wire[i] EXCEPT !.client = FALSE]
                       \/ wire'[i] = [wire[i] EXCEPT !.server = FALSE]
  PROVE  WireInv'
  <1>1. \A c : Ends(c)' = Ends(c)
    BY DEF Ends, FromClient, ForClient, Flights, Both
  <1>2. ASSUME NEW i \in Id PROVE wire'[i] \in Ends(i[1])
    <2>1. wire[i] \in Ends(i[1])
      BY DEF WireInv
    <2>2. \A e \in Ends(i[1]) : [e EXCEPT !.client = FALSE] \in Ends(i[1])
                               /\ [e EXCEPT !.server = FALSE] \in Ends(i[1])
      BY DEF Ends
    <2> QED
      BY <2>1, <2>2
  <1> QED
    BY <1>1, <1>2 DEF WireInv

LEMMA CallsNext ==
  ASSUME ClientInv, NEW c \in Client, calls[c] < MaxCalls
  PROVE  calls[c] + 1 \in 1..MaxCalls
  BY Naturals DEF ClientInv

LEMMA FaultsNext ==
  ASSUME ServerInv, Fault
  PROVE  faults' \in 0..MaxFaults
  BY Naturals DEF ServerInv, Fault

LEMMA DialStep ==
  ASSUME TypeInv, UNCHANGED config, NEW c \in Client, Dial(c)
  PROVE  /\ This(c) \in Id /\ WireInv' /\ backlog' \in Seq(Id) /\ Len(backlog') <= MaxQueue
         /\ wire'[This(c)].client = TRUE
         /\ \A j \in Id : j # This(c) => wire'[j] = wire[j]
  <1> DEFINE i == This(c)
             m == IF c \in config.foreign THEN Junk ELSE Hello(config.version[c], config.allowed[c])
             e == [up |-> <<m>>, down |-> <<>>, client |-> TRUE, server |-> TRUE]
  <1>1. i \in Id /\ i[1] = c /\ WireInv
    BY Current DEF TypeInv, Connecting, Dial
  <1>2. m \in FromClient(c)
    BY DEF FromClient, Flights
  <1>3. wire' = [wire EXCEPT ![i] = e]
    BY DEF Dial
  <1> HIDE DEF m
  <1>4. e \in Ends(c)
    <2>1. <<m>> \in Seq(FromClient(c)) /\ <<>> \in Seq(ForClient(c))
      BY <1>2
    <2> QED
      BY <2>1 DEF Ends
  <1>5. e.client = TRUE /\ e.server = TRUE
    OBVIOUS
  <1> HIDE DEF i, e
  <1>6. Like(wire', i, TRUE, TRUE)
    BY <1>1, <1>3, <1>4, <1>5 DEF Like, WireInv
  <1>7. WireInv'
    BY <1>1, <1>6, WireStep DEF Changes
  <1>8. backlog' \in Seq(Id) /\ Len(backlog') <= MaxQueue
    <2>1. backlog \in Seq(Id) /\ Len(backlog) < MaxQueue /\ backlog' = Append(backlog, i)
      BY DEF Dial, TypeInv, ServerInv, i
    <2> QED
      BY <1>1, <2>1, Naturals
  <1> QED
    BY <1>1, <1>6, <1>7, <1>8 DEF Like, i

LEMMA ClientStepTypes ==
  ASSUME TypeInv, AnyStep
  PROVE  ClientInv'
  <1>1. ASSUME NEW c \in Client, Connect(c), UNCHANGED config PROVE ClientInv'
    BY <1>1, CallsNext DEF TypeInv, ClientInv, Connect, Connecting, Outcomes
  <1>2. ASSUME NEW c \in Client, Dial(c), UNCHANGED config PROVE ClientInv'
    BY <1>2 DEF TypeInv, ClientInv, Dial, Connecting
  <1>3. ASSUME NEW c \in Client, NEW e \in Outcomes, Fails(c, e), UNCHANGED config PROVE ClientInv'
    BY <1>3 DEF TypeInv, ClientInv, Fails, Connecting
  <1>4. ASSUME NEW c \in Client, Leave(c) \/ ClientDies(c) \/ ClientVanishes(c), UNCHANGED config
        PROVE  ClientInv'
    BY <1>4 DEF TypeInv, ClientInv, Leave, ClientDies, ClientVanishes, Connecting
  <1>5. ASSUME NEW c \in Client, Proceeds(c) PROVE ClientInv'
    BY <1>5 DEF TypeInv, ClientInv, Proceeds, Connecting
  <1>6. ASSUME NEW c \in Client, Connects(c) PROVE ClientInv'
    <2>1. This(c) \in Id
      BY <1>6, Current DEF TypeInv, Connects, Connecting
    <2>2. [id |-> This(c), mode |-> Agreed(c)] \in [id : Id, mode : {"tcp", "tls"}]
      BY <1>6, <2>1 DEF Connects
    <2> QED
      BY <1>6, <2>2 DEF TypeInv, ClientInv, Connects, Succeeds, Connecting, Outcomes
  <1>7. CASE UNCHANGED <<config, clientVars>>
    BY <1>7 DEF TypeInv, ClientInv, Connecting, clientVars
  <1>8. ASSUME NEW c \in Client, DialFails(c), UNCHANGED config PROVE ClientInv'
    BY <1>3, <1>8 DEF DialFails, Outcomes
  <1>9. ASSUME NEW c \in Client, GivesUp(c) PROVE ClientInv'
    BY <1>3, <1>9 DEF GivesUp, Reasonable
  <1>10. ASSUME NEW h \in Handler, Moves(h) \/ LetsGo(h) \/ (Accept(h) /\ UNCHANGED config)
         PROVE  ClientInv'
    BY <1>7, <1>10 DEF Moves, LetsGo, Accept
  <1>11. CASE ((Stop \/ HostFallsSilent) /\ UNCHANGED config) \/ UNCHANGED vars
    BY <1>7, <1>11 DEF Stop, HostFallsSilent, vars, clientVars
  <1> QED
    BY <1>1, <1>2, <1>4, <1>5, <1>6, <1>8, <1>9, <1>10, <1>11 DEF AnyStep

LEMMA ServerStepTypes ==
  ASSUME TypeInv, AnyStep
  PROVE  ServerInv'
  <1>1. CASE UNCHANGED serverVars /\ (UNCHANGED faults \/ Fault)
    BY <1>1, FaultsNext DEF TypeInv, ServerInv, serverVars
  <1>2. ASSUME NEW c \in Client, Dial(c), UNCHANGED config PROVE ServerInv'
    BY <1>2, DialStep DEF TypeInv, ServerInv, Dial
  <1>3. ASSUME NEW h \in Handler, Accept(h) PROVE ServerInv'
    <2>1. backlog \in Seq(Id) /\ backlog # <<>> /\ Len(backlog) <= MaxQueue
      BY <1>3 DEF Accept, TypeInv, ServerInv
    <2>2. Head(backlog) \in Id /\ Tail(backlog) \in Seq(Id) /\ Len(Tail(backlog)) <= MaxQueue
      BY <2>1, Naturals
    <2>3. Head(backlog) # <<>>
      BY <2>2, Ids
    <2> QED
      BY <1>3, <2>2, <2>3 DEF Accept, TypeInv, ServerInv
  <1>4. ASSUME NEW h \in Handler, Moves(h) PROVE ServerInv'
    BY <1>4 DEF Moves, TypeInv, ServerInv
  <1>5. ASSUME NEW h \in Handler, LetsGo(h) PROVE ServerInv'
    BY <1>5 DEF LetsGo, TypeInv, ServerInv
  <1>6. CASE Stop
    <2>1. <<>> \in Seq(Id) /\ Len(<<>>) <= MaxQueue
      BY Naturals
    <2> QED
      BY <1>6, <2>1, FaultsNext DEF Stop, TypeInv, ServerInv
  <1>7. ASSUME NEW c \in Client, \/ Connect(c) \/ DialFails(c) \/ Leave(c) \/ ClientDies(c)
                                 \/ ClientVanishes(c) \/ Proceeds(c) \/ Connects(c) \/ GivesUp(c)
        PROVE  ServerInv'
    BY <1>1, <1>7 DEF Connect, DialFails, Leave, ClientDies, ClientVanishes, Proceeds, Connects, GivesUp
  <1>8. CASE HostFallsSilent
    BY <1>8, FaultsNext DEF HostFallsSilent, TypeInv, ServerInv
  <1>9. CASE UNCHANGED vars
    BY <1>1, <1>9 DEF vars, serverVars
  <1> QED
    BY <1>2, <1>3, <1>4, <1>5, <1>6, <1>7, <1>8, <1>9 DEF AnyStep

LEMMA WireStepTypes ==
  ASSUME TypeInv, AnyStep
  PROVE  WireInv'
  <1>0. WireInv /\ ClientInv
    BY DEF TypeInv
  <1>1. CASE UNCHANGED <<config, wire>>
    BY <1>0, <1>1, WireStays
  <1>2. ASSUME NEW c \in Client, Dial(c), UNCHANGED config PROVE WireInv'
    BY <1>2, DialStep
  <1>3. ASSUME NEW c \in Client, Proceeds(c) \/ Connects(c) \/ GivesUp(c) PROVE WireInv'
    <2>1. This(c) \in Id
      BY <1>0, <1>3, Current DEF Proceeds, Connects, GivesUp, Connecting
    <2> QED
      BY <1>0, <1>3, <2>1, WireStep DEF Proceeds, Connects, GivesUp, Keeps
  <1>4. ASSUME NEW h \in Handler, Moves(h) \/ LetsGo(h) PROVE WireInv'
    <2>1. serving[h] \in Id
      BY <1>4, Held DEF Moves, LetsGo
    <2> QED
      BY <1>0, <1>4, <2>1, WireStep DEF Moves, LetsGo, Keeps
  <1>5. ASSUME NEW c \in Client, Leave(c), UNCHANGED config PROVE WireInv'
    <2>1. CASE conn[c] = None
      BY <1>1, <1>5, <2>1 DEF Leave
    <2>2. CASE conn[c] # None
      <3>1. conn[c].id \in Id
        BY <1>0, <2>2 DEF ClientInv
      <3>2. wire' = [wire EXCEPT ![conn[c].id].client = FALSE]
        BY <1>5, <2>2 DEF Leave, Hangs
      <3> QED
        BY <1>0, <1>5, <3>1, <3>2, WireCloses DEF WireInv
    <2> QED
      BY <2>1, <2>2
  <1>6. ASSUME NEW c \in Client, ClientDies(c), UNCHANGED config PROVE WireInv'
    BY <1>0, <1>6, WireCloses DEF ClientDies
  <1>7. CASE Stop /\ UNCHANGED config
    BY <1>0, <1>7, WireCloses DEF Stop
  <1>8. ASSUME NEW c \in Client, Connect(c) \/ DialFails(c) \/ ClientVanishes(c), UNCHANGED config
        PROVE  WireInv'
    BY <1>1, <1>8 DEF Connect, DialFails, ClientVanishes
  <1>9. ASSUME NEW h \in Handler, Accept(h), UNCHANGED config PROVE WireInv'
    BY <1>1, <1>9 DEF Accept
  <1>10. CASE HostFallsSilent /\ UNCHANGED config
    BY <1>1, <1>10 DEF HostFallsSilent
  <1> QED
    BY <1>1, <1>2, <1>3, <1>4, <1>5, <1>6, <1>7, <1>8, <1>9, <1>10 DEF AnyStep, vars

LEMMA TypeStep ==
  ASSUME TypeInv, AnyStep
  PROVE  TypeInv'
  BY ClientStepTypes, ServerStepTypes, WireStepTypes DEF TypeInv

-----------------------------------------------------------------------------
(* The modes of the two ends *)

LEMMA SameAgreement ==
  ASSUME UNCHANGED config
  PROVE  \A c : Agreed(c)' = Agreed(c)
  BY DEF Agreed

LEMMA AnyStepConfig == AnyStep => UNCHANGED config
  BY DEF AnyStep, Proceeds, Connects, GivesUp, Moves, LetsGo, vars

\* The connection that a client keeps is of its own.
LEMMA SettlingStep ==
  ASSUME TypeInv, Settling, AnyStep
  PROVE  Settling'
  <1>0. ClientInv /\ UNCHANGED config /\ \A c : Agreed(c)' = Agreed(c)
    BY AnyStepConfig, SameAgreement DEF TypeInv
  <1>1. ASSUME UNCHANGED conn, UNCHANGED serverVars, \A c \in Client : cpc'[c] = "tls" => cpc[c] = "tls"
        PROVE  Settling'
    BY <1>0, <1>1 DEF Settling, serverVars
  <1>2. ASSUME NEW c \in Client, Connect(c) \/ DialFails(c) \/ ClientVanishes(c) PROVE Settling'
    <2>1. UNCHANGED <<conn, serverVars>>
      BY <1>2 DEF Connect, DialFails, Fails, ClientVanishes
    <2>2. \E p \in {"dial", "idle", "left", cpc[c]} : cpc' = [cpc EXCEPT ![c] = p] \/ UNCHANGED cpc
      BY <1>2 DEF Connect, DialFails, Fails, ClientVanishes
    <2>3. \A d \in Client : cpc'[d] = "tls" => cpc[d] = "tls"
      BY <1>0, <2>2 DEF ClientInv
    <2> QED
      BY <1>1, <2>1, <2>3
  <1>3. ASSUME NEW c \in Client, Dial(c) PROVE Settling'
    BY <1>0, <1>3 DEF Settling, Dial, ClientInv
  <1>4. ASSUME NEW c \in Client, Leave(c) \/ ClientDies(c) PROVE Settling'
    BY <1>0, <1>4 DEF Settling, Leave, ClientDies, ClientInv, serverVars
  <1>5. ASSUME NEW c \in Client, Proceeds(c) PROVE Settling'
    BY <1>0, <1>5 DEF Settling, Proceeds, ClientInv, serverVars
  <1>6. ASSUME NEW c \in Client, GivesUp(c) PROVE Settling'
    <2>1. UNCHANGED conn /\ UNCHANGED serverVars /\ cpc' = [cpc EXCEPT ![c] = "idle"]
      BY <1>6 DEF GivesUp, Fails
    <2>2. \A d \in Client : cpc'[d] = "tls" => cpc[d] = "tls"
      BY <1>0, <2>1 DEF ClientInv
    <2> QED
      BY <1>1, <2>1, <2>2
  <1>7. ASSUME NEW c \in Client, Connects(c) PROVE Settling'
    <2>1. This(c)[1] = c
      BY <1>0, <1>7, Current DEF Connects, Connecting
    <2> DEFINE made == [id |-> This(c), mode |-> Agreed(c)]
    <2>2. made.id[1] = c /\ made.mode = Agreed(c)
      BY <2>1
    <2>3. UNCHANGED serverVars /\ cpc' = [cpc EXCEPT ![c] = "idle"] /\ conn' = [conn EXCEPT ![c] = made]
      BY <1>7 DEF Connects, Succeeds
    <2> HIDE DEF made
    <2>4. \A d \in Client : conn'[d] # None => conn'[d].id[1] = d /\ conn'[d].mode = Agreed(d)
      BY <1>0, <2>2, <2>3 DEF Settling, ClientInv
    <2>5. \A d \in Client : cpc'[d] = "tls" => cpc[d] = "tls"
      BY <1>0, <2>3 DEF ClientInv
    <2> QED
      BY <1>0, <2>3, <2>4, <2>5 DEF Settling, serverVars
  <1>8. ASSUME NEW h \in Handler, Accept(h) PROVE Settling'
    BY <1>0, <1>8 DEF Settling, Accept, clientVars, TypeInv, ServerInv
  <1>9. ASSUME NEW h \in Handler, Moves(h) PROVE Settling'
    <2>1. UNCHANGED <<cpc, conn, serving>>
      BY <1>9 DEF Moves, clientVars
    <2>2. \A k \in Handler : spc'[k] \in {"tls", "serve"} =>
            mode'[k] = Agreed(serving[k][1]) /\ mode'[k] \in {"tcp", "tls"}
      BY <1>9 DEF Settling, Moves, TypeInv, ServerInv
    <2> QED
      BY <1>0, <2>1, <2>2 DEF Settling
  <1>10. ASSUME NEW h \in Handler, LetsGo(h) PROVE Settling'
    <2>1. UNCHANGED <<cpc, conn>>
      BY <1>10 DEF LetsGo, clientVars
    <2>2. \A k \in Handler : spc'[k] \in {"tls", "serve"} =>
            k # h /\ mode'[k] = mode[k] /\ serving'[k] = serving[k] /\ spc[k] = spc'[k]
      BY <1>10 DEF LetsGo, TypeInv, ServerInv
    <2> QED
      BY <1>0, <2>1, <2>2 DEF Settling
  <1>11. CASE Stop \/ HostFallsSilent \/ UNCHANGED vars
    BY <1>0, <1>11 DEF Settling, Stop, HostFallsSilent, vars, clientVars
  <1> QED
    BY <1>2, <1>3, <1>4, <1>5, <1>6, <1>7, <1>8, <1>9, <1>10, <1>11 DEF AnyStep

LEMMA RefusedStep ==
  ASSUME TypeInv, RefusedWithReason, AnyStep
  PROVE  RefusedWithReason'
  <1>0. ClientInv /\ UNCHANGED config /\ \A c : Agreed(c)' = Agreed(c)
    BY AnyStepConfig, SameAgreement DEF TypeInv
  <1>1. CASE UNCHANGED outcome
    BY <1>0, <1>1 DEF RefusedWithReason
  <1>2. ASSUME NEW c \in Client, NEW e, Reasonable(c, e), outcome' = [outcome EXCEPT ![c] = e]
        PROVE  RefusedWithReason'
    BY <1>0, <1>2 DEF RefusedWithReason, Reasonable, ClientInv
  <1>3. \A c, e : e \in {"connected", "AddressError", "ConnectionError"} => Reasonable(c, e)
    BY DEF Reasonable, Outcomes
  <1>4. ASSUME NEW c \in Client, Connect(c) \/ DialFails(c) \/ Connects(c) PROVE RefusedWithReason'
    BY <1>1, <1>2, <1>3, <1>4 DEF Connect, DialFails, Fails, Connects, Succeeds
  <1>5. ASSUME NEW c \in Client, GivesUp(c) PROVE RefusedWithReason'
    BY <1>2, <1>5 DEF GivesUp, Fails
  <1>6. ASSUME NEW c \in Client, Dial(c) \/ Leave(c) \/ ClientDies(c) \/ ClientVanishes(c) \/ Proceeds(c)
        PROVE  RefusedWithReason'
    BY <1>1, <1>6 DEF Dial, Leave, ClientDies, ClientVanishes, Proceeds
  <1>7. ASSUME NEW h \in Handler, Accept(h) \/ Moves(h) \/ LetsGo(h) PROVE RefusedWithReason'
    BY <1>1, <1>7 DEF Accept, Moves, LetsGo, clientVars
  <1>8. CASE Stop \/ HostFallsSilent \/ UNCHANGED vars
    BY <1>1, <1>8 DEF Stop, HostFallsSilent, vars, clientVars
  <1> QED
    BY <1>4, <1>5, <1>6, <1>7, <1>8 DEF AnyStep

-----------------------------------------------------------------------------
(* The client's sockets *)

LEMMA NoneHasNoId == \A i \in Id : None.id # i
  BY Ids DEF None

\* What changes for the connections of client c only, and what not at all.
LEMMA ClientEndsStep ==
  ASSUME TypeInv, Settling, ClientEnds, AnyStep
  PROVE  ClientEnds'
  <1>0. ClientInv
    BY DEF TypeInv
  <1>1. ASSUME UNCHANGED clientVars, \A i \in Id : wire'[i].client => wire[i].client
        PROVE  ClientEnds'
    BY <1>1 DEF ClientEnds, clientVars, Connecting, This
  \* It suffices to look at the client that takes the step.
  <1>2. ASSUME NEW c \in Client,
               \A d \in Client : d # c => cpc'[d] = cpc[d] /\ calls'[d] = calls[d] /\ conn'[d] = conn[d],
               \A i \in Id : i[1] # c /\ wire'[i].client => wire[i].client,
               Connecting(c)' => conn'[c] = None,
               \A i \in Id : i[1] = c /\ wire'[i].client =>
                 \/ conn'[c].id = i
                 \/ cpc'[c] \in {"wait", "tls", "left"} /\ i = <<c, calls'[c]>>
        PROVE  ClientEnds'
    <2>1. \A d \in Client : Connecting(d)' => conn'[d] = None
      BY <1>2 DEF ClientEnds, Connecting
    <2>2. ASSUME NEW i \in Id, wire'[i].client
          PROVE  \/ conn'[i[1]].id = i
                 \/ cpc'[i[1]] \in {"wait", "tls", "left"} /\ i = <<i[1], calls'[i[1]]>>
      BY <1>2, <2>2, Ids DEF ClientEnds, This
    <2> QED
      BY <2>1, <2>2 DEF ClientEnds, This
  <1>3. ASSUME NEW c \in Client, Connect(c) PROVE ClientEnds'
    <2>1. /\ cpc[c] = "idle" /\ UNCHANGED <<conn, wire>>
          /\ cpc' = cpc \/ (cpc' = [cpc EXCEPT ![c] = "dial"] /\ conn[c] = None)
          /\ calls' = [calls EXCEPT ![c] = @ + 1]
      BY <1>3 DEF Connect
    <2>2. \A i \in Id : i[1] = c /\ wire'[i].client => conn'[c].id = i
      BY <2>1 DEF ClientEnds
    <2>3. \A d \in Client : d # c => cpc'[d] = cpc[d] /\ calls'[d] = calls[d] /\ conn'[d] = conn[d]
      BY <1>0, <2>1 DEF ClientInv
    <2>4. Connecting(c)' => conn'[c] = None
      BY <1>0, <2>1 DEF ClientInv, Connecting
    <2> QED
      BY <1>2, <2>1, <2>2, <2>3, <2>4
  <1>4. ASSUME NEW c \in Client, Dial(c) PROVE ClientEnds'
    <2>1. /\ cpc[c] = "dial" /\ UNCHANGED <<calls, conn>> /\ conn[c] = None
          /\ cpc' = [cpc EXCEPT ![c] = "wait"]
      BY <1>4 DEF Dial, ClientEnds, Connecting
    <2>2. \A i \in Id : i # This(c) => wire'[i] = wire[i]
      BY <1>4, AnyStepConfig, DialStep
    <2>3. \A i \in Id : i[1] = c /\ wire'[i].client => i = <<c, calls'[c]>>
      BY <2>1, <2>2, NoneHasNoId DEF ClientEnds, This
    <2>4. \A i \in Id : i[1] # c /\ wire'[i].client => wire[i].client
      BY <2>2 DEF This
    <2>5. cpc'[c] = "wait" /\ \A d \in Client : d # c => cpc'[d] = cpc[d]
      BY <1>0, <2>1 DEF ClientInv
    <2> QED
      BY <1>2, <2>1, <2>3, <2>4, <2>5
  <1>5. ASSUME NEW c \in Client, DialFails(c) PROVE ClientEnds'
    <2>1. cpc[c] = "dial" /\ UNCHANGED <<calls, conn, wire>> /\ cpc' = [cpc EXCEPT ![c] = "idle"]
      BY <1>5 DEF DialFails, Fails
    <2>2. cpc'[c] = "idle" /\ \A d \in Client : d # c => cpc'[d] = cpc[d]
      BY <1>0, <2>1 DEF ClientInv
    <2>3. \A i \in Id : i[1] = c /\ wire'[i].client => conn'[c].id = i
      BY <2>1 DEF ClientEnds
    <2> QED
      BY <1>2, <2>1, <2>2, <2>3 DEF Connecting
  <1>6. ASSUME NEW c \in Client, Proceeds(c) PROVE ClientEnds'
    <2>1. /\ cpc[c] = "wait" /\ UNCHANGED <<calls, conn>> /\ conn[c] = None
          /\ cpc' = [cpc EXCEPT ![c] = "tls"]
      BY <1>6 DEF Proceeds, ClientEnds, Connecting
    <2>2. This(c) \in Id
      BY <1>0, <2>1, Current DEF Connecting
    <2>3. \A i \in Id : wire'[i].client = wire[i].client
      BY <1>6, <2>2 DEF Proceeds, Keeps, Changes, Like
    <2>4. cpc'[c] = "tls" /\ \A d \in Client : d # c => cpc'[d] = cpc[d]
      BY <1>0, <2>1 DEF ClientInv
    <2>5. \A i \in Id : i[1] = c /\ wire'[i].client => i = <<c, calls'[c]>>
      BY <2>1, <2>3, NoneHasNoId DEF ClientEnds, This
    <2> QED
      BY <1>2, <2>1, <2>3, <2>4, <2>5
  <1>7. ASSUME NEW c \in Client, Connects(c) PROVE ClientEnds'
    <2> DEFINE made == [id |-> This(c), mode |-> Agreed(c)]
    <2>1. /\ cpc[c] \in {"wait", "tls"} /\ UNCHANGED calls /\ conn[c] = None
          /\ cpc' = [cpc EXCEPT ![c] = "idle"] /\ conn' = [conn EXCEPT ![c] = made]
      BY <1>7 DEF Connects, Succeeds, ClientEnds, Connecting
    <2>2. made.id = This(c)
      OBVIOUS
    <2>3. This(c) \in Id
      BY <1>0, <2>1, Current DEF Connecting
    <2>4. \A i \in Id : wire'[i].client = wire[i].client
      BY <1>7, <2>3 DEF Connects, Keeps, Changes, Like
    <2> HIDE DEF made
    <2>5. /\ cpc'[c] = "idle" /\ conn'[c] = made
          /\ \A d \in Client : d # c => cpc'[d] = cpc[d] /\ conn'[d] = conn[d]
      BY <1>0, <2>1 DEF ClientInv
    <2>6. \A i \in Id : i[1] = c /\ wire'[i].client => conn'[c].id = i
      BY <2>1, <2>2, <2>4, <2>5, NoneHasNoId DEF ClientEnds
    <2> QED
      BY <1>2, <2>1, <2>4, <2>5, <2>6 DEF Connecting
  <1>8. ASSUME NEW c \in Client, GivesUp(c) PROVE ClientEnds'
    <2>1. /\ cpc[c] \in {"wait", "tls"} /\ UNCHANGED <<calls, conn>> /\ conn[c] = None
          /\ cpc' = [cpc EXCEPT ![c] = "idle"]
      BY <1>8 DEF GivesUp, Fails, ClientEnds, Connecting
    <2>2. This(c) \in Id
      BY <1>0, <2>1, Current DEF Connecting
    <2>3. wire'[This(c)].client = FALSE /\ \A i \in Id : i # This(c) => wire'[i] = wire[i]
      BY <1>8 DEF GivesUp, Changes, Like
    <2>4. cpc'[c] = "idle" /\ \A d \in Client : d # c => cpc'[d] = cpc[d]
      BY <1>0, <2>1 DEF ClientInv
    <2>5. \A i \in Id : i[1] = c => ~wire'[i].client
      BY <2>1, <2>2, <2>3, NoneHasNoId DEF ClientEnds
    <2>6. \A i \in Id : i[1] # c /\ wire'[i].client => wire[i].client
      BY <2>3 DEF This
    <2> QED
      BY <1>2, <2>1, <2>4, <2>5, <2>6 DEF Connecting
  <1>9. ASSUME NEW c \in Client, Leave(c) PROVE ClientEnds'
    <2>1. /\ cpc[c] = "idle" /\ UNCHANGED calls
          /\ cpc' = [cpc EXCEPT ![c] = "left"] /\ conn' = [conn EXCEPT ![c] = None]
      BY <1>9 DEF Leave
    <2>2. /\ cpc'[c] = "left" /\ \A d \in Client : d # c => cpc'[d] = cpc[d] /\ conn'[d] = conn[d]
      BY <1>0, <2>1 DEF ClientInv
    <2>3. \A i \in Id : wire'[i].client => wire[i].client /\ (conn[c] = None \/ i # conn[c].id)
      <3>1. CASE conn[c] = None
        BY <1>9, <3>1 DEF Leave
      <3>2. CASE conn[c] # None
        <4>1. wire' = [wire EXCEPT ![conn[c].id].client = FALSE]
          BY <1>9, <3>2 DEF Leave, Hangs
        <4>2. conn[c].id \in Id /\ DOMAIN wire = Id /\ \A i \in Id : wire[i] \in Ends(i[1])
          BY <1>0, <3>2 DEF ClientInv, TypeInv, WireInv
        <4>3. wire'[conn[c].id].client = FALSE
          BY <4>1, <4>2 DEF Ends
        <4>4. \A i \in Id : i # conn[c].id => wire'[i] = wire[i]
          BY <4>1, <4>2
        <4> QED
          BY <4>3, <4>4
      <3> QED
        BY <3>1, <3>2
    <2>4. \A i \in Id : i[1] = c => ~wire'[i].client
      BY <2>1, <2>3, NoneHasNoId DEF ClientEnds
    <2> QED
      BY <1>2, <2>1, <2>2, <2>3, <2>4 DEF Connecting
  <1>10. ASSUME NEW c \in Client, ClientDies(c) PROVE ClientEnds'
    <2>1. /\ UNCHANGED calls
          /\ cpc' = [cpc EXCEPT ![c] = "left"] /\ conn' = [conn EXCEPT ![c] = None]
          /\ wire' = [i \in Id |-> IF i[1] = c THEN [wire[i] EXCEPT !.client = FALSE] ELSE wire[i]]
      BY <1>10 DEF ClientDies
    <2>2. /\ cpc'[c] = "left" /\ \A d \in Client : d # c => cpc'[d] = cpc[d] /\ conn'[d] = conn[d]
      BY <1>0, <2>1 DEF ClientInv
    <2>3. \A i \in Id : i[1] # c => wire'[i] = wire[i]
      BY <2>1
    <2>4. \A i \in Id : i[1] = c => ~wire'[i].client
      BY <2>1 DEF TypeInv, WireInv, Ends
    <2> QED
      BY <1>2, <2>1, <2>2, <2>3, <2>4 DEF Connecting
  <1>11. ASSUME NEW c \in Client, ClientVanishes(c) PROVE ClientEnds'
    <2>1. UNCHANGED <<calls, conn, wire>> /\ cpc' = [cpc EXCEPT ![c] = "left"]
      BY <1>11 DEF ClientVanishes
    <2>2. cpc'[c] = "left" /\ \A d \in Client : d # c => cpc'[d] = cpc[d]
      BY <1>0, <2>1 DEF ClientInv
    <2>3. \A i \in Id : i[1] = c /\ wire'[i].client => conn'[c].id = i \/ i = <<c, calls'[c]>>
      BY <2>1 DEF ClientEnds, This
    <2> QED
      BY <1>2, <2>1, <2>2, <2>3 DEF Connecting
  <1>12. ASSUME NEW h \in Handler, Accept(h) PROVE ClientEnds'
    BY <1>1, <1>12 DEF Accept
  <1>13. ASSUME NEW h \in Handler, Moves(h) \/ LetsGo(h) PROVE ClientEnds'
    <2>1. serving[h] \in Id /\ UNCHANGED clientVars
      BY <1>13, Held DEF Moves, LetsGo
    <2>2. \A i \in Id : wire'[i].client = wire[i].client
      BY <1>13, <2>1 DEF Moves, LetsGo, Keeps, Changes, Like
    <2> QED
      BY <1>1, <2>1, <2>2
  <1>14. CASE Stop
    <2>1. \A i \in Id : wire'[i].client = wire[i].client
      BY <1>14 DEF Stop, TypeInv, WireInv, Ends
    <2> QED
      BY <1>1, <1>14, <2>1 DEF Stop
  <1>15. CASE HostFallsSilent \/ UNCHANGED vars
    BY <1>1, <1>15 DEF HostFallsSilent, vars, clientVars
  <1> QED
    BY <1>3, <1>4, <1>5, <1>6, <1>7, <1>8, <1>9, <1>10, <1>11, <1>12, <1>13, <1>14, <1>15 DEF AnyStep

-----------------------------------------------------------------------------
(* The server's sockets *)

LEMMA DialledStays ==
  ASSUME TypeInv, AnyStep, NEW i \in Id, Dialled(i)
  PROVE  Dialled(i)'
  <1>0. ClientInv /\ i[1] \in Client /\ i[2] \in Nat /\ calls[i[1]] \in Nat
    BY Ids, Naturals DEF TypeInv, ClientInv
  <1>1. CASE UNCHANGED clientVars
    BY <1>1 DEF Dialled, clientVars
  <1>2. ASSUME NEW c \in Client, NEW p, p # "dial", cpc' = [cpc EXCEPT ![c] = p], UNCHANGED calls
        PROVE  Dialled(i)'
    BY <1>0, <1>2 DEF Dialled, ClientInv
  <1>3. ASSUME NEW c \in Client, Connect(c) PROVE Dialled(i)'
    <2>1. /\ cpc[c] = "idle"
          /\ cpc' = cpc \/ cpc' = [cpc EXCEPT ![c] = "dial"]
          /\ calls' = [calls EXCEPT ![c] = @ + 1]
      BY <1>3 DEF Connect
    <2>2. CASE i[1] = c
      <3>1. calls'[c] = calls[c] + 1
        BY <1>0, <2>1 DEF ClientInv
      <3>2. i[2] <= calls'[c] /\ i[2] # calls'[c]
        BY <1>0, <2>2, <3>1 DEF Dialled
      <3> QED
        BY <2>2, <3>2 DEF Dialled
    <2>3. CASE i[1] # c
      <3>1. calls'[i[1]] = calls[i[1]] /\ cpc'[i[1]] = cpc[i[1]]
        BY <1>0, <2>1, <2>3 DEF ClientInv
      <3> QED
        BY <3>1 DEF Dialled
    <2> QED
      BY <2>2, <2>3
  <1>4. ASSUME NEW c \in Client, \/ Dial(c) \/ DialFails(c) \/ Leave(c) \/ ClientDies(c)
                                 \/ ClientVanishes(c) \/ Proceeds(c) \/ Connects(c) \/ GivesUp(c)
        PROVE  Dialled(i)'
    <2>1. UNCHANGED calls /\ \E p \in {"wait", "idle", "left", "tls"} : cpc' = [cpc EXCEPT ![c] = p]
      BY <1>4 DEF Dial, DialFails, Leave, ClientDies, ClientVanishes, Proceeds, Connects, GivesUp,
         Fails, Succeeds
    <2> QED
      BY <1>2, <2>1
  <1>5. ASSUME NEW h \in Handler, Accept(h) \/ Moves(h) \/ LetsGo(h) PROVE Dialled(i)'
    BY <1>1, <1>5 DEF Accept, Moves, LetsGo
  <1>6. CASE Stop \/ HostFallsSilent \/ UNCHANGED vars
    BY <1>1, <1>6 DEF Stop, HostFallsSilent, vars, clientVars
  <1> QED
    BY <1>3, <1>4, <1>5, <1>6 DEF AnyStep

LEMMA ServerEndsStep ==
  ASSUME TypeInv, TypeInv', ServerEnds, AnyStep
  PROVE  ServerEnds'
  <1>0. /\ backlog \in Seq(Id) /\ Len(backlog) \in Nat
        /\ \A n \in 1..Len(backlog) : backlog[n] \in Id /\ backlog[n] # <<>>
        /\ \A h \in Handler : serving[h] # <<>> => serving[h] \in Id
    <2>1. backlog \in Seq(Id)
      BY DEF TypeInv, ServerInv
    <2>2. \A n \in 1..Len(backlog) : backlog[n] \in Id
      BY <2>1
    <2> QED
      BY <2>1, <2>2, Ids DEF TypeInv, ServerInv
  <1>1. ASSUME UNCHANGED <<serving, backlog>>, \A i \in Id : wire'[i].server => wire[i].server
        PROVE  ServerEnds'
    BY <1>0, <1>1, DialledStays DEF ServerEnds, OneOwner, Owned, OnceDialled
  <1>2. ASSUME NEW c \in Client, \/ Connect(c) \/ DialFails(c) \/ ClientVanishes(c)
        PROVE  ServerEnds'
    BY <1>1, <1>2 DEF Connect, DialFails, ClientVanishes, serverVars
  <1>3. ASSUME NEW c \in Client, Leave(c) PROVE ServerEnds'
    <2>1. \A i \in Id : wire'[i].server = wire[i].server
      <3>1. CASE conn[c] = None
        BY <1>3, <3>1 DEF Leave
      <3>2. CASE conn[c] # None
        <4>1. wire' = [wire EXCEPT ![conn[c].id].client = FALSE]
          BY <1>3, <3>2 DEF Leave, Hangs
        <4> QED
          BY <4>1 DEF TypeInv, WireInv, Ends
      <3> QED
        BY <3>1, <3>2
    <2> QED
      BY <1>1, <1>3, <2>1 DEF Leave, serverVars
  <1>4. ASSUME NEW c \in Client, ClientDies(c) PROVE ServerEnds'
    <2>1. \A i \in Id : wire'[i].server = wire[i].server
      BY <1>4 DEF ClientDies, TypeInv, WireInv, Ends
    <2> QED
      BY <1>1, <1>4, <2>1 DEF ClientDies, serverVars
  <1>5. ASSUME NEW c \in Client, Proceeds(c) \/ Connects(c) \/ GivesUp(c) PROVE ServerEnds'
    <2>1. This(c) \in Id
      BY <1>5, Current DEF TypeInv, Proceeds, Connects, GivesUp, Connecting
    <2>2. \A i \in Id : wire'[i].server = wire[i].server
      BY <1>5, <2>1 DEF Proceeds, Connects, GivesUp, Keeps, Changes, Like
    <2> QED
      BY <1>1, <1>5, <2>2 DEF Proceeds, Connects, GivesUp, serverVars
  <1>6. ASSUME NEW c \in Client, Dial(c) PROVE ServerEnds'
    <2>1. PICK i \in Id : i = This(c)
      BY <1>6, Current DEF Dial, TypeInv, Connecting
    <2>2. /\ i[1] = c /\ i[2] = calls[c] /\ cpc[c] = "dial" /\ UNCHANGED serving
          /\ backlog' = Append(backlog, i) /\ cpc' = [cpc EXCEPT ![c] = "wait"] /\ UNCHANGED calls
          /\ \A j \in Id : j # i => wire'[j] = wire[j]
      BY <1>6, <2>1, AnyStepConfig, Current, DialStep DEF Dial, TypeInv, Connecting
    <2>3. ~Dialled(i)
      BY <2>2 DEF Dialled
    <2>4. /\ Len(backlog') = Len(backlog) + 1
          /\ backlog'[Len(backlog) + 1] = i
          /\ \A n \in 1..Len(backlog) : backlog'[n] = backlog[n]
      BY <1>0, <2>2
    <2>5. \A n \in 1..Len(backlog') : \/ n \in 1..Len(backlog) /\ backlog'[n] = backlog[n]
                                      \/ n = Len(backlog) + 1 /\ backlog'[n] = i
      BY <1>0, <2>4
    <2>6. Dialled(i)'
      BY <2>2, Naturals DEF Dialled, TypeInv, ClientInv
    <2>7. OneOwner'
      <3>1. /\ \A n \in 1..Len(backlog) : backlog[n] # i
            /\ \A h \in Handler : serving[h] # i
        BY <2>3, Ids DEF ServerEnds, OnceDialled
      <3>2. \A n, m \in 1..Len(backlog') : backlog'[n] = backlog'[m] => n = m
        BY <2>5, <3>1 DEF ServerEnds, OneOwner
      <3>3. \A h \in Handler, n \in 1..Len(backlog') : serving[h] # backlog'[n]
        BY <2>5, <3>1 DEF ServerEnds, OneOwner
      <3> QED
        BY <2>2, <3>2, <3>3 DEF ServerEnds, OneOwner
    <2>8. Owned'
      <3>1. \A n \in 1..Len(backlog) : n \in 1..Len(backlog')
        BY <1>0, <2>4
      <3>2. Len(backlog) + 1 \in 1..Len(backlog')
        BY <1>0, <2>4
      <3>3. ASSUME NEW j \in Id, wire'[j].server
            PROVE  \/ \E h \in Handler : serving'[h] = j
                   \/ \E n \in 1..Len(backlog') : backlog'[n] = j
        <4>1. CASE j = i
          BY <2>4, <3>2, <4>1
        <4>2. CASE j # i
          BY <2>2, <2>4, <3>1, <3>3, <4>2 DEF ServerEnds, Owned
        <4> QED
          BY <4>1, <4>2
      <3> QED
        BY <3>3 DEF Owned
    <2>9. OnceDialled'
      BY <1>0, <2>2, <2>5, <2>6, DialledStays DEF ServerEnds, OnceDialled
    <2> QED
      BY <2>7, <2>8, <2>9 DEF ServerEnds
  <1>7. ASSUME NEW h \in Handler, Accept(h) PROVE ServerEnds'
    <2>1. /\ spc[h] = "accept" /\ backlog # <<>> /\ UNCHANGED wire
          /\ serving' = [serving EXCEPT ![h] = Head(backlog)] /\ backlog' = Tail(backlog)
      BY <1>7 DEF Accept
    <2>2. /\ Head(backlog) = backlog[1] /\ 1 \in 1..Len(backlog)
          /\ Len(backlog') = Len(backlog) - 1
          /\ \A n \in 1..Len(backlog') : n + 1 \in 1..Len(backlog) /\ backlog'[n] = backlog[n + 1]
      BY <1>0, <2>1
    <2>3. /\ serving[h] = <<>> /\ serving'[h] = backlog[1]
          /\ \A k \in Handler : k # h => serving'[k] = serving[k]
      BY <2>1, <2>2 DEF TypeInv, ServerInv
    <2>4. \A n \in 1..Len(backlog') : n + 1 # 1 /\ \A m \in 1..Len(backlog') : n + 1 = m + 1 => n = m
      OBVIOUS
    <2>5. OneOwner'
      <3>1. \A n \in 1..Len(backlog') : backlog'[n] # backlog[1]
        BY <2>2, <2>4 DEF ServerEnds, OneOwner
      <3>2. \A n, m \in 1..Len(backlog') : backlog'[n] = backlog'[m] => n = m
        BY <2>2, <2>4 DEF ServerEnds, OneOwner
      <3>3. \A g, k \in Handler : serving'[g] = serving'[k] /\ serving'[g] # <<>> => g = k
        BY <2>2, <2>3 DEF ServerEnds, OneOwner
      <3>4. \A k \in Handler, n \in 1..Len(backlog') : serving'[k] # backlog'[n]
        BY <2>2, <2>3, <3>1 DEF ServerEnds, OneOwner
      <3> QED
        BY <3>2, <3>3, <3>4 DEF OneOwner
    <2>6. Owned'
      <3>1. ASSUME NEW j \in Id, wire'[j].server
            PROVE  \/ \E k \in Handler : serving'[k] = j
                   \/ \E n \in 1..Len(backlog') : backlog'[n] = j
        <4>1. CASE \E k \in Handler : serving[k] = j
          <5>1. PICK k \in Handler : serving[k] = j
            BY <4>1
          <5>2. k # h
            BY <2>3, <5>1, Ids
          <5> QED
            BY <2>3, <5>1, <5>2
        <4>2. CASE \E n \in 1..Len(backlog) : backlog[n] = j
          <5>1. PICK n \in 1..Len(backlog) : backlog[n] = j
            BY <4>2
          <5>2. CASE n = 1
            BY <2>3, <5>1, <5>2
          <5>3. CASE n # 1
            <6>1. n - 1 \in 1..Len(backlog') /\ (n - 1) + 1 = n
              BY <1>0, <2>2, <5>3
            <6> QED
              BY <2>2, <5>1, <6>1
          <5> QED
            BY <5>2, <5>3
        <4> QED
          BY <2>1, <3>1, <4>1, <4>2 DEF ServerEnds, Owned
      <3> QED
        BY <3>1 DEF Owned
    <2>7. OnceDialled'
      BY <1>0, <2>2, <2>3, DialledStays DEF ServerEnds, OnceDialled
    <2> QED
      BY <2>5, <2>6, <2>7 DEF ServerEnds
  <1>8. ASSUME NEW h \in Handler, Moves(h) PROVE ServerEnds'
    <2>1. serving[h] \in Id /\ UNCHANGED <<serving, backlog>>
      BY <1>8, Held DEF Moves
    <2>2. \A i \in Id : wire'[i].server = wire[i].server
      BY <1>8, <2>1 DEF Moves, Keeps, Changes, Like
    <2> QED
      BY <1>1, <2>1, <2>2
  <1>9. ASSUME NEW h \in Handler, LetsGo(h) PROVE ServerEnds'
    <2> DEFINE i == serving[h]
    <2>1. /\ i \in Id /\ UNCHANGED backlog
          /\ ~wire'[i].server /\ \A j \in Id : j # i => wire'[j] = wire[j]
      BY <1>9, Held DEF LetsGo, Changes, Like
    <2>2. serving'[h] = <<>> /\ \A k \in Handler : k # h => serving'[k] = serving[k]
      BY <1>9 DEF LetsGo, TypeInv, ServerInv
    <2>3. OneOwner'
      BY <1>0, <2>1, <2>2 DEF ServerEnds, OneOwner
    <2>4. Owned'
      BY <2>1, <2>2 DEF ServerEnds, Owned
    <2>5. OnceDialled'
      BY <1>0, <2>1, <2>2, DialledStays DEF ServerEnds, OnceDialled
    <2> QED
      BY <2>3, <2>4, <2>5 DEF ServerEnds
  <1>10. CASE Stop
    <2>1. /\ backlog' = <<>> /\ UNCHANGED serving
          /\ wire' = [i \in Id |-> IF \E n \in 1..Len(backlog) : backlog[n] = i
                                     THEN [wire[i] EXCEPT !.server = FALSE] ELSE wire[i]]
      BY <1>10 DEF Stop
    <2>2. Len(backlog') = 0
      BY <2>1
    <2>3. \A i \in Id : wire'[i].server =>
            wire[i].server /\ ~(\E n \in 1..Len(backlog) : backlog[n] = i)
      BY <2>1 DEF TypeInv, WireInv, Ends
    <2>4. OneOwner'
      BY <2>1, <2>2 DEF ServerEnds, OneOwner
    <2>5. Owned'
      BY <2>1, <2>3 DEF ServerEnds, Owned
    <2>6. OnceDialled'
      BY <1>0, <2>1, <2>2, DialledStays DEF ServerEnds, OnceDialled
    <2> QED
      BY <2>4, <2>5, <2>6 DEF ServerEnds
  <1>11. CASE HostFallsSilent \/ UNCHANGED vars
    BY <1>1, <1>11 DEF HostFallsSilent, vars
  <1> QED
    BY <1>2, <1>3, <1>4, <1>5, <1>6, <1>7, <1>8, <1>9, <1>10, <1>11 DEF AnyStep

-----------------------------------------------------------------------------
(* The theorems *)

LEMMA Initially == Init => IInv
  <1> SUFFICES ASSUME Init PROVE IInv
    OBVIOUS
  <1>1. /\ config \in Configs
        /\ cpc = [c \in Client |-> "idle"] /\ calls = [c \in Client |-> 0]
        /\ conn = [c \in Client |-> None] /\ outcome = [c \in Client |-> "none"]
        /\ backlog = <<>> /\ host = "listening" /\ faults = 0
        /\ spc = [h \in Handler |-> "accept"] /\ serving = [h \in Handler |-> <<>>]
        /\ mode = [h \in Handler |-> "none"]
    BY DEF Init
  <1>2. DOMAIN wire = Id /\ \A i \in Id : ~wire[i].client /\ ~wire[i].server
    BY DEF Init
  <1>3. Len(backlog) = 0 /\ backlog \in Seq(Id)
    BY <1>1
  <1>4. ClientInv
    BY <1>1, Naturals DEF ClientInv, Connecting, Outcomes
  <1>5. ServerInv
    BY <1>1, <1>3, Naturals DEF ServerInv
  <1>6. WireInv
    <2>1. \A c : <<>> \in Seq(FromClient(c)) /\ <<>> \in Seq(ForClient(c))
      OBVIOUS
    <2> QED
      BY <1>2, <2>1 DEF Init, WireInv, Ends
  <1>7. Settling /\ RefusedWithReason
    BY <1>1 DEF Settling, RefusedWithReason
  <1>8. ClientEnds
    BY <1>1, <1>2 DEF ClientEnds, Connecting
  <1>9. ServerEnds
    BY <1>1, <1>2, <1>3 DEF ServerEnds, OneOwner, Owned, OnceDialled
  <1> QED
    BY <1>4, <1>5, <1>6, <1>7, <1>8, <1>9 DEF IInv, TypeInv

LEMMA Inductive == IInv /\ [Next]_vars => IInv'
  <1> SUFFICES ASSUME IInv, [Next]_vars PROVE IInv'
    OBVIOUS
  <1>1. TypeInv /\ AnyStep
    BY StepCases DEF IInv
  <1>2. TypeInv'
    BY <1>1, TypeStep
  <1> QED
    BY <1>1, <1>2, SettlingStep, RefusedStep, ClientEndsStep, ServerEndsStep DEF IInv

LEMMA Invariance == Spec => []IInv
  BY Initially, Inductive, PTL DEF Spec

\* The types that the runs check.
THEOREM HandshakeTypes == Spec => []TypeOK
  <1>1. IInv => TypeOK
    <2> SUFFICES ASSUME IInv PROVE TypeOK
      OBVIOUS
    <2>1. ClientInv /\ ServerInv /\ WireInv
      BY DEF IInv, TypeInv
    <2>2. \A i \in Id : wire[i].client \in BOOLEAN /\ wire[i].server \in BOOLEAN
      BY <2>1, EndParts DEF WireInv
    <2>3. \A h \in Handler : serving[h] \in IF spc[h] = "accept" THEN {<<>>} ELSE Id
      BY <2>1 DEF ServerInv
    <2> QED
      BY <2>1, <2>2, <2>3 DEF TypeOK, ClientInv, ServerInv, Outcomes
  <1> QED
    BY Invariance, <1>1, PTL

\* Both ends of a connection use the mode that their configurations agree on,
\* TLS whenever both allow it, whatever fails and whoever else connects.
THEOREM AgreedModeOnly == Spec => []NoDowngrade
  <1>1. IInv => NoDowngrade
    BY DEF IInv, Settling, NoDowngrade
  <1> QED
    BY Invariance, <1>1, PTL

\* A ProtocolError of connect() has a reason in the two configurations.
THEOREM NoGroundlessRefusal == Spec => []RefusedWithReason
  <1>1. IInv => RefusedWithReason
    BY DEF IInv
  <1> QED
    BY Invariance, <1>1, PTL

\* An open socket has one owner, at either end: none is lost with a call of
\* connect() or a negotiation that failed, however many run at once.
THEOREM OneOwnerEach == Spec => []SocketsOwned
  <1>1. IInv => SocketsOwned
    <2> SUFFICES ASSUME IInv PROVE SocketsOwned
      OBVIOUS
    <2>1. \A i \in Id : wire[i].client =>
            conn[i[1]].id = i \/ (cpc[i[1]] \in {"wait", "tls", "left"} /\ i = This(i[1]))
      BY DEF IInv, ClientEnds
    <2>2. ASSUME NEW i \in Id, wire[i].server
          PROVE  Cardinality({h \in Handler : serving[h] = i})
                   + Cardinality({n \in 1..Len(backlog) : backlog[n] = i}) = 1
      <3> DEFINE H == {h \in Handler : serving[h] = i}
                 B == {n \in 1..Len(backlog) : backlog[n] = i}
      <3>1. OneOwner /\ Owned /\ i # <<>>
        BY Ids DEF IInv, ServerEnds
      <3>2. (\E h : H = {h} /\ B = {}) \/ (\E n : H = {} /\ B = {n})
        <4>1. CASE \E h \in Handler : serving[h] = i
          <5>1. PICK h \in Handler : serving[h] = i
            BY <4>1
          <5>2. H = {h}
            BY <3>1, <5>1 DEF OneOwner
          <5>3. B = {}
            BY <3>1, <5>1 DEF OneOwner
          <5> QED
            BY <5>2, <5>3
        <4>2. CASE \E n \in 1..Len(backlog) : backlog[n] = i
          <5>1. PICK n \in 1..Len(backlog) : backlog[n] = i
            BY <4>2
          <5>2. H = {}
            BY <3>1, <5>1 DEF OneOwner
          <5>3. B = {n}
            BY <3>1, <5>1 DEF OneOwner
          <5> QED
            BY <5>2, <5>3
        <4> QED
          BY <2>2, <3>1, <4>1, <4>2 DEF Owned
      <3> HIDE DEF H, B
      <3>3. Cardinality(H) + Cardinality(B) = 1
        <4>1. \A x : Cardinality({x}) = 1
          BY FS_Singleton
        <4>2. Cardinality({}) = 0
          BY FS_EmptySet
        <4>3. \/ Cardinality(H) = 1 /\ Cardinality(B) = 0
              \/ Cardinality(H) = 0 /\ Cardinality(B) = 1
          BY <3>2, <4>1, <4>2
        <4> QED
          BY <4>3
      <3> QED
        BY <3>3 DEF H, B
    <2> QED
      BY <2>1, <2>2 DEF SocketsOwned
  <1> QED
    BY Invariance, <1>1, PTL
=============================================================================
