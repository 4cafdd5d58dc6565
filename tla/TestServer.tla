----------------------------- MODULE TestServer -----------------------------
(***************************************************************************)
(* The servers of the tests, VDMSServer (test/VDMSServer.cc) and           *)
(* AuthEnabledVDMSServer (test/AuthEnabledVDMSServer.cc): a thread that    *)
(* accepts one connection, negotiates, and answers requests until it is    *)
(* told to stop, and a destructor that tells it and joins it.  A program   *)
(* of the kind "barrier" is a test that makes a ConnServer in a thread of  *)
(* its own, meets it at a Barrier (test/Barrier.cc) before it connects,    *)
(* and lets the thread end after the negotiation.  The kind "any" is any   *)
(* user of a ConnServer or ConnClient, which makes and drops sessions and  *)
(* the object itself in any order.                                         *)
(*                                                                         *)
(* The ConnServer is constructed and destroyed as in ServerContext.  The   *)
(* client is any program; what it may do wrong is bounded by what the      *)
(* thread can tell apart.  Messages are whole, as Connection shows, and    *)
(* the negotiation is one step, Handshake in small.                        *)
(***************************************************************************)
EXTENDS ServerContext

CONSTANT MaxRequests    \* bound on the requests that wait for an answer

\* A configuration also says which kind of program it is, whether TLS is
\* negotiated, and whether requests need JSON that parses.
ASSUME TestAssumption ==
  /\ \A x \in Configs : /\ x.kind \in {"class", "barrier", "any"}
                        /\ x.side = "client" => x.kind = "any"
                        /\ x.tls \in BOOLEAN /\ x.auth \in BOOLEAN
  /\ Sessions # {}
  /\ MaxRequests \in Nat \ {0}

VARIABLES
  owner,    \* the thread of the program, which has the server and its destructor
  worker,   \* the server's thread
  stop,     \* _stop_signal
  count,    \* Barrier::_count
  client,   \* what has become of the connection at the client's end
  inbox,    \* sent by the client and not yet read
  pending,  \* requests sent and not yet answered
  rude      \* the client did something no well-behaved client does

clientVars == <<client, inbox, pending, rude>>
vars == <<contextVars, owner, worker, stop, count, clientVars>>

\* The session of the one connection a test server accepts
Session == CHOOSE s \in Sessions : TRUE

Barrier == config.kind = "barrier"

TestInit ==
  /\ ContextInit
  /\ owner = IF Barrier THEN "testing" ELSE "constructing"
  /\ worker = IF Barrier THEN "constructing" ELSE "none"
  /\ stop = FALSE
  /\ count = IF Barrier THEN 2 ELSE 0
  /\ client = "away"
  /\ inbox = <<>>
  /\ pending = 0
  /\ rude = FALSE

Running == owner \notin {"terminated", "done"}

-----------------------------------------------------------------------------
(* Construction, and the Barrier *)

\* The ConnServer is constructed by the owner or by the thread of the test.  An
\* exception there fails the test, or ends the process when it is the thread's.
ConstructServer ==
  /\ Running
  /\ Construct
  /\ \/ /\ pc' \in {"failed", "exited"}
        /\ owner' = IF pc' = "failed" /\ ~Barrier THEN "done" ELSE "terminated"
        /\ UNCHANGED worker
     \/ /\ pc' = "ready"
        /\ owner' = IF Barrier THEN owner ELSE "testing"
        /\ worker' = CASE config.kind = "class" -> "accepting"
                       [] config.kind = "barrier" -> "arriving"
                       [] config.kind = "any" -> "none"
     \/ /\ pc' \notin {"failed", "exited", "ready"}
        /\ UNCHANGED <<owner, worker>>
  /\ UNCHANGED <<stop, count, clientVars>>

\* Mutant: the first to come does not wait.
CountsToOne(others) == count' = count - 1 /\ others = (count' = 1)

\* Barrier::wait up to the wait: the last one to come lets the others go.
Arrives(open) == count' = count - 1 /\ open = (count' = 0)

WorkerArrives ==
  /\ Running
  /\ worker = "arriving"
  /\ \E open \in BOOLEAN :
       Arrives(open) /\ worker' = IF open THEN "accepting" ELSE "waiting"
  /\ UNCHANGED <<contextVars, owner, stop, clientVars>>

OwnerArrives ==
  /\ Running
  /\ Barrier /\ owner = "testing"
  /\ \E open \in BOOLEAN :
       Arrives(open) /\ owner' = IF open THEN "connecting" ELSE "waiting"
  /\ UNCHANGED <<contextVars, worker, stop, clientVars>>

\* Barrier::wait: a thread that waits finds the count to be zero.
Wakes ==
  /\ Running
  /\ count = 0
  /\ \/ worker = "waiting" /\ worker' = "accepting" /\ UNCHANGED owner
     \/ owner = "waiting" /\ owner' = "connecting" /\ UNCHANGED worker
  /\ UNCHANGED <<contextVars, stop, count, clientVars>>

\* Whatever else makes sessions from the context, and lets go of them or of the
\* ConnServer or ConnClient
Use ==
  /\ config.kind = "any"
  /\ Destroy \/ \E s \in Sessions : NewSession(s) \/ EndSession(s)
  /\ UNCHANGED <<owner, worker, stop, count, clientVars>>

-----------------------------------------------------------------------------
(* The client *)

\* A connection is only dialled when the program of the test says so: after the
\* constructor of the server, or after the barrier.
MayDial == owner \in IF Barrier THEN {"connecting", "joining"} ELSE {"testing", "joining"}

Connected == client \in {"dialled", "talking"}

\* It dials and sends its hello, nothing, or what is none; or its hello and
\* nothing of the TLS handshake that is to follow.
Dial ==
  /\ Running
  /\ config.kind # "any" /\ MayDial
  /\ client = "away"
  /\ client' = "dialled"
  /\ inbox' \in {<<>>, <<"hello">>, <<"garbage">>}
                 \cup (IF config.tls THEN {<<"barehello">>} ELSE {})
  /\ rude' = (inbox' # <<"hello">>)
  /\ UNCHANGED <<contextVars, owner, worker, stop, count, pending>>

\* A request, bytes that are no protobuf, or a protobuf whose JSON does not parse
Ask ==
  /\ Running
  /\ client = "talking"
  /\ pending < MaxRequests
  /\ pending' = pending + 1
  /\ \E r \in {"request", "garbage", "badjson"} :
       inbox' = Append(inbox, r) /\ rude' = (rude \/ r # "request")
  /\ UNCHANGED <<contextVars, owner, worker, stop, count, client>>

\* It closes the connection.  It should not before it has its answers.
Close ==
  /\ Running
  /\ Connected
  /\ client' = "closed"
  /\ rude' = (rude \/ client = "dialled" \/ pending > 0)
  /\ UNCHANGED <<contextVars, owner, worker, stop, count, inbox, pending>>

\* It dies with unread bytes, or its host comes back without the connection.
Reset ==
  /\ Running
  /\ Connected
  /\ client' = "reset"
  /\ inbox' = <<>>
  /\ rude' = TRUE
  /\ UNCHANGED <<contextVars, owner, worker, stop, count, pending>>

-----------------------------------------------------------------------------
(* The thread *)

\* An exception leaves the thread, and std::terminate the process.
Terminates ==
  /\ owner' = "terminated"
  /\ UNCHANGED <<contextVars, worker, stop, count, clientVars>>

\* accept() waits for a client, timeouts or not.
Accept ==
  /\ Running
  /\ worker = "accepting"
  /\ client # "away"
  /\ worker' = "negotiating"
  /\ UNCHANGED <<contextVars, owner, stop, count, clientVars>>

\* negotiate_protocol, outside of any try: the client has to be there, and with
\* TLS to stay and to answer in the handshake.
Negotiate ==
  /\ Running
  /\ worker = "negotiating"
  /\ \/ /\ ~Connected \/ inbox \in {<<"garbage">>, <<"barehello">>}
        /\ Terminates
     \/ /\ inbox = <<"hello">>
        /\ client = "dialled" \/ (client = "closed" /\ ~config.tls)
        /\ inbox' = <<>>
        /\ client' = IF client = "dialled" THEN "talking" ELSE client
        /\ worker' = IF Barrier THEN "leaving" ELSE "checking"
        /\ IF config.tls THEN NewSession(Session) ELSE UNCHANGED contextVars
        /\ UNCHANGED <<owner, stop, count, pending, rude>>

\* Mutant: the stop flag is not looked at.
NeverStopped == FALSE

Stopped == stop

\* while (!_stop_signal)
CheckStop ==
  /\ Running
  /\ worker = "checking"
  /\ worker' = IF Stopped THEN "leaving" ELSE "receiving"
  /\ UNCHANGED <<contextVars, owner, stop, count, clientVars>>

\* Mutant: no exception is caught.
CatchesNone(exception) == FALSE

\* The handler around receive_message
Catches(exception) == exception = "ConnectionShutDown"

Thrown(exception) ==
  IF Catches(exception)
  THEN /\ worker' = "leaving"
       /\ UNCHANGED <<contextVars, owner, stop, count, clientVars>>
  ELSE Terminates

Malformed(r) == r = "garbage" \/ (r = "badjson" /\ config.auth)

\* receive_message, and is_authenticate_request that parses what it brings.  The
\* end of a connection is reported as TCPConnection::read and
\* TLSConnection::read do.
Receive ==
  /\ Running
  /\ worker = "receiving"
  /\ \/ /\ inbox # <<>> /\ Malformed(Head(inbox))
        /\ Terminates
     \/ /\ inbox # <<>> /\ ~Malformed(Head(inbox))
        /\ inbox' = Tail(inbox)
        /\ worker' = "answering"
        /\ UNCHANGED <<contextVars, owner, stop, count, client, pending, rude>>
     \/ /\ inbox = <<>> /\ client = "closed"
        /\ Thrown("ConnectionShutDown")
     \/ /\ inbox = <<>> /\ client = "reset"
        /\ Thrown(IF config.tls THEN "ConnectionShutDown" ELSE "ReadFail")

\* Nothing comes for MAX_RECV_TIMEOUT_SECS.  A thread that negotiates ends the
\* process, the loop of a plain connection ends, and TLSConnection::read starts
\* over.
Timeout ==
  /\ Running
  /\ inbox = <<>> /\ Connected
  /\ \/ worker = "negotiating" /\ Terminates
     \/ worker = "receiving" /\ ~config.tls /\ Thrown("ConnectionShutDown")

\* send_message, outside of the try.  A client that closed resets the connection
\* when it gets an answer.
Answer ==
  /\ Running
  /\ worker = "answering"
  /\ \/ /\ ~Connected
        /\ Terminates
     \/ /\ client # "reset"
        /\ worker' = "checking"
        /\ pending' = pending - 1
        /\ \/ UNCHANGED <<client, inbox>>
           \/ client = "closed" /\ client' = "reset" /\ inbox' = <<>>
        /\ UNCHANGED <<contextVars, owner, stop, count, rude>>

\* The thread returns: its connection goes, and the ConnServer if it is its own.
Return ==
  /\ Running
  /\ worker = "leaving"
  /\ \/ /\ mem.held[Session] # {}
        /\ EndSession(Session)
        /\ UNCHANGED worker
     \/ /\ mem.held[Session] = {}
        /\ IF Barrier THEN Destroy ELSE UNCHANGED contextVars
        /\ worker' = "returned"
  /\ UNCHANGED <<owner, stop, count, clientVars>>

-----------------------------------------------------------------------------
(* The destructor *)

\* ~VDMSServer sets the flag; a test with a Barrier has none to set.
Joins ==
  /\ Running
  /\ \/ config.kind = "class" /\ owner = "testing" /\ stop' = TRUE
     \/ Barrier /\ owner = "connecting" /\ UNCHANGED stop
  /\ owner' = "joining"
  /\ UNCHANGED <<contextVars, worker, count, clientVars>>

\* Mutant: the thread is detached.
Detached ==
  /\ owner = "joining"
  /\ owner' = "done"
  /\ IF Barrier THEN UNCHANGED contextVars ELSE Destroy
  /\ UNCHANGED <<worker, stop, count, clientVars>>

\* join, and the members go
Joined ==
  /\ owner = "joining"
  /\ worker = "returned"
  /\ owner' = "done"
  /\ IF Barrier THEN UNCHANGED contextVars ELSE Destroy
  /\ UNCHANGED <<worker, stop, count, clientVars>>

Work ==
  \/ WorkerArrives \/ Accept \/ Negotiate \/ CheckStop \/ Receive
  \/ Timeout \/ Answer \/ Return

TestNext ==
  \/ ConstructServer \/ OwnerArrives \/ Wakes \/ Use
  \/ Dial \/ Ask \/ Close \/ Reset
  \/ Work \/ Joins \/ Joined

\* Threads run and receive timeouts expire.  Nothing is assumed of the client,
\* nor that the test ever gets to the destructor.
TestSpec ==
  /\ TestInit /\ [][TestNext]_vars
  /\ WF_vars(ConstructServer) /\ WF_vars(Wakes) /\ WF_vars(Work) /\ WF_vars(Joined)

-----------------------------------------------------------------------------
(* Properties *)

\* Every variable has its type, and the thread goes no further than a ConnServer
\* that is constructed and not yet destroyed lets it.
TypeOK ==
  /\ ContextTypeOK
  /\ owner \in {"constructing", "testing", "waiting", "connecting", "joining",
                "done", "terminated"}
  /\ worker \in {"none", "constructing", "arriving", "waiting", "accepting",
                 "negotiating", "checking", "receiving", "answering", "leaving", "returned"}
  /\ stop \in BOOLEAN /\ rude \in BOOLEAN
  /\ count \in 0..2
  /\ client \in {"away", "dialled", "talking", "closed", "reset"}
  /\ inbox \in Seq({"hello", "barehello", "request", "garbage", "badjson"})
  /\ pending \in 0..MaxRequests /\ Len(inbox) <= pending + 1
  /\ worker \notin {"none", "constructing", "returned"} => pc = "ready"

\* The process is ended only by a constructor that fails, or by a client that is
\* rude: one that negotiates at once, sends what can be parsed, and closes after
\* its last answer, or stays for ever, ends at most the loop.
OnlyRudeClientsKill ==
  owner = "terminated" /\ pc \notin {"failed", "exited"} => rude

\* A client that connects when it is told to finds a listening socket: behind
\* the constructor or the Barrier, whichever thread comes first.
DialsAListener == client # "away" => pc \in {"ready", "gone"}

\* The destructor gets its thread back, unless nobody ever connected, or a TLS
\* client stays and says nothing: the thread then waits in accept() or in
\* recv_message for ever, and does not look at the stop flag.  A client that
\* never stops asking does not hold it up.
SilentTls ==
  config.tls /\ client = "talking" /\ inbox = <<>> /\ worker = "receiving"

DestructorReturns == <>[](owner = "joining") => <>[](client = "away" \/ SilentTls)
=============================================================================
