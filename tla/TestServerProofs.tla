-------------------------- MODULE TestServerProofs --------------------------
(***************************************************************************)
(* Proofs about TestServer: what its threads do is a behaviour of          *)
(* ServerContext, so that the theorems about references hold of it; only   *)
(* rude clients end the process; and a client that dials finds a socket    *)
(* that listens.                                                           *)
(***************************************************************************)
EXTENDS TestServer, ServerContextProofs

Constructing == Making \cup Loading \cup {"listen"}

Message == {"hello", "barehello", "request", "garbage", "badjson"}

ThreadTypes ==
  /\ owner \in {"constructing", "testing", "waiting", "connecting", "joining",
                "done", "terminated"}
  /\ worker \in {"none", "constructing", "arriving", "waiting", "accepting",
                 "negotiating", "checking", "receiving", "answering", "leaving", "returned"}
  /\ stop \in BOOLEAN
  /\ count \in 0..2

ClientTypes ==
  /\ rude \in BOOLEAN
  /\ client \in {"away", "dialled", "talking", "closed", "reset"}
  /\ inbox \in Seq(Message)
  /\ pending \in 0..MaxRequests

\* Where the threads of each kind of program are, and what that says of the
\* ConnServer they share.
Threads ==
  /\ config.kind = "any" => worker = "none"
  /\ config.kind = "class" =>
       /\ worker \notin {"constructing", "arriving", "waiting"}
       /\ owner \in {"testing", "joining"} => pc = "ready"
  /\ Barrier => worker # "none"
  /\ worker \notin {"none", "constructing", "returned"} => pc = "ready"
  /\ worker = "returned" => pc \in {"ready", "gone"}

\* The count of the barrier is the number of threads that did not reach it.
Barred ==
  Barrier =>
    /\ owner # "terminated" =>
         count = (IF worker \in {"constructing", "arriving"} THEN 1 ELSE 0)
                   + (IF owner = "testing" THEN 1 ELSE 0)
    /\ owner \in {"connecting", "joining"} => count = 0

Before == worker \in {"none", "constructing", "arriving", "waiting", "accepting", "negotiating"}

\* What the client has sent, and what it did that nobody should
Talk ==
  /\ client = "away" => Before /\ worker # "negotiating"
  /\ Before =>
       /\ client # "talking" /\ pending = 0
       /\ inbox \in {<<>>, <<"hello">>, <<"barehello">>, <<"garbage">>}
       /\ client = "closed" => rude
       /\ client = "dialled" => rude \/ inbox = <<"hello">>
  /\ ~Before =>
       /\ client # "dialled"
       /\ Len(inbox) + (IF worker = "answering" THEN 1 ELSE 0) <= pending
  /\ \A i \in 1..Len(inbox) : inbox[i] \in {"barehello", "garbage", "badjson"} => rude
  /\ client = "reset" => rude
  /\ client = "closed" /\ pending > 0 => rude

TestInv ==
  /\ ThreadTypes /\ ClientTypes /\ Threads /\ Barred /\ Talk
  /\ OnlyRudeClientsKill /\ DialsAListener

-----------------------------------------------------------------------------
(* What a step does to the ConnServer *)

LEMMA SessionIsOne == Session \in Sessions
  BY TestAssumption DEF Session

LEMMA ConstructMoves ==
  ASSUME Construct
  PROVE  pc \in Constructing /\ config' = config
  <1> USE DEF Constructing, Making, Loading, Throws, Goes, Returns
  <1>1. CASE CreateContext
    BY <1>1 DEF CreateContext
  <1>2. CASE GenerateKey \/ AssignKey \/ WritePem
    BY <1>2 DEF GenerateKey, AssignKey, WritePem
  <1>3. CASE ReadText \/ UseCa \/ UseCertificate
    BY <1>3 DEF ReadText, UseCa, UseCertificate
  <1>4. CASE NextInChain \/ AddChain
    BY <1>4 DEF NextInChain, AddChain
  <1>5. CASE UseKey \/ Listen
    BY <1>5 DEF UseKey, Listen
  <1> QED
    BY <1>1, <1>2, <1>3, <1>4, <1>5 DEF Construct

LEMMA SessionMoves ==
  ASSUME NEW s \in Sessions, NewSession(s) \/ EndSession(s)
  PROVE  pc' = pc /\ config' = config /\ ContextNext
  BY DEF NewSession, EndSession, Goes, ContextNext

LEMMA DestroyMoves ==
  ASSUME Destroy
  PROVE  pc = "ready" /\ pc' = "gone" /\ config' = config /\ ContextNext
  BY DEF Destroy, Goes, ContextNext

\* The threads use the ConnServer as ServerContext says.
LEMMA UsesContext ==
  ASSUME [TestNext]_vars
  PROVE  [ContextNext]_contextVars
  <1>1. CASE ConstructServer
    BY <1>1 DEF ConstructServer, ContextNext
  <1>2. CASE Use \/ Return \/ Joined
    BY <1>2, SessionIsOne, SessionMoves, DestroyMoves DEF Use, Return, Joined
  <1>3. CASE Negotiate
    BY <1>3, SessionIsOne, SessionMoves DEF Negotiate, Terminates
  <1>4. CASE OwnerArrives \/ Wakes \/ Dial \/ Ask \/ Close \/ Reset \/ Joins
    BY <1>4 DEF OwnerArrives, Wakes, Dial, Ask, Close, Reset, Joins
  <1>5. CASE WorkerArrives \/ Accept \/ CheckStop \/ Receive \/ Timeout \/ Answer
    BY <1>5 DEF WorkerArrives, Accept, CheckStop, Receive, Timeout, Answer, Terminates, Thrown
  <1>6. CASE UNCHANGED vars
    BY <1>6 DEF vars
  <1> QED
    BY <1>1, <1>2, <1>3, <1>4, <1>5, <1>6 DEF TestNext, Work

LEMMA ContextKept ==
  ASSUME IInv, [TestNext]_vars
  PROVE  IInv'
  BY UsesContext, ContextStep, ContextStutters

-----------------------------------------------------------------------------
(* Every step keeps TestInv. *)

\* What configurations are, and that they stay
LEMMA Kind ==
  ASSUME IInv
  PROVE  config.kind \in {"class", "barrier", "any"} /\ (Barrier <=> config.kind = "barrier")
  BY TestAssumption DEF IInv, Right, Order, Barrier

LEMMA InitKept == TestInit => TestInv
  <1> SUFFICES ASSUME TestInit PROVE TestInv
    OBVIOUS
  <1>0. IInv
    BY InitRight DEF TestInit
  <1>1. pc = "create" /\ client = "away" /\ inbox = <<>> /\ pending = 0 /\ rude = FALSE /\ stop = FALSE
    BY DEF TestInit, ContextInit
  <1>2. /\ owner = IF Barrier THEN "testing" ELSE "constructing"
        /\ worker = IF Barrier THEN "constructing" ELSE "none"
        /\ count = IF Barrier THEN 2 ELSE 0
    BY DEF TestInit
  <1>3. ThreadTypes
    <2>1. stop \in BOOLEAN
      BY <1>1
    <2>2. count \in 0..2
      BY <1>2
    <2>3. owner \in {"testing", "constructing"} /\ worker \in {"constructing", "none"}
      BY <1>2
    <2> QED
      BY <2>1, <2>2, <2>3 DEF ThreadTypes
  <1>4. ClientTypes
    <2>1. inbox \in Seq(Message) /\ client = "away"
      BY <1>1
    <2>2. pending \in 0..MaxRequests
      BY <1>1, TestAssumption
    <2>3. rude \in BOOLEAN
      BY <1>1
    <2> QED
      BY <2>1, <2>2, <2>3 DEF ClientTypes
  <1>5. Threads /\ Barred
    BY <1>0, <1>1, <1>2, Kind DEF Threads, Barred
  <1>6. Talk
    BY <1>1, <1>2 DEF Talk, Before
  <1>7. OnlyRudeClientsKill /\ DialsAListener
    BY <1>1, <1>2 DEF OnlyRudeClientsKill, DialsAListener
  <1> QED
    BY <1>3, <1>4, <1>5, <1>6, <1>7 DEF TestInv

LEMMA ConstructKept ==
  ASSUME IInv, TestInv, ConstructServer
  PROVE  TestInv'
  <1>0. /\ pc \in Constructing /\ config' = config
        /\ UNCHANGED <<stop, count, client, inbox, pending, rude>>
        /\ Running
    BY ConstructMoves DEF ConstructServer, clientVars
  <1>1. pc \notin {"ready", "gone", "failed", "exited"}
    BY <1>0 DEF Constructing, Making, Loading
  <1>2. /\ ThreadTypes /\ ClientTypes /\ Threads /\ Barred /\ Talk /\ DialsAListener
    BY DEF TestInv
  <1>3. worker \in {"none", "constructing"} /\ client = "away" /\ owner # "terminated"
    BY <1>0, <1>1, <1>2 DEF Threads, DialsAListener, ThreadTypes, Running
  <1>4. \/ /\ pc' \in {"failed", "exited"}
           /\ owner' = IF pc' = "failed" /\ ~Barrier THEN "done" ELSE "terminated"
           /\ worker' = worker
        \/ /\ pc' = "ready"
           /\ owner' = IF Barrier THEN owner ELSE "testing"
           /\ worker' = CASE config.kind = "class" -> "accepting"
                          [] config.kind = "barrier" -> "arriving"
                          [] config.kind = "any" -> "none"
        \/ /\ pc' \notin {"failed", "exited", "ready"}
           /\ owner' = owner /\ worker' = worker
    BY DEF ConstructServer
  <1>5. /\ config.kind \in {"class", "barrier", "any"} /\ (Barrier <=> config.kind = "barrier")
        /\ (Barrier' <=> Barrier)
    BY <1>0, Kind DEF Barrier
  <1>6. /\ pc' \in {"failed", "exited"} => worker' = worker
        /\ pc' = "ready" /\ config.kind = "class" => worker' = "accepting"
        /\ pc' = "ready" /\ config.kind = "barrier" => worker' = "arriving"
        /\ pc' = "ready" /\ config.kind = "any" => worker' = "none"
        /\ pc' \notin {"failed", "exited", "ready"} => worker' = worker
    BY <1>4
  <1>7. ThreadTypes'
    BY <1>0, <1>2, <1>4, <1>5, <1>6 DEF ThreadTypes
  <1>8. Threads'
    BY <1>0, <1>1, <1>2, <1>3, <1>4, <1>5, <1>6 DEF Threads
  <1>9. Barred'
    <2>1. ASSUME Barrier
          PROVE  /\ owner' # "terminated" => owner' = owner
                 /\ worker' \in {"constructing", "arriving"}
                 /\ worker = "constructing"
      BY <1>2, <1>3, <1>4, <1>5, <1>6, <2>1 DEF Threads
    <2>2. ASSUME Barrier PROVE owner \notin {"connecting", "joining"}
      BY <1>2, <1>3, <2>1, <2>2 DEF Barred, ThreadTypes
    <2>3. ASSUME Barrier, owner' = "terminated" \/ owner' = owner
          PROVE  owner' \notin {"connecting", "joining"}
      BY <2>2, <2>3
    <2> QED
      BY <1>0, <1>2, <1>3, <1>5, <2>1, <2>2, <2>3 DEF Barred
  <1>10. ClientTypes' /\ Talk'
    <2>1. Before /\ Before' /\ worker' # "negotiating"
      BY <1>3, <1>4, <1>5, <1>6 DEF Before
    <2> QED
      BY <1>0, <1>2, <1>3, <2>1 DEF ClientTypes, Talk
  <1>11. OnlyRudeClientsKill' /\ DialsAListener'
    BY <1>0, <1>3, <1>4 DEF OnlyRudeClientsKill, DialsAListener
  <1> QED
    BY <1>7, <1>8, <1>9, <1>10, <1>11 DEF TestInv

\* The steps at the barrier leave the client and the ConnServer alone.
LEMMA BarrierKept ==
  ASSUME IInv, TestInv, WorkerArrives \/ OwnerArrives \/ Wakes
  PROVE  TestInv'
  <1>0. /\ UNCHANGED <<config, pc, stop, client, inbox, pending, rude>>
        /\ Running
    BY DEF WorkerArrives, OwnerArrives, Wakes, clientVars, contextVars
  <1>1. /\ ThreadTypes /\ ClientTypes /\ Threads /\ Barred /\ Talk /\ DialsAListener
    BY DEF TestInv
  <1>2. /\ config.kind \in {"class", "barrier", "any"} /\ (Barrier <=> config.kind = "barrier")
        /\ (Barrier' <=> Barrier)
    BY <1>0, Kind DEF Barrier
  <1>3. owner # "terminated"
    BY <1>0 DEF Running
  <1>4. CASE WorkerArrives
    <2>1. /\ worker = "arriving" /\ owner' = owner /\ count' = count - 1
          /\ worker' = IF count' = 0 THEN "accepting" ELSE "waiting"
      <3>1. PICK open \in BOOLEAN : Arrives(open) /\ worker' = IF open THEN "accepting" ELSE "waiting"
        BY <1>4 DEF WorkerArrives
      <3> QED
        BY <1>4, <3>1 DEF WorkerArrives, Arrives
    <2>2. Barrier
      BY <1>1, <1>2, <2>1 DEF Threads
    <2>3. count \in 1..2 /\ owner \notin {"connecting", "joining"}
          /\ count = 1 + (IF owner = "testing" THEN 1 ELSE 0)
      BY <1>1, <1>3, <2>1, <2>2 DEF Barred, ThreadTypes
    <2>4. worker' \in {"accepting", "waiting"}
      BY <2>1
    <2>5. ThreadTypes'
      BY <1>0, <1>1, <2>1, <2>3, <2>4 DEF ThreadTypes
    <2>6. Threads'
      BY <1>0, <1>1, <1>2, <2>1, <2>2, <2>4 DEF Threads
    <2>7. Barred'
      BY <1>2, <2>1, <2>3, <2>4 DEF Barred
    <2>8. Talk' /\ ClientTypes'
      <3>1. Before /\ Before'
        BY <2>1, <2>4 DEF Before
      <3> QED
        BY <1>0, <1>1, <2>4, <3>1 DEF Talk, ClientTypes
    <2>9. OnlyRudeClientsKill' /\ DialsAListener'
      BY <1>0, <1>1, <1>3, <2>1 DEF OnlyRudeClientsKill, DialsAListener
    <2> QED
      BY <2>5, <2>6, <2>7, <2>8, <2>9 DEF TestInv
  <1>5. CASE OwnerArrives
    <2>1. /\ Barrier /\ owner = "testing" /\ worker' = worker /\ count' = count - 1
          /\ owner' = IF count' = 0 THEN "connecting" ELSE "waiting"
      <3>1. PICK open \in BOOLEAN : Arrives(open) /\ owner' = IF open THEN "connecting" ELSE "waiting"
        BY <1>5 DEF OwnerArrives
      <3> QED
        BY <1>5, <3>1 DEF OwnerArrives, Arrives
    <2>2. count \in 1..2
          /\ count = (IF worker \in {"constructing", "arriving"} THEN 1 ELSE 0) + 1
      BY <1>1, <1>3, <2>1 DEF Barred, ThreadTypes
    <2>3. owner' \in {"connecting", "waiting"}
      BY <2>1
    <2>4. ThreadTypes'
      BY <1>0, <1>1, <2>1, <2>2, <2>3 DEF ThreadTypes
    <2>5. Threads'
      BY <1>0, <1>1, <1>2, <2>1 DEF Threads
    <2>6. Barred'
      BY <1>2, <2>1, <2>2, <2>3 DEF Barred
    <2>7. Talk' /\ ClientTypes'
      BY <1>0, <1>1, <2>1 DEF Talk, ClientTypes, Before
    <2>8. OnlyRudeClientsKill' /\ DialsAListener'
      BY <1>0, <1>1, <2>3 DEF OnlyRudeClientsKill, DialsAListener
    <2> QED
      BY <2>4, <2>5, <2>6, <2>7, <2>8 DEF TestInv
  <1>6. CASE Wakes
    <2>1. /\ count = 0 /\ count' = count
          /\ \/ worker = "waiting" /\ worker' = "accepting" /\ owner' = owner
             \/ owner = "waiting" /\ owner' = "connecting" /\ worker' = worker
      BY <1>6 DEF Wakes
    <2>2. ThreadTypes'
      BY <1>0, <1>1, <2>1 DEF ThreadTypes
    <2>3. Threads'
      BY <1>0, <1>1, <1>2, <2>1 DEF Threads
    <2>4. Barred'
      BY <1>1, <1>2, <1>3, <2>1 DEF Barred
    <2>5. Talk' /\ ClientTypes'
      BY <1>0, <1>1, <2>1 DEF Talk, ClientTypes, Before
    <2>6. OnlyRudeClientsKill' /\ DialsAListener'
      BY <1>0, <1>1, <1>3, <2>1 DEF OnlyRudeClientsKill, DialsAListener
    <2> QED
      BY <2>2, <2>3, <2>4, <2>5, <2>6 DEF TestInv
  <1> QED
    BY <1>4, <1>5, <1>6

\* Other programs have neither thread nor client.
LEMMA UseKept ==
  ASSUME IInv, TestInv, Use
  PROVE  TestInv'
  <1>0. /\ config.kind = "any" /\ config' = config
        /\ UNCHANGED <<owner, worker, stop, count, client, inbox, pending, rude>>
        /\ pc' = pc \/ (pc = "ready" /\ pc' = "gone")
    BY SessionMoves, DestroyMoves DEF Use, clientVars
  <1>1. /\ ThreadTypes /\ ClientTypes /\ Threads /\ Barred /\ Talk
        /\ OnlyRudeClientsKill /\ DialsAListener
    BY DEF TestInv
  <1>2. ThreadTypes' /\ ClientTypes'
    BY <1>0, <1>1 DEF ThreadTypes, ClientTypes
  <1>3. Threads' /\ Barred'
    BY <1>0, <1>1 DEF Threads, Barred, Barrier
  <1>4. Talk'
    BY <1>0, <1>1 DEF Talk, Before
  <1>5. OnlyRudeClientsKill' /\ DialsAListener'
    BY <1>0, <1>1 DEF OnlyRudeClientsKill, DialsAListener
  <1> QED
    BY <1>2, <1>3, <1>4, <1>5 DEF TestInv

\* A step of the client leaves the threads where they are.
LEMMA ClientKept ==
  ASSUME TestInv, Dial \/ Ask \/ Close \/ Reset
  PROVE  /\ UNCHANGED <<config, pc, owner, worker, stop, count>>
         /\ Running
         /\ ThreadTypes' /\ Threads' /\ Barred' /\ OnlyRudeClientsKill'
  <1>0. UNCHANGED <<config, pc, owner, worker, stop, count>> /\ Running
    BY DEF Dial, Ask, Close, Reset, contextVars
  <1>1. ThreadTypes /\ Threads /\ Barred
    BY DEF TestInv
  <1>2. ThreadTypes' /\ Threads' /\ Barred'
    BY <1>0, <1>1 DEF ThreadTypes, Threads, Barred, Barrier
  <1>3. OnlyRudeClientsKill'
    BY <1>0 DEF OnlyRudeClientsKill, Running
  <1> QED
    BY <1>0, <1>2, <1>3

LEMMA DialKept ==
  ASSUME IInv, TestInv, Dial
  PROVE  TestInv'
  <1>0. /\ UNCHANGED <<config, pc, owner, worker, stop, count>>
        /\ Running
        /\ ThreadTypes' /\ Threads' /\ Barred' /\ OnlyRudeClientsKill'
    BY ClientKept
  <1>1. /\ ThreadTypes /\ ClientTypes /\ Threads /\ Barred /\ Talk
    BY DEF TestInv
  <1>2. /\ config.kind # "any" /\ MayDial /\ client = "away" /\ client' = "dialled"
        /\ inbox' \in {<<>>, <<"hello">>, <<"barehello">>, <<"garbage">>}
        /\ rude' = (inbox' # <<"hello">>) /\ pending' = pending
    BY DEF Dial
  <1>3. pc \in {"ready", "gone"}
    <2>1. CASE Barrier
      <3>1. owner \in {"connecting", "joining"}
        BY <1>2, <2>1 DEF MayDial
      <3>2. worker \notin {"none", "constructing", "arriving"}
        BY <1>1, <2>1, <3>1 DEF Barred, Threads
      <3> QED
        BY <1>1, <3>2 DEF Threads
    <2>2. CASE ~Barrier
      <3>1. config.kind = "class"
        BY <1>2, <2>2, Kind
      <3> QED
        BY <1>1, <1>2, <2>2, <3>1 DEF MayDial, Threads
    <2> QED
      BY <2>1, <2>2
  <1>4. Before /\ Before' /\ worker # "negotiating" /\ pending = 0
    BY <1>0, <1>1, <1>2 DEF Talk, Before
  <1>5. inbox' \in {<<"barehello">>, <<"garbage">>} => rude'
    <2>1. \A m \in {"barehello", "garbage"} : <<m>> # <<"hello">>
      <3>1. \A m \in {"barehello", "garbage"} : <<m>>[1] # <<"hello">>[1]
        OBVIOUS
      <3> QED
        BY <3>1
    <2> QED
      BY <1>2, <2>1
  <1>6. rude' \/ inbox' = <<"hello">>
    BY <1>2
  <1>7. rude' \in BOOLEAN
    BY <1>2
  <1>8. inbox' \in Seq(Message)
    <2>1. /\ <<>> \in Seq(Message) /\ <<"hello">> \in Seq(Message)
          /\ <<"garbage">> \in Seq(Message) /\ <<"barehello">> \in Seq(Message)
      BY DEF Message
    <2> QED
      BY <1>2, <2>1
  <1>9. ClientTypes'
    BY <1>1, <1>2, <1>7, <1>8 DEF ClientTypes
  <1>10. \A i \in 1..Len(inbox') : inbox'[i] \in {"barehello", "garbage", "badjson"} => rude'
    <2>1. CASE inbox' = <<>>
      BY <2>1
    <2>2. CASE inbox' = <<"hello">>
      BY <2>2
    <2>3. CASE inbox' \in {<<"barehello">>, <<"garbage">>}
      BY <1>5, <2>3
    <2> QED
      BY <1>2, <2>1, <2>2, <2>3
  <1>11. Talk'
    BY <1>0, <1>2, <1>4, <1>6, <1>10 DEF Talk
  <1>12. DialsAListener'
    BY <1>0, <1>3 DEF DialsAListener
  <1> QED
    BY <1>0, <1>9, <1>11, <1>12 DEF TestInv

LEMMA AskKept ==
  ASSUME TestInv, Ask
  PROVE  TestInv'
  <1>0. /\ UNCHANGED <<config, pc, owner, worker, stop, count>>
        /\ Running
        /\ ThreadTypes' /\ Threads' /\ Barred' /\ OnlyRudeClientsKill'
    BY ClientKept
  <1>1. /\ ClientTypes /\ Talk /\ DialsAListener
    BY DEF TestInv
  <1>2. PICK r \in {"request", "garbage", "badjson"} :
          /\ client = "talking" /\ client' = client
          /\ pending < MaxRequests /\ pending' = pending + 1
          /\ inbox' = Append(inbox, r) /\ rude' = (rude \/ r # "request")
    BY DEF Ask
  <1>3. ~Before /\ ~Before'
    BY <1>0, <1>1, <1>2 DEF Talk, Before
  <1>4. /\ inbox' \in Seq(Message) /\ Len(inbox') = Len(inbox) + 1 /\ Len(inbox) \in Nat
        /\ \A i \in 1..Len(inbox) : inbox'[i] = inbox[i]
        /\ inbox'[Len(inbox) + 1] = r
    BY <1>1, <1>2 DEF ClientTypes, Message
  <1>5. rude' \in BOOLEAN /\ (rude => rude') /\ (r # "request" => rude')
    BY <1>1, <1>2 DEF ClientTypes
  <1>6. pending' \in 0..MaxRequests
    BY <1>1, <1>2, TestAssumption DEF ClientTypes
  <1>7. ClientTypes'
    BY <1>1, <1>2, <1>4, <1>5, <1>6 DEF ClientTypes
  <1>8. \A i \in 1..Len(inbox') : inbox'[i] \in {"barehello", "garbage", "badjson"} => rude'
    <2>1. \A i \in 1..(Len(inbox) + 1) : i \in 1..Len(inbox) \/ i = Len(inbox) + 1
      BY <1>4
    <2> QED
      BY <1>1, <1>4, <1>5, <2>1 DEF Talk
  <1>9. Len(inbox') + (IF worker' = "answering" THEN 1 ELSE 0) <= pending'
    <2>1. Len(inbox) + (IF worker = "answering" THEN 1 ELSE 0) <= pending
      BY <1>1, <1>3 DEF Talk
    <2> QED
      BY <1>0, <1>1, <1>2, <1>4, <2>1 DEF ClientTypes
  <1>10. Talk'
    BY <1>2, <1>3, <1>8, <1>9 DEF Talk
  <1>11. DialsAListener'
    BY <1>0, <1>1, <1>2 DEF DialsAListener
  <1> QED
    BY <1>0, <1>7, <1>10, <1>11 DEF TestInv

LEMMA LeaveKept ==
  ASSUME TestInv, Close \/ Reset
  PROVE  TestInv'
  <1>0. /\ UNCHANGED <<config, pc, owner, worker, stop, count>>
        /\ Running
        /\ ThreadTypes' /\ Threads' /\ Barred' /\ OnlyRudeClientsKill'
    BY ClientKept
  <1>1. /\ ClientTypes /\ Talk /\ DialsAListener
    BY DEF TestInv
  <1>2. Before' <=> Before
    BY <1>0 DEF Before
  <1>3. client \in {"dialled", "talking"} /\ pending' = pending
    BY DEF Close, Reset, Connected
  <1>4. CASE Close
    <2>1. /\ client' = "closed" /\ inbox' = inbox
          /\ rude' = (rude \/ client = "dialled" \/ pending > 0)
      BY <1>4 DEF Close
    <2>2. /\ rude' \in BOOLEAN /\ (rude => rude') /\ (pending > 0 => rude')
          /\ (client = "dialled" => rude')
      BY <1>1, <2>1 DEF ClientTypes
    <2>3. ClientTypes'
      BY <1>1, <1>3, <2>1, <2>2 DEF ClientTypes
    <2>4. Talk'
      <3>1. Before => client = "dialled"
        BY <1>1, <1>3 DEF Talk
      <3> QED
        BY <1>0, <1>1, <1>2, <1>3, <2>1, <2>2, <3>1 DEF Talk
    <2>5. DialsAListener'
      BY <1>0, <1>1, <1>3 DEF DialsAListener
    <2> QED
      BY <1>0, <2>3, <2>4, <2>5 DEF TestInv
  <1>5. CASE Reset
    <2>1. client' = "reset" /\ inbox' = <<>> /\ rude' = TRUE
      BY <1>5 DEF Reset
    <2>2. Len(inbox) \in Nat /\ Len(inbox') = 0 /\ inbox' \in Seq(Message)
      BY <1>1, <2>1 DEF ClientTypes
    <2>3. ClientTypes'
      BY <1>1, <1>3, <2>1, <2>2 DEF ClientTypes
    <2>4. ~Before => 0 + (IF worker' = "answering" THEN 1 ELSE 0) <= pending'
      BY <1>0, <1>1, <1>3, <2>2 DEF Talk, ClientTypes
    <2>5. Talk'
      BY <1>0, <1>1, <1>2, <1>3, <2>1, <2>2, <2>4 DEF Talk
    <2>6. DialsAListener'
      BY <1>0, <1>1, <1>3 DEF DialsAListener
    <2> QED
      BY <1>0, <2>3, <2>5, <2>6 DEF TestInv
  <1> QED
    BY <1>4, <1>5

\* An exception that a rude client caused leaves the thread.
LEMMA TerminatesKept ==
  ASSUME TestInv, Terminates, rude
  PROVE  TestInv'
  <1>0. /\ UNCHANGED <<config, pc, worker, stop, count, client, inbox, pending, rude>>
        /\ owner' = "terminated"
    BY DEF Terminates, contextVars, clientVars
  <1>1. /\ ThreadTypes /\ ClientTypes /\ Threads /\ Barred /\ Talk /\ DialsAListener
    BY DEF TestInv
  <1>2. ThreadTypes' /\ ClientTypes'
    BY <1>0, <1>1 DEF ThreadTypes, ClientTypes
  <1>3. Threads' /\ Barred'
    BY <1>0, <1>1 DEF Threads, Barred, Barrier
  <1>4. Talk'
    BY <1>0, <1>1 DEF Talk, Before
  <1>5. OnlyRudeClientsKill' /\ DialsAListener'
    BY <1>0, <1>1 DEF OnlyRudeClientsKill, DialsAListener
  <1> QED
    BY <1>2, <1>3, <1>4, <1>5 DEF TestInv

\* The thread goes on to w, past the barrier and with its client, while the
\* ConnServer is as it was.
LEMMA MovesOn ==
  ASSUME TestInv, Running, ThreadTypes',
         UNCHANGED <<config, pc, owner, stop, count>>,
         worker \in {"accepting", "negotiating", "checking", "receiving", "answering", "leaving"},
         worker' \in {"negotiating", "checking", "receiving", "answering", "leaving"}
  PROVE  Threads' /\ Barred' /\ OnlyRudeClientsKill' /\ DialsAListener'
  <1>1. Threads /\ Barred /\ ThreadTypes
    BY DEF TestInv
  <1>2. pc = "ready" /\ config.kind # "any"
    BY <1>1 DEF Threads
  <1>3. Threads' /\ Barred'
    BY <1>1, <1>2 DEF Threads, Barred, Barrier
  <1>4. OnlyRudeClientsKill' /\ DialsAListener'
    BY <1>2 DEF OnlyRudeClientsKill, DialsAListener, Running
  <1> QED
    BY <1>3, <1>4

LEMMA AcceptKept ==
  ASSUME TestInv, Accept
  PROVE  TestInv'
  <1>0. /\ UNCHANGED <<config, pc, owner, stop, count, client, inbox, pending, rude>>
        /\ Running /\ worker = "accepting" /\ worker' = "negotiating" /\ client # "away"
    BY DEF Accept, contextVars, clientVars
  <1>1. ThreadTypes /\ ClientTypes /\ Talk
    BY DEF TestInv
  <1>2. ThreadTypes' /\ ClientTypes'
    BY <1>0, <1>1 DEF ThreadTypes, ClientTypes
  <1>3. Threads' /\ Barred' /\ OnlyRudeClientsKill' /\ DialsAListener'
    BY <1>0, <1>2, MovesOn
  <1>4. Talk'
    BY <1>0, <1>1 DEF Talk, Before
  <1> QED
    BY <1>2, <1>3, <1>4 DEF TestInv

LEMMA NegotiateKept ==
  ASSUME TestInv, Negotiate
  PROVE  TestInv'
  <1>0. Running /\ worker = "negotiating"
    BY DEF Negotiate
  <1>1. ThreadTypes /\ ClientTypes /\ Talk
    BY DEF TestInv
  <1>2. Before /\ client # "away" /\ client # "talking" /\ pending = 0
    BY <1>0, <1>1 DEF Talk, Before
  <1>3. CASE (~Connected \/ inbox \in {<<"garbage">>, <<"barehello">>}) /\ Terminates
    <2>1. inbox \in {<<"garbage">>, <<"barehello">>} => rude
      <3>1. ASSUME inbox \in {<<"garbage">>, <<"barehello">>}
            PROVE  1 \in 1..Len(inbox) /\ inbox[1] \in {"barehello", "garbage"}
        BY <3>1
      <3> QED
        BY <1>1, <3>1 DEF Talk
    <2>2. ~Connected => rude
      BY <1>1, <1>2 DEF Talk, ClientTypes, Connected
    <2> QED
      BY <1>3, <2>1, <2>2, TerminatesKept
  <1>4. CASE /\ inbox = <<"hello">>
             /\ client = "dialled" \/ (client = "closed" /\ ~config.tls)
             /\ inbox' = <<>>
             /\ client' = IF client = "dialled" THEN "talking" ELSE client
             /\ worker' = IF Barrier THEN "leaving" ELSE "checking"
             /\ IF config.tls THEN NewSession(Session) ELSE UNCHANGED contextVars
             /\ UNCHANGED <<owner, stop, count, pending, rude>>
    <2>1. config' = config /\ pc' = pc
      BY <1>4, SessionIsOne, SessionMoves DEF contextVars
    <2>2. worker' \in {"leaving", "checking"} /\ client' \in {"talking", "closed"}
      BY <1>4
    <2>3. Len(inbox') = 0 /\ inbox' \in Seq(Message)
      BY <1>4
    <2>4. ThreadTypes' /\ ClientTypes'
      BY <1>1, <1>4, <2>2, <2>3 DEF ThreadTypes, ClientTypes
    <2>5. Threads' /\ Barred' /\ OnlyRudeClientsKill' /\ DialsAListener'
      BY <1>0, <1>4, <2>1, <2>2, <2>4, MovesOn
    <2>6. Talk'
      <3>1. ~Before'
        BY <2>2 DEF Before
      <3>2. Len(inbox') + (IF worker' = "answering" THEN 1 ELSE 0) <= pending'
        BY <1>2, <1>4, <2>2, <2>3
      <3>3. \A i \in 1..Len(inbox') : inbox'[i] \in {"barehello", "garbage", "badjson"} => rude'
        BY <2>3
      <3>4. client' = "closed" /\ pending' > 0 => rude'
        BY <1>2, <1>4
      <3> QED
        BY <2>2, <3>1, <3>2, <3>3, <3>4 DEF Talk
    <2> QED
      BY <2>4, <2>5, <2>6 DEF TestInv
  <1> QED
    BY <1>3, <1>4 DEF Negotiate

LEMMA CheckStopKept ==
  ASSUME TestInv, CheckStop
  PROVE  TestInv'
  <1>0. /\ UNCHANGED <<config, pc, owner, stop, count, client, inbox, pending, rude>>
        /\ Running /\ worker = "checking" /\ worker' \in {"leaving", "receiving"}
    BY DEF CheckStop, contextVars, clientVars
  <1>1. ThreadTypes /\ ClientTypes /\ Talk
    BY DEF TestInv
  <1>2. ThreadTypes' /\ ClientTypes'
    BY <1>0, <1>1 DEF ThreadTypes, ClientTypes
  <1>3. Threads' /\ Barred' /\ OnlyRudeClientsKill' /\ DialsAListener'
    BY <1>0, <1>2, MovesOn
  <1>4. Talk'
    BY <1>0, <1>1 DEF Talk, Before
  <1> QED
    BY <1>2, <1>3, <1>4 DEF TestInv

\* What receive_message throws ends the loop, or the process if the client was
\* rude.
LEMMA ThrownKept ==
  ASSUME TestInv, Running, worker = "receiving", NEW e, Thrown(e),
         e = "ConnectionShutDown" \/ rude
  PROVE  TestInv'
  <1>1. CASE Catches(e)
    <2>0. /\ UNCHANGED <<config, pc, owner, stop, count, client, inbox, pending, rude>>
          /\ worker' = "leaving"
      BY <1>1 DEF Thrown, contextVars, clientVars
    <2>1. ThreadTypes /\ ClientTypes /\ Talk
      BY DEF TestInv
    <2>2. ThreadTypes' /\ ClientTypes'
      BY <2>0, <2>1 DEF ThreadTypes, ClientTypes
    <2>3. Threads' /\ Barred' /\ OnlyRudeClientsKill' /\ DialsAListener'
      BY <2>0, <2>2, MovesOn
    <2>4. Talk'
      BY <2>0, <2>1 DEF Talk, Before
    <2> QED
      BY <2>2, <2>3, <2>4 DEF TestInv
  <1>2. CASE ~Catches(e)
    BY <1>2, TerminatesKept DEF Thrown, Catches
  <1> QED
    BY <1>1, <1>2

LEMMA ReceiveKept ==
  ASSUME TestInv, Receive
  PROVE  TestInv'
  <1>0. Running /\ worker = "receiving"
    BY DEF Receive
  <1>1. ThreadTypes /\ ClientTypes /\ Talk
    BY DEF TestInv
  <1>2. inbox # <<>> =>
          /\ 1 \in 1..Len(inbox) /\ Head(inbox) = inbox[1]
          /\ Tail(inbox) \in Seq(Message) /\ Len(Tail(inbox)) = Len(inbox) - 1
          /\ \A i \in 1..Len(Tail(inbox)) : i + 1 \in 1..Len(inbox) /\ Tail(inbox)[i] = inbox[i + 1]
    BY <1>1 DEF ClientTypes
  <1>3. CASE inbox # <<>> /\ Malformed(Head(inbox)) /\ Terminates
    <2>1. rude
      BY <1>1, <1>2, <1>3 DEF Malformed, Talk
    <2> QED
      BY <1>3, <2>1, TerminatesKept
  <1>4. CASE /\ inbox # <<>> /\ inbox' = Tail(inbox) /\ worker' = "answering"
             /\ UNCHANGED <<contextVars, owner, stop, count, client, pending, rude>>
    <2>0. UNCHANGED <<config, pc, owner, stop, count, client, pending, rude>>
      BY <1>4 DEF contextVars
    <2>1. ThreadTypes' /\ ClientTypes'
      BY <1>1, <1>2, <1>4, <2>0 DEF ThreadTypes, ClientTypes
    <2>2. Threads' /\ Barred' /\ OnlyRudeClientsKill' /\ DialsAListener'
      BY <1>0, <1>4, <2>0, <2>1, MovesOn
    <2>3. Talk'
      <3>1. ~Before /\ ~Before'
        BY <1>0, <1>4 DEF Before
      <3>2. Len(inbox') + (IF worker' = "answering" THEN 1 ELSE 0) <= pending'
        <4>1. Len(inbox) <= pending /\ Len(inbox) \in Nat /\ pending \in Nat
          BY <1>0, <1>1, <3>1, TestAssumption DEF Talk, ClientTypes
        <4> QED
          BY <1>2, <1>4, <2>0, <4>1
      <3>3. \A i \in 1..Len(inbox') : inbox'[i] \in {"barehello", "garbage", "badjson"} => rude'
        BY <1>1, <1>2, <1>4, <2>0 DEF Talk
      <3> QED
        BY <1>0, <1>1, <2>0, <3>1, <3>2, <3>3 DEF Talk
    <2> QED
      BY <2>1, <2>2, <2>3 DEF TestInv
  <1>5. CASE inbox = <<>> /\ client = "closed" /\ Thrown("ConnectionShutDown")
    BY <1>0, <1>5, ThrownKept
  <1>6. CASE inbox = <<>> /\ client = "reset"
               /\ Thrown(IF config.tls THEN "ConnectionShutDown" ELSE "ReadFail")
    <2>1. rude
      BY <1>1, <1>6 DEF Talk
    <2> DEFINE e == IF config.tls THEN "ConnectionShutDown" ELSE "ReadFail"
    <2>2. Thrown(e)
      BY <1>6
    <2> HIDE DEF e
    <2> QED
      BY <1>0, <2>1, <2>2, ThrownKept
  <1> QED
    BY <1>3, <1>4, <1>5, <1>6 DEF Receive

LEMMA TimeoutKept ==
  ASSUME TestInv, Timeout
  PROVE  TestInv'
  <1>1. Talk
    BY DEF TestInv
  <1>2. CASE worker = "negotiating" /\ Terminates
    <2>1. inbox = <<>> /\ Connected
      BY DEF Timeout
    <2>2. <<>> # <<"hello">>
      OBVIOUS
    <2>3. rude
      BY <1>1, <1>2, <2>1, <2>2 DEF Talk, Before, Connected
    <2> QED
      BY <1>2, <2>3, TerminatesKept
  <1>3. CASE worker = "receiving" /\ Thrown("ConnectionShutDown")
    BY <1>3, ThrownKept DEF Timeout
  <1> QED
    BY <1>2, <1>3 DEF Timeout

LEMMA AnswerKept ==
  ASSUME TestInv, Answer
  PROVE  TestInv'
  <1>0. Running /\ worker = "answering"
    BY DEF Answer
  <1>1. ThreadTypes /\ ClientTypes /\ Talk
    BY DEF TestInv
  <1>2. /\ ~Before /\ client \notin {"away", "dialled"}
        /\ Len(inbox) + 1 <= pending /\ Len(inbox) \in Nat /\ pending \in Nat /\ pending > 0
    <2>1. ~Before /\ client \notin {"away", "dialled"}
      BY <1>0, <1>1 DEF Talk, Before
    <2>2. Len(inbox) \in Nat /\ pending \in Nat
      BY <1>1, TestAssumption DEF ClientTypes
    <2>3. Len(inbox) + 1 <= pending
      BY <1>0, <1>1, <2>1 DEF Talk
    <2> QED
      BY <2>1, <2>2, <2>3
  <1>3. CASE ~Connected /\ Terminates
    <2>1. rude
      BY <1>1, <1>2, <1>3 DEF Connected, Talk, ClientTypes
    <2> QED
      BY <1>3, <2>1, TerminatesKept
  <1>4. CASE /\ client # "reset" /\ worker' = "checking" /\ pending' = pending - 1
             /\ \/ UNCHANGED <<client, inbox>>
                \/ client = "closed" /\ client' = "reset" /\ inbox' = <<>>
             /\ UNCHANGED <<contextVars, owner, stop, count, rude>>
    <2>0. UNCHANGED <<config, pc, owner, stop, count, rude>>
      BY <1>4 DEF contextVars
    <2>1. /\ inbox' \in Seq(Message) /\ Len(inbox') <= Len(inbox) /\ Len(inbox') \in Nat
          /\ \A i \in 1..Len(inbox') : i \in 1..Len(inbox) /\ inbox'[i] = inbox[i]
      <3>1. CASE inbox' = inbox
        BY <1>1, <3>1 DEF ClientTypes
      <3>2. CASE inbox' = <<>>
        BY <1>2, <3>2
      <3> QED
        BY <1>4, <3>1, <3>2
    <2>2. pending' \in 0..MaxRequests
      BY <1>1, <1>2, <1>4, TestAssumption DEF ClientTypes
    <2>3. client' = client \/ (client = "closed" /\ client' = "reset")
      BY <1>4
    <2>4. ThreadTypes' /\ ClientTypes'
      BY <1>1, <1>4, <2>0, <2>1, <2>2, <2>3 DEF ThreadTypes, ClientTypes
    <2>5. Threads' /\ Barred' /\ OnlyRudeClientsKill' /\ DialsAListener'
      BY <1>0, <1>4, <2>0, <2>4, MovesOn
    <2>6. Talk'
      <3>1. ~Before'
        BY <1>4 DEF Before
      <3>2. Len(inbox') + (IF worker' = "answering" THEN 1 ELSE 0) <= pending'
        BY <1>2, <1>4, <2>1
      <3>3. \A i \in 1..Len(inbox') : inbox'[i] \in {"barehello", "garbage", "badjson"} => rude'
        BY <1>1, <2>0, <2>1 DEF Talk
      <3>4. client = "closed" => rude
        BY <1>1, <1>2 DEF Talk
      <3>5. client' \notin {"away", "dialled"} /\ (client' = "reset" => rude')
            /\ (client' = "closed" => rude')
        BY <1>2, <1>4, <2>0, <2>3, <3>4
      <3> QED
        BY <3>1, <3>2, <3>3, <3>5 DEF Talk
    <2> QED
      BY <2>4, <2>5, <2>6 DEF TestInv
  <1> QED
    BY <1>3, <1>4 DEF Answer

LEMMA ReturnKept ==
  ASSUME IInv, TestInv, Return
  PROVE  TestInv'
  <1>0. /\ UNCHANGED <<owner, stop, count, client, inbox, pending, rude>>
        /\ Running /\ worker = "leaving"
    BY DEF Return, clientVars
  <1>1. /\ ThreadTypes /\ ClientTypes /\ Threads /\ Barred /\ Talk
        /\ OnlyRudeClientsKill /\ DialsAListener
    BY DEF TestInv
  <1>2. pc = "ready" /\ config.kind # "any"
    BY <1>0, <1>1 DEF Threads
  <1>3. /\ config' = config
        /\ \/ worker' = worker /\ pc' = pc
           \/ worker' = "returned" /\ Barrier /\ pc' = "gone"
           \/ worker' = "returned" /\ ~Barrier /\ pc' = pc
    BY SessionIsOne, SessionMoves, DestroyMoves DEF Return, contextVars
  <1>4. /\ config.kind \in {"class", "barrier", "any"} /\ (Barrier <=> config.kind = "barrier")
        /\ (Barrier' <=> Barrier)
    BY <1>3, Kind DEF Barrier
  <1>5. ThreadTypes' /\ ClientTypes'
    BY <1>0, <1>1, <1>3 DEF ThreadTypes, ClientTypes
  <1>6. Threads'
    BY <1>0, <1>1, <1>2, <1>3, <1>4 DEF Threads
  <1>7. Barred'
    BY <1>0, <1>1, <1>3, <1>4 DEF Barred
  <1>8. Talk'
    <2>1. ~Before /\ ~Before' /\ worker' # "answering"
      BY <1>0, <1>3 DEF Before
    <2> QED
      BY <1>0, <1>1, <2>1 DEF Talk
  <1>9. OnlyRudeClientsKill' /\ DialsAListener'
    BY <1>0, <1>2, <1>3 DEF OnlyRudeClientsKill, DialsAListener, Running
  <1> QED
    BY <1>5, <1>6, <1>7, <1>8, <1>9 DEF TestInv

LEMMA JoinKept ==
  ASSUME IInv, TestInv, Joins \/ Joined
  PROVE  TestInv'
  <1>0. UNCHANGED <<worker, count, client, inbox, pending, rude>>
    BY DEF Joins, Joined, clientVars
  <1>1. /\ ThreadTypes /\ ClientTypes /\ Threads /\ Barred /\ Talk
        /\ OnlyRudeClientsKill /\ DialsAListener
    BY DEF TestInv
  <1>2. config' = config
    BY DestroyMoves DEF Joins, Joined, contextVars
  <1>3. /\ config.kind \in {"class", "barrier", "any"} /\ (Barrier <=> config.kind = "barrier")
        /\ (Barrier' <=> Barrier)
    BY <1>2, Kind DEF Barrier
  <1>4. ClientTypes' /\ Talk'
    BY <1>0, <1>1 DEF ClientTypes, Talk, Before
  <1>5. CASE Joins
    <2>1. /\ pc' = pc /\ owner' = "joining" /\ Running
          /\ \/ config.kind = "class" /\ owner = "testing"
             \/ Barrier /\ owner = "connecting"
      BY <1>5 DEF Joins, contextVars
    <2>2. stop' \in BOOLEAN
      BY <1>1, <1>5 DEF Joins, ThreadTypes
    <2>3. ThreadTypes'
      BY <1>0, <1>1, <2>1, <2>2 DEF ThreadTypes
    <2>4. Threads' /\ Barred'
      BY <1>0, <1>1, <1>2, <1>3, <2>1 DEF Threads, Barred, Running
    <2>5. OnlyRudeClientsKill' /\ DialsAListener'
      BY <1>0, <1>1, <2>1 DEF OnlyRudeClientsKill, DialsAListener
    <2> QED
      BY <1>4, <2>3, <2>4, <2>5 DEF TestInv
  <1>6. CASE Joined
    <2>1. /\ owner = "joining" /\ worker = "returned" /\ owner' = "done" /\ stop' = stop
          /\ IF Barrier THEN UNCHANGED contextVars ELSE Destroy
      BY <1>6 DEF Joined
    <2>2. pc' \in {"ready", "gone"}
      BY <1>1, <2>1, DestroyMoves DEF Threads, contextVars
    <2>3. ThreadTypes'
      BY <1>0, <1>1, <2>1 DEF ThreadTypes
    <2>4. Threads'
      BY <1>0, <1>1, <1>2, <1>3, <2>1, <2>2 DEF Threads
    <2>5. Barred'
      BY <1>0, <1>1, <1>3, <2>1 DEF Barred
    <2>6. OnlyRudeClientsKill' /\ DialsAListener'
      BY <2>1, <2>2 DEF OnlyRudeClientsKill, DialsAListener
    <2> QED
      BY <1>4, <2>3, <2>4, <2>5, <2>6 DEF TestInv
  <1> QED
    BY <1>5, <1>6

LEMMA TestStep ==
  ASSUME IInv, TestInv, TestNext
  PROVE  TestInv'
  BY ConstructKept, BarrierKept, UseKept, DialKept, AskKept, LeaveKept, AcceptKept,
     NegotiateKept, CheckStopKept, ReceiveKept, TimeoutKept, AnswerKept, ReturnKept,
     JoinKept DEF TestNext, Work

LEMMA TestStutters ==
  ASSUME TestInv, UNCHANGED vars
  PROVE  TestInv'
  <1>0. UNCHANGED <<config, pc, owner, worker, stop, count, client, inbox, pending, rude>>
    BY DEF vars, contextVars, clientVars
  <1>1. /\ ThreadTypes /\ ClientTypes /\ Threads /\ Barred /\ Talk
        /\ OnlyRudeClientsKill /\ DialsAListener
    BY DEF TestInv
  <1>2. ThreadTypes' /\ ClientTypes' /\ Talk'
    BY <1>0, <1>1 DEF ThreadTypes, ClientTypes, Talk, Before
  <1>3. Threads' /\ Barred'
    BY <1>0, <1>1 DEF Threads, Barred, Barrier
  <1>4. OnlyRudeClientsKill' /\ DialsAListener'
    BY <1>0, <1>1 DEF OnlyRudeClientsKill, DialsAListener
  <1> QED
    BY <1>2, <1>3, <1>4 DEF TestInv

-----------------------------------------------------------------------------
(* Theorems *)

\* Whatever the threads of a test or of another program do, in whichever order,
\* the ConnServer they share goes through a behaviour of ServerContext.
THEOREM ThreadsUseContext == TestSpec => ContextSpec
  <1>1. TestInit => ContextInit
    BY DEF TestInit
  <1>2. [TestNext]_vars => [ContextNext]_contextVars
    BY UsesContext
  <1> QED
    BY <1>1, <1>2, PTL DEF TestSpec, ContextSpec

LEMMA TestInvariant == TestSpec => [](IInv /\ TestInv)
  <1>1. TestInit => IInv /\ TestInv
    BY InitKept, InitRight DEF TestInit
  <1>2. IInv /\ TestInv /\ [TestNext]_vars => IInv' /\ TestInv'
    BY ContextKept, TestStep, TestStutters
  <1> QED
    BY <1>1, <1>2, PTL DEF TestSpec

\* Every variable has its type, and a thread that serves has a ConnServer that
\* is constructed and not yet destroyed.
THEOREM TestServerTypes == TestSpec => []TypeOK
  <1>1. IInv /\ TestInv => TypeOK
    <2> SUFFICES ASSUME IInv, TestInv PROVE TypeOK
      OBVIOUS
    <2>1. ContextTypeOK
      BY RightTypes
    <2>2. ThreadTypes /\ ClientTypes /\ Threads /\ Talk
      BY DEF TestInv
    <2>3. Len(inbox) <= pending + 1
      <3>1. Len(inbox) \in Nat /\ pending \in Nat
        BY <2>2, TestAssumption DEF ClientTypes
      <3>2. CASE Before
        <4>1. inbox \in {<<>>, <<"hello">>, <<"barehello">>, <<"garbage">>}
          BY <2>2, <3>2 DEF Talk
        <4>2. /\ Len(<<>>) = 0 /\ Len(<<"hello">>) = 1
              /\ Len(<<"barehello">>) = 1 /\ Len(<<"garbage">>) = 1
          OBVIOUS
        <4>3. Len(inbox) = 0 \/ Len(inbox) = 1
          BY <4>1, <4>2, Zenon
        <4> QED
          BY <3>1, <2>2, <3>2, <4>3 DEF Before
      <3>3. CASE ~Before
        BY <2>2, <3>1, <3>3 DEF Talk
      <3> QED
        BY <3>2, <3>3
    <2> QED
      BY <2>1, <2>2, <2>3 DEF TypeOK, ThreadTypes, ClientTypes, Threads, Message
  <1> QED
    BY <1>1, TestInvariant, PTL

\* The process of the tests is ended only by a constructor that fails or by a
\* client that was rude, however requests, answers, timeouts, the stop flag and
\* the end of the connection interleave.
THEOREM PoliteClientsAreSafe == TestSpec => []OnlyRudeClientsKill
  <1>1. IInv /\ TestInv => OnlyRudeClientsKill
    BY DEF TestInv
  <1> QED
    BY <1>1, TestInvariant, PTL

\* Nobody dials before the socket listens, whichever thread comes to the
\* barrier first.
THEOREM ListensWhenDialled == TestSpec => []DialsAListener
  <1>1. IInv /\ TestInv => DialsAListener
    BY DEF TestInv
  <1> QED
    BY <1>1, TestInvariant, PTL

\* With threads, sessions and destructors in any order every reference is
\* counted once.
THEOREM TestServerCounts == TestSpec => []CountedOnce
  BY ThreadsUseContext, EveryReferenceCounted, PTL

\* The ConnServer that a test constructs from a certificate and a key has both,
\* and the certificate is not for another RSA key.
THEOREM TestServerHasItsPair == TestSpec => []ReadyHasItsPair
  BY ThreadsUseContext, ConstructedHasItsPair, PTL
=============================================================================
