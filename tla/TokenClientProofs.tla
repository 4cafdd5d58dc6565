------------------------- MODULE TokenClientProofs -------------------------
(* What is proved of TokenClient for all lifetimes, delays, sizes, bounds. *)
EXTENDS TokenClient, TLAPS

-----------------------------------------------------------------------------
(* The inductive invariant *)

\* The types of tokens, requests, answers and grants.
Token == [session : Nat, issued_at : Nat, session_expires : Int, refresh_expires : Int]
Request == [for : Purpose, n : Nat, at : Nat, session : Nat, whole : BOOLEAN]
Reply == [for : Purpose \cup {"Something", "garbage"}, n : Nat, at : Nat, session : Nat,
          session_expires : Int, refresh_expires : Int]
Grant == [at : Nat, session_expires : Int]

Scalars ==
  /\ reuses \in Reuses /\ pc \in PC /\ auth \in Token
  /\ now \in 0..MaxTime /\ since \in 0..now
  /\ queries \in 0..MaxQueries /\ sent \in Nat /\ faults \in 0..MaxFaults
  /\ auth.issued_at <= now /\ auth.session <= Len(grants) /\ Len(grants) <= MaxGrants

Queues ==
  /\ spent \in Seq(Purpose)
  /\ up \in Seq(Request) /\ down \in Seq(Reply) /\ grants \in Seq(Grant)
  /\ \A j \in 1..Len(up) : up[j].n \in 1..sent /\ up[j].at <= now
  /\ \A j \in 1..Len(down) : down[j].n \in 1..sent /\ down[j].at <= now

TypeInv == Scalars /\ Queues

\* Answers bring tokens in the order of their grants, all newer than the one
\* the client has.
TokensInOrder ==
  /\ \A j \in 1..Len(down) : down[j].session # 0 =>
       down[j].session > auth.session /\ down[j].session <= Len(grants)
  /\ \A i, j \in 1..Len(down) :
       i < j /\ down[i].session # 0 /\ down[j].session # 0 => down[i].session < down[j].session

\* The requests of a call by where the client is.
Orders == {<<>>, <<"Authenticate">>, <<"RefreshToken">>, <<"Authenticate", "RefreshToken">>}

SpentSoFar ==
  /\ NoRenewalLoop
  /\ pc \in {"reauthenticate?", "sendAuthenticate"} => spent = <<>>
  /\ pc = "awaitAuthenticate" => spent = <<"Authenticate">>
  /\ pc \in {"refresh?", "sendRefreshToken"} => spent \in {<<>>, <<"Authenticate">>}
  /\ pc \in {"awaitRefreshToken", "sendQuery"} => spent \in Orders

\* A client that has gone through its constructor has a token.
HasToken ==
  /\ auth.session = 0 => auth = NoToken
  /\ pc \notin {"sendAuthenticate", "awaitAuthenticate", "closed"} => auth.session # 0

\* An owner that drops the client after an exception never has more than one
\* message under way, the request it waits for or the answer to that.
OneMessage ==
  ~reuses =>
    /\ up = <<>> \/ down = <<>>
    /\ Len(up) <= 1 /\ Len(down) <= 1
    /\ pc # "closed" /\ ~Waits(pc) => up = <<>> /\ down = <<>>
    /\ \A p \in Purpose : pc = Awaiting(p) =>
         /\ up # <<>> => up[1].for = p /\ up[1].n = sent
         /\ down # <<>> => down[1].n = sent
    /\ outcome.how = "response" => pc = "idle" /\ outcome.answer = sent

\* The token of such a client is the latest, except while the answer with a
\* newer one is on its way; and so are those in its queries.
Latest ==
  ~reuses =>
    /\ pc # "closed" /\ down = <<>> => auth.session = Len(grants)
    /\ pc # "closed" => \A j \in 1..Len(down) : down[j].session \in {0, Len(grants)}
    /\ pc = "awaitQuery" => auth.session = Len(grants)
    /\ CarriesLatestToken

\* The delays between a grant, its arrival, the check and the query.
Usable(lifetime) == IF lifetime > 0 THEN lifetime - 1 ELSE 0

OnTime ==
  /\ \A j \in 1..Len(up) : now <= up[j].at + Latency
  /\ ~reuses /\ Waits(pc) => \A j \in 1..Len(down) : now <= down[j].at + Latency
  /\ OnItsWay(pc) => now <= since + Stall

AsGranted ==
  \A j \in 1..Len(down) : down[j].session # 0 =>
    LET g == grants[down[j].session]
    IN  down[j].at = g.at /\ down[j].session_expires = g.session_expires

SoonTaken ==
  ~reuses /\ auth.session # 0 =>
    LET g == grants[auth.session]
    IN  auth.issued_at <= g.at + Latency /\ auth.session_expires = g.session_expires

CheckedBefore == pc = "sendQuery" => since <= auth.issued_at + Usable(auth.session_expires)

SentInTime ==
  ~reuses => \A j \in 1..Len(up) : up[j].for = "Query" =>
    /\ up[j].session \in 1..Len(grants)
    /\ LET g == grants[up[j].session]
       IN  up[j].at <= g.at + Latency + Usable(g.session_expires) + Stall

Delays == OnTime /\ AsGranted /\ SoonTaken /\ CheckedBefore /\ SentInTime

IInv == TypeInv /\ TokensInOrder /\ SpentSoFar /\ HasToken /\ OneMessage /\ Latest /\ Delays

-----------------------------------------------------------------------------
(* What a step does, as far as the invariant is concerned *)

\* A call ends with an exception.
GivesUp ==
  /\ pc' = IF reuses /\ auth # NoToken THEN "idle" ELSE "closed"
  /\ since' = 0
  /\ outcome'.how # "response"
  /\ faults' = faults \/ (faults < MaxFaults /\ faults' = faults + 1)
  /\ UNCHANGED <<reuses, now, auth, queries, up, sent, grants>>

Begins ==
  /\ pc = "idle" /\ pc' = "reauthenticate?" /\ since' = now
  /\ queries < MaxQueries /\ queries' = queries + 1
  /\ spent' = <<>> /\ outcome'.how # "response"
  /\ UNCHANGED <<reuses, now, auth, up, down, sent, grants, faults>>

Checks ==
  /\ \/ pc = "reauthenticate?" /\ pc' \in {"sendAuthenticate", "refresh?"}
     \/ pc = "refresh?" /\ pc' = "sendRefreshToken"
     \/ pc = "refresh?" /\ pc' = "sendQuery" /\ ~Expired(auth.session_expires)
  /\ since' = now
  /\ UNCHANGED <<reuses, now, auth, queries, spent, up, down, sent, grants, outcome, faults>>

SendFails(p) ==
  /\ pc = Sending(p) /\ GivesUp
  /\ spent' = Append(spent, p)
  /\ UNCHANGED down

Sends(p, e) ==
  /\ pc = Sending(p) /\ pc' = Awaiting(p) /\ since' = 0
  /\ spent' = Append(spent, p)
  /\ e.for = p /\ e.n = sent + 1 /\ e.at = now /\ (p = "Query" => e.session = auth.session)
  /\ up' = Append(up, e) /\ sent' = sent + 1
  /\ UNCHANGED <<reuses, now, auth, queries, down, grants, outcome, faults>>

Responds ==
  /\ pc = "awaitQuery" /\ pc' = "idle" /\ since' = 0
  /\ down # <<>> /\ down' = Tail(down)
  /\ outcome' = Outcome("response", down[1].n)
  /\ UNCHANGED <<reuses, now, auth, queries, spent, up, sent, grants, faults>>

TakesToken(p) ==
  /\ p # "Query" /\ pc = Awaiting(p)
  /\ \/ pc' = "idle" /\ since' = 0
     \/ pc' = Resume(p) /\ since' = now
  /\ down # <<>> /\ down' = Tail(down) /\ down[1].session # 0
  /\ auth' = Granted(down[1])
  /\ UNCHANGED <<reuses, now, queries, spent, up, sent, grants, outcome, faults>>

Rejects == Waits(pc) /\ GivesUp /\ down # <<>> /\ down' = Tail(down) /\ UNCHANGED spent

Breaks == Waits(pc) /\ GivesUp /\ UNCHANGED <<spent, down>>

GrantServed(e, g) ==
  /\ up # <<>> /\ up' = Tail(up) /\ up[1].for # "Query"
  /\ e.n = up[1].n /\ e.at = now /\ e.session = Len(grants) + 1
  /\ g.at = now /\ g.session_expires = e.session_expires
  /\ down' = Append(down, e)
  /\ Len(grants) < MaxGrants /\ grants' = Append(grants, g)
  /\ UNCHANGED <<reuses, now, auth, pc, since, queries, spent, sent, outcome, faults>>

OtherServed(e) ==
  /\ up # <<>> /\ up' = Tail(up)
  /\ e.n = up[1].n /\ e.at = now /\ e.session = 0
  /\ down' = Append(down, e)
  /\ faults' = faults \/ (faults < MaxFaults /\ faults' = faults + 1)
  /\ UNCHANGED <<reuses, now, auth, pc, since, queries, spent, sent, outcome, grants>>

AnyStep ==
  \/ Begins \/ Checks \/ Responds \/ Rejects \/ Breaks
  \/ Tick /\ UNCHANGED reuses
  \/ \E p \in Purpose : SendFails(p) \/ TakesToken(p)
  \/ \E p \in Purpose, e \in Request : Sends(p, e)
  \/ \E e \in Reply : OtherServed(e)
  \/ \E e \in Reply, g \in Grant : GrantServed(e, g)
  \/ UNCHANGED vars

\* The labels of the client's places.
LEMMA Labels ==
  /\ Sending("Authenticate") = "sendAuthenticate" /\ Awaiting("Authenticate") = "awaitAuthenticate"
  /\ Sending("RefreshToken") = "sendRefreshToken" /\ Awaiting("RefreshToken") = "awaitRefreshToken"
  /\ Sending("Query") = "sendQuery" /\ Awaiting("Query") = "awaitQuery"
  /\ PC = {"idle", "reauthenticate?", "refresh?", "closed",
           "sendAuthenticate", "sendRefreshToken", "sendQuery",
           "awaitAuthenticate", "awaitRefreshToken", "awaitQuery"}
  /\ \A l : Waits(l) <=> l \in {"awaitAuthenticate", "awaitRefreshToken", "awaitQuery"}
  /\ \A p : p \in Purpose <=> p \in {"Authenticate", "RefreshToken", "Query"}
  <1>1. /\ Sending("Authenticate") = "sendAuthenticate" /\ Awaiting("Authenticate") = "awaitAuthenticate"
        /\ Sending("RefreshToken") = "sendRefreshToken" /\ Awaiting("RefreshToken") = "awaitRefreshToken"
        /\ Sending("Query") = "sendQuery" /\ Awaiting("Query") = "awaitQuery"
    BY DEF Sending, Awaiting
  <1>2. /\ {Sending(p) : p \in Purpose} = {"sendAuthenticate", "sendRefreshToken", "sendQuery"}
        /\ {Awaiting(p) : p \in Purpose} = {"awaitAuthenticate", "awaitRefreshToken", "awaitQuery"}
    BY <1>1 DEF Purpose
  <1> QED
    BY <1>1, <1>2 DEF PC, Waits, Purpose

LEMMA DistinctLabels ==
  ASSUME NEW p \in Purpose, NEW q \in Purpose, Awaiting(p) = Awaiting(q)
  PROVE  p = q
  <1>1. p \in {"Authenticate", "RefreshToken", "Query"} /\ q \in {"Authenticate", "RefreshToken", "Query"}
    BY DEF Purpose
  <1>2. CASE p = "Authenticate"
    BY <1>1, <1>2, Labels
  <1>3. CASE p = "RefreshToken"
    BY <1>1, <1>3, Labels
  <1>4. CASE p = "Query"
    BY <1>1, <1>4, Labels
  <1> QED
    BY <1>1, <1>2, <1>3, <1>4

\* Sequences that get longer by one element or lose the first one.
LEMMA AppendSeq ==
  ASSUME NEW S, NEW q \in Seq(S), NEW e \in S
  PROVE  /\ Append(q, e) \in Seq(S) /\ Len(q) \in Nat
         /\ Len(Append(q, e)) = Len(q) + 1
         /\ \A j \in 1..Len(q) : Append(q, e)[j] = q[j]
         /\ Append(q, e)[Len(q) + 1] = e
         /\ \A j \in 1..Len(q) + 1 : j \in 1..Len(q) \/ j = Len(q) + 1
  OBVIOUS

LEMMA TailSeq ==
  ASSUME NEW S, NEW q \in Seq(S), q # <<>>
  PROVE  /\ Tail(q) \in Seq(S) /\ Len(q) \in Nat /\ 1 \in 1..Len(q)
         /\ Head(q) = q[1] /\ q[1] \in S
         /\ Len(Tail(q)) = Len(q) - 1
         /\ \A j \in 1..Len(q) - 1 : j + 1 \in 1..Len(q) /\ Tail(q)[j] = q[j + 1]
  OBVIOUS

\* Where a client goes with Goto.
LEMMA GotoCases ==
  ASSUME NEW label, Goto(label)
  PROVE  /\ pc' = label
         /\ label \in {"idle", "closed"} => since' = 0
         /\ Waits(label) => since' = 0
         /\ label \notin {"idle", "closed"} /\ ~Waits(label) => since' = now
  BY DEF Goto, OnItsWay

LEMMA ThrowsCases ==
  ASSUME NEW how, how # "response", Throws(how),
         UNCHANGED faults \/ Fault,
         UNCHANGED <<reuses, now, queries, up, sent, grants>>
  PROVE  GivesUp
  <1>1. outcome'.how # "response"
    BY DEF Throws, Outcome
  <1> QED
    BY <1>1, GotoCases DEF Throws, Fault, GivesUp

LEMMA SendCases ==
  ASSUME TypeInv, UNCHANGED reuses, NEW p \in Purpose, Send(p)
  PROVE  SendFails(p) \/ \E e \in Request : Sends(p, e)
  <1>1. PICK n \in IF p = "Query" THEN Sizes ELSE {0} :
          \/ /\ Throws("VDMS::Exception") /\ UNCHANGED <<up, sent, faults>>
          \/ /\ Fault /\ Throws("VDMS::Exception") /\ UNCHANGED <<up, sent>>
          \/ /\ sent' = sent + 1
             /\ up' = Append(up, [for |-> p, n |-> sent + 1, at |-> now,
                                  session |-> IF p = "Query" THEN auth.session ELSE 0,
                                  whole |-> Truncated(n) = n])
             /\ Goto(Awaiting(p))
             /\ UNCHANGED <<auth, outcome, faults>>
    BY DEF Send
  <1>2. /\ pc = Sending(p) /\ spent' = Append(spent, p)
        /\ UNCHANGED <<now, queries, down, grants>>
    BY DEF Send
  <1>3. CASE Throws("VDMS::Exception") /\ UNCHANGED <<up, sent>> /\ (UNCHANGED faults \/ Fault)
    BY <1>2, <1>3, ThrowsCases DEF SendFails
  <1>4. CASE /\ sent' = sent + 1
             /\ up' = Append(up, [for |-> p, n |-> sent + 1, at |-> now,
                                  session |-> IF p = "Query" THEN auth.session ELSE 0,
                                  whole |-> Truncated(n) = n])
             /\ Goto(Awaiting(p))
             /\ UNCHANGED <<auth, outcome, faults>>
    <2> DEFINE e == [for |-> p, n |-> sent + 1, at |-> now,
                     session |-> IF p = "Query" THEN auth.session ELSE 0,
                     whole |-> Truncated(n) = n]
    <2>1. /\ sent + 1 \in Nat /\ now \in Nat
          /\ (IF p = "Query" THEN auth.session ELSE 0) \in Nat
      BY DEF TypeInv, Scalars, Queues, Token
    <2>2. (Truncated(n) = n) \in BOOLEAN
      OBVIOUS
    <2>3. e \in Request
      BY <2>1, <2>2, Zenon DEF Request
    <2>4. pc' = Awaiting(p) /\ since' = 0
      BY <1>4, GotoCases, Labels
    <2>5. Sends(p, e)
      BY <1>2, <1>4, <2>4 DEF Sends
    <2> QED
      BY <2>3, <2>5
  <1> QED
    BY <1>1, <1>3, <1>4

LEMMA ReceiveCases ==
  ASSUME TypeInv, UNCHANGED reuses, NEW p \in Purpose, Receive(p)
  PROVE  Responds \/ TakesToken(p) \/ Rejects
  <1>1. /\ pc = Awaiting(p) /\ down # <<>> /\ down' = Tail(down) /\ Head(down) = down[1]
        /\ UNCHANGED <<now, queries, spent, up, sent, grants, faults>>
    BY TailSeq DEF Receive, TypeInv, Scalars, Queues
  <1>2. CASE /\ p = "Query"
             /\ outcome' = Outcome("response", down[1].n)
             /\ Goto("idle")
             /\ UNCHANGED auth
    BY <1>1, <1>2, GotoCases, Labels DEF Responds
  <1>3. CASE /\ p # "Query" /\ Accepts(p, down[1])
             /\ auth' = Granted(down[1])
             /\ Goto(IF queries = 0 THEN "idle" ELSE Resume(p))
             /\ UNCHANGED outcome
    <2>1. Resume(p) \notin {"idle", "closed"} /\ ~Waits(Resume(p))
      BY Labels DEF Resume
    <2>2. \/ pc' = "idle" /\ since' = 0
          \/ pc' = Resume(p) /\ since' = now
      BY <1>3, <2>1, GotoCases
    <2> QED
      BY <1>1, <1>3, <2>2 DEF TakesToken, Accepts
  <1>4. CASE \E how \in {"comm::Exception", "json exception"} : Throws(how)
    <2>1. GivesUp
      BY <1>1, <1>4, ThrowsCases
    <2> QED
      BY <1>1, <2>1, Labels DEF Rejects
  <1> QED
    BY <1>1, <1>2, <1>3, <1>4 DEF Receive

LEMMA ReceiveFailsCases ==
  ASSUME TypeInv, UNCHANGED reuses, NEW p \in Purpose, ReceiveFails(p)
  PROVE  Breaks
  <1>1. GivesUp
    BY ThrowsCases DEF ReceiveFails
  <1> QED
    BY <1>1, Labels DEF ReceiveFails, Breaks

LEMMA FirstRequest ==
  ASSUME TypeInv, up # <<>>
  PROVE  Head(up) = up[1] /\ up[1].for \in Purpose /\ up[1].n \in Nat
  <1>1. up \in Seq(Request)
    BY DEF TypeInv, Scalars, Queues
  <1>2. Head(up) = up[1] /\ up[1] \in Request
    BY <1>1, TailSeq
  <1> QED
    BY <1>2 DEF Request

LEMMA AnswerCases ==
  ASSUME TypeInv, up # <<>>, NEW for \in Purpose \cup {"Something", "garbage"},
         NEW session \in Nat, NEW s \in Int, NEW r \in Int
  PROVE  /\ Answer(Head(up), for, session, s, r) \in Reply
         /\ Answer(Head(up), for, session, s, r).n = up[1].n
         /\ Answer(Head(up), for, session, s, r).at = now
         /\ Answer(Head(up), for, session, s, r).session = session
         /\ Answer(Head(up), for, session, s, r).session_expires = s
  <1>1. Head(up) = up[1] /\ up[1].n \in Nat /\ now \in Nat
    BY FirstRequest DEF TypeInv, Scalars, Queues
  <1> QED
    BY <1>1 DEF Answer, Reply

LEMMA ServeCases ==
  ASSUME TypeInv, UNCHANGED reuses, Serve
  PROVE  \/ \E e \in Reply : OtherServed(e)
         \/ \E e \in Reply, g \in Grant : GrantServed(e, g)
  <1>1. /\ up # <<>> /\ up' = Tail(up)
        /\ UNCHANGED <<now, auth, pc, since, queries, spent, sent, outcome>>
    BY DEF Serve
  <1>2. Head(up) = up[1] /\ up[1].for \in Purpose /\ Len(grants) \in Nat
    BY <1>1, FirstRequest DEF TypeInv, Scalars, Queues
  <1>3. CASE /\ up[1].for # "Query" /\ Len(grants) < MaxGrants
             /\ \E s \in SessionExpiry, r \in RefreshExpiry :
                  /\ grants' = Append(grants, [at |-> now, session_expires |-> s])
                  /\ down' = Append(down, Answer(Head(up), up[1].for, Len(grants) + 1, s, r))
             /\ UNCHANGED faults
    <2>1. PICK s \in SessionExpiry, r \in RefreshExpiry :
             /\ grants' = Append(grants, [at |-> now, session_expires |-> s])
             /\ down' = Append(down, Answer(Head(up), up[1].for, Len(grants) + 1, s, r))
      BY <1>3
    <2> DEFINE e == Answer(Head(up), up[1].for, Len(grants) + 1, s, r)
               g == [at |-> now, session_expires |-> s]
    <2>2. s \in Int /\ r \in Int /\ now \in Nat
      BY TokenAssumption DEF TypeInv, Scalars, Queues
    <2>3. g \in Grant /\ g.at = now /\ g.session_expires = s
      BY <2>2 DEF Grant
    <2>4. /\ e \in Reply /\ e.n = up[1].n /\ e.at = now
          /\ e.session = Len(grants) + 1 /\ e.session_expires = s
      BY <1>1, <1>2, <2>2, AnswerCases
    <2> HIDE DEF e, g
    <2>5. grants' = Append(grants, g) /\ down' = Append(down, e)
      BY <2>1 DEF e, g
    <2>6. GrantServed(e, g)
      BY <1>1, <1>3, <2>3, <2>4, <2>5 DEF GrantServed
    <2> QED
      BY <2>3, <2>4, <2>6
  <1>4. CASE /\ \E a \in {"Query", "Something", "garbage"} :
                  down' = Append(down, Answer(Head(up), a, 0, -1, -1))
             /\ UNCHANGED grants
             /\ UNCHANGED faults \/ Fault
    <2>1. PICK a \in {"Query", "Something", "garbage"} :
             down' = Append(down, Answer(Head(up), a, 0, -1, -1))
      BY <1>4
    <2> DEFINE e == Answer(Head(up), a, 0, -1, -1)
    <2>2. /\ e \in Reply /\ e.n = up[1].n /\ e.at = now /\ e.session = 0
      <3>1. a \in Purpose \cup {"Something", "garbage"} /\ now \in Nat
        BY Labels DEF TypeInv, Scalars, Queues
      <3>2. Head(up) = up[1] /\ up[1].n \in Nat
        BY <1>1, FirstRequest
      <3> QED
        BY <3>1, <3>2 DEF Answer, Reply
    <2> HIDE DEF e
    <2>3. OtherServed(e)
      BY <1>1, <1>4, <2>1, <2>2 DEF OtherServed, Fault, e
    <2> QED
      BY <2>2, <2>3
  <1> QED
    BY <1>2, <1>3, <1>4 DEF Serve

LEMMA StepCases ==
  ASSUME TypeInv, [Next]_vars
  PROVE  AnyStep
  <1>1. CASE Query /\ UNCHANGED reuses
    <2>1. pc' = "reauthenticate?" /\ since' = now /\ outcome'.how # "response"
      BY <1>1, GotoCases, Labels DEF Query, Outcome
    <2> QED
      BY <1>1, <2>1 DEF Query, Begins, AnyStep
  <1>2. CASE CheckReAuthentication /\ UNCHANGED reuses
    <2>1. pc' \in {"sendAuthenticate", "refresh?"} /\ since' = now
      BY <1>2, GotoCases, Labels DEF CheckReAuthentication
    <2> QED
      BY <1>2, <2>1 DEF CheckReAuthentication, Checks, AnyStep
  <1>3. CASE CheckRefresh /\ UNCHANGED reuses
    <2>1. /\ since' = now
          /\ pc' = "sendRefreshToken" \/ (pc' = "sendQuery" /\ ~Expired(auth.session_expires))
      BY <1>3, GotoCases, Labels DEF CheckRefresh
    <2> QED
      BY <1>3, <2>1 DEF CheckRefresh, Checks, AnyStep
  <1>4. ASSUME NEW p \in Purpose, Send(p) \/ Receive(p) \/ ReceiveFails(p), UNCHANGED reuses
        PROVE  AnyStep
    BY <1>4, SendCases, ReceiveCases, ReceiveFailsCases DEF AnyStep
  <1>5. CASE Serve /\ UNCHANGED reuses
    BY <1>5, ServeCases DEF AnyStep
  <1> QED
    BY <1>1, <1>2, <1>3, <1>4, <1>5 DEF Next, ClientStep, AnyStep

-----------------------------------------------------------------------------
(* Types *)

LEMMA Naturals == /\ MaxTime \in Nat /\ MaxQueries \in Nat /\ MaxGrants \in Nat
                  /\ MaxFaults \in Nat /\ Latency \in Nat /\ Stall \in Nat
  BY TokenAssumption

\* The parts of the data types.
LEMMA Parts ==
  ASSUME TypeInv
  PROVE  /\ auth.session \in Nat /\ auth.issued_at \in Nat
         /\ auth.session_expires \in Int /\ auth.refresh_expires \in Int
         /\ Len(up) \in Nat /\ Len(down) \in Nat /\ Len(grants) \in Nat
         /\ \A j \in 1..Len(up) : /\ up[j].for \in Purpose /\ up[j].n \in Nat
                                  /\ up[j].at \in Nat /\ up[j].session \in Nat
         /\ \A j \in 1..Len(down) : /\ down[j].n \in Nat /\ down[j].at \in Nat
                                    /\ down[j].session \in Nat
                                    /\ down[j].session_expires \in Int
                                    /\ down[j].refresh_expires \in Int
         /\ \A j \in 1..Len(grants) : grants[j].at \in Nat /\ grants[j].session_expires \in Int
  <1>1. up \in Seq(Request) /\ down \in Seq(Reply) /\ grants \in Seq(Grant) /\ auth \in Token
    BY DEF TypeInv, Scalars, Queues
  <1>2. /\ \A j \in 1..Len(up) : up[j] \in Request
        /\ \A j \in 1..Len(down) : down[j] \in Reply
        /\ \A j \in 1..Len(grants) : grants[j] \in Grant
    BY <1>1
  <1>3. Len(up) \in Nat /\ Len(down) \in Nat /\ Len(grants) \in Nat
    BY <1>1
  <1> QED
    BY <1>1, <1>2, <1>3 DEF Request, Reply, Grant, Token

\* How the queues and the list of grants change in a step that changes them.
LEMMA UpTail ==
  ASSUME TypeInv, up # <<>>, up' = Tail(up)
  PROVE  /\ up' \in Seq(Request) /\ 1 \in 1..Len(up)
         /\ Len(up') = Len(up) - 1
         /\ \A j \in 1..Len(up') : j + 1 \in 1..Len(up) /\ up'[j] = up[j + 1]
  <1>1. up \in Seq(Request)
    BY DEF TypeInv, Scalars, Queues
  <1> QED
    BY <1>1, TailSeq

LEMMA UpAppend ==
  ASSUME TypeInv, NEW e \in Request, up' = Append(up, e)
  PROVE  /\ up' \in Seq(Request)
         /\ Len(up') = Len(up) + 1
         /\ \A j \in 1..Len(up') : \/ j \in 1..Len(up) /\ up'[j] = up[j]
                                   \/ j = Len(up) + 1 /\ up'[j] = e
  <1>1. up \in Seq(Request)
    BY DEF TypeInv, Scalars, Queues
  <1> QED
    BY <1>1, AppendSeq

LEMMA DownTail ==
  ASSUME TypeInv, down # <<>>, down' = Tail(down)
  PROVE  /\ down' \in Seq(Reply) /\ 1 \in 1..Len(down)
         /\ Len(down') = Len(down) - 1
         /\ \A j \in 1..Len(down') : j + 1 \in 1..Len(down) /\ down'[j] = down[j + 1]
  <1>1. down \in Seq(Reply)
    BY DEF TypeInv, Scalars, Queues
  <1> QED
    BY <1>1, TailSeq

LEMMA DownAppend ==
  ASSUME TypeInv, NEW e \in Reply, down' = Append(down, e)
  PROVE  /\ down' \in Seq(Reply)
         /\ Len(down') = Len(down) + 1
         /\ \A j \in 1..Len(down') : \/ j \in 1..Len(down) /\ down'[j] = down[j]
                                     \/ j = Len(down) + 1 /\ down'[j] = e
  <1>1. down \in Seq(Reply)
    BY DEF TypeInv, Scalars, Queues
  <1> QED
    BY <1>1, AppendSeq

LEMMA GrantsAppend ==
  ASSUME TypeInv, NEW g \in Grant, grants' = Append(grants, g)
  PROVE  /\ grants' \in Seq(Grant)
         /\ Len(grants') = Len(grants) + 1
         /\ \A j \in 1..Len(grants) : grants'[j] = grants[j]
         /\ grants'[Len(grants')] = g
  <1>1. grants \in Seq(Grant)
    BY DEF TypeInv, Scalars, Queues
  <1> QED
    BY <1>1, AppendSeq

LEMMA SpentAppend ==
  ASSUME TypeInv, NEW p \in Purpose, spent' = Append(spent, p)
  PROVE  spent' \in Seq(Purpose)
  BY DEF TypeInv, Scalars, Queues

LEMMA GivesUpTypes ==
  ASSUME TypeInv, GivesUp
  PROVE  /\ pc' \in {"idle", "closed"} /\ since' = 0 /\ since' \in 0..now
         /\ faults' \in 0..MaxFaults
         /\ UNCHANGED <<reuses, now, auth, queries, up, sent, grants>>
  <1>1. faults \in 0..MaxFaults /\ now \in Nat /\ MaxFaults \in Nat
    BY Naturals DEF TypeInv, Scalars
  <1> QED
    BY <1>1 DEF GivesUp

LEMMA ScalarsStep ==
  ASSUME TypeInv, TokensInOrder, AnyStep
  PROVE  Scalars'
  <1>0. /\ now \in Nat /\ Len(grants) \in Nat /\ auth.session \in Nat /\ auth.issued_at \in Nat
    BY Naturals, Parts DEF TypeInv, Scalars
  <1>1. CASE Begins
    BY <1>0, <1>1, Labels, Naturals DEF TypeInv, Scalars, Begins
  <1>2. CASE Checks
    BY <1>0, <1>2, Labels DEF TypeInv, Scalars, Checks
  <1>3. CASE Responds
    BY <1>0, <1>3, Labels DEF TypeInv, Scalars, Responds
  <1>4. CASE Rejects \/ Breaks \/ \E p \in Purpose : SendFails(p)
    <2>1. GivesUp
      BY <1>4 DEF Rejects, Breaks, SendFails
    <2> QED
      BY <2>1, GivesUpTypes, Labels DEF TypeInv, Scalars
  <1>5. CASE Tick /\ UNCHANGED reuses
    BY <1>0, <1>5, Naturals DEF TypeInv, Scalars, Tick
  <1>6. ASSUME NEW p \in Purpose, TakesToken(p) PROVE Scalars'
    <2>1. 1 \in 1..Len(down)
      BY <1>6, DownTail DEF TakesToken
    <2>2. /\ down[1].session \in Nat /\ down[1].session <= Len(grants)
          /\ down[1].session_expires \in Int /\ down[1].refresh_expires \in Int
      BY <1>6, <2>1, Parts DEF TakesToken, TokensInOrder
    <2>3. auth' \in Token /\ auth'.issued_at = now /\ auth'.session <= Len(grants)
      BY <1>0, <1>6, <2>2 DEF TakesToken, Granted, Token
    <2>4. pc' \in PC /\ since' \in 0..now
      BY <1>0, <1>6, Labels DEF TakesToken, Resume
    <2> QED
      BY <1>6, <2>3, <2>4 DEF TypeInv, Scalars, TakesToken
  <1>7. ASSUME NEW p \in Purpose, NEW e \in Request, Sends(p, e) PROVE Scalars'
    BY <1>0, <1>7, Labels DEF TypeInv, Scalars, Sends
  <1>8. ASSUME NEW e \in Reply, OtherServed(e) PROVE Scalars'
    BY <1>0, <1>8, Naturals DEF TypeInv, Scalars, OtherServed
  <1>9. ASSUME NEW e \in Reply, NEW g \in Grant, GrantServed(e, g) PROVE Scalars'
    <2>1. Len(grants') = Len(grants) + 1
      BY <1>9, GrantsAppend DEF GrantServed
    <2> QED
      BY <1>0, <1>9, <2>1, Naturals DEF TypeInv, Scalars, GrantServed
  <1>10. CASE UNCHANGED vars
    BY <1>10 DEF TypeInv, Scalars, vars
  <1> QED
    BY <1>1, <1>2, <1>3, <1>4, <1>5, <1>6, <1>7, <1>8, <1>9, <1>10 DEF AnyStep

\* The elements of the queues, when nothing but the clock moves.
LEMMA QueuesStay ==
  ASSUME TypeInv, UNCHANGED <<up, down, grants, sent>>, spent' \in Seq(Purpose),
         now' \in Nat, now <= now'
  PROVE  Queues'
  <1>1. now \in Nat
    BY Naturals DEF TypeInv, Scalars
  <1> QED
    BY <1>1, Parts, SMTT(30) DEF TypeInv, Queues

\* An answer that is read.
LEMMA QueuesRead ==
  ASSUME TypeInv, down # <<>>, down' = Tail(down), UNCHANGED <<up, grants, sent, spent, now>>
  PROVE  Queues'
  BY DownTail DEF TypeInv, Queues

\* A request the server answers.
LEMMA QueuesServed ==
  ASSUME TypeInv, up # <<>>, up' = Tail(up), NEW e \in Reply, down' = Append(down, e),
         e.n = up[1].n, e.at = now, grants' \in Seq(Grant), UNCHANGED <<sent, spent, now>>
  PROVE  Queues'
  <1>1. e.n \in 1..sent /\ e.at <= now
    BY UpTail, Naturals DEF TypeInv, Scalars, Queues
  <1>2. \A j \in 1..Len(up') : up'[j].n \in 1..sent /\ up'[j].at <= now
    BY UpTail DEF TypeInv, Queues
  <1>3. \A j \in 1..Len(down') : down'[j].n \in 1..sent /\ down'[j].at <= now
    BY <1>1, DownAppend DEF TypeInv, Queues
  <1> QED
    BY <1>2, <1>3, UpTail, DownAppend DEF TypeInv, Queues

LEMMA QueuesStep ==
  ASSUME TypeInv, AnyStep
  PROVE  Queues'
  <1>0. now \in Nat /\ sent \in Nat /\ spent \in Seq(Purpose) /\ grants \in Seq(Grant)
    BY Naturals DEF TypeInv, Scalars, Queues
  <1>1. CASE Begins
    BY <1>0, <1>1, QueuesStay DEF Begins
  <1>2. CASE Checks
    BY <1>0, <1>2, QueuesStay DEF Checks
  <1>3. CASE Responds
    BY <1>3, QueuesRead DEF Responds
  <1>4. CASE Rejects
    BY <1>4, QueuesRead DEF Rejects, GivesUp
  <1>5. CASE Breaks
    BY <1>0, <1>5, QueuesStay DEF Breaks, GivesUp
  <1>6. CASE Tick /\ UNCHANGED reuses
    BY <1>0, <1>6, QueuesStay DEF Tick
  <1>7. ASSUME NEW p \in Purpose, SendFails(p) PROVE Queues'
    BY <1>0, <1>7, QueuesStay, SpentAppend DEF SendFails, GivesUp
  <1>8. ASSUME NEW p \in Purpose, TakesToken(p) PROVE Queues'
    BY <1>8, QueuesRead DEF TakesToken
  <1>9. ASSUME NEW p \in Purpose, NEW e \in Request, Sends(p, e) PROVE Queues'
    <2>1. e.n \in 1..sent' /\ e.at <= now' /\ sent <= sent' /\ sent' \in Nat
      BY <1>0, <1>9 DEF Sends
    <2>2. up' = Append(up, e) /\ UNCHANGED <<down, grants, now>>
      BY <1>9 DEF Sends
    <2>3. \A j \in 1..Len(up') : up'[j].n \in 1..sent' /\ up'[j].at <= now'
      BY <1>0, <2>1, <2>2, UpAppend DEF TypeInv, Queues
    <2>4. \A j \in 1..Len(down') : down'[j].n \in 1..sent' /\ down'[j].at <= now'
      BY <1>0, <2>1, <2>2, Parts, SMTT(30) DEF TypeInv, Queues
    <2> QED
      BY <1>9, <2>2, <2>3, <2>4, UpAppend, SpentAppend DEF TypeInv, Queues, Sends
  <1>10. ASSUME NEW e \in Reply, OtherServed(e) PROVE Queues'
    BY <1>0, <1>10, QueuesServed DEF OtherServed
  <1>11. ASSUME NEW e \in Reply, NEW g \in Grant, GrantServed(e, g) PROVE Queues'
    BY <1>11, QueuesServed, GrantsAppend DEF GrantServed
  <1>12. CASE UNCHANGED vars
    BY <1>0, <1>12, QueuesStay DEF vars
  <1> QED
    BY <1>1, <1>2, <1>3, <1>4, <1>5, <1>6, <1>7, <1>8, <1>9, <1>10, <1>11, <1>12 DEF AnyStep

LEMMA TypeStep ==
  ASSUME TypeInv, TokensInOrder, AnyStep
  PROVE  TypeInv'
  BY ScalarsStep, QueuesStep DEF TypeInv

-----------------------------------------------------------------------------
(* Newer tokens only *)

\* Tokens are numbered as they are granted, and answers arrive in that order, so
\* that reading an answer of an earlier request gives an older token than those
\* still under way, but a newer one than the client has.
LEMMA InOrderStep ==
  ASSUME TypeInv, TokensInOrder, AnyStep
  PROVE  TokensInOrder'
  <1>0. auth.session \in Nat /\ Len(grants) \in Nat /\ Len(down) \in Nat
    BY Parts
  <1>1. CASE UNCHANGED <<down, auth, grants>>
    BY <1>1 DEF TokensInOrder
  <1>2. CASE down # <<>> /\ down' = Tail(down) /\ UNCHANGED <<auth, grants>>
    BY <1>0, <1>2, DownTail, Parts DEF TokensInOrder
  <1>3. ASSUME NEW p \in Purpose, TakesToken(p) PROVE TokensInOrder'
    <2>1. /\ 1 \in 1..Len(down) /\ Len(down') = Len(down) - 1
          /\ \A j \in 1..Len(down') : j + 1 \in 1..Len(down) /\ down'[j] = down[j + 1]
      BY <1>3, DownTail DEF TakesToken
    <2>2. auth'.session = down[1].session /\ down[1].session # 0 /\ UNCHANGED grants
      BY <1>3 DEF TakesToken, Granted
    <2>3. \A j \in 1..Len(down') : 1 < j + 1
      BY <1>0, <2>1
    <2>4. \A j \in 1..Len(down') : down'[j].session # 0 =>
            down'[j].session > auth'.session /\ down'[j].session <= Len(grants')
      BY <1>0, <2>1, <2>2, <2>3, Parts DEF TokensInOrder
    <2>5. \A i, j \in 1..Len(down') :
            i < j /\ down'[i].session # 0 /\ down'[j].session # 0
              => down'[i].session < down'[j].session
      BY <1>0, <2>1 DEF TokensInOrder
    <2> QED
      BY <2>4, <2>5 DEF TokensInOrder
  <1>4. ASSUME NEW e \in Reply, down' = Append(down, e), e.session = 0, UNCHANGED <<auth, grants>>
        PROVE  TokensInOrder'
    BY <1>0, <1>4, DownAppend DEF TokensInOrder
  <1>5. ASSUME NEW e \in Reply, NEW g \in Grant, GrantServed(e, g) PROVE TokensInOrder'
    <2>1. /\ e.session = Len(grants) + 1 /\ UNCHANGED auth /\ down' = Append(down, e)
          /\ Len(grants') = Len(grants) + 1
      BY <1>5, GrantsAppend DEF GrantServed
    <2>2. auth.session <= Len(grants)
      BY DEF TypeInv, Scalars
    <2>3. /\ \A j \in 1..Len(down') : \/ j \in 1..Len(down) /\ down'[j] = down[j]
                                      \/ j = Len(down) + 1 /\ down'[j] = e
          /\ Len(down') = Len(down) + 1
      BY <2>1, DownAppend
    <2>4. \A j \in 1..Len(down') : down'[j].session # 0 =>
            down'[j].session > auth'.session /\ down'[j].session <= Len(grants')
      BY <1>0, <2>1, <2>2, <2>3, Parts DEF TokensInOrder
    <2>5. \A i, j \in 1..Len(down') :
            i < j /\ down'[i].session # 0 /\ down'[j].session # 0
              => down'[i].session < down'[j].session
      BY <1>0, <2>1, <2>3, Parts DEF TokensInOrder
    <2> QED
      BY <2>4, <2>5 DEF TokensInOrder
  <1>6. CASE Begins \/ Checks \/ Breaks \/ (Tick /\ UNCHANGED reuses) \/ UNCHANGED vars
    BY <1>1, <1>6 DEF Begins, Checks, Breaks, GivesUp, Tick, vars
  <1>7. CASE Responds \/ Rejects
    BY <1>2, <1>7 DEF Responds, Rejects, GivesUp
  <1>8. ASSUME NEW p \in Purpose, SendFails(p) \/ \E e \in Request : Sends(p, e)
        PROVE  TokensInOrder'
    BY <1>1, <1>8 DEF SendFails, GivesUp, Sends
  <1>9. ASSUME NEW e \in Reply, OtherServed(e) PROVE TokensInOrder'
    BY <1>4, <1>9 DEF OtherServed
  <1> QED
    BY <1>3, <1>5, <1>6, <1>7, <1>8, <1>9 DEF AnyStep

-----------------------------------------------------------------------------
(* Renewals *)

\* Appending to one of the few sequences of requests.
LEMMA SeqEqual ==
  ASSUME NEW S, NEW s \in Seq(S), NEW t \in Seq(S), Len(s) = Len(t),
         \A i \in 1..Len(s) : s[i] = t[i]
  PROVE  s = t
  OBVIOUS

LEMMA AppendToOne ==
  ASSUME NEW S, NEW x \in S, NEW y \in S
  PROVE  Append(<<x>>, y) = <<x, y>>
  <1> DEFINE s == <<x>>
             t == <<x, y>>
  <1>1. s \in Seq(S) /\ t \in Seq(S) /\ Len(s) = 1 /\ Len(t) = 2 /\ s[1] = x /\ t[1] = x /\ t[2] = y
    OBVIOUS
  <1> HIDE DEF s, t
  <1>2. Append(s, y) \in Seq(S) /\ Len(Append(s, y)) = 2 /\ Append(s, y)[1] = x /\ Append(s, y)[2] = y
    BY <1>1, SMTT(30)
  <1>3. \A i \in 1..2 : Append(s, y)[i] = t[i]
    BY <1>1, <1>2
  <1>4. Append(s, y) = t
    BY <1>1, <1>2, <1>3, SeqEqual
  <1> QED
    BY <1>4 DEF s, t

LEMMA SpentCases ==
  /\ Append(<<>>, "Authenticate") = <<"Authenticate">>
  /\ Append(<<>>, "RefreshToken") = <<"RefreshToken">>
  /\ Append(<<"Authenticate">>, "RefreshToken") = <<"Authenticate", "RefreshToken">>
  <1>1. Append(<<>>, "Authenticate") = <<"Authenticate">>
    OBVIOUS
  <1>2. Append(<<>>, "RefreshToken") = <<"RefreshToken">>
    OBVIOUS
  <1>3. "Authenticate" \in Purpose /\ "RefreshToken" \in Purpose
    BY DEF Purpose
  <1>4. Append(<<"Authenticate">>, "RefreshToken") = <<"Authenticate", "RefreshToken">>
    BY <1>3, AppendToOne
  <1> QED
    BY <1>1, <1>2, <1>4

LEMMA SpentStep ==
  ASSUME TypeInv, SpentSoFar, AnyStep
  PROVE  SpentSoFar'
  <1>0. NoRenewalLoop <=> spent \in Orders \/ \E o \in Orders : spent = Append(o, "Query")
    BY DEF NoRenewalLoop, Orders
  <1>00. NoRenewalLoop' <=> spent' \in Orders \/ \E o \in Orders : spent' = Append(o, "Query")
    BY DEF NoRenewalLoop, Orders
  <1>1. CASE pc' \in {"idle", "closed"} /\ UNCHANGED spent
    BY <1>0, <1>00, <1>1 DEF SpentSoFar
  <1>2. CASE UNCHANGED <<pc, spent>>
    BY <1>0, <1>00, <1>2 DEF SpentSoFar
  <1>3. CASE Begins
    BY <1>00, <1>3 DEF Begins, SpentSoFar, Orders
  <1>4. CASE Checks
    BY <1>0, <1>00, <1>4 DEF Checks, SpentSoFar, Orders
  <1>5. ASSUME NEW p \in Purpose, pc = Sending(p), spent' = Append(spent, p),
               pc' \in {"idle", "closed"} \/ pc' = Awaiting(p)
        PROVE  SpentSoFar'
    <2>1. CASE p = "Authenticate"
      <3>1. spent' = <<"Authenticate">>
        BY <1>5, <2>1, Labels, SpentCases DEF SpentSoFar
      <3> QED
        BY <1>00, <1>5, <2>1, <3>1, Labels DEF SpentSoFar, Orders
    <2>2. CASE p = "RefreshToken"
      <3>1. spent' \in {<<"RefreshToken">>, <<"Authenticate", "RefreshToken">>}
        BY <1>5, <2>2, Labels, SpentCases DEF SpentSoFar
      <3> QED
        BY <1>00, <1>5, <2>2, <3>1, Labels DEF SpentSoFar, Orders
    <2>3. CASE p = "Query"
      <3>1. \E o \in Orders : spent' = Append(o, "Query")
        BY <1>5, <2>3, Labels DEF SpentSoFar
      <3> QED
        BY <1>00, <1>5, <2>3, <3>1, Labels DEF SpentSoFar
    <2> QED
      BY <2>1, <2>2, <2>3, Labels
  <1>6. ASSUME NEW p \in Purpose, TakesToken(p) PROVE SpentSoFar'
    <2>1. CASE pc' = "idle"
      BY <1>1, <1>6, <2>1 DEF TakesToken
    <2>2. CASE p = "Authenticate" /\ pc' = "refresh?"
      BY <1>0, <1>00, <1>6, <2>2, Labels DEF TakesToken, SpentSoFar
    <2>3. CASE p = "RefreshToken" /\ pc' = "sendQuery"
      BY <1>0, <1>00, <1>6, <2>3, Labels DEF TakesToken, SpentSoFar
    <2> QED
      BY <1>6, <2>1, <2>2, <2>3, Labels DEF TakesToken, Resume
  <1>7. CASE Responds \/ Rejects \/ Breaks
    BY <1>1, <1>7, GivesUpTypes DEF Responds, Rejects, Breaks
  <1>8. ASSUME NEW p \in Purpose, SendFails(p) \/ \E e \in Request : Sends(p, e)
        PROVE  SpentSoFar'
    BY <1>5, <1>8, GivesUpTypes DEF SendFails, Sends
  <1>9. CASE \/ (Tick /\ UNCHANGED reuses) \/ UNCHANGED vars
             \/ \E e \in Reply : OtherServed(e) \/ \E g \in Grant : GrantServed(e, g)
    BY <1>2, <1>9 DEF Tick, vars, OtherServed, GrantServed
  <1> QED
    BY <1>3, <1>4, <1>6, <1>7, <1>8, <1>9 DEF AnyStep

-----------------------------------------------------------------------------
(* A token from the constructor on *)

LEMMA HasTokenStep ==
  ASSUME TypeInv, HasToken, AnyStep
  PROVE  HasToken'
  <1>1. CASE GivesUp
    BY <1>1 DEF GivesUp, HasToken
  <1>2. ASSUME NEW p \in Purpose, TakesToken(p) PROVE HasToken'
    BY <1>2 DEF TakesToken, Granted, HasToken
  <1>3. CASE Begins \/ Checks \/ Responds
    BY <1>3 DEF Begins, Checks, Responds, HasToken
  <1>4. ASSUME NEW p \in Purpose, NEW e \in Request, Sends(p, e) PROVE HasToken'
    BY <1>4, Labels DEF Sends, HasToken
  <1>5. CASE UNCHANGED <<auth, pc>>
    BY <1>5 DEF HasToken
  <1> QED
    BY <1>1, <1>2, <1>3, <1>4, <1>5
       DEF AnyStep, SendFails, Rejects, Breaks, Tick, vars, OtherServed, GrantServed

-----------------------------------------------------------------------------
(* One message at a time *)

LEMMA Empty ==
  ASSUME TypeInv
  PROVE  /\ Len(up) \in Nat /\ Len(down) \in Nat /\ Len(grants) \in Nat
         /\ up = <<>> <=> Len(up) = 0
         /\ down = <<>> <=> Len(down) = 0
  <1>1. up \in Seq(Request) /\ down \in Seq(Reply) /\ grants \in Seq(Grant)
    BY DEF TypeInv, Queues
  <1> QED
    BY <1>1

LEMMA EmptyNext ==
  ASSUME TypeInv'
  PROVE  /\ Len(up') \in Nat /\ Len(down') \in Nat /\ Len(grants') \in Nat
         /\ up' = <<>> <=> Len(up') = 0
         /\ down' = <<>> <=> Len(down') = 0
  <1>1. up' \in Seq(Request) /\ down' \in Seq(Reply) /\ grants' \in Seq(Grant)
    BY DEF TypeInv, Queues
  <1> QED
    BY <1>1

LEMMA NoNewOwner ==
  ASSUME AnyStep
  PROVE  UNCHANGED reuses
  BY DEF AnyStep, Begins, Checks, Responds, Rejects, Breaks, GivesUp, Tick, SendFails, TakesToken,
         Sends, OtherServed, GrantServed, vars

\* A call that ends with an exception ends the use of such a client; whatever is
\* still under way stays unread.
LEMMA OneMessageGivesUp ==
  ASSUME TypeInv, TypeInv', OneMessage, GivesUp, ~reuses, down' = down \/ (down # <<>> /\ down' = Tail(down))
  PROVE  OneMessage' /\ pc' = "closed"
  <1>1. pc' = "closed" /\ outcome'.how # "response" /\ UNCHANGED up
    BY DEF GivesUp
  <1>2. (up = <<>> \/ down = <<>>) /\ Len(up) <= 1 /\ Len(down) <= 1
    BY DEF OneMessage
  <1>3. Len(down') <= Len(down)
    BY DownTail, Empty
  <1>4. (up' = <<>> \/ down' = <<>>) /\ Len(up') <= 1 /\ Len(down') <= 1
    BY <1>1, <1>2, <1>3, Empty, EmptyNext
  <1>5. \A p \in Purpose : pc' # Awaiting(p)
    BY <1>1, Labels
  <1> QED
    BY <1>1, <1>4, <1>5 DEF OneMessage

\* A request that is served was the only message.
LEMMA OneMessageServed ==
  ASSUME TypeInv, TypeInv', OneMessage, ~reuses, up # <<>>, up' = Tail(up),
         NEW e \in Reply, e.n = up[1].n, down' = Append(down, e),
         UNCHANGED <<pc, sent, outcome, reuses>>
  PROVE  /\ OneMessage' /\ down = <<>> /\ up' = <<>>
         /\ Len(down') = 1 /\ down'[1] = e /\ Len(up) = 1
         /\ pc = "closed" \/ \E p \in Purpose : pc = Awaiting(p) /\ up[1].for = p
  <1>1. down = <<>> /\ Len(up) = 1
    <2>1. (up = <<>> \/ down = <<>>) /\ Len(up) <= 1
      BY DEF OneMessage
    <2>2. Len(up) \in Nat /\ Len(up) # 0
      BY Empty
    <2> DEFINE n == Len(up)
    <2>3. n \in Nat /\ n # 0 /\ n <= 1
      BY <2>1, <2>2
    <2> HIDE DEF n
    <2>4. n = 1
      BY <2>3
    <2> QED
      BY <2>1, <2>4 DEF n
  <1>2. up' = <<>> /\ Len(up') = 0
    BY <1>1, UpTail, EmptyNext
  <1>3. Len(down') = 1 /\ down'[1] = e
    BY <1>1, Empty, DownAppend
  <1>4. pc = "closed" \/ \E p \in Purpose : pc = Awaiting(p)
    BY DEF OneMessage, Waits
  <1>5. \A p \in Purpose : pc = Awaiting(p) => up[1].for = p /\ up[1].n = sent
    BY DEF OneMessage
  <1>6. OneMessage'
    BY <1>2, <1>3, <1>4, <1>5, Labels DEF OneMessage
  <1> QED
    BY <1>1, <1>2, <1>3, <1>4, <1>5, <1>6

\* An answer that arrives is the only message.
LEMMA OneAnswer ==
  ASSUME TypeInv, OneMessage, ~reuses, NEW p \in Purpose, pc = Awaiting(p), down # <<>>
  PROVE  Len(down) = 1 /\ up = <<>> /\ down[1].n = sent /\ outcome.how # "response"
  <1>1. /\ up = <<>> \/ down = <<>>
        /\ Len(down) <= 1
        /\ down[1].n = sent
    BY DEF OneMessage
  <1>2. pc # "idle"
    BY Labels
  <1>3. outcome.how # "response"
    BY <1>2 DEF OneMessage
  <1>4. Len(down) \in Nat /\ Len(down) # 0
    BY Empty
  <1>5. Len(down) = 1
    BY <1>1, <1>4, SMTT(30)
  <1> QED
    BY <1>1, <1>3, <1>5

LEMMA OneMessageStep ==
  ASSUME TypeInv, TypeInv', OneMessage, AnyStep
  PROVE  OneMessage'
  <1> SUFFICES ASSUME ~reuses PROVE OneMessage'
    BY NoNewOwner DEF OneMessage
  <1>1. CASE Begins
    BY <1>1, Labels DEF Begins, OneMessage
  <1>2. CASE Checks
    BY <1>2, Labels DEF Checks, OneMessage
  <1>3. CASE Responds
    <2>1. Len(down) = 1 /\ up = <<>> /\ down[1].n = sent /\ UNCHANGED up
      BY <1>3, Labels, OneAnswer DEF Responds
    <2>2. down' = <<>> /\ Len(down') = 0
      BY <1>3, <2>1, DownTail, EmptyNext DEF Responds
    <2> QED
      BY <1>3, <2>1, <2>2, Labels, Empty DEF Responds, OneMessage, Outcome
  <1>4. CASE Rejects \/ Breaks
    BY <1>4, OneMessageGivesUp DEF Rejects, Breaks
  <1>5. ASSUME NEW p \in Purpose, SendFails(p) PROVE OneMessage'
    BY <1>5, OneMessageGivesUp DEF SendFails
  <1>6. ASSUME NEW p \in Purpose, TakesToken(p) PROVE OneMessage'
    <2>1. Len(down) = 1 /\ up = <<>> /\ UNCHANGED <<up, outcome>> /\ outcome.how # "response"
      BY <1>6, OneAnswer DEF TakesToken
    <2>2. down' = <<>> /\ Len(down') = 0
      BY <1>6, <2>1, DownTail, EmptyNext DEF TakesToken
    <2>3. ~Waits(pc') /\ \A q \in Purpose : pc' # Awaiting(q)
      BY <1>6, Labels DEF TakesToken, Resume
    <2> QED
      BY <2>1, <2>2, <2>3, Empty DEF OneMessage
  <1>7. ASSUME NEW p \in Purpose, NEW e \in Request, Sends(p, e) PROVE OneMessage'
    <2>1. up = <<>> /\ down = <<>> /\ UNCHANGED <<down, outcome>> /\ outcome.how # "response"
      BY <1>7, Labels DEF Sends, OneMessage
    <2>2. Len(up') = 1 /\ up'[1] = e /\ Len(down') = 0
      BY <1>7, <2>1, Empty, UpAppend DEF Sends
    <2>3. \A q \in Purpose : pc' = Awaiting(q) => q = p
      BY <1>7, DistinctLabels DEF Sends
    <2>4. Waits(pc') /\ pc' # "idle"
      <3>1. pc' = Awaiting(p)
        BY <1>7 DEF Sends
      <3>2. Awaiting(p) \in {"awaitAuthenticate", "awaitRefreshToken", "awaitQuery"}
        BY Labels
      <3> QED
        BY <3>1, <3>2, Labels
    <2>5. e.for = p /\ e.n = sent'
      BY <1>7 DEF Sends
    <2> QED
      BY <2>1, <2>2, <2>3, <2>4, <2>5 DEF OneMessage
  <1>8. ASSUME NEW e \in Reply, OtherServed(e) PROVE OneMessage'
    BY <1>8, OneMessageServed DEF OtherServed
  <1>9. ASSUME NEW e \in Reply, NEW g \in Grant, GrantServed(e, g) PROVE OneMessage'
    BY <1>9, OneMessageServed DEF GrantServed
  <1>10. CASE UNCHANGED <<up, down, pc, sent, outcome, reuses>>
    BY <1>10 DEF OneMessage
  <1> QED
    BY <1>1, <1>2, <1>3, <1>4, <1>5, <1>6, <1>7, <1>8, <1>9, <1>10 DEF AnyStep, Tick, vars

-----------------------------------------------------------------------------
(* The latest token *)

LEMMA LatestStep ==
  ASSUME TypeInv, TypeInv', OneMessage, Latest, AnyStep
  PROVE  Latest'
  <1> SUFFICES ASSUME ~reuses, ~reuses' PROVE Latest'
    BY NoNewOwner DEF Latest, CarriesLatestToken
  <1>1. ASSUME pc' = "closed", UNCHANGED <<up, grants>> PROVE Latest'
    BY <1>1 DEF Latest, CarriesLatestToken
  <1>2. CASE Begins \/ Checks
    BY <1>2 DEF Begins, Checks, Latest, CarriesLatestToken
  <1>3. CASE Responds
    <2>1. Len(down) = 1
      BY <1>3, OneAnswer, Labels DEF Responds
    <2>2. Len(down') = 0 /\ UNCHANGED <<up, auth, grants>> /\ pc' = "idle"
      BY <1>3, <2>1, DownTail DEF Responds
    <2>3. auth.session = Len(grants)
      BY <1>3 DEF Responds, Latest
    <2>4. CarriesLatestToken'
      BY <2>2 DEF Latest, CarriesLatestToken
    <2> QED
      BY <2>2, <2>3, <2>4 DEF Latest
  <1>4. CASE Rejects \/ Breaks \/ \E p \in Purpose : SendFails(p)
    BY <1>1, <1>4 DEF Rejects, Breaks, SendFails, GivesUp
  <1>5. ASSUME NEW p \in Purpose, TakesToken(p) PROVE Latest'
    <2>1. Len(down) = 1 /\ 1 \in 1..Len(down) /\ pc # "closed"
      BY <1>5, OneAnswer, DownTail, Labels DEF TakesToken
    <2>2. Len(down') = 0 /\ UNCHANGED <<up, grants>>
      BY <1>5, <2>1, DownTail DEF TakesToken
    <2>3. down[1].session \in {0, Len(grants)}
      BY <2>1 DEF Latest
    <2>4. auth'.session = Len(grants)
      BY <1>5, <2>3 DEF TakesToken, Granted
    <2>5. CarriesLatestToken'
      BY <2>2 DEF Latest, CarriesLatestToken
    <2> QED
      BY <2>2, <2>4, <2>5 DEF Latest
  <1>6. ASSUME NEW p \in Purpose, NEW e \in Request, Sends(p, e) PROVE Latest'
    <2>1. pc # "closed" /\ up = <<>> /\ down = <<>> /\ UNCHANGED <<auth, down, grants>>
      BY <1>6, Labels DEF Sends, OneMessage
    <2>2. auth.session = Len(grants)
      BY <2>1 DEF Latest
    <2>3. Len(up') = 1 /\ up'[1] = e
      BY <1>6, <2>1, Empty, UpAppend DEF Sends
    <2>4. e.for = "Query" => e.session = auth.session
      BY <1>6 DEF Sends
    <2>5. CarriesLatestToken'
      BY <2>1, <2>2, <2>3, <2>4 DEF CarriesLatestToken
    <2>6. \A j \in 1..Len(down') : down'[j].session \in {0, Len(grants')}
      BY <2>1 DEF Latest
    <2> QED
      BY <2>1, <2>2, <2>5, <2>6 DEF Latest
  <1>7. ASSUME NEW e \in Reply, OtherServed(e) PROVE Latest'
    <2>1. /\ down = <<>> /\ up' = <<>> /\ Len(down') = 1 /\ down'[1] = e
          /\ UNCHANGED <<auth, grants, pc>> /\ e.session = 0
      BY <1>7, OneMessageServed DEF OtherServed
    <2>2. Len(up') = 0 /\ down' # <<>>
      BY <2>1, EmptyNext
    <2>3. CarriesLatestToken'
      BY <2>2 DEF CarriesLatestToken
    <2> QED
      BY <2>1, <2>2, <2>3 DEF Latest
  <1>8. ASSUME NEW e \in Reply, NEW g \in Grant, GrantServed(e, g) PROVE Latest'
    <2>1. /\ up' = <<>> /\ Len(down') = 1 /\ down'[1] = e
          /\ pc = "closed" \/ \E p \in Purpose : pc = Awaiting(p) /\ up[1].for = p
      BY <1>8, OneMessageServed DEF GrantServed
    <2>2. e.session = Len(grants') /\ up[1].for # "Query" /\ UNCHANGED <<auth, pc>>
      BY <1>8, GrantsAppend DEF GrantServed
    <2>3. Len(up') = 0 /\ down' # <<>>
      BY <2>1, EmptyNext
    <2>4. pc # "awaitQuery"
      <3>1. SUFFICES ASSUME NEW p \in Purpose, pc = Awaiting(p), up[1].for = p
            PROVE  pc # "awaitQuery"
        BY <2>1
      <3>2. "Query" \in Purpose /\ Awaiting("Query") = "awaitQuery"
        BY Labels
      <3> QED
        BY <2>2, <3>1, <3>2, DistinctLabels
    <2>5. CarriesLatestToken'
      BY <2>3 DEF CarriesLatestToken
    <2> QED
      BY <2>1, <2>2, <2>3, <2>4, <2>5 DEF Latest
  <1>9. CASE UNCHANGED <<up, down, pc, auth, grants, reuses>>
    BY <1>9 DEF Latest, CarriesLatestToken
  <1> QED
    BY <1>2, <1>3, <1>4, <1>5, <1>6, <1>7, <1>8, <1>9 DEF AnyStep, Tick, vars

-----------------------------------------------------------------------------
(* Delays *)

LEMMA Ways ==
  /\ \A l : OnItsWay(l) => ~Waits(l) /\ l \notin {"idle", "closed"}
  /\ OnItsWay("sendQuery")
  /\ \A p \in Purpose : Waits(Awaiting(p))
  /\ \A p : Resume(p) \in {"refresh?", "sendQuery"}
  <1>1. \A l : OnItsWay(l) => ~Waits(l) /\ l \notin {"idle", "closed"}
    BY DEF OnItsWay
  <1>2. OnItsWay("sendQuery")
    BY Labels DEF OnItsWay
  <1>3. \A p \in Purpose : Waits(Awaiting(p))
    BY DEF Waits
  <1>4. \A p : Resume(p) \in {"refresh?", "sendQuery"}
    BY DEF Resume
  <1> QED
    BY <1>1, <1>2, <1>3, <1>4

LEMMA OnTimeStep ==
  ASSUME TypeInv, TypeInv', OneMessage, OnTime, AnyStep
  PROVE  OnTime'
  <1>0. now \in Nat /\ Stall \in Nat /\ Latency \in Nat
    BY Naturals DEF TypeInv, Scalars
  <1>1. ASSUME UNCHANGED <<up, now>>, pc' \in {"idle", "closed"} \/ (~Waits(pc') /\ since' = now)
        PROVE  OnTime'
    <2>1. ~Waits(pc')
      BY <1>1, Labels
    <2>2. OnItsWay(pc') => now' <= since' + Stall
      BY <1>0, <1>1, Ways
    <2> QED
      BY <1>1, <2>1, <2>2 DEF OnTime
  <1>2. CASE Begins \/ Checks
    BY <1>1, <1>2, Labels DEF Begins, Checks
  <1>3. CASE Responds \/ GivesUp
    BY <1>1, <1>3 DEF Responds, GivesUp
  <1>4. ASSUME NEW p \in Purpose, TakesToken(p) PROVE OnTime'
    BY <1>1, <1>4, Ways, Labels DEF TakesToken
  <1>5. ASSUME NEW p \in Purpose, NEW e \in Request, Sends(p, e) PROVE OnTime'
    <2>1. Waits(pc') /\ pc # "closed" /\ ~Waits(pc)
      BY <1>5, Ways, Labels DEF Sends
    <2>2. ~reuses => Len(down') = 0
      BY <1>5, <2>1, Empty DEF OneMessage, Sends
    <2>3. \A j \in 1..Len(up') : now' <= up'[j].at + Latency
      BY <1>0, <1>5, UpAppend DEF Sends, OnTime
    <2> QED
      BY <1>5, <2>1, <2>2, <2>3, Ways DEF OnTime, Sends
  <1>6. ASSUME NEW e \in Reply, down' = Append(down, e), e.at = now, up # <<>>, up' = Tail(up),
               UNCHANGED <<now, pc, since, reuses>>
        PROVE  OnTime'
    <2>1. \A j \in 1..Len(up') : now' <= up'[j].at + Latency
      BY <1>0, <1>6, UpTail DEF OnTime
    <2>2. ~reuses /\ Waits(pc) => \A j \in 1..Len(down') : now' <= down'[j].at + Latency
      BY <1>0, <1>6, DownAppend DEF OnTime
    <2> QED
      BY <1>6, <2>1, <2>2 DEF OnTime
  <1>7. ASSUME NEW e \in Reply, OtherServed(e) \/ \E g \in Grant : GrantServed(e, g)
        PROVE  OnTime'
    BY <1>6, <1>7 DEF OtherServed, GrantServed
  <1>8. CASE Tick /\ UNCHANGED reuses
    <2>1. now' = now + 1 /\ UNCHANGED <<up, down, pc, since, reuses>>
      BY <1>8 DEF Tick
    <2>2. \A j \in 1..Len(up') : now' <= up'[j].at + Latency
      BY <1>0, <1>8, <2>1, Parts DEF Tick
    <2>3. Waits(pc) => \A j \in 1..Len(down') : now' <= down'[j].at + Latency
      BY <1>0, <1>8, <2>1, Parts DEF Tick
    <2>4. OnItsWay(pc) => now' <= since' + Stall
      BY <1>0, <1>8, <2>1 DEF Tick, TypeInv, Scalars
    <2> QED
      BY <2>1, <2>2, <2>3, <2>4 DEF OnTime
  <1>9. CASE UNCHANGED vars
    BY <1>9 DEF OnTime, vars
  <1> QED
    BY <1>2, <1>3, <1>4, <1>5, <1>7, <1>8, <1>9 DEF AnyStep, SendFails, Rejects, Breaks

LEMMA AsGrantedStep ==
  ASSUME TypeInv, TypeInv', TokensInOrder, AsGranted, AnyStep
  PROVE  AsGranted'
  <1>0. Len(down) \in Nat /\ Len(grants) \in Nat
    BY Parts
  <1>1. CASE UNCHANGED <<down, grants>>
    BY <1>1 DEF AsGranted
  <1>2. CASE down # <<>> /\ down' = Tail(down) /\ UNCHANGED grants
    BY <1>2, DownTail DEF AsGranted
  <1>3. ASSUME NEW e \in Reply, OtherServed(e) PROVE AsGranted'
    BY <1>0, <1>3, DownAppend DEF OtherServed, AsGranted
  <1>4. ASSUME NEW e \in Reply, NEW g \in Grant, GrantServed(e, g) PROVE AsGranted'
    <2>1. /\ Len(grants') = Len(grants) + 1 /\ grants'[Len(grants')] = g
          /\ \A j \in 1..Len(grants) : grants'[j] = grants[j]
      BY <1>4, GrantsAppend DEF GrantServed
    <2>2. e.session = Len(grants') /\ e.at = g.at /\ e.session_expires = g.session_expires
      BY <1>4, <2>1 DEF GrantServed
    <2>3. \A j \in 1..Len(down) : down[j].session # 0 => down[j].session \in 1..Len(grants)
      BY <1>0, Parts DEF TokensInOrder
    <2>4. \A j \in 1..Len(down') : \/ j \in 1..Len(down) /\ down'[j] = down[j]
                                   \/ down'[j] = e
      BY <1>4, DownAppend DEF GrantServed
    <2> QED
      BY <2>1, <2>2, <2>3, <2>4 DEF AsGranted
  <1> QED
    BY <1>1, <1>2, <1>3, <1>4 DEF AnyStep, Begins, Checks, Responds, Rejects, Breaks, GivesUp,
       Tick, SendFails, TakesToken, Sends, vars

LEMMA SoonTakenStep ==
  ASSUME TypeInv, TypeInv', TokensInOrder, OnTime, AsGranted, SoonTaken, AnyStep
  PROVE  SoonTaken'
  <1> SUFFICES ASSUME ~reuses, ~reuses' PROVE SoonTaken'
    BY NoNewOwner DEF SoonTaken
  <1>1. CASE UNCHANGED <<auth, grants>>
    BY <1>1 DEF SoonTaken
  <1>2. ASSUME NEW p \in Purpose, TakesToken(p) PROVE SoonTaken'
    <2>1. 1 \in 1..Len(down) /\ down[1].session # 0 /\ auth' = Granted(down[1]) /\ UNCHANGED grants
      BY <1>2, DownTail DEF TakesToken
    <2>2. now <= down[1].at + Latency
      BY <1>2, <2>1, Ways DEF TakesToken, OnTime
    <2>3. /\ auth'.session = down[1].session /\ auth'.issued_at = now
          /\ auth'.session_expires = down[1].session_expires
      BY <2>1 DEF Granted
    <2>4. /\ down[1].at = grants[down[1].session].at
          /\ down[1].session_expires = grants[down[1].session].session_expires
      BY <2>1 DEF AsGranted
    <2> QED
      BY <2>1, <2>2, <2>3, <2>4 DEF SoonTaken
  <1>3. ASSUME NEW e \in Reply, NEW g \in Grant, GrantServed(e, g) PROVE SoonTaken'
    <2>1. \A j \in 1..Len(grants) : grants'[j] = grants[j]
      BY <1>3, GrantsAppend DEF GrantServed
    <2>2. auth.session # 0 => auth.session \in 1..Len(grants)
      BY Parts, SMTT(30) DEF TypeInv, Scalars
    <2>3. auth' = auth
      BY <1>3 DEF GrantServed
    <2> QED
      BY <2>1, <2>2, <2>3 DEF SoonTaken
  <1> QED
    BY <1>1, <1>2, <1>3 DEF AnyStep, Begins, Checks, Responds, Rejects, Breaks, GivesUp,
       Tick, SendFails, Sends, OtherServed, vars

LEMMA CheckedBeforeStep ==
  ASSUME TypeInv, TypeInv', CheckedBefore, AnyStep
  PROVE  CheckedBefore'
  <1>1. CASE UNCHANGED <<pc, auth, since>>
    BY <1>1 DEF CheckedBefore
  <1>2. CASE pc' # "sendQuery"
    BY <1>2 DEF CheckedBefore
  <1>3. CASE Checks
    <2>1. CASE pc' = "sendQuery"
      <3>1. /\ ~(auth.issued_at + auth.session_expires <= now)
            /\ since' = now /\ UNCHANGED auth
        BY <1>3, <2>1 DEF Checks, Expired
      <3>2. /\ auth.issued_at \in Nat /\ auth.session_expires \in Int /\ now \in Nat
            /\ auth.issued_at <= now
        BY Parts, Naturals DEF TypeInv, Scalars
      <3>3. auth.session_expires > 0 /\ now <= auth.issued_at + (auth.session_expires - 1)
        BY <3>1, <3>2
      <3> QED
        BY <3>1, <3>3 DEF CheckedBefore, Usable
    <2> QED
      BY <1>2, <2>1
  <1>4. ASSUME NEW p \in Purpose, TakesToken(p) PROVE CheckedBefore'
    <2>1. CASE pc' = "sendQuery"
      <3>1. since' = now /\ auth'.issued_at = now /\ auth'.session_expires = down[1].session_expires
        BY <1>4, <2>1 DEF TakesToken, Granted
      <3>2. 1 \in 1..Len(down)
        BY <1>4, DownTail DEF TakesToken
      <3>3. down[1].session_expires \in Int
        BY <3>2, Parts
      <3>4. now \in Nat
        BY Naturals DEF TypeInv, Scalars
      <3>5. Usable(down[1].session_expires) \in Nat
        BY <3>3 DEF Usable
      <3>6. now <= now + Usable(down[1].session_expires)
        BY <3>4, <3>5
      <3> QED
        BY <3>1, <3>6 DEF CheckedBefore
    <2> QED
      BY <1>2, <2>1
  <1>5. ASSUME NEW p \in Purpose, NEW e \in Request, Sends(p, e) PROVE CheckedBefore'
    BY <1>2, <1>5, Ways DEF Sends
  <1> QED
    BY <1>1, <1>2, <1>3, <1>4, <1>5 DEF AnyStep, Begins, Responds, Rejects, Breaks, GivesUp,
       Tick, SendFails, OtherServed, GrantServed, vars

LEMMA SentInTimeStep ==
  ASSUME TypeInv, TypeInv', HasToken, OneMessage, Delays, AnyStep
  PROVE  SentInTime'
  <1> SUFFICES ASSUME ~reuses, ~reuses' PROVE SentInTime'
    BY NoNewOwner DEF SentInTime
  <1>1. CASE UNCHANGED <<up, grants>>
    BY <1>1 DEF Delays, SentInTime
  <1>2. ASSUME NEW p \in Purpose, NEW e \in Request, Sends(p, e) PROVE SentInTime'
    <2>1. up = <<>> /\ UNCHANGED grants /\ e.for = p /\ e.at = now
      BY <1>2, Labels DEF Sends, OneMessage
    <2>2. Len(up') = 1 /\ up'[1] = e
      BY <1>2, <2>1, Empty, UpAppend DEF Sends
    <2>3. ASSUME p = "Query"
          PROVE  /\ e.session \in 1..Len(grants)
                 /\ e.at <= grants[e.session].at + Latency
                              + Usable(grants[e.session].session_expires) + Stall
      <3>1. pc = "sendQuery" /\ e.session = auth.session
        BY <1>2, <2>3, Labels DEF Sends
      <3>2. auth.session \in 1..Len(grants)
        BY <3>1, Parts, SMTT(30) DEF HasToken, TypeInv, Scalars
      <3>3. now <= since + Stall
        BY <3>1, Ways DEF Delays, OnTime
      <3>4. since <= auth.issued_at + Usable(auth.session_expires)
        BY <3>1 DEF Delays, CheckedBefore
      <3> DEFINE g == grants[auth.session]
      <3>5. auth.issued_at <= g.at + Latency /\ auth.session_expires = g.session_expires
        BY <3>2 DEF Delays, SoonTaken
      <3>6. Usable(g.session_expires) \in Nat
        BY <3>2, Parts DEF Usable
      <3>7. g.at \in Nat
        BY <3>2, Parts
      <3> HIDE DEF g
      <3>8. now \in Nat /\ since \in Nat
        BY Naturals DEF TypeInv, Scalars
      <3>9. auth.issued_at \in Nat /\ Stall \in Nat /\ Latency \in Nat
        BY Parts, Naturals
      <3>10. now <= g.at + Latency + Usable(g.session_expires) + Stall
        BY <3>3, <3>4, <3>5, <3>6, <3>7, <3>8, <3>9
      <3> QED
        BY <2>1, <3>1, <3>2, <3>10 DEF g
    <2> QED
      BY <2>1, <2>2, <2>3 DEF SentInTime
  <1>3. ASSUME up # <<>>, up' = Tail(up), Len(grants') >= Len(grants),
               \A j \in 1..Len(grants) : grants'[j] = grants[j]
        PROVE  SentInTime'
    <2>1. \A j \in 1..Len(grants) : j \in 1..Len(grants')
      BY <1>3, Empty, EmptyNext
    <2> QED
      BY <1>3, <2>1, UpTail DEF Delays, SentInTime
  <1>4. ASSUME NEW e \in Reply, OtherServed(e) PROVE SentInTime'
    BY <1>3, <1>4, Empty DEF OtherServed
  <1>5. ASSUME NEW e \in Reply, NEW g \in Grant, GrantServed(e, g) PROVE SentInTime'
    <2>1. /\ Len(grants') = Len(grants) + 1 /\ Len(grants) \in Nat
          /\ \A j \in 1..Len(grants) : grants'[j] = grants[j]
      BY <1>5, GrantsAppend, Empty DEF GrantServed
    <2> QED
      BY <1>3, <1>5, <2>1 DEF GrantServed
  <1> QED
    BY <1>1, <1>2, <1>4, <1>5 DEF AnyStep, Begins, Checks, Responds, Rejects, Breaks, GivesUp,
       Tick, SendFails, TakesToken, vars

-----------------------------------------------------------------------------
(* The theorems *)

LEMMA Initially == Init => IInv
  <1> SUFFICES ASSUME Init PROVE IInv
    OBVIOUS
  <1>1. /\ reuses \in Reuses /\ now = 0 /\ since = 0 /\ queries = 0 /\ sent = 0 /\ faults = 0
        /\ auth = NoToken /\ pc = "sendAuthenticate" /\ outcome.how = "none"
        /\ spent = <<>> /\ up = <<>> /\ down = <<>> /\ grants = <<>>
    BY DEF Init, Outcome
  <1>2. Len(up) = 0 /\ Len(down) = 0 /\ Len(grants) = 0
    BY <1>1
  <1>3. auth \in Token /\ auth.session = 0 /\ auth.issued_at = 0
    BY <1>1 DEF NoToken, Token
  <1>4. Scalars
    BY <1>1, <1>2, <1>3, Naturals, Labels DEF Scalars
  <1>5. Queues
    BY <1>1, <1>2 DEF Queues
  <1>6. TokensInOrder
    BY <1>2 DEF TokensInOrder
  <1>7. SpentSoFar
    BY <1>1 DEF SpentSoFar, NoRenewalLoop
  <1>8. HasToken
    BY <1>1 DEF HasToken
  <1>9. \A p \in Purpose : pc # Awaiting(p)
    BY <1>1, Labels
  <1>10. OneMessage
    BY <1>1, <1>2, <1>9 DEF OneMessage
  <1>11. Latest
    BY <1>1, <1>2, <1>3 DEF Latest, CarriesLatestToken
  <1>12. Delays
    BY <1>1, <1>2, <1>3, Naturals
       DEF Delays, OnTime, AsGranted, SoonTaken, CheckedBefore, SentInTime
  <1> QED
    BY <1>4, <1>5, <1>6, <1>7, <1>8, <1>10, <1>11, <1>12 DEF IInv, TypeInv

LEMMA Inductive == IInv /\ [Next]_vars => IInv'
  <1> SUFFICES ASSUME IInv, [Next]_vars PROVE IInv'
    OBVIOUS
  <1>1. TypeInv /\ AnyStep
    BY StepCases DEF IInv
  <1>2. TypeInv' /\ TokensInOrder' /\ SpentSoFar' /\ HasToken'
    BY <1>1, TypeStep, InOrderStep, SpentStep, HasTokenStep DEF IInv
  <1>3. OneMessage' /\ Latest'
    BY <1>1, <1>2, OneMessageStep, LatestStep DEF IInv
  <1>4. Delays'
    BY <1>1, <1>2, OnTimeStep, AsGrantedStep, SoonTakenStep, CheckedBeforeStep, SentInTimeStep
       DEF IInv, Delays
  <1> QED
    BY <1>2, <1>3, <1>4 DEF IInv

LEMMA Invariance == Spec => []IInv
  BY Initially, Inductive, PTL DEF Spec

\* The types that the runs check.
THEOREM ClientTypes == Spec => []TypeOK
  <1>1. IInv => TypeOK
    <2> SUFFICES ASSUME IInv PROVE TypeOK
      OBVIOUS
    <2>1. TypeInv
      BY DEF IInv
    <2>2. auth.session \in 0..Len(grants) /\ auth.issued_at \in 0..now
      BY <2>1, Parts, Naturals DEF TypeInv, Scalars
    <2> QED
      BY <2>1, <2>2, Parts DEF TypeOK, TypeInv, Scalars, Queues
  <1> QED
    BY Invariance, <1>1, PTL

\* What query() returns is the server's answer to that very query, whatever the
\* client asked for on its own before it, if its owner drops the client after
\* an exception.
THEOREM OwnAnswerOnly == Spec => []AnswersTheQuery
  <1>1. IInv => AnswersTheQuery
    BY DEF IInv, OneMessage, AnswersTheQuery
  <1> QED
    BY Invariance, <1>1, PTL

\* A query on its way carries the token that the server granted last, whatever
\* lifetimes it grants and however the clock ticks between check and send.
THEOREM LatestTokenOnly == Spec => []CarriesLatestToken
  <1>1. IInv => CarriesLatestToken
    BY DEF IInv, Latest, CarriesLatestToken
  <1> QED
    BY Invariance, <1>1, PTL

\* A query that left at most l + u + d after the grant is at most that and one
\* more l old when it arrives.
LEMMA AgesAddUp ==
  ASSUME NEW t \in Int, NEW a \in Int, NEW s \in Int,
         NEW u \in Int, NEW l \in Int, NEW d \in Int,
         s <= a + l + u + d, t <= s + l
  PROVE  t - a <= u + 2 * l + d
  OBVIOUS

\* The age of the token in a query that is on its way is bounded by its
\* lifetime, the travel of both messages and the client's delay after its check,
\* for every lifetime and delay.
THEOREM TokensUsedInTime == Spec => []UsedInTime
  <1>1. IInv => UsedInTime
    <2> SUFFICES ASSUME IInv, ~reuses, NEW j \in 1..Len(up), up[j].for = "Query"
                 PROVE  LET g == grants[up[j].session]
                            usable == IF g.session_expires > 0 THEN g.session_expires - 1 ELSE 0
                        IN  now - g.at <= usable + 2 * Latency + Stall
      BY DEF UsedInTime
    <2> DEFINE g == grants[up[j].session]
               usable == IF g.session_expires > 0 THEN g.session_expires - 1 ELSE 0
    <2>1. TypeInv /\ OnTime /\ SentInTime
      BY DEF IInv, Delays
    <2>2. up[j].session \in 1..Len(grants) /\ up[j].at <= g.at + Latency + usable + Stall
      BY <2>1 DEF SentInTime, Usable
    <2>3. now <= up[j].at + Latency
      BY <2>1 DEF OnTime
    <2>4. g.at \in Nat /\ g.session_expires \in Int
      BY <2>1, <2>2, Parts
    <2>5. usable \in Nat
      BY <2>4
    <2>6. up[j].at \in Nat
      BY <2>1, Parts
    <2>7. now \in Nat /\ Latency \in Nat /\ Stall \in Nat
      BY <2>1, Naturals DEF TypeInv, Scalars
    <2> DEFINE granted == g.at
               left == up[j].at
    <2>8. /\ now \in Int /\ granted \in Int /\ left \in Int
          /\ usable \in Int /\ Latency \in Int /\ Stall \in Int
          /\ left <= granted + Latency + usable + Stall /\ now <= left + Latency
      BY <2>2, <2>3, <2>4, <2>5, <2>6, <2>7
    <2> HIDE DEF g, usable, granted, left
    <2>9. now - granted <= usable + 2 * Latency + Stall
      BY <2>8, AgesAddUp
    <2> QED
      BY <2>9 DEF g, usable, granted
  <1> QED
    BY Invariance, <1>1, PTL

\* One call of query() renews each token once at most, whatever lifetimes the
\* server grants and however many calls there are.
THEOREM NoRenewalTwice == Spec => []NoRenewalLoop
  <1>1. IInv => NoRenewalLoop
    BY DEF IInv, SpentSoFar
  <1> QED
    BY Invariance, <1>1, PTL

\* No answer, not even one that is read by a later call than the one it was for,
\* takes the client back to no token or to an earlier one.
THEOREM NeverAnOlderToken == Spec => OnlyNewerTokens
  <1>1. IInv /\ [Next]_vars => [auth' # auth => auth'.session > auth.session]_vars
    <2> SUFFICES ASSUME IInv, AnyStep PROVE auth' # auth => auth'.session > auth.session
      BY StepCases DEF IInv
    <2>1. ASSUME NEW p \in Purpose, TakesToken(p) PROVE auth'.session > auth.session
      <3>1. TypeInv /\ TokensInOrder
        BY DEF IInv
      <3>2. 1 \in 1..Len(down) /\ down[1].session # 0 /\ auth'.session = down[1].session
        BY <2>1, <3>1, DownTail DEF TakesToken, Granted
      <3> QED
        BY <3>1, <3>2 DEF TokensInOrder
    <2> QED
      BY <2>1 DEF AnyStep, Begins, Checks, Responds, Rejects, Breaks, GivesUp,
         Tick, SendFails, Sends, OtherServed, GrantServed, vars
  <1> QED
    BY Invariance, <1>1, PTL DEF Spec, OnlyNewerTokens
=============================================================================
