---------------------------- MODULE TokenClient ----------------------------
(***************************************************************************)
(* VDMSClient over VDMSClientImpl and TokenBasedVDMSClient, and the server *)
(* it talks to.  The client authenticates in its constructor and, before   *)
(* each query, authenticates again or refreshes its token when its own     *)
(* clock says that the token has expired.  The server is that of           *)
(* AuthEnabledVDMSServer, which may in addition turn requests down or      *)
(* answer what the client cannot use.                                      *)
(*                                                                         *)
(* Requests and answers travel whole and in order, as Connection shows.    *)
(* The server's grants are numbered; a token is the number of the grant it *)
(* came with, 0 is the empty string.  Expiry times are in ticks of a clock *)
(* both processes read; a time of -1 stands for a field left out.          *)
(***************************************************************************)
EXTENDS Integers, Sequences

CONSTANTS SessionExpiry,   \* session_token_expires_in the server may grant
          RefreshExpiry,   \* refresh_token_expires_in the server may grant
          Sizes,           \* sizes a serialised query can have
          SizeLimit,       \* the connection's _max_buffer_size
          SizeModulus,     \* what a uint32_t counts up to
          Reuses,          \* whether owners go on after an exception
          Latency,         \* most ticks a message travels
          Stall,           \* most ticks the client takes from check to send
          MaxQueries, MaxTime, MaxGrants,   \* bounds
          MaxFaults        \* bound on denials and failed calls

ASSUME TokenAssumption ==
  /\ SessionExpiry \subseteq Nat \cup {-1}
  /\ RefreshExpiry \subseteq Nat \cup {-1}
  /\ Sizes \subseteq Nat /\ SizeLimit \in Nat /\ SizeModulus \in Nat \ {0}
  /\ Reuses \subseteq BOOLEAN
  /\ {Latency, Stall, MaxQueries, MaxTime, MaxGrants, MaxFaults} \subseteq Nat

VARIABLES reuses,    \* the owner goes on with the client after an exception
          now,
          auth,      \* _auth_token; NoToken is the null pointer
          pc,        \* where the client is
          since,     \* when it got there, while it is on its way to a request
          queries,   \* calls of query() so far
          spent,     \* the requests of the current call
          up, down,  \* requests and answers on their way
          sent,      \* requests sent so far
          grants,    \* what the server granted; the last grant is the valid one
          outcome,   \* how the last call ended, and the request it has the answer of
          faults

vars == <<reuses, now, auth, pc, since, queries, spent, up, down, sent,
          grants, outcome, faults>>

NoToken == [session |-> 0, issued_at |-> 0, session_expires |-> -1,
            refresh_expires |-> -1]

\* The object an answer is looked up by.
Purpose == {"Authenticate", "RefreshToken", "Query"}

\* Where the client is about to send a request, and where it waits for the answer.
Sending(p) == CASE p = "Authenticate" -> "sendAuthenticate"
                [] p = "RefreshToken" -> "sendRefreshToken"
                [] p = "Query" -> "sendQuery"

Awaiting(p) == CASE p = "Authenticate" -> "awaitAuthenticate"
                 [] p = "RefreshToken" -> "awaitRefreshToken"
                 [] p = "Query" -> "awaitQuery"

Waits(label) == label \in {Awaiting(p) : p \in Purpose}

\* The client is outside a call, at one of the checks of query(), about to
\* send, or waiting for an answer.
PC == {"idle", "reauthenticate?", "refresh?", "closed"}
        \cup {Sending(p) : p \in Purpose} \cup {Awaiting(p) : p \in Purpose}

Outcome(how, answer) == [how |-> how, answer |-> answer]

\* VDMSClientImpl's constructor calls re_authenticate.
Init ==
  /\ reuses \in Reuses
  /\ now = 0
  /\ auth = NoToken
  /\ pc = "sendAuthenticate"
  /\ since = 0
  /\ queries = 0
  /\ spent = <<>>
  /\ up = <<>> /\ down = <<>>
  /\ sent = 0
  /\ grants = <<>>
  /\ outcome = Outcome("none", 0)
  /\ faults = 0

Fault == faults < MaxFaults /\ faults' = faults + 1

\* The client is computing, neither outside of a call nor waiting.
OnItsWay(label) == label \notin {"idle", "closed"} /\ ~Waits(label)

Goto(label) == pc' = label /\ since' = IF OnItsWay(label) THEN now ELSE 0
-----------------------------------------------------------------------------
(* The client. *)

\* A call throws: in the constructor there is no client then.
Throws(how) ==
  /\ outcome' = Outcome(how, 0)
  /\ Goto(IF reuses /\ auth # NoToken THEN "idle" ELSE "closed")
  /\ UNCHANGED auth

Query ==
  /\ pc = "idle"
  /\ queries < MaxQueries
  /\ queries' = queries + 1
  /\ spent' = <<>>
  /\ outcome' = Outcome("none", 0)
  /\ Goto("reauthenticate?")
  /\ UNCHANGED <<now, auth, up, down, sent, grants, faults>>

\* Mutant: a token is good in the very tick it expires.
ExpiredAfter(lifetime) == auth.issued_at + lifetime < now

\* The comparison of needs_re_authentication and needs_token_refresh.
Expired(lifetime) == auth.issued_at + lifetime <= now

CheckReAuthentication ==
  /\ pc = "reauthenticate?"
  /\ Goto(IF Expired(auth.refresh_expires) THEN "sendAuthenticate" ELSE "refresh?")
  /\ UNCHANGED <<now, auth, queries, spent, up, down, sent, grants, outcome, faults>>

CheckRefresh ==
  /\ pc = "refresh?"
  /\ Goto(IF Expired(auth.session_expires) THEN "sendRefreshToken" ELSE "sendQuery")
  /\ UNCHANGED <<now, auth, queries, spent, up, down, sent, grants, outcome, faults>>

\* send_message takes the size as a uint32_t.
Truncated(n) == n % SizeModulus

\* TokenBasedVDMSClient::query up to send_message.  A failure of the connection
\* becomes a VDMS::Exception.
Send(p) ==
  /\ pc = Sending(p)
  /\ spent' = Append(spent, p)
  /\ \E n \in IF p = "Query" THEN Sizes ELSE {0} :
       \/ /\ Truncated(n) > SizeLimit
          /\ Throws("VDMS::Exception")
          /\ UNCHANGED <<up, sent, faults>>
       \/ /\ Truncated(n) <= SizeLimit
          /\ Fault
          /\ Throws("VDMS::Exception")
          /\ UNCHANGED <<up, sent>>
       \/ /\ Truncated(n) <= SizeLimit
          /\ sent' = sent + 1
          /\ up' = Append(up, [for |-> p, n |-> sent + 1, at |-> now,
                               session |-> IF p = "Query" THEN auth.session ELSE 0,
                               whole |-> Truncated(n) = n])
          /\ Goto(Awaiting(p))
          /\ UNCHANGED <<auth, outcome, faults>>
  /\ UNCHANGED <<now, queries, down, grants>>

\* Mutant: after a refresh, all over again until the token is good.
ResumeFromStart(p) == IF p = "Authenticate" THEN "refresh?" ELSE "reauthenticate?"

\* Where query() goes on with a new token.
Resume(p) == IF p = "Authenticate" THEN "refresh?" ELSE "sendQuery"

\* Mutant: the token is stored before it is looked at.
AcceptsAny(p, m) == TRUE

\* What process_token_response takes for a grant.
Accepts(p, m) == m.for = p /\ m.session # 0

\* Mutants: the point of expiry instead of the time of issue; a session token
\* that a refresh does not replace.
GrantedUntil(m) == [session |-> m.session, issued_at |-> now + m.session_expires,
                    session_expires |-> m.session_expires,
                    refresh_expires |-> m.refresh_expires]

GrantedKeepsSession(m) == [session |-> IF auth = NoToken THEN m.session ELSE auth.session,
                           issued_at |-> now,
                           session_expires |-> m.session_expires,
                           refresh_expires |-> m.refresh_expires]

Granted(m) == [session |-> m.session, issued_at |-> now,
               session_expires |-> m.session_expires,
               refresh_expires |-> m.refresh_expires]

\* recv_message returns an answer, the first one that arrived, which is the
\* user's or goes through process_token_response.  AuthenticationError is a
\* comm::Exception thrown outside of TokenBasedVDMSClient, so that only
\* VDMSClient::query can turn it into a VDMS::Exception.
Receive(p) ==
  /\ pc = Awaiting(p)
  /\ down # <<>>
  /\ down' = Tail(down)
  /\ LET m == Head(down) IN
     \/ /\ p = "Query"
        /\ outcome' = Outcome("response", m.n)
        /\ Goto("idle")
        /\ UNCHANGED auth
     \/ /\ p # "Query"
        /\ Accepts(p, m)
        /\ auth' = Granted(m)
        /\ Goto(IF queries = 0 THEN "idle" ELSE Resume(p))
        /\ UNCHANGED outcome
     \/ /\ p # "Query"
        /\ ~Accepts(p, m)
        /\ m.for # "garbage"
        /\ Throws("comm::Exception")
     \/ /\ p # "Query"
        /\ m.for = "garbage"
        /\ Throws("json exception")
  /\ UNCHANGED <<now, queries, spent, up, sent, grants, faults>>

\* Mutant: the request is sent again on the same connection.
ReceiveFailsAndRetries(p) ==
  /\ pc = Awaiting(p)
  /\ Fault
  /\ Goto(Sending(p))
  /\ UNCHANGED <<now, auth, queries, spent, up, down, sent, grants, outcome>>

\* recv_message throws, because the peer is gone or a signal interrupts it.  An
\* interrupted call leaves its answer on its way.
ReceiveFails(p) ==
  /\ pc = Awaiting(p)
  /\ Fault
  /\ Throws("VDMS::Exception")
  /\ UNCHANGED <<now, queries, spent, up, down, sent, grants>>
-----------------------------------------------------------------------------
(* The server, and time. *)

Answer(m, for, session, s, r) ==
  [for |-> for, n |-> m.n, at |-> now, session |-> session,
   session_expires |-> s, refresh_expires |-> r]

\* Tokens are made anew for each Authenticate and RefreshToken, which puts an
\* end to the earlier ones; a query is answered if it carries the latest.
Serve ==
  /\ up # <<>>
  /\ up' = Tail(up)
  /\ LET m == Head(up) IN
     \/ /\ m.for # "Query"
        /\ Len(grants) < MaxGrants
        /\ \E s \in SessionExpiry, r \in RefreshExpiry :
             /\ grants' = Append(grants, [at |-> now, session_expires |-> s])
             /\ down' = Append(down, Answer(m, m.for, Len(grants) + 1, s, r))
        /\ UNCHANGED faults
     \/ /\ m.for = "Query"
        /\ m.session = Len(grants)
        /\ down' = Append(down, Answer(m, "Query", 0, -1, -1))
        /\ UNCHANGED <<grants, faults>>
     \/ /\ m.for = "Query"
        /\ m.session # Len(grants)
        /\ down' = Append(down, Answer(m, "Something", 0, -1, -1))
        /\ UNCHANGED <<grants, faults>>
     \/ /\ Fault
        /\ \E a \in {"Something", "garbage"} :
             down' = Append(down, Answer(m, a, 0, -1, -1))
        /\ UNCHANGED grants
  /\ UNCHANGED <<now, auth, pc, since, queries, spent, sent, outcome>>

\* A message that would be late holds the clock, and so does a client that is
\* on its way from a check to the request.
Tick ==
  /\ now < MaxTime
  /\ \A j \in 1..Len(up) : now < up[j].at + Latency
  /\ Waits(pc) =>
       \A j \in 1..Len(down) : now < down[j].at + Latency
  /\ OnItsWay(pc) => now < since + Stall
  /\ now' = now + 1
  /\ UNCHANGED <<auth, pc, since, queries, spent, up, down, sent, grants,
                 outcome, faults>>

ClientStep ==
  \/ Query \/ CheckReAuthentication \/ CheckRefresh
  \/ \E p \in Purpose : Send(p) \/ Receive(p) \/ ReceiveFails(p)

Next ==
  /\ UNCHANGED reuses
  /\ ClientStep \/ Serve \/ Tick

Spec == Init /\ [][Next]_vars
-----------------------------------------------------------------------------
(* What the client promises. *)

TypeOK ==
  /\ reuses \in Reuses
  /\ now \in 0..MaxTime /\ since \in 0..now
  /\ auth.session \in 0..Len(grants) /\ auth.issued_at \in 0..now
  /\ pc \in PC
  /\ queries \in 0..MaxQueries /\ sent \in Nat /\ faults \in 0..MaxFaults
  /\ spent \in Seq(Purpose)
  /\ \A j \in 1..Len(up) : up[j].for \in Purpose /\ up[j].n \in 1..sent
  /\ \A j \in 1..Len(down) : down[j].n \in 1..sent
  /\ Len(grants) <= MaxGrants

\* What query() returns to the user is the server's answer to that very query,
\* however many requests of its own the client put before it, unless the owner
\* went on after an exception.
AnswersTheQuery ==
  ~reuses /\ outcome.how = "response" => outcome.answer = sent

\* The tests expect a query to be answered in kind also after its tokens
\* expired: the session token a query carries is the one the server granted
\* last, on whichever side of a refresh the clock ticks.
CarriesLatestToken ==
  ~reuses => \A j \in 1..Len(up) : up[j].for = "Query" => up[j].session = Len(grants)

\* The age of a session token, when a query that carries it is on its way, is
\* less than its lifetime, but for the travel of the grant and of the query
\* and the client's own delay: tokens age from their arrival, and the check is
\* not repeated.  A lifetime that is over on arrival counts as none.
UsedInTime ==
  ~reuses => \A j \in 1..Len(up) : up[j].for = "Query" =>
    LET g == grants[up[j].session]
        usable == IF g.session_expires > 0 THEN g.session_expires - 1 ELSE 0
    IN  now - g.at <= usable + 2 * Latency + Stall

\* One call asks for each thing once at most, in this order, whatever lifetimes
\* the server grants: tokens that are expired on arrival do not make the client
\* ask again and again.
NoRenewalLoop ==
  \E order \in {<<"Authenticate">>, <<"RefreshToken">>, <<>>,
                <<"Authenticate", "RefreshToken">>} :
    spent = order \/ spent = Append(order, "Query")

\* Whatever goes wrong, the client keeps the token it has until it gets a newer
\* one: no answer, wherever in the conversation it is read, takes it back to
\* none or to an earlier token.
OnlyNewerTokens == [][auth' # auth => auth'.session > auth.session]_vars

\* VDMSClient::query says that its catch should never be hit, as
\* TokenBasedVDMSClient::query rethrows each comm::Exception already.
CatchNeverHit == queries > 0 => outcome.how # "comm::Exception"

\* send_message refuses what is larger than the limit: no request leaves with
\* another size than it has.
NothingTruncated == \A j \in 1..Len(up) : up[j].whole
=============================================================================
