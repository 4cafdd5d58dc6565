---------------------------- MODULE MCConnection ----------------------------
(* Small instances of Connection. *)
EXTENDS Connection

Send(n) == [op |-> "send", n |-> n]
Recv == [op |-> "recv", n |-> 0]
SetLimit(n) == [op |-> "limit", n |-> n]

Both(c, v) == [client |-> c, server |-> v]

AllExceptions == Exception

\* Empty, small and large messages, limits that differ between the sides, a
\* request and its answer, and both sides sending first.
MixedPrograms ==
  { Both(c, v) :
      c \in { <<Send(2), Send(1), Send(0), Recv>>,
              <<SetLimit(3), Send(3), Send(1), Recv>>,
              <<Send(3), Send(1), Recv>>,
              <<Recv, Send(1)>> },
      v \in { <<Recv, Recv, Send(1)>>,
              <<SetLimit(0), Recv, Recv, Send(2), Send(1)>>,
              <<Send(2), Recv, Recv>> } }

\* Calls that match: requests and answers with frames larger than Capacity,
\* and, as in the AsyncMessages test, both sides sending before they receive,
\* with frames that fit in Capacity.
MatchedPrograms ==
  { Both(<<Send(2), Recv, Send(0), Recv>>, <<Recv, Send(0), Recv, Send(2)>>),
    Both(<<Send(2), Send(1), Send(2), Recv>>, <<Recv, Recv, Recv, Send(2)>>),
    Both(<<Send(1), Recv, Recv>>, <<Send(0), Send(2), Recv>>),
    Both(<<SetLimit(4), Send(3), Recv>>, <<SetLimit(3), Recv, Send(0)>>),
    Both(<<Send(3), Recv, Send(1)>>, <<Send(1), Recv>>) }
=============================================================================
