--------------------------- MODULE MessageChannel ---------------------------
(***************************************************************************)
(* What a comm::Connection promises its two owners: in each direction the  *)
(* messages returned by recv_message are, whole and in order, a prefix of  *)
(* the messages handed to send_message.  Nothing is invented, duplicated,  *)
(* reordered or torn; a tail may never arrive.                             *)
(***************************************************************************)
EXTENDS Naturals, Sequences

CONSTANTS Side,        \* the two ends of the connection
          Peer(_)      \* the other end

VARIABLES sent,        \* sent[s]: messages accepted by send_message at s
          got          \* got[s]: messages returned by recv_message at s

vars == <<sent, got>>

Init ==
  /\ sent = [s \in Side |-> <<>>]
  /\ got = [s \in Side |-> <<>>]

\* send_message at s accepts one more message.
Send(s) ==
  /\ Len(sent'[s]) = Len(sent[s]) + 1
  /\ SubSeq(sent'[s], 1, Len(sent[s])) = sent[s]
  /\ \A t \in Side \ {s} : sent'[t] = sent[t]
  /\ UNCHANGED got

\* recv_message at s returns the oldest message it has not returned yet.
Deliver(s) ==
  /\ Len(got[s]) < Len(sent[Peer(s)])
  /\ got' = [got EXCEPT ![s] = Append(@, sent[Peer(s)][Len(@) + 1])]
  /\ UNCHANGED sent

Next == \E s \in Side : Send(s) \/ Deliver(s)

Spec == Init /\ [][Next]_vars
=============================================================================
