---------------------------- MODULE MCTestServer ----------------------------
(* A small instance of TestServer for TLC. *)
EXTENDS TestServer

Sane == [side |-> "server", auto_generate_certificate |-> FALSE, given |-> {},
         garbage |-> {}, chain |-> 0, certified |-> "key", goodPort |-> TRUE,
         kind |-> "class", tls |-> FALSE, auth |-> FALSE]
Certified == [Sane EXCEPT !.given = {"certificate", "key"}]
Any == [Sane EXCEPT !.kind = "any"]

Servers ==
  {[Certified EXCEPT !.tls = TRUE, !.auth = a] : a \in BOOLEAN}
    \cup {[Sane EXCEPT !.auth = a] : a \in BOOLEAN}
    \cup {[Sane EXCEPT !.goodPort = FALSE]}

BarrierTests ==
  {[Sane EXCEPT !.kind = "barrier"],
   [Sane EXCEPT !.kind = "barrier", !.auto_generate_certificate = TRUE, !.tls = TRUE]}

Users ==
  {[Any EXCEPT !.given = g, !.garbage = x, !.chain = n, !.certified = c] :
     g \in SUBSET {"ca", "certificate", "key"}, x \in {{}, {"key"}} ,
     n \in 0..2, c \in {"key", "other", "ec"}}
    \cup {[Any EXCEPT !.side = "client", !.given = g] : g \in {{}, {"ca"}}}
    \cup {[Any EXCEPT !.auto_generate_certificate = TRUE]}

ConfigsHere == {x \in Servers \cup BarrierTests \cup Users : x.garbage \subseteq x.given}
=============================================================================
