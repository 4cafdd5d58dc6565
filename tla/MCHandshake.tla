---------------------------- MODULE MCHandshake ----------------------------
(* Small instances of Handshake. *)
EXTENDS Handshake

CONSTANTS a, b, h, g

TCP == {"TCP"}
TLS == {"TLS"}
Any == {"TCP", "TLS"}

\* Client a differs from the others.
Both(x, y) == [c \in Client |-> IF c = a THEN x ELSE y]

\* TCP only, on either side of a server that takes both.
Plain ==
  [version |-> Both(1, 1), serverVersion |-> 1,
   allowed |-> Both(TCP, TCP), serverAllowed |-> Any,
   foreign |-> {}, badAddress |-> {}, distrustful |-> {}, certificate |-> TRUE,
   handlers |-> {h, g}]

\* One client allows both protocols, the other TCP only; the server both.
Mixed == [Plain EXCEPT !.allowed = Both(Any, TCP)]

\* The server only takes TLS, and one of its handlers is not this library; a
\* client that does not trust it, and a client of a newer version.
Rejecting ==
  [Plain EXCEPT !.version = Both(1, 2), !.allowed = Both(Any, TLS),
                !.serverAllowed = TLS, !.foreign = {g}, !.distrustful = {a}]

\* The server prefers TLS but has no certificate; a client that is not this
\* library.
NoCertificate ==
  [Plain EXCEPT !.allowed = Both(Any, TCP), !.foreign = {b}, !.certificate = FALSE]

\* Nothing in common with one client, and no way to the server for the other.
Hopeless == [Plain EXCEPT !.serverAllowed = TLS, !.badAddress = {b}]

\* One handler, for plain clients or for TLS and plain ones.
OnePlain == [Plain EXCEPT !.handlers = {h}]
OneMixed == [Mixed EXCEPT !.handlers = {h}]

AllConfigs == {Mixed, Rejecting, NoCertificate, Hopeless, OnePlain, OneMixed}
=============================================================================
