---------------------------- MODULE ServerContext ----------------------------
(***************************************************************************)
(* The constructors of ConnServer (ConnServer.cc) and ConnClient           *)
(* (ConnClient.cc): the SSL_CTX and what TLS.cc loads into it, then the    *)
(* listening socket; and the TLS sessions that share the context, up to    *)
(* the last of them.  Every function may throw wherever the code looks at  *)
(* a result, and what was made up to there has to go.                      *)
(*                                                                         *)
(* OpenSSL counts references.  In a memory m, m.refs[o] is the count of    *)
(* object o and m.held[h] what h will release when it goes.  The two part  *)
(* where the code and OpenSSL do not agree on who owns an object.  A count *)
(* below zero is an object freed twice.                                    *)
(***************************************************************************)
EXTENDS Integers, Sequences, FiniteSets

CONSTANTS Sessions,    \* the SSL objects made from the context
          Configs      \* configurations, with the fields assumed below

\* A configuration says which side it is, whether the certificate is generated,
\* which PEM texts are given and which of those are garbage, how many
\* certificates follow the first one in tls_certificate, the key that one is
\* for: the private key given, another RSA key, or a key of another type; and
\* whether the port is in range.
ASSUME ContextAssumption ==
  \A x \in Configs :
    /\ x.side \in {"server", "client"}
    /\ x.auto_generate_certificate \in BOOLEAN
    /\ x.given \subseteq {"ca", "certificate", "key"} /\ x.garbage \subseteq x.given
    /\ x.chain \in 0..2
    /\ x.certified \in {"key", "other", "ec"} /\ x.goodPort \in BOOLEAN

\* A session is none of the other holders of references.
ASSUME SessionAssumption == Sessions \cap {"local", "owner", "ctx", "pkey"} = {}

ChainCerts == {"chain1", "chain2"}
Objects == {"ctx", "bio", "leaf", "ca", "key", "rsa", "bn", "x509", "pkey",
            "private_key_bio", "cert_bio", "listening_socket"} \cup ChainCerts

\* "local" is the automatic variables of the functions that run, "owner" the
\* members of the object that is constructed.
Holders == {"local", "owner", "ctx", "pkey"} \cup Sessions

VARIABLES config,
          pc,       \* where the constructor is
          todo,     \* the PEM texts it has still to load
          mem,      \* the references
          loaded    \* the PEM texts that were loaded
contextVars == <<config, pc, todo, mem, loaded>>

-----------------------------------------------------------------------------
(* References *)

Nothing == [refs |-> [o \in Objects |-> 0], held |-> [h \in Holders |-> {}]]

Count(r, S, n) == [o \in Objects |-> IF o \in S THEN r[o] + n ELSE r[o]]

\* h gets a reference of its own: allocation, or an up_ref.
Take(m, h, S) == [refs |-> Count(m.refs, S, 1), held |-> [m.held EXCEPT ![h] = @ \cup S]]

\* h will release S without having counted itself.
Adopt(m, h, S) == [m EXCEPT !.held[h] = @ \cup S]

\* h will not release S.
Forget(m, h, S) == [m EXCEPT !.held[h] = @ \ S]

\* h releases S.  A context or EVP_PKEY that dies of it releases what it holds.
Drop(m, h, S) ==
  LET r    == Count(m.refs, S, -1)
      dead == {c \in {"ctx", "pkey"} \cap S : r[c] = 0}
  IN  [refs |-> Count(r, UNION {m.held[c] : c \in dead}, -1),
       held |-> [x \in Holders |-> IF x \in dead THEN {}
                                   ELSE IF x = h THEN m.held[x] \ S ELSE m.held[x]]]

DropAll(m, h) == Drop(m, h, m.held[h])

\* The stack is unwound out of the constructor: locals, then members.
Throws(m) ==
  /\ pc' = "failed"
  /\ mem' = DropAll(DropAll(m, "local"), "owner")
  /\ UNCHANGED <<config, todo, loaded>>

Goes(next, m) ==
  /\ pc' = next
  /\ mem' = m
  /\ UNCHANGED <<config, todo, loaded>>

-----------------------------------------------------------------------------
(* The constructors *)

\* What is not given is not loaded.
Given(x, text) == IF text \in x.given THEN <<text>> ELSE <<>>

\* Mutant: the certificate is loaded after its key in either case.
KeyFirst(x) ==
  IF x.auto_generate_certificate THEN <<"key", "certificate">>
  ELSE Given(x, "ca") \o Given(x, "key") \o Given(x, "certificate")

\* The order in which the constructor loads what it has.  A client only takes a
\* CA certificate.
Loads(x) ==
  IF x.side = "client" THEN Given(x, "ca")
  ELSE IF x.auto_generate_certificate THEN <<"key", "certificate">>
  ELSE Given(x, "ca") \o Given(x, "certificate") \o Given(x, "key")

\* After everything is loaded a client is done, a server goes on.
Loaded == IF config.side = "client" THEN "ready" ELSE "listen"

ContextInit ==
  /\ config \in Configs
  /\ pc = "create"
  /\ todo = Loads(config)
  /\ mem = Nothing
  /\ loaded = {}

\* create_client_context and create_server_context, which exit the process when
\* there is no memory.  A result of set_default_verify_paths is not looked at.
CreateContext ==
  /\ pc = "create"
  /\ \/ Goes("exited", mem)
     \/ Goes(IF config.side = "server" /\ config.auto_generate_certificate THEN "generate"
             ELSE IF todo = <<>> THEN Loaded ELSE "read",
             Take(mem, "owner", {"ctx"}))

\* generate_certificate: the RSA key, which may fail
GenerateKey ==
  /\ pc = "generate"
  /\ LET m == Take(mem, "local", {"rsa", "bn"})
     IN  Throws(m) \/ Goes("assign", m)

\* Mutant: the unique_ptr goes on owning the RSA key it gave to the EVP_PKEY.
AssignGet ==
  /\ pc = "assign"
  /\ Goes("write", Adopt(Take(mem, "local", {"x509", "pkey"}), "pkey", {"rsa"}))

\* generate_certificate: EVP_PKEY_assign with what rsa.release() returns
AssignKey ==
  /\ pc = "assign"
  /\ Goes("write", Adopt(Forget(Take(mem, "local", {"x509", "pkey"}), "local", {"rsa"}),
                         "pkey", {"rsa"}))

\* generate_certificate: both are written as PEM, either may fail.
WritePem ==
  /\ pc = "write"
  /\ LET m == Take(mem, "local", {"private_key_bio", "cert_bio"})
     IN  Throws(m) \/ Goes("read", DropAll(m, "local"))

Object(text) == IF text = "certificate" THEN "leaf" ELSE text

\* Every set_ function: string_to_bio may return null, and the PEM text may not
\* be one.
ReadText ==
  /\ pc = "read"
  /\ LET text == Head(todo)
         bio  == Take(mem, "local", {"bio"})
     IN  \/ Throws(mem)
         \/ Throws(bio)
         \/ text \notin config.garbage /\ Goes(text, Take(bio, "local", {Object(text)}))

Returns(m) ==
  /\ mem' = DropAll(m, "local")
  /\ loaded' = loaded \cup {Head(todo)}
  /\ todo' = Tail(todo)
  /\ pc' = IF Tail(todo) = <<>> THEN Loaded ELSE "read"
  /\ UNCHANGED config

\* set_ca_certificate: X509_STORE_add_cert takes a reference of its own.
UseCa ==
  /\ pc = "ca"
  /\ Throws(mem) \/ Returns(Take(mem, "ctx", {"ca"}))

\* The context compares a certificate and a key of the same type only: with a
\* certificate for another type of key, the RSA key goes into a place of its own.
Mismatch(o) ==
  /\ o \in mem.held["ctx"]
  /\ ~config.auto_generate_certificate
  /\ config.certified = "other"

\* set_tls_certificate: SSL_CTX_use_certificate takes a reference, and drops a
\* private key that belongs to another certificate without complaint.  Clearing
\* the chain may fail after that.
UseCertificate ==
  /\ pc = "certificate"
  /\ LET t == Take(mem, "ctx", {"leaf"})
         m == IF Mismatch("key") THEN Drop(t, "ctx", {"key"}) ELSE t
     IN  Throws(mem) \/ Throws(m) \/ Goes("next", m)

\* set_tls_certificate: PEM_read_bio_X509 for the next certificate of the chain
\* and, but for the first, x509_ca.reset() that frees the one before.
NextInChain ==
  /\ pc = "next"
  /\ LET n == Cardinality(mem.held["ctx"] \cap ChainCerts)
         m == Drop(mem, "local", mem.held["local"] \cap ChainCerts)
     IN  IF n = config.chain THEN Returns(m)
         ELSE Goes("add", Take(m, "local", {IF n = 0 THEN "chain1" ELSE "chain2"}))

\* set_tls_certificate: SSL_CTX_add0_chain_cert does not count a reference of
\* its own, and x509_ca.get() leaves the unique_ptr what it had.
AddChain ==
  /\ pc = "add"
  /\ \/ Throws(mem)
     \/ Goes("next", Adopt(mem, "ctx", mem.held["local"] \cap ChainCerts))

\* set_tls_private_key: SSL_CTX_use_RSAPrivateKey refuses a key that belongs to
\* another certificate, and drops that.  The RSA the caller holds is freed when
\* the call fails, and never when it succeeds.
UseKey ==
  /\ pc = "key"
  /\ IF Mismatch("leaf") THEN Throws(Drop(mem, "ctx", {"leaf"}))
     ELSE \/ Throws(mem)
          \/ Returns(Forget(Take(mem, "ctx", {"key"}), "local", {"key"}))

\* The port check, the socket, its options, bind and listen
Listen ==
  /\ pc = "listen"
  /\ LET m == Take(mem, "owner", {"listening_socket"})
     IN  IF ~config.goodPort THEN Throws(mem)
         ELSE Throws(mem) \/ Throws(m) \/ Goes("ready", m)

Construct ==
  \/ CreateContext \/ GenerateKey \/ AssignKey \/ WritePem \/ ReadText
  \/ UseCa \/ UseCertificate \/ NextInChain \/ AddChain \/ UseKey \/ Listen

-----------------------------------------------------------------------------
(* Sessions *)

\* TLSSocket::create: SSL_new counts itself in the context and in each part of
\* the context's certificate.
NewSession(s) ==
  /\ pc = "ready"
  /\ mem.held[s] = {}
  /\ Goes(pc, Take(mem, s, {"ctx"} \cup (mem.held["ctx"] \ {"ca"})))

\* ~TLSSocket
EndSession(s) ==
  /\ mem.held[s] # {}
  /\ Goes(pc, DropAll(mem, s))

\* The ConnServer or ConnClient goes, its sessions may stay.
Destroy ==
  /\ pc = "ready"
  /\ Goes("gone", DropAll(mem, "owner"))

ContextNext == Construct \/ Destroy \/ \E s \in Sessions : NewSession(s) \/ EndSession(s)

ContextSpec == ContextInit /\ [][ContextNext]_contextVars

-----------------------------------------------------------------------------
(* Properties *)

HoldersOf(o) == {h \in Holders : o \in mem.held[h]}

ContextTypeOK ==
  /\ config \in Configs
  /\ todo \in Seq({"ca", "certificate", "key"})
  /\ mem.refs \in [Objects -> Int]
  /\ mem.held \in [Holders -> SUBSET Objects]
  /\ loaded \subseteq {"ca", "certificate", "key"}

\* Whatever throws and whoever goes first, the server or the sessions it made,
\* an object has one reference for each that will release it, and in the end
\* nobody holds any: nothing is used after it was freed, freed twice or left
\* over.  There are two exceptions.  set_tls_private_key leaves a reference of
\* the RSA key behind when it succeeds.  The certificates of a chain are left
\* out: the context has them without a reference, and NextInChain frees them.
Ended == pc \in {"failed", "gone"} /\ \A s \in Sessions : mem.held[s] = {}

CountedOnce ==
  /\ \A o \in Objects \ ChainCerts :
       mem.refs[o] = Cardinality(HoldersOf(o)) + (IF o = "key" /\ "key" \in loaded THEN 1 ELSE 0)
  /\ Ended => \A h \in Holders : mem.held[h] = {}

\* A server that was given a certificate and a private key, or made them, is
\* only constructed with both of them in its context, and not with a key the
\* RSA certificate does not belong to: the certificate has to be loaded first,
\* since OpenSSL drops a key that does not fit a later one without a word.  With
\* a certificate for another type of key nothing is compared, and a server is
\* constructed whose TLS handshakes fail.
ReadyHasItsPair ==
  pc = "ready" /\ config.side = "server"
    /\ (config.auto_generate_certificate \/ {"certificate", "key"} \subseteq config.given)
  => /\ {"leaf", "key"} \subseteq mem.held["ctx"]
     /\ config.auto_generate_certificate \/ config.certified # "other"

=============================================================================
