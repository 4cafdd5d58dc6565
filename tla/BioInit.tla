------------------------------ MODULE BioInit ------------------------------
(***************************************************************************)
(* comm_openssl_bio: the BIO_METHOD every TLSSocket uses is made on first  *)
(* use, by whichever thread comes first, with plain globals and no lock.   *)
(* TLSSocket::create calls it on the thread that negotiates TLS, so a      *)
(* process with a client and a server thread, as the tests are, or with    *)
(* two of either, calls it concurrently.                                   *)
(*                                                                         *)
(* Every access to a global is a step of its own.  The calls into OpenSSL  *)
(* in between are opaque to the compiler, which keeps these accesses and   *)
(* their order in the build; a processor that reorders them would only add *)
(* behaviours.                                                             *)
(***************************************************************************)
EXTENDS Naturals, Sequences, FiniteSets

CONSTANTS Thread,
          MaxCalls      \* bound on the calls one thread makes

ASSUME BioAssumption == IsFiniteSet(Thread) /\ MaxCalls \in Nat

\* The fields comm_openssl_bio_init fills in, in its order.
Field == <<"create", "destroy", "ctrl", "callback_ctrl", "read", "write",
           "gets", "puts">>

Fields == {Field[k] : k \in 1..Len(Field)}

VARIABLES bio_initialized,
          comm_bio_method,  \* which of the methods made, 0 is nullptr
          made,             \* for each BIO_METHOD ever made, its fields set
          pc,               \* where a thread is in comm_openssl_bio
          k,                \* the field it sets next
          arg,              \* the method it loaded for that
          calls,            \* calls it made, the current one included
          result            \* the method its last call returned

vars == <<bio_initialized, comm_bio_method, made, pc, k, arg, calls, result>>

Init ==
  /\ bio_initialized = FALSE
  /\ comm_bio_method = 0
  /\ made = <<>>
  /\ pc = [t \in Thread |-> "idle"]
  /\ k = [t \in Thread |-> 1]
  /\ arg = [t \in Thread |-> 0]
  /\ calls = [t \in Thread |-> 0]
  /\ result = [t \in Thread |-> 0]

Goto(t, label) == pc' = [pc EXCEPT ![t] = label]

\* Mutant: the flag is local to the thread, the method is not.
CallPerThread(t) ==
  /\ pc[t] = "idle"
  /\ calls[t] < MaxCalls
  /\ calls' = [calls EXCEPT ![t] = @ + 1]
  /\ Goto(t, IF calls[t] > 0 THEN "return" ELSE "new")
  /\ UNCHANGED <<bio_initialized, comm_bio_method, made, k, arg, result>>

\* comm_openssl_bio reads the flag.
Call(t) ==
  /\ pc[t] = "idle"
  /\ calls[t] < MaxCalls
  /\ calls' = [calls EXCEPT ![t] = @ + 1]
  /\ Goto(t, IF bio_initialized THEN "return" ELSE "new")
  /\ UNCHANGED <<bio_initialized, comm_bio_method, made, k, arg, result>>

\* BIO_meth_new, and the store of what it returns.
New(t) ==
  /\ pc[t] = "new"
  /\ made' = Append(made, {})
  /\ comm_bio_method' = Len(made) + 1
  /\ k' = [k EXCEPT ![t] = 1]
  /\ Goto(t, "load")
  /\ UNCHANGED <<bio_initialized, arg, calls, result>>

\* The argument of the next BIO_meth_set_...
Load(t) ==
  /\ pc[t] = "load"
  /\ arg' = [arg EXCEPT ![t] = comm_bio_method]
  /\ Goto(t, "store")
  /\ UNCHANGED <<bio_initialized, comm_bio_method, made, k, calls, result>>

\* Mutant: a thread leaves the rest to the one that has finished.
StoreUntilFlag(t) ==
  /\ pc[t] = "store"
  /\ made' = [made EXCEPT ![arg[t]] = @ \cup {Field[k[t]]}]
  /\ k' = [k EXCEPT ![t] = @ + 1]
  /\ Goto(t, IF k[t] < Len(Field) /\ ~bio_initialized THEN "load" ELSE "flag")
  /\ UNCHANGED <<bio_initialized, comm_bio_method, arg, calls, result>>

\* The setter itself.
Store(t) ==
  /\ pc[t] = "store"
  /\ made' = [made EXCEPT ![arg[t]] = @ \cup {Field[k[t]]}]
  /\ k' = [k EXCEPT ![t] = @ + 1]
  /\ Goto(t, IF k[t] < Len(Field) THEN "load" ELSE "flag")
  /\ UNCHANGED <<bio_initialized, comm_bio_method, arg, calls, result>>

\* Mutant: nothing remembers that the method is made.
FlagLost(t) ==
  /\ pc[t] = "flag"
  /\ Goto(t, "return")
  /\ UNCHANGED <<bio_initialized, comm_bio_method, made, k, arg, calls, result>>

SetFlag(t) ==
  /\ pc[t] = "flag"
  /\ bio_initialized' = TRUE
  /\ Goto(t, "return")
  /\ UNCHANGED <<comm_bio_method, made, k, arg, calls, result>>

Return(t) ==
  /\ pc[t] = "return"
  /\ result' = [result EXCEPT ![t] = comm_bio_method]
  /\ Goto(t, "idle")
  /\ UNCHANGED <<bio_initialized, comm_bio_method, made, k, arg, calls>>

Step(t) == Call(t) \/ New(t) \/ Load(t) \/ Store(t) \/ SetFlag(t) \/ Return(t)

Next == \E t \in Thread : Step(t)

Spec == Init /\ [][Next]_vars
-----------------------------------------------------------------------------
(* What becomes of the method. *)

Complete(m) == m # 0 /\ made[m] = Fields

\* A thread that saw the flag unset and has not set it yet.
Initialising(t) == pc[t] \in {"new", "load", "store", "flag"}

Settled == bio_initialized /\ \A t \in Thread : ~Initialising(t)

\* Several threads may run comm_openssl_bio_init at once and fill in each
\* other's methods; when the last of them is out, the method in the global has
\* all of its fields nonetheless.
SettledComplete == Settled => Complete(comm_bio_method)

\* From then on nobody starts over, replaces the method or touches it: sockets
\* made later all use the same one.
SettledForGood ==
  [][Settled => Settled' /\ UNCHANGED <<comm_bio_method, made>>]_vars

\* However many threads race and however often they come back, no thread makes
\* more than one BIO_METHOD; nobody frees them.
OneMethodEach == Len(made) <= Cardinality(Thread)

\* The tests that run a TLS server and a TLS client in one process expect the
\* messages of both to get through: the method comm_openssl_bio returns can read
\* and write by then.  A BIO made with a method that cannot fails at once.
ReturnedReadsAndWrites ==
  \A t \in Thread : result[t] # 0 => {"read", "write"} \subseteq made[result[t]]
=============================================================================
