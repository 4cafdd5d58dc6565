------------------------ MODULE ServerContextProofs ------------------------
(***************************************************************************)
(* Proofs about ServerContext: every object has one reference for each of  *)
(* its holders, whichever function throws, and what is constructed can be  *)
(* used.                                                                   *)
(*                                                                         *)
(* The first part is about memories alone: what Take, Drop and the rest    *)
(* make of a memory whose counts agree with its holders.  The second part  *)
(* adds what each holder has at each point of the constructors, the third  *)
(* which texts are loaded.                                                 *)
(***************************************************************************)
EXTENDS ServerContext, FiniteSetTheorems, TLAPS

-----------------------------------------------------------------------------
(* Memories *)

\* The holders of o in the memory m
In(m, o) == {h \in Holders : o \in m.held[h]}

Memories == [refs : [Objects -> Int], held : [Holders -> SUBSET Objects]]

\* The key that was loaded is counted once more than it is held.
Leak(o, l) == IF o = "key" /\ "key" \in l THEN 1 ELSE 0

Counted(m, l) ==
  \A o \in Objects \ ChainCerts :
    IsFiniteSet(In(m, o)) /\ m.refs[o] = Cardinality(In(m, o)) + Leak(o, l)

\* Who may hold what: a context and an EVP_PKEY are never in a circle of
\* references, and they hold nothing unless somebody holds them.
Parts == {"ca", "leaf", "key"} \cup ChainCerts

Kinds(m) ==
  /\ {"ctx", "listening_socket"} \cap m.held["local"] = {}
  /\ m.held["owner"] \subseteq {"ctx", "listening_socket"}
  /\ m.held["ctx"] \subseteq Parts
  /\ m.held["pkey"] \subseteq {"rsa"}
  /\ \A s \in Sessions : m.held[s] \subseteq {"ctx"} \cup Parts

Alive(m) ==
  /\ m.held["ctx"] # {} => \E h \in Holders : "ctx" \in m.held[h]
  /\ m.held["pkey"] # {} => "pkey" \in m.held["local"]

Sound(m, l) == m \in Memories /\ Counted(m, l) /\ Kinds(m) /\ Alive(m)

\* h releases S, and nothing dies of it.
Release(m, h, S) == [refs |-> Count(m.refs, S, -1), held |-> [m.held EXCEPT ![h] = @ \ S]]

\* The holders of an object are those of the memory before, and one more or less.
LEMMA CountType ==
  ASSUME NEW r \in [Objects -> Int], NEW S, NEW n \in Int
  PROVE  /\ Count(r, S, n) \in [Objects -> Int]
         /\ \A o \in Objects : Count(r, S, n)[o] = IF o \in S THEN r[o] + n ELSE r[o]
  BY DEF Count

LEMMA TakeCounted ==
  ASSUME NEW m \in Memories, NEW l, Counted(m, l), NEW h \in Holders,
         NEW S \in SUBSET Objects, S \cap m.held[h] \subseteq ChainCerts
  PROVE  Take(m, h, S) \in Memories /\ Counted(Take(m, h, S), l)
  <1> DEFINE t == Take(m, h, S)
  <1>1. /\ t.refs = Count(m.refs, S, 1) /\ t.held = [m.held EXCEPT ![h] = m.held[h] \cup S]
        /\ t.refs \in [Objects -> Int] /\ t.held \in [Holders -> SUBSET Objects]
    BY CountType DEF Take, Memories
  <1>2. t \in Memories
    BY <1>1 DEF Memories, Take
  <1>3. ASSUME NEW o \in Objects \ ChainCerts
        PROVE  IsFiniteSet(In(t, o)) /\ t.refs[o] = Cardinality(In(t, o)) + Leak(o, l)
    <2>1. IsFiniteSet(In(m, o)) /\ m.refs[o] = Cardinality(In(m, o)) + Leak(o, l)
      BY DEF Counted
    <2>2. CASE o \in S
      <3>1. In(t, o) = In(m, o) \cup {h} /\ h \notin In(m, o)
        BY <1>1, <2>2 DEF In, Memories
      <3>2. t.refs[o] = m.refs[o] + 1
        BY <1>1, <2>2, CountType DEF Memories
      <3>3. Leak(o, l) \in Int /\ Cardinality(In(m, o)) \in Nat
        BY <2>1, FS_CardinalityType DEF Leak
      <3>4. IsFiniteSet(In(t, o)) /\ Cardinality(In(t, o)) = Cardinality(In(m, o)) + 1
        BY <2>1, <3>1, FS_AddElement
      <3> QED
        BY <2>1, <3>2, <3>3, <3>4
    <2>3. CASE o \notin S
      <3>1. In(t, o) = In(m, o)
        BY <1>1, <2>3 DEF In, Memories
      <3>2. t.refs[o] = m.refs[o]
        BY <1>1, <2>3, CountType DEF Memories
      <3> QED
        BY <2>1, <3>1, <3>2
    <2> QED
      BY <2>2, <2>3
  <1> QED
    BY <1>2, <1>3 DEF Counted

LEMMA ReleaseCounted ==
  ASSUME NEW m \in Memories, NEW l, Counted(m, l), NEW h \in Holders,
         NEW S \in SUBSET m.held[h]
  PROVE  Release(m, h, S) \in Memories /\ Counted(Release(m, h, S), l)
  <1> DEFINE t == Release(m, h, S)
  <1>1. /\ t.refs = Count(m.refs, S, -1) /\ t.held = [m.held EXCEPT ![h] = m.held[h] \ S]
        /\ t.refs \in [Objects -> Int] /\ t.held \in [Holders -> SUBSET Objects]
    BY CountType DEF Release, Memories
  <1>2. t \in Memories
    BY <1>1 DEF Memories, Release
  <1>3. ASSUME NEW o \in Objects \ ChainCerts
        PROVE  IsFiniteSet(In(t, o)) /\ t.refs[o] = Cardinality(In(t, o)) + Leak(o, l)
    <2>1. IsFiniteSet(In(m, o)) /\ m.refs[o] = Cardinality(In(m, o)) + Leak(o, l)
      BY DEF Counted
    <2>2. CASE o \in S
      <3>1. In(t, o) = In(m, o) \ {h} /\ h \in In(m, o)
        BY <1>1, <2>2 DEF In, Memories
      <3>2. t.refs[o] = m.refs[o] - 1
        BY <1>1, <2>2, CountType DEF Memories
      <3>3. Leak(o, l) \in Int /\ Cardinality(In(m, o)) \in Nat
        BY <2>1, FS_CardinalityType DEF Leak
      <3>4. IsFiniteSet(In(t, o)) /\ Cardinality(In(t, o)) = Cardinality(In(m, o)) - 1
        BY <2>1, <3>1, FS_RemoveElement
      <3> QED
        BY <2>1, <3>2, <3>3, <3>4
    <2>3. CASE o \notin S
      <3>1. In(t, o) = In(m, o)
        BY <1>1, <2>3 DEF In, Memories
      <3>2. t.refs[o] = m.refs[o]
        BY <1>1, <2>3, CountType DEF Memories
      <3> QED
        BY <2>1, <3>1, <3>2
    <2> QED
      BY <2>2, <2>3
  <1> QED
    BY <1>2, <1>3 DEF Counted

\* Of parts that hold nothing themselves nothing more dies.
LEMMA DropParts ==
  ASSUME NEW m \in Memories, NEW h \in Holders, NEW S \in SUBSET m.held[h],
         {"ctx", "pkey"} \cap S = {}
  PROVE  Drop(m, h, S) = Release(m, h, S)
  <1> DEFINE r    == Count(m.refs, S, -1)
             dead == {c \in {"ctx", "pkey"} \cap S : r[c] = 0}
  <1>1. dead = {} /\ UNION {m.held[c] : c \in dead} = {}
    OBVIOUS
  <1>2. Count(r, UNION {m.held[c] : c \in dead}, -1) = r
    BY <1>1 DEF Count
  <1>3. [x \in Holders |-> IF x \in dead THEN {}
                           ELSE IF x = h THEN m.held[x] \ S ELSE m.held[x]]
          = [m.held EXCEPT ![h] = m.held[h] \ S]
    BY <1>1 DEF Memories
  <1> QED
    BY <1>2, <1>3 DEF Drop, Release

\* What a context or an EVP_PKEY releases when h lets go of all it holds
Estate(m, h, c) ==
  IF c \in m.held[h] /\ Count(m.refs, m.held[h], -1)[c] = 0 THEN m.held[c] ELSE {}

\* To let go of everything is to release it and then what dies of it.
LEMMA DropAllSteps ==
  ASSUME NEW m \in Memories, Kinds(m), NEW h \in Holders \ {"ctx", "pkey"}
  PROVE  DropAll(m, h) =
           Release(Release(Release(m, h, m.held[h]), "ctx", Estate(m, h, "ctx")),
                   "pkey", Estate(m, h, "pkey"))
  <1> DEFINE S    == m.held[h]
             r    == Count(m.refs, S, -1)
             dead == {c \in {"ctx", "pkey"} \cap S : r[c] = 0}
             C    == Estate(m, h, "ctx")
             P    == Estate(m, h, "pkey")
             H1   == [m.held EXCEPT ![h] = m.held[h] \ m.held[h]]
             H2   == [H1 EXCEPT !["ctx"] = H1["ctx"] \ C]
             H3   == [H2 EXCEPT !["pkey"] = H2["pkey"] \ P]
  <1>0. /\ {"ctx", "pkey"} \subseteq Holders /\ h # "ctx" /\ h # "pkey"
        /\ m.held \in [Holders -> SUBSET Objects]
    BY DEF Holders, Memories
  <1>1. UNION {m.held[c] : c \in dead} = C \cup P
    BY DEF Estate
  <1>2. C \cap P = {}
    BY DEF Estate, Kinds, Parts, ChainCerts
  <1>3. Count(r, C \cup P, -1) = Count(Count(r, C, -1), P, -1)
    BY <1>2 DEF Count
  <1>4. [x \in Holders |-> IF x \in dead THEN {}
                           ELSE IF x = h THEN m.held[x] \ S ELSE m.held[x]] = H3
    <2>1. H3 \in [Holders -> SUBSET Objects]
      BY <1>0
    <2>2. ASSUME NEW x \in Holders
          PROVE  H3[x] = IF x \in dead THEN {}
                         ELSE IF x = h THEN m.held[x] \ S ELSE m.held[x]
      <3>1. CASE x = "ctx"
        BY <1>0, <3>1 DEF Estate
      <3>2. CASE x = "pkey"
        BY <1>0, <3>2 DEF Estate
      <3>3. CASE x \notin {"ctx", "pkey"}
        BY <1>0, <3>3
      <3> QED
        BY <3>1, <3>2, <3>3
    <2> QED
      BY <2>1, <2>2
  <1>5. DropAll(m, h) = [refs |-> Count(Count(r, C, -1), P, -1), held |-> H3]
    BY <1>1, <1>3, <1>4 DEF DropAll, Drop
  <1> QED
    BY <1>5 DEF Release

LEMMA DropAllOthers ==
  ASSUME NEW m, NEW h, NEW x \in Holders \ {"ctx", "pkey"}, x # h
  PROVE  DropAll(m, h).held[x] = m.held[x]
  BY DEF DropAll, Drop

\* After h let go of everything, the other holders have what they had, but a
\* context or EVP_PKEY that nobody holds any longer has nothing either.
LEMMA DropAllSound ==
  ASSUME NEW m, NEW l, Sound(m, l), NEW h \in {"local", "owner"} \cup Sessions
  PROVE  LET d == DropAll(m, h)
         IN  /\ Sound(d, l)
             /\ d.held[h] = {}
             /\ \A x \in Holders \ {h, "ctx", "pkey"} : d.held[x] = m.held[x]
             /\ d.held["pkey"] = IF h = "local" THEN {} ELSE m.held["pkey"]
             /\ d.held["ctx"] = IF \E x \in Holders : "ctx" \in d.held[x]
                                THEN m.held["ctx"] ELSE {}
  <1> DEFINE C  == Estate(m, h, "ctx")
             P  == Estate(m, h, "pkey")
             r1 == Release(m, h, m.held[h])
             r2 == Release(r1, "ctx", C)
             d  == Release(r2, "pkey", P)
  <1>0. /\ h \in Holders /\ h \notin {"ctx", "pkey"}
        /\ {"local", "owner", "ctx", "pkey"} \cup Sessions = Holders
        /\ Sessions \cap {"local", "owner", "ctx", "pkey"} = {}
    BY SessionAssumption DEF Holders
  <1>1. m \in Memories /\ Counted(m, l) /\ Kinds(m) /\ Alive(m)
    BY DEF Sound
  <1>2. DropAll(m, h) = d
    BY <1>0, <1>1, DropAllSteps
  <1>3. /\ r1 \in Memories /\ Counted(r1, l)
        /\ r1.held = [m.held EXCEPT ![h] = {}]
        /\ r1.refs = Count(m.refs, m.held[h], -1)
    <2>1. m.held[h] \ m.held[h] = {}
      OBVIOUS
    <2> QED
      BY <1>0, <1>1, <2>1, ReleaseCounted DEF Release, Memories
  <1>4. /\ r2 \in Memories /\ Counted(r2, l)
        /\ r2.held = [r1.held EXCEPT !["ctx"] = m.held["ctx"] \ C]
    <2>1. C \subseteq r1.held["ctx"] /\ r1.held["ctx"] = m.held["ctx"]
      BY <1>0, <1>1, <1>3 DEF Estate, Memories
    <2> QED
      BY <1>0, <1>3, <2>1, ReleaseCounted DEF Release
  <1>5. /\ d \in Memories /\ Counted(d, l)
        /\ d.held = [r2.held EXCEPT !["pkey"] = m.held["pkey"] \ P]
    <2>1. P \subseteq r2.held["pkey"] /\ r2.held["pkey"] = m.held["pkey"]
      BY <1>0, <1>1, <1>3, <1>4 DEF Estate, Memories
    <2> QED
      BY <1>0, <1>4, <2>1, ReleaseCounted DEF Release
  <1> HIDE DEF d
  <1>6. /\ d.held[h] = {}
        /\ \A x \in Holders \ {h, "ctx", "pkey"} : d.held[x] = m.held[x]
        /\ d.held["ctx"] = m.held["ctx"] \ C
        /\ d.held["pkey"] = m.held["pkey"] \ P
    BY <1>0, <1>1, <1>3, <1>4, <1>5 DEF Memories
  <1>7. Kinds(d)
    BY <1>0, <1>1, <1>6 DEF Kinds
  \* r1 has the holders of a context and an EVP_PKEY that d has.
  <1>8. ASSUME NEW c \in {"ctx", "pkey"}
        PROVE  /\ IsFiniteSet(In(r1, c))
               /\ r1.refs[c] = Cardinality(In(r1, c))
               /\ In(r1, c) = In(d, c)
               /\ c \in m.held[h] => (r1.refs[c] = 0 <=> In(d, c) = {})
    <2>1. IsFiniteSet(In(r1, c)) /\ r1.refs[c] = Cardinality(In(r1, c)) + Leak(c, l)
      BY <1>3 DEF Counted, Objects, ChainCerts
    <2>2. Leak(c, l) = 0 /\ Cardinality(In(r1, c)) \in Nat
      BY <2>1, FS_CardinalityType DEF Leak
    <2>3. r1.refs[c] = Cardinality(In(r1, c))
      BY <2>1, <2>2
    <2>4. In(r1, c) = In(d, c)
      <3>1. \A x \in Holders : c \in r1.held[x] <=> c \in d.held[x]
        BY <1>0, <1>1, <1>3, <1>6 DEF Kinds, Parts, ChainCerts, Memories
      <3> QED
        BY <3>1 DEF In
    <2> QED
      BY <2>1, <2>3, <2>4, FS_EmptySet
  <1>9. d.held["pkey"] = IF h = "local" THEN {} ELSE m.held["pkey"]
    <2>1. CASE h = "local" /\ "pkey" \in m.held["local"]
      <3>1. \A x \in Holders : "pkey" \notin d.held[x]
        BY <1>0, <1>6, <1>7, <2>1 DEF Kinds, Parts, ChainCerts
      <3>2. In(d, "pkey") = {}
        BY <3>1 DEF In
      <3>3. P = m.held["pkey"]
        BY <1>3, <1>8, <2>1, <3>2 DEF Estate
      <3> QED
        BY <1>6, <2>1, <3>3
    <2>2. CASE h = "local" /\ "pkey" \notin m.held["local"]
      BY <1>1, <1>6, <2>2 DEF Alive
    <2>3. CASE h # "local"
      <3>1. "pkey" \notin m.held[h]
        BY <1>1, <2>3 DEF Kinds, Parts, ChainCerts
      <3> QED
        BY <1>6, <2>3, <3>1 DEF Estate
    <2> QED
      BY <2>1, <2>2, <2>3
  <1>10. d.held["ctx"] = IF \E x \in Holders : "ctx" \in d.held[x]
                         THEN m.held["ctx"] ELSE {}
    <2>1. (\E x \in Holders : "ctx" \in d.held[x]) <=> In(d, "ctx") # {}
      BY DEF In
    <2>2. CASE "ctx" \in m.held[h]
      BY <1>3, <1>6, <1>8, <2>1, <2>2 DEF Estate
    <2>3. CASE "ctx" \notin m.held[h]
      <3>1. d.held["ctx"] = m.held["ctx"]
        BY <1>6, <2>3 DEF Estate
      <3>2. m.held["ctx"] # {} => \E x \in Holders \ {h, "ctx", "pkey"} : "ctx" \in m.held[x]
        BY <1>1, <2>3 DEF Alive, Kinds, Parts, ChainCerts
      <3> QED
        BY <1>6, <3>1, <3>2
    <2> QED
      BY <2>2, <2>3
  <1>11. Alive(d)
    <2>1. d.held["pkey"] # {} => "pkey" \in d.held["local"]
      BY <1>0, <1>1, <1>6, <1>9 DEF Alive
    <2> QED
      BY <1>10, <2>1 DEF Alive
  <1> QED
    BY <1>2, <1>5, <1>6, <1>7, <1>9, <1>10, <1>11 DEF Sound

\* An exception out of a constructor, before there is a session, leaves nothing.
LEMMA UnwindsAll ==
  ASSUME NEW m, NEW l, Sound(m, l), \A s \in Sessions : m.held[s] = {}
  PROVE  LET d == DropAll(DropAll(m, "local"), "owner")
         IN  Sound(d, l) /\ \A h \in Holders : d.held[h] = {}
  <1> DEFINE c == DropAll(m, "local")
             d == DropAll(c, "owner")
  <1>0. /\ {"local", "owner", "ctx", "pkey"} \cup Sessions = Holders
        /\ Sessions \cap {"local", "owner", "ctx", "pkey"} = {}
    BY SessionAssumption DEF Holders
  <1>1. /\ Sound(c, l) /\ c.held["local"] = {} /\ c.held["pkey"] = {}
        /\ \A s \in Sessions : c.held[s] = {}
    BY <1>0, DropAllSound
  <1> HIDE DEF c
  <1>2. /\ Sound(d, l) /\ d.held["owner"] = {} /\ d.held["local"] = {}
        /\ d.held["pkey"] = {} /\ \A s \in Sessions : d.held[s] = {}
        /\ d.held["ctx"] = IF \E x \in Holders : "ctx" \in d.held[x]
                           THEN c.held["ctx"] ELSE {}
    <2>1. /\ Sound(d, l) /\ d.held["owner"] = {}
          /\ \A x \in Holders \ {"owner", "ctx", "pkey"} : d.held[x] = c.held[x]
          /\ d.held["pkey"] = IF "owner" = "local" THEN {} ELSE c.held["pkey"]
          /\ d.held["ctx"] = IF \E x \in Holders : "ctx" \in d.held[x]
                             THEN c.held["ctx"] ELSE {}
      BY <1>1, DropAllSound
    <2>2. d.held["local"] = {} /\ \A s \in Sessions : d.held[s] = {}
      BY <1>0, <1>1, <2>1
    <2> QED
      BY <1>1, <2>1, <2>2
  <1> HIDE DEF d
  <1>3. d.held["ctx"] = {}
    <2>1. "ctx" \notin d.held["ctx"]
      BY <1>2 DEF Sound, Kinds, Parts, ChainCerts
    <2> QED
      BY <1>0, <1>2, <2>1
  <1> QED
    BY <1>0, <1>2, <1>3 DEF d, c

\* Three exchanges with OpenSSL that are no pair of Take and Release.
\* The EVP_PKEY takes the RSA key over from its unique_ptr.
LEMMA AssignCounted ==
  ASSUME NEW m \in Memories, NEW l, Counted(m, l),
         "rsa" \in m.held["local"], "rsa" \notin m.held["pkey"]
  PROVE  LET a == Adopt(Forget(m, "local", {"rsa"}), "pkey", {"rsa"})
         IN  /\ a \in Memories /\ Counted(a, l)
             /\ a.held = [m.held EXCEPT !["local"] = m.held["local"] \ {"rsa"},
                                        !["pkey"] = m.held["pkey"] \cup {"rsa"}]
  <1> DEFINE f == Forget(m, "local", {"rsa"})
             a == Adopt(f, "pkey", {"rsa"})
             r == Release(m, "local", {"rsa"})
             t == Take(r, "pkey", {"rsa"})
  <1>0. "local" \in Holders /\ "pkey" \in Holders /\ "rsa" \in Objects
    BY DEF Holders, Objects
  <1>1. /\ f.refs = m.refs /\ f.held = [m.held EXCEPT !["local"] = m.held["local"] \ {"rsa"}]
        /\ f \in Memories
    BY DEF Forget, Memories
  <1>2. /\ a.refs = m.refs /\ a.held = [f.held EXCEPT !["pkey"] = f.held["pkey"] \cup {"rsa"}]
        /\ a \in Memories
        /\ f.held["pkey"] = m.held["pkey"]
    <2>1. f.held["pkey"] = m.held["pkey"]
      BY <1>0, <1>1 DEF Memories
    <2> HIDE DEF f
    <2> QED
      BY <1>0, <1>1, <2>1 DEF Adopt, Memories
  <1>3. r \in Memories /\ Counted(r, l) /\ r.held = f.held
    BY <1>0, <1>1, ReleaseCounted DEF Release
  <1>4. r.held["pkey"] = m.held["pkey"] /\ {"rsa"} \cap r.held["pkey"] \subseteq ChainCerts
    BY <1>2, <1>3
  <1>5. t \in Memories /\ Counted(t, l)
    <2> HIDE DEF r
    <2> QED
      BY <1>0, <1>3, <1>4, TakeCounted
  <1>6. \A o \in Objects : t.refs[o] = a.refs[o]
    BY <1>2 DEF Take, Release, Count, Memories
  <1>7. t.held = a.held
    BY <1>2, <1>3 DEF Take
  <1>8. Counted(a, l)
    <2> HIDE DEF a, t
    <2> QED
      BY <1>5, <1>6, <1>7 DEF Counted, In
  <1> QED
    BY <1>1, <1>2, <1>8

\* The caller of SSL_CTX_use_RSAPrivateKey forgets its reference.
LEMMA ForgetLeaks ==
  ASSUME NEW m \in Memories, NEW l, Counted(m, l), "key" \notin l,
         NEW h \in Holders, "key" \in m.held[h]
  PROVE  LET f == Forget(m, h, {"key"})
         IN  /\ f \in Memories /\ Counted(f, l \cup {"key"})
             /\ f.held = [m.held EXCEPT ![h] = m.held[h] \ {"key"}]
  <1> DEFINE f == Forget(m, h, {"key"})
             r == Release(m, h, {"key"})
  <1>1. /\ f.held = [m.held EXCEPT ![h] = m.held[h] \ {"key"}] /\ f.refs = m.refs
        /\ f \in Memories
        /\ r.held = f.held
    BY DEF Forget, Release, Memories
  <1>2. r \in Memories /\ Counted(r, l)
    BY ReleaseCounted
  <1>3. \A o \in Objects : r.refs[o] = IF o = "key" THEN f.refs[o] - 1 ELSE f.refs[o]
    BY <1>1, CountType DEF Release, Memories
  <1>4. ASSUME NEW o \in Objects \ ChainCerts
        PROVE  IsFiniteSet(In(f, o)) /\ f.refs[o] = Cardinality(In(f, o)) + Leak(o, l \cup {"key"})
    <2>1. IsFiniteSet(In(r, o)) /\ r.refs[o] = Cardinality(In(r, o)) + Leak(o, l)
      BY <1>2 DEF Counted
    <2>2. In(f, o) = In(r, o)
      BY <1>1 DEF In
    <2>3. Cardinality(In(f, o)) \in Nat /\ f.refs[o] \in Int
      BY <1>1, <2>1, <2>2, FS_CardinalityType DEF Memories
    <2> QED
      BY <1>3, <2>1, <2>2, <2>3 DEF Leak
  <1> QED
    BY <1>1, <1>4 DEF Counted

\* SSL_CTX_add0_chain_cert does not count, and neither does Counted.
LEMMA AdoptChain ==
  ASSUME NEW m \in Memories, NEW l, Counted(m, l), NEW S \in SUBSET ChainCerts
  PROVE  LET a == Adopt(m, "ctx", S)
         IN  /\ a \in Memories /\ Counted(a, l)
             /\ a.held = [m.held EXCEPT !["ctx"] = m.held["ctx"] \cup S]
  <1> DEFINE a == Adopt(m, "ctx", S)
  <1>1. /\ a.held = [m.held EXCEPT !["ctx"] = m.held["ctx"] \cup S] /\ a.refs = m.refs
        /\ a \in Memories
    BY DEF Adopt, Memories, Objects
  <1>2. \A o \in Objects \ ChainCerts : In(a, o) = In(m, o)
    BY <1>1 DEF In, Memories
  <1> QED
    BY <1>1, <1>2 DEF Counted

LEMMA NothingSound == Sound(Nothing, {}) /\ \A h \in Holders : Nothing.held[h] = {}
  <1>1. \A h \in Holders : Nothing.held[h] = {}
    BY DEF Nothing
  <1>2. Nothing \in Memories
    BY DEF Nothing, Memories
  <1>3. \A o \in Objects : In(Nothing, o) = {} /\ Nothing.refs[o] = 0 /\ Leak(o, {}) = 0
    BY <1>1 DEF In, Nothing, Leak
  <1>4. Counted(Nothing, {})
    BY <1>3, FS_EmptySet DEF Counted
  <1>5. Kinds(Nothing) /\ Alive(Nothing)
    BY <1>1 DEF Kinds, Alive, Holders
  <1> QED
    BY <1>1, <1>2, <1>4, <1>5 DEF Sound

-----------------------------------------------------------------------------
(* The texts to load *)

TextKinds == {"ca", "certificate", "key"}

Texts(s) == {s[i] : i \in 1..Len(s)}

Generates(x) == x.side = "server" /\ x.auto_generate_certificate

\* What is still to load, at any time: the generated key comes first, and a key
\* that was given last.
Plans(x) ==
  IF Generates(x) THEN {<<"key", "certificate">>, <<"certificate">>, <<>>}
  ELSE {<<>>, <<"ca">>, <<"certificate">>, <<"key">>, <<"ca", "certificate">>,
        <<"ca", "key">>, <<"certificate", "key">>, <<"ca", "certificate", "key">>}

LEMMA EmptyPlan == Texts(<<>>) = {} /\ <<>> \in Seq(TextKinds)
  BY DEF Texts

LEMMA OneText ==
  ASSUME NEW a \in TextKinds
  PROVE  LET s == <<a>>
         IN  /\ s \in Seq(TextKinds) /\ s # <<>> /\ Head(s) = a /\ Tail(s) = <<>>
             /\ Texts(s) = {a}
  BY DEF Texts

LEMMA TwoTexts ==
  ASSUME NEW a \in TextKinds, NEW b \in TextKinds
  PROVE  LET s == <<a, b>>
         IN  /\ s \in Seq(TextKinds) /\ s # <<>> /\ Head(s) = a /\ Tail(s) = <<b>>
             /\ Texts(s) = {a, b}
  BY DEF Texts

LEMMA ThreeTexts ==
  ASSUME NEW a \in TextKinds, NEW b \in TextKinds, NEW c \in TextKinds
  PROVE  LET s == <<a, b, c>>
         IN  /\ s \in Seq(TextKinds) /\ s # <<>> /\ Head(s) = a /\ Tail(s) = <<b, c>>
             /\ Texts(s) = {a, b, c}
  BY DEF Texts

LEMMA TextSets ==
  /\ Texts(<<>>) = {}
  /\ Texts(<<"ca">>) = {"ca"}
  /\ Texts(<<"certificate">>) = {"certificate"}
  /\ Texts(<<"key">>) = {"key"}
  /\ Texts(<<"ca", "certificate", "key">>) = {"ca", "certificate", "key"}
  /\ Texts(<<"ca", "certificate">>) = {"ca", "certificate"}
  /\ Texts(<<"ca", "key">>) = {"ca", "key"}
  /\ Texts(<<"certificate", "key">>) = {"certificate", "key"}
  BY EmptyPlan, OneText, TwoTexts, ThreeTexts DEF TextKinds

LEMMA SeqEqual ==
  ASSUME NEW S, NEW s \in Seq(S), NEW t \in Seq(S), Len(s) = Len(t),
         \A i \in 1..Len(s) : s[i] = t[i]
  PROVE  s = t
  OBVIOUS

LEMMA JoinedLen ==
  ASSUME NEW S, NEW s \in Seq(S), NEW t \in Seq(S)
  PROVE  s \o t \in Seq(S) /\ Len(s \o t) = Len(s) + Len(t)
  OBVIOUS

LEMMA JoinedAt ==
  ASSUME NEW S, NEW s \in Seq(S), NEW t \in Seq(S), NEW i \in 1..(Len(s) + Len(t))
  PROVE  (s \o t)[i] = IF i <= Len(s) THEN s[i] ELSE t[i - Len(s)]
  OBVIOUS

LEMMA EmptyJoined ==
  ASSUME NEW s \in Seq(TextKinds)
  PROVE  s \o <<>> = s /\ <<>> \o s = s
  OBVIOUS

LEMMA TwoJoined ==
  ASSUME NEW a \in TextKinds, NEW b \in TextKinds
  PROVE  <<a>> \o <<b>> = <<a, b>>
  <1> DEFINE s == <<a>>
             t == <<b>>
             u == <<a, b>>
  <1>1. /\ s \in Seq(TextKinds) /\ Len(s) = 1 /\ s[1] = a
        /\ t \in Seq(TextKinds) /\ Len(t) = 1 /\ t[1] = b
        /\ u \in Seq(TextKinds) /\ Len(u) = 2 /\ u[1] = a /\ u[2] = b
    OBVIOUS
  <1> HIDE DEF s, t, u
  <1>2. s \o t \in Seq(TextKinds) /\ Len(s \o t) = 2 /\ (s \o t)[1] = a /\ (s \o t)[2] = b
    <2>1. s \o t \in Seq(TextKinds) /\ Len(s \o t) = 2
      <3>1. s \in Seq(TextKinds) /\ t \in Seq(TextKinds)
        BY <1>1
      <3>2. s \o t \in Seq(TextKinds) /\ Len(s \o t) = Len(s) + Len(t)
        BY <3>1, JoinedLen
      <3> QED
        BY <1>1, <3>2
    <2> QED
      BY <1>1, <2>1, JoinedAt
  <1>3. s \o t = u
    <2>1. \A i \in 1..2 : i = 1 \/ i = 2
      OBVIOUS
    <2> QED
      BY <1>1, <1>2, <2>1, SeqEqual
  <1> QED
    BY <1>3 DEF s, t, u

LEMMA ThreeJoined ==
  ASSUME NEW a \in TextKinds, NEW b \in TextKinds, NEW c \in TextKinds
  PROVE  <<a, b>> \o <<c>> = <<a, b, c>>
  <1> DEFINE s == <<a, b>>
             t == <<c>>
             u == <<a, b, c>>
  <1>1. /\ s \in Seq(TextKinds) /\ Len(s) = 2 /\ s[1] = a /\ s[2] = b
        /\ t \in Seq(TextKinds) /\ Len(t) = 1 /\ t[1] = c
        /\ u \in Seq(TextKinds) /\ Len(u) = 3 /\ u[1] = a /\ u[2] = b /\ u[3] = c
    OBVIOUS
  <1> HIDE DEF s, t, u
  <1>2. /\ s \o t \in Seq(TextKinds) /\ Len(s \o t) = 3
        /\ (s \o t)[1] = a /\ (s \o t)[2] = b /\ (s \o t)[3] = c
    <2>1. s \o t \in Seq(TextKinds) /\ Len(s \o t) = 3
      <3>1. s \in Seq(TextKinds) /\ t \in Seq(TextKinds)
        BY <1>1
      <3>2. s \o t \in Seq(TextKinds) /\ Len(s \o t) = Len(s) + Len(t)
        BY <3>1, JoinedLen
      <3> QED
        BY <1>1, <3>2
    <2> QED
      BY <1>1, <2>1, JoinedAt
  <1>3. s \o t = u
    <2>1. \A i \in 1..3 : i = 1 \/ i = 2 \/ i = 3
      OBVIOUS
    <2> QED
      BY <1>1, <1>2, <2>1, SeqEqual
  <1> QED
    BY <1>3 DEF s, t, u

LEMMA PlanStep ==
  ASSUME NEW x, NEW s \in Plans(x), s # <<>>
  PROVE  /\ s \in Seq(TextKinds) /\ Tail(s) \in Plans(x) /\ Head(s) \in TextKinds
         /\ Texts(s) = {Head(s)} \cup Texts(Tail(s))
         /\ Head(s) \notin Texts(Tail(s))
         /\ ~Generates(x) /\ Head(s) = "key" => "certificate" \notin Texts(Tail(s))
  <1>1. CASE s \in {<<"ca">>, <<"certificate">>, <<"key">>}
    BY <1>1, OneText, EmptyPlan DEF Plans, TextKinds
  <1>2. CASE s \in {<<"ca", "certificate">>, <<"ca", "key">>, <<"certificate", "key">>}
    <2> USE TwoTexts, OneText DEF Plans, TextKinds
    <2>1. CASE s = <<"ca", "certificate">>
      BY <1>2, <2>1
    <2>2. CASE s = <<"ca", "key">>
      BY <1>2, <2>2
    <2>3. CASE s = <<"certificate", "key">>
      BY <1>2, <2>3
    <2> QED
      BY <1>2, <2>1, <2>2, <2>3
  <1>3. CASE s = <<"key", "certificate">>
    BY <1>3, TwoTexts, OneText DEF Plans, TextKinds
  <1>4. CASE s = <<"ca", "certificate", "key">>
    BY <1>4, ThreeTexts, TwoTexts DEF Plans, TextKinds
  <1> QED
    BY <1>1, <1>2, <1>3, <1>4 DEF Plans

LEMMA LoadsPlanned ==
  ASSUME NEW x \in Configs
  PROVE  /\ Loads(x) \in Plans(x)
         /\ Generates(x) => Loads(x) = <<"key", "certificate">>
         /\ x.side = "server" /\ ~Generates(x) => Texts(Loads(x)) = x.given
  <1> DEFINE a == Given(x, "ca")
             b == Given(x, "certificate")
             c == Given(x, "key")
  <1>0. x.side \in {"server", "client"} /\ x.given \subseteq TextKinds
    BY ContextAssumption DEF TextKinds
  <1>1. CASE x.side = "client"
    BY <1>1 DEF Loads, Given, Plans, Generates
  <1>2. CASE Generates(x)
    BY <1>2 DEF Generates, Loads, Plans
  <1>3. CASE x.side = "server" /\ ~Generates(x)
    <2>1. Loads(x) = a \o b \o c
      BY <1>3 DEF Loads, Generates
    <2>2. /\ a = IF "ca" \in x.given THEN <<"ca">> ELSE <<>>
          /\ b = IF "certificate" \in x.given THEN <<"certificate">> ELSE <<>>
          /\ c = IF "key" \in x.given THEN <<"key">> ELSE <<>>
      BY DEF Given
    <2>3. a \o b = IF "ca" \in x.given
                   THEN IF "certificate" \in x.given THEN <<"ca", "certificate">> ELSE <<"ca">>
                   ELSE b
      <3>1. <<"ca">> \o <<"certificate">> = <<"ca", "certificate">>
        BY TwoJoined DEF TextKinds
      <3>2. b \in Seq(TextKinds) /\ <<"ca">> \in Seq(TextKinds)
        BY <2>2, OneText, EmptyPlan DEF TextKinds
      <3>3. <<>> \o b = b /\ <<"ca">> \o <<>> = <<"ca">>
        BY <3>2, EmptyJoined
      <3> HIDE DEF a, b, c
      <3> QED
        BY <2>2, <3>1, <3>3
    <2>4. a \o b \o c = IF "key" \notin x.given THEN a \o b
                        ELSE IF "ca" \in x.given
                        THEN IF "certificate" \in x.given THEN <<"ca", "certificate", "key">>
                             ELSE <<"ca", "key">>
                        ELSE IF "certificate" \in x.given THEN <<"certificate", "key">>
                             ELSE <<"key">>
      <3>1. /\ <<"ca">> \o <<"key">> = <<"ca", "key">>
            /\ <<"certificate">> \o <<"key">> = <<"certificate", "key">>
            /\ <<"ca", "certificate">> \o <<"key">> = <<"ca", "certificate", "key">>
        BY TwoJoined, ThreeJoined DEF TextKinds
      <3>2. a \o b \in Seq(TextKinds) /\ <<"key">> \in Seq(TextKinds)
        BY <2>2, <2>3, OneText, TwoTexts, EmptyPlan DEF TextKinds
      <3>3. (a \o b) \o <<>> = a \o b /\ <<>> \o <<"key">> = <<"key">>
        BY <3>2, EmptyJoined
      <3> HIDE DEF a, b, c
      <3> QED
        BY <2>2, <2>3, <3>1, <3>3
    <2>5. Loads(x) \in Plans(x)
      BY <1>3, <2>1, <2>2, <2>3, <2>4 DEF Plans
    <2>6. Texts(Loads(x)) = x.given
      <3>0. /\ Loads(x) = IF "key" \in x.given
                          THEN IF "ca" \in x.given
                               THEN IF "certificate" \in x.given THEN <<"ca", "certificate", "key">>
                                    ELSE <<"ca", "key">>
                               ELSE IF "certificate" \in x.given THEN <<"certificate", "key">>
                                    ELSE <<"key">>
                          ELSE IF "ca" \in x.given
                               THEN IF "certificate" \in x.given THEN <<"ca", "certificate">>
                                    ELSE <<"ca">>
                               ELSE IF "certificate" \in x.given THEN <<"certificate">>
                                    ELSE <<>>
        <4> HIDE DEF a, b, c
        <4> QED
          BY <2>1, <2>2, <2>3, <2>4, Zenon
      <3>1. Texts(Loads(x)) = {t \in TextKinds : t \in x.given}
        BY <3>0, TextSets DEF TextKinds
      <3> QED
        BY <1>0, <3>1
    <2> QED
      BY <1>3, <2>5, <2>6
  <1> QED
    BY <1>0, <1>1, <1>2, <1>3 DEF Generates

-----------------------------------------------------------------------------
(* The constructors *)

Early == {"create", "exited", "failed", "gone"}
Making == {"create", "generate", "assign", "write"}
Loading == {"read", "ca", "certificate", "next", "add", "key"}
Points == Early \cup Making \cup Loading \cup {"listen", "ready"}

\* What the functions that run hold at each point
LocalAt(p) ==
  CASE p = "assign" -> {"rsa", "bn"}
    [] p = "write" -> {"bn", "x509", "pkey"}
    [] p = "ca" -> {"bio", "ca"}
    [] p = "key" -> {"bio", "key"}
    [] p \in {"certificate", "next", "add"} -> {"bio", "leaf"}
    [] OTHER -> {}

\* Who has something at the point p
Place(p, m) ==
  /\ m.held["local"] \ ChainCerts = LocalAt(p)
  /\ m.held["local"] \cap ChainCerts # {} => p \in {"next", "add"}
  /\ "ctx" \in m.held["owner"] <=> p \notin Early
  /\ "listening_socket" \in m.held["owner"] => p = "ready"
  /\ m.held["pkey"] = IF p = "write" THEN {"rsa"} ELSE {}
  /\ p \notin {"ready", "gone"} => \A s \in Sessions : m.held[s] = {}

\* What is loaded, l, and what is still to be loaded, t
Order(x, p, t, l) ==
  /\ x \in Configs /\ p \in Points
  /\ t \in Plans(x)
  /\ l \cap Texts(t) = {} /\ l \cup Texts(t) = Texts(Loads(x))
  /\ l \subseteq TextKinds
  /\ p \in Loading => t # <<>>
  /\ p \in {"ca", "certificate", "key"} => Head(t) = p
  /\ p \in {"next", "add"} => Head(t) = "certificate"
  /\ p \in Making => l = {} /\ t = Loads(x)
  /\ p \in Making \ {"create"} => Generates(x)
  /\ p \in {"listen", "ready"} => t = <<>>
  /\ ~Generates(x) /\ "key" \in l => "certificate" \notin Texts(t)

\* While its owner has a context it has what was loaded, and never a
\* certificate and a key that do not belong together.
Fits(x, p, m, l) ==
  "ctx" \in m.held["owner"] =>
    /\ "ca" \in m.held["ctx"] <=> "ca" \in l
    /\ "key" \in m.held["ctx"] <=> "key" \in l
    /\ "leaf" \in m.held["ctx"] <=> "certificate" \in l \/ p \in {"next", "add"}
    /\ {"leaf", "key"} \subseteq m.held["ctx"] => x.auto_generate_certificate \/ x.certified # "other"

Right(x, p, t, m, l) == Order(x, p, t, l) /\ Sound(m, l) /\ Place(p, m) /\ Fits(x, p, m, l)

IInv == Right(config, pc, todo, mem, loaded)

\* h gets what holders of its kind may have.
LEMMA TakeSound ==
  ASSUME NEW m, NEW l, Sound(m, l), NEW h \in Holders,
         NEW S \in SUBSET Objects, S \cap m.held[h] \subseteq ChainCerts,
         \/ h = "local" /\ {"ctx", "listening_socket"} \cap S = {}
         \/ h = "owner" /\ S \subseteq {"ctx", "listening_socket"}
         \/ h = "ctx" /\ S \subseteq Parts /\ "ctx" \in m.held["owner"]
         \/ h \in Sessions /\ S \subseteq {"ctx"} \cup Parts
  PROVE  LET t == Take(m, h, S)
         IN  /\ Sound(t, l)
             /\ t.held[h] = m.held[h] \cup S
             /\ \A x \in Holders \ {h} : t.held[x] = m.held[x]
  <1> DEFINE t == Take(m, h, S)
  <1>0. /\ {"local", "owner", "ctx", "pkey"} \cup Sessions = Holders
        /\ Sessions \cap {"local", "owner", "ctx", "pkey"} = {}
    BY SessionAssumption DEF Holders
  <1>1. m \in Memories /\ Counted(m, l) /\ Kinds(m) /\ Alive(m)
    BY DEF Sound
  <1>2. t \in Memories /\ Counted(t, l)
    BY <1>1, TakeCounted
  <1>3. t.held = [m.held EXCEPT ![h] = m.held[h] \cup S]
    BY DEF Take
  <1> HIDE DEF t
  <1>4. /\ t.held[h] = m.held[h] \cup S
        /\ \A x \in Holders \ {h} : t.held[x] = m.held[x]
    BY <1>1, <1>3 DEF Memories
  <1>5. Kinds(t)
    BY <1>0, <1>1, <1>4 DEF Kinds
  <1>6. Alive(t)
    <2>1. \A x \in Holders : m.held[x] \subseteq t.held[x]
      BY <1>4
    <2>2. t.held["pkey"] = m.held["pkey"]
      BY <1>0, <1>4
    <2>3. h # "ctx" => t.held["ctx"] = m.held["ctx"]
      BY <1>0, <1>4
    <2> QED
      BY <1>0, <1>1, <2>1, <2>2, <2>3 DEF Alive
  <1> QED
    BY <1>2, <1>4, <1>5, <1>6 DEF Sound, t

LEMMA ReleaseSound ==
  ASSUME NEW m, NEW l, Sound(m, l), NEW h \in Holders,
         NEW S \in SUBSET m.held[h], {"ctx", "pkey"} \cap S = {}
  PROVE  LET d == Drop(m, h, S)
         IN  /\ Sound(d, l)
             /\ d.held[h] = m.held[h] \ S
             /\ \A x \in Holders \ {h} : d.held[x] = m.held[x]
  <1> DEFINE r == Release(m, h, S)
  <1>0. {"local", "owner", "ctx", "pkey"} \cup Sessions = Holders
    BY DEF Holders
  <1>1. m \in Memories /\ Counted(m, l) /\ Kinds(m) /\ Alive(m)
    BY DEF Sound
  <1>2. r \in Memories /\ Counted(r, l) /\ Drop(m, h, S) = r
    BY <1>1, ReleaseCounted, DropParts
  <1>3. r.held = [m.held EXCEPT ![h] = m.held[h] \ S]
    BY DEF Release
  <1> HIDE DEF r
  <1>4. /\ r.held[h] = m.held[h] \ S
        /\ \A x \in Holders \ {h} : r.held[x] = m.held[x]
    BY <1>1, <1>3 DEF Memories
  <1>5. \A x \in Holders : r.held[x] \subseteq m.held[x]
    BY <1>4
  <1>6. Kinds(r)
    BY <1>0, <1>1, <1>5 DEF Kinds
  <1>7. Alive(r)
    <2>1. \A x \in Holders : "ctx" \in m.held[x] => "ctx" \in r.held[x]
      BY <1>4
    <2>2. "pkey" \in m.held["local"] => "pkey" \in r.held["local"]
      BY <1>0, <1>4
    <2> QED
      BY <1>0, <1>1, <1>5, <2>1, <2>2 DEF Alive
  <1> QED
    BY <1>2, <1>4, <1>6, <1>7 DEF Sound

LEMMA LoadedSound ==
  ASSUME NEW m, NEW l, Sound(m, l), NEW t, t # "key"
  PROVE  Sound(m, l \cup {t})
  <1>1. \A o : Leak(o, l \cup {t}) = Leak(o, l)
    BY DEF Leak
  <1> QED
    BY <1>1 DEF Sound, Counted

\* A constructor that throws before there is a session leaves nothing.
LEMMA FailsRight ==
  ASSUME NEW x, NEW p, NEW t, NEW l, NEW m,
         Order(x, p, t, l), Sound(m, l), \A s \in Sessions : m.held[s] = {}
  PROVE  Right(x, "failed", t, DropAll(DropAll(m, "local"), "owner"), l)
  <1> DEFINE d == DropAll(DropAll(m, "local"), "owner")
  <1>1. Sound(d, l) /\ \A h \in Holders : d.held[h] = {}
    BY UnwindsAll
  <1> HIDE DEF d
  <1>2. /\ "failed" \in Early /\ "failed" \in Points /\ LocalAt("failed") = {}
        /\ "failed" \notin Loading \cup Making
    BY DEF Early, Points, Loading, Making, LocalAt
  <1>3. Order(x, "failed", t, l)
    BY <1>2 DEF Order
  <1>4. Place("failed", d)
    BY <1>1, <1>2 DEF Place, Holders
  <1>5. Fits(x, "failed", d, l)
    BY <1>1 DEF Fits, Holders
  <1> QED
    BY <1>1, <1>3, <1>4, <1>5 DEF Right, d

\* A set_ function that returns lets go of its locals; its text is loaded.
LEMMA ReturnsRight ==
  ASSUME NEW x, NEW p \in Loading, NEW t, NEW l, NEW m, NEW n,
         Order(x, p, t, l), Sound(m, l \cup {Head(t)}),
         \A s \in Sessions : m.held[s] = {},
         m.held["owner"] = {"ctx"}, m.held["pkey"] = {},
         "ca" \in m.held["ctx"] <=> "ca" \in l \cup {Head(t)},
         "key" \in m.held["ctx"] <=> "key" \in l \cup {Head(t)},
         "leaf" \in m.held["ctx"] <=> "certificate" \in l \cup {Head(t)},
         {"leaf", "key"} \subseteq m.held["ctx"] => x.auto_generate_certificate \/ x.certified # "other",
         n \in IF Tail(t) = <<>> THEN {"ready", "listen"} ELSE {"read"}
  PROVE  Right(x, n, Tail(t), DropAll(m, "local"), l \cup {Head(t)})
  <1> DEFINE d == DropAll(m, "local")
             k == l \cup {Head(t)}
  <1>0. /\ {"local", "owner", "ctx", "pkey"} \cup Sessions = Holders
        /\ Sessions \cap {"local", "owner", "ctx", "pkey"} = {}
    BY SessionAssumption DEF Holders
  <1>1. /\ Sound(d, k) /\ d.held["local"] = {} /\ d.held["owner"] = {"ctx"}
        /\ d.held["pkey"] = {} /\ \A s \in Sessions : d.held[s] = {}
        /\ d.held["ctx"] = m.held["ctx"]
    <2>1. /\ Sound(d, k) /\ d.held["local"] = {}
          /\ \A h \in Holders \ {"local", "ctx", "pkey"} : d.held[h] = m.held[h]
          /\ d.held["pkey"] = {}
          /\ d.held["ctx"] = IF \E h \in Holders : "ctx" \in d.held[h]
                             THEN m.held["ctx"] ELSE {}
      BY DropAllSound
    <2>2. d.held["owner"] = {"ctx"} /\ \A s \in Sessions : d.held[s] = {}
      BY <1>0, <2>1
    <2> QED
      BY <1>0, <2>1, <2>2
  <1> HIDE DEF d
  <1>2. /\ n \in {"ready", "listen", "read"} /\ n \in Points /\ n \notin Early \cup Making
        /\ LocalAt(n) = {}
    BY DEF Early, Points, Loading, Making, LocalAt
  <1>3. /\ t \in Plans(x) /\ t # <<>> /\ l \cap Texts(t) = {} /\ l \cup Texts(t) = Texts(Loads(x))
        /\ x \in Configs /\ l \subseteq TextKinds
        /\ ~Generates(x) /\ "key" \in l => "certificate" \notin Texts(t)
    BY DEF Order
  <1>4. /\ Tail(t) \in Plans(x) /\ Head(t) \in TextKinds
        /\ Texts(t) = {Head(t)} \cup Texts(Tail(t))
        /\ Head(t) \notin Texts(Tail(t))
        /\ ~Generates(x) /\ Head(t) = "key" => "certificate" \notin Texts(Tail(t))
    BY <1>3, PlanStep
  <1>5. Order(x, n, Tail(t), k)
    <2>1. k \cap Texts(Tail(t)) = {} /\ k \cup Texts(Tail(t)) = Texts(Loads(x)) /\ k \subseteq TextKinds
      BY <1>3, <1>4
    <2>2. ~Generates(x) /\ "key" \in k => "certificate" \notin Texts(Tail(t))
      BY <1>3, <1>4
    <2>3. n \in Loading => Tail(t) # <<>>
      BY <1>2 DEF Loading
    <2>4. n \in {"listen", "ready"} => Tail(t) = <<>>
      OBVIOUS
    <2>5. n \notin {"ca", "certificate", "key"} /\ n \notin {"next", "add"} /\ n \notin Making
      BY <1>2
    <2> QED
      BY <1>2, <1>3, <1>4, <2>1, <2>2, <2>3, <2>4, <2>5 DEF Order
  <1>6. Place(n, d)
    BY <1>1, <1>2 DEF Place
  <1>7. Fits(x, n, d, k)
    BY <1>1, <1>2 DEF Fits
  <1> QED
    BY <1>1, <1>5, <1>6, <1>7 DEF Right, d

-----------------------------------------------------------------------------
(* Every step keeps the invariant. *)

LEMMA ThrowsRight ==
  ASSUME IInv, NEW m, Sound(m, loaded), \A s \in Sessions : m.held[s] = {}, Throws(m)
  PROVE  IInv'
  <1>1. Order(config, pc, todo, loaded)
    BY DEF IInv, Right
  <1>2. Right(config, "failed", todo, DropAll(DropAll(m, "local"), "owner"), loaded)
    BY <1>1, FailsRight
  <1> QED
    BY <1>2 DEF Throws, IInv

LEMMA GoesRight ==
  ASSUME NEW m, NEW n, Goes(n, m), Right(config, n, todo, m, loaded)
  PROVE  IInv'
  BY DEF Goes, IInv

\* What the invariant says while the constructor runs
LEMMA Within ==
  ASSUME IInv, pc \notin Early \cup {"ready"}
  PROVE  /\ Order(config, pc, todo, loaded) /\ Sound(mem, loaded) /\ Place(pc, mem)
         /\ Fits(config, pc, mem, loaded)
         /\ mem.held["owner"] = {"ctx"}
         /\ mem.held["local"] \ ChainCerts = LocalAt(pc)
         /\ pc \notin {"next", "add"} => mem.held["local"] = LocalAt(pc)
         /\ \A s \in Sessions : mem.held[s] = {}
         /\ mem \in Memories
  <1>1. /\ Order(config, pc, todo, loaded) /\ Sound(mem, loaded) /\ Place(pc, mem)
        /\ Fits(config, pc, mem, loaded)
    BY DEF IInv, Right
  <1>2. mem \in Memories /\ mem.held["owner"] = {"ctx"}
    BY <1>1 DEF Sound, Kinds, Place
  <1>3. pc \notin {"ready", "gone"}
    BY DEF Early
  <1> QED
    BY <1>1, <1>2, <1>3 DEF Place, LocalAt

LEMMA InitRight == ContextInit => IInv
  <1> SUFFICES ASSUME ContextInit PROVE Right(config, "create", Loads(config), Nothing, {})
    BY DEF ContextInit, IInv
  <1>1. config \in Configs
    BY DEF ContextInit
  <1>2. /\ "create" \in Points /\ "create" \in Early /\ "create" \in Making
        /\ "create" \notin Loading /\ LocalAt("create") = {}
    BY DEF Points, Early, Making, Loading, LocalAt
  <1>3. Order(config, "create", Loads(config), {})
    BY <1>1, <1>2, LoadsPlanned DEF Order
  <1>4. Place("create", Nothing) /\ Fits(config, "create", Nothing, {})
    BY <1>2, NothingSound DEF Place, Fits, Holders
  <1> QED
    BY <1>3, <1>4, NothingSound DEF Right

LEMMA CreateContextRight ==
  ASSUME IInv, CreateContext
  PROVE  IInv'
  <1> DEFINE t == Take(mem, "owner", {"ctx"})
             n == IF config.side = "server" /\ config.auto_generate_certificate THEN "generate"
                  ELSE IF todo = <<>> THEN Loaded ELSE "read"
  <1>0. /\ {"local", "owner", "ctx", "pkey"} \cup Sessions = Holders
        /\ Sessions \cap {"local", "owner", "ctx", "pkey"} = {}
        /\ "create" \in Early /\ "create" \in Making /\ LocalAt("create") = {}
    BY SessionAssumption DEF Holders, Early, Making, LocalAt
  <1>1. /\ pc = "create" /\ Order(config, pc, todo, loaded) /\ Sound(mem, loaded)
        /\ Place(pc, mem)
        /\ Goes("exited", mem) \/ Goes(n, t)
    BY DEF IInv, Right, CreateContext
  <1>2. /\ mem.held["owner"] = {} /\ mem.held["local"] = {} /\ mem.held["pkey"] = {}
        /\ \A s \in Sessions : mem.held[s] = {}
        /\ mem \in Memories
    BY <1>0, <1>1 DEF Place, Sound, Kinds
  <1>3. mem.held["ctx"] = {}
    <2>1. "ctx" \notin mem.held["ctx"]
      BY <1>1 DEF Sound, Kinds, Parts, ChainCerts
    <2> QED
      BY <1>0, <1>1, <1>2, <2>1 DEF Sound, Alive
  <1>4. CASE Goes("exited", mem)
    <2>1. "exited" \in Points /\ "exited" \in Early /\ "exited" \notin Loading \cup Making
          /\ LocalAt("exited") = {}
      BY DEF Points, Early, Loading, Making, LocalAt
    <2>2. Order(config, "exited", todo, loaded)
      BY <1>1, <2>1 DEF Order
    <2>3. Place("exited", mem) /\ Fits(config, "exited", mem, loaded)
      BY <1>2, <2>1 DEF Place, Fits
    <2> QED
      BY <1>1, <1>4, <2>2, <2>3, GoesRight DEF Right
  <1>5. CASE Goes(n, t)
    <2>1. /\ Sound(t, loaded) /\ t.held["owner"] = {"ctx"}
          /\ \A h \in Holders \ {"owner"} : t.held[h] = mem.held[h]
      <3>1. {"ctx"} \in SUBSET Objects /\ {"ctx"} \cap mem.held["owner"] \subseteq ChainCerts
        BY <1>2 DEF Objects
      <3> QED
        BY <1>0, <1>1, <1>2, <3>1, TakeSound
    <2>2. /\ n \in {"generate", "read", "listen", "ready"}
          /\ n = "generate" <=> Generates(config)
          /\ n = "read" => todo # <<>>
          /\ n \in {"listen", "ready"} => todo = <<>>
      BY DEF Generates, Loaded
    <2> HIDE DEF n, t
    <2>3. /\ n \in Points /\ n \notin Early /\ LocalAt(n) = {}
          /\ n \in Loading <=> n = "read"
          /\ n \in Making <=> n = "generate"
      BY <2>2 DEF Points, Early, Loading, Making, LocalAt
    <2>4. Order(config, n, todo, loaded)
      BY <1>0, <1>1, <2>2, <2>3 DEF Order
    <2>5. Place(n, t)
      BY <1>0, <1>2, <2>1, <2>2, <2>3 DEF Place
    <2>6. Fits(config, n, t, loaded)
      <3>1. t.held["ctx"] = {} /\ loaded = {}
        BY <1>0, <1>1, <1>3, <2>1 DEF Order
      <3> QED
        BY <2>2, <3>1 DEF Fits
    <2> QED
      BY <1>5, <2>1, <2>4, <2>5, <2>6, GoesRight DEF Right
  <1> QED
    BY <1>1, <1>4, <1>5

LEMMA GenerateKeyRight ==
  ASSUME IInv, GenerateKey
  PROVE  IInv'
  <1> DEFINE t == Take(mem, "local", {"rsa", "bn"})
  <1>0. /\ {"local", "owner", "ctx", "pkey"} \cup Sessions = Holders
        /\ Sessions \cap {"local", "owner", "ctx", "pkey"} = {}
        /\ "assign" \in Points /\ "assign" \notin Early \cup Loading /\ "assign" \in Making
        /\ "generate" \notin Early \cup {"ready"} /\ "generate" \in Making
        /\ LocalAt("generate") = {} /\ LocalAt("assign") = {"rsa", "bn"}
    BY SessionAssumption DEF Holders, Points, Early, Loading, Making, LocalAt
  <1>1. pc = "generate" /\ (Throws(t) \/ Goes("assign", t))
    BY DEF GenerateKey
  <1>2. /\ Order(config, pc, todo, loaded) /\ Sound(mem, loaded) /\ Place(pc, mem)
        /\ Fits(config, pc, mem, loaded)
        /\ mem.held["owner"] = {"ctx"} /\ mem.held["local"] = {}
        /\ \A s \in Sessions : mem.held[s] = {}
    BY <1>0, <1>1, Within
  <1>3. /\ Sound(t, loaded) /\ t.held["local"] = {"rsa", "bn"}
        /\ \A h \in Holders \ {"local"} : t.held[h] = mem.held[h]
    <2>1. {"rsa", "bn"} \in SUBSET Objects /\ {"ctx", "listening_socket"} \cap {"rsa", "bn"} = {}
      BY DEF Objects
    <2> QED
      BY <1>0, <1>2, <2>1, TakeSound
  <1> HIDE DEF t
  <1>4. Right(config, "assign", todo, t, loaded)
    <2>1. Order(config, "assign", todo, loaded)
      BY <1>0, <1>1, <1>2 DEF Order
    <2>2. Place("assign", t)
      BY <1>0, <1>1, <1>2, <1>3 DEF Place, ChainCerts
    <2>3. Fits(config, "assign", t, loaded)
      BY <1>0, <1>1, <1>2, <1>3 DEF Fits
    <2> QED
      BY <1>3, <2>1, <2>2, <2>3 DEF Right
  <1>5. \A s \in Sessions : t.held[s] = {}
    BY <1>0, <1>2, <1>3
  <1> QED
    BY <1>1, <1>3, <1>4, <1>5, ThrowsRight, GoesRight

LEMMA AssignKeyRight ==
  ASSUME IInv, AssignKey
  PROVE  IInv'
  <1> DEFINE t == Take(mem, "local", {"x509", "pkey"})
             a == Adopt(Forget(t, "local", {"rsa"}), "pkey", {"rsa"})
  <1>0. /\ {"local", "owner", "ctx", "pkey"} \cup Sessions = Holders
        /\ Sessions \cap {"local", "owner", "ctx", "pkey"} = {}
        /\ "write" \in Points /\ "write" \notin Early \cup Loading /\ "write" \in Making
        /\ "assign" \notin Early \cup {"ready"} /\ "assign" \in Making
        /\ LocalAt("assign") = {"rsa", "bn"} /\ LocalAt("write") = {"bn", "x509", "pkey"}
    BY SessionAssumption DEF Holders, Points, Early, Loading, Making, LocalAt
  <1>1. pc = "assign" /\ Goes("write", a)
    BY DEF AssignKey
  <1>2. /\ Order(config, pc, todo, loaded) /\ Sound(mem, loaded) /\ Place(pc, mem)
        /\ Fits(config, pc, mem, loaded)
        /\ mem.held["owner"] = {"ctx"} /\ mem.held["local"] = {"rsa", "bn"}
        /\ \A s \in Sessions : mem.held[s] = {}
        /\ mem.held["pkey"] = {}
    <2>1. pc \notin {"next", "add", "write"}
      BY <1>1
    <2> QED
      BY <1>0, <1>1, <2>1, Within DEF Place
  <1>3. /\ Sound(t, loaded) /\ t.held["local"] = {"rsa", "bn", "x509", "pkey"}
        /\ \A h \in Holders \ {"local"} : t.held[h] = mem.held[h]
    <2>1. /\ {"x509", "pkey"} \in SUBSET Objects
          /\ {"ctx", "listening_socket"} \cap {"x509", "pkey"} = {}
          /\ {"x509", "pkey"} \cap mem.held["local"] = {}
      BY <1>2 DEF Objects
    <2>2. /\ Sound(t, loaded) /\ t.held["local"] = mem.held["local"] \cup {"x509", "pkey"}
          /\ \A h \in Holders \ {"local"} : t.held[h] = mem.held[h]
      BY <1>0, <1>2, <2>1, TakeSound
    <2> QED
      BY <1>2, <2>2
  <1> HIDE DEF t
  <1>4. /\ a \in Memories /\ Counted(a, loaded)
        /\ a.held = [t.held EXCEPT !["local"] = t.held["local"] \ {"rsa"},
                                   !["pkey"] = t.held["pkey"] \cup {"rsa"}]
    <2>1. t \in Memories /\ Counted(t, loaded) /\ "rsa" \in t.held["local"]
          /\ "rsa" \notin t.held["pkey"]
      BY <1>0, <1>2, <1>3 DEF Sound
    <2> QED
      BY <2>1, AssignCounted
  <1> HIDE DEF a
  <1>5. /\ a.held["local"] = {"bn", "x509", "pkey"} /\ a.held["pkey"] = {"rsa"}
        /\ \A h \in Holders \ {"local", "pkey"} : a.held[h] = mem.held[h]
    BY <1>0, <1>2, <1>3, <1>4 DEF Sound, Memories
  <1>6. Sound(a, loaded)
    <2>1. Kinds(a)
      BY <1>0, <1>2, <1>5 DEF Sound, Kinds
    <2>2. Alive(a)
      BY <1>0, <1>2, <1>5 DEF Alive
    <2> QED
      BY <1>4, <2>1, <2>2 DEF Sound
  <1>7. Right(config, "write", todo, a, loaded)
    <2>1. Order(config, "write", todo, loaded)
      BY <1>0, <1>1, <1>2 DEF Order
    <2>2. Place("write", a)
      BY <1>0, <1>2, <1>5 DEF Place, ChainCerts
    <2>3. Fits(config, "write", a, loaded)
      BY <1>0, <1>1, <1>2, <1>5 DEF Fits
    <2> QED
      BY <1>6, <2>1, <2>2, <2>3 DEF Right
  <1> QED
    BY <1>1, <1>7, GoesRight

LEMMA WritePemRight ==
  ASSUME IInv, WritePem
  PROVE  IInv'
  <1> DEFINE t == Take(mem, "local", {"private_key_bio", "cert_bio"})
             d == DropAll(t, "local")
  <1>0. /\ {"local", "owner", "ctx", "pkey"} \cup Sessions = Holders
        /\ Sessions \cap {"local", "owner", "ctx", "pkey"} = {}
        /\ "read" \in Points /\ "read" \notin Early \cup Making /\ "read" \in Loading
        /\ "write" \notin Early \cup {"ready"} /\ "write" \in Making
        /\ LocalAt("write") = {"bn", "x509", "pkey"} /\ LocalAt("read") = {}
    BY SessionAssumption DEF Holders, Points, Early, Loading, Making, LocalAt
  <1>1. pc = "write" /\ (Throws(t) \/ Goes("read", d))
    BY DEF WritePem
  <1>2. /\ Order(config, pc, todo, loaded) /\ Sound(mem, loaded) /\ Place(pc, mem)
        /\ Fits(config, pc, mem, loaded)
        /\ mem.held["owner"] = {"ctx"} /\ mem.held["local"] = {"bn", "x509", "pkey"}
        /\ \A s \in Sessions : mem.held[s] = {}
    <2>1. pc \notin {"next", "add"}
      BY <1>1
    <2> QED
      BY <1>0, <1>1, <2>1, Within
  <1>3. /\ Sound(t, loaded)
        /\ \A h \in Holders \ {"local"} : t.held[h] = mem.held[h]
    <2>1. /\ {"private_key_bio", "cert_bio"} \in SUBSET Objects
          /\ {"ctx", "listening_socket"} \cap {"private_key_bio", "cert_bio"} = {}
          /\ {"private_key_bio", "cert_bio"} \cap mem.held["local"] = {}
      BY <1>2 DEF Objects
    <2> QED
      BY <1>0, <1>2, <2>1, TakeSound
  <1>4. \A s \in Sessions : t.held[s] = {}
    BY <1>0, <1>2, <1>3
  <1> HIDE DEF t
  <1>5. /\ Sound(d, loaded) /\ d.held["local"] = {} /\ d.held["pkey"] = {}
        /\ \A h \in Holders \ {"local", "ctx", "pkey"} : d.held[h] = t.held[h]
        /\ d.held["ctx"] = IF \E x \in Holders : "ctx" \in d.held[x]
                           THEN t.held["ctx"] ELSE {}
    BY <1>3, DropAllSound
  <1> HIDE DEF d
  <1>6. /\ d.held["owner"] = {"ctx"} /\ d.held["ctx"] = mem.held["ctx"]
        /\ \A s \in Sessions : d.held[s] = {}
    <2>1. d.held["owner"] = {"ctx"} /\ \A s \in Sessions : d.held[s] = {}
      BY <1>0, <1>2, <1>3, <1>4, <1>5
    <2> QED
      BY <1>0, <1>3, <1>5, <2>1
  <1>7. Right(config, "read", todo, d, loaded)
    <2>1. todo = <<"key", "certificate">>
      BY <1>0, <1>1, <1>2, LoadsPlanned DEF Order
    <2>2. todo # <<>>
      BY <2>1
    <2>3. Order(config, "read", todo, loaded)
      BY <1>0, <1>1, <1>2, <2>2 DEF Order
    <2>4. Place("read", d)
      BY <1>0, <1>5, <1>6 DEF Place
    <2>5. Fits(config, "read", d, loaded)
      BY <1>0, <1>1, <1>2, <1>6 DEF Fits
    <2> QED
      BY <1>5, <2>3, <2>4, <2>5 DEF Right
  <1> QED
    BY <1>1, <1>3, <1>4, <1>7, ThrowsRight, GoesRight

LEMMA ReadTextRight ==
  ASSUME IInv, ReadText
  PROVE  IInv'
  <1> DEFINE text == Head(todo)
             bio  == Take(mem, "local", {"bio"})
             S    == {Object(text)}
             t    == Take(bio, "local", S)
  <1>0. /\ {"local", "owner", "ctx", "pkey"} \cup Sessions = Holders
        /\ Sessions \cap {"local", "owner", "ctx", "pkey"} = {}
        /\ "read" \notin Early \cup {"ready"} /\ "read" \in Loading
        /\ LocalAt("read") = {}
    BY SessionAssumption DEF Holders, Early, Loading, LocalAt
  <1>1. pc = "read" /\ (Throws(mem) \/ Throws(bio) \/ Goes(text, t))
    BY DEF ReadText
  <1>2. /\ Order(config, pc, todo, loaded) /\ Sound(mem, loaded) /\ Place(pc, mem)
        /\ Fits(config, pc, mem, loaded)
        /\ mem.held["owner"] = {"ctx"} /\ mem.held["local"] = {}
        /\ \A s \in Sessions : mem.held[s] = {}
    <2>1. pc \notin {"next", "add"}
      BY <1>1
    <2> QED
      BY <1>0, <1>1, <2>1, Within
  <1>3. text \in TextKinds
    BY <1>0, <1>1, <1>2, PlanStep DEF Order
  <1>4. /\ Sound(bio, loaded) /\ bio.held["local"] = {"bio"}
        /\ \A h \in Holders \ {"local"} : bio.held[h] = mem.held[h]
    <2>1. {"bio"} \in SUBSET Objects /\ {"ctx", "listening_socket"} \cap {"bio"} = {}
      BY DEF Objects
    <2> QED
      BY <1>0, <1>2, <2>1, TakeSound
  <1> HIDE DEF bio
  <1>5. /\ Sound(t, loaded) /\ t.held["local"] = {"bio", Object(text)}
        /\ \A h \in Holders \ {"local"} : t.held[h] = mem.held[h]
    <2>1. /\ S \in SUBSET Objects /\ {"ctx", "listening_socket"} \cap S = {}
          /\ S \cap bio.held["local"] \subseteq ChainCerts /\ "local" \in Holders
      BY <1>0, <1>3, <1>4 DEF Objects, Object, TextKinds
    <2> HIDE DEF S
    <2>2. /\ Sound(t, loaded) /\ t.held["local"] = bio.held["local"] \cup S
          /\ \A h \in Holders \ {"local"} : t.held[h] = bio.held[h]
      BY <1>4, <2>1, TakeSound
    <2> QED
      BY <1>4, <2>2 DEF S
  <1> HIDE DEF t
  <1>6. \A s \in Sessions : bio.held[s] = {}
    BY <1>0, <1>2, <1>4
  <1>7. Right(config, text, todo, t, loaded)
    <2>1. /\ text \in Points /\ text \notin Early \cup Making /\ text \in Loading
          /\ text \notin {"next", "add", "ready", "listen", "write", "gone"}
          /\ LocalAt(text) = {"bio", Object(text)}
      BY <1>3 DEF Points, Early, Making, Loading, TextKinds, LocalAt, Object
    <2>2. Order(config, text, todo, loaded)
      BY <1>0, <1>1, <1>2, <2>1 DEF Order
    <2>3. mem.held["pkey"] = {}
      BY <1>1, <1>2 DEF Place
    <2>4. Place(text, t)
      <3>1. {"bio", Object(text)} \cap ChainCerts = {}
        BY <1>3 DEF Object, ChainCerts, TextKinds
      <3> QED
        BY <1>0, <1>2, <1>5, <2>1, <2>3, <3>1 DEF Place
    <2>5. Fits(config, text, t, loaded)
      BY <1>0, <1>1, <1>2, <1>5, <2>1 DEF Fits
    <2> QED
      BY <1>5, <2>2, <2>4, <2>5 DEF Right
  <1> QED
    BY <1>1, <1>2, <1>4, <1>6, <1>7, ThrowsRight, GoesRight

LEMMA UseCaRight ==
  ASSUME IInv, UseCa
  PROVE  IInv'
  <1> DEFINE t == Take(mem, "ctx", {"ca"})
             n == IF Tail(todo) = <<>> THEN Loaded ELSE "read"
  <1>0. /\ {"local", "owner", "ctx", "pkey"} \cup Sessions = Holders
        /\ Sessions \cap {"local", "owner", "ctx", "pkey"} = {}
        /\ "ca" \notin Early \cup {"ready"} /\ "ca" \in Loading
    BY SessionAssumption DEF Holders, Early, Loading
  <1>1. pc = "ca" /\ (Throws(mem) \/ Returns(t))
    BY DEF UseCa
  <1>2. /\ Order(config, pc, todo, loaded) /\ Sound(mem, loaded) /\ Place(pc, mem)
        /\ Fits(config, pc, mem, loaded)
        /\ mem.held["owner"] = {"ctx"}
        /\ \A s \in Sessions : mem.held[s] = {}
        /\ mem.held["pkey"] = {}
    BY <1>0, <1>1, Within DEF Place
  <1>3. Head(todo) = "ca" /\ todo # <<>> /\ "ca" \notin loaded /\ todo \in Plans(config)
    <2>1. Head(todo) = "ca" /\ todo # <<>> /\ todo \in Plans(config) /\ loaded \cap Texts(todo) = {}
      BY <1>0, <1>1, <1>2 DEF Order
    <2> QED
      BY <2>1, PlanStep
  <1>4. /\ Sound(t, loaded) /\ t.held["ctx"] = mem.held["ctx"] \cup {"ca"}
        /\ \A h \in Holders \ {"ctx"} : t.held[h] = mem.held[h]
    <2>1. /\ {"ca"} \in SUBSET Objects /\ {"ca"} \subseteq Parts
          /\ {"ca"} \cap mem.held["ctx"] = {}
      BY <1>2, <1>3 DEF Objects, Parts, Fits
    <2> QED
      BY <1>0, <1>2, <2>1, TakeSound
  <1> HIDE DEF t
  <1>5. CASE Returns(t)
    <2>1. Sound(t, loaded \cup {Head(todo)})
      BY <1>3, <1>4, LoadedSound
    <2>2. /\ \A s \in Sessions : t.held[s] = {}
          /\ t.held["owner"] = {"ctx"} /\ t.held["pkey"] = {}
      BY <1>0, <1>2, <1>4
    <2>3. /\ "ca" \in t.held["ctx"]
          /\ "key" \in t.held["ctx"] <=> "key" \in loaded
          /\ "leaf" \in t.held["ctx"] <=> "certificate" \in loaded
          /\ {"leaf", "key"} \subseteq t.held["ctx"]
               => config.auto_generate_certificate \/ config.certified # "other"
      BY <1>1, <1>2, <1>4 DEF Fits
    <2>4. n \in IF Tail(todo) = <<>> THEN {"ready", "listen"} ELSE {"read"}
      BY DEF Loaded
    <2> HIDE DEF n
    <2>5. Right(config, n, Tail(todo), DropAll(t, "local"), loaded \cup {Head(todo)})
      BY <1>0, <1>1, <1>2, <1>3, <2>1, <2>2, <2>3, <2>4, ReturnsRight
    <2> QED
      BY <1>5, <2>5 DEF Returns, IInv, n
  <1> QED
    BY <1>1, <1>2, <1>5, ThrowsRight

LEMMA UseCertificateRight ==
  ASSUME IInv, UseCertificate
  PROVE  IInv'
  <1> DEFINE t == Take(mem, "ctx", {"leaf"})
             m == IF Mismatch("key") THEN Drop(t, "ctx", {"key"}) ELSE t
  <1>0. /\ {"local", "owner", "ctx", "pkey"} \cup Sessions = Holders
        /\ Sessions \cap {"local", "owner", "ctx", "pkey"} = {}
        /\ "certificate" \notin Early \cup {"ready"} /\ "certificate" \in Loading
        /\ "next" \in Points /\ "next" \notin Early \cup Making /\ "next" \in Loading
        /\ LocalAt("certificate") = {"bio", "leaf"} /\ LocalAt("next") = {"bio", "leaf"}
    BY SessionAssumption DEF Holders, Points, Early, Making, Loading, LocalAt
  <1>1. pc = "certificate" /\ (Throws(mem) \/ Throws(m) \/ Goes("next", m))
    BY DEF UseCertificate
  <1>2. /\ Order(config, pc, todo, loaded) /\ Sound(mem, loaded) /\ Place(pc, mem)
        /\ Fits(config, pc, mem, loaded)
        /\ mem.held["owner"] = {"ctx"} /\ mem.held["local"] = {"bio", "leaf"}
        /\ \A s \in Sessions : mem.held[s] = {}
        /\ mem.held["pkey"] = {}
    <2>1. pc \notin {"next", "add", "write"}
      BY <1>1
    <2> QED
      BY <1>0, <1>1, <2>1, Within DEF Place
  <1>3. Head(todo) = "certificate" /\ "certificate" \in Texts(todo) /\ "certificate" \notin loaded
    <2>1. /\ Head(todo) = "certificate" /\ todo # <<>> /\ todo \in Plans(config)
          /\ loaded \cap Texts(todo) = {}
      BY <1>0, <1>1, <1>2 DEF Order
    <2> QED
      BY <2>1, PlanStep
  \* A given key is loaded after the certificate.
  <1>4. "key" \in mem.held["ctx"] => config.auto_generate_certificate
    BY <1>2, <1>3 DEF Order, Fits, Generates
  <1>5. m = t
    BY <1>4 DEF Mismatch
  <1>6. /\ Sound(t, loaded) /\ t.held["ctx"] = mem.held["ctx"] \cup {"leaf"}
        /\ \A h \in Holders \ {"ctx"} : t.held[h] = mem.held[h]
    <2>1. /\ {"leaf"} \in SUBSET Objects /\ {"leaf"} \subseteq Parts
          /\ {"leaf"} \cap mem.held["ctx"] = {}
      BY <1>1, <1>2, <1>3 DEF Objects, Parts, Fits
    <2> QED
      BY <1>0, <1>2, <2>1, TakeSound
  <1> HIDE DEF t
  <1>7. Right(config, "next", todo, t, loaded)
    <2>1. Order(config, "next", todo, loaded)
      BY <1>0, <1>1, <1>2, <1>3 DEF Order
    <2>2. Place("next", t)
      BY <1>0, <1>2, <1>6 DEF Place, ChainCerts
    <2>3. Fits(config, "next", t, loaded)
      BY <1>0, <1>1, <1>2, <1>4, <1>6 DEF Fits
    <2> QED
      BY <1>6, <2>1, <2>2, <2>3 DEF Right
  <1>8. CASE Goes("next", m)
    BY <1>5, <1>7, <1>8, GoesRight
  <1>9. CASE Throws(m)
    <2>1. \A s \in Sessions : t.held[s] = {}
      BY <1>0, <1>2, <1>6
    <2> QED
      BY <1>5, <1>6, <1>9, <2>1, ThrowsRight
  <1> QED
    BY <1>1, <1>2, <1>8, <1>9, ThrowsRight

LEMMA NextInChainRight ==
  ASSUME IInv, NextInChain
  PROVE  IInv'
  <1> DEFINE S == mem.held["local"] \cap ChainCerts
             d == Drop(mem, "local", S)
             c == IF Cardinality(mem.held["ctx"] \cap ChainCerts) = 0 THEN "chain1" ELSE "chain2"
             C == {c}
             t == Take(d, "local", C)
             n == IF Tail(todo) = <<>> THEN Loaded ELSE "read"
  <1>0. /\ {"local", "owner", "ctx", "pkey"} \cup Sessions = Holders
        /\ Sessions \cap {"local", "owner", "ctx", "pkey"} = {}
        /\ "next" \notin Early \cup {"ready"} /\ "next" \in Loading
        /\ "add" \in Points /\ "add" \notin Early \cup Making /\ "add" \in Loading
        /\ LocalAt("next") = {"bio", "leaf"} /\ LocalAt("add") = {"bio", "leaf"}
    BY SessionAssumption DEF Holders, Points, Early, Making, Loading, LocalAt
  <1>1. pc = "next" /\ (Returns(d) \/ Goes("add", t))
    BY DEF NextInChain
  <1>2. /\ Order(config, pc, todo, loaded) /\ Sound(mem, loaded) /\ Place(pc, mem)
        /\ Fits(config, pc, mem, loaded)
        /\ mem.held["owner"] = {"ctx"}
        /\ \A s \in Sessions : mem.held[s] = {}
        /\ mem.held["pkey"] = {}
    BY <1>0, <1>1, Within DEF Place
  <1>3. mem.held["local"] \ ChainCerts = {"bio", "leaf"}
    BY <1>0, <1>1, <1>2 DEF Place
  <1>4. Head(todo) = "certificate" /\ todo # <<>>
    BY <1>0, <1>1, <1>2 DEF Order
  <1>5. /\ Sound(d, loaded) /\ d.held["local"] = {"bio", "leaf"}
        /\ \A h \in Holders \ {"local"} : d.held[h] = mem.held[h]
    <2>1. S \in SUBSET mem.held["local"] /\ {"ctx", "pkey"} \cap S = {}
      BY DEF ChainCerts
    <2>2. mem.held["local"] \ S = {"bio", "leaf"}
      BY <1>3
    <2> HIDE DEF S
    <2>3. /\ Sound(d, loaded) /\ d.held["local"] = mem.held["local"] \ S
          /\ \A h \in Holders \ {"local"} : d.held[h] = mem.held[h]
      BY <1>0, <1>2, <2>1, ReleaseSound
    <2> QED
      BY <2>2, <2>3
  <1> HIDE DEF d
  <1>6. CASE Returns(d)
    <2>1. Sound(d, loaded \cup {Head(todo)})
      BY <1>4, <1>5, LoadedSound
    <2>2. /\ \A s \in Sessions : d.held[s] = {}
          /\ d.held["owner"] = {"ctx"} /\ d.held["pkey"] = {} /\ d.held["ctx"] = mem.held["ctx"]
      BY <1>0, <1>2, <1>5
    <2>3. /\ "ca" \in d.held["ctx"] <=> "ca" \in loaded
          /\ "key" \in d.held["ctx"] <=> "key" \in loaded
          /\ "leaf" \in d.held["ctx"]
          /\ {"leaf", "key"} \subseteq d.held["ctx"]
               => config.auto_generate_certificate \/ config.certified # "other"
      BY <1>1, <1>2, <2>2 DEF Fits
    <2>4. n \in IF Tail(todo) = <<>> THEN {"ready", "listen"} ELSE {"read"}
      BY DEF Loaded
    <2> HIDE DEF n
    <2>5. Right(config, n, Tail(todo), DropAll(d, "local"), loaded \cup {Head(todo)})
      BY <1>0, <1>1, <1>2, <1>4, <2>1, <2>2, <2>3, <2>4, ReturnsRight
    <2> QED
      BY <1>6, <2>5 DEF Returns, IInv, n
  <1>7. CASE Goes("add", t)
    <2>1. C \in SUBSET ChainCerts /\ ChainCerts \subseteq Objects
      BY DEF ChainCerts, Objects
    <2> HIDE DEF C
    <2>2. /\ Sound(t, loaded) /\ t.held["local"] = d.held["local"] \cup C
          /\ \A h \in Holders \ {"local"} : t.held[h] = d.held[h]
      <3>1. /\ C \in SUBSET Objects /\ {"ctx", "listening_socket"} \cap C = {}
            /\ C \cap d.held["local"] \subseteq ChainCerts
        BY <2>1 DEF ChainCerts
      <3> QED
        BY <1>0, <1>5, <3>1, TakeSound
    <2> HIDE DEF t
    <2>3. Order(config, "add", todo, loaded)
      BY <1>0, <1>1, <1>2, <1>4 DEF Order
    <2>4. Place("add", t)
      <3>1. t.held["local"] \ ChainCerts = {"bio", "leaf"}
        BY <1>5, <2>1, <2>2 DEF ChainCerts
      <3> QED
        BY <1>0, <1>2, <1>5, <2>2, <3>1 DEF Place
    <2>5. Fits(config, "add", t, loaded)
      BY <1>0, <1>1, <1>2, <1>5, <2>2 DEF Fits
    <2>6. Right(config, "add", todo, t, loaded)
      BY <2>2, <2>3, <2>4, <2>5 DEF Right
    <2> QED
      BY <1>7, <2>6, GoesRight
  <1> QED
    BY <1>1, <1>6, <1>7

LEMMA AddChainRight ==
  ASSUME IInv, AddChain
  PROVE  IInv'
  <1> DEFINE S == mem.held["local"] \cap ChainCerts
             a == Adopt(mem, "ctx", S)
  <1>0. /\ {"local", "owner", "ctx", "pkey"} \cup Sessions = Holders
        /\ Sessions \cap {"local", "owner", "ctx", "pkey"} = {}
        /\ "add" \notin Early \cup {"ready"} /\ "add" \in Loading
        /\ "next" \in Points /\ "next" \notin Early \cup Making /\ "next" \in Loading
        /\ LocalAt("next") = LocalAt("add")
    BY SessionAssumption DEF Holders, Points, Early, Making, Loading, LocalAt
  <1>1. pc = "add" /\ (Throws(mem) \/ Goes("next", a))
    BY DEF AddChain
  <1>2. /\ Order(config, pc, todo, loaded) /\ Sound(mem, loaded) /\ Place(pc, mem)
        /\ Fits(config, pc, mem, loaded)
        /\ mem.held["owner"] = {"ctx"} /\ mem \in Memories
        /\ \A s \in Sessions : mem.held[s] = {}
    BY <1>0, <1>1, Within
  <1>3. /\ a \in Memories /\ Counted(a, loaded)
        /\ a.held = [mem.held EXCEPT !["ctx"] = mem.held["ctx"] \cup S]
    BY <1>2, AdoptChain DEF Sound
  <1> HIDE DEF a
  <1>4. /\ a.held["ctx"] = mem.held["ctx"] \cup S
        /\ \A h \in Holders \ {"ctx"} : a.held[h] = mem.held[h]
    BY <1>0, <1>2, <1>3 DEF Memories
  <1>5. S \cap {"ca", "key", "leaf", "ctx"} = {} /\ S \subseteq Parts
    BY DEF ChainCerts, Parts
  <1> HIDE DEF S
  <1>6. Sound(a, loaded)
    <2>1. Kinds(a)
      BY <1>0, <1>2, <1>4, <1>5 DEF Sound, Kinds
    <2>2. Alive(a)
      BY <1>0, <1>2, <1>4 DEF Sound, Alive
    <2> QED
      BY <1>3, <2>1, <2>2 DEF Sound
  <1>7. Right(config, "next", todo, a, loaded)
    <2>1. Order(config, "next", todo, loaded)
      BY <1>0, <1>1, <1>2 DEF Order
    <2>2. Place("next", a)
      BY <1>0, <1>1, <1>2, <1>4 DEF Place
    <2>3. Fits(config, "next", a, loaded)
      BY <1>0, <1>1, <1>2, <1>4, <1>5 DEF Fits
    <2> QED
      BY <1>6, <2>1, <2>2, <2>3 DEF Right
  <1> QED
    BY <1>1, <1>2, <1>7, ThrowsRight, GoesRight

LEMMA UseKeyRight ==
  ASSUME IInv, UseKey
  PROVE  IInv'
  <1> DEFINE r == Drop(mem, "ctx", {"leaf"})
             t == Take(mem, "ctx", {"key"})
             f == Forget(t, "local", {"key"})
             n == IF Tail(todo) = <<>> THEN Loaded ELSE "read"
  <1>0. /\ {"local", "owner", "ctx", "pkey"} \cup Sessions = Holders
        /\ Sessions \cap {"local", "owner", "ctx", "pkey"} = {}
        /\ "key" \notin Early \cup {"ready"} /\ "key" \in Loading
        /\ LocalAt("key") = {"bio", "key"}
    BY SessionAssumption DEF Holders, Early, Loading, LocalAt
  <1>1. pc = "key" /\ IF Mismatch("leaf") THEN Throws(r) ELSE Throws(mem) \/ Returns(f)
    BY DEF UseKey
  <1>2. /\ Order(config, pc, todo, loaded) /\ Sound(mem, loaded) /\ Place(pc, mem)
        /\ Fits(config, pc, mem, loaded)
        /\ mem.held["owner"] = {"ctx"} /\ mem.held["local"] = {"bio", "key"}
        /\ \A s \in Sessions : mem.held[s] = {}
        /\ mem.held["pkey"] = {}
    <2>1. pc \notin {"next", "add", "write"}
      BY <1>1
    <2> QED
      BY <1>0, <1>1, <2>1, Within DEF Place
  <1>3. Head(todo) = "key" /\ todo # <<>> /\ "key" \notin loaded
    <2>1. Head(todo) = "key" /\ todo # <<>> /\ todo \in Plans(config) /\ loaded \cap Texts(todo) = {}
      BY <1>0, <1>1, <1>2 DEF Order
    <2> QED
      BY <2>1, PlanStep
  <1>4. CASE Mismatch("leaf")
    <2>1. {"leaf"} \in SUBSET mem.held["ctx"] /\ {"ctx", "pkey"} \cap {"leaf"} = {}
      BY <1>4 DEF Mismatch
    <2>2. Sound(r, loaded) /\ \A h \in Holders \ {"ctx"} : r.held[h] = mem.held[h]
      BY <1>0, <1>2, <2>1, ReleaseSound
    <2> HIDE DEF r
    <2>3. \A s \in Sessions : r.held[s] = {}
      BY <1>0, <1>2, <2>2
    <2> QED
      BY <1>1, <1>4, <2>2, <2>3, ThrowsRight
  <1>5. CASE ~Mismatch("leaf") /\ Returns(f)
    <2>1. /\ Sound(t, loaded) /\ t.held["ctx"] = mem.held["ctx"] \cup {"key"}
          /\ \A h \in Holders \ {"ctx"} : t.held[h] = mem.held[h]
      <3>1. /\ {"key"} \in SUBSET Objects /\ {"key"} \subseteq Parts
            /\ {"key"} \cap mem.held["ctx"] = {}
        BY <1>2, <1>3 DEF Objects, Parts, Fits
      <3> QED
        BY <1>0, <1>2, <3>1, TakeSound
    <2> HIDE DEF t
    <2>2. /\ f \in Memories /\ Counted(f, loaded \cup {"key"})
          /\ f.held = [t.held EXCEPT !["local"] = t.held["local"] \ {"key"}]
      <3>1. t \in Memories /\ Counted(t, loaded) /\ "local" \in Holders /\ "key" \in t.held["local"]
        BY <1>0, <1>2, <2>1 DEF Sound
      <3> QED
        BY <1>3, <3>1, ForgetLeaks
    <2> HIDE DEF f
    <2>3. /\ f.held["local"] = {"bio"} /\ f.held["ctx"] = mem.held["ctx"] \cup {"key"}
          /\ \A h \in Holders \ {"local", "ctx"} : f.held[h] = mem.held[h]
      BY <1>0, <1>2, <2>1, <2>2 DEF Sound, Memories
    <2>4. Sound(f, loaded \cup {Head(todo)})
      <3>1. Kinds(f)
        BY <1>0, <1>2, <2>3 DEF Sound, Kinds, Parts
      <3>2. Alive(f)
        BY <1>0, <1>2, <2>3 DEF Alive
      <3> QED
        BY <1>3, <2>2, <3>1, <3>2 DEF Sound
    <2>5. /\ \A s \in Sessions : f.held[s] = {}
          /\ f.held["owner"] = {"ctx"} /\ f.held["pkey"] = {}
      BY <1>0, <1>2, <2>3
    <2>6. /\ "ca" \in f.held["ctx"] <=> "ca" \in loaded
          /\ "key" \in f.held["ctx"]
          /\ "leaf" \in f.held["ctx"] <=> "certificate" \in loaded
          /\ {"leaf", "key"} \subseteq f.held["ctx"]
               => config.auto_generate_certificate \/ config.certified # "other"
      BY <1>1, <1>2, <1>5, <2>3 DEF Fits, Mismatch
    <2>7. n \in IF Tail(todo) = <<>> THEN {"ready", "listen"} ELSE {"read"}
      BY DEF Loaded
    <2> HIDE DEF n
    <2>8. Right(config, n, Tail(todo), DropAll(f, "local"), loaded \cup {Head(todo)})
      BY <1>0, <1>1, <1>2, <1>3, <2>4, <2>5, <2>6, <2>7, ReturnsRight
    <2> QED
      BY <1>5, <2>8 DEF Returns, IInv, n
  <1> QED
    BY <1>1, <1>2, <1>4, <1>5, ThrowsRight

LEMMA ListenRight ==
  ASSUME IInv, Listen
  PROVE  IInv'
  <1> DEFINE t == Take(mem, "owner", {"listening_socket"})
  <1>0. /\ {"local", "owner", "ctx", "pkey"} \cup Sessions = Holders
        /\ Sessions \cap {"local", "owner", "ctx", "pkey"} = {}
        /\ "listen" \notin Early \cup {"ready"}
        /\ "ready" \in Points /\ "ready" \notin Early \cup Making \cup Loading
        /\ LocalAt("listen") = {} /\ LocalAt("ready") = {}
    BY SessionAssumption DEF Holders, Points, Early, Making, Loading, LocalAt
  <1>1. pc = "listen" /\ (Throws(mem) \/ Throws(t) \/ Goes("ready", t))
    BY DEF Listen
  <1>2. /\ Order(config, pc, todo, loaded) /\ Sound(mem, loaded) /\ Place(pc, mem)
        /\ Fits(config, pc, mem, loaded)
        /\ mem.held["owner"] = {"ctx"} /\ mem.held["local"] = {}
        /\ \A s \in Sessions : mem.held[s] = {}
        /\ mem.held["pkey"] = {}
    <2>1. pc \notin {"next", "add", "write"}
      BY <1>1
    <2> QED
      BY <1>0, <1>1, <2>1, Within DEF Place
  <1>3. /\ Sound(t, loaded) /\ t.held["owner"] = {"ctx", "listening_socket"}
        /\ \A h \in Holders \ {"owner"} : t.held[h] = mem.held[h]
    <2>1. /\ {"listening_socket"} \in SUBSET Objects
          /\ {"listening_socket"} \cap mem.held["owner"] = {}
      BY <1>2 DEF Objects
    <2>2. /\ Sound(t, loaded) /\ t.held["owner"] = mem.held["owner"] \cup {"listening_socket"}
          /\ \A h \in Holders \ {"owner"} : t.held[h] = mem.held[h]
      BY <1>0, <1>2, <2>1, TakeSound
    <2> QED
      BY <1>2, <2>2
  <1> HIDE DEF t
  <1>4. \A s \in Sessions : t.held[s] = {}
    BY <1>0, <1>2, <1>3
  <1>5. Right(config, "ready", todo, t, loaded)
    <2>1. Order(config, "ready", todo, loaded)
      BY <1>0, <1>1, <1>2 DEF Order
    <2>2. Place("ready", t)
      BY <1>0, <1>2, <1>3 DEF Place
    <2>3. Fits(config, "ready", t, loaded)
      BY <1>0, <1>1, <1>2, <1>3 DEF Fits
    <2> QED
      BY <1>3, <2>1, <2>2, <2>3 DEF Right
  <1> QED
    BY <1>1, <1>2, <1>3, <1>4, <1>5, ThrowsRight, GoesRight

LEMMA NewSessionRight ==
  ASSUME IInv, NEW s \in Sessions, NewSession(s)
  PROVE  IInv'
  <1> DEFINE S == {"ctx"} \cup (mem.held["ctx"] \ {"ca"})
             t == Take(mem, s, S)
  <1>0. /\ {"local", "owner", "ctx", "pkey"} \cup Sessions = Holders
        /\ s \in Holders \ {"local", "owner", "ctx", "pkey"}
    BY SessionAssumption DEF Holders
  <1>1. pc = "ready" /\ mem.held[s] = {} /\ Goes(pc, t)
    BY DEF NewSession
  <1>2. /\ Order(config, pc, todo, loaded) /\ Sound(mem, loaded) /\ Place(pc, mem)
        /\ Fits(config, pc, mem, loaded)
    BY DEF IInv, Right
  <1>3. /\ S \in SUBSET Objects /\ S \subseteq {"ctx"} \cup Parts
        /\ S \cap mem.held[s] \subseteq ChainCerts
    BY <1>1, <1>2 DEF Sound, Kinds, Parts, ChainCerts, Objects
  <1> HIDE DEF S
  <1>4. /\ Sound(t, loaded)
        /\ \A h \in Holders \ {s} : t.held[h] = mem.held[h]
    BY <1>0, <1>2, <1>3, TakeSound
  <1> HIDE DEF t
  <1>5. /\ t.held["local"] = mem.held["local"] /\ t.held["owner"] = mem.held["owner"]
        /\ t.held["ctx"] = mem.held["ctx"] /\ t.held["pkey"] = mem.held["pkey"]
    BY <1>0, <1>4
  <1>6. Right(config, pc, todo, t, loaded)
    BY <1>1, <1>2, <1>4, <1>5 DEF Right, Place, Fits
  <1> QED
    BY <1>1, <1>6, GoesRight

LEMMA EndSessionRight ==
  ASSUME IInv, NEW s \in Sessions, EndSession(s)
  PROVE  IInv'
  <1> DEFINE d == DropAll(mem, s)
  <1>0. /\ {"local", "owner", "ctx", "pkey"} \cup Sessions = Holders
        /\ s \in Holders \ {"local", "owner", "ctx", "pkey"}
    BY SessionAssumption DEF Holders
  <1>1. mem.held[s] # {} /\ Goes(pc, d)
    BY DEF EndSession
  <1>2. /\ Order(config, pc, todo, loaded) /\ Sound(mem, loaded) /\ Place(pc, mem)
        /\ Fits(config, pc, mem, loaded)
    BY DEF IInv, Right
  <1>3. pc \in {"ready", "gone"}
    BY <1>1, <1>2 DEF Place
  <1>4. /\ Sound(d, loaded)
        /\ d.held["local"] = mem.held["local"] /\ d.held["owner"] = mem.held["owner"]
        /\ d.held["pkey"] = mem.held["pkey"]
        /\ d.held["ctx"] = IF \E h \in Holders : "ctx" \in d.held[h]
                           THEN mem.held["ctx"] ELSE {}
    <2>1. Sound(mem, loaded) /\ s \in {"local", "owner"} \cup Sessions
      BY <1>2
    <2>2. Sound(d, loaded)
      BY <2>1, DropAllSound
    <2>3. d.held["local"] = mem.held["local"] /\ d.held["owner"] = mem.held["owner"]
      BY <1>0, DropAllOthers
    <2>4. d.held["pkey"] = IF s = "local" THEN {} ELSE mem.held["pkey"]
      BY <2>1, DropAllSound
    <2>5. d.held["ctx"] = IF \E h \in Holders : "ctx" \in d.held[h]
                          THEN mem.held["ctx"] ELSE {}
      BY <2>1, DropAllSound
    <2> QED
      BY <1>0, <2>2, <2>3, <2>4, <2>5
  <1> HIDE DEF d
  <1>5. "ctx" \in mem.held["owner"] => d.held["ctx"] = mem.held["ctx"]
    BY <1>0, <1>4
  <1>6. Right(config, pc, todo, d, loaded)
    BY <1>2, <1>3, <1>4, <1>5 DEF Right, Place, Fits
  <1> QED
    BY <1>1, <1>6, GoesRight

LEMMA DestroyRight ==
  ASSUME IInv, Destroy
  PROVE  IInv'
  <1> DEFINE d == DropAll(mem, "owner")
  <1>0. /\ {"local", "owner", "ctx", "pkey"} \cup Sessions = Holders
        /\ Sessions \cap {"local", "owner", "ctx", "pkey"} = {}
        /\ "gone" \in Points /\ "gone" \in Early /\ "gone" \notin Making \cup Loading
        /\ LocalAt("ready") = {} /\ LocalAt("gone") = {}
    BY SessionAssumption DEF Holders, Points, Early, Making, Loading, LocalAt
  <1>1. pc = "ready" /\ Goes("gone", d)
    BY DEF Destroy
  <1>2. /\ Order(config, pc, todo, loaded) /\ Sound(mem, loaded) /\ Place(pc, mem)
    BY DEF IInv, Right
  <1>3. /\ Sound(d, loaded) /\ d.held["owner"] = {}
        /\ \A h \in Holders \ {"owner", "ctx", "pkey"} : d.held[h] = mem.held[h]
        /\ d.held["pkey"] = mem.held["pkey"]
    BY <1>2, DropAllSound
  <1> HIDE DEF d
  <1>4. d.held["local"] = mem.held["local"]
    BY <1>0, <1>3
  <1>5. Order(config, "gone", todo, loaded)
    BY <1>0, <1>1, <1>2 DEF Order
  <1>6. Place("gone", d) /\ Fits(config, "gone", d, loaded)
    BY <1>0, <1>1, <1>2, <1>3, <1>4 DEF Place, Fits
  <1> QED
    BY <1>1, <1>3, <1>5, <1>6, GoesRight DEF Right

LEMMA ContextStep ==
  ASSUME IInv, ContextNext
  PROVE  IInv'
  BY CreateContextRight, GenerateKeyRight, AssignKeyRight, WritePemRight, ReadTextRight,
     UseCaRight, UseCertificateRight, NextInChainRight, AddChainRight, UseKeyRight,
     ListenRight, NewSessionRight, EndSessionRight, DestroyRight DEF ContextNext, Construct

LEMMA ContextStutters ==
  ASSUME IInv, UNCHANGED contextVars
  PROVE  IInv'
  BY DEF contextVars, IInv

-----------------------------------------------------------------------------
(* Theorems *)

\* IInv holds in all states, by induction over the steps above.
LEMMA ContextInvariant == ContextSpec => []IInv
  <1>1. IInv /\ [ContextNext]_contextVars => IInv'
    BY ContextStep, ContextStutters
  <1> QED
    BY InitRight, <1>1, PTL DEF ContextSpec

LEMMA RightTypes == IInv => ContextTypeOK
  <1> SUFFICES ASSUME IInv PROVE ContextTypeOK
    OBVIOUS
  <1>1. Order(config, pc, todo, loaded) /\ mem \in Memories
    BY DEF IInv, Right, Sound
  <1>2. todo \in Seq(TextKinds)
    <2>1. todo = <<>> \/ todo # <<>>
      OBVIOUS
    <2> QED
      BY <1>1, <2>1, PlanStep, EmptyPlan DEF Order
  <1> QED
    BY <1>1, <1>2 DEF ContextTypeOK, Order, Memories, TextKinds

LEMMA RightCounts == IInv => CountedOnce
  <1> SUFFICES ASSUME IInv PROVE CountedOnce
    OBVIOUS
  <1>1. Sound(mem, loaded) /\ Place(pc, mem)
    BY DEF IInv, Right
  <1>2. ASSUME NEW o \in Objects \ ChainCerts
        PROVE  mem.refs[o] = Cardinality(HoldersOf(o))
                               + (IF o = "key" /\ "key" \in loaded THEN 1 ELSE 0)
    BY <1>1 DEF Sound, Counted, In, HoldersOf, Leak
  <1>3. ASSUME Ended
        PROVE  \A h \in Holders : mem.held[h] = {}
    <2>1. /\ pc \in Early /\ pc \notin {"next", "add", "ready", "write"} /\ LocalAt(pc) = {}
          /\ \A s \in Sessions : mem.held[s] = {}
      BY <1>3 DEF Ended, Early, LocalAt
    <2>2. mem.held["local"] = {} /\ mem.held["owner"] = {} /\ mem.held["pkey"] = {}
      BY <1>1, <2>1 DEF Place, Sound, Kinds
    <2>3. mem.held["ctx"] = {}
      <3>1. "ctx" \notin mem.held["ctx"]
        BY <1>1 DEF Sound, Kinds, Parts, ChainCerts
      <3> QED
        BY <1>1, <2>1, <2>2, <3>1 DEF Sound, Alive, Holders
    <2> QED
      BY <2>1, <2>2, <2>3 DEF Holders
  <1> QED
    BY <1>2, <1>3 DEF CountedOnce

LEMMA RightHasItsPair == IInv => ReadyHasItsPair
  <1> SUFFICES ASSUME IInv, pc = "ready", config.side = "server",
                      config.auto_generate_certificate \/ {"certificate", "key"} \subseteq config.given
               PROVE  /\ {"leaf", "key"} \subseteq mem.held["ctx"]
                      /\ config.auto_generate_certificate \/ config.certified # "other"
    BY DEF ReadyHasItsPair
  <1>1. Order(config, pc, todo, loaded) /\ Place(pc, mem) /\ Fits(config, pc, mem, loaded)
    BY DEF IInv, Right
  <1>2. loaded = Texts(Loads(config)) /\ config \in Configs
    BY <1>1, EmptyPlan DEF Order
  <1>3. {"certificate", "key"} \subseteq loaded
    <2>1. CASE Generates(config)
      <3>1. Texts(Loads(config)) = {"key", "certificate"}
        BY <1>2, <2>1, LoadsPlanned, TwoTexts DEF TextKinds
      <3> QED
        BY <1>2, <3>1
    <2>2. CASE ~Generates(config)
      BY <1>2, <2>2, LoadsPlanned DEF Generates
    <2> QED
      BY <2>1, <2>2
  <1>4. "ctx" \in mem.held["owner"]
    BY <1>1 DEF Place, Early
  <1> QED
    BY <1>1, <1>3, <1>4 DEF Fits

\* Every variable keeps its type: memories count in integers and hold objects,
\* texts come from the configuration.
THEOREM ContextTypes == ContextSpec => []ContextTypeOK
  BY ContextInvariant, RightTypes, PTL

\* Whatever throws in a constructor and whoever lets go first, its owner or one
\* of any number of sessions, each object has exactly one reference for each of
\* its holders, but for the RSA key of set_tls_private_key, and in the end
\* nothing is held.
THEOREM EveryReferenceCounted == ContextSpec => []CountedOnce
  BY ContextInvariant, RightCounts, PTL

\* A server that is constructed from a certificate and a key, given or made, has
\* both in its context, and the certificate is not for another RSA key.
THEOREM ConstructedHasItsPair == ContextSpec => []ReadyHasItsPair
  BY ContextInvariant, RightHasItsPair, PTL
=============================================================================
