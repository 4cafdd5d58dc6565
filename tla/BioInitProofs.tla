--------------------------- MODULE BioInitProofs ---------------------------
(* What is proved of BioInit for any finite set of threads. *)
EXTENDS BioInit, FiniteSetTheorems, TLAPS

TypeInv ==
  /\ bio_initialized \in BOOLEAN
  /\ made \in Seq(SUBSET Fields)
  /\ comm_bio_method = Len(made)
  /\ pc \in [Thread -> {"idle", "new", "load", "store", "flag", "return"}]
  /\ k \in [Thread -> 1..9]
  /\ arg \in [Thread -> 0..Len(made)]
  /\ calls \in [Thread -> 0..MaxCalls]
  /\ \A t \in Thread : /\ pc[t] \in {"load", "store"} => k[t] < 9
                       /\ pc[t] = "flag" => k[t] = 9
                       /\ pc[t] = "store" => arg[t] # 0

\* A thread that has made a BIO_METHOD; k is 1 until then and while it loads the
\* argument for the first field.
Maker(t) == pc[t] \in {"load", "store"} \/ k[t] > 1

\* One BIO_METHOD for each maker.  A maker that is through has set the flag, so
\* that it never makes another one.
OncePerMaker ==
  /\ Len(made) <= Cardinality({t \in Thread : Maker(t)})
  /\ \A t \in Thread : Maker(t) => pc[t] # "new"
  /\ \A t \in Thread : Maker(t) /\ ~Initialising(t) => bio_initialized
  /\ (\E t \in Thread : Maker(t)) => comm_bio_method # 0
  /\ bio_initialized => \E t \in Thread : Maker(t)

\* The thread whose method is in the global fills in that one and no other: what
\* it loads does not change until somebody replaces it.
FilledBy(t) ==
  /\ Maker(t)
  /\ ~Initialising(t) => k[t] = 9
  /\ pc[t] = "store" => arg[t] = comm_bio_method
  /\ \A j \in 1..8 : j < k[t] => Field[j] \in made[comm_bio_method]

LastIsFilled == comm_bio_method # 0 => \E t \in Thread : FilledBy(t)

IInv == TypeInv /\ OncePerMaker /\ LastIsFilled
-----------------------------------------------------------------------------
LEMMA FieldCount == Len(Field) = 8 /\ \A j \in 1..8 : Field[j] \in Fields
  BY DEF Field, Fields

LEMMA FieldsAll == Fields = {Field[j] : j \in 1..8}
  BY FieldCount DEF Fields

LEMMA BioInitially == Init => IInv
  <1> SUFFICES ASSUME Init PROVE IInv
    OBVIOUS
  <1>1. TypeInv
    <2>1. Len(made) = 0 /\ made \in Seq(SUBSET Fields) /\ MaxCalls \in Nat
      BY BioAssumption DEF Init
    <2>2. arg \in [Thread -> 0..Len(made)] /\ calls \in [Thread -> 0..MaxCalls]
      BY <2>1 DEF Init
    <2>3. /\ pc \in [Thread -> {"idle", "new", "load", "store", "flag", "return"}]
          /\ k \in [Thread -> 1..9]
          /\ \A t \in Thread : pc[t] = "idle"
      BY DEF Init
    <2>4. bio_initialized \in BOOLEAN /\ comm_bio_method = Len(made)
      BY <2>1 DEF Init
    <2> QED
      BY <2>1, <2>2, <2>3, <2>4 DEF TypeInv
  <1>2. \A t \in Thread : ~Maker(t)
    BY DEF Init, Maker
  <1>3. {t \in Thread : Maker(t)} = {}
    BY <1>2
  <1>4. Len(made) = 0 /\ Cardinality({t \in Thread : Maker(t)}) = 0
    BY <1>3, FS_EmptySet DEF Init
  <1> QED
    BY <1>1, <1>2, <1>4 DEF Init, IInv, OncePerMaker, LastIsFilled

\* The makers are finitely many, and as many as there are threads at most.
LEMMA MakerCount ==
  /\ IsFiniteSet({t \in Thread : Maker(t)})
  /\ Cardinality({t \in Thread : Maker(t)}) \in Nat
  /\ Cardinality({t \in Thread : Maker(t)}) <= Cardinality(Thread)
  /\ Cardinality(Thread) \in Nat
  <1>1. {t \in Thread : Maker(t)} \in SUBSET Thread /\ IsFiniteSet(Thread)
    BY BioAssumption
  <1> QED
    BY <1>1, FS_Subset, FS_CardinalityType

LEMMA TypePreserved ==
  ASSUME IInv, [Next]_vars
  PROVE  TypeInv'
  <1> USE DEF IInv, TypeInv, Goto
  <1>1. ASSUME NEW t \in Thread, Call(t) PROVE TypeInv'
    BY <1>1, BioAssumption DEF Call
  <1>2. ASSUME NEW t \in Thread, New(t) PROVE TypeInv'
    <2>1. made' \in Seq(SUBSET Fields) /\ Len(made') = Len(made) + 1
      BY <1>2 DEF New
    <2> QED
      BY <1>2, <2>1 DEF New
  <1>3. ASSUME NEW t \in Thread, Load(t) PROVE TypeInv'
    <2>1. comm_bio_method # 0
      BY <1>3 DEF Load, Maker, OncePerMaker
    <2> QED
      BY <1>3, <2>1 DEF Load
  <1>4. ASSUME NEW t \in Thread, Store(t) PROVE TypeInv'
    <2>1. arg[t] \in 1..Len(made) /\ k[t] \in 1..8
      BY <1>4 DEF Store
    <2>2. made' \in Seq(SUBSET Fields) /\ Len(made') = Len(made)
      BY <1>4, <2>1, FieldCount DEF Store
    <2> QED
      BY <1>4, <2>1, <2>2, FieldCount DEF Store
  <1>5. ASSUME NEW t \in Thread, SetFlag(t) PROVE TypeInv'
    BY <1>5 DEF SetFlag
  <1>6. ASSUME NEW t \in Thread, Return(t) PROVE TypeInv'
    BY <1>6 DEF Return
  <1>7. CASE UNCHANGED vars
    BY <1>7 DEF vars
  <1> QED
    BY <1>1, <1>2, <1>3, <1>4, <1>5, <1>6, <1>7 DEF Next, Step

\* Only New makes a method, for a thread that was no maker before; nobody stops
\* to be one.
LEMMA OncePreserved ==
  ASSUME IInv, [Next]_vars, TypeInv'
  PROVE  OncePerMaker'
  <1> DEFINE Makers == {t \in Thread : Maker(t)}
  <1> USE DEF IInv, TypeInv, Goto, Maker, Initialising
  <1>1. ASSUME NEW t \in Thread, New(t) PROVE OncePerMaker'
    <2>1. t \notin Makers /\ Makers' = Makers \cup {t}
      BY <1>1 DEF New, OncePerMaker
    <2>2. Cardinality(Makers') = Cardinality(Makers) + 1
      <3>1. IsFiniteSet(Makers)
        BY MakerCount
      <3> HIDE DEF Makers
      <3> QED
        BY <2>1, <3>1, FS_AddElement
    <2>3. Len(made') = Len(made) + 1 /\ comm_bio_method' # 0
      BY <1>1 DEF New
    <2>4. Len(made') <= Cardinality(Makers')
      BY <2>2, <2>3, MakerCount DEF OncePerMaker
    <2> QED
      BY <1>1, <2>3, <2>4 DEF New, OncePerMaker
  <1>2. ASSUME NEW t \in Thread, Call(t) \/ Load(t) \/ Store(t) \/ SetFlag(t) \/ Return(t)
        PROVE  OncePerMaker'
    <2>1. Makers' = Makers
      BY <1>2 DEF Call, Load, Store, SetFlag, Return, OncePerMaker
    <2>2. Len(made') = Len(made) /\ comm_bio_method' = comm_bio_method
      BY <1>2 DEF Call, Load, Store, SetFlag, Return
    <2>3. \A u \in Thread : Maker(u)' => Maker(u) /\ pc'[u] # "new"
      BY <1>2 DEF Call, Load, Store, SetFlag, Return, OncePerMaker
    <2>4. \A u \in Thread : Maker(u)' /\ ~Initialising(u)' => bio_initialized'
      BY <1>2, <2>3 DEF Call, Load, Store, SetFlag, Return, OncePerMaker
    <2>5. bio_initialized' => \E u \in Makers : TRUE
      <3>1. CASE SetFlag(t)
        BY <3>1 DEF SetFlag
      <3>2. CASE ~SetFlag(t)
        BY <1>2, <3>2 DEF Call, Load, Store, Return, OncePerMaker
      <3> QED
        BY <3>1, <3>2
    <2> QED
      BY <2>1, <2>2, <2>3, <2>4, <2>5 DEF OncePerMaker
  <1>3. CASE UNCHANGED vars
    BY <1>3 DEF vars, OncePerMaker
  <1> QED
    BY <1>1, <1>2, <1>3 DEF Next, Step

\* The thread that fills in the last method goes on doing so until New replaces
\* the method; then it is the thread that did.
LEMMA FilledPreserved ==
  ASSUME IInv, [Next]_vars, TypeInv'
  PROVE  LastIsFilled'
  <1> USE DEF IInv, TypeInv, Goto, Maker, Initialising
  <1>1. ASSUME NEW t \in Thread, New(t) PROVE LastIsFilled'
    <2>1. FilledBy(t)'
      BY <1>1 DEF New, FilledBy
    <2> QED
      BY <2>1 DEF LastIsFilled
  <1>2. ASSUME NEW t \in Thread, Call(t) \/ Load(t) \/ Store(t) \/ SetFlag(t) \/ Return(t),
               comm_bio_method' # 0
        PROVE  LastIsFilled'
    <2>1. comm_bio_method' = comm_bio_method
      BY <1>2 DEF Call, Load, Store, SetFlag, Return
    <2>2. PICK u \in Thread : FilledBy(u)
      BY <1>2, <2>1 DEF LastIsFilled
    <2>3. FilledBy(u)'
      <3>1. CASE Store(t)
        <4>1. /\ arg[t] \in 1..Len(made) /\ k[t] \in 1..8
              /\ comm_bio_method \in 1..Len(made)
          BY <3>1, <1>2, <2>1 DEF Store
        <4>2. \A j \in 1..8 : Field[j] \in made[comm_bio_method]
                               => Field[j] \in made'[comm_bio_method]
          BY <3>1, <4>1 DEF Store
        <4>3. t = u => Field[k[t]] \in made'[comm_bio_method]
          BY <3>1, <4>1, <2>2 DEF Store, FilledBy
        <4> QED
          BY <3>1, <2>1, <2>2, <4>1, <4>2, <4>3, FieldCount DEF Store, FilledBy
      <3>2. CASE Call(t)
        BY <3>2, <2>2 DEF Call, FilledBy, OncePerMaker
      <3>3. CASE Load(t)
        BY <3>3, <2>2 DEF Load, FilledBy
      <3>4. CASE SetFlag(t)
        BY <3>4, <2>2 DEF SetFlag, FilledBy
      <3>5. CASE Return(t)
        BY <3>5, <2>2 DEF Return, FilledBy
      <3> QED
        BY <1>2, <3>1, <3>2, <3>3, <3>4, <3>5
    <2> QED
      BY <2>3 DEF LastIsFilled
  <1>3. CASE UNCHANGED vars
    BY <1>3 DEF vars, LastIsFilled, FilledBy
  <1>4. comm_bio_method' = 0 => LastIsFilled'
    BY DEF LastIsFilled
  <1> QED
    BY <1>1, <1>2, <1>3, <1>4 DEF Next, Step

LEMMA BioInductive == Spec => []IInv
  <1>1. IInv /\ [Next]_vars => IInv'
    BY TypePreserved, OncePreserved, FilledPreserved DEF IInv
  <1> QED
    BY BioInitially, <1>1, PTL DEF Spec

\* However many threads race and however often they come back, no thread makes
\* more than one BIO_METHOD: the first call of a thread that made one has set the
\* flag before the second call reads it.
THEOREM OneMethodPerThread == Spec => []OneMethodEach
  <1>1. IInv => OneMethodEach
    BY MakerCount DEF IInv, TypeInv, OncePerMaker, OneMethodEach
  <1> QED
    BY <1>1, BioInductive, PTL

\* Settled is a promise about the one thread that fills in the last method: it is
\* through, and set all fields on the way.
LEMMA SettledIsComplete == IInv => SettledComplete
  <1> SUFFICES ASSUME IInv, Settled PROVE Complete(comm_bio_method)
    BY DEF SettledComplete
  <1>1. comm_bio_method # 0
    BY DEF IInv, OncePerMaker, Settled
  <1>2. PICK t \in Thread : FilledBy(t)
    BY <1>1 DEF IInv, LastIsFilled
  <1>3. k[t] = 9
    BY <1>2 DEF FilledBy, Settled
  <1>4. \A j \in 1..8 : Field[j] \in made[comm_bio_method]
    BY <1>2, <1>3 DEF FilledBy
  <1>5. Fields \subseteq made[comm_bio_method]
    BY <1>4, FieldsAll
  <1>6. made[comm_bio_method] \subseteq Fields
    BY <1>1 DEF IInv, TypeInv
  <1> QED
    BY <1>1, <1>5, <1>6 DEF Complete

\* Once the flag is set and nobody is in the initialisation, the method in the
\* global has all of its fields, whichever threads filled in whose method before.
THEOREM LastMethodComplete == Spec => []SettledComplete
  BY BioInductive, SettledIsComplete, PTL

\* From then on nobody starts over, replaces the method or touches it.
THEOREM LastMethodStays == Spec => SettledForGood
  <1>1. IInv /\ [Next]_vars => (Settled => Settled' /\ UNCHANGED <<comm_bio_method, made>>)
    <2> SUFFICES ASSUME IInv, [Next]_vars, Settled
                 PROVE  Settled' /\ UNCHANGED <<comm_bio_method, made>>
      OBVIOUS
    <2> USE DEF IInv, TypeInv, Settled, Initialising, Goto
    <2>1. ASSUME NEW t \in Thread, Call(t) PROVE Settled' /\ UNCHANGED <<comm_bio_method, made>>
      BY <2>1 DEF Call
    <2>2. ASSUME NEW t \in Thread, New(t) \/ Load(t) \/ Store(t) \/ SetFlag(t) PROVE FALSE
      BY <2>2 DEF New, Load, Store, SetFlag
    <2>3. ASSUME NEW t \in Thread, Return(t) PROVE Settled' /\ UNCHANGED <<comm_bio_method, made>>
      BY <2>3 DEF Return
    <2>4. CASE UNCHANGED vars
      BY <2>4 DEF vars
    <2> QED
      BY <2>1, <2>2, <2>3, <2>4 DEF Next, Step
  <1> QED
    BY <1>1, BioInductive, PTL DEF Spec, SettledForGood
=============================================================================
