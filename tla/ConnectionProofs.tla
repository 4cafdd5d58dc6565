-------------------------- MODULE ConnectionProofs --------------------------
(* What is proved of Connection for every value of its constants. *)
EXTENDS Connection, TLAPS

\* TypeOK is not inductive by itself: the size a header decodes to has a type
\* because every byte in a stream belongs to a frame that was begun, and a body
\* is made of bytes of the stream because a receiver consumed at least the pos
\* bytes it counted.
Grounded ==
  \A s \in Side :
    /\ \A i \in 1..Len(stream[s]) : stream[s][i].frame \in 1..Len(begun[s])
    /\ pc[s] \in {"send", "recv"} => todo[s] # <<>>
    /\ pc[s] = "send" => begun[s] # <<>>
    /\ pc[s] = "recv" => pos[s] <= taken[s]

TypeInv == TypeOK /\ Grounded

\* The two sides of a connection.
LEMMA PeerType == \A s \in Side : Peer(s) \in Side /\ Peer(Peer(s)) = s /\ Peer(s) # s
  BY DEF Side, Peer

LEMMA TypeInit == Init => TypeInv
  <1> SUFFICES ASSUME Init PROVE TypeInv
    OBVIOUS
  <1> USE ConnectionAssumption
  <1>1. TypeOK
    <2>1. todo \in [Side -> Seq(Op)]
      BY DEF Init
    <2>2. \A s \in Side : taken[s] <= Len(stream[Peer(s)])
      BY PeerType DEF Init
    <2> QED
      BY <2>1, <2>2 DEF Init, TypeOK
  <1>2. Grounded
    BY DEF Init, Grounded
  <1> QED
    BY <1>1, <1>2 DEF TypeInv


\* Sequences: their elements, their first element, and their prefixes.
LEMMA SeqElement ==
  ASSUME NEW S, NEW q \in Seq(S)
  PROVE  /\ Len(q) \in Nat
         /\ \A i \in 1..Len(q) : q[i] \in S
         /\ q # <<>> => Head(q) \in S
  OBVIOUS

LEMMA SeqPrefix ==
  ASSUME NEW S, NEW q \in Seq(S), NEW n \in 0..Len(q)
  PROVE  /\ SubSeq(q, 1, n) \in Seq(S)
         /\ Len(SubSeq(q, 1, n)) = n
         /\ \A i \in 1..n : SubSeq(q, 1, n)[i] = q[i]
  OBVIOUS

\* A function on an initial segment of the numbers is a sequence.
LEMMA SeqOfFunction ==
  ASSUME NEW S, NEW n \in Nat, NEW f \in [1..n -> S]
  PROVE  f \in Seq(S)
  OBVIOUS

\* The types of what one side holds.
LEMMA Elements ==
  ASSUME TypeInv, NEW s \in Side
  PROVE  /\ todo[s] \in Seq(Op)
         /\ size[s] \in 0..SizeMax /\ size[s] \in Nat
         /\ pos[s] \in Nat
         /\ stream[s] \in Seq(Bytes) /\ Len(stream[s]) \in Nat
         /\ taken[s] \in Nat /\ taken[s] <= Len(stream[Peer(s)])
         /\ begun[s] \in Seq(0..SizeMax) /\ Len(begun[s]) \in Nat
         /\ returned[s] \in Seq(Seq(Bytes))
  <1>1. size[s] \in 0..SizeMax /\ size[s] \in Nat
    BY ConnectionAssumption DEF TypeInv, TypeOK
  <1>2. stream[s] \in Seq(Bytes) /\ begun[s] \in Seq(0..SizeMax)
    BY DEF TypeInv, TypeOK
  <1> QED
    BY <1>1, <1>2 DEF TypeInv, TypeOK

\* Every byte of a stream has the type of a byte, and its frame was begun.
LEMMA StreamByte ==
  ASSUME TypeInv, NEW s \in Side, NEW i \in 1..Len(stream[s])
  PROVE  /\ stream[s][i] \in Bytes
         /\ stream[s][i].frame \in 1..Len(begun[s])
         /\ begun[s][stream[s][i].frame] \in 0..SizeMax
  <1>1. /\ stream[s] \in Seq(Bytes)
        /\ begun[s] \in Seq(0..SizeMax)
    BY Elements
  <1>2. stream[s][i] \in Bytes
    BY <1>1, SeqElement
  <1>3. stream[s][i].frame \in 1..Len(begun[s])
    BY DEF TypeInv, Grounded
  <1>4. begun[s][stream[s][i].frame] \in 0..SizeMax
    BY <1>1, <1>3, SeqElement
  <1> QED
    BY <1>2, <1>3, <1>4

\* The fault budget is never exceeded.
LEMMA FaultType ==
  ASSUME TypeInv, \/ UNCHANGED faults
                  \/ faults < MaxFaults /\ faults' = faults + 1
  PROVE  faults' \in 0..MaxFaults
  <1>1. faults \in 0..MaxFaults /\ MaxFaults \in Nat
    BY ConnectionAssumption DEF TypeInv, TypeOK
  <1> QED
    BY <1>1

\* Finishing a call leaves the calls that follow it.
LEMMA DropCall ==
  ASSUME TypeInv, NEW s \in Side, todo[s] # <<>>,
         todo' = [todo EXCEPT ![s] = Tail(@)]
  PROVE  todo' \in [Side -> Seq(Op)]
  <1>1. todo[s] \in Seq(Op)
    BY DEF TypeInv, TypeOK
  <1>2. Tail(todo[s]) \in Seq(Op)
    BY <1>1
  <1> QED
    BY <1>2 DEF TypeInv, TypeOK


\* However a call ends, the control state keeps its type.
LEMMA EndType ==
  ASSUME TypeInv, NEW s \in Side, NEW e, todo[s] # <<>>, Throws(s, e) \/ Returns(s)
  PROVE  /\ todo' \in [Side -> Seq(Op)]
         /\ pc' \in [Side -> {"ready", "send", "recv", "closed"}]
         /\ shut' \in [Side -> BOOLEAN]
         /\ pc'[s] \in {"ready", "closed"}
         /\ \A t \in Side \ {s} : pc'[t] = pc[t] /\ todo'[t] = todo[t]
  <1>1. todo' \in [Side -> Seq(Op)]
    BY DropCall DEF Throws, Returns
  <1> QED
    BY <1>1 DEF TypeInv, TypeOK, Throws, Returns

\* There is a byte to read, and a size is read from four of them.
LEMMA NextByte ==
  ASSUME TypeInv, NEW s \in Side, Read(s)
  PROVE  taken[s] + 1 \in 1..Len(stream[Peer(s)])
  <1>1. 0 < Len(stream[Peer(s)]) - taken[s]
    BY DEF Read, Avail
  <1>2. taken[s] \in Nat /\ Len(stream[Peer(s)]) \in Nat
    BY PeerType, Elements
  <1> QED
    BY <1>1, <1>2

LEMMA DecodedType ==
  ASSUME TypeInv, NEW s \in Side, Read(s)
  PROVE  Decoded(Peer(s), taken[s] + 1) \subseteq 0..SizeMax
  BY NextByte, PeerType, StreamByte DEF Decoded

LEMMA TypeStep == TypeInv /\ [Next]_vars => TypeInv'
  <1> SUFFICES ASSUME TypeInv, [Next]_vars PROVE TypeInv'
    OBVIOUS
  <1>1. ASSUME NEW s \in Side, SendRefused(s) PROVE TypeInv'
    <2>1. TypeOK'
      BY <1>1, EndType DEF SendRefused, Calls, TypeInv, TypeOK
    <2>2. Grounded'
      BY <1>1, EndType DEF SendRefused, Calls, TypeInv, TypeOK, Grounded
    <2> QED
      BY <2>1, <2>2 DEF TypeInv
  <1>2. ASSUME NEW s \in Side, BeginSend(s) PROVE TypeInv'
    <2>1. Head(todo[s]).n \in 0..SizeMax /\ todo[s] # <<>>
      <3>1. todo[s] # <<>> /\ todo[s] \in Seq(Op)
        BY <1>2, Elements DEF BeginSend, Calls
      <3>2. Head(todo[s]) \in Op
        BY <3>1, SeqElement
      <3> QED
        BY <3>1, <3>2 DEF Op
    <2>2. begun' \in [Side -> Seq(0..SizeMax)]
      BY <1>2, <2>1 DEF BeginSend, TypeInv, TypeOK
    <2>3. TypeOK'
      BY <1>2, <2>1, <2>2 DEF BeginSend, TypeInv, TypeOK
    <2>4. /\ Len(begun'[s]) = Len(begun[s]) + 1
          /\ begun'[s] # <<>>
          /\ \A t \in Side \ {s} : begun'[t] = begun[t] /\ pc'[t] = pc[t]
      BY <1>2, <2>1, <2>2, Elements, SMTT(30) DEF BeginSend, TypeInv, TypeOK
    <2>5. \A t \in Side : \A i \in 1..Len(stream[t]) :
            stream[t][i].frame \in 1..Len(begun'[t])
      <3>1. \A t \in Side : Len(begun[t]) \in Nat /\ Len(begun[t]) <= Len(begun'[t])
                            /\ Len(begun'[t]) \in Nat
        BY <2>4, Elements
      <3>2. \A t \in Side : \A i \in 1..Len(stream[t]) :
              stream[t][i].frame \in 1..Len(begun[t])
        BY DEF TypeInv, Grounded
      <3> QED
        BY <3>1, <3>2
    <2>6. Grounded'
      BY <1>2, <2>1, <2>4, <2>5 DEF BeginSend, TypeInv, TypeOK, Grounded
    <2> QED
      BY <2>3, <2>6 DEF TypeInv
  <1>3. ASSUME NEW s \in Side, Write(s) PROVE TypeInv'
    <2>1. Byte(Len(begun[s]), pos[s]) \in Bytes
      BY Elements DEF Byte, Bytes
    <2>2. stream' \in [Side -> Seq(Bytes)]
      BY <1>3, <2>1 DEF Write, TypeInv, TypeOK
    <2>3. todo[s] # <<>> /\ begun[s] # <<>>
      BY <1>3 DEF Write, TypeInv, Grounded
    <2>4. /\ todo' \in [Side -> Seq(Op)]
          /\ pc' \in [Side -> {"ready", "send", "recv", "closed"}]
          /\ shut' \in [Side -> BOOLEAN]
      BY <1>3, <2>3, EndType DEF Write, Continues, TypeInv, TypeOK
    <2>5. \A t \in Side : Len(stream[t]) <= Len(stream'[t])
      BY <1>3 DEF Write, TypeInv, TypeOK
    <2>6. \A t \in Side : taken'[t] <= Len(stream'[Peer(t)])
      BY <1>3, <2>5, PeerType, SMTT(30) DEF Write, TypeInv, TypeOK
    <2>7. TypeOK'
      BY <1>3, <2>2, <2>4, <2>6, SMTT(30) DEF Write, TypeInv, TypeOK
    <2>8. \A t \in Side : \A i \in 1..Len(stream'[t]) :
            stream'[t][i].frame \in 1..Len(begun'[t])
      <3>1. ASSUME NEW t \in Side \ {s}
            PROVE  stream'[t] = stream[t] /\ begun'[t] = begun[t]
        BY <1>3, <3>1 DEF Write, TypeInv, TypeOK
      <3>2. /\ stream'[s] = Append(stream[s], Byte(Len(begun[s]), pos[s]))
            /\ begun'[s] = begun[s]
            /\ Len(begun[s]) \in 1..Len(begun[s])
        BY <1>3, <2>3, Elements DEF Write, TypeInv, TypeOK
      <3>3. \A i \in 1..Len(stream'[s]) : stream'[s][i].frame \in 1..Len(begun[s])
        BY <2>1, <3>2, Elements, StreamByte DEF Byte, Bytes
      <3> QED
        BY <3>1, <3>2, <3>3, StreamByte
    <2>9. \A t \in Side : /\ pc'[t] \in {"send", "recv"} => pc'[t] = pc[t] /\ todo'[t] = todo[t]
                          /\ pc'[t] = "recv" => t # s
      BY <1>3, <2>3, EndType DEF Write, Continues, TypeInv, TypeOK
    <2>10. Grounded'
      BY <1>3, <2>8, <2>9 DEF Write, TypeInv, TypeOK, Grounded
    <2> QED
      BY <2>7, <2>10 DEF TypeInv
  <1>4. ASSUME NEW s \in Side, WriteFails(s) PROVE TypeInv'
    <2>1. todo[s] # <<>> /\ Throws(s, "WriteFail")
      BY <1>4 DEF WriteFails, TypeInv, Grounded
    <2>2. faults' \in 0..MaxFaults
      BY <1>4, FaultType DEF WriteFails
    <2>3. TypeOK'
      BY <1>4, <2>1, <2>2, EndType DEF WriteFails, TypeInv, TypeOK
    <2>4. Grounded'
      BY <1>4, <2>1, EndType DEF WriteFails, TypeInv, TypeOK, Grounded
    <2> QED
      BY <2>3, <2>4 DEF TypeInv
  <1>5. ASSUME NEW s \in Side, BeginRecv(s) PROVE TypeInv'
    <2>1. TypeOK'
      BY <1>5 DEF BeginRecv, TypeInv, TypeOK
    <2>2. Grounded'
      BY <1>5, SMTT(30) DEF BeginRecv, Calls, TypeInv, TypeOK, Grounded
    <2> QED
      BY <2>1, <2>2 DEF TypeInv
  <1>6. ASSUME NEW s \in Side, Read(s),
               UNCHANGED <<limit, stream, begun, faults>>
        PROVE  /\ taken' \in [Side -> Nat]
               /\ pos' \in [Side -> Nat]
               /\ todo[s] # <<>>
               /\ pc[s] = "recv"
               /\ taken'[s] = taken[s] + 1
               /\ pos'[s] = pos[s] + 1
               /\ \A t \in Side \ {s} : pos'[t] = pos[t] /\ taken'[t] = taken[t]
               /\ pos'[s] <= taken'[s]
               /\ \A t \in Side : taken'[t] <= Len(stream'[Peer(t)])
    <2>1. taken[s] + 1 <= Len(stream[Peer(s)])
      BY <1>6, PeerType, Elements DEF Read, Avail
    <2>2. pos[s] <= taken[s] /\ todo[s] # <<>> /\ pc[s] = "recv"
      BY <1>6 DEF Read, TypeInv, Grounded
    <2>3. /\ taken' = [taken EXCEPT ![s] = taken[s] + 1]
          /\ pos' = [pos EXCEPT ![s] = pos[s] + 1]
          /\ taken \in [Side -> Nat] /\ pos \in [Side -> Nat]
      BY <1>6 DEF Read, TypeInv, TypeOK
    <2>4. \A t \in Side : taken'[t] <= Len(stream'[Peer(t)])
      BY <1>6, <2>1, <2>3, Elements
    <2> QED
      BY <2>2, <2>3, <2>4
  <1>7. ASSUME NEW s \in Side, ReadHeader(s) PROVE TypeInv'
    <2>1. TypeOK'
      BY <1>7, <1>6 DEF ReadHeader, Continues, TypeInv, TypeOK
    <2>2. Grounded'
      BY <1>7, <1>6 DEF ReadHeader, Continues, TypeInv, Grounded
    <2> QED
      BY <2>1, <2>2 DEF TypeInv
  <1>8. ASSUME NEW s \in Side, HeaderRead(s) PROVE TypeInv'
    <2>1. PICK n \in Decoded(Peer(s), taken[s] + 1) :
            /\ size' = [size EXCEPT ![s] = n]
            /\ \/ Throws(s, "RecvRefused") /\ UNCHANGED returned
               \/ EmptyBody(s)
               \/ Continues /\ UNCHANGED returned
      BY <1>8 DEF HeaderRead
    <2>3. n \in 0..SizeMax
      BY <1>8, DecodedType DEF HeaderRead
    <2>4. /\ todo' \in [Side -> Seq(Op)]
          /\ pc' \in [Side -> {"ready", "send", "recv", "closed"}]
          /\ shut' \in [Side -> BOOLEAN]
          /\ \A t \in Side \ {s} : pc'[t] = pc[t] /\ todo'[t] = todo[t]
          /\ pc'[s] # "send"
          /\ pc'[s] = "recv" => todo'[s] = todo[s]
      BY <1>8, <1>6, <2>1, EndType DEF HeaderRead, EmptyBody, Continues, TypeInv, TypeOK
    <2>5. returned' \in [Side -> Seq(Seq(Bytes))]
      <3>1. Append(returned[s], <<>>) \in Seq(Seq(Bytes))
        BY Elements
      <3> QED
        BY <2>1, <3>1 DEF EmptyBody, TypeInv, TypeOK
    <2>6. TypeOK'
      BY <1>8, <1>6, <2>1, <2>3, <2>4, <2>5 DEF HeaderRead, TypeInv, TypeOK
    <2>7. Grounded'
      <3>1. /\ \A t \in Side \ {s} : pos'[t] = pos[t] /\ taken'[t] = taken[t]
            /\ pos'[s] <= taken'[s] /\ todo[s] # <<>>
        BY <1>8, <1>6 DEF HeaderRead
      <3> QED
        BY <1>8, <2>4, <3>1 DEF HeaderRead, TypeInv, Grounded
    <2> QED
      BY <2>6, <2>7 DEF TypeInv
  <1>9. ASSUME NEW s \in Side, ReadBody(s) PROVE TypeInv'
    <2>1. /\ todo' \in [Side -> Seq(Op)]
          /\ pc' \in [Side -> {"ready", "send", "recv", "closed"}]
          /\ shut' \in [Side -> BOOLEAN]
          /\ \A t \in Side \ {s} : pc'[t] = pc[t] /\ todo'[t] = todo[t]
          /\ pc'[s] # "send"
          /\ pc'[s] = "recv" => todo'[s] = todo[s]
      BY <1>9, <1>6, EndType DEF ReadBody, Continues, TypeInv, TypeOK
    <2>2. ASSUME pos[s] + 1 = FrameLen(s)
          PROVE  Received(s, size[s], taken[s] + 1) \in Seq(Bytes)
      <3>1. taken[s] + 1 <= Len(stream[Peer(s)]) /\ size[s] <= taken[s] + 1
        <4>1. pos[s] <= taken[s] /\ 0 < Len(stream[Peer(s)]) - taken[s]
          BY <1>9 DEF ReadBody, Read, Avail, TypeInv, Grounded
        <4>2. QED
          <5>1. /\ taken[s] \in Nat /\ pos[s] \in Nat /\ size[s] \in Nat
                /\ Len(stream[Peer(s)]) \in Nat /\ HeaderLen \in Nat \ {0}
            BY PeerType, Elements, ConnectionAssumption
          <5> QED
            BY <2>2, <4>1, <5>1 DEF FrameLen
      <3>2. \A i \in 1..size[s] :
              (taken[s] + 1) - size[s] + i \in 1..Len(stream[Peer(s)])
        BY <3>1, PeerType, Elements
      <3>3. \A i \in 1..size[s] :
              stream[Peer(s)][(taken[s] + 1) - size[s] + i] \in Bytes
        BY <3>2, PeerType, StreamByte
      <3> QED
        <4>1. size[s] \in Nat
          BY Elements
        <4>2. Received(s, size[s], taken[s] + 1) \in [1..size[s] -> Bytes]
          BY <3>3 DEF Received
        <4>3. QED
          BY <4>1, <4>2, SeqOfFunction
    <2>3. returned' \in [Side -> Seq(Seq(Bytes))]
      <3>1. CASE pos[s] + 1 = FrameLen(s)
        <4>1. Append(returned[s], Received(s, size[s], taken[s] + 1))
                \in Seq(Seq(Bytes))
          BY <2>2, <3>1, Elements
        <4> QED
          BY <1>9, <3>1, <4>1 DEF ReadBody, TypeInv, TypeOK
      <3>2. CASE pos[s] + 1 # FrameLen(s)
        BY <1>9, <3>2 DEF ReadBody, TypeInv, TypeOK
      <3> QED
        BY <3>1, <3>2
    <2>4. TypeOK'
      BY <1>9, <1>6, <2>1, <2>3 DEF ReadBody, TypeInv, TypeOK
    <2>5. Grounded'
      BY <1>9, <1>6, <2>1, ZenonT(40) DEF ReadBody, TypeInv, Grounded
    <2> QED
      BY <2>4, <2>5 DEF TypeInv
  <1>10. ASSUME NEW s \in Side, ReadFails(s) PROVE TypeInv'
    <2>1. todo[s] # <<>> /\ \E e \in Exception : Throws(s, e)
      BY <1>10 DEF ReadFails, TypeInv, Grounded, Exception
    <2>2. faults' \in 0..MaxFaults
      BY <1>10, FaultType DEF ReadFails
    <2>3. TypeOK'
      BY <1>10, <2>1, <2>2, EndType DEF ReadFails, TypeInv, TypeOK
    <2>4. Grounded'
      BY <1>10, <2>1, EndType DEF ReadFails, TypeInv, TypeOK, Grounded
    <2> QED
      BY <2>3, <2>4 DEF TypeInv
  <1>11. ASSUME NEW s \in Side, SetMaxBufferSize(s) PROVE TypeInv'
    <2>1. todo[s] # <<>> /\ Head(todo[s]).n \in Nat
      <3>1. todo[s] # <<>> /\ Head(todo[s]) \in Op
        BY <1>11, Elements DEF SetMaxBufferSize, Calls
      <3> QED
        BY <3>1, ConnectionAssumption DEF Op
    <2>2. limit' \in [Side -> MinBuffer..MaxBuffer]
      BY <1>11, <2>1, ConnectionAssumption
         DEF SetMaxBufferSize, Clamp, AtLeast, AtMost, TypeInv, TypeOK
    <2>3. TypeOK'
      BY <1>11, <2>1, <2>2, EndType DEF SetMaxBufferSize, TypeInv, TypeOK
    <2>4. Grounded'
      BY <1>11, <2>1, EndType DEF SetMaxBufferSize, TypeInv, TypeOK, Grounded
    <2> QED
      BY <2>3, <2>4 DEF TypeInv
  <1>12. ASSUME NEW s \in Side, Close(s) \/ Shutdown(s) \/ Crash(s) PROVE TypeInv'
    <2>1. TypeOK'
      <3>1. faults' \in 0..MaxFaults
        BY <1>12, FaultType DEF Close, Shutdown, Crash
      <3> QED
        BY <1>12, <3>1 DEF Close, Shutdown, Crash, TypeInv, TypeOK
    <2>2. Grounded'
      BY <1>12 DEF Close, Shutdown, Crash, TypeInv, TypeOK, Grounded
    <2> QED
      BY <2>1, <2>2 DEF TypeInv
  <1>13. ASSUME NEW s \in Side, Reset(s) PROVE TypeInv'
    <2>1. PICK n \in taken[Peer(s)]..Len(stream[s]) :
            stream' = [stream EXCEPT ![s] = SubSeq(@, 1, n)]
      BY <1>13 DEF Reset
    <2>2. /\ n \in Nat
          /\ SubSeq(stream[s], 1, n) \in Seq(Bytes)
          /\ Len(SubSeq(stream[s], 1, n)) = n
          /\ \A i \in 1..n : SubSeq(stream[s], 1, n)[i] = stream[s][i]
      <3>1. /\ stream[s] \in Seq(Bytes)
            /\ n \in 0..Len(stream[s])
        BY PeerType, Elements
      <3> QED
        BY <3>1, SeqPrefix
    <2>3. \A t \in Side : taken[t] <= Len(stream'[Peer(t)])
      BY <2>1, <2>2, PeerType DEF TypeInv, TypeOK
    <2>4. TypeOK'
      BY <1>13, <2>1, <2>2, <2>3 DEF Reset, TypeInv, TypeOK
    <2>5. Grounded'
      <3>1. \A t \in Side : \A i \in 1..Len(stream'[t]) :
              stream'[t][i].frame \in 1..Len(begun[t])
        <4>1. stream'[s] = SubSeq(stream[s], 1, n)
              /\ \A t \in Side \ {s} : stream'[t] = stream[t]
          BY <2>1 DEF TypeInv, TypeOK
        <4>2. n <= Len(stream[s]) /\ Len(stream[s]) \in Nat
          BY PeerType, Elements
        <4>3. \A i \in 1..n : stream'[s][i].frame \in 1..Len(begun[s])
          BY <2>2, <4>1, <4>2, StreamByte
        <4> QED
          BY <2>2, <4>1, <4>3, StreamByte
      <3> QED
        BY <1>13, <3>1 DEF Reset, TypeInv, Grounded
    <2> QED
      BY <2>4, <2>5 DEF TypeInv
  <1>14. CASE UNCHANGED vars
    BY <1>14 DEF vars, TypeInv, TypeOK, Grounded
  <1> QED
    BY <1>1, <1>2, <1>3, <1>4, <1>5, <1>7, <1>8, <1>9, <1>10, <1>11, <1>12,
       <1>13, <1>14
       DEF Next, OwnerStep, SendStep, RecvStep, Terminated

\* Every value keeps its type whatever the two owners call, whatever they do
\* after an exception, and whatever fails.
THEOREM TypeCorrect == Spec => []TypeOK
  <1>1. TypeInv => TypeOK
    BY DEF TypeInv
  <1> QED
    BY <1>1, TypeInit, TypeStep, PTL DEF Spec

LEMMA TypeAlways == Spec => []TypeInv
  BY TypeInit, TypeStep, PTL DEF Spec
-----------------------------------------------------------------------------
\* A message larger than the limit never enters the buffer, in step or not.
THEOREM BufferBounded == Spec => []BufferWithinLimit
  <1>1. Init => BufferWithinLimit
    BY DEF Init, BufferWithinLimit
  <1>2. TypeInv /\ BufferWithinLimit /\ [Next]_vars => BufferWithinLimit'
    <2> SUFFICES ASSUME TypeInv, BufferWithinLimit, [Next]_vars,
                        NEW t \in Side,
                        pc'[t] = "recv", pos'[t] >= HeaderLen
                 PROVE  size'[t] <= limit'[t] /\ pos'[t] < FrameLen(t)'
      BY DEF BufferWithinLimit
    <2>0. /\ pc[t] = "recv" /\ pos[t] >= HeaderLen =>
               size[t] <= limit[t] /\ pos[t] < HeaderLen + size[t]
          /\ pos \in [Side -> Nat] /\ size \in [Side -> Nat]
          /\ limit \in [Side -> Nat] /\ HeaderLen \in Nat \ {0}
          /\ pc \in [Side -> {"ready", "send", "recv", "closed"}]
      <3>1. pc[t] = "recv" /\ pos[t] >= HeaderLen =>
               size[t] <= limit[t] /\ pos[t] < HeaderLen + size[t]
        BY DEF BufferWithinLimit, FrameLen
      <3>2. /\ size \in [Side -> 0..SizeMax]
            /\ limit \in [Side -> MinBuffer..MaxBuffer]
            /\ pos \in [Side -> Nat]
            /\ pc \in [Side -> {"ready", "send", "recv", "closed"}]
        BY DEF TypeInv, TypeOK
      <3>3. HeaderLen \in Nat \ {0} /\ MinBuffer \in Nat
        BY ConnectionAssumption
      <3>4. 0..SizeMax \subseteq Nat /\ MinBuffer..MaxBuffer \subseteq Nat
        BY <3>3
      <3>5. size \in [Side -> Nat] /\ limit \in [Side -> Nat]
        BY <3>2, <3>4
      <3> QED
        BY <3>1, <3>2, <3>3, <3>5
    <2>1. ASSUME NEW s \in Side, SendStep(s) PROVE size'[t] <= limit'[t] /\ pos'[t] < FrameLen(t)'
      BY <2>0, <2>1 DEF SendStep, SendRefused, BeginSend, Write, WriteFails,
                        Throws, Returns, Continues, FrameLen
    <2>2. ASSUME NEW s \in Side, BeginRecv(s) \/ ReadHeader(s) \/ ReadFails(s)
          PROVE  size'[t] <= limit'[t] /\ pos'[t] < FrameLen(t)'
      BY <2>0, <2>2 DEF BeginRecv, ReadHeader, Read, ReadFails, Throws, Continues,
                        FrameLen
    <2>3. ASSUME NEW s \in Side, HeaderRead(s)
          PROVE  size'[t] <= limit'[t] /\ pos'[t] < FrameLen(t)'
      <3>1. PICK n \in Decoded(Peer(s), taken[s] + 1) :
              /\ size' = [size EXCEPT ![s] = n]
              /\ \/ Throws(s, "RecvRefused")
                 \/ EmptyBody(s)
                 \/ ~(n > limit[s]) /\ n > 0 /\ Continues
        BY <2>3 DEF HeaderRead, TooLarge
      <3>2. n \in Nat
        BY <2>3, DecodedType, ConnectionAssumption DEF HeaderRead
      <3> QED
        BY <2>0, <2>3, <3>1, <3>2
           DEF HeaderRead, Read, Throws, Continues, EmptyBody, Returns, FrameLen
    <2>4. ASSUME NEW s \in Side, ReadBody(s)
          PROVE  size'[t] <= limit'[t] /\ pos'[t] < FrameLen(t)'
      BY <2>0, <2>4 DEF ReadBody, Read, Continues, Returns, FrameLen
    <2>5. ASSUME NEW s \in Side,
                 SetMaxBufferSize(s) \/ Close(s) \/ Shutdown(s) \/ Crash(s) \/ Reset(s)
          PROVE  size'[t] <= limit'[t] /\ pos'[t] < FrameLen(t)'
      BY <2>0, <2>5 DEF SetMaxBufferSize, Calls, Close, Shutdown, Crash, Reset,
                        Returns, FrameLen
    <2>6. CASE UNCHANGED vars
      BY <2>0, <2>6 DEF vars, FrameLen
    <2> QED
      BY <2>1, <2>2, <2>3, <2>4, <2>5, <2>6
         DEF Next, OwnerStep, RecvStep, Terminated
  <1> QED
    BY <1>1, <1>2, TypeAlways, PTL DEF Spec
-----------------------------------------------------------------------------
(* An owner that drops its Connection after every exception that may leave *)
(* half a frame behind gets every message intact: the inductive invariant  *)
(* InStep, and DeliveredIntact from it.                                    *)

\* A step keeps the first m bytes of p's stream and every frame p has begun.
Kept(p, m) ==
  /\ \A i \in 1..m : stream'[p][i] = stream[p][i]
  /\ Len(begun[p]) <= Len(begun'[p])
  /\ \A f \in 1..Len(begun[p]) : begun'[p][f] = begun[p][f]

LEMMA FollowKept ==
  ASSUME TypeInv, NEW p \in Side, NEW m \in 0..Len(stream[p]), Kept(p, m),
         NEW j \in 0..m
  PROVE  Follow(p, j)' = Follow(p, j)
  <1>1. CASE j = 0
    BY <1>1 DEF Follow
  <1>2. CASE j # 0
    <2>1. j \in 1..m /\ j \in 1..Len(stream[p])
      BY <1>2, Elements
    <2>2. stream'[p][j] = stream[p][j]
      BY <2>1 DEF Kept
    <2>3. stream[p][j].frame \in 1..Len(begun[p])
      BY <2>1, StreamByte
    <2>4. begun'[p][stream[p][j].frame] = begun[p][stream[p][j].frame]
      BY <2>3 DEF Kept
    <2> QED
      BY <1>2, <2>2, <2>4 DEF Follow
  <1> QED
    BY <1>1, <1>2

LEMMA FramedKept ==
  ASSUME TypeInv, NEW p \in Side, Framed(p), NEW m \in 0..Len(stream[p]),
         Len(stream'[p]) = m, Kept(p, m), Len(begun'[p]) \in Nat
  PROVE  Framed(p)'
  <1> SUFFICES ASSUME NEW i \in 1..m
               PROVE  /\ stream'[p][i] = Follow(p, i - 1)'
                      /\ stream'[p][i].frame \in 1..Len(begun'[p])
    BY DEF Framed
  <1>1. i \in 1..Len(stream[p]) /\ i - 1 \in 0..m
    BY Elements
  <1>2. stream'[p][i] = stream[p][i] /\ stream[p][i] = Follow(p, i - 1)
    BY <1>1 DEF Framed, Kept
  <1>3. Follow(p, i - 1)' = Follow(p, i - 1)
    BY <1>1, FollowKept
  <1>4. stream[p][i].frame \in 1..Len(begun'[p])
    BY <1>1, StreamByte, Elements DEF Kept
  <1> QED
    BY <1>2, <1>3, <1>4

LEMMA FollowTaken ==
  ASSUME TypeInv, NEW s \in Side, taken'[s] = taken[s], Kept(Peer(s), taken[s])
  PROVE  Follow(Peer(s), taken[s])' = Follow(Peer(s), taken[s])
  <1> DEFINE j == taken[s]
  <1>1. Peer(s) \in Side /\ j \in 0..Len(stream[Peer(s)]) /\ j \in 0..j
    BY PeerType, Elements
  <1>2. \A k \in 0..j : Follow(Peer(s), k)' = Follow(Peer(s), k)
    BY <1>1, FollowKept
  <1> QED
    BY <1>1, <1>2 DEF Follow

LEMMA FollowEnd ==
  ASSUME TypeInv, NEW s \in Side, stream'[s] = stream[s], Kept(s, Len(stream[s]))
  PROVE  Follow(s, Len(stream[s]))' = Follow(s, Len(stream[s]))
  <1>1. Len(stream[s]) \in 0..Len(stream[s])
    BY Elements
  <1>2. \A k \in 0..Len(stream[s]) : Follow(s, k)' = Follow(s, k)
    BY <1>1, FollowKept
  <1> QED
    BY <1>1, <1>2 DEF Follow

LEMMA SendKept ==
  ASSUME NEW s \in Side, SendSync(s), pc'[s] = pc[s], pos'[s] = pos[s],
         size'[s] = size[s], begun'[s] = begun[s], stream'[s] = stream[s]
  PROVE  SendSync(s)'
  BY DEF SendSync, Follow, FrameLen

LEMMA RecvKept ==
  ASSUME TypeInv, NEW s \in Side, RecvSync(s), Kept(Peer(s), taken[s]),
         pc'[s] = pc[s], pos'[s] = pos[s], size'[s] = size[s],
         taken'[s] = taken[s], returned'[s] = returned[s],
         Len(begun'[Peer(s)]) \in Nat
  PROVE  RecvSync(s)'
  <1> DEFINE f == Len(returned[s]) + 1
             p == Peer(s)
  <1>1. p \in Side /\ taken[s] \in 0..Len(stream[p]) /\ pos[s] \in Nat
        /\ f \in Nat \ {0} /\ Len(begun[p]) \in Nat
    BY PeerType, Elements
  <1>2. Follow(p, taken[s])' = Follow(p, taken[s])
    BY <1>1, FollowKept
  <1>3. ASSUME pc[s] = "recv"
        PROVE  \A i \in 1..pos[s] :
                 stream'[p][taken[s] - pos[s] + i] = Byte(f, i - 1)
    BY <1>1, <1>3 DEF RecvSync, Kept
  <1>4. ASSUME f <= Len(begun[p])
        PROVE  f <= Len(begun'[p]) /\ begun'[p][f] = begun[p][f]
    BY <1>1, <1>4 DEF Kept
  <1>5. pc[s] \in {"ready", "send"} => Follow(p, taken[s])' = Byte(f, 0)
    BY <1>2 DEF RecvSync
  <1>6. pc[s] = "recv" => Follow(p, taken[s])' = Byte(f, pos[s]) /\ pos[s] <= taken[s]
    BY <1>2 DEF RecvSync
  <1>7. pc[s] = "recv" /\ pos[s] >= HeaderLen =>
          f <= Len(begun'[p]) /\ size[s] = begun'[p][f] /\ pos[s] < FrameLen(s)
    BY <1>4 DEF RecvSync
  <1>8. FrameLen(s)' = FrameLen(s)
    BY DEF FrameLen
  <1> QED
    BY <1>3, <1>5, <1>6, <1>7, <1>8 DEF RecvSync

\* A read inside a call hands over the byte the call expects, and leaves the
\* side where its new count says.
LEMMA ReadByte ==
  ASSUME TypeInv, InStep, NEW s \in Side, Read(s)
  PROVE  LET f == Len(returned[s]) + 1
             p == Peer(s)
         IN  /\ f \in 1..Len(begun[p])
             /\ begun[p][f] \in 0..SizeMax
             /\ stream[p][taken[s] + 1] = Byte(f, pos[s])
             /\ \A i \in 1..(pos[s] + 1) :
                  stream[p][(taken[s] - pos[s]) + i] = Byte(f, i - 1)
             /\ Follow(p, taken[s] + 1) =
                  IF pos[s] + 1 < HeaderLen + begun[p][f]
                    THEN Byte(f, pos[s] + 1) ELSE Byte(f + 1, 0)
             /\ pos[s] <= taken[s]
  <1> DEFINE f == Len(returned[s]) + 1
             p == Peer(s)
  <1>1. p \in Side /\ taken[s] \in Nat /\ pos[s] \in Nat /\ f \in Nat
    BY PeerType, Elements
  <1>2. taken[s] + 1 \in 1..Len(stream[p])
    BY NextByte
  <1>3. /\ pc[s] = "recv" /\ pos[s] <= taken[s]
        /\ Follow(p, taken[s]) = Byte(f, pos[s])
        /\ \A i \in 1..pos[s] : stream[p][(taken[s] - pos[s]) + i] = Byte(f, i - 1)
    BY DEF Read, InStep, RecvSync
  <1>4. stream[p][taken[s] + 1] = Follow(p, (taken[s] + 1) - 1)
    BY <1>1, <1>2 DEF InStep, Framed
  <1>5. stream[p][taken[s] + 1] = Byte(f, pos[s])
    BY <1>1, <1>3, <1>4
  <1>6. f \in 1..Len(begun[p]) /\ begun[p][f] \in 0..SizeMax
    BY <1>1, <1>2, <1>5, StreamByte DEF Byte
  <1>7. \A i \in 1..(pos[s] + 1) :
          stream[p][(taken[s] - pos[s]) + i] = Byte(f, i - 1)
    <2> SUFFICES ASSUME NEW i \in 1..(pos[s] + 1)
                 PROVE  stream[p][(taken[s] - pos[s]) + i] = Byte(f, i - 1)
      OBVIOUS
    <2>1. CASE i \in 1..pos[s]
      BY <1>3, <2>1
    <2>2. CASE i = pos[s] + 1
      <3>1. (taken[s] - pos[s]) + i = taken[s] + 1 /\ i - 1 = pos[s]
        BY <1>1, <2>2
      <3> QED
        BY <1>5, <3>1
    <2> QED
      BY <1>1, <2>1, <2>2
  <1>8. Follow(p, taken[s] + 1) =
          IF pos[s] + 1 < HeaderLen + begun[p][f]
            THEN Byte(f, pos[s] + 1) ELSE Byte(f + 1, 0)
    BY <1>1, <1>5 DEF Follow, Byte
  <1> QED
    BY <1>3, <1>5, <1>6, <1>7, <1>8

\* So the HeaderLen bytes a completed header is decoded from are the header of
\* the next frame.
LEMMA DecodedInStep ==
  ASSUME TypeInv, InStep, NEW s \in Side, Read(s), pos[s] + 1 = HeaderLen
  PROVE  Decoded(Peer(s), taken[s] + 1) = {begun[Peer(s)][Len(returned[s]) + 1]}
  <1> DEFINE f == Len(returned[s]) + 1
             p == Peer(s)
  <1>1. /\ stream[p][taken[s] + 1] = Byte(f, pos[s])
        /\ \A i \in 1..HeaderLen : stream[p][(taken[s] - pos[s]) + i] = Byte(f, i - 1)
    BY ReadByte
  <1>2. /\ taken[s] \in Nat /\ pos[s] \in Nat /\ HeaderLen \in Nat
        /\ (taken[s] + 1) - HeaderLen = taken[s] - pos[s]
    BY Elements, ConnectionAssumption
  <1>3. stream[p][taken[s] + 1].frame = f
    BY <1>1 DEF Byte
  <1> QED
    BY <1>1, <1>2, <1>3 DEF Decoded

\* A step that leaves what a side has written and is writing alone cannot
\* bring its own stream out of step, nor what its peer has read of it.
LEMMA StreamKept ==
  ASSUME TypeInv, InStep, NEW s \in Side, stream'[s] = stream[s], begun'[s] = begun[s]
  PROVE  Framed(s)' /\ Kept(s, taken[Peer(s)])
  BY DEF InStep, Framed, Follow, Kept

\* What the peer holds itself is not touched.
PeerIdle(s) == LET t == Peer(s) IN
  /\ pc'[t] = pc[t] /\ pos'[t] = pos[t] /\ size'[t] = size[t]
  /\ taken'[t] = taken[t] /\ returned'[t] = returned[t]

\* A step that writes nothing only has to account for its own side.
LEMMA LocalStep ==
  ASSUME TypeInv, InStep, NEW s \in Side, UNCHANGED <<stream, begun>>,
         PeerIdle(s), SendSync(s)', RecvSync(s)'
  PROVE  InStep'
  <1> DEFINE p == Peer(s)
  <1>1. p \in Side /\ Peer(p) = s /\ \A t \in Side : t = s \/ t = p
    BY DEF Side, Peer
  <1>2. \A t \in Side : Framed(t)' /\ Kept(t, taken[Peer(t)])
    BY StreamKept
  <1>3. SendSync(p)'
    BY <1>1, SendKept DEF PeerIdle, InStep
  <1>4. Kept(Peer(p), taken[p])
    BY <1>1, <1>2
  <1>5. Len(begun'[s]) \in Nat
    BY Elements
  <1>6. RecvSync(p)'
    BY <1>1, <1>4, <1>5, RecvKept DEF PeerIdle, InStep
  <1> QED
    BY <1>1, <1>2, <1>3, <1>6 DEF InStep

\* A closed side owes nothing.
LEMMA ClosedSync ==
  ASSUME NEW s \in Side, pc'[s] = "closed"
  PROVE  SendSync(s)' /\ RecvSync(s)'
  BY DEF SendSync, RecvSync

LEMMA InStepInit == Init => InStep
  <1> SUFFICES ASSUME Init, NEW s \in Side PROVE Framed(s) /\ SendSync(s) /\ RecvSync(s)
    BY DEF InStep
  <1>1. stream[s] = <<>> /\ begun[s] = <<>> /\ pc[s] = "ready" /\ taken[s] = 0
        /\ returned[s] = <<>>
    BY DEF Init
  <1>2. Follow(s, 0) = Byte(1, 0) /\ Follow(Peer(s), 0) = Byte(1, 0)
    BY DEF Follow
  <1> QED
    BY <1>1, <1>2 DEF Framed, SendSync, RecvSync

LEMMA InStepStep ==
  ASSUME KeepAfter \subseteq {"SendRefused"}
  PROVE  TypeInv /\ TypeInv' /\ InStep /\ [Next]_vars => InStep'
  <1> SUFFICES ASSUME TypeInv, TypeInv', InStep, [Next]_vars PROVE InStep'
    OBVIOUS
  <1>0. ASSUME NEW s \in Side
        PROVE  Framed(s) /\ SendSync(s) /\ RecvSync(s) /\ Peer(s) \in Side
               /\ Peer(s) # s /\ Peer(Peer(s)) = s
               /\ pc \in [Side -> {"ready", "send", "recv", "closed"}]
               /\ pos \in [Side -> Nat] /\ size \in [Side -> Nat]
               /\ taken \in [Side -> Nat] /\ DOMAIN returned = Side
               /\ Len(begun'[s]) \in Nat /\ HeaderLen \in Nat \ {0}
    <2>1. Framed(s) /\ SendSync(s) /\ RecvSync(s)
      BY DEF InStep
    <2>2. begun'[s] \in Seq(0..SizeMax)
      BY DEF TypeInv, TypeOK
    <2>3. Len(begun'[s]) \in Nat
      BY <2>2, SeqElement
    <2>4. size \in [Side -> Nat]
      BY ConnectionAssumption DEF TypeInv, TypeOK
    <2> QED
      BY <2>1, <2>3, <2>4, PeerType, ConnectionAssumption DEF TypeInv, TypeOK
  <1>1. ASSUME NEW s \in Side, SendRefused(s) PROVE InStep'
    <2>1. SendSync(s)' /\ RecvSync(s)'
      BY <1>0, <1>1 DEF SendRefused, Calls, Throws, SendSync, RecvSync, Follow
    <2>2. PeerIdle(s)
      BY <1>0, <1>1 DEF SendRefused, Throws, PeerIdle
    <2> QED
      BY <1>1, <2>1, <2>2, LocalStep DEF SendRefused
  <1>2. ASSUME NEW s \in Side, WriteFails(s) \/ ReadFails(s) \/ Close(s) \/ Crash(s)
        PROVE  InStep'
    <2>1. pc' = [pc EXCEPT ![s] = "closed"]
      BY <1>2 DEF WriteFails, ReadFails, Close, Crash, Throws
    <2>2. SendSync(s)' /\ RecvSync(s)'
      BY <1>0, <2>1, ClosedSync
    <2>3. PeerIdle(s)
      BY <1>0, <1>2, <2>1 DEF WriteFails, ReadFails, Close, Crash, PeerIdle
    <2> QED
      BY <1>2, <2>2, <2>3, LocalStep DEF WriteFails, ReadFails, Close, Crash
  <1>3. ASSUME NEW s \in Side, BeginRecv(s) PROVE InStep'
    <2>1. SendSync(s)'
      BY <1>0, <1>3 DEF BeginRecv, Calls, SendSync, Follow
    <2>2. RecvSync(s)'
      <3>1. Follow(Peer(s), taken[s]) = Byte(Len(returned[s]) + 1, 0)
        BY <1>0, <1>3 DEF BeginRecv, Calls, RecvSync
      <3>2. Follow(Peer(s), taken[s])' = Follow(Peer(s), taken[s])
        BY <1>3 DEF BeginRecv, Follow
      <3>3. pc'[s] = "recv" /\ pos'[s] = 0 /\ UNCHANGED <<taken, returned>>
        BY <1>0, <1>3 DEF BeginRecv
      <3>4. taken[s] \in Nat
        BY <1>0
      <3> QED
        BY <1>0, <3>1, <3>2, <3>3, <3>4 DEF RecvSync
    <2>3. PeerIdle(s)
      BY <1>0, <1>3 DEF BeginRecv, PeerIdle
    <2> QED
      BY <1>3, <2>1, <2>2, <2>3, LocalStep DEF BeginRecv
  <1>4. ASSUME NEW s \in Side, SetMaxBufferSize(s) PROVE InStep'
    <2>1. SendSync(s)' /\ RecvSync(s)'
      BY <1>0, <1>4 DEF SetMaxBufferSize, Calls, Returns, SendSync, RecvSync, Follow
    <2>2. PeerIdle(s)
      BY <1>0, <1>4 DEF SetMaxBufferSize, Returns, PeerIdle
    <2> QED
      BY <1>4, <2>1, <2>2, LocalStep DEF SetMaxBufferSize
  <1>5. ASSUME NEW s \in Side, Shutdown(s) PROVE InStep'
    <2>1. SendSync(s)' /\ RecvSync(s)'
      BY <1>0, <1>5 DEF Shutdown, SendSync, RecvSync, Follow, FrameLen
    <2>2. PeerIdle(s)
      BY <1>0, <1>5 DEF Shutdown, PeerIdle
    <2> QED
      BY <1>5, <2>1, <2>2, LocalStep DEF Shutdown
  <1>6. ASSUME NEW s \in Side, Read(s), UNCHANGED <<stream, begun>>
        PROVE  /\ pc[s] = "recv"
               /\ taken'[s] = taken[s] + 1 /\ pos'[s] = pos[s] + 1
               /\ pos'[s] <= taken'[s]
               /\ \A t \in Side \ {s} : taken'[t] = taken[t] /\ pos'[t] = pos[t]
               /\ Follow(Peer(s), taken[s])' = Follow(Peer(s), taken[s] + 1)
               /\ Follow(s, Len(stream[s]))' = Byte(Len(begun[s]) + 1, 0)
               /\ \A i \in 1..pos'[s] :
                    stream'[Peer(s)][(taken'[s] - pos'[s]) + i]
                      = Byte(Len(returned[s]) + 1, i - 1)
    <2>1. /\ pc[s] = "recv"
          /\ taken'[s] = taken[s] + 1 /\ pos'[s] = pos[s] + 1
          /\ \A t \in Side \ {s} : taken'[t] = taken[t] /\ pos'[t] = pos[t]
      BY <1>0, <1>6 DEF Read
    <2>2. pos'[s] <= taken'[s] /\ taken'[s] - pos'[s] = taken[s] - pos[s]
      BY <1>0, <1>6, <2>1, ReadByte
    <2>3. Follow(Peer(s), taken[s])' = Follow(Peer(s), taken[s] + 1)
      BY <1>6, <2>1 DEF Follow
    <2>4. Follow(s, Len(stream[s]))' = Byte(Len(begun[s]) + 1, 0)
      BY <1>0, <1>6, <2>1 DEF SendSync, Follow
    <2>5. \A i \in 1..(pos[s] + 1) :
            stream[Peer(s)][(taken[s] - pos[s]) + i] = Byte(Len(returned[s]) + 1, i - 1)
      BY <1>6, ReadByte
    <2> QED
      BY <1>6, <2>1, <2>2, <2>3, <2>4, <2>5
  <1>7. ASSUME NEW s \in Side, ReadHeader(s) PROVE InStep'
    <2>1. SendSync(s)'
      BY <1>0, <1>6, <1>7 DEF ReadHeader, Continues, SendSync
    <2>2. Follow(Peer(s), taken[s])' = Byte(Len(returned[s]) + 1, pos[s] + 1)
      <3>1. begun[Peer(s)][Len(returned[s]) + 1] \in Nat
        BY <1>7, ReadByte, ConnectionAssumption DEF ReadHeader
      <3> QED
        BY <1>0, <1>6, <1>7, <3>1, ReadByte, SMTT(30) DEF ReadHeader
    <2>3. RecvSync(s)'
      BY <1>0, <1>6, <1>7, <2>2 DEF ReadHeader, Continues, RecvSync
    <2>4. PeerIdle(s)
      BY <1>0, <1>6, <1>7 DEF ReadHeader, Continues, PeerIdle
    <2> QED
      BY <1>7, <2>1, <2>3, <2>4, LocalStep DEF ReadHeader
  <1>8. ASSUME NEW s \in Side, HeaderRead(s) PROVE InStep'
    <2> DEFINE f == Len(returned[s]) + 1
               p == Peer(s)
               n == begun[p][f]
    <2>0. /\ Read(s) /\ pos[s] + 1 = HeaderLen /\ UNCHANGED <<stream, begun>>
          /\ size' = [size EXCEPT ![s] = n]
          /\ \/ Throws(s, "RecvRefused") /\ UNCHANGED returned
             \/ n = 0 /\ EmptyBody(s)
             \/ n > 0 /\ Continues /\ UNCHANGED returned
      BY <1>8, DecodedInStep DEF HeaderRead
    <2>1. f \in 1..Len(begun[p]) /\ n \in Nat
      BY <2>0, ReadByte, ConnectionAssumption
    <2>2. Follow(p, taken[s])' = IF n = 0 THEN Byte(f + 1, 0) ELSE Byte(f, pos[s] + 1)
      BY <1>0, <1>6, <2>0, <2>1, ReadByte
    <2>3. SendSync(s)'
      BY <1>0, <1>6, <2>0 DEF Continues, Throws, EmptyBody, Returns, SendSync
    <2>4. RecvSync(s)'
      <3>1. CASE Throws(s, "RecvRefused")
        BY <1>0, <3>1, ClosedSync DEF Throws
      <3>2. CASE n = 0 /\ EmptyBody(s)
        <4>1. pc'[s] = "ready" /\ Len(returned'[s]) = f
          BY <1>0, <3>2, Elements DEF EmptyBody, Returns
        <4> QED
          BY <2>2, <3>2, <4>1 DEF RecvSync
      <3>3. CASE n > 0 /\ Continues /\ UNCHANGED returned
        <4>1. pc'[s] = "recv" /\ size'[s] = n /\ pos'[s] = HeaderLen
          BY <1>0, <1>6, <2>0, <3>3 DEF Continues
        <4>2. pos'[s] < FrameLen(s)' /\ pos'[s] >= HeaderLen
          BY <1>0, <2>1, <3>3, <4>1 DEF FrameLen
        <4> QED
          BY <1>0, <1>6, <2>0, <2>1, <2>2, <3>3, <4>1, <4>2, SMTT(30) DEF RecvSync
      <3> QED
        BY <2>0, <3>1, <3>2, <3>3
    <2>5. PeerIdle(s)
      BY <1>0, <1>6, <2>0 DEF Continues, Throws, EmptyBody, Returns, PeerIdle
    <2> QED
      BY <2>0, <2>3, <2>4, <2>5, LocalStep
  <1>9. ASSUME NEW s \in Side, ReadBody(s) PROVE InStep'
    <2> DEFINE f == Len(returned[s]) + 1
               p == Peer(s)
    <2>0. /\ Read(s) /\ pos[s] >= HeaderLen /\ UNCHANGED <<stream, begun, size>>
          /\ \/ /\ pos[s] + 1 = FrameLen(s) /\ Returns(s)
                /\ returned' = [returned EXCEPT ![s] =
                                  Append(@, Received(s, size[s], taken[s] + 1))]
             \/ /\ pos[s] + 1 < FrameLen(s) /\ Continues /\ UNCHANGED returned
      BY <1>9 DEF ReadBody
    <2>1. f \in 1..Len(begun[p]) /\ size[s] = begun[p][f] /\ pc[s] = "recv"
      BY <1>0, <2>0, ReadByte DEF Read, RecvSync
    <2>2. Follow(p, taken[s])' =
            IF pos[s] + 1 < FrameLen(s) THEN Byte(f, pos[s] + 1) ELSE Byte(f + 1, 0)
      BY <1>6, <2>0, <2>1, ReadByte DEF FrameLen
    <2>3. SendSync(s)'
      BY <1>0, <1>6, <2>0 DEF Continues, Returns, SendSync
    <2>4. RecvSync(s)'
      <3>1. CASE pos[s] + 1 = FrameLen(s) /\ Returns(s)
        <4>1. pc'[s] = "ready" /\ Len(returned'[s]) = f
          <5>1. returned'[s] = Append(returned[s], Received(s, size[s], taken[s] + 1))
            <6>1. ~(pos[s] + 1 < FrameLen(s))
              BY <1>0, <3>1 DEF FrameLen
            <6>2. returned' = [returned EXCEPT ![s] =
                                 Append(@, Received(s, size[s], taken[s] + 1))]
              BY <2>0, <6>1
            <6> QED
              BY <1>0, <6>2
          <5> QED
            BY <1>0, <3>1, <5>1, Elements DEF Returns
        <4>2. Follow(p, taken[s])' = Byte(f + 1, 0)
          BY <1>0, <2>2, <3>1 DEF FrameLen
        <4> QED
          BY <4>1, <4>2 DEF RecvSync
      <3>2. CASE pos[s] + 1 < FrameLen(s) /\ Continues /\ UNCHANGED returned
        <4>1. pc'[s] = "recv" /\ FrameLen(s)' = FrameLen(s)
          BY <2>0, <2>1, <3>2 DEF Continues, FrameLen
        <4> QED
          BY <1>0, <1>6, <2>0, <2>1, <2>2, <3>2, <4>1 DEF RecvSync
      <3> QED
        BY <2>0, <3>1, <3>2
    <2>5. PeerIdle(s)
      BY <1>0, <1>6, <2>0 DEF Continues, Returns, PeerIdle
    <2> QED
      BY <2>0, <2>3, <2>4, <2>5, LocalStep
  <1>10. ASSUME NEW s \in Side, BeginSend(s) PROVE InStep'
    <2> DEFINE p == Peer(s)
               n == Head(todo[s]).n
    <2>1. /\ begun' = [begun EXCEPT ![s] = Append(@, n)]
          /\ size' = [size EXCEPT ![s] = n] /\ pos' = [pos EXCEPT ![s] = 0]
          /\ pc' = [pc EXCEPT ![s] = "send"] /\ pc[s] = "ready"
          /\ UNCHANGED <<stream, taken, returned>>
      BY <1>10 DEF BeginSend, Calls
    <2>2. /\ begun'[s] = Append(begun[s], n) /\ Len(begun'[s]) = Len(begun[s]) + 1
          /\ begun'[s][Len(begun'[s])] = n
          /\ \A k \in 1..Len(begun[s]) : begun'[s][k] = begun[s][k]
      BY <2>1, Elements DEF TypeInv, TypeOK
    <2>3. n \in Nat
      <3>1. size'[s] \in 0..SizeMax /\ size'[s] = n
        BY <1>0, <2>1 DEF TypeInv, TypeOK
      <3> QED
        BY <3>1, ConnectionAssumption
    <2>4. \A m \in Nat : Kept(s, m) /\ Kept(p, m)
      <3>1. begun'[p] = begun[p] /\ Len(begun[p]) \in Nat /\ Len(begun[s]) \in Nat
        BY <1>0, <2>1, Elements DEF TypeInv, TypeOK
      <3> QED
        BY <2>1, <2>2, <3>1 DEF Kept
    <2>5. Framed(s)' /\ Framed(p)'
      <3>1. \A t \in {s, p} : Len(stream[t]) \in 0..Len(stream[t])
                              /\ Kept(t, Len(stream[t])) /\ t \in Side
        BY <1>0, <2>4, Elements
      <3> QED
        BY <1>0, <2>1, <3>1, FramedKept
    <2>6. SendSync(s)'
      <3>1. Follow(s, Len(stream[s]))' = Follow(s, Len(stream[s]))
        BY <2>1, <2>4, FollowEnd, Elements
      <3>2. Follow(s, Len(stream[s])) = Byte(Len(begun[s]) + 1, 0)
        BY <1>0, <2>1 DEF SendSync
      <3>3. begun'[s] # <<>> /\ pos'[s] = 0 /\ size'[s] = n /\ pc'[s] = "send"
        <4>1. Len(begun'[s]) # 0
          BY <2>2, Elements
        <4> QED
          BY <1>0, <2>1, <4>1
      <3>4. pos'[s] < FrameLen(s)'
        BY <1>0, <2>3, <3>3 DEF FrameLen
      <3> QED
        BY <2>2, <3>1, <3>2, <3>3, <3>4 DEF SendSync
    <2>7. SendSync(p)'
      BY <1>0, <2>1, SendKept DEF TypeInv, TypeOK
    <2>8. RecvSync(p)'
      BY <1>0, <2>1, <2>4, RecvKept
    <2>9. RecvSync(s)'
      <3>1. Follow(p, taken[s])' = Follow(p, taken[s])
        BY <1>0, <2>1, <2>4, FollowTaken
      <3>2. pc'[s] = "send" /\ Follow(p, taken[s]) = Byte(Len(returned[s]) + 1, 0)
        BY <1>0, <2>1 DEF RecvSync
      <3> QED
        BY <2>1, <3>1, <3>2 DEF RecvSync
    <2>10. \A t \in Side : t = s \/ t = p
      BY DEF Side, Peer
    <2> QED
      BY <2>5, <2>6, <2>7, <2>8, <2>9, <2>10 DEF InStep
  <1>11. ASSUME NEW s \in Side, Write(s) PROVE InStep'
    <2> DEFINE p == Peer(s)
               g == Len(begun[s])
               l == Len(stream[s])
    <2>1. /\ pc[s] = "send" /\ Follow(s, l) = Byte(g, pos[s])
          /\ size[s] = begun[s][g] /\ g \in 1..Len(begun[s]) /\ l \in Nat
          /\ pos[s] < FrameLen(s)
      BY <1>0, <1>11, Elements DEF Write, SendSync
    <2>2. /\ stream'[s] = Append(stream[s], Byte(g, pos[s])) /\ stream'[p] = stream[p]
          /\ pos'[s] = pos[s] + 1 /\ pos'[p] = pos[p]
          /\ pc'[p] = pc[p]
          /\ \/ pos[s] + 1 = FrameLen(s) /\ pc'[s] = "ready"
             \/ pos[s] + 1 < FrameLen(s) /\ pc'[s] = "send"
          /\ UNCHANGED <<size, taken, begun, returned>>
      <3>1. /\ stream'[s] = Append(stream[s], Byte(g, pos[s]))
            /\ stream'[p] = stream[p]
        BY <1>0, <1>11, SMTT(30) DEF Write, TypeInv, TypeOK
      <3>2. pos'[s] = pos[s] + 1 /\ pos'[p] = pos[p]
        BY <1>0, <1>11 DEF Write
      <3>3. /\ pc'[p] = pc[p]
            /\ \/ pos[s] + 1 = FrameLen(s) /\ pc'[s] = "ready"
               \/ pos[s] + 1 < FrameLen(s) /\ pc'[s] = "send"
        BY <1>0, <1>11, <2>1 DEF Write, Returns, Continues
      <3> QED
        BY <1>11, <3>1, <3>2, <3>3 DEF Write
    <2>3. /\ Len(stream'[s]) = l + 1 /\ stream'[s][l + 1] = Byte(g, pos[s])
          /\ \A i \in 1..l : stream'[s][i] = stream[s][i]
      BY <2>2, Elements
    <2>4. (\A m \in 0..l : Kept(s, m)) /\ (\A m \in Nat : Kept(p, m))
      BY <1>0, <2>2, <2>3, Elements DEF Kept
    <2>5. Framed(s)'
      <3> SUFFICES ASSUME NEW i \in 1..(l + 1)
                   PROVE  /\ stream'[s][i] = Follow(s, i - 1)'
                          /\ stream'[s][i].frame \in 1..Len(begun[s])
        BY <2>2, <2>3 DEF Framed
      <3>1. Follow(s, i - 1)' = Follow(s, i - 1)
        BY <2>1, <2>4, FollowKept
      <3>2. CASE i \in 1..l
        BY <1>0, <2>3, <3>1, <3>2 DEF Framed
      <3>3. CASE i = l + 1
        <4>1. i - 1 = l /\ stream'[s][i] = Byte(g, pos[s])
          BY <2>1, <2>3, <3>3
        <4> QED
          BY <2>1, <3>1, <4>1 DEF Byte
      <3> QED
        BY <2>1, <3>2, <3>3
    <2>6. Framed(p)'
      BY <1>0, <2>2, <2>4, FramedKept, Elements
    <2>7. SendSync(s)'
      <3>1. Follow(s, Len(stream[s]))' =
              IF pos[s] + 1 < FrameLen(s) THEN Byte(g, pos[s] + 1) ELSE Byte(g + 1, 0)
        BY <2>1, <2>2, <2>3 DEF Follow, Byte, FrameLen
      <3>2. FrameLen(s)' = FrameLen(s) /\ begun[s] # <<>>
        BY <1>0, <2>1, <2>2 DEF FrameLen, SendSync
      <3>3. FrameLen(s) \in Nat
        BY <1>0 DEF FrameLen
      <3> QED
        BY <1>0, <2>1, <2>2, <3>1, <3>2, <3>3 DEF SendSync
    <2>8. SendSync(p)'
      BY <1>0, <2>2, SendKept
    <2>9. RecvSync(p)'
      BY <1>0, <2>2, <2>4, RecvKept, Elements, SMTT(30)
    <2>10. RecvSync(s)'
      <3>1. Follow(p, taken[s])' = Follow(p, taken[s])
        BY <1>0, <2>2, <2>4, FollowTaken
      <3>2. Follow(p, taken[s]) = Byte(Len(returned[s]) + 1, 0)
        BY <1>0, <2>1 DEF RecvSync
      <3> QED
        BY <2>2, <3>1, <3>2 DEF RecvSync
    <2>11. \A t \in Side : t = s \/ t = p
      BY DEF Side, Peer
    <2> QED
      BY <2>5, <2>6, <2>7, <2>8, <2>9, <2>10, <2>11 DEF InStep
  <1>12. ASSUME NEW s \in Side, Reset(s) PROVE InStep'
    <2> DEFINE p == Peer(s)
    <2>1. PICK n \in taken[p]..Len(stream[s]) :
            stream' = [stream EXCEPT ![s] = SubSeq(@, 1, n)]
      BY <1>12 DEF Reset
    <2>2. pc[s] = "closed" /\ UNCHANGED <<pc, size, pos, taken, begun, returned>>
      BY <1>12 DEF Reset
    <2>3. n \in 0..Len(stream[s]) /\ taken[p] \in 0..n
      BY <1>0, <2>1, Elements
    <2>4. /\ Len(stream'[s]) = n
          /\ \A i \in 1..n : stream'[s][i] = stream[s][i]
          /\ stream'[p] = stream[p]
      BY <1>0, <2>1, <2>3, SeqPrefix, Elements DEF TypeInv, TypeOK
    <2>5. (\A m \in 0..n : Kept(s, m)) /\ (\A m \in Nat : Kept(p, m))
      BY <1>0, <2>2, <2>3, <2>4, Elements DEF Kept
    <2>6. Framed(s)' /\ Framed(p)'
      BY <1>0, <2>2, <2>3, <2>4, <2>5, FramedKept, Elements
    <2>7. SendSync(s)' /\ RecvSync(s)'
      BY <2>2, ClosedSync
    <2>8. SendSync(p)'
      BY <1>0, <2>2, <2>4, SendKept
    <2>9. RecvSync(p)'
      BY <1>0, <2>2, <2>3, <2>5, RecvKept
    <2>10. \A t \in Side : t = s \/ t = p
      BY DEF Side, Peer
    <2> QED
      BY <2>6, <2>7, <2>8, <2>9, <2>10 DEF InStep
  <1>13. CASE UNCHANGED vars
    BY <1>13, SMTT(30) DEF vars, InStep, Framed, SendSync, RecvSync, Follow, FrameLen
  <1> QED
    BY <1>1, <1>2, <1>3, <1>4, <1>5, <1>7, <1>8, <1>9, <1>10, <1>11, <1>12, <1>13
       DEF Next, OwnerStep, SendStep, RecvStep, Terminated
-----------------------------------------------------------------------------
\* Whatever fails, and wherever, an owner that drops its Connection after every
\* exception but SendRefused is in step with its peer.
THEOREM StaysInStep ==
  ASSUME KeepAfter \subseteq {"SendRefused"}
  PROVE  Spec => []InStep
  <1>1. TypeInv /\ TypeInv' /\ InStep /\ [Next]_vars => InStep'
    BY InStepStep
  <1> QED
    BY <1>1, InStepInit, TypeAlways, PTL DEF Spec

\* A frame that was begun keeps its payload.
LEMMA PayloadKept ==
  ASSUME NEW p \in Side, NEW k \in 1..Len(begun[p]), begun'[p][k] = begun[p][k]
  PROVE  Payload(p, k)' = Payload(p, k)
  BY DEF Payload, Byte

\* No step takes back a frame that was begun.
LEMMA BegunGrows ==
  ASSUME TypeInv, [Next]_vars, NEW p \in Side
  PROVE  /\ Len(begun[p]) <= Len(begun'[p])
         /\ \A k \in 1..Len(begun[p]) : begun'[p][k] = begun[p][k]
  <1> DEFINE Grows == /\ Len(begun[p]) <= Len(begun'[p])
                      /\ \A k \in 1..Len(begun[p]) : begun'[p][k] = begun[p][k]
  <1>1. Len(begun[p]) \in Nat
    BY Elements
  <1>2. CASE UNCHANGED begun
    BY <1>1, <1>2
  <1>3. ASSUME NEW s \in Side, BeginSend(s) PROVE Grows
    <2>1. begun' = [begun EXCEPT ![s] = Append(@, Head(todo[s]).n)]
      BY <1>3 DEF BeginSend
    <2>2. CASE p = s
      <3>1. begun'[p] = Append(begun[p], Head(todo[s]).n)
        BY <2>1, <2>2 DEF TypeInv, TypeOK
      <3>2. begun[p] \in Seq(0..SizeMax)
        BY Elements
      <3> QED
        BY <1>1, <3>1, <3>2
    <2>3. CASE p # s
      BY <1>1, <2>1, <2>3 DEF TypeInv, TypeOK
    <2> QED
      BY <2>2, <2>3
  <1>4. UNCHANGED begun \/ \E s \in Side : BeginSend(s)
    BY DEF Next, OwnerStep, SendStep, RecvStep, Terminated, vars, SendRefused, Write,
           WriteFails, BeginRecv, ReadHeader, HeaderRead, ReadBody, ReadFails,
           SetMaxBufferSize, Close, Shutdown, Crash, Reset
  <1> QED
    BY <1>2, <1>3, <1>4

\* What recv_message returns when it returns is the next message of the peer.
LEMMA ReturnsNext ==
  ASSUME TypeInv, InStep, [Next]_vars, NEW s \in Side, returned'[s] # returned[s]
  PROVE  LET f == Len(returned[s]) + 1
             p == Peer(s)
         IN  /\ f \in 1..Len(begun[p])
             /\ returned'[s] = Append(returned[s], Payload(p, f))
  <1> DEFINE f == Len(returned[s]) + 1
             p == Peer(s)
  <1>0. returned \in [Side -> Seq(Seq(Bytes))]
    BY DEF TypeInv, TypeOK
  <1>1. PICK t \in Side : HeaderRead(t) \/ ReadBody(t)
    BY DEF Next, OwnerStep, SendStep, RecvStep, Terminated, vars, SendRefused, BeginSend,
           Write, WriteFails, BeginRecv, ReadHeader, ReadFails,
           SetMaxBufferSize, Close, Shutdown, Crash, Reset
  <1>2. t = s
    BY <1>0, <1>1 DEF HeaderRead, ReadBody, EmptyBody
  <1>3. CASE HeaderRead(s)
    <2>1. Read(s) /\ pos[s] + 1 = HeaderLen
      BY <1>3 DEF HeaderRead
    <2>2. f \in 1..Len(begun[p]) /\ Decoded(p, taken[s] + 1) = {begun[p][f]}
      BY <2>1, ReadByte, DecodedInStep
    <2>3. begun[p][f] = 0 /\ EmptyBody(s)
      BY <1>3, <2>2 DEF HeaderRead
    <2>4. Payload(p, f) = <<>>
      BY <2>3 DEF Payload
    <2> QED
      BY <1>0, <2>2, <2>3, <2>4 DEF EmptyBody
  <1>4. CASE ReadBody(s)
    <2>1. /\ Read(s) /\ pos[s] >= HeaderLen /\ pos[s] + 1 = FrameLen(s)
          /\ returned'[s] = Append(returned[s], Received(s, size[s], taken[s] + 1))
      BY <1>0, <1>4 DEF ReadBody
    <2>2. /\ f \in 1..Len(begun[p]) /\ size[s] = begun[p][f] /\ pos[s] <= taken[s]
          /\ \A i \in 1..(pos[s] + 1) :
               stream[p][(taken[s] - pos[s]) + i] = Byte(f, i - 1)
      BY <2>1, ReadByte DEF Read, InStep, RecvSync
    <2>3. /\ size[s] \in Nat /\ pos[s] \in Nat /\ taken[s] \in Nat
          /\ HeaderLen \in Nat \ {0} /\ pos[s] + 1 = HeaderLen + size[s]
      BY <2>1, Elements, ConnectionAssumption DEF FrameLen
    <2>4. \A i \in 1..size[s] :
            stream[p][(taken[s] + 1) - size[s] + i] = Byte(f, HeaderLen + i - 1)
      <3> SUFFICES ASSUME NEW i \in 1..size[s]
                   PROVE  stream[p][(taken[s] + 1) - size[s] + i]
                            = Byte(f, HeaderLen + i - 1)
        OBVIOUS
      <3>1. /\ HeaderLen + i \in 1..(pos[s] + 1)
            /\ (taken[s] - pos[s]) + (HeaderLen + i) = (taken[s] + 1) - size[s] + i
            /\ (HeaderLen + i) - 1 = HeaderLen + i - 1
        BY <2>3
      <3>2. stream[p][(taken[s] - pos[s]) + (HeaderLen + i)] = Byte(f, (HeaderLen + i) - 1)
        BY <2>2, <3>1
      <3> QED
        BY <3>1, <3>2
    <2>5. Received(s, size[s], taken[s] + 1) = Payload(p, f)
      BY <2>2, <2>4 DEF Received, Payload
    <2> QED
      BY <2>1, <2>2, <2>5
  <1> QED
    BY <1>1, <1>2, <1>3, <1>4

LEMMA DeliveredStep ==
  TypeInv /\ TypeInv' /\ InStep /\ DeliveredIntact /\ [Next]_vars => DeliveredIntact'
  <1> SUFFICES ASSUME TypeInv, TypeInv', InStep, DeliveredIntact, [Next]_vars,
                      NEW s \in Side, NEW k \in 1..Len(returned'[s])
               PROVE  /\ k <= Len(begun'[Peer(s)])
                      /\ returned'[s][k] = Payload(Peer(s), k)'
    BY DEF DeliveredIntact
  <1> DEFINE p == Peer(s)
  <1>0. p \in Side /\ Len(begun[p]) \in Nat /\ returned[s] \in Seq(Seq(Bytes))
        /\ Len(returned[s]) \in Nat
    <2>1. returned[s] \in Seq(Seq(Bytes))
      BY Elements
    <2> QED
      BY <2>1, PeerType, Elements, SeqElement
  <1>1. ASSUME k \in 1..Len(begun[p]), returned'[s][k] = Payload(p, k)
        PROVE  k <= Len(begun'[Peer(s)]) /\ returned'[s][k] = Payload(Peer(s), k)'
    <2>1. begun'[p][k] = begun[p][k] /\ Len(begun[p]) <= Len(begun'[p])
      BY <1>0, <1>1, BegunGrows
    <2>2. begun'[p] \in Seq(0..SizeMax)
      BY <1>0 DEF TypeInv, TypeOK
    <2>3. Len(begun'[p]) \in Nat
      BY <2>2, SeqElement
    <2>4. Payload(p, k)' = Payload(p, k)
      BY <1>0, <1>1, <2>1, PayloadKept
    <2> QED
      BY <1>0, <1>1, <2>1, <2>3, <2>4
  <1>2. CASE returned'[s] = returned[s]
    <2>1. k <= Len(begun[p]) /\ returned[s][k] = Payload(p, k)
      BY <1>2 DEF DeliveredIntact
    <2> QED
      BY <1>0, <1>1, <1>2, <2>1
  <1>3. CASE returned'[s] # returned[s]
    <2> DEFINE f == Len(returned[s]) + 1
    <2>1. f \in 1..Len(begun[p]) /\ returned'[s] = Append(returned[s], Payload(p, f))
      BY <1>3, ReturnsNext
    <2>2. CASE k = f
      <3>1. returned'[s][k] = Payload(p, k)
        BY <1>0, <2>1, <2>2
      <3> QED
        BY <1>1, <2>1, <2>2, <3>1
    <2>3. CASE k # f
      <3>1. k \in 1..Len(returned[s]) /\ returned'[s][k] = returned[s][k]
        BY <1>0, <2>1, <2>3
      <3>2. k <= Len(begun[p]) /\ returned[s][k] = Payload(p, k)
        BY <3>1 DEF DeliveredIntact
      <3> QED
        BY <1>0, <1>1, <3>1, <3>2
    <2> QED
      BY <2>2, <2>3
  <1> QED
    BY <1>2, <1>3

\* The k-th message recv_message returns is the k-th one the peer passed to
\* send_message, for an owner that drops its Connection after every exception
\* but SendRefused: for any sizes, limits, programs, and any fault anywhere.
THEOREM DeliveryCorrect ==
  ASSUME KeepAfter \subseteq {"SendRefused"}
  PROVE  Spec => []DeliveredIntact
  <1>1. Init => DeliveredIntact
    BY DEF Init, DeliveredIntact
  <1>2. Spec => []InStep
    BY StaysInStep
  <1>3. TypeInv /\ TypeInv' /\ InStep /\ DeliveredIntact /\ [Next]_vars => DeliveredIntact'
    BY DeliveredStep
  <1> QED
    BY <1>1, <1>2, <1>3, TypeAlways, PTL DEF Spec
-----------------------------------------------------------------------------
(* The message channel a Connection implements. *)

Sent == [s \in Side |-> [k \in 1..Len(begun[s]) |-> Payload(s, k)]]

LEMMA ChannelInit == Init => Channel!Init
  <1> SUFFICES ASSUME Init PROVE Channel!Init
    OBVIOUS
  <1>1. \A s \in Side : [k \in 1..Len(begun[s]) |-> Payload(s, k)] = <<>>
    BY DEF Init
  <1>2. returned = [s \in Side |-> <<>>]
    BY DEF Init
  <1> QED
    BY <1>1, <1>2 DEF Channel!Init

LEMMA SentSame ==
  ASSUME UNCHANGED begun
  PROVE  Sent' = Sent
  BY DEF Sent, Payload, Byte

LEMMA PayloadType ==
  ASSUME TypeInv, NEW s \in Side, NEW k \in 1..Len(begun[s])
  PROVE  Payload(s, k) \in Seq(Bytes)
  <1>1. begun[s][k] \in Nat /\ HeaderLen \in Nat /\ k \in Nat
    <2>1. begun[s] \in Seq(0..SizeMax)
      BY Elements
    <2> QED
      BY <2>1, SeqElement, ConnectionAssumption
  <1>2. Payload(s, k) \in [1..begun[s][k] -> Bytes]
    BY <1>1 DEF Payload, Byte, Bytes
  <1> QED
    BY <1>1, <1>2, SeqOfFunction

\* Sent lists, for every frame begun, its payload.
SentTyped ==
  \A s \in Side : /\ Sent[s] \in Seq(Seq(Bytes))
                  /\ Len(Sent[s]) = Len(begun[s])
                  /\ \A k \in 1..Len(begun[s]) : Sent[s][k] = Payload(s, k)

LEMMA SentType == TypeInv => SentTyped
  <1> SUFFICES ASSUME TypeInv, NEW s \in Side
               PROVE  /\ Sent[s] \in Seq(Seq(Bytes))
                      /\ Len(Sent[s]) = Len(begun[s])
                      /\ \A k \in 1..Len(begun[s]) : Sent[s][k] = Payload(s, k)
    BY DEF SentTyped
  <1>1. Len(begun[s]) \in Nat
    BY Elements
  <1>2. Sent[s] = [k \in 1..Len(begun[s]) |-> Payload(s, k)]
    BY DEF Sent
  <1>3. Sent[s] \in [1..Len(begun[s]) -> Seq(Bytes)]
    BY <1>2, PayloadType
  <1>4. Sent[s] \in Seq(Seq(Bytes))
    BY <1>1, <1>3, SeqOfFunction
  <1>5. Len(Sent[s]) = Len(begun[s])
    BY <1>1, <1>2
  <1> QED
    BY <1>2, <1>4, <1>5

LEMMA SeqExtends ==
  ASSUME NEW S, NEW q \in Seq(S), NEW r \in Seq(S), Len(r) <= Len(q),
         \A i \in 1..Len(r) : q[i] = r[i]
  PROVE  SubSeq(q, 1, Len(r)) = r
  OBVIOUS

LEMMA ChannelStep ==
  TypeInv /\ TypeInv' /\ SentTyped /\ SentTyped' /\ InStep /\ [Next]_vars
    => [Channel!Next]_(Channel!vars)
  <1> SUFFICES ASSUME TypeInv, TypeInv', SentTyped, SentTyped', InStep, [Next]_vars
               PROVE  [Channel!Next]_(Channel!vars)
    OBVIOUS
  <1>0. returned \in [Side -> Seq(Seq(Bytes))] /\ returned' \in [Side -> Seq(Seq(Bytes))]
    BY DEF TypeInv, TypeOK
  <1>1. ASSUME NEW s \in Side, BeginSend(s) PROVE Channel!Next
    <2>1. /\ begun' = [begun EXCEPT ![s] = Append(@, Head(todo[s]).n)]
          /\ UNCHANGED returned
      BY <1>1 DEF BeginSend
    <2>2. Len(begun'[s]) = Len(begun[s]) + 1
      BY <2>1, Elements DEF TypeInv, TypeOK
    <2>3. /\ Sent[s] \in Seq(Seq(Bytes)) /\ Len(Sent[s]) = Len(begun[s])
          /\ \A k \in 1..Len(begun[s]) : Sent[s][k] = Payload(s, k)
      BY DEF SentTyped
    <2>4. /\ Sent'[s] \in Seq(Seq(Bytes)) /\ Len(Sent'[s]) = Len(begun'[s])
          /\ \A k \in 1..Len(begun'[s]) : Sent'[s][k] = Payload(s, k)'
      BY DEF SentTyped
    <2>5. \A k \in 1..Len(Sent[s]) : Sent'[s][k] = Sent[s][k]
      <3> SUFFICES ASSUME NEW k \in 1..Len(Sent[s]) PROVE Sent'[s][k] = Sent[s][k]
        OBVIOUS
      <3>1. k \in 1..Len(begun[s]) /\ Sent[s][k] = Payload(s, k)
        BY <2>3
      <3>2. k \in 1..Len(begun'[s])
        <4>1. Len(begun[s]) \in Nat
          BY Elements
        <4> QED
          BY <2>2, <3>1, <4>1
      <3>3. Sent'[s][k] = Payload(s, k)'
        BY <2>4, <3>2
      <3>4. Payload(s, k)' = Payload(s, k)
        <4>1. begun'[s][k] = begun[s][k]
          BY <3>1, BegunGrows
        <4> QED
          BY <3>1, <4>1, PayloadKept
      <3> QED
        BY <3>1, <3>3, <3>4
    <2>6. SubSeq(Sent'[s], 1, Len(Sent[s])) = Sent[s]
      BY <2>2, <2>3, <2>4, <2>5, SeqExtends, Elements
    <2>7. \A t \in Side \ {s} : Sent'[t] = Sent[t]
      BY <2>1 DEF Sent, Payload, Byte, TypeInv, TypeOK
    <2>8. Channel!Send(s)
      BY <2>1, <2>2, <2>3, <2>4, <2>6, <2>7 DEF Channel!Send, Sent
    <2> QED
      BY <2>8 DEF Channel!Next
  <1>2. ASSUME UNCHANGED begun, NEW s \in Side, returned'[s] # returned[s]
        PROVE  Channel!Next
    <2> DEFINE f == Len(returned[s]) + 1
               p == Peer(s)
    <2>1. f \in 1..Len(begun[p]) /\ returned'[s] = Append(returned[s], Payload(p, f))
      BY <1>2, ReturnsNext
    <2>2. Sent[p][f] = Payload(p, f) /\ Len(Sent[p]) = Len(begun[p])
      BY <2>1, PeerType DEF SentTyped
    <2>3. \A t \in Side \ {s} : returned'[t] = returned[t]
      BY <1>0, <1>2 DEF Next, OwnerStep, SendStep, RecvStep, Terminated, vars, SendRefused,
           BeginSend, Write, WriteFails, BeginRecv, ReadHeader, ReadFails, HeaderRead,
           ReadBody, EmptyBody, SetMaxBufferSize, Close, Shutdown, Crash, Reset
    <2>4. returned' = [returned EXCEPT ![s] = Append(@, Sent[p][Len(@) + 1])]
      BY <1>0, <2>1, <2>2, <2>3
    <2>5. Len(returned[s]) < Len(Sent[p])
      BY <2>1, <2>2, PeerType, Elements
    <2>6. Sent' = Sent
      BY <1>2, SentSame
    <2>7. Channel!Deliver(s)
      BY <2>4, <2>5, <2>6 DEF Channel!Deliver, Sent
    <2> QED
      BY <2>7 DEF Channel!Next
  <1>3. CASE UNCHANGED <<begun, returned>>
    BY <1>3, SentSame DEF Channel!vars, Sent
  <1>4. \/ \E s \in Side : BeginSend(s)
        \/ UNCHANGED begun
    BY DEF Next, OwnerStep, SendStep, RecvStep, Terminated, vars, SendRefused, Write,
           WriteFails, BeginRecv, ReadHeader, HeaderRead, ReadBody, ReadFails,
           SetMaxBufferSize, Close, Shutdown, Crash, Reset
  <1>5. returned' = returned \/ \E s \in Side : returned'[s] # returned[s]
    BY <1>0
  <1> QED
    BY <1>1, <1>2, <1>3, <1>4, <1>5

\* A Connection is a message channel.
THEOREM ImplementsChannel ==
  ASSUME KeepAfter \subseteq {"SendRefused"}
  PROVE  Spec => ChannelSpec
  <1>1. Spec => []InStep
    BY StaysInStep
  <1> QED
    BY <1>1, TypeAlways, SentType, ChannelInit, ChannelStep, PTL DEF Spec, ChannelSpec, Channel!Spec
=============================================================================
