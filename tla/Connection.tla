----------------------------- MODULE Connection -----------------------------
(***************************************************************************)
(* comm::Connection: length-prefixed messages over a byte stream, with the *)
(* read and write of TCPConnection and TLSConnection beneath.  Each side   *)
(* is one thread that owns a Connection and issues the calls listed in its *)
(* program; a second thread may call shutdown() at any moment.             *)
(*                                                                         *)
(* A byte is the pair of the frame it belongs to and its offset in that    *)
(* frame: the first HeaderLen bytes hold the frame's size, the rest is the *)
(* payload.  stream[s] keeps every byte side s ever wrote and taken[s] how *)
(* many bytes side s consumed of its peer's stream.                        *)
(***************************************************************************)
EXTENDS Integers, Sequences

CONSTANTS HeaderLen,      \* sizeof(uint32_t)
          SizeMax,        \* the largest uint32_t
          MinBuffer,      \* MIN_BUFFER_SIZE
          MaxBuffer,      \* MAX_BUFFER_SIZE
          DefaultBuffer,  \* DEFAULT_BUFFER_SIZE
          Capacity,       \* bytes the kernels hold in one direction
          Transport,      \* "tcp" or "tls"
          Programs,       \* the calls the two owners may be about to make
          KeepAfter,      \* exceptions after which an owner goes on
          MaxFaults       \* bound on signals, timeouts, shutdowns, crashes

Side == {"client", "server"}

Peer(s) == IF s = "client" THEN "server" ELSE "client"

\* A call of the owner: send_message with a payload of n bytes,
\* recv_message, or set_max_buffer_size(n).
Op == [op : {"send", "recv", "limit"}, n : 0..SizeMax]

\* What a call can throw.  InvalidMessageSize is split by the call that
\* throws it.
Exception == {"SendRefused", "RecvRefused", "WriteFail", "ReadFail",
              "ConnectionShutDown"}

ASSUME ConnectionAssumption ==
  /\ HeaderLen \in Nat \ {0}
  /\ SizeMax \in Nat
  /\ MinBuffer \in Nat /\ DefaultBuffer \in Nat /\ MaxBuffer \in Nat
  /\ MinBuffer <= DefaultBuffer /\ DefaultBuffer <= MaxBuffer
  /\ MaxBuffer <= SizeMax
  /\ Capacity \in Nat \ {0}
  /\ Transport \in {"tcp", "tls"}
  /\ Programs \subseteq [Side -> Seq(Op)]
  /\ KeepAfter \subseteq Exception
  /\ MaxFaults \in Nat

VARIABLES todo,      \* calls the owner has still to finish, the current first
          pc,        \* "ready", inside "send" or "recv", or "closed"
          size,      \* size of the frame being sent or received
          pos,       \* bytes of that frame written or read so far
          limit,     \* _max_buffer_size
          stream,    \* bytes written
          taken,     \* bytes consumed of the peer's stream
          begun,     \* sizes of the frames this side started to write
          returned,  \* payloads recv_message returned
          shut,      \* the socket was shut down or closed
          faults     \* faults so far

vars == <<todo, pc, size, pos, limit, stream, taken, begun, returned, shut,
          faults>>

Bytes == [frame : Nat, at : Nat]

Byte(f, i) == [frame |-> f, at |-> i]

\* The payload of the k-th frame side s started to write.
Payload(s, k) == [i \in 1..begun[s][k] |-> Byte(k, HeaderLen + i - 1)]

Avail(s) == Len(stream[Peer(s)]) - taken[s]

Room(s) == Capacity - (Len(stream[s]) - taken[Peer(s)])

FrameLen(s) == HeaderLen + size[s]

Init ==
  /\ todo \in Programs
  /\ pc = [s \in Side |-> "ready"]
  /\ size = [s \in Side |-> 0]
  /\ pos = [s \in Side |-> 0]
  /\ limit = [s \in Side |-> DefaultBuffer]
  /\ stream = [s \in Side |-> <<>>]
  /\ taken = [s \in Side |-> 0]
  /\ begun = [s \in Side |-> <<>>]
  /\ returned = [s \in Side |-> <<>>]
  /\ shut = [s \in Side |-> FALSE]
  /\ faults = 0
-----------------------------------------------------------------------------
(* How a call ends. *)

Calls(s, op) ==
  /\ pc[s] = "ready"
  /\ todo[s] # <<>>
  /\ Head(todo[s]).op = op

Returns(s) ==
  /\ pc' = [pc EXCEPT ![s] = "ready"]
  /\ todo' = [todo EXCEPT ![s] = Tail(@)]
  /\ UNCHANGED shut

\* The call ends with exception e: the owner either keeps the Connection and
\* goes on with its next call, or drops it, which closes the socket.
Throws(s, e) ==
  /\ pc' = [pc EXCEPT ![s] = IF e \in KeepAfter THEN "ready" ELSE "closed"]
  /\ todo' = [todo EXCEPT ![s] = Tail(@)]
  /\ shut' = [shut EXCEPT ![s] = @ \/ e \notin KeepAfter]

Continues == UNCHANGED <<pc, todo, shut>>
-----------------------------------------------------------------------------
(* send_message *)

\* Mutant: the size is checked against the compiled-in maximum instead of the
\* configured limit.
TooLargeForAnyone(s, n) == n > MaxBuffer

TooLarge(s, n) == n > limit[s]

SendRefused(s) ==
  /\ Calls(s, "send")
  /\ TooLarge(s, Head(todo[s]).n)
  /\ Throws(s, "SendRefused")
  /\ UNCHANGED <<size, pos, limit, stream, taken, begun, returned, faults>>

BeginSend(s) ==
  /\ Calls(s, "send")
  /\ ~TooLarge(s, Head(todo[s]).n)
  /\ pc' = [pc EXCEPT ![s] = "send"]
  /\ size' = [size EXCEPT ![s] = Head(todo[s]).n]
  /\ pos' = [pos EXCEPT ![s] = 0]
  /\ begun' = [begun EXCEPT ![s] = Append(@, Head(todo[s]).n)]
  /\ UNCHANGED <<todo, limit, stream, taken, returned, shut, faults>>

\* The kernel copies one more byte of the frame.  Each write() and read() is a
\* run of such steps: how many bytes the peer can see in between, and how many
\* one call moves, is up to the kernel.
Write(s) ==
  /\ pc[s] = "send"
  /\ ~shut[s]
  /\ Room(s) > 0
  /\ stream' = [stream EXCEPT ![s] = Append(@, Byte(Len(begun[s]), pos[s]))]
  /\ pos' = [pos EXCEPT ![s] = @ + 1]
  /\ \/ pos[s] + 1 = FrameLen(s) /\ Returns(s)
     \/ pos[s] + 1 < FrameLen(s) /\ Continues
  /\ UNCHANGED <<size, limit, taken, begun, returned, faults>>

\* Mutant: a header cut short by a signal is not noticed, the payload follows.
ShortHeaderIgnored(s) ==
  /\ pc[s] = "send"
  /\ \/ /\ shut[s] \/ shut[Peer(s)]
        /\ Throws(s, "WriteFail")
        /\ UNCHANGED <<pos, faults>>
     \/ /\ Room(s) = 0 /\ faults < MaxFaults /\ faults' = faults + 1
        /\ pos[s] \in 1..(HeaderLen - 1) /\ size[s] > 0
        /\ pos' = [pos EXCEPT ![s] = HeaderLen]
        /\ Continues
  /\ UNCHANGED <<size, limit, stream, taken, begun, returned>>

\* write() fails because one end is shut down, or because a signal interrupts
\* it while it waits for room: before any byte (EINTR) or, in the header,
\* after a short write, which send_message does not resume.
WriteFails(s) ==
  /\ pc[s] = "send"
  /\ \/ (shut[s] \/ shut[Peer(s)]) /\ UNCHANGED faults
     \/ Room(s) = 0 /\ faults < MaxFaults /\ faults' = faults + 1
  /\ Throws(s, "WriteFail")
  /\ UNCHANGED <<size, pos, limit, stream, taken, begun, returned>>
-----------------------------------------------------------------------------
(* recv_message *)

BeginRecv(s) ==
  /\ Calls(s, "recv")
  /\ pc' = [pc EXCEPT ![s] = "recv"]
  /\ pos' = [pos EXCEPT ![s] = 0]
  /\ UNCHANGED <<todo, size, limit, stream, taken, begun, returned, shut,
                 faults>>

\* The kernel hands over one more byte.
Read(s) ==
  /\ pc[s] = "recv"
  /\ Avail(s) > 0
  /\ taken' = [taken EXCEPT ![s] = @ + 1]
  /\ pos' = [pos EXCEPT ![s] = @ + 1]

ReadHeader(s) ==
  /\ Read(s)
  /\ pos[s] + 1 < HeaderLen
  /\ Continues
  /\ UNCHANGED <<size, limit, stream, begun, returned, faults>>

\* What the HeaderLen bytes of p's stream that end at index j decode to: the
\* size of a frame when they are its header, anything when they are not.
Decoded(p, j) ==
  LET f == stream[p][j].frame
  IN  IF \A i \in 1..HeaderLen : stream[p][j - HeaderLen + i] = Byte(f, i - 1)
        THEN {begun[p][f]}
        ELSE 0..SizeMax

\* Mutant: the body is read in a do-while loop, so that an empty body asks
\* recv() for 0 bytes and takes the 0 it returns for the end of the stream.
EmptyBodyIsEof(s) == Throws(s, "ConnectionShutDown") /\ UNCHANGED returned

\* A frame without payload needs no further read().
EmptyBody(s) ==
  /\ Returns(s)
  /\ returned' = [returned EXCEPT ![s] = Append(@, <<>>)]

\* The byte that completes the header, and the check of the size in it.
HeaderRead(s) ==
  /\ Read(s)
  /\ pos[s] + 1 = HeaderLen
  /\ \E n \in Decoded(Peer(s), taken[s] + 1) :
       /\ size' = [size EXCEPT ![s] = n]
       /\ \/ /\ TooLarge(s, n)
             /\ Throws(s, "RecvRefused")
             /\ UNCHANGED returned
          \/ /\ ~TooLarge(s, n)
             /\ n = 0
             /\ EmptyBody(s)
          \/ /\ ~TooLarge(s, n)
             /\ n > 0
             /\ Continues
             /\ UNCHANGED returned
  /\ UNCHANGED <<limit, stream, begun, faults>>

\* Mutants: the buffer keeps one byte of the header; the body loses its last
\* byte.
ReceivedEarly(s, n, j) == [i \in 1..n |-> stream[Peer(s)][j - n + i - 1]]
ReceivedShort(s, n, j) == [i \in 1..(n - 1) |-> stream[Peer(s)][j - n + i]]

\* The n bytes of the peer's stream that end at index j.
Received(s, n, j) == [i \in 1..n |-> stream[Peer(s)][j - n + i]]

ReadBody(s) ==
  /\ Read(s)
  /\ pos[s] >= HeaderLen
  /\ \/ /\ pos[s] + 1 = FrameLen(s)
        /\ Returns(s)
        /\ returned' = [returned EXCEPT ![s] =
                          Append(@, Received(s, size[s], taken[s] + 1))]
     \/ /\ pos[s] + 1 < FrameLen(s)
        /\ Continues
        /\ UNCHANGED returned
  /\ UNCHANGED <<size, limit, stream, begun, faults>>

\* Mutant: a recv() that returns 0 counts as "nothing yet".
EofIgnored(s) ==
  /\ pc[s] = "recv"
  /\ Avail(s) = 0
  /\ faults < MaxFaults
  /\ Throws(s, "ReadFail")
  /\ faults' = faults + 1
  /\ UNCHANGED <<size, pos, limit, stream, taken, begun, returned>>

\* read() finds nothing to return: the stream has ended or was reset, a signal
\* interrupts the wait, or (plain TCP only, accepted sockets only) the receive
\* timeout inherited from the listening socket expires.
ReadFails(s) ==
  /\ pc[s] = "recv"
  /\ Avail(s) = 0
  /\ \/ /\ shut[s] \/ shut[Peer(s)]
        /\ Throws(s, "ConnectionShutDown")
        /\ UNCHANGED faults
     \/ /\ shut[Peer(s)] /\ Transport = "tcp"
        /\ Throws(s, "ReadFail")
        /\ UNCHANGED faults
     \/ /\ faults < MaxFaults
        /\ Throws(s, "ReadFail")
        /\ faults' = faults + 1
     \/ /\ faults < MaxFaults
        /\ s = "server"
        /\ Transport = "tcp"
        /\ Throws(s, "ConnectionShutDown")
        /\ faults' = faults + 1
  /\ UNCHANGED <<size, pos, limit, stream, taken, begun, returned>>
-----------------------------------------------------------------------------
(* The rest of the interface, and the end of a side. *)

AtLeast(a, b) == IF a > b THEN a ELSE b
AtMost(a, b) == IF a < b THEN a ELSE b

\* Mutant: the lower bound is lost.
ClampAbove(n) == AtMost(MaxBuffer, n)

Clamp(n) == AtMost(MaxBuffer, AtLeast(MinBuffer, n))

SetMaxBufferSize(s) ==
  /\ Calls(s, "limit")
  /\ limit' = [limit EXCEPT ![s] = Clamp(Head(todo[s]).n)]
  /\ Returns(s)
  /\ UNCHANGED <<size, pos, stream, taken, begun, returned, faults>>

\* The owner has no call left and destroys the Connection.
Close(s) ==
  /\ pc[s] = "ready"
  /\ todo[s] = <<>>
  /\ pc' = [pc EXCEPT ![s] = "closed"]
  /\ shut' = [shut EXCEPT ![s] = TRUE]
  /\ UNCHANGED <<todo, size, pos, limit, stream, taken, begun, returned,
                 faults>>

\* shutdown(), from another thread of the owner's process.
Shutdown(s) ==
  /\ faults < MaxFaults
  /\ ~shut[s]
  /\ shut' = [shut EXCEPT ![s] = TRUE]
  /\ faults' = faults + 1
  /\ UNCHANGED <<todo, pc, size, pos, limit, stream, taken, begun, returned>>

\* The process dies and its kernel closes the socket.
Crash(s) ==
  /\ faults < MaxFaults
  /\ pc[s] # "closed"
  /\ pc' = [pc EXCEPT ![s] = "closed"]
  /\ shut' = [shut EXCEPT ![s] = TRUE]
  /\ faults' = faults + 1
  /\ UNCHANGED <<todo, size, pos, limit, stream, taken, begun, returned>>

\* A closed socket that holds or receives unread bytes answers with a reset,
\* and a tail of what it sent may never reach the peer.
Reset(s) ==
  /\ pc[s] = "closed"
  /\ Avail(s) > 0
  /\ \E n \in taken[Peer(s)]..Len(stream[s]) :
       stream' = [stream EXCEPT ![s] = SubSeq(@, 1, n)]
  /\ UNCHANGED <<todo, pc, size, pos, limit, taken, begun, returned, shut,
                 faults>>

SendStep(s) == SendRefused(s) \/ BeginSend(s) \/ Write(s) \/ WriteFails(s)

RecvStep(s) == BeginRecv(s) \/ ReadHeader(s) \/ HeaderRead(s) \/ ReadBody(s)
                 \/ ReadFails(s)

OwnerStep(s) == SendStep(s) \/ RecvStep(s) \/ SetMaxBufferSize(s) \/ Close(s)

Terminated == (\A s \in Side : pc[s] = "closed") /\ UNCHANGED vars

Next ==
  \/ \E s \in Side : OwnerStep(s) \/ Shutdown(s) \/ Crash(s) \/ Reset(s)
  \/ Terminated

Spec == Init /\ [][Next]_vars

\* Every thread that can take a step of a call eventually does.
FairSpec == Spec /\ \A s \in Side : WF_vars(OwnerStep(s))
-----------------------------------------------------------------------------
(* What the framing promises. *)

\* Every variable keeps its type, and the limit stays where
\* set_max_buffer_size clamps it (Connection.cc).
TypeOK ==
  /\ todo \in [Side -> Seq(Op)]
  /\ pc \in [Side -> {"ready", "send", "recv", "closed"}]
  /\ size \in [Side -> 0..SizeMax]
  /\ pos \in [Side -> Nat]
  /\ limit \in [Side -> MinBuffer..MaxBuffer]
  /\ stream \in [Side -> Seq(Bytes)]
  /\ taken \in [Side -> Nat]
  /\ \A s \in Side : taken[s] <= Len(stream[Peer(s)])
  /\ begun \in [Side -> Seq(0..SizeMax)]
  /\ returned \in [Side -> Seq(Seq(Bytes))]
  /\ shut \in [Side -> BOOLEAN]
  /\ faults \in 0..MaxFaults

\* The k-th message recv_message returns is, byte for byte, the k-th one the
\* peer passed to send_message: none is torn, skipped, repeated or invented,
\* whatever the kernels split, however the calls of the two sides interleave
\* and wherever a side fails.
DeliveredIntact ==
  \A s \in Side : \A k \in 1..Len(returned[s]) :
    /\ k <= Len(begun[Peer(s)])
    /\ returned[s][k] = Payload(Peer(s), k)

\* The byte that belongs after the first j bytes of side s's stream.
Follow(s, j) ==
  IF j = 0 THEN Byte(1, 0)
  ELSE LET b == stream[s][j] IN
         IF b.at + 1 < HeaderLen + begun[s][b.frame]
           THEN Byte(b.frame, b.at + 1)
           ELSE Byte(b.frame + 1, 0)

\* A stream is whole frames one after the other, the last one perhaps cut.
Framed(s) ==
  \A i \in 1..Len(stream[s]) :
    /\ stream[s][i] = Follow(s, i - 1)
    /\ stream[s][i].frame \in 1..Len(begun[s])

\* An open side is about to write the byte that belongs next in its stream:
\* no failed send has left half a frame behind it.
SendSync(s) ==
  LET next == Follow(s, Len(stream[s])) IN
  /\ pc[s] = "send" =>
       /\ next = Byte(Len(begun[s]), pos[s])
       /\ begun[s] # <<>>
       /\ size[s] = begun[s][Len(begun[s])]
       /\ pos[s] < FrameLen(s)
  /\ pc[s] \in {"ready", "recv"} => next = Byte(Len(begun[s]) + 1, 0)

\* An open side has consumed whole frames, one per message returned, and the
\* first pos bytes of the frame after them.
RecvSync(s) ==
  LET f == Len(returned[s]) + 1
      p == Peer(s)
  IN
  /\ pc[s] \in {"ready", "send"} => Follow(p, taken[s]) = Byte(f, 0)
  /\ pc[s] = "recv" =>
       /\ pos[s] <= taken[s]
       /\ Follow(p, taken[s]) = Byte(f, pos[s])
       /\ \A i \in 1..pos[s] : stream[p][taken[s] - pos[s] + i] = Byte(f, i - 1)
       /\ pos[s] >= HeaderLen => /\ f <= Len(begun[p])
                                 /\ size[s] = begun[p][f]
                                 /\ pos[s] < FrameLen(s)

\* Both directions of a connection stay in step: each side of it, as long as
\* its owner has not dropped it, is at a frame boundary of both streams
\* whenever it is outside a call, and inside a call it is where the call's own
\* count of bytes says.  This is what DeliveredIntact rests on.
InStep == \A s \in Side : Framed(s) /\ SendSync(s) /\ RecvSync(s)

\* A body is only ever read into the buffer when its size is within the limit
\* of the reading side, even after earlier calls failed and left the stream
\* out of step, so that a size field may hold any four bytes of it.
BufferWithinLimit ==
  \A s \in Side : pc[s] = "recv" /\ pos[s] >= HeaderLen =>
                     size[s] <= limit[s] /\ pos[s] < FrameLen(s)

Channel == INSTANCE MessageChannel WITH
             sent <- [s \in Side |-> [k \in 1..Len(begun[s]) |-> Payload(s, k)]],
             got <- returned

\* A Connection is a message channel: the abstract specification, under the
\* payloads handed to the kernel and the messages returned.
ChannelSpec == Channel!Spec

\* Without faults, two owners whose calls match get every message across and
\* end: no write waits for a read that waits for it.
AllDelivered ==
  [](faults = 0) =>
    <>(/\ \A s \in Side : pc[s] = "closed"
       /\ \A s \in Side : Len(returned[s]) = Len(begun[Peer(s)]))

\* Whatever an owner is blocked in, send or recv, it is let go once the peer
\* is gone: the process on the other side died, closed the socket or shut it
\* down.
PeerGoneUnblocks == \A s \in Side : shut[Peer(s)] ~> pc[s] = "closed"
=============================================================================
