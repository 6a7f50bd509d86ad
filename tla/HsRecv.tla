------------------------------- MODULE HsRecv -------------------------------
(***************************************************************************)
(* How onRead and getPacket (hs/HsMod.c) cut the byte stream of one        *)
(* connection into packets, in the channel's receive buffer, and how the   *)
(* buffer is handed to the next connection by hsChannelReset.              *)
(*                                                                         *)
(* A byte is its position in the stream its connection sends; a packet is  *)
(* a header of HeaderLen bytes, which tells its length, and a payload.     *)
(* A length that is read from other bytes may be any int.  A negative one  *)
(* moves p out of the buffer; what lies outside of it is modelled as bytes *)
(* of no packet, and what writing there destroys is not modelled.          *)
(***************************************************************************)
EXTENDS Integers

CONSTANTS N,           \* packets a connection sends
          Start,       \* where packet k starts in the stream; N + 1: its end
          HeaderLen,   \* sizeof(int)
          BufLen,      \* channel->recvBufLen
          MaxConns,    \* bound: connections the channel serves in turn
          MaxBack      \* bound: bytes that p goes below the buffer

Packets == 1..N
Size(k) == Start[k + 1] - Start[k]
Total == Start[N + 1] - 1

ASSUME BufAssumption ==
  HeaderLen \in Nat \ {0} /\ BufLen \in Nat \ {0} /\ MaxConns \in Nat \ {0}
  /\ MaxBack \in Nat
ASSUME StreamAssumption ==
  /\ N \in Nat /\ Start \in [1..(N + 1) -> Nat \ {0}]
  /\ Start[1] = 1
  /\ \A i, j \in 1..(N + 1) : i < j => Start[i] < Start[j]
  /\ \A k \in Packets : HeaderLen < Size(k) /\ Size(k) <= BufLen

VARIABLES sent,      \* stream bytes that recv has returned
          buf,       \* channel->recvBuf: offset -> stream position, 0 for stale bytes
          p,         \* recvStream.p, as an offset
          leftLen,   \* recvStream.leftLen: room before parsing, data while parsing
          leftRoom,  \* onRead's local leftRoom
          got,       \* packets handed to onGetPacket
          intact,    \* all of them were the packets sent, in order
          split,     \* history: a recv has ended inside the first packet
          backward,  \* history: a packet of a negative length has been taken out
          conns,     \* connections served
          pc         \* "wait", "recv" or "parse"

vars == <<sent, buf, p, leftLen, leftRoom, got, intact, split, backward, conns, pc>>

TypeOK ==
  /\ sent \in 0..Total
  /\ buf \in [0..(BufLen - 1) -> 0..Total]
  /\ p \in Int /\ leftLen \in Int /\ leftRoom \in Int
  /\ got \in 0..N
  /\ intact \in BOOLEAN /\ split \in BOOLEAN /\ backward \in BOOLEAN
  /\ conns \in 1..MaxConns
  /\ pc \in {"wait", "recv", "parse"}

\* hsChannelInit and hsChannelReset.
Init ==
  /\ sent = 0 /\ buf = [o \in 0..(BufLen - 1) |-> 0]
  /\ p = 0 /\ leftLen = BufLen /\ leftRoom = 0
  /\ got = 0 /\ intact = TRUE /\ split = FALSE /\ backward = FALSE
  /\ conns = 1
  /\ pc = "wait"

\* epoll reports the socket only when there is something to read.
Event ==
  /\ pc = "wait" /\ sent < Total
  /\ pc' = "recv"
  /\ UNCHANGED <<sent, buf, p, leftLen, leftRoom, got, intact, split, backward, conns>>

\* With n more bytes the first packet not handed on yet is complete.
CompletesFirst(n) == got < N /\ p + n >= Size(got + 1)

\* recv returns n bytes, as many as the stack has and the room allows; a negative
\* room is a huge size_t.  Bound: BufLen of them.
Recv(n) ==
  /\ pc = "recv" /\ (n <= leftLen \/ leftLen < 0) /\ sent + n <= Total
  /\ split' = (split \/ ~CompletesFirst(n))
  /\ buf' = [o \in 0..(BufLen - 1) |->
               IF o \in p..(p + n - 1) THEN sent + 1 + (o - p) ELSE buf[o]]
  /\ sent' = sent + n
  /\ leftRoom' = leftLen - n
  /\ leftLen' = n + p
  /\ p' = 0
  /\ pc' = "parse"
  /\ UNCHANGED <<got, intact, backward, conns>>

\* What is read at offset o, in the buffer or outside.
Byte(o) == IF o \in DOMAIN buf THEN buf[o] ELSE 0

\* Packet k's header, or the whole of it, is at offset o.
HeaderAt(k, o) == \A j \in 0..(HeaderLen - 1) : Byte(o + j) = Start[k] + j
PacketAt(k, o) == \A j \in 0..(Size(k) - 1) : Byte(o + j) = Start[k] + j

\* Mutant: a packet that ends the data is taken for incomplete.
GetPacket_NeedsMore(k) ==
  /\ pc = "parse" /\ leftLen >= HeaderLen
  /\ HeaderAt(k, p) /\ Size(k) < leftLen
  /\ intact' = (intact /\ k = got + 1 /\ PacketAt(k, p))
  /\ got' = k
  /\ p' = p + Size(k)
  /\ leftLen' = leftLen - Size(k)
  /\ UNCHANGED <<sent, buf, leftRoom, split, backward, conns, pc>>

\* getPacket hands one packet over and moves past it.
GetPacket(k) ==
  /\ pc = "parse" /\ leftLen >= HeaderLen
  /\ HeaderAt(k, p) /\ Size(k) <= leftLen
  /\ intact' = (intact /\ k = got + 1 /\ PacketAt(k, p))
  /\ got' = k
  /\ p' = p + Size(k)
  /\ leftLen' = leftLen - Size(k)
  /\ UNCHANGED <<sent, buf, leftRoom, split, backward, conns, pc>>

\* The length field is made of other bytes: n, which is the length and the field
\* itself, may be any int that is not above leftLen.  A negative one moves p back
\* and makes leftLen grow.
GetGarbage(n) ==
  /\ pc = "parse" /\ leftLen >= HeaderLen
  /\ \A k \in Packets : ~HeaderAt(k, p)
  /\ n <= leftLen /\ p + n >= -MaxBack
  /\ intact' = FALSE
  /\ backward' = (backward \/ n < 0)
  /\ p' = p + n
  /\ leftLen' = leftLen - n
  /\ UNCHANGED <<sent, buf, leftRoom, got, split, conns, pc>>

\* Mutant: the rest of the data is not moved to the start of the buffer.
Compact_NoMove ==
  IF p # 0 THEN /\ p' = leftLen
                /\ leftLen' = BufLen - leftLen
                /\ UNCHANGED buf
           ELSE UNCHANGED <<buf, p, leftLen>>

\* Mutant: the room is computed from where the data was, not from where it is.
Compact_StaleRoom ==
  IF p # 0
  THEN /\ buf' = [o \in 0..(BufLen - 1) |-> IF o < leftLen THEN Byte(p + o) ELSE buf[o]]
       /\ p' = leftLen
       /\ leftLen' = BufLen - p
  ELSE UNCHANGED <<buf, p, leftLen>>

\* The rest moves to the start of the buffer, if a packet was taken out before it.
Compact ==
  IF p # 0
  THEN /\ buf' = [o \in 0..(BufLen - 1) |-> IF o < leftLen THEN Byte(p + o) ELSE buf[o]]
       /\ p' = leftLen
       /\ leftLen' = BufLen - leftLen
  ELSE UNCHANGED <<buf, p, leftLen>>

\* No complete packet is left, or other bytes read as a length above leftLen; recv
\* is called again if it filled the room.
ParseEnd ==
  /\ pc = "parse"
  /\ leftLen >= HeaderLen => ~\E k \in Packets : HeaderAt(k, p) /\ Size(k) <= leftLen
  /\ Compact
  /\ pc' = IF leftRoom > 0 THEN "wait" ELSE "recv"
  /\ UNCHANGED <<sent, leftRoom, got, intact, split, backward, conns>>

\* Mutant: hsChannelReset forgets the receive stream.
ResetStream_Forgotten == UNCHANGED <<p, leftLen>>

ResetStream == p' = 0 /\ leftLen' = BufLen

\* recv returns nothing: the connection is dead; the channel's next connection
\* starts a stream of its own.
Reconnect ==
  /\ pc \in {"wait", "recv"} /\ conns < MaxConns
  /\ ResetStream
  /\ conns' = conns + 1
  /\ sent' = 0 /\ got' = 0
  /\ buf' = [o \in 0..(BufLen - 1) |-> 0]
  /\ pc' = "wait"
  /\ UNCHANGED <<leftRoom, intact, split, backward>>

Next ==
  \/ Event
  \/ \E n \in 1..BufLen : Recv(n)
  \/ \E k \in Packets : GetPacket(k)
  \/ \E n \in (-MaxBack - p)..leftLen : GetGarbage(n)
  \/ ParseEnd
  \/ Reconnect

Spec == Init /\ [][Next]_vars
FairSpec == Spec /\ WF_vars(Event) /\ WF_vars(\E n \in 1..BufLen : Recv(n))
                 /\ WF_vars((\E k \in Packets : GetPacket(k)) \/ ParseEnd)

-----------------------------------------------------------------------------
\* onRead 370-391: recv is always given some room, and never more than lies
\* between p and the end of the buffer.  (A recv of no bytes would look like the
\* end of the connection.)  This holds for whatever lengths getPacket reads, in
\* packets or, once a recv has written over pending bytes, anywhere else, but for
\* a negative one: p moves back then, and recv may write outside the buffer.
RecvInBounds ==
  pc \in {"wait", "recv"} /\ ~backward =>
    p >= 0 /\ leftLen > 0 /\ p + leftLen <= BufLen

\* onRead 383-391, getPacket: the packets handed on are the packets sent, whole,
\* once each and in order, however the stream is cut.
DeliveredIntact == intact

\* The same, as long as every recv has completed the packet at the buffer's start.
WholeIntact == ~split => intact

\* The bytes received and not handed on yet are at the start of the buffer, and
\* the next recv goes behind them, under the same condition.
PendingKept ==
  pc \in {"wait", "recv"} /\ ~split =>
    LET pending == sent + 1 - Start[got + 1]
    IN  /\ p = pending
        /\ \A o \in 0..(pending - 1) : buf[o] = Start[got + 1] + o

\* The inductive invariant behind them.  BoundsInv needs nothing of the stream;
\* DataInv says where its bytes are until a recv ends inside the first packet
\* (onRead 385: the buffer is put in order only if a packet was taken out).
BoundsInv ==
  /\ TypeOK
  /\ ~backward =>
       /\ p >= 0 /\ leftLen >= 0 /\ p + leftLen <= BufLen
       /\ pc \in {"wait", "recv"} \/ p = 0 => leftLen > 0

DataInv ==
  LET first == Start[got + 1]
      pending == sent + 1 - first
  IN  /\ intact /\ ~backward
      /\ pc \in {"wait", "recv"} =>
           /\ p = pending /\ p + leftLen = BufLen
           /\ \A o \in 0..(p - 1) : buf[o] = first + o
      /\ pc = "parse" =>
           /\ leftLen = pending
           /\ \A o \in 0..(leftLen - 1) : buf[p + o] = first + o
           /\ p = 0 => got < N /\ Size(got + 1) <= leftLen

WholeInv == ~split => DataInv

\* Every packet of the last connection is handed on in the end, under the same
\* condition.
AllDelivered == <>[](got = N \/ split)
=============================================================================
