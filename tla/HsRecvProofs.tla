---------------------------- MODULE HsRecvProofs ----------------------------
(***************************************************************************)
(* Proofs about the receive buffer for every buffer size, every header     *)
(* size and every stream of packets that fit the buffer.                   *)
(***************************************************************************)
EXTENDS HsRecv, TLAPS

-----------------------------------------------------------------------------
\* What the assumptions say of the stream: packets follow each other, each has a
\* header and more, and each fits the buffer.
LEMMA StreamFacts ==
  /\ HeaderLen \in Nat /\ HeaderLen > 0 /\ BufLen \in Nat /\ BufLen > 0
  /\ MaxConns \in Nat /\ MaxConns > 0 /\ MaxBack \in Nat
  /\ N \in Nat /\ Total \in Nat
  /\ Start[1] = 1 /\ Start[N + 1] = Total + 1
  /\ \A k \in 1..(N + 1) : Start[k] \in Nat /\ 1 <= Start[k] /\ Start[k] <= Total + 1
  /\ \A i, j \in 1..(N + 1) : Start[i] = Start[j] => i = j
  /\ \A k \in Packets : /\ k \in Nat /\ 1 <= k /\ k <= N
                          /\ Size(k) = Start[k + 1] - Start[k]
                          /\ Size(k) \in Nat /\ HeaderLen < Size(k) /\ Size(k) <= BufLen
<1>1. /\ HeaderLen \in Nat /\ HeaderLen > 0 /\ BufLen \in Nat /\ BufLen > 0
      /\ MaxConns \in Nat /\ MaxConns > 0 /\ MaxBack \in Nat
      /\ N \in Nat /\ Start[1] = 1
      /\ \A k \in 1..(N + 1) : Start[k] \in Nat /\ 1 <= Start[k]
      /\ \A i, j \in 1..(N + 1) : i < j => Start[i] < Start[j]
  BY BufAssumption, StreamAssumption
<1>2. N + 1 \in 1..(N + 1)
  BY <1>1
<1>3. Total \in Nat /\ Start[N + 1] = Total + 1
  BY <1>1, <1>2 DEF Total
<1>4. ASSUME NEW k \in 1..(N + 1) PROVE Start[k] <= Total + 1
  <2>1. CASE k = N + 1
    BY <1>3, <2>1
  <2>2. CASE k # N + 1
    <3>1. k < N + 1
      BY <1>1, <2>2
    <3>2. Start[k] < Start[N + 1] /\ Start[k] \in Nat
      BY <1>1, <1>2, <3>1
    <3>3. QED BY <1>3, <3>2
  <2>3. QED BY <2>1, <2>2
<1>5. ASSUME NEW i \in 1..(N + 1), NEW j \in 1..(N + 1), Start[i] = Start[j]
      PROVE  i = j
  <2>1. i \in Nat /\ j \in Nat /\ Start[i] \in Nat /\ Start[j] \in Nat
    BY <1>1
  <2>2. ~(i < j) /\ ~(j < i)
    BY <1>1, <1>5, <2>1
  <2>3. QED BY <2>1, <2>2
<1>6. ASSUME NEW k \in Packets
      PROVE  /\ k \in Nat /\ 1 <= k /\ k <= N
             /\ Size(k) = Start[k + 1] - Start[k]
             /\ Size(k) \in Nat /\ HeaderLen < Size(k) /\ Size(k) <= BufLen
  <2>1. k \in Nat /\ 1 <= k /\ k <= N /\ k + 1 \in 1..(N + 1) /\ k \in 1..(N + 1)
    BY <1>1 DEF Packets
  <2>2. HeaderLen < Size(k) /\ Size(k) <= BufLen
    BY StreamAssumption
  <2>3. Size(k) = Start[k + 1] - Start[k] /\ Start[k] \in Nat /\ Start[k + 1] \in Nat
    BY <1>1, <2>1 DEF Size
  <2>4. QED BY <1>1, <2>1, <2>2, <2>3
<1>7. QED BY <1>1, <1>3, <1>4, <1>5, <1>6

USE StreamFacts

\* hsChannelInit leaves an empty buffer.
LEMMA InitBounds == Init => BoundsInv
<1> SUFFICES ASSUME Init PROVE BoundsInv
  OBVIOUS
<1>1. intact \in BOOLEAN /\ split \in BOOLEAN /\ backward \in BOOLEAN
  BY DEF Init
<1>2. buf \in [0..(BufLen - 1) -> 0..Total]
  BY DEF Init
<1>3. QED BY <1>1, <1>2 DEF Init, BoundsInv, TypeOK

\* Whatever recv returns, onRead keeps p and leftLen inside the buffer, and
\* leaves room for the next recv, until it takes out a packet of negative length.
LEMMA NextBounds == BoundsInv /\ [Next]_vars => BoundsInv'
<1> SUFFICES ASSUME BoundsInv, [Next]_vars PROVE BoundsInv'
  OBVIOUS
<1>t. TypeOK /\ sent \in Nat /\ p \in Int /\ leftLen \in Int /\ leftRoom \in Int
  BY DEF BoundsInv, TypeOK
<1>1. CASE Event
  BY <1>1 DEF Event, BoundsInv, TypeOK
<1>2. ASSUME NEW n \in 1..BufLen, Recv(n) PROVE BoundsInv'
  <2>1. /\ pc = "recv" /\ pc' = "parse" /\ sent' = sent + n /\ p' = 0
        /\ leftLen' = n + p /\ leftRoom' = leftLen - n /\ sent + n <= Total
        /\ n <= leftLen \/ leftLen < 0
        /\ got' = got /\ intact' = intact /\ backward' = backward /\ conns' = conns
        /\ split' = (split \/ ~CompletesFirst(n))
    BY <1>2 DEF Recv
  <2>2. ASSUME NEW o \in p..(p + n - 1) PROVE sent + 1 + (o - p) \in 0..Total
    BY <1>t, <2>1, <2>2
  <2>3. buf \in [0..(BufLen - 1) -> 0..Total]
    BY <1>t DEF TypeOK
  <2>4. buf' \in [0..(BufLen - 1) -> 0..Total]
    <3>1. buf' = [o \in 0..(BufLen - 1) |->
                   IF o \in p..(p + n - 1) THEN sent + 1 + (o - p) ELSE buf[o]]
      BY <1>2 DEF Recv
    <3>2. QED BY <2>2, <2>3, <3>1
  <2>5. split' \in BOOLEAN
    BY <2>1, Zenon
  <2>6. /\ sent' \in 0..Total /\ p' \in Int /\ leftLen' \in Int /\ leftRoom' \in Int
        /\ got' \in 0..N /\ intact' \in BOOLEAN /\ backward' \in BOOLEAN
        /\ conns' \in 1..MaxConns /\ pc' \in {"wait", "recv", "parse"}
    BY <1>t, <2>1 DEF TypeOK
  <2>7. TypeOK'
    BY <2>4, <2>5, <2>6 DEF TypeOK
  <2>8. ASSUME ~backward' PROVE p' >= 0 /\ leftLen' > 0 /\ p' + leftLen' <= BufLen
    <3>1. p >= 0 /\ leftLen > 0 /\ p + leftLen <= BufLen
      BY <2>1, <2>8 DEF BoundsInv
    <3>2. QED BY <1>t, <2>1, <3>1
  <2>9. QED BY <1>t, <2>1, <2>7, <2>8 DEF BoundsInv
<1>3. ASSUME NEW k \in Packets, GetPacket(k) PROVE BoundsInv'
  <2>1. Size(k) \in Nat /\ Size(k) > 0
    OBVIOUS
  <2>2. /\ pc = "parse" /\ pc' = pc /\ sent' = sent /\ buf' = buf
        /\ leftRoom' = leftRoom /\ conns' = conns /\ backward' = backward
        /\ split' = split /\ got' = k
        /\ p' = p + Size(k) /\ leftLen' = leftLen - Size(k) /\ Size(k) <= leftLen
        /\ intact' = (intact /\ k = got + 1 /\ PacketAt(k, p))
    BY <1>3 DEF GetPacket
  <2>3. intact' \in BOOLEAN
    BY <2>2, Zenon
  <2>4. got' \in 0..N /\ p' \in Int /\ leftLen' \in Int
    BY <1>t, <2>1, <2>2
  <2>5. TypeOK'
    BY <1>t, <2>2, <2>3, <2>4 DEF TypeOK
  <2>6. ASSUME ~backward' PROVE p' > 0 /\ leftLen' >= 0 /\ p' + leftLen' <= BufLen
    <3>1. p >= 0 /\ p + leftLen <= BufLen
      BY <2>2, <2>6 DEF BoundsInv
    <3>2. QED BY <1>t, <2>1, <2>2, <3>1
  <2>7. QED BY <2>2, <2>4, <2>5, <2>6 DEF BoundsInv
<1>4. ASSUME NEW n \in (-MaxBack - p)..leftLen, GetGarbage(n) PROVE BoundsInv'
  <2>1. /\ pc = "parse" /\ pc' = pc /\ sent' = sent /\ buf' = buf /\ got' = got
        /\ leftRoom' = leftRoom /\ conns' = conns /\ split' = split
        /\ intact' = FALSE /\ n <= leftLen
        /\ p' = p + n /\ leftLen' = leftLen - n
    BY <1>4 DEF GetGarbage
  <2>2. backward' = (backward \/ n < 0)
    BY <1>4, Zenon DEF GetGarbage
  <2>3. n \in Int /\ p' \in Int /\ leftLen' \in Int
    BY <1>t, <2>1
  <2>4. backward' \in BOOLEAN
    BY <2>2, Zenon
  <2>5. TypeOK'
    BY <1>t, <2>1, <2>3, <2>4 DEF TypeOK
  <2>6. ASSUME ~backward'
        PROVE  /\ p' >= 0 /\ leftLen' >= 0 /\ p' + leftLen' <= BufLen
               /\ p' = 0 => leftLen' > 0
    <3>1. ~backward /\ ~(n < 0)
      BY <2>2, <2>6
    <3>2. p >= 0 /\ p + leftLen <= BufLen /\ (p = 0 => leftLen > 0)
      BY <2>1, <3>1 DEF BoundsInv
    <3>3. QED BY <1>t, <2>1, <2>3, <3>1, <3>2
  <2>7. QED BY <2>1, <2>5, <2>6 DEF BoundsInv
<1>5. CASE ParseEnd
  <2>1. /\ pc = "parse" /\ pc' \in {"wait", "recv"} /\ sent' = sent /\ got' = got
        /\ leftRoom' = leftRoom /\ conns' = conns /\ split' = split
        /\ intact' = intact /\ backward' = backward /\ Compact
    BY <1>5 DEF ParseEnd
  <2>2. CASE p = 0
    BY <1>t, <2>1, <2>2 DEF Compact, BoundsInv, TypeOK
  <2>3. CASE p # 0
    <3>1. /\ p' = leftLen /\ leftLen' = BufLen - leftLen
          /\ buf' = [o \in 0..(BufLen - 1) |->
                      IF o < leftLen THEN Byte(p + o) ELSE buf[o]]
      BY <2>1, <2>3 DEF Compact
    <3>2. ASSUME NEW o \in Int PROVE Byte(o) \in 0..Total
      BY <1>t DEF Byte, TypeOK
    <3>3. ASSUME NEW o \in 0..(BufLen - 1) PROVE p + o \in Int /\ buf[o] \in 0..Total
      BY <1>t DEF TypeOK
    <3>4. buf' \in [0..(BufLen - 1) -> 0..Total]
      BY <3>1, <3>2, <3>3
    <3>5. p' \in Int /\ leftLen' \in Int
      BY <1>t, <3>1
    <3>6. TypeOK'
      BY <1>t, <2>1, <3>4, <3>5 DEF TypeOK
    <3>7. ASSUME ~backward' PROVE p' >= 0 /\ leftLen' > 0 /\ p' + leftLen' <= BufLen
      <4>1. p >= 0 /\ leftLen >= 0 /\ p + leftLen <= BufLen
        BY <2>1, <3>7 DEF BoundsInv
      <4>2. QED BY <1>t, <2>3, <3>1, <4>1
    <3>8. QED BY <1>t, <3>1, <3>6, <3>7 DEF BoundsInv
  <2>4. QED BY <2>2, <2>3
<1>6. CASE Reconnect
  BY <1>6 DEF Reconnect, ResetStream, BoundsInv, TypeOK
<1>7. CASE UNCHANGED vars
  BY <1>7 DEF vars, BoundsInv, TypeOK
<1>8. QED BY <1>1, <1>2, <1>3, <1>4, <1>5, <1>6, <1>7 DEF Next

\* The bounds hold in every reachable state, however the stream is cut.
LEMMA BoundsHold == Spec => []BoundsInv
BY InitBounds, NextBounds, PTL DEF Spec

\* recv is never called without room, nor with more room than the buffer has,
\* until a packet of a negative length has been taken out.
THEOREM RecvStaysInBounds == Spec => []RecvInBounds
<1>1. BoundsInv => RecvInBounds
  BY DEF BoundsInv, RecvInBounds
<1>2. QED BY <1>1, BoundsHold, PTL

-----------------------------------------------------------------------------
(***************************************************************************)
(* The contents of the buffer, while every recv completes a packet.        *)
(***************************************************************************)

\* A new buffer holds nothing, and nothing has been received.
LEMMA InitData == Init => DataInv
BY DEF Init, DataInv

\* recv puts the next bytes of the stream behind the pending ones.
LEMMA RecvData ==
  ASSUME BoundsInv, DataInv, NEW n \in 1..BufLen, Recv(n), CompletesFirst(n)
  PROVE  DataInv'
<1> DEFINE first == Start[got + 1]
<1>1. /\ pc = "recv" /\ pc' = "parse" /\ got' = got /\ intact' = intact
      /\ p' = 0 /\ leftLen' = n + p /\ sent' = sent + n /\ backward' = backward
      /\ n <= leftLen \/ leftLen < 0
      /\ sent + n <= Total
      /\ p + n >= Size(got + 1)
  BY DEF Recv, CompletesFirst
<1>2. /\ p = sent + 1 - first /\ p + leftLen = BufLen
      /\ \A o \in 0..(p - 1) : buf[o] = first + o
      /\ intact /\ ~backward
  BY <1>1 DEF DataInv
<1>3. /\ p \in Nat /\ sent \in Nat /\ got \in 0..N /\ first \in Nat
      /\ leftLen \in Nat /\ n <= leftLen
  BY <1>1, <1>2 DEF BoundsInv, TypeOK
<1>4. ASSUME NEW o \in 0..(p + n - 1) PROVE buf'[o] = first + o
  <2>1. o \in 0..(BufLen - 1)
    BY <1>1, <1>2, <1>3
  <2>2. buf'[o] = IF o \in p..(p + n - 1) THEN sent + 1 + (o - p) ELSE buf[o]
    BY <2>1 DEF Recv
  <2>3. QED BY <1>2, <1>3, <2>2
<1>5. got < N
  <2>1. SUFFICES ASSUME got = N PROVE FALSE
    BY <1>3
  <2>2. sent + 1 - Start[N + 1] = p
    BY <1>2, <2>1
  <2>3. QED BY <1>1, <1>3, <2>2
<1>6. leftLen' = sent' + 1 - first
  BY <1>1, <1>2, <1>3
<1>7. QED BY <1>1, <1>2, <1>3, <1>4, <1>5, <1>6 DEF DataInv

\* What lies between p and the end of the data is read from the buffer.
LEMMA BytesAtHand ==
  ASSUME BoundsInv, DataInv
  PROVE  /\ p \in Nat /\ leftLen \in Nat /\ p + leftLen <= BufLen
         /\ \A o \in 0..(leftLen - 1) : Byte(p + o) = buf[p + o]
<1>1. p \in Nat /\ leftLen \in Nat /\ p + leftLen <= BufLen
  BY DEF BoundsInv, DataInv, TypeOK
<1>2. DOMAIN buf = 0..(BufLen - 1)
  BY DEF BoundsInv, TypeOK
<1>3. QED BY <1>1, <1>2 DEF Byte

\* A header at p is the header of the first packet that is pending.
LEMMA HeaderIsFirst ==
  ASSUME BoundsInv, DataInv, pc = "parse", leftLen >= HeaderLen
  PROVE  /\ got < N
         /\ HeaderAt(got + 1, p)
         /\ \A k \in Packets : HeaderAt(k, p) => k = got + 1
<1>1. /\ leftLen = sent + 1 - Start[got + 1]
      /\ \A o \in 0..(leftLen - 1) : Byte(p + o) = Start[got + 1] + o
  BY BytesAtHand DEF DataInv
<1>2. got \in 0..N /\ sent \in 0..Total /\ leftLen \in Nat
  BY BytesAtHand DEF BoundsInv, TypeOK
<1>3. got < N
  BY <1>1, <1>2
<1>4. HeaderAt(got + 1, p)
  BY <1>1, <1>2 DEF HeaderAt
<1>5. ASSUME NEW k \in Packets, HeaderAt(k, p) PROVE k = got + 1
  <2>1. Byte(p + 0) = Start[k] + 0 /\ Byte(p + 0) = Start[got + 1] + 0
    BY <1>4, <1>5 DEF HeaderAt
  <2>2. Start[k] = Start[got + 1]
    BY <1>2, <1>3, <2>1
  <2>3. QED BY <1>2, <1>3, <2>2
<1>6. QED BY <1>3, <1>4, <1>5

\* getPacket takes exactly that packet.
LEMMA GetPacketData ==
  ASSUME BoundsInv, DataInv, NEW k \in Packets, GetPacket(k)
  PROVE  DataInv'
<1>1. /\ pc = "parse" /\ pc' = pc /\ buf' = buf /\ sent' = sent
      /\ leftLen >= HeaderLen /\ HeaderAt(k, p) /\ Size(k) <= leftLen
      /\ p' = p + Size(k) /\ leftLen' = leftLen - Size(k) /\ got' = k
      /\ intact' = (intact /\ k = got + 1 /\ PacketAt(k, p)) /\ backward' = backward
  BY DEF GetPacket
<1>2. k = got + 1
  BY <1>1, HeaderIsFirst
<1>3. /\ leftLen = sent + 1 - Start[k]
      /\ \A o \in 0..(leftLen - 1) : buf[p + o] = Start[k] + o
      /\ intact /\ ~backward
  BY <1>1, <1>2 DEF DataInv
<1>4. /\ p \in Nat /\ leftLen \in Nat /\ sent \in Nat
      /\ Start[k] \in Nat /\ Start[k + 1] \in Nat
      /\ Size(k) = Start[k + 1] - Start[k] /\ Size(k) > 0
  <2>1. p \in Nat /\ leftLen \in Nat
    BY BytesAtHand
  <2>2. sent \in Nat
    BY DEF BoundsInv, TypeOK
  <2>3. k \in 1..(N + 1) /\ k + 1 \in 1..(N + 1)
    OBVIOUS
  <2>4. QED BY <2>1, <2>2, <2>3
<1>5. PacketAt(k, p)
  BY <1>1, <1>3, <1>4, BytesAtHand DEF PacketAt
<1>6. leftLen' = sent' + 1 - Start[got' + 1]
  BY <1>1, <1>3, <1>4
<1>7. ASSUME NEW o \in 0..(leftLen' - 1)
      PROVE  buf'[p' + o] = Start[got' + 1] + o
  <2>1. Size(k) + o \in 0..(leftLen - 1)
    BY <1>1, <1>4
  <2>2. buf[p + (Size(k) + o)] = Start[k] + (Size(k) + o)
    BY <1>3, <2>1
  <2>3. QED BY <1>1, <1>4, <2>2
<1>8. p' # 0
  BY <1>1, <1>4
<1>9. QED BY <1>1, <1>2, <1>3, <1>5, <1>6, <1>7, <1>8 DEF DataInv

\* When no packet is left one has been taken, so the rest is moved to the start.
LEMMA ParseEndData ==
  ASSUME BoundsInv, DataInv, ParseEnd
  PROVE  DataInv'
<1>1. /\ pc = "parse" /\ pc' \in {"wait", "recv"} /\ got' = got /\ sent' = sent
      /\ intact' = intact /\ backward' = backward
      /\ leftLen >= HeaderLen => ~\E k \in Packets : HeaderAt(k, p) /\ Size(k) <= leftLen
      /\ Compact
  BY DEF ParseEnd
<1>2. /\ leftLen = sent + 1 - Start[got + 1]
      /\ \A o \in 0..(leftLen - 1) : buf[p + o] = Start[got + 1] + o
      /\ p = 0 => got < N /\ Size(got + 1) <= leftLen
      /\ intact /\ ~backward
  BY <1>1 DEF DataInv
<1>3. p \in Nat /\ leftLen \in Nat /\ got \in 0..N /\ p + leftLen <= BufLen
  BY BytesAtHand DEF BoundsInv, TypeOK
<1>4. p # 0
  <2>1. SUFFICES ASSUME p = 0 PROVE FALSE
    OBVIOUS
  <2>2. got + 1 \in Packets /\ Size(got + 1) <= leftLen /\ HeaderLen < Size(got + 1)
    BY <1>2, <1>3, <2>1 DEF Packets
  <2>3. leftLen >= HeaderLen
    BY <1>3, <2>2
  <2>4. HeaderAt(got + 1, p)
    BY <1>1, <2>3, HeaderIsFirst
  <2>5. QED BY <1>1, <2>2, <2>3, <2>4
<1>5. /\ p' = leftLen /\ leftLen' = BufLen - leftLen
      /\ buf' = [o \in 0..(BufLen - 1) |-> IF o < leftLen THEN Byte(p + o) ELSE buf[o]]
  BY <1>1, <1>4 DEF Compact
<1>6. ASSUME NEW o \in 0..(p' - 1) PROVE buf'[o] = Start[got' + 1] + o
  <2>1. o \in 0..(leftLen - 1) /\ o \in 0..(BufLen - 1)
    BY <1>3, <1>5
  <2>2. buf'[o] = buf[p + o]
    BY <1>3, <1>5, <2>1, BytesAtHand
  <2>3. QED BY <1>1, <1>2, <2>1, <2>2
<1>7. p' = sent' + 1 - Start[got' + 1] /\ p' + leftLen' = BufLen
  BY <1>1, <1>2, <1>3, <1>5
<1>8. QED BY <1>1, <1>2, <1>6, <1>7 DEF DataInv

\* Every step keeps the pending bytes where onRead expects them, or is a recv
\* that ends inside the first packet.
LEMMA NextData == BoundsInv /\ WholeInv /\ [Next]_vars => WholeInv'
<1> SUFFICES ASSUME BoundsInv, WholeInv, [Next]_vars, ~split' PROVE DataInv'
  BY DEF WholeInv
<1>1. ~split
  BY DEF Next, Event, Recv, GetPacket, GetGarbage, ParseEnd, Reconnect, vars,
         BoundsInv, TypeOK
<1>2. DataInv
  BY <1>1 DEF WholeInv
<1>3. CASE Event
  BY <1>2, <1>3 DEF Event, DataInv
<1>4. ASSUME NEW n \in 1..BufLen, Recv(n) PROVE DataInv'
  <2>1. CompletesFirst(n)
    BY <1>4 DEF Recv
  <2>2. QED BY <1>2, <1>4, <2>1, RecvData
<1>5. ASSUME NEW n \in (-MaxBack - p)..leftLen, GetGarbage(n) PROVE DataInv'
  <2>1. pc = "parse" /\ leftLen >= HeaderLen /\ \A k \in Packets : ~HeaderAt(k, p)
    BY <1>5 DEF GetGarbage
  <2>2. got + 1 \in Packets /\ HeaderAt(got + 1, p)
    BY <1>2, <2>1, HeaderIsFirst DEF BoundsInv, TypeOK, Packets
  <2>3. QED BY <2>1, <2>2
<1>6. CASE Reconnect
  BY <1>2, <1>6 DEF Reconnect, ResetStream, DataInv
<1>7. CASE UNCHANGED vars
  BY <1>2, <1>7 DEF vars, DataInv
<1>8. QED BY <1>2, <1>3, <1>4, <1>5, <1>6, <1>7, GetPacketData, ParseEndData DEF Next

\* Until a recv ends inside the first packet, the data invariant holds.
LEMMA DataHolds == Spec => [](BoundsInv /\ WholeInv)
<1>1. Init => BoundsInv /\ WholeInv
  BY InitBounds, InitData DEF WholeInv
<1>2. (BoundsInv /\ WholeInv) /\ [Next]_vars => (BoundsInv /\ WholeInv)'
  BY NextBounds, NextData
<1>3. QED BY <1>1, <1>2, PTL DEF Spec

\* Until then onGetPacket gets the packets that were sent, whole, once, in order.
THEOREM PacketsIntact == Spec => []WholeIntact
<1>1. WholeInv => WholeIntact
  BY DEF WholeInv, DataInv, WholeIntact
<1>2. QED BY <1>1, DataHolds, PTL

\* Until then the bytes not handed on lie in order at the start of the buffer.
THEOREM PendingBytesKept == Spec => []PendingKept
<1>1. WholeInv => PendingKept
  BY DEF WholeInv, DataInv, PendingKept
<1>2. QED BY <1>1, DataHolds, PTL
=============================================================================
