---------------------------- MODULE HsSendProofs ----------------------------
(***************************************************************************)
(* Proofs about sending, for every number of threads, peers, channels and  *)
(* items and every size of the rings.                                      *)
(***************************************************************************)
EXTENDS HsSend, FiniteSetTheorems, SequenceTheorems, TLAPS

USE CountAssumption

-----------------------------------------------------------------------------
(***************************************************************************)
(* Queues, and items.                                                      *)
(***************************************************************************)
El(q) == {q[i] : i \in 1..Len(q)}

\* A queue of items or answers, none twice.
OneEach(q) == \A i, j \in 1..Len(q) : q[i].n = q[j].n => i = j

\* An item is put in at the end.
LEMMA AppendEl ==
  ASSUME NEW S, NEW q \in Seq(S), NEW x \in S
  PROVE  /\ Append(q, x) \in Seq(S)
         /\ El(Append(q, x)) = El(q) \cup {x}
         /\ OneEach(q) /\ (\A y \in El(q) : y.n # x.n) => OneEach(Append(q, x))
<1>1. /\ Len(q) \in Nat
      /\ Append(q, x) \in Seq(S)
      /\ Len(Append(q, x)) = Len(q) + 1
      /\ \A i \in 1..Len(q) : Append(q, x)[i] = q[i]
      /\ Append(q, x)[Len(q) + 1] = x
  BY AppendProperties, LenProperties
<1>2. El(Append(q, x)) \subseteq El(q) \cup {x}
  BY <1>1 DEF El
<1>3. El(q) \subseteq El(Append(q, x))
  BY <1>1 DEF El
<1>4. x \in El(Append(q, x))
  <2>1. Len(q) + 1 \in 1..Len(Append(q, x))
    BY <1>1
  <2>2. QED BY <1>1, <2>1 DEF El
<1>5. OneEach(q) /\ (\A y \in El(q) : y.n # x.n) => OneEach(Append(q, x))
  BY <1>1 DEF El, OneEach
<1>6. QED BY <1>1, <1>2, <1>3, <1>4, <1>5

\* The first item is taken out.
LEMMA TailEl ==
  ASSUME NEW S, NEW q \in Seq(S), q # <<>>
  PROVE  /\ Head(q) \in S /\ Tail(q) \in Seq(S)
         /\ Head(q) \in El(q) /\ El(Tail(q)) \subseteq El(q)
         /\ El(q) = El(Tail(q)) \cup {Head(q)}
         /\ OneEach(q) => OneEach(Tail(q)) /\ \A y \in El(Tail(q)) : y.n # Head(q).n
<1>1. /\ Len(q) \in Nat /\ Len(q) > 0
      /\ Head(q) = q[1]
      /\ Tail(q) \in Seq(S) /\ Head(q) \in S
      /\ Len(Tail(q)) = Len(q) - 1
      /\ \A i \in 1..Len(Tail(q)) : Tail(q)[i] = q[i + 1]
  BY HeadTailProperties, LenProperties, EmptySeq
<1>2. Head(q) \in El(q)
  BY <1>1 DEF El
<1>3. El(Tail(q)) \subseteq El(q)
  BY <1>1 DEF El
<1>4. El(q) \subseteq El(Tail(q)) \cup {Head(q)}
  <2> SUFFICES ASSUME NEW i \in 1..Len(q), i # 1
               PROVE  q[i] \in El(Tail(q))
    BY <1>1 DEF El
  <2>1. i - 1 \in 1..Len(Tail(q)) /\ Tail(q)[i - 1] = q[i]
    BY <1>1
  <2>2. QED BY <2>1 DEF El
<1>5. OneEach(q) => OneEach(Tail(q)) /\ \A y \in El(Tail(q)) : y.n # Head(q).n
  BY <1>1 DEF El, OneEach
<1>6. QED BY <1>1, <1>2, <1>3, <1>4, <1>5

\* An empty queue has no item.
LEMMA EmptyEl == El(<<>>) = {} /\ OneEach(<<>>)
  BY DEF El, OneEach

\* What is in a queue is in the set the queue is over.
LEMMA SeqEl ==
  ASSUME NEW S, NEW q \in Seq(S)
  PROVE  /\ El(q) \subseteq S
         /\ \A i \in 1..Len(q) : q[i] \in El(q)
  BY LenProperties, ElementOfSeq DEF El

\* An item is not None, and its fields are in their types.
LEMMA ItemFacts ==
  ASSUME NEW x \in Items
  PROVE  /\ x # None /\ x.n \in Numbers /\ x.id \in 0..MaxItems /\ x.to \in Peers
         /\ x.type \in {"register", "data"}
  BY NoneAssumption DEF Items

\* None is no peer and no channel, and the monitor is a sender.
LEMMA PeerFacts == None \notin Peers /\ None \notin Channels /\ Mon \in Senders
  BY NoneAssumption DEF Peers, Channels, Senders

\* A set of senders is finite.
LEMMA SendersFinite ==
  ASSUME NEW P \in SUBSET Senders
  PROVE  IsFiniteSet(P) /\ Cardinality(P) \in Nat
  BY SendersAssumption, FS_AddElement, FS_Subset, FS_CardinalityType DEF Senders

\* So is the set of the items made, and there are at most MaxItems.
LEMMA MadeFinite ==
  IsFiniteSet(Made) /\ Cardinality(Made) \in Nat /\ Cardinality(Made) <= MaxItems
<1>1. IsFiniteSet(Numbers) /\ Cardinality(Numbers) = MaxItems
  BY FS_Interval DEF Numbers
<1>2. Made \in SUBSET Numbers
  BY DEF Made
<1>3. QED BY <1>1, <1>2, FS_Subset, FS_CardinalityType

-----------------------------------------------------------------------------
(***************************************************************************)
(* Positions and slots.                                                    *)
(***************************************************************************)
LEMMA DivMod ==
  ASSUME NEW N \in Nat \ {0}, NEW x \in Nat
  PROVE  /\ x % N \in 0..(N - 1) /\ x \div N \in Nat
         /\ x = N * (x \div N) + (x % N)
<1>1. ASSUME NEW M \in Int, M > 0, NEW y \in Int
      PROVE  y % M \in Int /\ y = M * (y \div M) + (y % M)
  BY <1>1
<1>2. x = N * (x \div N) + (x % N)
  BY <1>1
<1>3. x % N \in 0..(N - 1) /\ x \div N \in Nat
  OBVIOUS
<1>4. QED BY <1>2, <1>3

\* A product is not between 0 and one of its factors.
LEMMA NoMultiple ==
  ASSUME NEW N \in Nat \ {0}, NEW d \in Int
  PROVE  N * d <= 0 \/ N * d >= N
<1>1. d <= 0 \/ N * d >= N
  OBVIOUS
<1>2. d <= 0 => N * d <= 0
  OBVIOUS
<1>3. QED BY <1>1, <1>2

\* Positions less than a ring apart have slots of their own.
LEMMA OwnSlots ==
  ASSUME NEW N \in Nat \ {0}, NEW j \in Nat, NEW t \in Nat, j < t, t < j + N
  PROVE  j % N # t % N
<1> SUFFICES ASSUME j % N = t % N PROVE FALSE
  OBVIOUS
<1> DEFINE a == j \div N
           b == t \div N
<1>1. a \in Nat /\ b \in Nat /\ j = N * a + (j % N) /\ t = N * b + (t % N)
  BY DivMod
<1>2. j % N \in Nat /\ t % N \in Nat
  BY DivMod
<1> HIDE DEF a, b
<1>3. t - j = N * b - N * a
  BY <1>1, <1>2
<1>4. N * b - N * a = N * (b - a)
  BY <1>1
<1>5. b - a \in Int /\ t - j = N * (b - a)
  BY <1>1, <1>3, <1>4
<1>6. QED BY <1>5, NoMultiple

-----------------------------------------------------------------------------
(***************************************************************************)
(* The inductive invariant.                                                *)
(***************************************************************************)
Memory == {"none", "live", "freed", "refused", "unkept", "expired"}
Steps == {"idle", "inc", "get", "look", "claim", "fill", "show"}
Slots == 0..(RingSize - 1)

\* sendOnePeer is done with its item; or the item is on its way into the ring.
Put(s) == Refuse(s) \/ Show(s)
Enter(s) == Look(s) \/ Claim(s) \/ Fill(s)

\* A sender's locals are set while it is in sendOnePeer.
Locals ==
  \A s \in Senders :
    /\ item[s] # None <=> InRing(s) \/ pc[s] = "look"
    /\ to[s] # None <=> pc[s] # "idle"
    /\ via[s] # None <=> pc[s] # "idle"
    /\ item[s] # None => item[s].to = to[s]

\* The monitor sends within its pass.
Pass == pc[Mon] # "idle" => locked /\ cur < PeerCount

\* The numbers made are the first ones, one is left for each promise, and no more
\* ids have been given than items were made or are being made.
Getting == {s \in Senders : pc[s] = "get"}
Counted ==
  /\ Made = 1..Cardinality(Made)
  /\ Cardinality(Made) + Cardinality(Promised) <= MaxItems
  /\ \A p \in Peers : idCur[p] <= Cardinality(Made) + Cardinality(Getting)

\* The pool holds the channels without a peer; the others are servers, and what a
\* connection carries goes with it.
PoolInv ==
  /\ \A i, j \in 1..Len(pool) : pool[i] = pool[j] => i = j
  /\ \A c \in Channels : c \in El(pool) <=> chanPeer[c] = None
  /\ \A p \in Peers : server[p] # None => chanPeer[server[p]] = p
  /\ \A c \in Channels : chanPeer[c] # None => server[chanPeer[c]] = c
  /\ \A c \in Channels : chanPeer[c] = None =>
       stream[c] = None /\ wire[c] = <<>> /\ answers[c] = <<>>

\* What memory is freed, or given up, has been made.
AllMade ==
  /\ \A s \in Senders : item[s] # None => item[s].n \in Made
  /\ \A c \in Channels, i \in Slots : slot[c][i] # None => slot[c][i].n \in Made
  /\ \A p \in Peers, i \in 0..MaxItems :
       echo[p][i] # None => echo[p][i].n \in Made /\ echo[p][i].id = i

\* Two threads in one ring have overlapped.
OneSender == \A s, t \in Senders : Busy(s) /\ Busy(t) => s = t
Alone == ~overlap => OneSender /\ collided = {}

\* A ring with one producer at a time: what is claimed comes after what is shown,
\* and there is a slot for it.
Ring(c) ==
  /\ cons[c] <= tail[c] /\ tail[c] < cons[c] + RingSize
  /\ \A j \in cons[c]..(tail[c] - 1) : slot[c][j % RingSize] # None
  /\ (\A s \in Senders : InRing(s) => via[s] # c) => head[c] = tail[c]
Producer(s) ==
  /\ at[s] = tail[via[s]]
  /\ pc[s] = "claim" => head[via[s]] = tail[via[s]]
  /\ pc[s] \in {"fill", "show"} => /\ head[via[s]] = tail[via[s]] + 1
                                  /\ tail[via[s]] + 1 < cons[via[s]] + RingSize
  /\ pc[s] = "show" => slot[via[s]][at[s] % RingSize] = item[s]
OneProducer == \A s, t \in Senders : InRing(s) /\ InRing(t) /\ via[s] = via[t] => s = t
Rings ==
  collided = {} =>
    /\ OneProducer
    /\ \A c \in Channels : Ring(c)
    /\ \A s \in Senders : InRing(s) => Producer(s)

Base == TypeOK /\ Locals /\ Pass /\ Counted /\ PoolInv /\ AllMade /\ Alone /\ Rings

\* Base holds at first.
LEMMA InitBase == Init => Base
<1> SUFFICES ASSUME Init PROVE Base
  OBVIOUS
<1>1. TypeOK
  <2>1. pool \in Seq(Channels)
    <3>1. pool \in [1..ChanCount -> Channels]
      BY DEF Init, Channels
    <3>2. QED BY <3>1, SeqDef
  <2>2. cur \in 0..PeerCount
    BY DEF Init
  <2>3. \A S : <<>> \in Seq(S)
    OBVIOUS
  <2>4. locked \in BOOLEAN /\ overlap \in BOOLEAN /\ leftover \in BOOLEAN
    BY Zenon DEF Init
  <2>5. /\ head \in [Channels -> Nat] /\ tail \in [Channels -> Nat] /\ cons \in [Channels -> Nat]
        /\ slot \in [Channels -> [0..(RingSize - 1) -> Items \cup {None}]]
        /\ at \in [Senders -> Nat]
        /\ collided \subseteq Channels /\ noRegister \subseteq Channels
    BY DEF Init
  <2>6. QED BY <2>1, <2>2, <2>3, <2>4, <2>5, PeerFacts DEF Init, TypeOK
<1>2. Locals /\ Pass
  BY PeerFacts DEF Init, Locals, Pass, InRing
<1>3. Counted
  <2>1. Made = {} /\ Promised = {} /\ Getting = {}
    BY DEF Init, Made, Promised, Getting
  <2>2. Cardinality({}) = 0
    BY FS_EmptySet
  <2>3. QED BY <2>1, <2>2 DEF Init, Counted
<1>4. PoolInv
  <2>1. Len(pool) = ChanCount /\ \A i \in 1..ChanCount : pool[i] = i
    BY DEF Init, Channels
  <2>2. QED BY <2>1 DEF Init, PoolInv, El, Channels
<1>5. AllMade
  BY DEF Init, AllMade, Slots
<1>6. Alone
  BY DEF Init, Alone, OneSender, Busy, InRing
<1>7. Rings
  BY DEF Init, Rings, OneProducer, Ring, InRing
<1>8. QED BY <1>1, <1>2, <1>3, <1>4, <1>5, <1>6, <1>7 DEF Base

-----------------------------------------------------------------------------
(***************************************************************************)
(* The types.                                                              *)
(***************************************************************************)

\* A sender that makes an item takes the next number, and there is one.
LEMMA MakesNext ==
  ASSUME Base, NEW s \in Senders, MakeItem(s)
  PROVE  /\ Cardinality(Made) + 1 \in Numbers \ Made
         /\ Made' = Made \cup {Cardinality(Made) + 1}
         /\ Cardinality(Made') = Cardinality(Made) + 1
<1>1. s \in Promised /\ Promised \in SUBSET Senders
  BY DEF MakeItem, Promised
<1>2. Cardinality(Promised) \in Nat /\ Cardinality(Promised) # 0
  BY <1>1, SendersFinite, FS_EmptySet
<1>3. Cardinality(Made) + 1 \in Numbers \ Made
  BY <1>2, MadeFinite DEF Base, Counted, Numbers
<1>4. Made' = Made \cup {Cardinality(Made) + 1}
  BY <1>3 DEF Base, TypeOK, MakeItem, Made
<1>5. QED BY <1>3, <1>4, MadeFinite, FS_AddElement

\* A slot is empty, or has an item that was made.
LEMMA ForemostFacts ==
  ASSUME TypeOK, AllMade, NEW c \in Channels, Foremost(c) # None
  PROVE  Foremost(c) \in Items /\ Foremost(c).n \in Made
<1>1. cons[c] % RingSize \in Slots
  BY DivMod DEF TypeOK, Slots
<1>2. QED BY <1>1 DEF TypeOK, AllMade, Foremost, Slots

\* No other step makes one.
LEMMA MadeKept ==
  ASSUME Base, Next, \A s \in Senders : ~MakeItem(s)
  PROVE  Made' = Made
<1>1. \A s \in Senders : ~MakeItem(s)
  OBVIOUS
<1>2. ASSUME NEW s \in Senders, Put(s) PROVE Made' = Made
  <2>1. item[s] \in Items /\ item[s].n \in Made
    BY <1>2 DEF Base, TypeOK, Locals, AllMade, Put, Refuse, Show, InRing
  <2>2. memory' = memory \/ memory' = [memory EXCEPT ![item[s].n] = "refused"]
    BY <1>2 DEF Put, Refuse, Show
  <2>3. QED BY <2>1, <2>2 DEF Base, TypeOK, Made
<1>3. ASSUME NEW c \in Channels, WriteNext(c) PROVE Made' = Made
  <2> DEFINE x == Foremost(c)
             e == echo[chanPeer[c]][x.id]
  <2>1. x # None => x \in Items /\ x.n \in Made /\ chanPeer[c] \in Peers
    BY <1>3, ForemostFacts DEF Base, TypeOK, WriteNext, Live
  <2>2. x # None /\ e # None => e.n \in Made
    <3> HIDE DEF x
    <3>1. QED BY <2>1, ItemFacts DEF Base, AllMade
  <2>3. \/ memory' = memory
        \/ x # None /\ e # None /\ memory' = [memory EXCEPT ![e.n] = "freed"]
        \/ x # None /\ memory' = [memory EXCEPT ![x.n] = "unkept"]
    BY <1>3 DEF WriteNext, EchoAdd
  <2> HIDE DEF e, x
  <2>4. QED BY <2>1, <2>2, <2>3 DEF Base, TypeOK, Made
<1>4. ASSUME NEW c \in Channels, Answer(c) PROVE Made' = Made
  <2>1. Head(answers[c]).id \in 0..MaxItems /\ chanPeer[c] \in Peers
    <3>1. Head(answers[c]) \in [n : Numbers, id : 0..MaxItems]
      <4>1. answers[c] \in Seq([n : Numbers, id : 0..MaxItems]) /\ answers[c] # <<>>
        BY <1>4 DEF Base, TypeOK, Answer
      <4>2. QED BY <4>1, TailEl
    <3>2. QED BY <1>4, <3>1 DEF Base, TypeOK, Answer, Live
  <2> DEFINE e == echo[chanPeer[c]][Head(answers[c]).id]
  <2>2. e # None => e.n \in Made
    BY <2>1 DEF Base, AllMade
  <2>3. memory' = memory \/ (e # None /\ memory' = [memory EXCEPT ![e.n] = "freed"])
    BY <1>4 DEF Answer
  <2> HIDE DEF e
  <2>4. QED BY <2>2, <2>3 DEF Base, TypeOK, Made
<1>5. ASSUME NEW p \in Peers, NEW i \in 0..MaxItems, Expire(p, i) PROVE Made' = Made
  <2>1. echo[p][i].n \in Made
    BY <1>5 DEF Base, AllMade, Expire
  <2>2. QED BY <1>5, <2>1 DEF Base, TypeOK, Made, Expire
<1>6. ASSUME \A s \in Senders : ~Put(s),
             \A c \in Channels : ~WriteNext(c) /\ ~Answer(c),
             \A p \in Peers, i \in 0..MaxItems : ~Expire(p, i)
      PROVE  Made' = Made
  <2>1. memory' = memory
    BY <1>1, <1>6 DEF Next, Monitor, Sending, Epoll, MonLock, MonSkip, MonDial, MonUnlock,
      ReadServer, Increase, Put, Look, Claim, Fill, WriteRest, Disconnect, Remote
  <2>2. QED BY <2>1 DEF Made
<1>7. QED BY <1>2, <1>3, <1>4, <1>5, <1>6

\* hsHashAdd's two outcomes.
LEMMA EchoAddIs ==
  ASSUME NEW p, NEW x, EchoAdd(p, x)
  PROVE  \/ /\ echo[p][x.id] = None /\ echo' = echo
            /\ memory' = [memory EXCEPT ![x.n] = "unkept"]
         \/ /\ echo' = [echo EXCEPT ![p][x.id] = x]
            /\ memory' = IF echo[p][x.id] = None THEN memory
                         ELSE [memory EXCEPT ![echo[p][x.id].n] = "freed"]
BY DEF EchoAdd

\* The monitor dials a peer with a channel of the pool.
LEMMA DialFacts ==
  ASSUME TypeOK, MonDial
  PROVE  /\ Head(pool) \in Channels /\ Head(pool) \in El(pool)
         /\ Tail(pool) \in Seq(Channels) /\ cur \in Peers
<1>1. pool \in Seq(Channels) /\ pool # <<>> /\ cur \in 0..PeerCount /\ cur < PeerCount
  BY DEF TypeOK, MonDial
<1>2. QED BY <1>1, TailEl DEF Peers

LEMMA EchoTypes ==
  ASSUME echo \in [Peers -> [0..MaxItems -> Items \cup {None}]],
         NEW p \in Peers, NEW x \in Items, NEW i \in 0..MaxItems,
         echo' = [echo EXCEPT ![p][i] = x]
  PROVE  echo' \in [Peers -> [0..MaxItems -> Items \cup {None}]]
<1>1. echo[p] \in [0..MaxItems -> Items \cup {None}]
  OBVIOUS
<1>2. [echo[p] EXCEPT ![i] = x] \in [0..MaxItems -> Items \cup {None}]
  BY <1>1
<1>3. QED BY <1>2

\* onWrite's two outcomes.
LEMMA SendTypes ==
  ASSUME TypeOK, NEW c \in Channels, NEW x \in Items, Send(c, x)
  PROVE  /\ stream' \in [Channels -> Items \cup {None}]
         /\ wire' \in [Channels -> Seq(Items)]
<1>1. Append(wire[c], x) \in Seq(Items)
  BY AppendEl DEF TypeOK
<1>2. stream \in [Channels -> Items \cup {None}] /\ wire \in [Channels -> Seq(Items)]
  BY DEF TypeOK
<1>3. QED BY <1>1, <1>2 DEF Send

\* Every variable keeps its type.
LEMMA TypeStep == Base /\ [Next]_vars => TypeOK'
<1> SUFFICES ASSUME Base, [Next]_vars PROVE TypeOK'
  OBVIOUS
<1> USE DEF Base
<1>1. CASE Monitor
  <2>1. CASE MonLock
    <3>1. cur' \in 0..PeerCount
      BY <2>1 DEF MonLock
    <3>2. locked' \in BOOLEAN
      BY <2>1 DEF MonLock
    <3>3. QED BY <2>1, <3>1, <3>2 DEF TypeOK, MonLock, channel, queues, ring, locals, remote, history
  <2>2. CASE MonSkip
    <3>1. cur' \in 0..PeerCount
      BY <2>2 DEF MonSkip, TypeOK
    <3>2. QED BY <2>2, <3>1 DEF TypeOK, MonSkip, channel, queues, ring, locals, remote, history
  <2>3. CASE MonDial
    <3>1. Head(pool) \in Channels /\ Tail(pool) \in Seq(Channels) /\ cur \in Peers
      BY <2>3, DialFacts
    <3>2. /\ server' \in [Peers -> Channels \cup {None}]
          /\ chanPeer' \in [Channels -> Peers \cup {None}]
      BY <2>3, <3>1 DEF TypeOK, MonDial
    <3>3. /\ via' \in [Senders -> Channels \cup {None}]
          /\ to' \in [Senders -> Peers \cup {None}]
          /\ pc' \in [Senders -> Steps]
      BY <2>3, <3>1 DEF TypeOK, MonDial, Steps
    <3>4. QED BY <2>3, <3>1, <3>2, <3>3 DEF TypeOK, MonDial, queues, ring, locals, remote, history
  <2>4. CASE MonUnlock
    BY <2>4 DEF TypeOK, MonUnlock, channel, queues, ring, locals, remote, history
  <2>5. QED BY <1>1, <2>1, <2>2, <2>3, <2>4 DEF Monitor
<1>2. ASSUME NEW a \in Apps, NEW p \in Peers, ReadServer(a, p) PROVE TypeOK'
  <2>1. server[p] \in Channels
    BY <1>2 DEF TypeOK, ReadServer
  <2>2. QED BY <1>2, <2>1 DEF TypeOK, ReadServer, channel, queues, ring, remote, history
<1>3. ASSUME NEW s \in Senders, Increase(s) PROVE TypeOK'
  <2>1. to[s] \in Peers
    BY <1>3 DEF TypeOK, Locals, Increase
  <2>2. idCur[to[s]] + 1 \in 0..MaxItems
    <3>1. s \notin Getting /\ Getting \in SUBSET Senders /\ Promised \in SUBSET Senders
      BY <1>3 DEF Increase, Getting, Promised
    <3>2. Cardinality(Getting \cup {s}) = Cardinality(Getting) + 1
      BY <3>1, SendersFinite, FS_AddElement
    <3>3. Cardinality(Promised \cup {s}) <= Cardinality(Promised) + 1
      BY <3>1, SendersFinite, FS_AddElement
    <3>4. Getting \cup {s} \subseteq Promised \cup {s}
      BY DEF Getting, Promised
    <3>5. /\ Promised \cup {s} \in SUBSET Senders
          /\ Cardinality(Getting \cup {s}) <= Cardinality(Promised \cup {s})
      BY <3>1, <3>4, SendersFinite, FS_Subset
    <3>6. Cardinality(Made) + Cardinality(Promised \cup {s}) <= MaxItems
      <4>1. CASE s \in Promised
        <5>1. Promised \cup {s} = Promised
          BY <4>1
        <5>2. QED BY <5>1 DEF Counted
      <4>2. CASE s \notin Promised
        <5>1. RoomToMake
          BY <1>3, <4>2 DEF Increase, Promised
        <5>2. QED BY <3>1, <3>3, <5>1, SendersFinite, MadeFinite DEF RoomToMake
      <4>3. QED BY <4>1, <4>2
    <3>7. idCur[to[s]] <= Cardinality(Made) + Cardinality(Getting) /\ idCur[to[s]] \in Nat
      BY <2>1 DEF Counted, TypeOK
    <3>8. Cardinality(Getting) \in Nat /\ Cardinality(Promised \cup {s}) \in Nat
      BY <3>1, <3>5, SendersFinite
    <3>9. QED BY <3>2, <3>5, <3>6, <3>7, <3>8, MadeFinite
  <2>3. idCur' \in [Peers -> 0..MaxItems] /\ pc' \in [Senders -> Steps]
    BY <1>3, <2>1, <2>2 DEF TypeOK, Increase, Steps
  <2>4. overlap' \in BOOLEAN
    BY <1>3 DEF Increase
  <2>5. QED BY <1>3, <2>3, <2>4 DEF TypeOK, Increase, channel, queues, ring, remote
<1>4. ASSUME NEW s \in Senders, MakeItem(s) PROVE TypeOK'
  <2>1. to[s] \in Peers /\ idCur[to[s]] \in 0..MaxItems
    BY <1>4 DEF TypeOK, Locals, MakeItem
  <2>2. Cardinality(Made) + 1 \in Numbers
    BY <1>4, MakesNext
  <2>3. [n |-> Cardinality(Made) + 1, id |-> idCur[to[s]], to |-> to[s],
         type |-> IF s = Mon THEN "register" ELSE "data"] \in Items
    BY <2>1, <2>2 DEF Items
  <2>4. /\ item' \in [Senders -> Items \cup {None}]
        /\ memory' \in [Numbers -> Memory]
        /\ pc' \in [Senders -> Steps]
    BY <1>4, <2>2, <2>3 DEF TypeOK, MakeItem, Memory, Steps
  <2>5. QED BY <1>4, <2>4 DEF TypeOK, MakeItem, channel, queues, ring, remote, history
<1>5. ASSUME NEW s \in Senders, Put(s) PROVE TypeOK'
  <2>1. item[s] \in Items /\ via[s] \in Channels /\ item[s].n \in Numbers
    BY <1>5, ItemFacts DEF TypeOK, Locals, Put, Refuse, Show, InRing
  <2>2. /\ memory' \in [Numbers -> Memory]
        /\ tail' \in [Channels -> Nat] /\ noRegister' \subseteq Channels
    <3>1. /\ memory \in [Numbers -> Memory] /\ tail \in [Channels -> Nat]
          /\ noRegister \subseteq Channels /\ at[s] + 1 \in Nat
      BY DEF TypeOK, Memory
    <3>2. CASE Refuse(s)
      <4>1. /\ memory' = [memory EXCEPT ![item[s].n] = "refused"] /\ tail' = tail
            /\ noRegister' \subseteq noRegister \cup {via[s]}
        BY <3>2 DEF Refuse, queues, ring
      <4>2. QED BY <2>1, <3>1, <4>1 DEF Memory
    <3>3. CASE Show(s)
      <4>1. memory' = memory /\ tail' = [tail EXCEPT ![via[s]] = at[s] + 1]
            /\ noRegister' = noRegister
        BY <3>3 DEF Show, history
      <4>2. QED BY <3>1, <4>1
    <3>4. QED BY <1>5, <3>2, <3>3 DEF Put
  <2>3. /\ cur' \in 0..PeerCount /\ pc' \in [Senders -> Steps]
        /\ to' \in [Senders -> Peers \cup {None}]
        /\ via' \in [Senders -> Channels \cup {None}]
        /\ item' \in [Senders -> Items \cup {None}]
        /\ at' \in [Senders -> Nat]
    <3>1. Leave(s) /\ pc[s] # "idle"
      BY <1>5 DEF Put, Refuse, Show
    <3>2. QED BY <3>1 DEF TypeOK, Pass, Leave, Steps
  <2>4. UNCHANGED <<locked, channel, head, cons, slot, stream, echo, idCur, remote, overlap,
                    leftover, collided>>
    BY <1>5 DEF Put, Refuse, Show, queues, ring, history
  <2>5. QED BY <2>2, <2>3, <2>4 DEF TypeOK, channel, remote, Memory, Steps
<1>6. ASSUME NEW s \in Senders, Enter(s) PROVE TypeOK'
  <2>1. via[s] \in Channels /\ item[s] \in Items
    BY <1>6 DEF TypeOK, Locals, Enter, Look, Claim, Fill, InRing
  <2>2. at[s] \in Nat /\ at[s] % RingSize \in 0..(RingSize - 1)
    BY DivMod DEF TypeOK
  <2>3. /\ pc' \in [Senders -> Steps] /\ at' \in [Senders -> Nat]
        /\ head' \in [Channels -> Nat] /\ collided' \subseteq Channels
    <3>1. /\ pc \in [Senders -> Steps] /\ at \in [Senders -> Nat]
          /\ head \in [Channels -> Nat] /\ collided \subseteq Channels
      BY DEF TypeOK, Steps
    <3>2. CASE Look(s)
      <4>1. /\ at' = [at EXCEPT ![s] = head[via[s]]] /\ head' = head
            /\ collided' \subseteq collided \cup {via[s]}
            /\ pc' = [pc EXCEPT ![s] = "claim"]
        BY <3>2 DEF Look, queues, ring
      <4>2. QED BY <2>1, <3>1, <4>1 DEF Steps
    <3>3. CASE Claim(s)
      <4>1. /\ head' = [head EXCEPT ![via[s]] = at[s] + 1] /\ pc' = [pc EXCEPT ![s] = "fill"]
            /\ at' = at /\ collided' = collided
        BY <3>3 DEF Claim, history
      <4>2. QED BY <2>1, <2>2, <3>1, <4>1 DEF Steps
    <3>4. CASE Fill(s)
      <4>1. /\ head' = head /\ pc' = [pc EXCEPT ![s] = "show"]
            /\ at' = at /\ collided' = collided
        BY <3>4 DEF Fill, history
      <4>2. QED BY <3>1, <4>1 DEF Steps
    <3>5. QED BY <1>6, <3>2, <3>3, <3>4 DEF Enter
  <2>4. slot' \in [Channels -> [0..(RingSize - 1) -> Items \cup {None}]]
    <3>1. CASE Look(s) \/ Claim(s)
      BY <3>1 DEF TypeOK, Look, Claim, queues, ring
    <3>2. CASE Fill(s)
      BY <2>1, <2>2, <3>2 DEF TypeOK, Fill
    <3>3. QED BY <1>6, <3>1, <3>2 DEF Enter
  <2>5. UNCHANGED <<locked, cur, channel, tail, cons, stream, echo, idCur, memory, to, via,
                    item, remote, overlap, leftover, noRegister>>
    BY <1>6 DEF Enter, Look, Claim, Fill, queues, ring, history
  <2>6. QED BY <2>3, <2>4, <2>5 DEF TypeOK, channel, remote, Steps
<1>7. ASSUME NEW c \in Channels, Epoll(c) PROVE TypeOK'
  <2>1. CASE WriteNext(c)
    <3> DEFINE x == Foremost(c)
    <3>1. chanPeer[c] \in Peers /\ (x # None => x \in Items /\ x.id \in 0..MaxItems)
      BY <2>1, ForemostFacts, ItemFacts DEF TypeOK, WriteNext, Live
    <3>2. /\ cons' \in [Channels -> Nat] /\ UNCHANGED <<head, tail, slot>>
      BY <2>1 DEF TypeOK, WriteNext, Take
    <3>3. \/ UNCHANGED <<echo, memory, wire, stream>>
          \/ x # None /\ EchoAdd(chanPeer[c], x) /\ Send(c, x)
      BY <2>1 DEF WriteNext
    <3> HIDE DEF x
    <3>4. echo' \in [Peers -> [0..MaxItems -> Items \cup {None}]]
      <4>1. echo \in [Peers -> [0..MaxItems -> Items \cup {None}]]
        BY DEF TypeOK
      <4>2. CASE UNCHANGED <<echo, memory, wire, stream>>
        BY <4>1, <4>2
      <4>3. CASE x # None /\ EchoAdd(chanPeer[c], x)
        <5>1. echo' = echo \/ echo' = [echo EXCEPT ![chanPeer[c]][x.id] = x]
          BY <4>3, EchoAddIs
        <5>2. chanPeer[c] \in Peers /\ x \in Items /\ x.id \in 0..MaxItems
          BY <3>1, <4>3
        <5>3. QED BY <4>1, <5>1, <5>2, EchoTypes
      <4>4. QED BY <3>3, <4>2, <4>3
    <3>5. memory' \in [Numbers -> Memory]
      BY <3>3 DEF TypeOK, EchoAdd, Memory
    <3>6. /\ stream' \in [Channels -> Items \cup {None}]
          /\ wire' \in [Channels -> Seq(Items)]
      BY <3>1, <3>3, SendTypes DEF TypeOK
    <3>7. UNCHANGED <<locked, cur, channel, idCur, locals, answers, known, got, history>>
      BY <2>1 DEF WriteNext
    <3>8. QED BY <3>2, <3>4, <3>5, <3>6, <3>7 DEF TypeOK, channel, locals, history, Memory
  <2>2. CASE WriteRest(c)
    <3>1. /\ stream' \in [Channels -> Items \cup {None}]
          /\ wire' \in [Channels -> Seq(Items)]
      <4>1. stream[c] \in Items
        BY <2>2 DEF TypeOK, WriteRest
      <4>2. QED BY <2>2, <4>1, SendTypes DEF WriteRest
    <3>2. QED BY <2>2, <3>1 DEF TypeOK, WriteRest, channel, ring, locals, history
  <2>3. CASE Answer(c)
    <3>1. answers' \in [Channels -> Seq([n : Numbers, id : 0..MaxItems])]
      <4>1. Tail(answers[c]) \in Seq([n : Numbers, id : 0..MaxItems])
        <5>1. answers[c] \in Seq([n : Numbers, id : 0..MaxItems]) /\ answers[c] # <<>>
          BY <2>3 DEF TypeOK, Answer
        <5>2. QED BY <5>1, TailEl
      <4>2. QED BY <2>3, <4>1 DEF TypeOK, Answer
    <3>2. echo' \in [Peers -> [0..MaxItems -> Items \cup {None}]]
      BY <2>3 DEF TypeOK, Answer
    <3>3. memory' \in [Numbers -> Memory]
      BY <2>3 DEF TypeOK, Answer, Memory
    <3>4. QED BY <2>3, <3>1, <3>2, <3>3 DEF TypeOK, Answer, channel, ring, locals, history, Memory
  <2>4. CASE Disconnect(c)
    <3>1. /\ pool' \in Seq(Channels)
          /\ server' \in [Peers -> Channels \cup {None}]
          /\ chanPeer' \in [Channels -> Peers \cup {None}]
      BY <2>4, AppendEl DEF TypeOK, Disconnect, ForgetServer
    <3>2. UNCHANGED ring /\ stream' \in [Channels -> Items \cup {None}]
      BY <2>4 DEF TypeOK, Disconnect, ResetSend
    <3>3. /\ wire' \in [Channels -> Seq(Items)]
          /\ answers' \in [Channels -> Seq([n : Numbers, id : 0..MaxItems])]
          /\ known' \in [Channels -> BOOLEAN]
      BY <2>4, EmptySeq DEF TypeOK, Disconnect
    <3>4. leftover' \in BOOLEAN /\ noRegister' \subseteq Channels
      BY <2>4 DEF TypeOK, Disconnect
    <3>5. QED BY <2>4, <3>1, <3>2, <3>3, <3>4 DEF TypeOK, Disconnect, locals, ring
  <2>5. QED BY <1>7, <2>1, <2>2, <2>3, <2>4 DEF Epoll
<1>8. ASSUME NEW c \in Channels, Remote(c) PROVE TypeOK'
  <2>1. Head(wire[c]) \in Items /\ Tail(wire[c]) \in Seq(Items)
    BY <1>8, TailEl DEF TypeOK, Remote
  <2>2. /\ wire' \in [Channels -> Seq(Items)]
        /\ known' \in [Channels -> BOOLEAN]
    BY <1>8, <2>1 DEF TypeOK, Remote
  <2>3. answers' \in [Channels -> Seq([n : Numbers, id : 0..MaxItems])]
    <3>1. [n |-> Head(wire[c]).n, id |-> Head(wire[c]).id] \in [n : Numbers, id : 0..MaxItems]
      BY <2>1, ItemFacts
    <3>2. Append(answers[c], [n |-> Head(wire[c]).n, id |-> Head(wire[c]).id])
            \in Seq([n : Numbers, id : 0..MaxItems])
      BY <3>1, AppendEl DEF TypeOK
    <3>3. QED BY <1>8, <3>2 DEF TypeOK, Remote
  <2>4. got' \in [Peers -> Seq(Items)]
    <3>1. \A p \in Peers : Append(got[p], Head(wire[c])) \in Seq(Items)
      BY <2>1, AppendEl DEF TypeOK
    <3>2. QED BY <1>8, <3>1 DEF TypeOK, Remote
  <2>5. QED BY <1>8, <2>2, <2>3, <2>4 DEF TypeOK, Remote, channel, queues, ring, locals, history
<1>9. ASSUME NEW p \in Peers, NEW i \in 0..MaxItems, Expire(p, i) PROVE TypeOK'
  BY <1>9 DEF TypeOK, Expire, channel, queues, ring, locals, remote, history
<1>10. CASE UNCHANGED vars
  BY <1>10 DEF TypeOK, vars, channel, queues, ring, locals, remote, history
<1>11. QED
  BY <1>1, <1>2, <1>3, <1>4, <1>5, <1>7, <1>8, <1>9, <1>10, <1>6
  DEF Next, Sending, Put, Enter

-----------------------------------------------------------------------------
(***************************************************************************)
(* The locals and the numbers.                                             *)
(***************************************************************************)
LEMMA LocalsStep == Base /\ [Next]_vars => Locals' /\ Pass'
<1> SUFFICES ASSUME Base, [Next]_vars PROVE Locals' /\ Pass'
  OBVIOUS
<1> USE DEF Base
<1>1. CASE MonDial
  <2>1. Head(pool) \in Channels /\ cur \in Peers
    BY <1>1, DialFacts
  <2>2. QED BY <1>1, <2>1, PeerFacts DEF TypeOK, Locals, Pass, MonDial, InRing
<1>2. ASSUME NEW a \in Apps, NEW p \in Peers, ReadServer(a, p) PROVE Locals' /\ Pass'
  BY <1>2, PeerFacts, SendersAssumption DEF TypeOK, Locals, Pass, ReadServer, InRing
<1>3. ASSUME NEW s \in Senders, Increase(s) PROVE Locals' /\ Pass'
  BY <1>3 DEF TypeOK, Locals, Pass, Increase, InRing
<1>4. ASSUME NEW s \in Senders, MakeItem(s) PROVE Locals' /\ Pass'
  <2>1. item'[s] # None /\ item'[s].to = to[s] /\ \A t \in Senders \ {s} : item'[t] = item[t]
    <3>1. TypeOK'
      BY TypeStep
    <3>2. item'[s] # None /\ item'[s].to = to[s]
      <4>1. to[s] \in Peers /\ idCur[to[s]] \in 0..MaxItems /\ Cardinality(Made) + 1 \in Numbers
        BY <1>4, MakesNext DEF TypeOK, Locals, MakeItem
      <4>2. item'[s] \in Items
        BY <1>4, <4>1 DEF TypeOK, MakeItem, Items
      <4>3. QED BY <1>4, <4>2, ItemFacts DEF TypeOK, MakeItem
    <3>3. QED BY <1>4, <3>2 DEF TypeOK, MakeItem
  <2>2. Locals'
    BY <1>4, <2>1 DEF TypeOK, Locals, MakeItem, InRing
  <2>3. Pass'
    BY <1>4 DEF TypeOK, Pass, MakeItem
  <2>4. QED BY <2>2, <2>3
<1>5. ASSUME NEW s \in Senders, Put(s) PROVE Locals' /\ Pass'
  <2>1. Leave(s) /\ locked' = locked
    BY <1>5 DEF Put, Refuse, Show
  <2>2. /\ pc'[s] = "idle" /\ item'[s] = None /\ to'[s] = None /\ via'[s] = None
        /\ \A t \in Senders \ {s} : /\ pc'[t] = pc[t] /\ item'[t] = item[t] /\ to'[t] = to[t]
                                    /\ via'[t] = via[t]
    BY <2>1 DEF TypeOK, Leave
  <2>3. Locals'
    BY <2>2 DEF Locals, InRing
  <2>4. Pass'
    BY <2>1, <2>2, PeerFacts DEF Pass, Leave
  <2>5. QED BY <2>3, <2>4
<1>6. ASSUME NEW s \in Senders, Enter(s) PROVE Locals' /\ Pass'
  <2>1. UNCHANGED <<item, to, via, locked, cur>>
    BY <1>6 DEF Enter, Look, Claim, Fill
  <2>2. /\ pc[s] \in {"look", "claim", "fill"} /\ pc'[s] \in {"claim", "fill", "show"}
        /\ \A t \in Senders \ {s} : pc'[t] = pc[t]
    BY <1>6 DEF TypeOK, Enter, Look, Claim, Fill
  <2>3. \A t \in Senders : /\ InRing(t)' \/ pc'[t] = "look" <=> InRing(t) \/ pc[t] = "look"
                           /\ pc'[t] = "idle" <=> pc[t] = "idle"
    BY <2>2 DEF InRing
  <2>4. QED BY <2>1, <2>3, PeerFacts DEF Locals, Pass
<1>7. CASE MonLock \/ MonSkip \/ MonUnlock
  BY <1>7 DEF TypeOK, Locals, Pass, MonLock, MonSkip, MonUnlock, locals, InRing
<1>8. CASE \/ \E c \in Channels : Epoll(c) \/ Remote(c)
           \/ \E p \in Peers, i \in 0..MaxItems : Expire(p, i)
           \/ UNCHANGED vars
  <2>1. UNCHANGED <<pc, to, via, item, locked, cur>>
    BY <1>8 DEF Epoll, WriteNext, WriteRest, Answer, Disconnect, Remote, Expire, vars, locals
  <2>2. QED BY <2>1 DEF Locals, Pass, InRing
<1>9. QED
  BY <1>1, <1>2, <1>3, <1>4, <1>5, <1>7, <1>8, <1>6 DEF Next, Monitor, Sending, Put, Enter

\* The bound on items: numbers are kept for those that promised to make one.
LEMMA CountedStep == Base /\ [Next]_vars => Counted'
<1> SUFFICES ASSUME Base, [Next]_vars PROVE Counted'
  OBVIOUS
<1> USE DEF Base
<1>1. /\ Promised \in SUBSET Senders /\ Getting \in SUBSET Senders
      /\ Promised' \in SUBSET Senders /\ Getting' \in SUBSET Senders
  BY DEF Promised, Getting
<1>2. /\ Cardinality(Promised) \in Nat /\ Cardinality(Getting) \in Nat
      /\ Cardinality(Promised') \in Nat /\ Cardinality(Getting') \in Nat
      /\ Cardinality(Made) \in Nat
  BY <1>1, SendersFinite, MadeFinite
<1>3. \A p \in Peers : idCur[p] \in Nat
  BY DEF TypeOK
<1>4. ASSUME NEW s \in Senders, Increase(s) PROVE Counted'
  <2>1. /\ s \notin Getting /\ Getting' = Getting \cup {s} /\ Promised' = Promised \cup {s}
    BY <1>4 DEF TypeOK, Increase, Getting, Promised
  <2>2. Cardinality(Getting') = Cardinality(Getting) + 1
    BY <1>1, <2>1, SendersFinite, FS_AddElement
  <2>3. Cardinality(Made) + Cardinality(Promised') <= MaxItems
    <3>1. CASE s \in Promised
      <4>1. Promised' = Promised
        BY <2>1, <3>1
      <4>2. QED BY <4>1 DEF Counted
    <3>2. CASE s \notin Promised
      <4>1. RoomToMake
        BY <1>4, <3>2 DEF Increase, Promised
      <4>2. Cardinality(Promised') = Cardinality(Promised) + 1
        BY <1>1, <2>1, <3>2, SendersFinite, FS_AddElement
      <4>3. QED BY <1>2, <4>1, <4>2 DEF RoomToMake
    <3>3. QED BY <3>1, <3>2
  <2>4. Made' = Made
    BY <1>4 DEF Increase, Made
  <2>5. \A p \in Peers : idCur'[p] <= idCur[p] + 1
    BY <1>3, <1>4 DEF TypeOK, Increase
  <2>6. \A p \in Peers : idCur'[p] \in Nat
    <3>1. TypeOK'
      BY TypeStep
    <3>2. QED BY <3>1 DEF TypeOK
  <2>7. QED BY <1>2, <1>3, <2>2, <2>3, <2>4, <2>5, <2>6 DEF Counted
<1>5. ASSUME NEW s \in Senders, MakeItem(s) PROVE Counted'
  <2>1. /\ s \in Getting /\ Getting' = Getting \ {s}
        /\ s \in Promised /\ Promised' = Promised \ {s}
    BY <1>5 DEF TypeOK, MakeItem, Getting, Promised
  <2>2. /\ Cardinality(Getting') = Cardinality(Getting) - 1
        /\ Cardinality(Promised') = Cardinality(Promised) - 1
    BY <1>1, <2>1, SendersFinite, FS_RemoveElement
  <2>3. /\ Made' = Made \cup {Cardinality(Made) + 1}
        /\ Cardinality(Made') = Cardinality(Made) + 1
    BY <1>5, MakesNext
  <2>4. Made' = 1..Cardinality(Made')
    BY <1>2, <2>3 DEF Counted
  <2>5. idCur' = idCur
    BY <1>5 DEF MakeItem
  <2>6. Cardinality(Made') + Cardinality(Promised') <= MaxItems
    BY <1>2, <2>2, <2>3 DEF Counted
  <2>7. \A p \in Peers : idCur'[p] <= Cardinality(Made') + Cardinality(Getting')
    BY <1>2, <1>3, <2>2, <2>3, <2>5 DEF Counted
  <2>8. QED BY <2>4, <2>6, <2>7 DEF Counted
<1>6. CASE MonDial
  <2>1. Getting' = Getting
    BY <1>6 DEF TypeOK, MonDial, Getting
  <2>2. Promised' = Promised \cup {Mon}
    BY <1>6, PeerFacts DEF TypeOK, MonDial, Promised
  <2>3. Cardinality(Promised') <= Cardinality(Promised) + 1
    <3>1. Cardinality(Promised \cup {Mon}) =
            IF Mon \in Promised THEN Cardinality(Promised) ELSE Cardinality(Promised) + 1
      BY <1>1, SendersFinite, FS_AddElement
    <3>2. QED BY <1>2, <2>2, <3>1
  <2>4. Made' = Made /\ idCur' = idCur
    BY <1>6 DEF MonDial, Made
  <2>5. Cardinality(Made) + Cardinality(Promised) < MaxItems
    BY <1>6 DEF MonDial, RoomToMake
  <2>6. QED BY <1>2, <2>1, <2>3, <2>4, <2>5 DEF Counted
<1>7. ASSUME \A s \in Senders : ~Increase(s) /\ ~MakeItem(s), ~MonDial
      PROVE  Counted'
  <2>1. idCur' = idCur
    BY <1>7 DEF Next, Monitor, Sending, Epoll, MonLock, MonSkip, MonUnlock,
      ReadServer, Look, Refuse, Claim, Fill, Show, WriteNext, WriteRest, Answer, Disconnect,
      Remote, Expire, vars
  <2>2. Made' = Made
    <3>1. CASE Next
      BY <1>7, <3>1, MadeKept
    <3>2. CASE UNCHANGED vars
      BY <3>2 DEF vars, Made
    <3>3. QED BY <3>1, <3>2
  <2>3. Getting' = Getting /\ Promised' = Promised
    <3>1. ASSUME NEW a \in Apps, NEW p \in Peers, ReadServer(a, p)
          PROVE  Getting' = Getting /\ Promised' = Promised
      BY <3>1, SendersAssumption DEF TypeOK, ReadServer, Getting, Promised
    <3>2. ASSUME NEW s \in Senders, Put(s)
          PROVE  Getting' = Getting /\ Promised' = Promised
      BY <3>2 DEF TypeOK, Put, Refuse, Show, Leave, Getting, Promised
    <3>3. ASSUME NEW s \in Senders, Enter(s)
          PROVE  Getting' = Getting /\ Promised' = Promised
      BY <3>3 DEF TypeOK, Enter, Look, Claim, Fill, Getting, Promised
    <3>4. ASSUME \A a \in Apps, p \in Peers : ~ReadServer(a, p),
                 \A s \in Senders : ~Put(s) /\ ~Enter(s)
          PROVE  pc' = pc
      BY <1>7, <3>4 DEF Next, Monitor, Sending, Put, Enter, Epoll, MonLock, MonSkip,
        MonUnlock, WriteNext, WriteRest, Answer, Disconnect, Remote, Expire, vars, locals
    <3>5. pc' = pc => Getting' = Getting /\ Promised' = Promised
      BY DEF Getting, Promised
    <3>6. QED BY <3>1, <3>2, <3>4, <3>5, <3>3
  <2>4. QED BY <2>1, <2>2, <2>3 DEF Counted
<1>8. QED BY <1>4, <1>5, <1>6, <1>7

-----------------------------------------------------------------------------
(***************************************************************************)
(* The pool, and what is made.                                             *)
(***************************************************************************)
LEMMA PoolStep == Base /\ [Next]_vars => PoolInv'
<1> SUFFICES ASSUME Base, [Next]_vars PROVE PoolInv'
  OBVIOUS
<1> USE DEF Base
<1>1. CASE MonDial
  <2> DEFINE d == Head(pool)
  <2>1. d \in Channels /\ cur \in Peers /\ d \in El(pool)
    BY <1>1, DialFacts
  <2>2. /\ \A i, j \in 1..Len(pool') : pool'[i] = pool'[j] => i = j
        /\ \A c \in Channels : c \in El(pool') <=> c \in El(pool) /\ c # d
    <3>1. /\ pool' = Tail(pool) /\ Len(pool) \in Nat /\ Len(pool) > 0 /\ d = pool[1]
          /\ Len(Tail(pool)) = Len(pool) - 1
          /\ \A i \in 1..Len(Tail(pool)) : Tail(pool)[i] = pool[i + 1]
      BY <1>1, HeadTailProperties, LenProperties, EmptySeq DEF TypeOK, MonDial
    <3>2. \A i, j \in 1..Len(pool) : pool[i] = pool[j] => i = j
      BY DEF PoolInv
    <3>3. d \notin El(pool')
      BY <3>1, <3>2 DEF El
    <3>4. El(pool) = El(pool') \cup {d}
      BY <1>1, <3>1, TailEl DEF TypeOK
    <3>5. \A i, j \in 1..Len(pool') : pool'[i] = pool'[j] => i = j
      BY <3>1, <3>2
    <3>6. QED BY <3>3, <3>4, <3>5
  <2>3. chanPeer[d] = None /\ server[cur] = None
    BY <1>1, <2>1 DEF PoolInv, MonDial
  <2>4. /\ server' = [server EXCEPT ![cur] = d] /\ chanPeer' = [chanPeer EXCEPT ![d] = cur]
        /\ UNCHANGED <<stream, wire, answers>>
    BY <1>1 DEF MonDial, queues, remote
  <2>5. \A c \in Channels : chanPeer[c] # cur
    BY <2>1, <2>3, PeerFacts DEF PoolInv
  <2> HIDE DEF d
  <2>6. server \in [Peers -> Channels \cup {None}] /\ chanPeer \in [Channels -> Peers \cup {None}]
    BY DEF TypeOK
  <2>7. QED BY <2>1, <2>2, <2>3, <2>4, <2>5, <2>6, PeerFacts DEF PoolInv
<1>2. ASSUME NEW c \in Channels, Disconnect(c) PROVE PoolInv'
  <2>1. chanPeer[c] \in Peers /\ c \notin El(pool)
    BY <1>2 DEF TypeOK, PoolInv, Disconnect, Live
  <2>2. /\ \A i, j \in 1..Len(pool') : pool'[i] = pool'[j] => i = j
        /\ \A b \in Channels : b \in El(pool') <=> b \in El(pool) \/ b = c
    <3>1. /\ pool' = Append(pool, c) /\ Len(pool) \in Nat
          /\ Len(Append(pool, c)) = Len(pool) + 1
          /\ \A i \in 1..Len(pool) : Append(pool, c)[i] = pool[i]
          /\ Append(pool, c)[Len(pool) + 1] = c
      BY <1>2, AppendProperties, LenProperties DEF TypeOK, Disconnect
    <3>2. \A i, j \in 1..Len(pool) : pool[i] = pool[j] => i = j
      BY DEF PoolInv
    <3>3. El(pool') = El(pool) \cup {c}
      BY <1>2, <3>1, AppendEl DEF TypeOK
    <3>4. \A i, j \in 1..Len(pool') : pool'[i] = pool'[j] => i = j
      BY <2>1, <3>1, <3>2 DEF El
    <3>5. QED BY <3>3, <3>4
  <2>3. server[chanPeer[c]] = c
    BY <2>1, PeerFacts DEF PoolInv
  <2>4. /\ server' = [server EXCEPT ![chanPeer[c]] = None]
        /\ chanPeer' = [chanPeer EXCEPT ![c] = None]
        /\ stream' = [stream EXCEPT ![c] = None]
        /\ wire' = [wire EXCEPT ![c] = <<>>] /\ answers' = [answers EXCEPT ![c] = <<>>]
    BY <1>2 DEF Disconnect, ForgetServer, ResetSend
  <2>5. QED BY <2>1, <2>2, <2>3, <2>4, PeerFacts DEF TypeOK, PoolInv
<1>3. ASSUME NEW c \in Channels, WriteNext(c) \/ WriteRest(c) \/ Answer(c) \/ Remote(c)
      PROVE  PoolInv'
  <2>1. chanPeer[c] # None
    BY <1>3 DEF PoolInv, WriteNext, WriteRest, Answer, Remote, Live
  <2>2. UNCHANGED channel
    BY <1>3 DEF WriteNext, WriteRest, Answer, Remote
  <2>3. \A b \in Channels \ {c} :
          stream'[b] = stream[b] /\ wire'[b] = wire[b] /\ answers'[b] = answers[b]
    BY <1>3 DEF TypeOK, WriteNext, WriteRest, Answer, Remote, Send, queues
  <2>4. QED BY <2>1, <2>2, <2>3 DEF PoolInv, channel
<1>4. ASSUME ~MonDial,
             \A c \in Channels : /\ ~Disconnect(c) /\ ~WriteNext(c) /\ ~WriteRest(c)
                                 /\ ~Answer(c) /\ ~Remote(c)
      PROVE  PoolInv'
  <2>1. UNCHANGED <<pool, server, chanPeer, stream, wire, answers>>
    BY <1>4 DEF Next, Monitor, Sending, Epoll, MonLock, MonSkip, MonUnlock, ReadServer,
      Increase, MakeItem, Look, Refuse, Claim, Fill, Show, Expire, vars, channel, queues,
      remote
  <2>2. QED BY <2>1 DEF PoolInv
<1>5. QED BY <1>1, <1>2, <1>3, <1>4

\* What is made stays made, freed or not.
LEMMA MadeOnlyGrows == Base /\ [Next]_vars => Made \subseteq Made'
<1> SUFFICES ASSUME Base, [Next]_vars PROVE Made \subseteq Made'
  OBVIOUS
<1>1. CASE Next
  BY <1>1, MakesNext, MadeKept
<1>2. CASE UNCHANGED vars
  BY <1>2 DEF vars, Made
<1>3. QED BY <1>1, <1>2

\* Every item a queue, an echo or a sender has was made by newSndItem.
LEMMA AllMadeStep == Base /\ [Next]_vars => AllMade'
<1> SUFFICES ASSUME Base, [Next]_vars PROVE AllMade'
  OBVIOUS
<1> USE DEF Base
<1>1. Made \subseteq Made'
  BY MadeOnlyGrows
<1>2. ASSUME NEW s \in Senders, MakeItem(s) PROVE AllMade'
  <2>1. item'[s].n \in Made' /\ \A t \in Senders \ {s} : item'[t] = item[t]
    BY <1>2, MakesNext DEF TypeOK, MakeItem
  <2>2. UNCHANGED <<slot, echo>>
    BY <1>2 DEF MakeItem, queues, ring
  <2>3. QED BY <1>1, <2>1, <2>2 DEF AllMade
<1>3. ASSUME NEW s \in Senders, Put(s) PROVE AllMade'
  <2>1. \A t \in Senders : item'[t] = item[t] \/ item'[t] = None
    BY <1>3 DEF TypeOK, Put, Refuse, Show, Leave
  <2>2. UNCHANGED <<slot, echo>>
    BY <1>3 DEF Put, Refuse, Show, queues, ring
  <2>3. QED BY <1>1, <2>1, <2>2 DEF AllMade
<1>4. ASSUME NEW s \in Senders, Fill(s) PROVE AllMade'
  <2>1. item[s].n \in Made
    BY <1>4 DEF Locals, AllMade, Fill, InRing
  <2>2. \A c \in Channels, i \in Slots : slot'[c][i] = slot[c][i] \/ slot'[c][i] = item[s]
    BY <1>4 DEF TypeOK, Fill, Slots
  <2>3. UNCHANGED <<item, echo>>
    BY <1>4 DEF Fill
  <2>4. QED BY <1>1, <2>1, <2>2, <2>3 DEF AllMade
<1>5. ASSUME NEW c \in Channels, WriteNext(c) PROVE AllMade'
  <2>1. UNCHANGED <<item, slot>>
    BY <1>5 DEF WriteNext, Take, locals
  <2> DEFINE x == Foremost(c)
  <2>2. chanPeer[c] \in Peers /\ (x # None => x \in Items /\ x.n \in Made)
    BY <1>5, ForemostFacts DEF TypeOK, WriteNext, Live
  <2>3. echo' = echo \/ (x # None /\ echo' = [echo EXCEPT ![chanPeer[c]][x.id] = x])
    BY <1>5, EchoAddIs DEF WriteNext
  <2> HIDE DEF x
  <2>4. x # None => x.id \in 0..MaxItems
    BY <2>2, ItemFacts
  <2>5. \A p \in Peers, i \in 0..MaxItems :
          echo'[p][i] # None => echo'[p][i].n \in Made /\ echo'[p][i].id = i
    <3>1. echo \in [Peers -> [0..MaxItems -> Items \cup {None}]]
      BY DEF TypeOK
    <3>2. \A p \in Peers, i \in 0..MaxItems :
            \/ echo'[p][i] = echo[p][i]
            \/ x # None /\ echo'[p][i] = x /\ i = x.id
      BY <2>2, <2>3, <2>4, <3>1
    <3>3. QED BY <2>2, <3>2 DEF AllMade
  <2>6. QED BY <1>1, <2>1, <2>5 DEF AllMade
<1>6. ASSUME NEW c \in Channels, Answer(c) PROVE AllMade'
  <2>1. UNCHANGED <<item, slot>>
    BY <1>6 DEF Answer, locals, ring
  <2>2. \A p \in Peers, i \in 0..MaxItems : echo'[p][i] = echo[p][i] \/ echo'[p][i] = None
    BY <1>6 DEF TypeOK, Answer
  <2>3. QED BY <1>1, <2>1, <2>2 DEF AllMade
<1>7. ASSUME NEW q \in Peers, NEW j \in 0..MaxItems, Expire(q, j) PROVE AllMade'
  <2>1. UNCHANGED <<item, slot>>
    BY <1>7 DEF Expire, locals, ring
  <2>2. \A p \in Peers, i \in 0..MaxItems : echo'[p][i] = echo[p][i] \/ echo'[p][i] = None
    BY <1>7 DEF TypeOK, Expire
  <2>3. QED BY <1>1, <2>1, <2>2 DEF AllMade
<1>8. ASSUME \A s \in Senders : ~MakeItem(s) /\ ~Put(s) /\ ~Fill(s),
             \A c \in Channels : ~WriteNext(c) /\ ~Answer(c),
             \A p \in Peers, i \in 0..MaxItems : ~Expire(p, i)
      PROVE  AllMade'
  <2>1. UNCHANGED <<item, slot, echo>>
    BY <1>8 DEF Next, Monitor, Sending, Epoll, MonLock, MonSkip, MonDial, MonUnlock,
      ReadServer, Increase, Put, Look, Claim, WriteRest, Disconnect, ResetSend, Remote, vars,
      locals, queues, ring
  <2>2. QED BY <1>1, <2>1 DEF AllMade
<1>9. QED BY <1>2, <1>3, <1>5, <1>6, <1>7, <1>8, <1>4

-----------------------------------------------------------------------------
(***************************************************************************)
(* Senders that overlap, and producers that collide.                       *)
(***************************************************************************)

\* Only the increase of the id takes a thread into the lines that must not overlap.
LEMMA BusyStep ==
  ASSUME Base, [Next]_vars, \A s \in Senders : ~Increase(s), NEW t \in Senders, Busy(t)'
  PROVE  Busy(t)
<1> USE DEF Base
<1>1. ASSUME NEW a \in Apps, NEW p \in Peers, ReadServer(a, p) PROVE Busy(t)
  BY <1>1 DEF TypeOK, ReadServer, Busy, InRing
<1>2. CASE MonDial
  BY <1>2 DEF TypeOK, MonDial, Busy, InRing
<1>3. ASSUME NEW s \in Senders, MakeItem(s) \/ Put(s) \/ Enter(s) PROVE Busy(t)
  <2>1. pc'[s] = "idle" \/ Busy(s)
    BY <1>3 DEF TypeOK, MakeItem, Put, Refuse, Show, Leave, Enter, Look, Claim, Fill, Busy,
      InRing
  <2>2. t # s => pc'[t] = pc[t]
    BY <1>3 DEF TypeOK, MakeItem, Put, Refuse, Show, Leave, Enter, Look, Claim, Fill
  <2>3. QED BY <2>1, <2>2 DEF Busy, InRing
<1>4. ASSUME \A a \in Apps, p \in Peers : ~ReadServer(a, p), ~MonDial,
             \A s \in Senders : ~MakeItem(s) /\ ~Put(s) /\ ~Enter(s)
      PROVE  pc' = pc
  BY <1>4 DEF Next, Monitor, Sending, Put, Enter, Epoll, MonLock, MonSkip, MonUnlock,
    WriteNext, WriteRest, Answer, Disconnect, Remote, Expire, vars, locals
<1>5. pc' = pc => Busy(t)
  BY DEF Busy, InRing
<1>6. QED BY <1>1, <1>2, <1>3, <1>4, <1>5

\* Only hsRingIn's first step makes two producers collide.
LEMMA CollidedStep ==
  ASSUME [Next]_vars, \A s \in Senders : ~Look(s)
  PROVE  collided' = collided
BY DEF Next, Monitor, Sending, Epoll, MonLock, MonSkip, MonDial, MonUnlock, ReadServer,
  Increase, MakeItem, Refuse, Claim, Fill, Show, WriteNext, WriteRest, Answer, Disconnect,
  Remote, Expire, vars, history

LEMMA OverlapStep ==
  ASSUME [Next]_vars, \A s \in Senders : ~Increase(s)
  PROVE  overlap' = overlap
BY DEF Next, Monitor, Sending, Epoll, MonLock, MonSkip, MonDial, MonUnlock, ReadServer,
  MakeItem, Look, Refuse, Claim, Fill, Show, WriteNext, WriteRest, Answer, Disconnect,
  Remote, Expire, vars, history

\* While no two sends overlap no two producers collide.
LEMMA AloneStep == Base /\ [Next]_vars => Alone'
<1> SUFFICES ASSUME Base, [Next]_vars, ~overlap' PROVE OneSender' /\ collided' = {}
  BY DEF Alone
<1> USE DEF Base
<1>1. ASSUME NEW s \in Senders, Increase(s) PROVE OneSender' /\ collided' = {}
  <2>1. Others(s) = {} /\ ~overlap /\ collided' = collided
    BY <1>1 DEF Increase
  <2>2. \A t \in Senders \ {s} : ~Busy(t) /\ pc'[t] = pc[t]
    BY <1>1, <2>1 DEF Others, TypeOK, Increase
  <2>3. \A t \in Senders \ {s} : ~Busy(t)'
    BY <2>2 DEF Busy, InRing
  <2>4. QED BY <2>1, <2>3 DEF OneSender, Alone
<1>2. ASSUME NEW s \in Senders, Look(s) PROVE collided' = collided
  <2>1. overlap' = overlap
    BY <1>2 DEF Look
  <2>2. OneSender /\ Busy(s)
    BY <1>2, <2>1 DEF Alone, Look, Busy, InRing
  <2>3. \A t \in Senders \ {s} : ~InRing(t)
    BY <2>2 DEF OneSender, Busy
  <2>4. QED BY <1>2, <2>3 DEF Look
<1>3. ASSUME \A s \in Senders : ~Increase(s) PROVE OneSender' /\ collided' = {}
  <2>1. overlap' = overlap
    BY <1>3, OverlapStep
  <2>2. OneSender /\ collided = {}
    BY <2>1 DEF Alone
  <2>3. \A t \in Senders : Busy(t)' => Busy(t)
    BY <1>3, BusyStep
  <2>4. collided' = collided
    BY <1>2, CollidedStep
  <2>5. QED BY <2>2, <2>3, <2>4 DEF OneSender
<1>4. QED BY <1>1, <1>3

\* What collided stays so.
LEMMA CollidedStays ==
  ASSUME Base, [Next]_vars, collided' = {}
  PROVE  collided = {}
<1>1. ASSUME NEW s \in Senders, Look(s) PROVE collided = {}
  BY <1>1 DEF Look
<1>2. QED BY <1>1, CollidedStep

\* A step that changes no ring, and no local of a thread in one.
Quiet ==
  /\ UNCHANGED ring
  /\ \A s \in Senders : /\ InRing(s)' <=> InRing(s)
                        /\ InRing(s) => /\ pc'[s] = pc[s] /\ via'[s] = via[s]
                                        /\ item'[s] = item[s] /\ at'[s] = at[s]

LEMMA OthersQuiet ==
  ASSUME Base, [Next]_vars,
         \A s \in Senders : ~Put(s) /\ ~Enter(s),
         \A c \in Channels : ~WriteNext(c)
  PROVE  Quiet
<1> USE DEF Base
<1>1. ASSUME NEW a \in Apps, NEW p \in Peers, ReadServer(a, p) PROVE Quiet
  BY <1>1 DEF TypeOK, ReadServer, Quiet, InRing, queues
<1>2. CASE MonDial
  BY <1>2 DEF TypeOK, MonDial, Quiet, InRing, queues
<1>3. ASSUME NEW s \in Senders, Increase(s) \/ MakeItem(s) PROVE Quiet
  BY <1>3 DEF TypeOK, Increase, MakeItem, Quiet, InRing, queues
<1>4. ASSUME \A a \in Apps, p \in Peers : ~ReadServer(a, p), ~MonDial,
             \A s \in Senders : ~Increase(s) /\ ~MakeItem(s)
      PROVE  Quiet
  <2>1. UNCHANGED <<locals, ring>>
    BY <1>4 DEF Next, Monitor, Sending, Put, Enter, Epoll, MonLock, MonSkip, MonUnlock,
      WriteRest, Answer, Disconnect, ResetSend, Remote, Expire, vars, queues
  <2>2. QED BY <2>1 DEF Quiet, InRing, locals
<1>5. QED BY <1>1, <1>2, <1>3, <1>4

\* The steps of one producer at a time keep its ring in order.
LEMMA RingsStep == Base /\ [Next]_vars => Rings'
<1> SUFFICES ASSUME Base, [Next]_vars, collided' = {}
             PROVE  /\ OneProducer' /\ \A c \in Channels : Ring(c)'
                    /\ \A s \in Senders : InRing(s)' => Producer(s)'
  BY DEF Rings
<1> USE DEF Base
<1>1. /\ collided = {} /\ OneProducer /\ \A c \in Channels : Ring(c)
      /\ \A s \in Senders : InRing(s) => Producer(s)
  BY CollidedStays DEF Rings
<1>2. /\ head \in [Channels -> Nat] /\ tail \in [Channels -> Nat] /\ cons \in [Channels -> Nat]
      /\ slot \in [Channels -> [0..(RingSize - 1) -> Items \cup {None}]]
      /\ at \in [Senders -> Nat] /\ pc \in [Senders -> Steps]
      /\ \A s \in Senders : via[s] \in Channels \cup {None}
  BY DEF TypeOK, Steps
<1>3. \A s \in Senders : InRing(s) => via[s] \in Channels /\ item[s] # None
  BY PeerFacts DEF TypeOK, Locals, InRing
<1>4. CASE Quiet
  <2>1. UNCHANGED <<head, tail, cons, slot>>
    BY <1>4 DEF Quiet, ring
  <2>2. OneProducer'
    BY <1>1, <1>4 DEF Quiet, OneProducer
  <2>3. \A c \in Channels : Ring(c)'
    BY <1>1, <1>4, <2>1 DEF Quiet, Ring
  <2>4. \A s \in Senders : InRing(s)' => Producer(s)'
    BY <1>1, <1>4, <2>1 DEF Quiet, Producer
  <2>5. QED BY <2>2, <2>3, <2>4
<1>5. ASSUME NEW s \in Senders, Look(s)
      PROVE  /\ OneProducer' /\ \A c \in Channels : Ring(c)'
             /\ \A t \in Senders : InRing(t)' => Producer(t)'
  <2>1. /\ UNCHANGED <<head, tail, cons, slot, via, item>>
        /\ via[s] \in Channels /\ ~InRing(s)
        /\ pc'[s] = "claim" /\ at'[s] = head[via[s]]
        /\ \A t \in Senders \ {s} : pc'[t] = pc[t] /\ at'[t] = at[t]
    BY <1>2, <1>5, PeerFacts DEF TypeOK, Locals, Look, queues, ring, InRing
  <2>2. \A t \in Senders \ {s} : InRing(t) => via[t] # via[s]
    BY <1>1, <1>5 DEF Look
  <2>3. \A t \in Senders \ {s} : InRing(t)' <=> InRing(t)
    BY <2>1 DEF InRing
  <2>4. InRing(s)'
    BY <2>1 DEF InRing
  <2>5. head[via[s]] = tail[via[s]]
    BY <1>1, <2>1, <2>2 DEF Ring
  <2>6. OneProducer'
    BY <1>1, <2>1, <2>2, <2>3 DEF OneProducer
  <2>7. \A c \in Channels : Ring(c)'
    <3> SUFFICES ASSUME NEW c \in Channels PROVE Ring(c)'
      OBVIOUS
    <3>1. (\A t \in Senders : InRing(t)' => via'[t] # c) => head[c] = tail[c]
      BY <1>1, <2>1, <2>3 DEF Ring
    <3>2. QED BY <1>1, <2>1, <3>1 DEF Ring
  <2>8. \A t \in Senders : InRing(t)' => Producer(t)'
    BY <1>1, <2>1, <2>3, <2>5 DEF Producer
  <2>9. QED BY <2>6, <2>7, <2>8
<1>6. ASSUME NEW s \in Senders, Put(s)
      PROVE  /\ OneProducer' /\ \A c \in Channels : Ring(c)'
             /\ \A t \in Senders : InRing(t)' => Producer(t)'
  <2>1. /\ UNCHANGED <<head, cons, slot>> /\ ~InRing(s)' /\ InRing(s) /\ via[s] \in Channels
        /\ \A t \in Senders \ {s} : /\ pc'[t] = pc[t] /\ at'[t] = at[t] /\ via'[t] = via[t]
                                    /\ item'[t] = item[t]
    BY <1>2, <1>3, <1>6 DEF TypeOK, Put, Refuse, Show, Leave, queues, ring, InRing
  <2>2. \/ pc[s] = "claim" /\ tail' = tail
        \/ pc[s] = "show" /\ tail' = [tail EXCEPT ![via[s]] = at[s] + 1]
    BY <1>6 DEF Put, Refuse, Show, queues, ring
  <2>3. Producer(s) /\ Ring(via[s])
    BY <1>1, <2>1
  <2>4. \A t \in Senders \ {s} : (InRing(t)' <=> InRing(t)) /\ (InRing(t) => via[t] # via[s])
    BY <1>1, <2>1 DEF InRing, OneProducer
  <2>5. \A c \in Channels \ {via[s]} : tail'[c] = tail[c]
    BY <1>2, <2>2
  <2>6. /\ head[via[s]] = tail'[via[s]]
        /\ cons[via[s]] <= tail'[via[s]] /\ tail'[via[s]] < cons[via[s]] + RingSize
        /\ \A j \in cons[via[s]]..(tail'[via[s]] - 1) : slot[via[s]][j % RingSize] # None
    <3>1. CASE pc[s] = "claim" /\ tail' = tail
      BY <2>3, <3>1 DEF Producer, Ring
    <3>2. CASE pc[s] = "show" /\ tail' = [tail EXCEPT ![via[s]] = at[s] + 1]
      <4>1. tail'[via[s]] = tail[via[s]] + 1 /\ head[via[s]] = tail[via[s]] + 1
        BY <1>2, <2>1, <2>3, <3>2 DEF Producer
      <4>2. slot[via[s]][tail[via[s]] % RingSize] # None /\ tail[via[s]] + 1 < cons[via[s]] + RingSize
        BY <1>3, <2>1, <2>3, <3>2 DEF Producer
      <4>3. tail[via[s]] \in Nat /\ cons[via[s]] \in Nat
        BY <1>2, <2>1
      <4>4. \A j \in cons[via[s]]..tail[via[s]] : slot[via[s]][j % RingSize] # None
        <5> SUFFICES ASSUME NEW j \in cons[via[s]]..tail[via[s]]
                     PROVE  slot[via[s]][j % RingSize] # None
          OBVIOUS
        <5>1. CASE j = tail[via[s]]
          BY <4>2, <5>1
        <5>2. CASE j # tail[via[s]]
          <6>1. j \in cons[via[s]]..(tail[via[s]] - 1)
            BY <4>3, <5>2
          <6>2. QED BY <2>3, <6>1 DEF Ring
        <5>3. QED BY <5>1, <5>2
      <4>5. QED BY <2>3, <4>1, <4>2, <4>3, <4>4 DEF Ring
    <3>3. QED BY <2>2, <3>1, <3>2
  <2>7. OneProducer'
    BY <1>1, <2>1, <2>4 DEF OneProducer
  <2>8. \A c \in Channels : Ring(c)'
    <3> SUFFICES ASSUME NEW c \in Channels PROVE Ring(c)'
      OBVIOUS
    <3>1. CASE c = via[s]
      BY <2>1, <2>6, <3>1 DEF Ring
    <3>2. CASE c # via[s]
      <4>1. (\A t \in Senders : InRing(t)' => via'[t] # c) => head[c] = tail[c]
        BY <1>1, <2>1, <2>4, <3>2 DEF Ring
      <4>2. QED BY <1>1, <2>1, <2>5, <3>2, <4>1 DEF Ring
    <3>3. QED BY <3>1, <3>2
  <2>9. \A t \in Senders : InRing(t)' => Producer(t)'
    <3> SUFFICES ASSUME NEW t \in Senders \ {s}, InRing(t) PROVE Producer(t)'
      BY <2>1, <2>4
    <3>1. via[t] \in Channels \ {via[s]} /\ Producer(t)
      BY <1>1, <1>3, <2>4
    <3>2. QED BY <2>1, <2>5, <3>1 DEF Producer
  <2>10. QED BY <2>7, <2>8, <2>9
<1>7. ASSUME NEW s \in Senders, Claim(s) \/ Fill(s)
      PROVE  /\ OneProducer' /\ \A c \in Channels : Ring(c)'
             /\ \A t \in Senders : InRing(t)' => Producer(t)'
  <2>1. /\ UNCHANGED <<tail, cons, via, item, at>> /\ InRing(s) /\ InRing(s)' /\ via[s] \in Channels
        /\ \A t \in Senders \ {s} : pc'[t] = pc[t]
    BY <1>2, <1>3, <1>7 DEF Claim, Fill, InRing
  <2>2. \A t \in Senders : InRing(t)' <=> InRing(t)
    BY <2>1 DEF InRing
  <2>3. \A t \in Senders \ {s} : InRing(t) => via[t] # via[s]
    BY <1>1, <2>1 DEF OneProducer
  <2>4. Producer(s) /\ Ring(via[s]) /\ at[s] \in Nat /\ at[s] % RingSize \in 0..(RingSize - 1)
    BY <1>1, <1>2, <2>1, DivMod
  <2>5. /\ \A c \in Channels \ {via[s]} : head'[c] = head[c] /\ slot'[c] = slot[c]
        /\ \A j \in Int : slot[via[s]][j % RingSize] # None => slot'[via[s]][j % RingSize] # None
        /\ Producer(s)'
    <3>1. CASE Claim(s)
      <4>1. /\ slot' = slot /\ pc'[s] = "fill" /\ head'[via[s]] = at[s] + 1
            /\ \A c \in Channels \ {via[s]} : head'[c] = head[c]
            /\ at[s] < cons[via[s]] + RingSize - 1
        BY <1>2, <2>1, <3>1 DEF Claim
      <4>2. at[s] = tail[via[s]]
        BY <2>4 DEF Producer
      <4>3. tail[via[s]] + 1 < cons[via[s]] + RingSize
        BY <1>2, <2>1, <4>1, <4>2
      <4>4. QED BY <2>1, <4>1, <4>2, <4>3 DEF Producer
    <3>2. CASE Fill(s)
      <4>1. /\ head' = head /\ pc'[s] = "show" /\ pc[s] = "fill"
            /\ slot' = [slot EXCEPT ![via[s]][at[s] % RingSize] = item[s]]
        BY <1>2, <3>2 DEF Fill
      <4>2. /\ slot'[via[s]][at[s] % RingSize] = item[s] /\ item[s] # None
            /\ \A i \in 0..(RingSize - 1) :
                 slot'[via[s]][i] = slot[via[s]][i] \/ slot'[via[s]][i] = item[s]
        BY <1>2, <1>3, <2>1, <2>4, <4>1
      <4>3. \A j \in Int : slot[via[s]][j % RingSize] # None => slot'[via[s]][j % RingSize] # None
        <5>1. \A j \in Int : j % RingSize \in 0..(RingSize - 1)
          OBVIOUS
        <5>2. QED BY <4>2, <5>1
      <4>4. \A c \in Channels \ {via[s]} : slot'[c] = slot[c]
        BY <1>2, <4>1
      <4>5. Producer(s)'
        BY <2>1, <2>4, <4>1, <4>2 DEF Producer
      <4>6. QED BY <4>1, <4>3, <4>4, <4>5
    <3>3. QED BY <1>7, <3>1, <3>2
  <2>6. OneProducer'
    BY <1>1, <2>1, <2>2 DEF OneProducer
  <2>7. \A c \in Channels : Ring(c)'
    <3> SUFFICES ASSUME NEW c \in Channels PROVE Ring(c)'
      OBVIOUS
    <3>1. cons[c] \in Nat /\ tail[c] \in Nat
      BY <1>2
    <3>2. CASE c = via[s]
      <4>1. \A j \in cons[c]..(tail[c] - 1) : j \in Int
        BY <3>1
      <4>2. \A j \in cons[c]..(tail[c] - 1) : slot'[c][j % RingSize] # None
        BY <2>4, <2>5, <3>2, <4>1 DEF Ring
      <4>3. InRing(s)' /\ via'[s] = c
        BY <2>1, <3>2
      <4>4. QED BY <2>1, <2>4, <3>2, <4>2, <4>3 DEF Ring
    <3>3. CASE c # via[s]
      BY <1>1, <2>1, <2>2, <2>5, <3>3 DEF Ring
    <3>4. QED BY <3>2, <3>3
  <2>8. \A t \in Senders : InRing(t)' => Producer(t)'
    <3> SUFFICES ASSUME NEW t \in Senders \ {s}, InRing(t) PROVE Producer(t)'
      BY <2>2, <2>5
    <3>1. via[t] \in Channels \ {via[s]} /\ Producer(t)
      BY <1>1, <1>3, <2>3
    <3>2. QED BY <2>1, <2>5, <3>1 DEF Producer
  <2>9. QED BY <2>6, <2>7, <2>8
<1>8. ASSUME NEW c \in Channels, WriteNext(c)
      PROVE  /\ OneProducer' /\ \A b \in Channels : Ring(b)'
             /\ \A s \in Senders : InRing(s)' => Producer(s)'
  <2>1. /\ UNCHANGED <<head, tail, slot, pc, via, item, at>>
        /\ tail[c] # cons[c] /\ cons'[c] = cons[c] + 1
        /\ \A b \in Channels \ {c} : cons'[b] = cons[b]
    BY <1>2, <1>8 DEF WriteNext, Take, locals
  <2>2. \A s \in Senders : InRing(s)' <=> InRing(s)
    BY <2>1 DEF InRing
  <2>3. OneProducer'
    BY <1>1, <2>1, <2>2 DEF OneProducer
  <2>4. \A b \in Channels : cons[b] \in Nat /\ tail[b] \in Nat /\ cons[b] <= cons'[b]
    <3>1. \A b \in Channels : cons[b] \in Nat /\ tail[b] \in Nat
      BY <1>2
    <3>2. cons[c] <= cons'[c]
      BY <2>1, <3>1
    <3>3. QED BY <2>1, <3>1, <3>2
  <2>5. \A b \in Channels : Ring(b)'
    <3> SUFFICES ASSUME NEW b \in Channels PROVE Ring(b)'
      OBVIOUS
    <3>1. Ring(b) /\ cons'[b] <= tail[b] /\ tail[b] < cons'[b] + RingSize
      BY <1>1, <2>1, <2>4 DEF Ring
    <3>2. \A j \in cons'[b]..(tail[b] - 1) : j \in cons[b]..(tail[b] - 1)
      BY <2>1, <2>4
    <3>3. QED BY <2>1, <2>2, <3>1, <3>2 DEF Ring
  <2>6. \A s \in Senders : InRing(s)' => Producer(s)'
    <3> SUFFICES ASSUME NEW s \in Senders, InRing(s) PROVE Producer(s)'
      BY <2>2
    <3>1. Producer(s) /\ via[s] \in Channels
      BY <1>1, <1>3
    <3>2. tail[via[s]] + 1 < cons[via[s]] + RingSize => tail[via[s]] + 1 < cons'[via[s]] + RingSize
      BY <2>4, <3>1, <2>1
    <3>3. QED BY <2>1, <3>1, <3>2 DEF Producer
  <2>7. QED BY <2>3, <2>5, <2>6
<1>9. QED BY <1>4, <1>5, <1>6, <1>7, <1>8, OthersQuiet DEF Enter

\* Base holds always.
LEMMA BaseHolds == Spec => []Base
<1>1. Base /\ [Next]_vars => Base'
  BY TypeStep, LocalsStep, CountedStep, PoolStep, AllMadeStep, AloneStep, RingsStep DEF Base
<1>2. QED BY InitBase, <1>1, PTL DEF Spec

\* The variables stay in their types: the rings of the channels, the echoes of the
\* peers, and the locals of the threads inside hsModSend and sendOnePeer.
THEOREM TypeCorrect == Spec => []TypeOK
<1>1. Base => TypeOK
  BY DEF Base
<1>2. QED BY BaseHolds, <1>1, PTL

-----------------------------------------------------------------------------
(***************************************************************************)
(* What a sendRing holds, while no two producers have been in one.         *)
(***************************************************************************)

\* A function on 1..n is a queue of n items.
LEMMA QueueOf ==
  ASSUME NEW V, NEW n \in Nat, NEW q \in [1..n -> V]
  PROVE  q \in Seq(V) /\ Len(q) = n
<1>1. q \in Seq(V)
  BY SeqDef
<1>2. QED BY <1>1, LenProperties

\* The slots from one position to another, in order.
LEMMA SlotsInOrder ==
  ASSUME NEW V, NEW f, NEW lo \in Nat, NEW hi \in Nat, lo <= hi,
         \A j \in lo..(hi - 1) : f[j % RingSize] \in V
  PROVE  \A i \in 1..(hi - lo) : f[(lo + i - 1) % RingSize] \in V
<1> SUFFICES ASSUME NEW i \in 1..(hi - lo) PROVE f[(lo + i - 1) % RingSize] \in V
  OBVIOUS
<1>1. lo + i - 1 \in lo..(hi - 1)
  OBVIOUS
<1>2. QED BY <1>1

\* The items it holds were made.
LEMMA RingHolds ==
  ASSUME Base, collided = {}, NEW c \in Channels
  PROVE  /\ cons[c] \in Nat /\ tail[c] \in Nat /\ cons[c] <= tail[c]
         /\ \A j \in cons[c]..(tail[c] - 1) : /\ slot[c][j % RingSize] \in Items
                                              /\ slot[c][j % RingSize].n \in Made
         /\ sendRing[c] \in Seq(Items) /\ Len(sendRing[c]) = tail[c] - cons[c]
         /\ \A i \in 1..(tail[c] - cons[c]) :
              sendRing[c][i] = slot[c][(cons[c] + i - 1) % RingSize]
         /\ \A x \in El(sendRing[c]) : x \in Items /\ x.n \in Made
<1> USE DEF Base
<1>1. cons[c] \in Nat /\ tail[c] \in Nat /\ Ring(c)
  BY DEF TypeOK, Rings
<1>2. cons[c] <= tail[c]
  BY <1>1 DEF Ring
<1>3. ASSUME NEW j \in cons[c]..(tail[c] - 1)
      PROVE  slot[c][j % RingSize] \in Items /\ slot[c][j % RingSize].n \in Made
  <2>1. j \in Nat
    BY <1>1
  <2>2. j % RingSize \in Slots
    BY <2>1, DivMod DEF Slots
  <2>3. slot[c][j % RingSize] # None
    BY <1>1 DEF Ring
  <2>4. QED BY <2>2, <2>3 DEF TypeOK, AllMade, Slots
<1> DEFINE q == sendRing[c]
<1>4. q = [i \in 1..(tail[c] - cons[c]) |-> slot[c][(cons[c] + i - 1) % RingSize]]
  BY DEF sendRing
<1> HIDE DEF q
<1>5. /\ q \in Seq(Items) /\ Len(q) = tail[c] - cons[c]
      /\ \A i \in 1..(tail[c] - cons[c]) : q[i] = slot[c][(cons[c] + i - 1) % RingSize]
  <2>1. \A i \in 1..(tail[c] - cons[c]) : slot[c][(cons[c] + i - 1) % RingSize] \in Items
    BY <1>1, <1>2, <1>3, SlotsInOrder
  <2>2. tail[c] - cons[c] \in Nat
    BY <1>1, <1>2
  <2>3. q \in [1..(tail[c] - cons[c]) -> Items]
    BY <1>4, <2>1
  <2>4. QED BY <1>4, <2>2, <2>3, QueueOf
<1>6. \A x \in El(q) : x \in Items /\ x.n \in Made
  <2> SUFFICES ASSUME NEW i \in 1..(tail[c] - cons[c]) PROVE q[i] \in Items /\ q[i].n \in Made
    BY <1>5 DEF El
  <2>1. cons[c] + i - 1 \in cons[c]..(tail[c] - 1)
    BY <1>1
  <2>2. QED BY <1>3, <1>5, <2>1
<1>7. QED BY <1>1, <1>2, <1>3, <1>5, <1>6 DEF q

\* A ring nobody writes or reads holds what it held.
LEMMA SameRing == UNCHANGED ring => sendRing' = sendRing
  BY DEF ring, sendRing

\* rte_ring_enqueue puts the item in at the end ...
LEMMA ShowIs ==
  ASSUME Base, [Next]_vars, collided' = {}, NEW s \in Senders, Show(s), NEW c, c = via[s]
  PROVE  /\ c \in Channels /\ item[s] \in Items /\ item[s] # None
         /\ sendRing'[c] = Append(sendRing[c], item[s])
         /\ \A b \in Channels \ {c} : sendRing'[b] = sendRing[b]
<1> USE DEF Base
<1> DEFINE x == item[s]
           n == tail[c] - cons[c]
<1>1. collided = {}
  BY CollidedStays
<1>2. c \in Channels /\ x \in Items /\ x # None /\ InRing(s)
  BY PeerFacts DEF TypeOK, Locals, InRing, Show
<1>3. Producer(s)
  BY <1>1, <1>2 DEF Rings
<1>4. at[s] = tail[c] /\ slot[c][tail[c] % RingSize] = x
  BY <1>3 DEF Producer, Show
<1>5. /\ tail' = [tail EXCEPT ![c] = tail[c] + 1]
      /\ UNCHANGED <<cons, slot>>
  BY <1>4 DEF Show
<1>6. /\ cons[c] \in Nat /\ tail[c] \in Nat /\ cons[c] <= tail[c]
      /\ \A j \in cons[c]..(tail[c] - 1) : slot[c][j % RingSize] \in Items
      /\ sendRing[c] \in Seq(Items) /\ Len(sendRing[c]) = n
      /\ \A i \in 1..n : sendRing[c][i] = slot[c][(cons[c] + i - 1) % RingSize]
  BY <1>1, <1>2, RingHolds
<1>7. tail'[c] = tail[c] + 1 /\ \A b \in Channels \ {c} : tail'[b] = tail[b]
  BY <1>2, <1>5 DEF TypeOK
<1>8. \A b \in Channels \ {c} : sendRing'[b] = sendRing[b]
  BY <1>5, <1>7 DEF sendRing
<1>9. sendRing'[c] = Append(sendRing[c], x)
  <2> DEFINE q == sendRing'[c]
             t == tail[c] + 1
  <2>1. q = [i \in 1..(t - cons[c]) |-> slot[c][(cons[c] + i - 1) % RingSize]]
    BY <1>2, <1>5, <1>7 DEF sendRing
  <2>2. \A j \in cons[c]..(t - 1) : slot[c][j % RingSize] \in Items
    <3> SUFFICES ASSUME NEW j \in cons[c]..(t - 1) PROVE slot[c][j % RingSize] \in Items
      OBVIOUS
    <3>1. j = tail[c] \/ j \in cons[c]..(tail[c] - 1)
      BY <1>6
    <3>2. QED BY <1>2, <1>4, <1>6, <3>1
  <2>3. t \in Nat /\ cons[c] <= t
    BY <1>6
  <2> HIDE DEF q, t, x
  <2>4. /\ q \in Seq(Items) /\ Len(q) = t - cons[c]
        /\ \A i \in 1..(t - cons[c]) : q[i] = slot[c][(cons[c] + i - 1) % RingSize]
    <3>1. \A i \in 1..(t - cons[c]) : slot[c][(cons[c] + i - 1) % RingSize] \in Items
      BY <1>6, <2>2, <2>3, SlotsInOrder
    <3>2. t - cons[c] \in Nat
      BY <1>6, <2>3
    <3>3. q \in [1..(t - cons[c]) -> Items]
      BY <2>1, <3>1
    <3>4. QED BY <2>1, <3>2, <3>3, QueueOf
  <2>5. /\ Append(sendRing[c], x) \in Seq(Items)
        /\ Len(Append(sendRing[c], x)) = n + 1
        /\ \A i \in 1..n : Append(sendRing[c], x)[i] = sendRing[c][i]
        /\ Append(sendRing[c], x)[n + 1] = x
    BY <1>2, <1>6, AppendProperties
  <2>6. t - cons[c] = n + 1
    <3>1. tail[c] \in Nat /\ cons[c] \in Nat
      BY <1>6
    <3>2. QED BY <3>1 DEF t
  <2>7. \A i \in 1..(n + 1) : q[i] = Append(sendRing[c], x)[i]
    <3> SUFFICES ASSUME NEW i \in 1..(n + 1) PROVE q[i] = Append(sendRing[c], x)[i]
      OBVIOUS
    <3>1. CASE i = n + 1
      <4>1. cons[c] + i - 1 = tail[c]
        BY <1>6, <3>1
      <4>2. q[i] = slot[c][tail[c] % RingSize]
        BY <2>4, <2>6, <4>1
      <4>3. QED BY <1>4, <2>5, <3>1, <4>2
    <3>2. CASE i # n + 1
      <4>1. i \in 1..n
        BY <1>6, <3>2
      <4>2. QED BY <1>6, <2>4, <2>5, <2>6, <4>1
    <3>3. QED BY <3>1, <3>2
  <2>8. q = Append(sendRing[c], x)
    BY <2>4, <2>5, <2>6, <2>7, SeqEqual
  <2>9. QED BY <2>8 DEF q
<1>10. QED BY <1>2, <1>8, <1>9

\* ... and hsRingOut takes the first one out.
LEMMA TakeIs ==
  ASSUME Base, [Next]_vars, collided' = {}, NEW c \in Channels, WriteNext(c),
         NEW x, x = Foremost(c)
  PROVE  /\ x \in Items /\ x # None /\ x.n \in Made
         /\ sendRing[c] \in Seq(Items) /\ sendRing[c] # <<>> /\ x = Head(sendRing[c])
         /\ sendRing'[c] = Tail(sendRing[c])
         /\ \A b \in Channels \ {c} : sendRing'[b] = sendRing[b]
         /\ EchoAdd(chanPeer[c], x) /\ Send(c, x)
<1> USE DEF Base
<1> DEFINE n == tail[c] - cons[c]
<1>1. collided = {}
  BY CollidedStays
<1>2. /\ cons[c] \in Nat /\ tail[c] \in Nat /\ cons[c] <= tail[c]
      /\ \A j \in cons[c]..(tail[c] - 1) : /\ slot[c][j % RingSize] \in Items
                                           /\ slot[c][j % RingSize].n \in Made
      /\ sendRing[c] \in Seq(Items) /\ Len(sendRing[c]) = n
      /\ \A i \in 1..n : sendRing[c][i] = slot[c][(cons[c] + i - 1) % RingSize]
  BY <1>1, RingHolds
<1>3. /\ tail[c] # cons[c] /\ cons' = [cons EXCEPT ![c] = cons[c] + 1]
      /\ UNCHANGED <<tail, slot>>
  BY DEF WriteNext, Take
<1>4. cons'[c] = cons[c] + 1 /\ \A b \in Channels \ {c} : cons'[b] = cons[b]
  BY <1>3 DEF TypeOK
<1>5. n \in Nat /\ n >= 1 /\ cons[c] \in cons[c]..(tail[c] - 1)
  BY <1>2, <1>3
<1>6. x \in Items /\ x.n \in Made /\ x # None
  <2>1. x = slot[c][cons[c] % RingSize]
    BY DEF Foremost
  <2>2. QED BY <1>2, <1>5, <2>1, ItemFacts
<1>7. EchoAdd(chanPeer[c], x) /\ Send(c, x)
  BY <1>6 DEF WriteNext
<1>8. \A b \in Channels \ {c} : sendRing'[b] = sendRing[b]
  BY <1>3, <1>4 DEF sendRing
<1>9. /\ sendRing[c] # <<>> /\ Head(sendRing[c]) = sendRing[c][1]
      /\ Tail(sendRing[c]) \in Seq(Items) /\ Len(Tail(sendRing[c])) = n - 1
      /\ \A i \in 1..(n - 1) : Tail(sendRing[c])[i] = sendRing[c][i + 1]
  <2>1. sendRing[c] # <<>>
    BY <1>2, <1>5, EmptySeq
  <2>2. QED BY <1>2, <2>1, HeadTailProperties
<1>10. x = Head(sendRing[c])
  <2>1. 1 \in 1..n /\ cons[c] + 1 - 1 = cons[c]
    BY <1>2, <1>5
  <2>2. sendRing[c][1] = slot[c][cons[c] % RingSize]
    BY <1>2, <2>1
  <2>3. QED BY <1>9, <2>2 DEF Foremost
<1>11. sendRing'[c] = Tail(sendRing[c])
  <2> DEFINE q == sendRing'[c]
             f == cons[c] + 1
  <2>1. q = [i \in 1..(tail[c] - f) |-> slot[c][(f + i - 1) % RingSize]]
    BY <1>3, <1>4 DEF sendRing
  <2>2. f \in Nat /\ f <= tail[c] /\ tail[c] - f = n - 1
    BY <1>2, <1>3
  <2>3. \A j \in f..(tail[c] - 1) : slot[c][j % RingSize] \in Items
    <3>1. \A j \in f..(tail[c] - 1) : j \in cons[c]..(tail[c] - 1)
      BY <1>2
    <3>2. QED BY <1>2, <3>1
  <2>4. \A i \in 1..(n - 1) : (i + 1) \in 1..n /\ cons[c] + (i + 1) - 1 = f + i - 1
    BY <1>2
  <2> HIDE DEF q, f
  <2>5. /\ q \in Seq(Items) /\ Len(q) = tail[c] - f
        /\ \A i \in 1..(tail[c] - f) : q[i] = slot[c][(f + i - 1) % RingSize]
    <3>1. \A i \in 1..(tail[c] - f) : slot[c][(f + i - 1) % RingSize] \in Items
      BY <1>2, <2>2, <2>3, SlotsInOrder
    <3>2. tail[c] - f \in Nat
      BY <1>2, <2>2
    <3>3. q \in [1..(tail[c] - f) -> Items]
      BY <2>1, <3>1
    <3>4. QED BY <2>1, <3>2, <3>3, QueueOf
  <2>6. \A i \in 1..(n - 1) : q[i] = Tail(sendRing[c])[i]
    <3> SUFFICES ASSUME NEW i \in 1..(n - 1) PROVE q[i] = Tail(sendRing[c])[i]
      OBVIOUS
    <3>1. q[i] = slot[c][(f + i - 1) % RingSize]
      BY <2>2, <2>5
    <3>2. sendRing[c][i + 1] = slot[c][(cons[c] + (i + 1) - 1) % RingSize]
      BY <1>2, <2>4
    <3>3. QED BY <1>9, <2>4, <3>1, <3>2
  <2>7. q = Tail(sendRing[c])
    BY <1>9, <2>2, <2>5, <2>6, SeqEqual
  <2>8. QED BY <2>7 DEF q
<1>12. QED BY <1>2, <1>6, <1>7, <1>8, <1>9, <1>10, <1>11

\* A producer writes a slot the consumer does not see yet.
LEMMA FillKeeps ==
  ASSUME Base, [Next]_vars, collided' = {}, NEW s \in Senders, Fill(s)
  PROVE  sendRing' = sendRing
<1> USE DEF Base
<1> DEFINE c == via[s]
<1>1. collided = {}
  BY CollidedStays
<1>2. c \in Channels /\ InRing(s)
  BY PeerFacts DEF TypeOK, Locals, InRing, Fill
<1>3. at[s] = tail[c] /\ Ring(c)
  BY <1>1, <1>2 DEF Rings, Producer
<1>4. slot' = [slot EXCEPT ![c][tail[c] % RingSize] = item[s]] /\ UNCHANGED <<tail, cons>>
  BY <1>3 DEF Fill
<1>5. /\ tail[c] \in Nat /\ cons[c] \in Nat /\ tail[c] < cons[c] + RingSize
      /\ tail[c] % RingSize \in Slots
  <2>1. tail[c] \in Nat /\ cons[c] \in Nat
    BY <1>2 DEF TypeOK
  <2>2. QED BY <1>3, <2>1, DivMod DEF Ring, Slots
<1>6. /\ \A b \in Channels \ {c} : slot'[b] = slot[b]
      /\ \A i \in Slots : i # tail[c] % RingSize => slot'[c][i] = slot[c][i]
  BY <1>2, <1>4, <1>5 DEF TypeOK, Slots
<1> HIDE DEF c
<1>7. \A i \in 1..(tail[c] - cons[c]) :
        slot'[c][(cons[c] + i - 1) % RingSize] = slot[c][(cons[c] + i - 1) % RingSize]
  <2> SUFFICES ASSUME NEW i \in 1..(tail[c] - cons[c])
               PROVE  slot'[c][(cons[c] + i - 1) % RingSize] = slot[c][(cons[c] + i - 1) % RingSize]
    OBVIOUS
  <2>1. PICK j \in Nat : j = cons[c] + i - 1
    BY <1>5
  <2>2. j < tail[c] /\ tail[c] < j + RingSize
    BY <1>5, <2>1
  <2>3. j % RingSize # tail[c] % RingSize
    BY <1>5, <2>2, OwnSlots
  <2>4. j % RingSize \in Slots
    BY DivMod DEF Slots
  <2>5. QED BY <1>6, <2>1, <2>3, <2>4
<1>8. \A b \in Channels : \A i \in 1..(tail[b] - cons[b]) :
        slot'[b][(cons[b] + i - 1) % RingSize] = slot[b][(cons[b] + i - 1) % RingSize]
  BY <1>6, <1>7
<1>9. QED BY <1>4, <1>8 DEF sendRing

\* Nothing else changes what a ring holds.
LEMMA RingKept ==
  ASSUME Base, [Next]_vars, collided' = {},
         \A s \in Senders : ~Show(s), \A c \in Channels : ~WriteNext(c)
  PROVE  sendRing' = sendRing
<1>1. ASSUME NEW s \in Senders, Refuse(s) \/ Look(s) PROVE sendRing' = sendRing
  BY <1>1, SameRing DEF Refuse, Look, queues
<1>2. ASSUME NEW s \in Senders, Claim(s) PROVE sendRing' = sendRing
  BY <1>2 DEF Claim, sendRing
<1>3. Quiet => sendRing' = sendRing
  BY SameRing DEF Quiet
<1>4. QED BY <1>1, <1>2, <1>3, FillKeeps, OthersQuiet DEF Put, Enter

-----------------------------------------------------------------------------
(***************************************************************************)
(* No item is lost from sight.                                             *)
(***************************************************************************)

\* Who answers for item n.
Pointed(n) ==
  \/ \E s \in Senders : item[s] # None /\ item[s].n = n
  \/ \E c \in Channels : \E x \in El(sendRing[c]) : x.n = n
  \/ \E p \in Peers, i \in 0..MaxItems : echo[p][i] # None /\ echo[p][i].n = n

Accounted == collided = {} => \A n \in Numbers : memory[n] = "live" => Pointed(n)

\* A step drops the last pointer to an item only where it frees it or counts it.
LEMMA AccountedStep == Base /\ Accounted /\ [Next]_vars => Accounted'
<1> SUFFICES ASSUME Base, Accounted, [Next]_vars, collided' = {},
                    NEW n \in Numbers, memory'[n] = "live"
             PROVE  Pointed(n)'
  BY DEF Accounted
<1> USE DEF Base
<1>1. memory[n] = "live" => Pointed(n)
  BY CollidedStays DEF Accounted
<1>2. ASSUME NEW s \in Senders, MakeItem(s) PROVE Pointed(n)'
  <2>1. CASE n = Cardinality(Made) + 1
    <3>1. TypeOK' /\ Locals'
      BY TypeStep, LocalsStep
    <3>2. item'[s] # None /\ item'[s].n = n
      BY <1>2, <2>1, <3>1 DEF TypeOK, Locals, MakeItem, InRing
    <3>3. QED BY <3>2 DEF Pointed
  <2>2. CASE n # Cardinality(Made) + 1
    <3>1. memory[n] = "live" /\ item[s] = None
      BY <1>2, <2>2 DEF TypeOK, Locals, MakeItem, InRing
    <3>2. Pointed(n)
      BY <1>1, <3>1
    <3>3. UNCHANGED <<sendRing, echo>> /\ \A t \in Senders \ {s} : item'[t] = item[t]
      BY <1>2, SameRing DEF TypeOK, MakeItem, queues
    <3>4. QED BY <3>1, <3>2, <3>3 DEF Pointed
  <2>3. QED BY <2>1, <2>2
<1>3. ASSUME NEW s \in Senders, Show(s) PROVE Pointed(n)'
  <2> DEFINE c == via[s]
  <2>1. /\ c \in Channels /\ item[s] \in Items
        /\ sendRing'[c] = Append(sendRing[c], item[s])
        /\ \A b \in Channels \ {c} : sendRing'[b] = sendRing[b]
    BY <1>3, ShowIs
  <2>2. sendRing[c] \in Seq(Items)
    BY <2>1, CollidedStays, RingHolds
  <2>3. El(sendRing'[c]) = El(sendRing[c]) \cup {item[s]}
    BY <2>1, <2>2, AppendEl
  <2>4. /\ UNCHANGED <<memory, echo>>
        /\ \A t \in Senders \ {s} : item'[t] = item[t]
    BY <1>3 DEF TypeOK, Show, Leave
  <2> HIDE DEF c
  <2>5. Pointed(n)
    BY <1>1, <2>4
  <2>6. \A b \in Channels : El(sendRing[b]) \subseteq El(sendRing'[b])
    BY <2>1, <2>3
  <2>7. item[s].n = n => Pointed(n)'
    BY <2>1, <2>3 DEF Pointed
  <2>8. QED BY <2>4, <2>5, <2>6, <2>7 DEF Pointed
<1>4. ASSUME NEW s \in Senders, Refuse(s) PROVE Pointed(n)'
  <2>1. item[s].n # n /\ memory[n] = "live"
    BY <1>4 DEF TypeOK, Refuse
  <2>2. /\ UNCHANGED <<sendRing, echo>>
        /\ \A t \in Senders \ {s} : item'[t] = item[t]
    BY <1>4, SameRing DEF TypeOK, Refuse, Leave, queues
  <2>3. QED BY <1>1, <2>1, <2>2 DEF Pointed
<1>5. ASSUME NEW c \in Channels, WriteNext(c) PROVE Pointed(n)'
  <2> DEFINE x == Foremost(c)
             p == chanPeer[c]
  <2>1. /\ x \in Items /\ x # None /\ sendRing[c] \in Seq(Items) /\ sendRing[c] # <<>>
        /\ x = Head(sendRing[c]) /\ sendRing'[c] = Tail(sendRing[c])
        /\ \A b \in Channels \ {c} : sendRing'[b] = sendRing[b]
        /\ EchoAdd(p, x) /\ item' = item
    BY <1>5, TakeIs DEF WriteNext, locals
  <2>2. El(sendRing[c]) = El(sendRing'[c]) \cup {x} /\ p \in Peers
    BY <1>5, <2>1, TailEl DEF TypeOK, WriteNext, Live
  <2> HIDE DEF x, p
  <2>3. x.id \in 0..MaxItems /\ x.n \in Numbers
    BY <2>1, ItemFacts
  <2>4. \A b \in Channels : \A y \in El(sendRing[b]) : y \in El(sendRing'[b]) \/ y = x
    BY <2>1, <2>2
  <2>5. CASE /\ echo' = echo
             /\ memory' = [memory EXCEPT ![x.n] = "unkept"]
    <3>1. x.n # n /\ memory[n] = "live"
      BY <2>3, <2>5 DEF TypeOK
    <3>2. QED BY <1>1, <2>1, <2>4, <2>5, <3>1 DEF Pointed
  <2>6. CASE /\ echo' = [echo EXCEPT ![p][x.id] = x]
             /\ memory' = IF echo[p][x.id] = None THEN memory
                          ELSE [memory EXCEPT ![echo[p][x.id].n] = "freed"]
    <3>1. echo'[p][x.id] = x
      BY <2>2, <2>3, <2>6 DEF TypeOK
    <3>2. memory[n] = "live" /\ (echo[p][x.id] # None => echo[p][x.id].n # n)
      BY <2>2, <2>3, <2>6 DEF TypeOK
    <3>3. \A q \in Peers, i \in 0..MaxItems :
            echo[q][i] # None /\ echo[q][i].n = n => echo'[q][i] = echo[q][i]
      BY <2>2, <2>3, <2>6, <3>2 DEF TypeOK
    <3>4. x.n = n => Pointed(n)'
      BY <2>1, <2>2, <2>3, <3>1 DEF Pointed
    <3>5. QED BY <1>1, <2>1, <2>4, <3>2, <3>3, <3>4 DEF Pointed
  <2>7. QED BY <2>1, <2>5, <2>6, EchoAddIs
<1>6. ASSUME NEW c \in Channels, Answer(c) PROVE Pointed(n)'
  <2> DEFINE p == chanPeer[c]
             k == Head(answers[c]).id
  <2>1. p \in Peers /\ k \in 0..MaxItems
    <3>1. answers[c] \in Seq([n : Numbers, id : 0..MaxItems]) /\ answers[c] # <<>>
      BY <1>6 DEF TypeOK, Answer
    <3>2. Head(answers[c]) \in [n : Numbers, id : 0..MaxItems]
      BY <3>1, TailEl
    <3>3. QED BY <1>6, <3>2 DEF TypeOK, Answer, Live
  <2>2. /\ echo' = [echo EXCEPT ![p][k] = None] /\ UNCHANGED <<item, sendRing>>
        /\ memory' = IF echo[p][k] = None THEN memory
                     ELSE [memory EXCEPT ![echo[p][k].n] = "freed"]
    BY <1>6, SameRing DEF Answer, locals
  <2> HIDE DEF p, k
  <2>3. memory[n] = "live" /\ (echo[p][k] # None => echo[p][k].n # n)
    BY <2>1, <2>2 DEF TypeOK
  <2>4. \A q \in Peers, i \in 0..MaxItems :
          echo[q][i] # None /\ echo[q][i].n = n => echo'[q][i] = echo[q][i]
    BY <2>1, <2>2, <2>3 DEF TypeOK
  <2>5. Pointed(n)
    BY <1>1, <2>3
  <2>6. QED BY <2>2, <2>4, <2>5 DEF Pointed
<1>7. ASSUME NEW p \in Peers, NEW k \in 0..MaxItems, Expire(p, k) PROVE Pointed(n)'
  <2>1. memory[n] = "live" /\ echo[p][k].n # n
    BY <1>7 DEF TypeOK, Expire
  <2>2. \A q \in Peers, i \in 0..MaxItems :
          echo[q][i] # None /\ echo[q][i].n = n => echo'[q][i] = echo[q][i]
    BY <1>7, <2>1 DEF TypeOK, Expire
  <2>3. UNCHANGED <<item, sendRing>>
    BY <1>7, SameRing DEF Expire, locals
  <2>4. Pointed(n)
    BY <1>1, <2>1
  <2>5. QED BY <2>2, <2>3, <2>4 DEF Pointed
<1>8. ASSUME \A s \in Senders : ~MakeItem(s) /\ ~Put(s),
             \A c \in Channels : ~WriteNext(c) /\ ~Answer(c),
             \A p \in Peers, i \in 0..MaxItems : ~Expire(p, i)
      PROVE  Pointed(n)'
  <2>1. UNCHANGED <<memory, item, echo>>
    BY <1>8 DEF Next, Monitor, Sending, Put, Epoll, MonLock, MonSkip, MonDial, MonUnlock,
      ReadServer, Increase, Look, Claim, Fill, WriteRest, Disconnect, Remote, vars, locals, queues
  <2>2. sendRing' = sendRing
    BY <1>8, RingKept DEF Put
  <2>3. QED BY <1>1, <2>1, <2>2 DEF Pointed
<1>9. QED BY <1>2, <1>3, <1>4, <1>5, <1>6, <1>7, <1>8 DEF Put

\* While no two producers have been in one ring at once, an item that is neither
\* freed nor given up (a full ring, a full echo hash, an answer 60 s late) is with a
\* sender, in a ring, the ring of a dead channel too, or waits for its answer.
THEOREM LeaksAreAccounted == Spec => []LeaksAccounted
<1>1. Init => Accounted
  BY DEF Init, Accounted
<1>2. Accounted => LeaksAccounted
  BY DEF Accounted, Pointed, LeaksAccounted, Pending, El
<1>3. QED BY <1>1, <1>2, AccountedStep, BaseHolds, PTL DEF Spec

-----------------------------------------------------------------------------
(***************************************************************************)
(* Where an item is.  k[n] says how far item n has come, w[n] in whose     *)
(* hands it is, r[n] what it holds; an item is in one place at most, apart *)
(* from the echo ring, which keeps it until it is answered.                *)
(***************************************************************************)
Kinds == {"none", "item", "ring", "stream", "wire", "handled"}
At(k, w, r, x, kind, owner) ==
  x.n \in Numbers /\ k[x.n] = kind /\ w[x.n] = owner /\ r[x.n] = x

Places(k, w, r) ==
  /\ k \in [Numbers -> Kinds] /\ r \in [Numbers -> Items]
  /\ w \in [Numbers -> Senders \cup Channels \cup Peers]
  /\ \A n \in Numbers : n \notin Made => k[n] = "none"
  /\ \A s \in Senders : item[s] # None => At(k, w, r, item[s], "item", s)
  /\ \A c \in Channels : stream[c] # None => At(k, w, r, stream[c], "stream", c)

QueuePlaces(k, w, r) ==
  /\ \A c \in Channels : /\ OneEach(sendRing[c])
                         /\ \A x \in El(sendRing[c]) : At(k, w, r, x, "ring", c)
  /\ \A c \in Channels : /\ OneEach(wire[c])
                         /\ \A x \in El(wire[c]) : At(k, w, r, x, "wire", c)
  /\ \A p \in Peers : /\ OneEach(got[p])
                      /\ \A x \in El(got[p]) : At(k, w, r, x, "handled", p)

EchoPlaces(k, w, r) ==
  /\ \A p \in Peers, i \in 0..MaxItems : echo[p][i] # None =>
       /\ echo[p][i].n \in Numbers /\ k[echo[p][i].n] \in {"stream", "wire", "handled"}
       /\ r[echo[p][i].n] = echo[p][i]
  /\ \A c \in Channels : \A a \in El(answers[c]) :
       a.n \in Numbers /\ k[a.n] = "handled" /\ r[a.n].id = a.id

Traced(k, w, r) == Places(k, w, r) /\ QueuePlaces(k, w, r) /\ EchoPlaces(k, w, r)

\* At first the rings are empty, and no number has been given to an item.
LEMMA InitRings ==
  ASSUME Init, NEW c \in Channels
  PROVE  El(sendRing[c]) = {} /\ OneEach(sendRing[c])
<1>1. Base /\ collided = {} /\ tail[c] - cons[c] = 0
  BY InitBase DEF Init
<1>2. Len(sendRing[c]) = 0
  BY <1>1, RingHolds
<1>3. QED BY <1>2 DEF El, OneEach

LEMMA InitTraced ==
  ASSUME Init, NEW x \in Items
  PROVE  Traced([n \in Numbers |-> "none"], [n \in Numbers |-> 1], [n \in Numbers |-> x])
<1>1. 1 \in Channels
  BY DEF Channels
<1>2. \A c \in Channels : El(sendRing[c]) = {} /\ OneEach(sendRing[c])
  BY InitRings
<1>3. QED
  BY <1>1, <1>2, EmptyEl DEF Init, Traced, Places, QueuePlaces, EchoPlaces, Kinds

\* A step that moves no item, and may drop some from sight.
Fewer ==
  /\ \A s \in Senders : item'[s] = item[s]
  /\ \A c \in Channels : stream'[c] = stream[c] \/ stream'[c] = None
  /\ \A c \in Channels : wire'[c] = wire[c] \/ wire'[c] = <<>>
  /\ \A c \in Channels : /\ answers'[c] \in Seq([n : Numbers, id : 0..MaxItems])
                         /\ El(answers'[c]) \subseteq El(answers[c])
  /\ \A p \in Peers, i \in 0..MaxItems : echo'[p][i] = echo[p][i] \/ echo'[p][i] = None
  /\ UNCHANGED <<sendRing, got>> /\ Made' = Made

\* A step that only takes items away leaves the others where they are.
LEMMA FewerTraced ==
  ASSUME NEW CONSTANT k, NEW CONSTANT w, NEW CONSTANT r, Traced(k, w, r), Fewer
  PROVE  Traced(k, w, r)'
<1> USE DEF Traced, Fewer
<1>1. Places(k, w, r)'
  BY DEF Places, At
<1>2. QueuePlaces(k, w, r)'
  BY EmptyEl DEF QueuePlaces, At
<1>3. EchoPlaces(k, w, r)'
  <2>1. \A p \in Peers, i \in 0..MaxItems : echo'[p][i] # None =>
          /\ echo'[p][i].n \in Numbers /\ k[echo'[p][i].n] \in {"stream", "wire", "handled"}
          /\ r[echo'[p][i].n] = echo'[p][i]
    <3> SUFFICES ASSUME NEW p \in Peers, NEW i \in 0..MaxItems, echo'[p][i] # None
                 PROVE  echo'[p][i] = echo[p][i]
      BY DEF EchoPlaces
    <3>1. QED OBVIOUS
  <2>2. \A c \in Channels : \A a \in El(answers'[c]) :
          a.n \in Numbers /\ k[a.n] = "handled" /\ r[a.n].id = a.id
    <3>1. \A c \in Channels : El(answers'[c]) \subseteq El(answers[c])
      OBVIOUS
    <3>2. QED BY <3>1 DEF EchoPlaces
  <2>3. QED BY <2>1, <2>2 DEF EchoPlaces
<1>4. QED BY <1>1, <1>2, <1>3

\* Only newSndItem, hsRingIn, onWrite and the remote move an item.
LEMMA OthersFewer ==
  ASSUME Base, [Next]_vars, collided' = {},
         \A s \in Senders : ~MakeItem(s) /\ ~Put(s),
         \A c \in Channels : ~WriteNext(c) /\ ~WriteRest(c) /\ ~Remote(c)
  PROVE  Fewer
<1> USE DEF Base
<1>1. Made' = Made
  <2>1. CASE Next
    BY <2>1, MadeKept
  <2>2. CASE UNCHANGED vars
    BY <2>2 DEF vars, Made
  <2>3. QED BY <2>1, <2>2
<1>2. ASSUME NEW c \in Channels, Answer(c) PROVE Fewer
  <2>1. UNCHANGED <<item, sendRing, stream, wire, got>>
    BY <1>2, SameRing DEF Answer, locals
  <2>2. \A p \in Peers, i \in 0..MaxItems : echo'[p][i] = echo[p][i] \/ echo'[p][i] = None
    BY <1>2 DEF TypeOK, Answer
  <2>3. /\ Tail(answers[c]) \in Seq([n : Numbers, id : 0..MaxItems])
        /\ El(Tail(answers[c])) \subseteq El(answers[c])
    <3>1. answers[c] \in Seq([n : Numbers, id : 0..MaxItems]) /\ answers[c] # <<>>
      BY <1>2 DEF TypeOK, Answer
    <3>2. QED BY <3>1, TailEl
  <2>4. \A b \in Channels : /\ answers'[b] \in Seq([n : Numbers, id : 0..MaxItems])
                            /\ El(answers'[b]) \subseteq El(answers[b])
    BY <1>2, <2>3 DEF TypeOK, Answer
  <2>5. QED BY <1>1, <2>1, <2>2, <2>4 DEF Fewer
<1>3. ASSUME NEW q \in Peers, NEW j \in 0..MaxItems, Expire(q, j) PROVE Fewer
  <2>1. UNCHANGED <<item, sendRing, stream, wire, got, answers>>
    BY <1>3, SameRing DEF Expire, locals, remote
  <2>2. \A p \in Peers, i \in 0..MaxItems : echo'[p][i] = echo[p][i] \/ echo'[p][i] = None
    BY <1>3 DEF TypeOK, Expire
  <2>3. QED BY <1>1, <2>1, <2>2 DEF Fewer, TypeOK
<1>4. ASSUME NEW c \in Channels, Disconnect(c) PROVE Fewer
  <2>1. UNCHANGED <<item, sendRing, echo, got>>
    BY <1>4, SameRing DEF Disconnect, ResetSend, locals
  <2>2. \A b \in Channels : /\ stream'[b] = stream[b] \/ stream'[b] = None
                            /\ wire'[b] = wire[b] \/ wire'[b] = <<>>
                            /\ answers'[b] = answers[b] \/ answers'[b] = <<>>
    BY <1>4 DEF TypeOK, Disconnect, ResetSend
  <2>3. \A b \in Channels : /\ answers'[b] \in Seq([n : Numbers, id : 0..MaxItems])
                            /\ El(answers'[b]) \subseteq El(answers[b])
    BY <2>2, EmptyEl, EmptySeq DEF TypeOK
  <2>4. QED BY <1>1, <2>1, <2>2, <2>3 DEF Fewer
<1>5. ASSUME \A c \in Channels : ~Answer(c) /\ ~Disconnect(c),
             \A p \in Peers, i \in 0..MaxItems : ~Expire(p, i)
      PROVE  Fewer
  <2>1. UNCHANGED <<item, stream, echo, wire, answers, got>>
    BY <1>5 DEF Next, Monitor, Sending, Put, Epoll, MonLock, MonSkip, MonDial, MonUnlock,
      ReadServer, Increase, Look, Claim, Fill, vars, locals, queues, remote
  <2>2. sendRing' = sendRing
    BY RingKept DEF Put
  <2>3. QED BY <1>1, <2>1, <2>2 DEF Fewer, TypeOK
<1>6. QED BY <1>2, <1>3, <1>4, <1>5

\* A new item is in its sender's hands.
LEMMA MakeTraced ==
  ASSUME Base, NEW s \in Senders, MakeItem(s),
         NEW CONSTANT k, NEW CONSTANT w, NEW CONSTANT r, Traced(k, w, r),
         NEW CONSTANT n, n = Cardinality(Made) + 1,
         NEW CONSTANT x, x = item'[s]
  PROVE  Traced([k EXCEPT ![n] = "item"], [w EXCEPT ![n] = s], [r EXCEPT ![n] = x])'
<1> USE DEF Base, Traced
<1>1. n \in Numbers \ Made /\ Made' = Made \cup {n}
  BY MakesNext
<1>2. x \in Items /\ x.n = n
  <2>1. TypeOK' /\ Locals'
    BY TypeStep, LocalsStep DEF Next, Sending
  <2>2. QED BY <2>1 DEF TypeOK, Locals, MakeItem, InRing
<1>3. k[n] = "none"
  BY <1>1 DEF Places
<1>4. /\ UNCHANGED <<sendRing, stream, echo, wire, answers, got>>
      /\ \A t \in Senders \ {s} : item'[t] = item[t]
  BY SameRing DEF TypeOK, MakeItem, queues, remote
<1>5. Places([k EXCEPT ![n] = "item"], [w EXCEPT ![n] = s], [r EXCEPT ![n] = x])'
  BY <1>1, <1>2, <1>3, <1>4 DEF Places, At, Kinds
<1>6. QueuePlaces([k EXCEPT ![n] = "item"], [w EXCEPT ![n] = s], [r EXCEPT ![n] = x])'
  BY <1>1, <1>2, <1>3, <1>4 DEF Places, QueuePlaces, At
<1>7. EchoPlaces([k EXCEPT ![n] = "item"], [w EXCEPT ![n] = s], [r EXCEPT ![n] = x])'
  BY <1>1, <1>2, <1>3, <1>4 DEF Places, EchoPlaces
<1>8. QED BY <1>5, <1>6, <1>7

\* An item put into a ring is there and nowhere else; so says the map of an item a
\* full ring refuses, too.
LEMMA PutTraced ==
  ASSUME Base, [Next]_vars, collided' = {}, NEW s \in Senders, Put(s),
         NEW CONSTANT k, NEW CONSTANT w, NEW CONSTANT r, Traced(k, w, r),
         NEW CONSTANT n, n = item[s].n,
         NEW CONSTANT c, c = via[s]
  PROVE  Traced([k EXCEPT ![n] = "ring"], [w EXCEPT ![n] = c], r)'
<1> USE DEF Base, Traced
<1>1. item[s] \in Items /\ c \in Channels /\ n \in Numbers
  BY ItemFacts DEF TypeOK, Locals, Put, Refuse, Show, InRing
<1>2. item[s] # None /\ k[n] = "item" /\ w[n] = s /\ r[n] = item[s]
  BY <1>1, ItemFacts DEF Places, At
<1>3. Made' = Made
  <2>1. pc[s] \in {"claim", "show"} /\ pc'[s] = "idle"
    BY DEF TypeOK, Put, Refuse, Show, Leave
  <2>2. \A t \in Senders : ~MakeItem(t)
    BY <2>1 DEF TypeOK, MakeItem
  <2>3. QED BY <2>1, <2>2, MadeKept DEF Next, Sending, Put
<1>4. /\ UNCHANGED <<stream, echo, remote>> /\ item'[s] = None
      /\ \A t \in Senders \ {s} : item'[t] = item[t]
  BY DEF TypeOK, Put, Refuse, Show, Leave, queues
<1>5. \A b \in Channels \ {c} : sendRing'[b] = sendRing[b]
  BY SameRing, ShowIs DEF Put, Refuse, queues
<1>6. sendRing'[c] = Append(sendRing[c], item[s]) \/ sendRing'[c] = sendRing[c]
  BY SameRing, ShowIs DEF Put, Refuse, queues
<1>7. sendRing[c] \in Seq(Items)
  BY <1>1, CollidedStays, RingHolds
<1>8. Places([k EXCEPT ![n] = "ring"], [w EXCEPT ![n] = c], r)'
  BY <1>1, <1>2, <1>3, <1>4 DEF Places, At, Kinds
<1>9. QueuePlaces([k EXCEPT ![n] = "ring"], [w EXCEPT ![n] = c], r)'
  <2>1. /\ El(Append(sendRing[c], item[s])) = El(sendRing[c]) \cup {item[s]}
        /\ OneEach(Append(sendRing[c], item[s]))
    <3>1. \A y \in El(sendRing[c]) : y.n # item[s].n
      BY <1>1, <1>2 DEF QueuePlaces, At
    <3>2. OneEach(sendRing[c])
      BY <1>1 DEF QueuePlaces
    <3>3. QED BY <1>1, <1>7, <3>1, <3>2, AppendEl
  <2>2. \A b \in Channels :
          /\ OneEach(sendRing'[b])
          /\ \A x \in El(sendRing'[b]) : x \in El(sendRing[b]) \/ (b = c /\ x = item[s])
    BY <1>1, <1>5, <1>6, <2>1 DEF QueuePlaces
  <2>3. UNCHANGED <<wire, got>>
    BY <1>4 DEF remote
  <2> DEFINE k2 == [k EXCEPT ![n] = "ring"]
             w2 == [w EXCEPT ![n] = c]
  <2>4. k2[n] = "ring" /\ w2[n] = c /\ \A m \in Numbers \ {n} : k2[m] = k[m] /\ w2[m] = w[m]
    BY <1>1 DEF Places
  <2> HIDE DEF k2, w2
  <2>5. \A b \in Channels : \A x \in El(sendRing'[b]) : At(k2, w2, r, x, "ring", b)
    BY <1>1, <1>2, <2>2, <2>4 DEF QueuePlaces, At
  <2>6. \A b \in Channels : \A x \in El(wire[b]) : At(k2, w2, r, x, "wire", b)
    BY <1>2, <2>4 DEF QueuePlaces, At
  <2>7. \A q \in Peers : \A x \in El(got[q]) : At(k2, w2, r, x, "handled", q)
    BY <1>2, <2>4 DEF QueuePlaces, At
  <2>8. QueuePlaces(k2, w2, r)'
    BY <2>2, <2>3, <2>5, <2>6, <2>7 DEF QueuePlaces, At
  <2>9. QED BY <2>8 DEF k2, w2
<1>10. EchoPlaces([k EXCEPT ![n] = "ring"], [w EXCEPT ![n] = c], r)'
  <2>1. UNCHANGED <<echo, answers>>
    BY <1>4 DEF remote
  <2>2. QED BY <1>1, <1>2, <2>1 DEF Places, EchoPlaces
<1>11. QED BY <1>8, <1>9, <1>10

\* A message the remote reads is handled.
LEMMA RemoteTraced ==
  ASSUME Base, NEW c \in Channels, Remote(c),
         NEW CONSTANT k, NEW CONSTANT w, NEW CONSTANT r, Traced(k, w, r),
         NEW CONSTANT n, n = Head(wire[c]).n,
         NEW CONSTANT p, p = chanPeer[c]
  PROVE  Traced([k EXCEPT ![n] = "handled"], [w EXCEPT ![n] = p], r)'
<1> USE DEF Base, Traced
<1> DEFINE x == Head(wire[c])
<1>1. wire[c] \in Seq(Items) /\ wire[c] # <<>> /\ OneEach(wire[c])
  BY DEF TypeOK, QueuePlaces, Remote
<1>2. /\ x \in Items /\ x \in El(wire[c]) /\ El(Tail(wire[c])) \subseteq El(wire[c])
      /\ OneEach(Tail(wire[c])) /\ \A y \in El(Tail(wire[c])) : y.n # x.n
  BY <1>1, TailEl
<1>3. p \in Peers
  BY <1>1 DEF TypeOK, PoolInv
<1>4. n \in Numbers /\ n = x.n /\ k[n] = "wire" /\ w[n] = c /\ r[n] = x
  BY <1>2, ItemFacts DEF QueuePlaces, At
<1>5. UNCHANGED <<item, sendRing, stream, echo>> /\ wire' = [wire EXCEPT ![c] = Tail(@)]
  BY SameRing DEF Remote, queues, locals
<1>6. Made' = Made
  BY DEF Remote, Made
<1>7. \A q \in Peers : got'[q] = got[q] \/ (q = p /\ got'[q] = Append(got[q], x))
  BY DEF Remote, TypeOK
<1>8. \A b \in Channels : \/ answers'[b] = answers[b]
                          \/ answers'[b] = Append(answers[b], [n |-> x.n, id |-> x.id])
  BY DEF Remote, TypeOK
<1> HIDE DEF x
<1>9. Places([k EXCEPT ![n] = "handled"], [w EXCEPT ![n] = p], r)'
  BY <1>3, <1>4, <1>5, <1>6 DEF Places, At, Kinds
<1>10. QueuePlaces([k EXCEPT ![n] = "handled"], [w EXCEPT ![n] = p], r)'
  <2>1. \A b \in Channels :
          /\ OneEach(wire'[b])
          /\ \A y \in El(wire'[b]) : y \in El(wire[b]) /\ y.n # n
    <3>1. \A b \in Channels \ {c} : wire'[b] = wire[b] /\ \A y \in El(wire[b]) : y.n # n
      BY <1>4, <1>5 DEF TypeOK, QueuePlaces, At
    <3>2. wire'[c] = Tail(wire[c])
      BY <1>5 DEF TypeOK
    <3>3. QED BY <1>2, <1>4, <3>1, <3>2 DEF QueuePlaces
  <2>2. \A q \in Peers :
          /\ El(Append(got[q], x)) = El(got[q]) \cup {x}
          /\ OneEach(Append(got[q], x))
    <3>1. ASSUME NEW q \in Peers PROVE \A y \in El(got[q]) : y.n # x.n
      BY <1>4 DEF QueuePlaces, At
    <3>2. \A q \in Peers : got[q] \in Seq(Items) /\ OneEach(got[q])
      BY DEF TypeOK, QueuePlaces
    <3>3. QED BY <1>2, <3>1, <3>2, AppendEl
  <2>3. \A q \in Peers :
          /\ OneEach(got'[q])
          /\ \A y \in El(got'[q]) : y \in El(got[q]) \/ (q = p /\ y = x)
    <3>1. ASSUME NEW q \in Peers
          PROVE  /\ OneEach(got'[q])
                 /\ \A y \in El(got'[q]) : y \in El(got[q]) \/ (q = p /\ y = x)
      <4>1. CASE got'[q] = got[q]
        BY <4>1 DEF QueuePlaces
      <4>2. CASE q = p /\ got'[q] = Append(got[q], x)
        BY <2>2, <4>2
      <4>3. QED BY <1>7, <4>1, <4>2
    <3>2. QED BY <3>1
  <2> DEFINE k2 == [k EXCEPT ![n] = "handled"]
             w2 == [w EXCEPT ![n] = p]
  <2>4. /\ k2[n] = "handled" /\ w2[n] = p
        /\ \A m \in Numbers \ {n} : k2[m] = k[m] /\ w2[m] = w[m]
    BY <1>4 DEF Places
  <2> HIDE DEF k2, w2
  <2>5. \A b \in Channels : \A y \in El(sendRing[b]) : At(k2, w2, r, y, "ring", b)
    BY <1>4, <2>4 DEF QueuePlaces, At
  <2>6. \A b \in Channels : \A y \in El(wire'[b]) : At(k2, w2, r, y, "wire", b)
    BY <2>1, <2>4 DEF QueuePlaces, At
  <2>7. \A q \in Peers : \A y \in El(got'[q]) : At(k2, w2, r, y, "handled", q)
    BY <1>3, <1>4, <2>3, <2>4 DEF QueuePlaces, At
  <2>8. QueuePlaces(k2, w2, r)'
    BY <1>5, <2>1, <2>3, <2>5, <2>6, <2>7 DEF QueuePlaces, At
  <2>9. QED BY <2>8 DEF k2, w2
<1>11. EchoPlaces([k EXCEPT ![n] = "handled"], [w EXCEPT ![n] = p], r)'
  <2>1. [n |-> x.n, id |-> x.id] \in [n : Numbers, id : 0..MaxItems]
    BY <1>2, ItemFacts
  <2>2. \A b \in Channels : El(Append(answers[b], [n |-> x.n, id |-> x.id])) =
                              El(answers[b]) \cup {[n |-> x.n, id |-> x.id]}
    <3>1. \A b \in Channels : answers[b] \in Seq([n : Numbers, id : 0..MaxItems])
      BY DEF TypeOK
    <3>2. QED BY <2>1, <3>1, AppendEl
  <2>3. \A b \in Channels : \A a \in El(answers'[b]) :
          a \in El(answers[b]) \/ (a.n = n /\ a.id = x.id)
    <3> SUFFICES ASSUME NEW b \in Channels, NEW a \in El(answers'[b]), a \notin El(answers[b])
                 PROVE  a.n = n /\ a.id = x.id
      OBVIOUS
    <3> DEFINE v == [n |-> x.n, id |-> x.id]
    <3>1. \A d \in Channels : El(Append(answers[d], v)) = El(answers[d]) \cup {v}
      BY <2>2
    <3>2. \A d \in Channels : answers'[d] = answers[d] \/ answers'[d] = Append(answers[d], v)
      BY <1>8
    <3>3. v.n = n /\ v.id = x.id
      BY <1>4
    <3> HIDE DEF v
    <3>4. a = v
      <4>1. answers'[b] = Append(answers[b], v)
        BY <3>2
      <4>2. a \in El(answers[b]) \cup {v}
        BY <3>1, <4>1
      <4>3. QED BY <4>2
    <3>5. QED BY <3>3, <3>4
  <2> DEFINE k2 == [k EXCEPT ![n] = "handled"]
             w2 == [w EXCEPT ![n] = p]
  <2>4. k2[n] = "handled" /\ \A m \in Numbers \ {n} : k2[m] = k[m]
    BY <1>4 DEF Places
  <2> HIDE DEF k2, w2
  <2>5. \A b \in Channels : \A a \in El(answers'[b]) :
          a.n \in Numbers /\ k2[a.n] = "handled" /\ r[a.n].id = a.id
    BY <1>4, <2>3, <2>4 DEF EchoPlaces
  <2>6. \A q \in Peers, i \in 0..MaxItems : echo[q][i] # None =>
          /\ echo[q][i].n \in Numbers /\ k2[echo[q][i].n] \in {"stream", "wire", "handled"}
          /\ r[echo[q][i].n] = echo[q][i]
    BY <2>4 DEF EchoPlaces
  <2>7. EchoPlaces(k2, w2, r)'
    BY <1>5, <2>5, <2>6 DEF EchoPlaces
  <2>8. QED BY <2>7 DEF k2, w2
<1>12. QED BY <1>9, <1>10, <1>11

\* onWrite moves x from the ring or the send stream to the connection, or leaves
\* the rest of it to the send stream.
Sent(c) == IF stream'[c] = None THEN "wire" ELSE "stream"

\* What a send takes is on the wire, or still in the stream.
LEMMA SendTraced ==
  ASSUME Base, NEW c \in Channels, NEW CONSTANT x, x \in Items, Send(c, x),
         NEW CONSTANT k, NEW CONSTANT w, NEW CONSTANT r, Traced(k, w, r),
         \/ stream[c] = x
         \/ stream[c] = None /\ k[x.n] = "ring",
         w[x.n] = c, r[x.n] = x,
         NEW CONSTANT kind, kind = Sent(c),
         UNCHANGED <<item, got, answers>>, Made' = Made,
         \A b \in Channels :
            OneEach(sendRing'[b]) /\ \A y \in El(sendRing'[b]) : y \in El(sendRing[b]) /\ y.n # x.n,
         \A p \in Peers, i \in 0..MaxItems :
            echo'[p][i] # None => echo'[p][i] = echo[p][i] \/ echo'[p][i] = x
  PROVE  Traced([k EXCEPT ![x.n] = kind], w, r)'
<1> USE DEF Base, Traced
<1> DEFINE k2 == [k EXCEPT ![x.n] = kind]
<1>1. x.n \in Numbers /\ x # None /\ c \in Channels
  BY ItemFacts
<1>2. k[x.n] \in {"ring", "stream"}
  BY <1>1 DEF Places, At
<1>3. k2[x.n] = kind /\ \A m \in Numbers \ {x.n} : k2[m] = k[m]
  BY <1>1 DEF Places
<1>4. k2 \in [Numbers -> Kinds] /\ \A m \in Numbers : m \notin Made => k2[m] = "none"
  BY <1>1, <1>2 DEF Places, Kinds, Sent
<1> HIDE DEF k2
<1>5. \/ /\ kind = "wire" /\ wire' = [wire EXCEPT ![c] = Append(@, x)]
         /\ stream' = [stream EXCEPT ![c] = None]
      \/ /\ kind = "stream" /\ wire' = wire /\ stream' = [stream EXCEPT ![c] = x]
  BY <1>1 DEF Send, Sent, TypeOK
<1>6. Places(k2, w, r)'
  <2>1. \A s \in Senders : item[s] # None => At(k2, w, r, item[s], "item", s)
    BY <1>2, <1>3 DEF Places, At
  <2>2. \A b \in Channels : stream'[b] # None => At(k2, w, r, stream'[b], "stream", b)
    <3>1. ASSUME NEW b \in Channels \ {c}, stream'[b] # None
          PROVE  At(k2, w, r, stream'[b], "stream", b)
      <4>1. stream'[b] = stream[b]
        BY <1>5 DEF TypeOK
      <4>2. QED BY <1>3, <3>1, <4>1 DEF Places, At
    <3>2. stream'[c] # None => At(k2, w, r, stream'[c], "stream", c)
      BY <1>1, <1>3, <1>5 DEF TypeOK, At
    <3>3. QED BY <3>1, <3>2
  <2>3. QED BY <1>4, <2>1, <2>2 DEF Places, At
<1>7. QueuePlaces(k2, w, r)'
  <2>1. \A b \in Channels : \A y \in El(sendRing'[b]) : At(k2, w, r, y, "ring", b)
    BY <1>3 DEF QueuePlaces, At
  <2>2. \A b \in Channels :
          OneEach(wire'[b]) /\ \A y \in El(wire'[b]) : At(k2, w, r, y, "wire", b)
    <3>1. \A b \in Channels : \A y \in El(wire[b]) : y.n # x.n /\ At(k2, w, r, y, "wire", b)
      BY <1>2, <1>3 DEF QueuePlaces, At
    <3>2. CASE wire' = wire
      BY <3>1, <3>2 DEF QueuePlaces
    <3>3. CASE kind = "wire" /\ wire' = [wire EXCEPT ![c] = Append(@, x)]
      <4>1. At(k2, w, r, x, "wire", c)
        BY <1>1, <1>3, <3>3 DEF At
      <4>2. wire[c] \in Seq(Items) /\ OneEach(wire[c])
        BY DEF TypeOK, QueuePlaces
      <4>3. El(Append(wire[c], x)) = El(wire[c]) \cup {x} /\ OneEach(Append(wire[c], x))
        BY <3>1, <4>2, AppendEl
      <4>4. wire'[c] = Append(wire[c], x) /\ \A b \in Channels \ {c} : wire'[b] = wire[b]
        BY <3>3 DEF TypeOK
      <4>5. OneEach(wire'[c]) /\ \A y \in El(wire'[c]) : At(k2, w, r, y, "wire", c)
        BY <3>1, <4>1, <4>3, <4>4
      <4>6. \A b \in Channels \ {c} :
              OneEach(wire'[b]) /\ \A y \in El(wire'[b]) : At(k2, w, r, y, "wire", b)
        BY <3>1, <4>4 DEF QueuePlaces
      <4>7. QED BY <4>5, <4>6
    <3>4. QED BY <1>5, <3>2, <3>3
  <2>3. \A q \in Peers : \A y \in El(got[q]) : At(k2, w, r, y, "handled", q)
    BY <1>2, <1>3 DEF QueuePlaces, At
  <2>4. QED BY <2>1, <2>2, <2>3 DEF QueuePlaces, At
<1>8. EchoPlaces(k2, w, r)'
  <2>1. \A q \in Peers, i \in 0..MaxItems : echo'[q][i] # None =>
          /\ echo'[q][i].n \in Numbers /\ k2[echo'[q][i].n] \in {"stream", "wire", "handled"}
          /\ r[echo'[q][i].n] = echo'[q][i]
    <3> SUFFICES ASSUME NEW q \in Peers, NEW i \in 0..MaxItems, NEW e, e = echo'[q][i], e # None
                 PROVE  /\ e.n \in Numbers /\ k2[e.n] \in {"stream", "wire", "handled"}
                        /\ r[e.n] = e
      OBVIOUS
    <3>1. e = x \/ e = echo[q][i]
      OBVIOUS
    <3>2. e = echo[q][i] => /\ e.n \in Numbers /\ k[e.n] \in {"stream", "wire", "handled"}
                            /\ r[e.n] = e
      BY DEF EchoPlaces
    <3>3. kind \in {"stream", "wire"}
      BY DEF Sent
    <3>4. QED BY <1>1, <1>3, <3>1, <3>2, <3>3
  <2>2. \A b \in Channels : \A a \in El(answers[b]) :
          a.n \in Numbers /\ k2[a.n] = "handled" /\ r[a.n].id = a.id
    BY <1>2, <1>3 DEF EchoPlaces
  <2>3. QED BY <2>1, <2>2 DEF EchoPlaces
<1>9. Traced(k2, w, r)'
  BY <1>6, <1>7, <1>8
<1>10. QED BY <1>9 DEF k2, Places, QueuePlaces, EchoPlaces

\* onWrite sends the item it took out of the ring, or the rest of the one before.
LEMMA WriteTraced ==
  ASSUME Base, [Next]_vars, collided' = {}, NEW c \in Channels, NEW CONSTANT x,
         \/ WriteNext(c) /\ x = Foremost(c)
         \/ WriteRest(c) /\ x = stream[c],
         NEW CONSTANT k, NEW CONSTANT w, NEW CONSTANT r, Traced(k, w, r),
         NEW CONSTANT kind, kind = Sent(c)
  PROVE  Traced([k EXCEPT ![x.n] = kind], w, r)'
<1> USE DEF Base
<1>1. UNCHANGED <<item, got, answers>>
  BY DEF WriteNext, WriteRest, locals
<1>2. Made' = Made
  <2>1. CASE WriteNext(c)
    <3>1. \A s \in Senders : ~MakeItem(s)
      BY <2>1 DEF TypeOK, WriteNext, MakeItem, locals
    <3>2. QED BY <2>1, <3>1, MadeKept DEF Next, Epoll
  <2>2. CASE WriteRest(c)
    BY <2>2 DEF WriteRest, Made
  <2>3. QED BY <2>1, <2>2
<1>3. CASE WriteNext(c) /\ x = Foremost(c)
  <2>1. /\ x \in Items /\ sendRing[c] \in Seq(Items) /\ sendRing[c] # <<>>
        /\ x = Head(sendRing[c]) /\ sendRing'[c] = Tail(sendRing[c])
        /\ \A b \in Channels \ {c} : sendRing'[b] = sendRing[b]
        /\ EchoAdd(chanPeer[c], x) /\ Send(c, x)
    BY <1>3, TakeIs
  <2>2. OneEach(sendRing[c])
    BY DEF Traced, QueuePlaces
  <2>3. /\ x \in El(sendRing[c]) /\ El(Tail(sendRing[c])) \subseteq El(sendRing[c])
        /\ OneEach(Tail(sendRing[c])) /\ \A y \in El(Tail(sendRing[c])) : y.n # x.n
    BY <2>1, <2>2, TailEl
  <2>4. k[x.n] = "ring" /\ w[x.n] = c /\ r[x.n] = x /\ x.n \in Numbers
    BY <2>3 DEF Traced, QueuePlaces, At
  <2>5. \A b \in Channels :
          OneEach(sendRing'[b]) /\ \A y \in El(sendRing'[b]) : y \in El(sendRing[b]) /\ y.n # x.n
    <3>1. \A b \in Channels \ {c} : OneEach(sendRing[b]) /\ \A y \in El(sendRing[b]) : y.n # x.n
      BY <2>4 DEF Traced, QueuePlaces, At
    <3>2. QED BY <2>1, <2>3, <3>1
  <2>6. \A p \in Peers, i \in 0..MaxItems : echo'[p][i] = echo[p][i] \/ echo'[p][i] = x
    <3>1. echo' = echo \/ echo' = [echo EXCEPT ![chanPeer[c]][x.id] = x]
      BY <2>1, EchoAddIs
    <3>2. echo \in [Peers -> [0..MaxItems -> Items \cup {None}]]
      BY DEF TypeOK
    <3>3. QED BY <3>1, <3>2
  <2>7. stream[c] = None
    BY <1>3 DEF WriteNext
  <2>8. QED BY <1>1, <1>2, <2>1, <2>4, <2>5, <2>6, <2>7, SendTraced
<1>4. CASE WriteRest(c) /\ x = stream[c]
  <2>1. x \in Items /\ x # None /\ Send(c, x) /\ UNCHANGED <<sendRing, echo>>
    BY <1>4, SameRing, ItemFacts DEF TypeOK, WriteRest
  <2>2. k[x.n] = "stream" /\ w[x.n] = c /\ r[x.n] = x
    BY <1>4, <2>1 DEF Traced, Places, At
  <2>3. \A b \in Channels :
          OneEach(sendRing'[b]) /\ \A y \in El(sendRing'[b]) : y \in El(sendRing[b]) /\ y.n # x.n
    BY <2>1, <2>2 DEF Traced, QueuePlaces, At
  <2>4. \A p \in Peers, i \in 0..MaxItems : echo'[p][i] = echo[p][i]
    BY <2>1
  <2>5. stream[c] = x
    BY <1>4
  <2>6. QED BY <1>1, <1>2, <2>1, <2>2, <2>3, <2>4, <2>5, SendTraced
<1>5. QED BY <1>3, <1>4

-----------------------------------------------------------------------------
(***************************************************************************)
(* While no two sends overlap and no channel goes back with items on it.   *)
(***************************************************************************)
\* What a channel carries is for the peer it serves.
ForItsPeer(r) ==
  /\ \A s \in Senders : via[s] # None => chanPeer[via[s]] = to[s]
  /\ \A c \in Channels : \A x \in El(sendRing[c]) : x.to = chanPeer[c]
  /\ \A c \in Channels : stream[c] # None => stream[c].to = chanPeer[c]
  /\ \A c \in Channels : \A x \in El(wire[c]) : x.to = chanPeer[c]
  /\ \A c \in Channels : \A a \in El(answers[c]) : r[a.n].to = chanPeer[c]
  /\ \A p \in Peers, i \in 0..MaxItems : echo[p][i] # None => echo[p][i].to = p
  /\ \A p \in Peers : \A x \in El(got[p]) : x.to = p

\* No two items to a peer have the same id.
OwnIds(r) ==
  /\ \A m, n \in Made : r[m].to = r[n].to /\ r[m].id = r[n].id => m = n
  /\ \A n \in Made : r[n].id <= idCur[r[n].to]
  /\ \A s \in Senders, n \in Made : pc[s] = "get" /\ r[n].to = to[s] => r[n].id < idCur[to[s]]

Alive ==
  /\ \A s \in Senders : item[s] # None => memory[item[s].n] = "live"
  /\ \A c \in Channels : \A x \in El(sendRing[c]) : memory[x.n] = "live"
  /\ \A c \in Channels : stream[c] # None => memory[stream[c].n] # "freed"
  /\ \A p \in Peers, i \in 0..MaxItems : echo[p][i] # None => memory[echo[p][i].n] = "live"

Tidy(r) == ForItsPeer(r) /\ OwnIds(r) /\ Alive

\* What is not clean stays so.
LEMMA CleanStep == [Next]_vars /\ Clean' => Clean
<1> SUFFICES ASSUME [Next]_vars, ~Clean PROVE ~Clean'
  OBVIOUS
<1>1. ASSUME NEW s \in Senders, Increase(s) PROVE ~Clean'
  BY <1>1 DEF Increase, Clean
<1>2. ASSUME NEW c \in Channels, Disconnect(c) PROVE ~Clean'
  BY <1>2 DEF Disconnect, Clean
<1>3. ASSUME \A s \in Senders : ~Increase(s), \A c \in Channels : ~Disconnect(c)
      PROVE  UNCHANGED <<overlap, leftover>>
  BY <1>3 DEF Next, Monitor, Sending, Epoll, MonLock, MonSkip, MonDial, MonUnlock,
    ReadServer, MakeItem, Look, Refuse, Claim, Fill, Show, WriteNext, WriteRest, Answer,
    Expire, Remote, vars, history
<1>4. UNCHANGED <<overlap, leftover>> => ~Clean'
  BY DEF Clean
<1>5. QED BY <1>1, <1>2, <1>3, <1>4

\* In a clean run no two threads send at once.
LEMMA CleanIsAlone ==
  ASSUME Base, [Next]_vars, Clean'
  PROVE  Clean /\ OneSender /\ OneSender'
  BY CleanStep, AloneStep DEF Base, Alone, Clean

\* An item stays on the way to the peer it was made for.
LEMMA ForItsPeerStep ==
  ASSUME Base, [Next]_vars, Clean', collided' = {},
         NEW CONSTANT k, NEW CONSTANT w, NEW CONSTANT r, Traced(k, w, r), ForItsPeer(r)
  PROVE  ForItsPeer(r)'
<1> USE DEF Base
<1>1. collided = {}
  BY CollidedStays
<1>2. CASE MonDial
  <2> DEFINE d == Head(pool)
  <2>1. d \in Channels /\ d \in El(pool) /\ cur \in Peers
    BY <1>2, DialFacts
  <2>2. chanPeer[d] = None
    BY <2>1 DEF PoolInv
  <2>3. El(sendRing[d]) = {}
    <3>1. \A x \in El(sendRing[d]) : x.to = None /\ x.to \in Peers
      BY <1>1, <2>1, <2>2, RingHolds, ItemFacts DEF ForItsPeer
    <3>2. QED BY <3>1, PeerFacts
  <2>4. stream[d] = None /\ El(wire[d]) = {} /\ El(answers[d]) = {}
    BY <2>1, <2>2, EmptyEl DEF PoolInv
  <2>5. \A s \in Senders : via[s] # d
    BY <2>1, <2>2, PeerFacts DEF ForItsPeer, Locals
  <2>6. /\ chanPeer' = [chanPeer EXCEPT ![d] = cur]
        /\ via' = [via EXCEPT ![Mon] = d] /\ to' = [to EXCEPT ![Mon] = cur]
        /\ UNCHANGED <<sendRing, stream, echo, wire, answers, got>>
    BY <1>2, SameRing DEF MonDial, queues, remote
  <2> HIDE DEF d
  <2>7. \A s \in Senders : via'[s] # None => chanPeer'[via'[s]] = to'[s]
    BY <2>1, <2>5, <2>6 DEF TypeOK, ForItsPeer
  <2>8. chanPeer'[d] = cur /\ \A c \in Channels \ {d} : chanPeer'[c] = chanPeer[c]
    BY <2>1, <2>6 DEF TypeOK
  <2>9. QED BY <2>3, <2>4, <2>6, <2>7, <2>8 DEF ForItsPeer
<1>3. ASSUME NEW a \in Apps, NEW p \in Peers, ReadServer(a, p) PROVE ForItsPeer(r)'
  <2>1. /\ chanPeer[server[p]] = p
        /\ UNCHANGED <<chanPeer, sendRing, stream, echo, wire, answers, got>>
    BY <1>3, SameRing DEF PoolInv, ReadServer, channel, queues, remote
  <2>2. \A s \in Senders : via'[s] # None => chanPeer[via'[s]] = to'[s]
    BY <1>3, <2>1 DEF TypeOK, ForItsPeer, ReadServer, Senders
  <2>3. QED BY <2>1, <2>2 DEF ForItsPeer
<1>4. ASSUME NEW s \in Senders, Put(s) PROVE ForItsPeer(r)'
  <2>1. UNCHANGED <<chanPeer, stream, echo, wire, answers, got>>
    BY <1>4 DEF Put, Refuse, Show, channel, queues, remote
  <2>2. \A t \in Senders : via'[t] # None => via'[t] = via[t] /\ to'[t] = to[t]
    BY <1>4 DEF TypeOK, Put, Refuse, Show, Leave
  <2>3. \A c \in Channels : \A x \in El(sendRing'[c]) : x.to = chanPeer[c]
    <3>1. CASE Refuse(s)
      BY <3>1, SameRing DEF Refuse, queues, ForItsPeer
    <3>2. CASE Show(s)
      <4>1. PICK d : d = via[s]
        OBVIOUS
      <4>2. /\ d \in Channels /\ item[s] \in Items /\ item[s] # None
            /\ sendRing'[d] = Append(sendRing[d], item[s])
            /\ \A b \in Channels \ {d} : sendRing'[b] = sendRing[b]
        BY <3>2, <4>1, ShowIs
      <4>3. item[s].to = chanPeer[d]
        BY <4>1, <4>2, PeerFacts DEF Locals, ForItsPeer
      <4>4. El(sendRing'[d]) = El(sendRing[d]) \cup {item[s]}
        BY <1>1, <4>2, RingHolds, AppendEl
      <4>5. QED BY <4>2, <4>3, <4>4 DEF ForItsPeer
    <3>3. QED BY <1>4, <3>1, <3>2 DEF Put
  <2>4. QED BY <2>1, <2>2, <2>3 DEF ForItsPeer
<1>5. ASSUME NEW c \in Channels, WriteNext(c) \/ WriteRest(c) PROVE ForItsPeer(r)'
  <2> DEFINE x == IF stream[c] = None THEN Foremost(c) ELSE stream[c]
  <2>1. /\ x \in Items /\ x.to = chanPeer[c] /\ chanPeer[c] \in Peers
        /\ \A b \in Channels : El(sendRing'[b]) \subseteq El(sendRing[b])
        /\ Send(c, x)
        /\ \/ echo' = echo
           \/ echo' = [echo EXCEPT ![chanPeer[c]][x.id] = x]
    <3>1. CASE WriteNext(c)
      <4>1. /\ Foremost(c) \in Items
            /\ sendRing[c] \in Seq(Items) /\ sendRing[c] # <<>>
            /\ Foremost(c) = Head(sendRing[c]) /\ sendRing'[c] = Tail(sendRing[c])
            /\ \A b \in Channels \ {c} : sendRing'[b] = sendRing[b]
            /\ EchoAdd(chanPeer[c], Foremost(c)) /\ Send(c, Foremost(c))
        BY <3>1, TakeIs
      <4>2. Foremost(c) \in El(sendRing[c]) /\ El(Tail(sendRing[c])) \subseteq El(sendRing[c])
        BY <4>1, TailEl
      <4>3. stream[c] = None /\ chanPeer[c] \in Peers
        BY <3>1 DEF TypeOK, WriteNext, Live
      <4>4. Foremost(c).to = chanPeer[c]
        BY <4>2 DEF ForItsPeer
      <4>5. \A b \in Channels : El(sendRing'[b]) \subseteq El(sendRing[b])
        BY <4>1, <4>2
      <4>6. \/ echo' = echo
            \/ echo' = [echo EXCEPT ![chanPeer[c]][Foremost(c).id] = Foremost(c)]
        BY <4>1, EchoAddIs
      <4>7. x = Foremost(c)
        BY <4>3
      <4> HIDE DEF x
      <4>8. QED BY <4>1, <4>3, <4>4, <4>5, <4>6, <4>7
    <3>2. CASE WriteRest(c)
      BY <3>2, SameRing DEF TypeOK, ForItsPeer, WriteRest, Live
    <3>3. QED BY <1>5, <3>1, <3>2
  <2>2. UNCHANGED <<chanPeer, via, to, got, answers>>
    BY <1>5 DEF WriteNext, WriteRest, locals, channel
  <2>3. \A p \in Peers, i \in 0..MaxItems :
          echo'[p][i] # None => echo'[p][i] = echo[p][i] \/ (p = chanPeer[c] /\ echo'[p][i] = x)
    <3>1. echo \in [Peers -> [0..MaxItems -> Items \cup {None}]]
      BY DEF TypeOK
    <3> HIDE DEF x
    <3>2. QED BY <2>1, <3>1
  <2> HIDE DEF x
  <2>4. El(Append(wire[c], x)) = El(wire[c]) \cup {x}
    BY <2>1, AppendEl DEF TypeOK
  <2>5. \A b \in Channels : \A y \in El(wire'[b]) : y.to = chanPeer[b]
    <3>1. wire' = wire \/ wire' = [wire EXCEPT ![c] = Append(wire[c], x)]
      BY <2>1 DEF Send
    <3>2. wire \in [Channels -> Seq(Items)]
      BY DEF TypeOK
    <3>3. \A b \in Channels : wire'[b] = wire[b] \/ (b = c /\ wire'[b] = Append(wire[c], x))
      BY <3>1, <3>2
    <3>4. QED BY <2>1, <2>4, <3>3 DEF ForItsPeer
  <2>6. \A b \in Channels : stream'[b] # None => stream'[b].to = chanPeer[b]
    <3>1. stream' = [stream EXCEPT ![c] = None] \/ stream' = [stream EXCEPT ![c] = x]
      BY <2>1 DEF Send
    <3>2. stream \in [Channels -> Items \cup {None}]
      BY DEF TypeOK
    <3>3. \A b \in Channels :
            stream'[b] = stream[b] \/ stream'[b] = None \/ (b = c /\ stream'[b] = x)
      BY <3>1, <3>2
    <3>4. QED BY <2>1, <3>3 DEF ForItsPeer
  <2>7. \A p \in Peers, i \in 0..MaxItems : echo'[p][i] # None => echo'[p][i].to = p
    BY <2>1, <2>3 DEF ForItsPeer
  <2>8. QED BY <2>1, <2>2, <2>5, <2>6, <2>7 DEF ForItsPeer
<1>6. ASSUME NEW c \in Channels, Disconnect(c) PROVE ForItsPeer(r)'
  <2>1. El(sendRing[c]) = {} /\ \A s \in Senders : via[s] # c
    <3>1. tail[c] = cons[c] /\ \A s \in Senders : via[s] # c
      BY <1>6 DEF Disconnect, Clean
    <3>2. cons[c] \in Nat /\ Len(sendRing[c]) = tail[c] - cons[c]
      BY <1>1, RingHolds
    <3>3. Len(sendRing[c]) = 0
      BY <3>1, <3>2
    <3>4. QED BY <3>1, <3>3 DEF El
  <2>2. /\ chanPeer' = [chanPeer EXCEPT ![c] = None]
        /\ stream' = [stream EXCEPT ![c] = None]
        /\ wire' = [wire EXCEPT ![c] = <<>>] /\ answers' = [answers EXCEPT ![c] = <<>>]
        /\ UNCHANGED <<sendRing, echo, got, via, to>>
    BY <1>6, SameRing DEF Disconnect, ResetSend, locals
  <2>3. /\ \A b \in Channels \ {c} : /\ chanPeer'[b] = chanPeer[b] /\ stream'[b] = stream[b]
                                      /\ wire'[b] = wire[b] /\ answers'[b] = answers[b]
        /\ stream'[c] = None /\ wire'[c] = <<>> /\ answers'[c] = <<>>
    BY <2>2 DEF TypeOK
  <2>4. El(wire'[c]) = {} /\ El(answers'[c]) = {}
    BY <2>3, EmptyEl
  <2>5. \A s \in Senders : via[s] # None => via[s] \in Channels
    BY DEF TypeOK
  <2>6. QED BY <2>1, <2>2, <2>3, <2>4, <2>5 DEF ForItsPeer
<1>7. ASSUME NEW c \in Channels, Remote(c) PROVE ForItsPeer(r)'
  <2> DEFINE x == Head(wire[c])
  <2>1. x \in Items /\ x \in El(wire[c]) /\ El(Tail(wire[c])) \subseteq El(wire[c])
    BY <1>7, TailEl DEF TypeOK, Remote
  <2>2. r[x.n] = x /\ x.to = chanPeer[c]
    BY <2>1 DEF Traced, QueuePlaces, At, ForItsPeer
  <2>3. /\ wire' = [wire EXCEPT ![c] = Tail(@)]
        /\ UNCHANGED <<chanPeer, sendRing, stream, echo, via, to>>
    BY <1>7, SameRing DEF Remote, locals, channel, queues
  <2>4. [n |-> x.n, id |-> x.id] \in [n : Numbers, id : 0..MaxItems]
    BY <2>1, ItemFacts
  <2> DEFINE v == [n |-> x.n, id |-> x.id]
  <2>5. \A b \in Channels : El(Append(answers[b], v)) = El(answers[b]) \cup {v}
    <3>1. \A b \in Channels : answers[b] \in Seq([n : Numbers, id : 0..MaxItems])
      BY DEF TypeOK
    <3>2. v \in [n : Numbers, id : 0..MaxItems]
      BY <2>4
    <3> HIDE DEF v
    <3>3. QED BY <3>1, <3>2, AppendEl
  <2>6. \A b \in Channels : \/ answers'[b] = answers[b]
                            \/ b = c /\ answers'[b] = Append(answers[b], v)
    BY <1>7 DEF Remote, TypeOK
  <2>7. \A p \in Peers : \/ got'[p] = got[p]
                         \/ p = chanPeer[c] /\ got'[p] = Append(got[p], x)
    BY <1>7 DEF Remote, TypeOK
  <2>8. \A p \in Peers : El(Append(got[p], x)) = El(got[p]) \cup {x}
    BY <2>1, AppendEl DEF TypeOK
  <2>9. v.n = x.n
    OBVIOUS
  <2> HIDE DEF x, v
  <2>10. \A b \in Channels : \A a \in El(answers'[b]) : r[a.n].to = chanPeer[b]
    <3>1. ASSUME NEW b \in Channels PROVE \A a \in El(answers'[b]) : r[a.n].to = chanPeer[b]
      <4>1. CASE answers'[b] = answers[b]
        BY <4>1 DEF ForItsPeer
      <4>2. CASE b = c /\ answers'[b] = Append(answers[b], v)
        BY <2>2, <2>5, <2>9, <4>2 DEF ForItsPeer
      <4>3. QED BY <2>6, <4>1, <4>2
    <3>2. QED BY <3>1
  <2>11. \A p \in Peers : \A y \in El(got'[p]) : y.to = p
    <3>1. ASSUME NEW p \in Peers PROVE \A y \in El(got'[p]) : y.to = p
      <4>1. CASE got'[p] = got[p]
        BY <4>1 DEF ForItsPeer
      <4>2. CASE p = chanPeer[c] /\ got'[p] = Append(got[p], x)
        BY <2>2, <2>8, <4>2 DEF ForItsPeer
      <4>3. QED BY <2>7, <4>1, <4>2
    <3>2. QED BY <3>1
  <2>12. \A b \in Channels : El(wire'[b]) \subseteq El(wire[b])
    BY <2>1, <2>3 DEF TypeOK, x
  <2>13. QED BY <2>3, <2>10, <2>11, <2>12 DEF ForItsPeer
<1>8. ASSUME NEW s \in Senders, Increase(s) \/ MakeItem(s) PROVE ForItsPeer(r)'
  <2>1. UNCHANGED <<chanPeer, sendRing, stream, echo, wire, answers, got, via, to>>
    BY <1>8, SameRing DEF Increase, MakeItem, channel, queues, remote
  <2>2. QED BY <2>1 DEF ForItsPeer
<1>9. ASSUME ~MonDial, \A a \in Apps, p \in Peers : ~ReadServer(a, p),
             \A s \in Senders : ~Increase(s) /\ ~MakeItem(s) /\ ~Put(s),
             \A c \in Channels : ~WriteNext(c) /\ ~WriteRest(c) /\ ~Disconnect(c) /\ ~Remote(c)
      PROVE  ForItsPeer(r)'
  <2>1. Fewer
    BY <1>9, OthersFewer
  <2>2. UNCHANGED <<channel, via, to>>
    BY <1>9 DEF Next, Monitor, Sending, Put, Look, Claim, Fill, Epoll, MonLock, MonSkip,
      MonUnlock, Answer, Expire, vars, locals
  <2>3. \A c \in Channels : /\ El(wire'[c]) \subseteq El(wire[c])
                            /\ El(answers'[c]) \subseteq El(answers[c])
    BY <2>1, EmptyEl DEF Fewer
  <2>4. \A p \in Peers, i \in 0..MaxItems : echo'[p][i] # None => echo'[p][i].to = p
    <3> SUFFICES ASSUME NEW p \in Peers, NEW i \in 0..MaxItems, echo'[p][i] # None
                 PROVE  echo'[p][i] = echo[p][i]
      BY DEF ForItsPeer
    <3>1. QED BY <2>1 DEF Fewer
  <2>5. \A c \in Channels : stream'[c] # None => stream'[c].to = chanPeer[c]
    BY <2>1 DEF Fewer, ForItsPeer
  <2>6. UNCHANGED <<sendRing, got>>
    BY <2>1 DEF Fewer
  <2>7. QED BY <2>2, <2>3, <2>4, <2>5, <2>6 DEF ForItsPeer, channel
<1>10. QED BY <1>2, <1>3, <1>4, <1>5, <1>6, <1>7, <1>8, <1>9

\* Items of one peer keep ids of their own.
LEMMA OwnIdsStep ==
  ASSUME Base, [Next]_vars, Clean', OneSender,
         \A s \in Senders : ~MakeItem(s),
         NEW CONSTANT r, r \in [Numbers -> Items], OwnIds(r)
  PROVE  OwnIds(r)'
<1> USE DEF Base
<1>1. Made' = Made
  <2>1. CASE Next
    BY <2>1, MadeKept
  <2>2. CASE UNCHANGED vars
    BY <2>2 DEF vars, Made
  <2>3. QED BY <2>1, <2>2
<1>2. \A n \in Made : n \in Numbers /\ r[n].id \in Nat /\ r[n].to \in Peers
  BY ItemFacts DEF Made
<1>3. ASSUME NEW s \in Senders, Increase(s) PROVE OwnIds(r)'
  <2>1. OneSender'
    BY CleanIsAlone
  <2>2. pc'[s] = "get" /\ \A t \in Senders \ {s} : pc'[t] # "get"
    BY <1>3, <2>1 DEF TypeOK, Increase, OneSender, Busy
  <2>3. /\ to[s] \in Peers /\ idCur[to[s]] \in Nat /\ idCur'[to[s]] = idCur[to[s]] + 1
        /\ \A p \in Peers \ {to[s]} : idCur'[p] = idCur[p]
        /\ to' = to
    BY <1>3 DEF TypeOK, Locals, Increase
  <2>4. \A n \in Made : r[n].id <= idCur'[r[n].to]
    BY <1>2, <2>3 DEF OwnIds
  <2>5. \A n \in Made : r[n].to = to[s] => r[n].id < idCur'[to[s]]
    BY <1>2, <2>3 DEF OwnIds
  <2>6. QED BY <1>1, <2>2, <2>3, <2>4, <2>5 DEF OwnIds
<1>4. ASSUME \A s \in Senders : ~Increase(s) PROVE OwnIds(r)'
  <2>1. idCur' = idCur
    BY <1>4 DEF Next, Monitor, Sending, Epoll, MonLock, MonSkip, MonDial, MonUnlock,
      ReadServer, MakeItem, Look, Refuse, Claim, Fill, Show, WriteNext, WriteRest, Answer,
      Disconnect, Remote, Expire, vars
  <2>2. \A s \in Senders : pc'[s] = "get" => pc[s] = "get" /\ to'[s] = to[s]
    <3>1. ASSUME NEW a \in Apps, NEW p \in Peers, ReadServer(a, p)
          PROVE  \A s \in Senders : pc'[s] = "get" => pc[s] = "get" /\ to'[s] = to[s]
      BY <3>1 DEF TypeOK, ReadServer
    <3>2. CASE MonDial
      BY <3>2 DEF TypeOK, MonDial
    <3>3. ASSUME NEW t \in Senders, Put(t) \/ Enter(t)
          PROVE  \A s \in Senders : pc'[s] = "get" => pc[s] = "get" /\ to'[s] = to[s]
      BY <3>3 DEF TypeOK, Put, Refuse, Show, Leave, Enter, Look, Claim, Fill
    <3>4. ASSUME \A a \in Apps, p \in Peers : ~ReadServer(a, p), ~MonDial,
                 \A s \in Senders : ~Put(s) /\ ~Enter(s)
          PROVE  UNCHANGED <<pc, to>>
      BY <1>4, <3>4 DEF Next, Monitor, Sending, Put, Enter, Epoll, MonLock, MonSkip,
        MonUnlock, WriteNext, WriteRest, Answer, Disconnect, Remote, Expire, vars, locals
    <3>5. QED BY <3>1, <3>2, <3>3, <3>4
  <2>3. QED BY <1>1, <2>1, <2>2 DEF OwnIds
<1>5. QED BY <1>3, <1>4

\* A new item gets an id no other item of its peer has.
LEMMA OwnIdsMake ==
  ASSUME Base, NEW s \in Senders, MakeItem(s), OneSender,
         NEW CONSTANT r, r \in [Numbers -> Items], OwnIds(r),
         NEW CONSTANT n, n = Cardinality(Made) + 1,
         NEW CONSTANT x, x = item'[s]
  PROVE  OwnIds([r EXCEPT ![n] = x])'
<1> USE DEF Base
<1>1. n \in Numbers \ Made /\ Made' = Made \cup {n}
  BY MakesNext
<1>2. x.to = to[s] /\ x.id = idCur[to[s]] /\ to[s] \in Peers /\ idCur[to[s]] \in Nat
  BY DEF TypeOK, Locals, MakeItem, InRing
<1>3. \A m \in Made : m \in Numbers /\ r[m].id \in Nat /\ r[m].to \in Peers
  BY ItemFacts DEF Made
<1>4. \A m \in Made : r[m].to = to[s] => r[m].id < idCur[to[s]]
  BY DEF OwnIds, MakeItem
<1>5. \A t \in Senders : pc'[t] # "get"
  BY DEF TypeOK, MakeItem, OneSender, Busy
<1>6. UNCHANGED <<idCur, to>>
  BY DEF MakeItem
<1> DEFINE r2 == [r EXCEPT ![n] = x]
<1>7. r2[n] = x /\ \A m \in Made : r2[m] = r[m]
  BY <1>1, <1>3
<1> HIDE DEF r2
<1>8. OwnIds(r2)'
  <2>1. \A m \in Made', l \in Made' : r2[m].to = r2[l].to /\ r2[m].id = r2[l].id => m = l
    BY <1>1, <1>2, <1>3, <1>4, <1>7 DEF OwnIds
  <2>2. \A m \in Made' : r2[m].id <= idCur[r2[m].to]
    BY <1>1, <1>2, <1>3, <1>7 DEF OwnIds
  <2>3. QED BY <1>5, <1>6, <2>1, <2>2 DEF OwnIds
<1>9. QED BY <1>8 DEF r2

\* No item that is on its way is freed.
LEMMA AliveStep ==
  ASSUME Base, [Next]_vars, collided' = {}, Alive,
         NEW CONSTANT k, NEW CONSTANT w, NEW CONSTANT r, Traced(k, w, r),
         ForItsPeer(r), OwnIds(r)
  PROVE  Alive'
<1> USE DEF Base
<1>1. \A c \in Channels : \A x \in El(sendRing[c]) : x.n \in Made
  BY CollidedStays, RingHolds
<1>2. ASSUME NEW s \in Senders, MakeItem(s) PROVE Alive'
  <2> DEFINE n == Cardinality(Made) + 1
  <2>1. n \in Numbers \ Made
    BY <1>2, MakesNext
  <2>2. item'[s].n = n /\ \A t \in Senders \ {s} : item'[t] = item[t]
    BY <1>2 DEF TypeOK, MakeItem
  <2>3. memory'[n] = "live" /\ \A m \in Made : memory'[m] = memory[m]
    BY <1>2, <2>1 DEF TypeOK, MakeItem, Made
  <2> HIDE DEF n
  <2>4. UNCHANGED <<sendRing, stream, echo>>
    BY <1>2, SameRing DEF MakeItem, queues
  <2>5. \A c \in Channels : stream[c] # None => stream[c].n \in Made
    BY DEF Traced, Places, At
  <2>6. QED BY <1>1, <2>2, <2>3, <2>4, <2>5 DEF Alive, AllMade
<1>3. ASSUME NEW s \in Senders, Put(s) PROVE Alive'
  <2> DEFINE x == item[s]
  <2>1. x \in Items /\ x.n \in Numbers /\ via[s] \in Channels /\ k[x.n] = "item" /\ w[x.n] = s
    BY <1>3, ItemFacts DEF TypeOK, Locals, Put, Refuse, Show, InRing, Traced, Places, At
  <2>2. \A t \in Senders : item'[t] # None => item'[t] = item[t] /\ item[t].n # x.n
    BY <1>3, <2>1 DEF TypeOK, Put, Refuse, Show, Leave, Traced, Places, At
  <2>3. UNCHANGED <<stream, echo>>
    BY <1>3 DEF Put, Refuse, Show, queues
  <2>4. /\ \A m \in Numbers \ {x.n} : memory'[m] = memory[m]
        /\ \A c \in Channels : \A y \in El(sendRing'[c]) : y \in El(sendRing[c]) \/ y = x
        /\ memory' = memory \/ sendRing' = sendRing
    <3>1. CASE Refuse(s)
      BY <2>1, <3>1, SameRing DEF TypeOK, Refuse, queues
    <3>2. CASE Show(s)
      <4>1. PICK d : d = via[s]
        OBVIOUS
      <4>2. /\ d \in Channels /\ x \in Items
            /\ sendRing'[d] = Append(sendRing[d], x)
            /\ \A b \in Channels \ {d} : sendRing'[b] = sendRing[b]
        BY <3>2, <4>1, ShowIs
      <4>3. El(sendRing'[d]) = El(sendRing[d]) \cup {x}
        BY <4>2, CollidedStays, RingHolds, AppendEl
      <4>4. memory' = memory
        BY <3>2 DEF Show
      <4> HIDE DEF x
      <4>5. QED BY <4>2, <4>3, <4>4
    <3>3. QED BY <1>3, <3>1, <3>2 DEF Put
  <2>5. memory[x.n] = "live" /\ x # None
    BY <1>3, <2>1 DEF Locals, Alive, Put, Refuse, Show, InRing
  <2> HIDE DEF x
  <2>6. /\ \A c \in Channels : \A y \in El(sendRing[c]) : y.n \in Numbers \ {x.n}
        /\ \A c \in Channels : stream[c] # None => stream[c].n \in Numbers \ {x.n}
        /\ \A p \in Peers, i \in 0..MaxItems : echo[p][i] # None => echo[p][i].n \in Numbers \ {x.n}
    BY <2>1 DEF Traced, Places, QueuePlaces, EchoPlaces, At
  <2>7. \A t \in Senders : item[t] # None => item[t].n \in Numbers
    BY DEF Traced, Places, At
  <2>8. \A c \in Channels : \A y \in El(sendRing'[c]) : memory'[y.n] = "live"
    BY <2>4, <2>5, <2>6 DEF Alive
  <2>9. QED BY <2>2, <2>3, <2>4, <2>6, <2>7, <2>8 DEF Alive
<1>4. ASSUME NEW c \in Channels, WriteNext(c) PROVE Alive'
  <2> DEFINE x == Foremost(c)
             p == chanPeer[c]
             e == echo[p][x.id]
  <2>1. /\ x \in Items /\ sendRing[c] \in Seq(Items) /\ sendRing[c] # <<>>
        /\ x = Head(sendRing[c]) /\ sendRing'[c] = Tail(sendRing[c])
        /\ \A b \in Channels \ {c} : sendRing'[b] = sendRing[b]
        /\ EchoAdd(p, x) /\ Send(c, x) /\ x.n \in Made
    BY <1>4, TakeIs
  <2>2. /\ x \in El(sendRing[c]) /\ El(Tail(sendRing[c])) \subseteq El(sendRing[c])
        /\ p \in Peers /\ x.id \in 0..MaxItems
    <3>1. p \in Peers
      BY <1>4 DEF TypeOK, WriteNext, Live
    <3> HIDE DEF x
    <3>2. QED BY <2>1, <3>1, TailEl, ItemFacts
  <2>3. x.to = p /\ k[x.n] = "ring" /\ r[x.n] = x /\ x.n \in Made /\ memory[x.n] = "live"
    BY <2>2, <2>1 DEF ForItsPeer, Traced, QueuePlaces, At, Alive
  <2>4. e = None
    <3> SUFFICES ASSUME e # None PROVE FALSE
      OBVIOUS
    <3> HIDE DEF x, p
    <3>1. e.to = p /\ e.id = x.id /\ e.n \in Made
      BY <2>2 DEF ForItsPeer, AllMade
    <3>2. k[e.n] # "ring" /\ r[e.n] = e
      BY <2>2 DEF Traced, EchoPlaces
    <3>3. e.n = x.n
      BY <2>3, <3>1, <3>2 DEF OwnIds
    <3>4. QED BY <2>3, <3>2, <3>3
  <2> HIDE DEF x, p, e
  <2>5. \/ memory' = memory /\ echo' = [echo EXCEPT ![p][x.id] = x]
        \/ memory' = [memory EXCEPT ![x.n] = "unkept"] /\ echo' = echo
    BY <2>4, <2>1, EchoAddIs DEF e
  <2>6. item' = item
    BY <1>4 DEF WriteNext, locals
  <2>7. \A b \in Channels : stream'[b] # None => stream'[b] = stream[b] \/ stream'[b] = x
    BY <2>1 DEF TypeOK, Send
  <2>8. \A q \in Peers, i \in 0..MaxItems :
          echo'[q][i] = echo[q][i] \/ (echo'[q][i] = x /\ memory' = memory)
    <3>1. echo \in [Peers -> [0..MaxItems -> Items \cup {None}]]
      BY DEF TypeOK
    <3>2. QED BY <2>5, <3>1
  <2>9. \A b \in Channels : El(sendRing'[b]) \subseteq El(sendRing[b])
    BY <2>2, <2>1
  <2>10. CASE memory' = memory
    BY <2>3, <2>8, <2>9, <2>10, <2>6, <2>7 DEF Alive
  <2>11. CASE memory' = [memory EXCEPT ![x.n] = "unkept"] /\ echo' = echo
    <3>1. x.n \in Numbers /\ k[x.n] = "ring" /\ x.n \in Made
      BY <2>3 DEF Made
    <3>2. memory'[x.n] = "unkept" /\ \A m \in Numbers \ {x.n} : memory'[m] = memory[m]
      BY <2>11, <3>1 DEF TypeOK
    <3>3. /\ \A s \in Senders : item[s] # None => item[s].n \in Numbers \ {x.n}
          /\ \A p1 \in Peers, i \in 0..MaxItems :
               echo[p1][i] # None => echo[p1][i].n \in Numbers \ {x.n}
          /\ \A b \in Channels : stream[b] # None => stream[b].n \in Numbers \ {x.n}
      BY <2>3 DEF Traced, Places, EchoPlaces, At
    <3>4. \A b \in Channels : \A y \in El(sendRing'[b]) : y.n \in Numbers \ {x.n}
      <4>1. \A b \in Channels \ {c} : \A y \in El(sendRing[b]) : y.n \in Numbers /\ y.n # x.n
        BY <2>2, <2>3 DEF Traced, QueuePlaces, At
      <4>2. OneEach(sendRing[c]) /\ \A y \in El(sendRing[c]) : y.n \in Numbers
        BY DEF Traced, QueuePlaces, At
      <4>3. \A y \in El(Tail(sendRing[c])) : y.n # x.n
        BY <2>1, <4>2, TailEl
      <4>4. QED BY <2>2, <2>1, <4>1, <4>2, <4>3
    <3>5. QED BY <2>9, <2>6, <2>7, <2>11, <3>2, <3>3, <3>4 DEF Alive
  <2>12. QED BY <2>5, <2>10, <2>11
<1>5. ASSUME NEW c \in Channels, Answer(c) PROVE Alive'
  <2> DEFINE a == Head(answers[c])
             p == chanPeer[c]
             e == echo[p][a.id]
  <2>1. p \in Peers /\ a.id \in 0..MaxItems /\ a \in El(answers[c])
    <3>1. answers[c] \in Seq([n : Numbers, id : 0..MaxItems]) /\ answers[c] # <<>>
      BY <1>5 DEF TypeOK, Answer
    <3>2. Head(answers[c]) \in [n : Numbers, id : 0..MaxItems]
      BY <3>1, TailEl
    <3>3. Head(answers[c]) \in El(answers[c])
      BY <3>1, TailEl
    <3> HIDE DEF e
    <3>4. QED BY <1>5, <3>2, <3>3 DEF TypeOK, Answer, Live
  <2>2. a.n \in Made /\ k[a.n] = "handled" /\ r[a.n].id = a.id /\ r[a.n].to = p
    BY <2>1 DEF Traced, Places, EchoPlaces, ForItsPeer
  <2>3. /\ echo' = [echo EXCEPT ![p][a.id] = None]
        /\ memory' = IF e = None THEN memory ELSE [memory EXCEPT ![e.n] = "freed"]
        /\ UNCHANGED <<item, sendRing, stream>>
    BY <1>5, SameRing DEF Answer, locals
  <2> HIDE DEF a, p
  <2>4. \A q \in Peers, i \in 0..MaxItems :
          echo'[q][i] # None => echo'[q][i] = echo[q][i] /\ (q # p \/ i # a.id)
    BY <2>1, <2>3 DEF TypeOK
  <2>5. CASE e = None
    BY <2>3, <2>4, <2>5 DEF Alive
  <2>6. CASE e # None
    <3>1. e.to = p /\ e.id = a.id /\ e.n \in Made /\ r[e.n] = e
      BY <2>1, <2>6 DEF ForItsPeer, AllMade, Traced, EchoPlaces
    <3>2. e.n = a.n
      BY <2>2, <3>1 DEF OwnIds
    <3> HIDE DEF e
    <3>3. \A q \in Peers, i \in 0..MaxItems : echo'[q][i] # None =>
            echo'[q][i].n \in Numbers /\ echo'[q][i].n # e.n
      <4> SUFFICES ASSUME NEW q \in Peers, NEW i \in 0..MaxItems, echo'[q][i] # None,
                          echo[q][i].n = e.n
                   PROVE  FALSE
        BY <2>4 DEF Traced, EchoPlaces
      <4>1. echo[q][i] # None /\ (q # p \/ i # a.id)
        BY <2>4
      <4>2. r[echo[q][i].n] = echo[q][i] /\ echo[q][i].to = q /\ echo[q][i].id = i
        BY <4>1 DEF ForItsPeer, AllMade, Traced, EchoPlaces
      <4>3. QED BY <3>1, <4>1, <4>2
    <3>4. /\ \A s \in Senders : item[s] # None => item[s].n \in Numbers /\ item[s].n # e.n
          /\ \A b \in Channels : \A y \in El(sendRing[b]) : y.n \in Numbers /\ y.n # e.n
          /\ \A b \in Channels : stream[b] # None => stream[b].n \in Numbers /\ stream[b].n # e.n
      BY <2>2, <3>2 DEF Traced, Places, QueuePlaces, At
    <3>5. \A m \in Numbers : m # e.n => memory'[m] = memory[m]
      BY <2>3, <2>6 DEF TypeOK
    <3>6. QED BY <2>3, <2>4, <3>3, <3>4, <3>5 DEF Alive
  <2>7. QED BY <2>5, <2>6
<1>6. ASSUME NEW p \in Peers, NEW j \in 0..MaxItems, Expire(p, j) PROVE Alive'
  <2> DEFINE e == echo[p][j]
  <2>1. e # None /\ e.to = p /\ e.id = j /\ e.n \in Made /\ r[e.n] = e
        /\ k[e.n] \in {"stream", "wire", "handled"}
    BY <1>6 DEF Expire, ForItsPeer, AllMade, Traced, EchoPlaces
  <2>2. /\ echo' = [echo EXCEPT ![p][j] = None]
        /\ memory' = [memory EXCEPT ![e.n] = "expired"]
        /\ UNCHANGED <<item, sendRing, stream>>
    BY <1>6, SameRing DEF Expire, locals
  <2>3. \A q \in Peers, i \in 0..MaxItems :
          echo'[q][i] # None => echo'[q][i] = echo[q][i] /\ (q # p \/ i # j)
    BY <2>2 DEF TypeOK
  <2> HIDE DEF e
  <2>4. \A q \in Peers, i \in 0..MaxItems : echo'[q][i] # None =>
          echo'[q][i].n \in Numbers /\ echo'[q][i].n # e.n
    <3> SUFFICES ASSUME NEW q \in Peers, NEW i \in 0..MaxItems, echo'[q][i] # None,
                        echo[q][i].n = e.n
                 PROVE  FALSE
      BY <2>3 DEF Traced, EchoPlaces
    <3>1. echo[q][i] # None /\ (q # p \/ i # j)
      BY <2>3
    <3>2. r[echo[q][i].n] = echo[q][i] /\ echo[q][i].to = q /\ echo[q][i].id = i
      BY <3>1 DEF ForItsPeer, AllMade, Traced, EchoPlaces
    <3>3. QED BY <2>1, <3>1, <3>2
  <2>5. /\ \A s \in Senders : item[s] # None => item[s].n \in Numbers /\ item[s].n # e.n
        /\ \A b \in Channels : \A y \in El(sendRing[b]) : y.n \in Numbers /\ y.n # e.n
        /\ \A b \in Channels : stream[b] # None => stream[b].n \in Numbers
    BY <2>1 DEF Traced, Places, QueuePlaces, At
  <2>6. /\ \A m \in Numbers : m # e.n => memory'[m] = memory[m]
        /\ \A m \in Numbers : memory'[m] = memory[m] \/ memory'[m] = "expired"
    BY <2>2 DEF TypeOK
  <2>7. QED BY <2>2, <2>3, <2>4, <2>5, <2>6 DEF Alive
<1>7. ASSUME NEW c \in Channels, Disconnect(c) \/ WriteRest(c) PROVE Alive'
  <2>1. UNCHANGED <<item, memory, sendRing, echo>>
    BY <1>7, SameRing DEF Disconnect, ResetSend, WriteRest, locals
  <2>2. \A b \in Channels : stream'[b] = None \/ stream'[b] = stream[b]
    BY <1>7 DEF Disconnect, ResetSend, WriteRest, Send, TypeOK
  <2>3. QED BY <2>1, <2>2 DEF Alive
<1>8. ASSUME \A s \in Senders : ~MakeItem(s) /\ ~Put(s),
             \A c \in Channels : ~WriteNext(c) /\ ~WriteRest(c) /\ ~Answer(c) /\ ~Disconnect(c),
             \A p \in Peers, i \in 0..MaxItems : ~Expire(p, i)
      PROVE  Alive'
  <2>1. UNCHANGED <<item, memory, stream, echo>>
    BY <1>8 DEF Next, Monitor, Sending, Put, Look, Claim, Fill, Epoll, MonLock, MonSkip,
      MonDial, MonUnlock, ReadServer, Increase, Remote, vars, locals, queues
  <2>2. sendRing' = sendRing
    BY <1>8, RingKept DEF Put
  <2>3. QED BY <2>1, <2>2 DEF Alive
<1>9. QED BY <1>2, <1>3, <1>4, <1>5, <1>6, <1>7, <1>8

-----------------------------------------------------------------------------
(***************************************************************************)
(* The invariant as a whole.                                               *)
(***************************************************************************)
Whole == collided = {} => \E k, w, r : Traced(k, w, r) /\ (Clean => Tidy(r))

\* Whole holds at first.
LEMMA InitWhole == Init => Whole
<1> SUFFICES ASSUME Init PROVE Whole
  OBVIOUS
<1> DEFINE x == [n |-> 1, id |-> 0, type |-> "data", to |-> 0]
           r == [n \in Numbers |-> x]
<1>1. x \in Items
  BY DEF Items, Numbers, Peers
<1> HIDE DEF x
<1>2. Traced([n \in Numbers |-> "none"], [n \in Numbers |-> 1], r)
  BY <1>1, InitTraced
<1>3. Tidy(r)
  <2>1. Made = {}
    BY DEF Init, Made
  <2>2. \A c \in Channels : El(sendRing[c]) = {}
    BY InitRings
  <2>3. Alive
    BY <2>2 DEF Init, Alive
  <2>4. ForItsPeer(r)
    BY <2>2, EmptyEl DEF Init, ForItsPeer
  <2>5. OwnIds(r)
    BY <2>1 DEF OwnIds
  <2>6. QED BY <2>3, <2>4, <2>5 DEF Tidy
<1>4. QED BY <1>2, <1>3 DEF Whole

\* In a clean run what holds of the items goes on holding.
LEMMA TidyStep ==
  ASSUME Base, [Next]_vars, Clean', collided' = {},
         NEW CONSTANT k, NEW CONSTANT w, NEW CONSTANT r, Traced(k, w, r), Tidy(r)
  PROVE  /\ ForItsPeer(r)' /\ Alive'
         /\ (\A s \in Senders : ~MakeItem(s)) => Tidy(r)'
<1>1. ForItsPeer(r)'
  BY ForItsPeerStep DEF Tidy
<1>2. Alive'
  BY AliveStep DEF Tidy
<1>3. (\A s \in Senders : ~MakeItem(s)) => OwnIds(r)'
  BY OwnIdsStep, CleanIsAlone DEF Tidy, Traced, Places
<1>4. QED BY <1>1, <1>2, <1>3 DEF Tidy

\* Whole goes on holding.
LEMMA WholeStep == Base /\ Whole /\ [Next]_vars => Whole'
<1> SUFFICES ASSUME Base, Whole, [Next]_vars, collided' = {} PROVE Whole'
  BY DEF Whole
<1>1. PICK k, w, r : Traced(k, w, r) /\ (Clean => Tidy(r))
  BY CollidedStays DEF Whole
<1>2. Clean' => Clean /\ Tidy(r)
  BY <1>1, CleanStep
<1>3. Clean' => /\ ForItsPeer(r)' /\ Alive'
                /\ (\A s \in Senders : ~MakeItem(s)) => Tidy(r)'
  BY <1>1, <1>2, TidyStep
<1>4. ASSUME NEW s \in Senders, MakeItem(s) PROVE Whole'
  <2> DEFINE n == Cardinality(Made) + 1
             x == item'[s]
             r2 == [r EXCEPT ![n] = x]
  <2>1. PICK m : m = n
    OBVIOUS
  <2>2. PICK y : y = x
    OBVIOUS
  <2>3. Traced([k EXCEPT ![m] = "item"], [w EXCEPT ![m] = s], [r EXCEPT ![m] = y])'
    BY <1>1, <1>4, <2>1, <2>2, MakeTraced
  <2>4. Clean' => OwnIds([r EXCEPT ![m] = y])'
    BY <1>1, <1>2, <1>4, <2>1, <2>2, OwnIdsMake, CleanIsAlone DEF Tidy, Traced, Places
  <2>5. Clean' => ForItsPeer([r EXCEPT ![m] = y])'
    <3>1. m \in Numbers \ Made
      BY <1>4, <2>1, MakesNext
    <3>2. \A c \in Channels : \A a \in El(answers[c]) : a.n # m /\ a.n \in Numbers
      BY <1>1, <3>1 DEF Traced, Places, EchoPlaces
    <3>3. answers' = answers
      BY <1>4 DEF MakeItem, remote
    <3>4. \A l \in Numbers : l # m => [r EXCEPT ![m] = y][l] = r[l]
      BY <1>1 DEF Traced, Places
    <3>5. QED BY <1>3, <3>2, <3>3, <3>4 DEF ForItsPeer
  <2>6. Clean' => Tidy([r EXCEPT ![m] = y])'
    BY <1>3, <2>4, <2>5 DEF Tidy
  <2>7. QED BY <2>3, <2>6 DEF Whole
<1>5. ASSUME \A s \in Senders : ~MakeItem(s) PROVE Whole'
  <2>1. Clean' => Tidy(r)'
    BY <1>3, <1>5
  <2>2. \E k2, w2 : Traced(k2, w2, r)'
    <3>1. ASSUME NEW s \in Senders, Put(s) PROVE \E k2, w2 : Traced(k2, w2, r)'
      <4>1. PICK n, c : n = item[s].n /\ c = via[s]
        OBVIOUS
      <4>2. Traced([k EXCEPT ![n] = "ring"], [w EXCEPT ![n] = c], r)'
        BY <1>1, <3>1, <4>1, PutTraced
      <4>3. QED BY <4>2
    <3>2. ASSUME NEW c \in Channels, Remote(c) PROVE \E k2, w2 : Traced(k2, w2, r)'
      <4>1. PICK n, p : n = Head(wire[c]).n /\ p = chanPeer[c]
        OBVIOUS
      <4>2. Traced([k EXCEPT ![n] = "handled"], [w EXCEPT ![n] = p], r)'
        BY <1>1, <3>2, <4>1, RemoteTraced
      <4>3. QED BY <4>2
    <3>3. ASSUME NEW c \in Channels, WriteNext(c) \/ WriteRest(c)
          PROVE  \E k2, w2 : Traced(k2, w2, r)'
      <4>1. PICK x : \/ WriteNext(c) /\ x = Foremost(c)
                     \/ WriteRest(c) /\ x = stream[c]
        BY <3>3
      <4>2. PICK kind : kind = Sent(c)
        OBVIOUS
      <4>3. Traced([k EXCEPT ![x.n] = kind], w, r)'
        BY <1>1, <4>1, <4>2, WriteTraced
      <4>4. QED BY <4>3
    <3>4. ASSUME \A s \in Senders : ~Put(s),
                 \A c \in Channels : ~WriteNext(c) /\ ~WriteRest(c) /\ ~Remote(c)
          PROVE  Traced(k, w, r)'
      BY <1>1, <1>5, <3>4, OthersFewer, FewerTraced
    <3>5. QED BY <3>1, <3>2, <3>3, <3>4
  <2>3. QED BY <2>1, <2>2 DEF Whole
<1>6. QED BY <1>4, <1>5

\* Every item is at one place on its way.
LEMMA WholeHolds == Spec => []Whole
  BY InitWhole, WholeStep, BaseHolds, PTL DEF Spec

\* However sends, deaths and reconnections interleave, the other end's recvFunc
\* gets no item twice while no two producers have been in one ring at once.
THEOREM DeliveredOnce == Spec => []AtMostOnce
<1>1. Base /\ Whole => AtMostOnce
  <2> SUFFICES ASSUME Base, Whole, collided = {}, NEW p \in Peers, NEW q \in Peers,
                      NEW i \in 1..Len(got[p]), NEW j \in 1..Len(got[q]),
                      got[p][i].n = got[q][j].n
               PROVE  p = q /\ i = j
    BY DEF AtMostOnce
  <2>1. PICK k, w, r : Traced(k, w, r)
    BY DEF Whole
  <2>2. got[p] \in Seq(Items) /\ got[q] \in Seq(Items)
    BY DEF Base, TypeOK
  <2>3. got[p][i] \in El(got[p]) /\ got[q][j] \in El(got[q])
    BY <2>2, SeqEl
  <2>4. w[got[p][i].n] = p /\ w[got[q][j].n] = q
    BY <2>1, <2>3 DEF Traced, QueuePlaces, At
  <2>5. p = q
    BY <2>4
  <2>6. OneEach(got[p])
    BY <2>1 DEF Traced, QueuePlaces
  <2>7. QED BY <2>5, <2>6 DEF OneEach
<1>2. QED BY <1>1, BaseHolds, WholeHolds, PTL

\* While no two sends overlap and no channel goes back with items on it, what a
\* peer's recvFunc gets was meant for that peer.
THEOREM AddressedWhenClean == Spec => []CleanAddressed
<1>1. Base /\ Whole => CleanAddressed
  <2> SUFFICES ASSUME Base, Whole, Clean, NEW p \in Peers, NEW i \in 1..Len(got[p])
               PROVE  got[p][i].to = p
    BY DEF CleanAddressed, Addressed
  <2>1. PICK r : ForItsPeer(r)
    BY DEF Base, Alone, Clean, Whole, Tidy
  <2>2. got[p][i] \in El(got[p])
    BY SeqEl DEF Base, TypeOK
  <2>3. QED BY <2>1, <2>2 DEF ForItsPeer
<1>2. QED BY <1>1, BaseHolds, WholeHolds, PTL

\* Under the same conditions no item is freed that a ring, a send stream or the
\* echo ring still points to: hsHashAdd finds no item to overwrite.
THEOREM NothingDangles == Spec => []NoDangling
<1>1. Base /\ Whole => NoDangling
  <2> SUFFICES ASSUME Base, Whole, Clean
               PROVE  /\ \A c \in Channels :
                           /\ stream[c] # None => memory[stream[c].n] # "freed"
                           /\ \A i \in 1..Len(sendRing[c]) : memory[sendRing[c][i].n] = "live"
                      /\ \A p \in Peers : \A i \in Pending(p) : memory[echo[p][i].n] = "live"
    BY DEF NoDangling
  <2>1. Alive /\ collided = {}
    BY DEF Base, Alone, Clean, Whole, Tidy
  <2>2. \A c \in Channels : \A i \in 1..Len(sendRing[c]) : sendRing[c][i] \in El(sendRing[c])
    BY DEF El
  <2>3. QED BY <2>1, <2>2 DEF Alive, Pending
<1>2. QED BY <1>1, BaseHolds, WholeHolds, PTL

\* Under the same conditions an answer takes out the item it answers, or finds
\* none: ids of one peer are not shared.
THEOREM AnswersMatch == Spec => []AnswerMatches
<1>1. Base /\ Whole => AnswerMatches
  <2> SUFFICES ASSUME Base, Whole, Clean, NEW c \in Channels, chanPeer[c] # None,
                      NEW i \in 1..Len(answers[c]),
                      echo[chanPeer[c]][answers[c][i].id] # None
               PROVE  echo[chanPeer[c]][answers[c][i].id].n = answers[c][i].n
    BY DEF AnswerMatches
  <2>1. PICK k, w, r : Traced(k, w, r) /\ Tidy(r)
    BY DEF Base, Alone, Clean, Whole
  <2>2. PICK a : a = answers[c][i]
    OBVIOUS
  <2>3. PICK p : p = chanPeer[c] /\ p \in Peers
    BY DEF Base, TypeOK
  <2>4. a \in El(answers[c]) /\ a.id \in 0..MaxItems
    <3>1. answers[c] \in Seq([n : Numbers, id : 0..MaxItems])
      BY DEF Base, TypeOK
    <3>2. a \in El(answers[c]) /\ a \in [n : Numbers, id : 0..MaxItems]
      BY <2>2, <3>1, SeqEl
    <3>3. QED BY <3>2
  <2>5. a.n \in Made /\ r[a.n].id = a.id /\ r[a.n].to = p
    BY <2>1, <2>3, <2>4 DEF Traced, Places, EchoPlaces, Tidy, ForItsPeer
  <2>6. PICK e : e = echo[p][a.id] /\ e # None
    BY <2>2, <2>3
  <2>7. e.n \in Made /\ r[e.n] = e /\ e.id = a.id /\ e.to = p
    BY <2>1, <2>3, <2>4, <2>6 DEF Base, AllMade, Traced, EchoPlaces, Tidy, ForItsPeer
  <2>8. e.n = a.n
    BY <2>1, <2>5, <2>7 DEF Tidy, OwnIds
  <2>9. QED BY <2>2, <2>3, <2>6, <2>8
<1>2. QED BY <1>1, BaseHolds, WholeHolds, PTL
=============================================================================
