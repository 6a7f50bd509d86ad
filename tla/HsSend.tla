------------------------------- MODULE HsSend -------------------------------
(***************************************************************************)
(* The sending half of one HsMod (hs/HsMod.c): sendOnePeer, run by the     *)
(* application's threads and by the monitor thread for REGISTER, puts items *)
(* into a channel's sendRing; the epoll thread's onWrite takes them out,   *)
(* enters them in the peer's echoRing and sends them; the peer answers each *)
(* item and the answer takes its entry out again.                          *)
(*                                                                         *)
(* sendRing is an rte_ring made for one producer and one consumer          *)
(* (HsRing.c:11), and it has several producers.  Its positions count up    *)
(* for ever, a position's slot is its remainder, and what a producer does  *)
(* is in steps: it reads prod.head, claims the position after it, writes   *)
(* the slot and moves prod.tail.  A position is 32 bits wide in the code;  *)
(* here the consumer, once prod.tail is behind it, goes on for Beyond      *)
(* positions.                                                              *)
(*                                                                         *)
(* The channels are dialled ones.  Taking one from the pool, publishing it *)
(* and putting it back are steps of HsConn; here each is one action, made  *)
(* under connectionMutex.  The other end runs onGetPacket on the channel   *)
(* it accepted; its answers come in order and none is lost while the       *)
(* connection lives.  What a connection still carries when it dies is lost *)
(* here: the other end may handle it, but no answer would come back.       *)
(***************************************************************************)
EXTENDS Integers, Sequences, FiniteSets

CONSTANTS Apps,        \* application threads that call hsModSend
          Mon,         \* the monitor thread
          PeerCount,   \* peers
          ChanCount,   \* channels that accepted connections leave in the pool
          RingSize,    \* slots of a sendRing; it holds one item less
          EchoCap,     \* entries an echoRing holds
          Beyond,      \* bound: positions the consumer is past prod.tail
          MaxItems,    \* bound: items made
          None         \* NULL

ASSUME SendersAssumption == Mon \notin Apps /\ IsFiniteSet(Apps)
ASSUME CountAssumption == /\ PeerCount \in Nat \ {0} /\ ChanCount \in Nat \ {0}
                          /\ RingSize \in Nat \ {0, 1} /\ EchoCap \in Nat \ {0}
                          /\ MaxItems \in Nat \ {0} /\ Beyond \in Nat

Peers == 0..(PeerCount - 1)
Channels == 1..ChanCount
Senders == Apps \cup {Mon}
Numbers == 1..MaxItems

\* An item: which malloc it is, the id of its header, its type, and the peer it
\* is meant for (not a field: the caller's argument).
Items == [n : Numbers, id : 0..MaxItems, type : {"register", "data"}, to : Peers]

ASSUME NoneAssumption == None \notin Nat /\ None \notin Items

VARIABLES locked,    \* the monitor holds connectionMutex
          cur,       \* hsMonitorCheckConnection's cur
          pool,      \* channelRing
          server,    \* peer->server
          chanPeer,  \* channel->peer
          head,      \* channel->sendRing: prod.head,
          tail,      \* prod.tail,
          cons,      \* cons.head and cons.tail,
          slot,      \* and its slots
          stream,    \* the item channel->sendStream has not sent all of, or None
          echo,      \* peer->echoRing: id -> item or None
          idCur,     \* peer->idCur
          memory,    \* malloc's view of an item: "none", "live", "freed", or
                     \* "refused", "unkept" and "expired": dropped by the
                     \* program, not freed
          pc, to, via, item, at,  \* each sender's step and locals; at is the
                     \* prod.head it read
          wire,      \* items on a channel's connection, not yet handled
          answers,   \* ids answered, on their way back
          known,     \* the other end has registered us on the connection
          got,       \* what the other end's recvFunc got, by peer
          overlap,   \* history: two threads have been in sendOnePeer's lines
                     \* 47-53 at once
          leftover,  \* history: a channel went back to the pool with items in
                     \* its sendRing or on their way to it
          collided,  \* history: the channels in whose sendRing two producers
                     \* have been at once
          noRegister \* history: the channels whose connection got no REGISTER,
                     \* since sendRing was full

locals  == <<pc, to, via, item, at>>
channel == <<pool, server, chanPeer>>
ring    == <<head, tail, cons, slot>>
queues  == <<ring, stream, echo>>
remote  == <<wire, answers, known, got>>
history == <<overlap, leftover, collided, noRegister>>
vars    == <<locked, cur, channel, queues, idCur, memory, locals, remote, history>>

TypeOK ==
  /\ locked \in BOOLEAN /\ cur \in 0..PeerCount
  /\ pool \in Seq(Channels)
  /\ server \in [Peers -> Channels \cup {None}]
  /\ chanPeer \in [Channels -> Peers \cup {None}]
  /\ head \in [Channels -> Nat] /\ tail \in [Channels -> Nat] /\ cons \in [Channels -> Nat]
  /\ slot \in [Channels -> [0..(RingSize - 1) -> Items \cup {None}]]
  /\ stream \in [Channels -> Items \cup {None}]
  /\ echo \in [Peers -> [0..MaxItems -> Items \cup {None}]]
  /\ idCur \in [Peers -> 0..MaxItems]
  /\ memory \in [Numbers -> {"none", "live", "freed", "refused", "unkept", "expired"}]
  /\ pc \in [Senders -> {"idle", "inc", "get", "look", "claim", "fill", "show"}]
  /\ to \in [Senders -> Peers \cup {None}]
  /\ via \in [Senders -> Channels \cup {None}]
  /\ item \in [Senders -> Items \cup {None}]
  /\ at \in [Senders -> Nat]
  /\ wire \in [Channels -> Seq(Items)]
  /\ answers \in [Channels -> Seq([n : Numbers, id : 0..MaxItems])]
  /\ known \in [Channels -> BOOLEAN]
  /\ got \in [Peers -> Seq(Items)]
  /\ overlap \in BOOLEAN /\ leftover \in BOOLEAN
  /\ collided \subseteq Channels /\ noRegister \subseteq Channels

Init ==
  /\ locked = FALSE /\ cur = 0
  /\ pool = [i \in Channels |-> i]
  /\ server = [p \in Peers |-> None] /\ chanPeer = [c \in Channels |-> None]
  /\ head = [c \in Channels |-> 0] /\ tail = [c \in Channels |-> 0]
  /\ cons = [c \in Channels |-> 0]
  /\ slot = [c \in Channels |-> [i \in 0..(RingSize - 1) |-> None]]
  /\ stream = [c \in Channels |-> None]
  /\ echo = [p \in Peers |-> [i \in 0..MaxItems |-> None]]
  /\ idCur = [p \in Peers |-> 0]
  /\ memory = [n \in Numbers |-> "none"]
  /\ pc = [s \in Senders |-> "idle"] /\ to = [s \in Senders |-> None]
  /\ via = [s \in Senders |-> None] /\ item = [s \in Senders |-> None]
  /\ at = [s \in Senders |-> 0]
  /\ wire = [c \in Channels |-> <<>>] /\ answers = [c \in Channels |-> <<>>]
  /\ known = [c \in Channels |-> FALSE] /\ got = [p \in Peers |-> <<>>]
  /\ overlap = FALSE /\ leftover = FALSE /\ collided = {} /\ noRegister = {}

-----------------------------------------------------------------------------
(***************************************************************************)
(* sendOnePeer.                                                            *)
(***************************************************************************)
InRing(s) == pc[s] \in {"claim", "fill", "show"}
Busy(s) == InRing(s) \/ pc[s] \in {"get", "look"}
Others(s) == {t \in Senders \ {s} : Busy(t)}

Made == {n \in Numbers : memory[n] # "none"}
\* Bound: a number is kept for each item on its way, and for a REGISTER.
Promised == {s \in Senders : pc[s] = "get" \/ (s = Mon /\ pc[s] = "inc")}
RoomToMake == Cardinality(Made) + Cardinality(Promised) < MaxItems

\* The server channel is read without the mutex; a peer that has none gets nothing.
ReadServer(a, p) ==
  /\ a \in Apps /\ pc[a] = "idle" /\ server[p] # None
  /\ to' = [to EXCEPT ![a] = p] /\ via' = [via EXCEPT ![a] = server[p]]
  /\ pc' = [pc EXCEPT ![a] = "inc"]
  /\ UNCHANGED <<locked, cur, channel, queues, idCur, memory, item, at, remote, history>>

\* Mutant: the id is not increased.
Increase_Missing(s) ==
  /\ pc[s] = "inc"
  /\ s = Mon \/ RoomToMake
  /\ overlap' = (overlap \/ Others(s) # {})
  /\ pc' = [pc EXCEPT ![s] = "get"]
  /\ UNCHANGED <<locked, cur, channel, queues, idCur, memory, to, via, item, at, remote,
                 leftover, collided, noRegister>>

\* Mutant: the id is increased twice.
Increase_Twice(s) ==
  /\ pc[s] = "inc"
  /\ s = Mon \/ RoomToMake
  /\ overlap' = (overlap \/ Others(s) # {})
  /\ idCur' = [idCur EXCEPT ![to[s]] = @ + 2]
  /\ pc' = [pc EXCEPT ![s] = "get"]
  /\ UNCHANGED <<locked, cur, channel, queues, memory, to, via, item, at, remote,
                 leftover, collided, noRegister>>

\* hsAtomic32Increase ...
Increase(s) ==
  /\ pc[s] = "inc"
  /\ s = Mon \/ RoomToMake
  /\ overlap' = (overlap \/ Others(s) # {})
  /\ idCur' = [idCur EXCEPT ![to[s]] = @ + 1]
  /\ pc' = [pc EXCEPT ![s] = "get"]
  /\ UNCHANGED <<locked, cur, channel, queues, memory, to, via, item, at, remote,
                 leftover, collided, noRegister>>

\* ... and hsAtomic32Get are two operations.
MakeItem(s) ==
  /\ pc[s] = "get"
  /\ LET n == Cardinality(Made) + 1
     IN  /\ item' = [item EXCEPT ![s] =
                       [n |-> n, id |-> idCur[to[s]], to |-> to[s],
                        type |-> IF s = Mon THEN "register" ELSE "data"]]
         /\ memory' = [memory EXCEPT ![n] = "live"]
  /\ pc' = [pc EXCEPT ![s] = "look"]
  /\ UNCHANGED <<locked, cur, channel, queues, idCur, to, via, at, remote, history>>

\* sendOnePeer is done with the item; the monitor goes on to the next peer.
Leave(s) ==
  /\ pc' = [pc EXCEPT ![s] = "idle"] /\ to' = [to EXCEPT ![s] = None]
  /\ via' = [via EXCEPT ![s] = None] /\ item' = [item EXCEPT ![s] = None]
  /\ at' = [at EXCEPT ![s] = 0]
  /\ cur' = IF s = Mon THEN cur + 1 ELSE cur

\* hsRingIn: prod.head is read.
Look(s) ==
  /\ pc[s] = "look"
  /\ at' = [at EXCEPT ![s] = head[via[s]]]
  /\ collided' = IF \E t \in Senders \ {s} : InRing(t) /\ via[t] = via[s]
                 THEN collided \cup {via[s]} ELSE collided
  /\ pc' = [pc EXCEPT ![s] = "claim"]
  /\ UNCHANGED <<locked, cur, channel, queues, idCur, memory, to, via, item, remote,
                 overlap, leftover, noRegister>>

\* A full ring refuses the item; sendOnePeer does not look, and nobody frees it.
Refuse(s) ==
  /\ pc[s] = "claim" /\ at[s] >= cons[via[s]] + RingSize - 1
  /\ memory' = [memory EXCEPT ![item[s].n] = "refused"]
  /\ noRegister' = IF s = Mon THEN noRegister \cup {via[s]} ELSE noRegister
  /\ Leave(s)
  /\ UNCHANGED <<locked, channel, queues, idCur, remote, overlap, leftover, collided>>

\* prod.head, prod.head and the slot, and prod.tail, are written without a look at
\* what another producer has written there since.
Claim(s) ==
  /\ pc[s] = "claim" /\ at[s] < cons[via[s]] + RingSize - 1
  /\ head' = [head EXCEPT ![via[s]] = at[s] + 1]
  /\ pc' = [pc EXCEPT ![s] = "fill"]
  /\ UNCHANGED <<locked, cur, channel, tail, cons, slot, stream, echo, idCur, memory,
                 to, via, item, at, remote, history>>

Fill(s) ==
  /\ pc[s] = "fill"
  /\ slot' = [slot EXCEPT ![via[s]][at[s] % RingSize] = item[s]]
  /\ pc' = [pc EXCEPT ![s] = "show"]
  /\ UNCHANGED <<locked, cur, channel, head, tail, cons, stream, echo, idCur, memory,
                 to, via, item, at, remote, history>>

Show(s) ==
  /\ pc[s] = "show"
  /\ tail' = [tail EXCEPT ![via[s]] = at[s] + 1]
  /\ Leave(s)
  /\ UNCHANGED <<locked, channel, head, cons, slot, stream, echo, idCur, memory,
                 remote, history>>

-----------------------------------------------------------------------------
(***************************************************************************)
(* hsMonitorCheckConnection.                                               *)
(***************************************************************************)
MonLock ==
  /\ ~locked /\ locked' = TRUE /\ cur' = 0
  /\ UNCHANGED <<channel, queues, idCur, memory, locals, remote, history>>

\* The peer has a channel, or it cannot be reached, or the pool is empty.
MonSkip ==
  /\ locked /\ pc[Mon] = "idle" /\ cur < PeerCount
  /\ cur' = cur + 1
  /\ UNCHANGED <<locked, channel, queues, idCur, memory, locals, remote, history>>

MonDial ==
  /\ locked /\ pc[Mon] = "idle" /\ cur < PeerCount
  /\ server[cur] = None /\ pool # <<>> /\ RoomToMake
  /\ LET c == Head(pool)
     IN  /\ server' = [server EXCEPT ![cur] = c]
         /\ chanPeer' = [chanPeer EXCEPT ![c] = cur]
         /\ via' = [via EXCEPT ![Mon] = c]
  /\ pool' = Tail(pool)
  /\ to' = [to EXCEPT ![Mon] = cur]
  /\ pc' = [pc EXCEPT ![Mon] = "inc"]
  /\ UNCHANGED <<locked, cur, queues, idCur, memory, item, at, remote, history>>

\* Mutant: the mutex is not released at the end of a pass.
MonUnlock_Forgets ==
  /\ locked /\ pc[Mon] = "idle" /\ cur = PeerCount
  /\ UNCHANGED vars

MonUnlock ==
  /\ locked /\ pc[Mon] = "idle" /\ cur = PeerCount
  /\ locked' = FALSE
  /\ UNCHANGED <<cur, channel, queues, idCur, memory, locals, remote, history>>

-----------------------------------------------------------------------------
(***************************************************************************)
(* The epoll thread: onWrite, onGetPacket, onDisconnect and the time-out   *)
(* of echoes.  onWrite and onDisconnect take connectionMutex, so they do   *)
(* not run during a pass of the monitor.                                   *)
(***************************************************************************)
Live(c) == ~locked /\ chanPeer[c] # None

Pending(p) == {i \in 0..MaxItems : echo[p][i] # None}

\* hsHashAdd frees the item that has the same id; a full hash refuses the new one,
\* and onWrite does not look.
EchoAdd(p, x) ==
  LET old == echo[p][x.id]
  IN  IF old = None /\ Cardinality(Pending(p)) = EchoCap
      THEN memory' = [memory EXCEPT ![x.n] = "unkept"] /\ UNCHANGED echo
      ELSE /\ echo' = [echo EXCEPT ![p][x.id] = x]
           /\ memory' = IF old = None THEN memory ELSE [memory EXCEPT ![old.n] = "freed"]

\* Mutant: send has taken all of x, and the send stream may still hold it.
Send_Repeats(c, x) ==
  \/ wire' = [wire EXCEPT ![c] = Append(@, x)] /\ stream' = [stream EXCEPT ![c] = None]
  \/ wire' = [wire EXCEPT ![c] = Append(@, x)] /\ stream' = [stream EXCEPT ![c] = x]

\* send takes all of x, or it takes a part or fails and is called again later.
Send(c, x) ==
  \/ wire' = [wire EXCEPT ![c] = Append(@, x)] /\ stream' = [stream EXCEPT ![c] = None]
  \/ UNCHANGED wire /\ stream' = [stream EXCEPT ![c] = x]

\* hsRingOut takes the item of the next position, whatever was written there last:
\* it compares the positions for equality only.
Foremost(c) == slot[c][cons[c] % RingSize]
Take(c) ==
  /\ tail[c] # cons[c] /\ cons[c] < tail[c] + Beyond
  /\ cons' = [cons EXCEPT ![c] = @ + 1]
  /\ UNCHANGED <<head, tail, slot>>

\* onWrite begins the next item (NULL is taken for none) ...
WriteNext(c) ==
  /\ Live(c) /\ stream[c] = None
  /\ Take(c)
  /\ IF Foremost(c) = None
     THEN UNCHANGED <<echo, memory, wire, stream>>
     ELSE EchoAdd(chanPeer[c], Foremost(c)) /\ Send(c, Foremost(c))
  /\ UNCHANGED <<locked, cur, channel, idCur, locals, answers, known, got, history>>

\* ... or goes on with the one it has begun.
WriteRest(c) ==
  /\ Live(c) /\ stream[c] # None
  /\ Send(c, stream[c])
  /\ UNCHANGED <<locked, cur, channel, ring, echo, idCur, memory, locals,
                 answers, known, got, history>>

\* onGetPacket, which holds no mutex: an answer takes the echo with its id out and
\* frees it.
Answer(c) ==
  /\ chanPeer[c] # None /\ answers[c] # <<>>
  /\ LET p == chanPeer[c]
         e == echo[p][Head(answers[c]).id]
     IN  /\ echo' = [echo EXCEPT ![p][Head(answers[c]).id] = None]
         /\ memory' = IF e = None THEN memory ELSE [memory EXCEPT ![e.n] = "freed"]
  /\ answers' = [answers EXCEPT ![c] = Tail(@)]
  /\ UNCHANGED <<locked, cur, channel, ring, stream, idCur, locals, wire, known,
                 got, history>>

\* Mutant: the item of an echo that is too old is freed.
Expire_Frees(p, i) ==
  /\ echo[p][i] # None
  /\ echo' = [echo EXCEPT ![p][i] = None]
  /\ memory' = [memory EXCEPT ![echo[p][i].n] = "freed"]
  /\ UNCHANGED <<locked, cur, channel, ring, stream, idCur, locals, remote, history>>

\* hsEchoRingIterate: an echo older than 60 s is taken out, its item not freed.
Expire(p, i) ==
  /\ echo[p][i] # None
  /\ echo' = [echo EXCEPT ![p][i] = None]
  /\ memory' = [memory EXCEPT ![echo[p][i].n] = "expired"]
  /\ UNCHANGED <<locked, cur, channel, ring, stream, idCur, locals, remote, history>>

\* Mutant: the owner keeps its server channel.
ForgetServer_Missing(c) == c \in Channels /\ UNCHANGED server

ForgetServer(c) == server' = [server EXCEPT ![chanPeer[c]] = None]

\* Mutant: the ring is emptied and its items are not freed.
ResetSend_Drains(c) ==
  /\ stream' = [stream EXCEPT ![c] = None]
  /\ cons' = [cons EXCEPT ![c] = tail[c]] /\ UNCHANGED <<head, tail, slot>>

\* hsChannelReset does not touch sendRing.
ResetSend(c) == stream' = [stream EXCEPT ![c] = None] /\ UNCHANGED ring

\* onDisconnect: the channel goes back to the pool; its sendRing is left as it is.
Disconnect(c) ==
  /\ Live(c)
  /\ ForgetServer(c)
  /\ chanPeer' = [chanPeer EXCEPT ![c] = None]
  /\ ResetSend(c)
  /\ pool' = Append(pool, c)
  /\ leftover' = (leftover \/ tail[c] # cons[c] \/ \E s \in Senders : via[s] = c)
  /\ wire' = [wire EXCEPT ![c] = <<>>] /\ answers' = [answers EXCEPT ![c] = <<>>]
  /\ known' = [known EXCEPT ![c] = FALSE]
  /\ noRegister' = noRegister \ {c}
  /\ UNCHANGED <<locked, cur, echo, idCur, memory, locals, got, overlap, collided>>

-----------------------------------------------------------------------------
(***************************************************************************)
(* The other end of the connection: onGetPacket on an accepted channel.    *)
(***************************************************************************)
\* Before REGISTER every item is thrown away; after it, each one is answered
\* and, if it is data, handed to recvFunc.
Remote(c) ==
  /\ wire[c] # <<>>
  /\ wire' = [wire EXCEPT ![c] = Tail(@)]
  /\ LET x == Head(wire[c])
         heard == known[c] \/ x.type = "register"
     IN  /\ known' = [known EXCEPT ![c] = heard]
         /\ answers' = IF heard
                       THEN [answers EXCEPT ![c] = Append(@, [n |-> x.n, id |-> x.id])]
                       ELSE answers
         /\ got' = IF known[c] /\ x.type = "data"
                   THEN [got EXCEPT ![chanPeer[c]] = Append(@, x)] ELSE got
  /\ UNCHANGED <<locked, cur, channel, queues, idCur, memory, locals, history>>

Monitor == MonLock \/ MonSkip \/ MonDial \/ MonUnlock
Sending(s) == \/ Increase(s) \/ MakeItem(s)
              \/ Look(s) \/ Refuse(s) \/ Claim(s) \/ Fill(s) \/ Show(s)
Epoll(c) == WriteNext(c) \/ WriteRest(c) \/ Answer(c) \/ Disconnect(c)

Next ==
  \/ Monitor
  \/ \E a \in Apps, p \in Peers : ReadServer(a, p)
  \/ \E s \in Senders : Sending(s)
  \/ \E c \in Channels : Epoll(c) \/ Remote(c)
  \/ \E p \in Peers, i \in 0..MaxItems : Expire(p, i)

Spec == Init /\ [][Next]_vars

\* The threads keep running and the mutex, a spin lock, is got by a thread that
\* finds it free again and again; send does not fail for ever on a connection
\* that lives, and the other end handles what it gets.
Flush(c) == (WriteNext(c) \/ WriteRest(c)) /\ stream'[c] = None
Fairness ==
  /\ WF_vars(Monitor) /\ WF_vars(Sending(Mon))
  /\ \A c \in Channels : SF_vars(Flush(c)) /\ WF_vars(Remote(c))

FairSpec == Spec /\ Fairness

-----------------------------------------------------------------------------
\* What a sendRing holds, in order.
sendRing == [c \in Channels |-> [i \in 1..(tail[c] - cons[c]) |->
                                   slot[c][(cons[c] + i - 1) % RingSize]]]

\* What the code relies on and does not ensure: no two sends overlap, and a
\* channel goes back to the pool with nothing in its ring.
Clean == ~overlap /\ ~leftover

\* onGetPacket 243-244, hsHashAdd: no item is freed that a ring, a send stream or
\* the echo ring still points to.
NoDangling ==
  Clean =>
    /\ \A c \in Channels :
         /\ stream[c] # None => memory[stream[c].n] # "freed"
         /\ \A i \in 1..Len(sendRing[c]) : memory[sendRing[c][i].n] = "live"
    /\ \A p \in Peers : \A i \in Pending(p) : memory[echo[p][i].n] = "live"

\* onGetPacket 237-244: an answer finds the item it answers, or none.
AnswerMatches ==
  Clean =>
    \A c \in Channels : chanPeer[c] # None =>
      \A i \in 1..Len(answers[c]) :
        LET a == answers[c][i]
        IN  echo[chanPeer[c]][a.id] # None => echo[chanPeer[c]][a.id].n = a.n

\* hsModSend(peerId): what a peer's recvFunc gets was meant for that peer.
Addressed == \A p \in Peers : \A i \in 1..Len(got[p]) : got[p][i].to = p
CleanAddressed == Clean => Addressed

\* However sends, deaths and reconnections interleave, and with whatever a ring
\* still holds, recvFunc gets no item twice; but for two producers in one ring at
\* once: the later one may move prod.tail back and show the consumer old slots.
AtMostOnce ==
  collided = {} =>
    \A p, q \in Peers : \A i \in 1..Len(got[p]), j \in 1..Len(got[q]) :
      got[p][i].n = got[q][j].n => p = q /\ i = j

\* HsPeer.c 25, hsEchoRingIterate 114, hsRingIn, hsHashAdd: while no two producers
\* have been in one ring at once, an item that nothing points to any more was freed,
\* or it met a full ring or a full echo hash, or its answer was 60 s late.
LeaksAccounted ==
  collided = {} =>
    \A n \in Numbers : memory[n] = "live" =>
      \/ \E s \in Senders : item[s] # None /\ item[s].n = n
      \/ \E c \in Channels : \E i \in 1..Len(sendRing[c]) : sendRing[c][i].n = n
      \/ \E p \in Peers : \E i \in Pending(p) : echo[p][i].n = n

\* hsMonitorCheckConnection 94: a dialled connection that lives is registered at
\* the other end in the end, unless its own REGISTER found the ring full, or two
\* producers have been in that ring at once.
RegisterHeard ==
  \A c \in Channels :
    chanPeer[c] # None ~> \/ known[c] \/ chanPeer[c] = None
                          \/ c \in noRegister \/ c \in collided
=============================================================================
