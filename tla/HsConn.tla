------------------------------- MODULE HsConn -------------------------------
(***************************************************************************)
(* The connection table of one HsMod (hs/HsMod.c): the pool of channels,   *)
(* the hash from sockets to channels, and each peer's server (dialled) and *)
(* client (accepted) channel.  Two threads work on it:                     *)
(*                                                                         *)
(*   the monitor thread  hsMonitorCheckConnection dials every peer that    *)
(*                       has no server channel, holding connectionMutex    *)
(*                       for the whole pass;                               *)
(*   the epoll thread    accepts connections, looks up the channel of a    *)
(*                       readable socket, registers the peer that sent     *)
(*                       REGISTER (without the mutex) and tears a dead     *)
(*                       connection down.                                  *)
(*                                                                         *)
(* A channel is its index in hsModCreate's loop; a socket is a descriptor  *)
(* that is reused once closed.                                             *)
(***************************************************************************)
EXTENDS Naturals, Sequences, FiniteSets

CONSTANTS ServerCount,  \* hsModCreate's serverCount: sizes the pool
          PeerCount,    \* peers added before hsModStart
          Socks,        \* the socket descriptors the stack hands out
          RingCap,      \* items channelRing holds
          HashCap,      \* entries sock2ChannelHash holds
          MaxEvents,    \* events one epoll_wait returns (20 in the code)
          None          \* NULL, HS_INVALID_SOCK

ASSUME ServerAssumption == ServerCount \in Nat \ {0}
ASSUME PeerAssumption == PeerCount \in 1..ServerCount
ASSUME SocksAssumption == IsFiniteSet(Socks)
ASSUME CapAssumption == /\ RingCap \in Nat
                        /\ HashCap \in Nat
                        /\ RingCap >= 2 * ServerCount
                        /\ HashCap >= 2 * ServerCount
ASSUME EventsAssumption == MaxEvents \in Nat \ {0}
ASSUME NoneAssumption == /\ None \notin Socks
                         /\ None \notin Nat

Channels == 1..(2 * ServerCount)
Peers == 0..(PeerCount - 1)

VARIABLES connectionMutex,  \* "free", or the thread that holds it
          channelRing,      \* the free channels, first out first
          sock2Channel,     \* the hash: socket -> channel or None
          chanSock,         \* channel->sock
          chanPeer,         \* channel->peer
          server,           \* peer->server
          client,           \* peer->client
          freed,            \* channels hsHashAdd passed to free()
          open,             \* sockets the stack has open
          watched,          \* sockets in the epoll set
          dialed,           \* the peer a socket was dialled to, or None
          refused,          \* accepted sockets that got no channel
          batch,            \* events of epoll_wait not yet handled
          monPc, monCur, monSock, monChan,
          epPc, epSock, epChan

chans    == <<chanSock, chanPeer>>
roles    == <<server, client>>
hash     == <<sock2Channel, freed>>
table    == <<channelRing, hash, chans, roles>>
fds      == <<open, watched, dialed, refused>>
monitor  == <<monPc, monCur, monSock, monChan>>
epoll    == <<batch, epPc, epSock, epChan>>
vars     == <<connectionMutex, table, fds, monitor, epoll>>

MonPcs == {"sleep", "scan", "bind", "take", "publish", "map", "register"}
EpPcs  == {"wait", "accept", "acceptTake", "acceptMap", "lookup", "read",
           "disconnect", "clear", "unmap", "recycle", "close"}

TypeOK ==
  /\ connectionMutex \in {"free", "monitor", "epoll"}
  /\ channelRing \in Seq(Channels)
  /\ sock2Channel \in [Socks -> Channels \cup {None}]
  /\ chanSock \in [Channels -> Socks \cup {None}]
  /\ chanPeer \in [Channels -> Peers \cup {None}]
  /\ server \in [Peers -> Channels \cup {None}]
  /\ client \in [Peers -> Channels \cup {None}]
  /\ freed \in SUBSET Channels
  /\ open \in SUBSET Socks
  /\ watched \in SUBSET Socks
  /\ dialed \in [Socks -> Peers \cup {None}]
  /\ refused \in SUBSET Socks
  /\ batch \in SUBSET Socks
  /\ monPc \in MonPcs
  /\ monCur \in 0..PeerCount
  /\ monSock \in Socks \cup {None}
  /\ monChan \in Channels \cup {None}
  /\ epPc \in EpPcs
  /\ epSock \in Socks \cup {None}
  /\ epChan \in Channels \cup {None}

\* The sockets the hash maps, and the channels it maps them to.
MappedSocks == {s \in Socks : sock2Channel[s] # None}
MappedChannels == {sock2Channel[s] : s \in MappedSocks}

\* hsModCreate puts the channels in the ring in the order it makes them.
InitialRing == [i \in Channels |-> i]

Init ==
  /\ connectionMutex = "free"
  /\ channelRing = InitialRing
  /\ sock2Channel = [s \in Socks |-> None]
  /\ chanSock = [c \in Channels |-> None]
  /\ chanPeer = [c \in Channels |-> None]
  /\ server = [p \in Peers |-> None]
  /\ client = [p \in Peers |-> None]
  /\ freed = {} /\ open = {} /\ watched = {} /\ refused = {} /\ batch = {}
  /\ dialed = [s \in Socks |-> None]
  /\ monPc = "sleep" /\ monCur = 0 /\ monSock = None /\ monChan = None
  /\ epPc = "wait" /\ epSock = None /\ epChan = None

-----------------------------------------------------------------------------
(***************************************************************************)
(* The helpers of hs/HsMutex.c, hs/HsRing.c, hs/HsHash.c and the stack.    *)
(***************************************************************************)
\* Mutant: a return path leaves the mutex locked.
Unlock_Forgotten == UNCHANGED connectionMutex

Unlock == connectionMutex' = "free"

\* Mutant: the channel is put back twice.
RingIn_Twice(c) ==
  channelRing' = IF Len(channelRing) + 1 < RingCap THEN channelRing \o <<c, c>>
                                                   ELSE channelRing

\* A full ring drops the channel; no caller looks at hsRingIn's result.
RingIn(c) ==
  channelRing' = IF Len(channelRing) < RingCap THEN Append(channelRing, c)
                                               ELSE channelRing

\* hsRingOut of a ring that is not empty.
RingOut(c) ==
  /\ channelRing # <<>>
  /\ c = Head(channelRing)
  /\ channelRing' = Tail(channelRing)

\* Mutant: key and value are swapped.
HashAdd_Swapped(s, c) ==
  sock2Channel' = [sock2Channel EXCEPT ![s] = s] /\ UNCHANGED freed

\* hsHashAdd frees the value it replaces; a full hash refuses a new key.
HashAdd(s, c) ==
  /\ sock2Channel' =
       IF sock2Channel[s] # None \/ Cardinality(MappedSocks) < HashCap
       THEN [sock2Channel EXCEPT ![s] = c]
       ELSE sock2Channel
  /\ freed' = freed \cup ({sock2Channel[s]} \ {None})

\* Mutant: onDisconnect forgets hsHashDel.
HashDel_Missing(s) == s \in Socks /\ UNCHANGED sock2Channel

HashDel(s) == sock2Channel' = [sock2Channel EXCEPT ![s] = None]

\* Mutant: channel->sock keeps the dead descriptor.
ResetChannel_KeepsSock(c) ==
  chanPeer' = [chanPeer EXCEPT ![c] = None] /\ UNCHANGED chanSock

ResetChannel(c) ==
  /\ chanSock' = [chanSock EXCEPT ![c] = None]
  /\ chanPeer' = [chanPeer EXCEPT ![c] = None]

\* The stack gives a new connection a descriptor that is not in use.
OpenSock(s, p) ==
  /\ s \notin open
  /\ open' = open \cup {s}
  /\ dialed' = [dialed EXCEPT ![s] = p]
  /\ UNCHANGED refused

\* Mutant: the descriptor is unwatched and never closed.
CloseSock_Leaks(s) ==
  watched' = watched \ {s} /\ UNCHANGED <<open, dialed, refused>>

\* hsEpollRemoveSock, then close.
CloseSock(s) ==
  /\ open' = open \ {s}
  /\ watched' = watched \ {s}
  /\ dialed' = [dialed EXCEPT ![s] = None]
  /\ UNCHANGED refused

-----------------------------------------------------------------------------
(***************************************************************************)
(* The monitor thread.  The mutex is held from MonLock to MonUnlock; the   *)
(* steps in between are apart because the other threads read channel->peer *)
(* and peer->server without it.                                            *)
(***************************************************************************)
MonGoto(pc) == monPc' = pc /\ UNCHANGED <<monCur, monSock, monChan>>

NextPeer ==
  /\ monCur' = monCur + 1
  /\ monPc' = "scan" /\ monSock' = None /\ monChan' = None

\* Mutant: a peer is dialled whether it has a server channel or not.
ToDial_Always == monPc = "scan" /\ monCur < PeerCount

ToDial == monPc = "scan" /\ monCur < PeerCount /\ server[monCur] = None

MonLock ==
  /\ monPc = "sleep" /\ connectionMutex = "free" /\ connectionMutex' = "monitor"
  /\ monPc' = "scan" /\ monCur' = 0
  /\ UNCHANGED <<table, fds, monSock, monChan, epoll>>

MonSkip ==
  /\ monPc = "scan" /\ monCur < PeerCount /\ server[monCur] # None
  /\ NextPeer
  /\ UNCHANGED <<connectionMutex, table, fds, epoll>>

\* hsEpollConnect gets a descriptor; ofp_bind is retried until it succeeds.
MonSocket(s) ==
  /\ ToDial /\ OpenSock(s, monCur)
  /\ monSock' = s /\ monPc' = "bind"
  /\ UNCHANGED <<connectionMutex, table, watched, monCur, monChan, epoll>>

\* The stack is out of descriptors.
MonNoSocket ==
  /\ ToDial /\ open = Socks
  /\ NextPeer
  /\ UNCHANGED <<connectionMutex, table, fds, epoll>>

MonConnectOk ==
  /\ monPc = "bind"
  /\ watched' = watched \cup {monSock}
  /\ MonGoto("take")
  /\ UNCHANGED <<connectionMutex, table, open, dialed, refused, epoll>>

MonConnectFail ==
  /\ monPc = "bind" /\ CloseSock(monSock)
  /\ NextPeer
  /\ UNCHANGED <<connectionMutex, table, epoll>>

\* No channel is left: the new connection is taken down again.
MonTakeNone ==
  /\ monPc = "take" /\ channelRing = <<>> /\ CloseSock(monSock)
  /\ NextPeer
  /\ UNCHANGED <<connectionMutex, table, epoll>>

MonTake(c) ==
  /\ monPc = "take" /\ RingOut(c)
  /\ monChan' = c /\ monPc' = "publish"
  /\ UNCHANGED <<connectionMutex, hash, chans, roles, fds, monCur, monSock, epoll>>

\* From here on hsModSend finds the channel.
MonPublish ==
  /\ monPc = "publish"
  /\ chanPeer' = [chanPeer EXCEPT ![monChan] = monCur]
  /\ chanSock' = [chanSock EXCEPT ![monChan] = monSock]
  /\ server' = [server EXCEPT ![monCur] = monChan]
  /\ MonGoto("map")
  /\ UNCHANGED <<connectionMutex, channelRing, hash, client, fds, epoll>>

MonMap ==
  /\ monPc = "map" /\ HashAdd(monSock, monChan)
  /\ MonGoto("register")
  /\ UNCHANGED <<connectionMutex, channelRing, chans, roles, fds, epoll>>

\* The REGISTER message goes to the channel's own queue, not to this table.
MonRegister ==
  /\ monPc = "register"
  /\ NextPeer
  /\ UNCHANGED <<connectionMutex, table, fds, epoll>>

MonUnlock ==
  /\ monPc = "scan" /\ monCur = PeerCount /\ Unlock
  /\ MonGoto("sleep")
  /\ UNCHANGED <<table, fds, epoll>>

-----------------------------------------------------------------------------
(***************************************************************************)
(* The epoll thread.  One epoll_wait returns a batch of events; a          *)
(* connection may be closed by the monitor, and its descriptor reused,     *)
(* before its event is handled.                                            *)
(***************************************************************************)
EpGoto(pc) == epPc' = pc /\ UNCHANGED <<batch, epSock, epChan>>
EpDone == epPc' = "wait" /\ epSock' = None /\ epChan' = None /\ UNCHANGED batch

EpWait ==
  /\ epPc = "wait" /\ batch = {}
  /\ \E S \in SUBSET watched : /\ S # {} /\ Cardinality(S) <= MaxEvents
                               /\ batch' = S
  /\ UNCHANGED <<connectionMutex, table, fds, monitor, epPc, epSock, epChan>>

\* hsEpollOnAccept: the descriptor is watched before it has a channel.
EpAccept(s) ==
  /\ epPc = "wait" /\ OpenSock(s, None)
  /\ watched' = watched \cup {s}
  /\ epSock' = s /\ epPc' = "accept"
  /\ UNCHANGED <<connectionMutex, table, monitor, batch, epChan>>

\* hsSock2ChannelOnAccept leaves a socket that is mapped already alone.
EpAcceptLock ==
  /\ epPc = "accept" /\ connectionMutex = "free"
  /\ IF sock2Channel[epSock] # None
     THEN EpDone /\ UNCHANGED connectionMutex
     ELSE EpGoto("acceptTake") /\ connectionMutex' = "epoll"
  /\ UNCHANGED <<table, fds, monitor>>

\* No channel is left: the socket stays open and watched, with no owner.
EpAcceptNone ==
  /\ epPc = "acceptTake" /\ channelRing = <<>>
  /\ refused' = refused \cup {epSock}
  /\ Unlock /\ EpDone
  /\ UNCHANGED <<table, open, watched, dialed, monitor>>

EpAcceptTake(c) ==
  /\ epPc = "acceptTake" /\ RingOut(c)
  /\ epChan' = c /\ epPc' = "acceptMap"
  /\ UNCHANGED <<connectionMutex, hash, chans, roles, fds, monitor, batch, epSock>>

EpAcceptMap ==
  /\ epPc = "acceptMap"
  /\ chanSock' = [chanSock EXCEPT ![epChan] = epSock]
  /\ HashAdd(epSock, epChan)
  /\ Unlock /\ EpDone
  /\ UNCHANGED <<channelRing, chanPeer, roles, fds, monitor>>

\* hsEpollOp takes the next event.
EpEvent(s) ==
  /\ epPc = "wait" /\ s \in batch
  /\ batch' = batch \ {s} /\ epSock' = s /\ epPc' = "lookup"
  /\ UNCHANGED <<connectionMutex, table, fds, monitor, epChan>>

\* getChannelBySockId; an unknown socket is ignored.
EpLookup ==
  /\ epPc = "lookup" /\ connectionMutex = "free"
  /\ IF sock2Channel[epSock] = None
     THEN EpDone
     ELSE /\ epChan' = sock2Channel[epSock] /\ epPc' = "read"
          /\ UNCHANGED <<batch, epSock>>
  /\ UNCHANGED <<connectionMutex, table, fds, monitor>>

\* onGetPacket: the first packet of an accepted channel is peer p's REGISTER.
\* Both writes are made without the mutex.
EpRegister(p) ==
  /\ epPc = "read" /\ chanPeer[epChan] = None
  /\ client' = [client EXCEPT ![p] = epChan]
  /\ chanPeer' = [chanPeer EXCEPT ![epChan] = p]
  /\ UNCHANGED <<connectionMutex, channelRing, hash, chanSock, server, fds,
                 monitor, epoll>>

\* onRead has drained the socket.
EpReadDone ==
  /\ epPc = "read" /\ EpDone
  /\ UNCHANGED <<connectionMutex, table, fds, monitor>>

\* Mutant: the descriptor is closed before onDisconnect, not after it.
EpDead_ClosesFirst ==
  /\ epPc = "read" /\ CloseSock(epSock) /\ EpGoto("disconnect")
  /\ UNCHANGED <<connectionMutex, table, monitor>>

\* recv returns no data: the connection is dead.
EpDead ==
  /\ epPc = "read" /\ EpGoto("disconnect")
  /\ UNCHANGED <<connectionMutex, table, fds, monitor>>

\* onDisconnect looks the channel up again, under the mutex.
EpDisconnectLock ==
  /\ epPc = "disconnect" /\ connectionMutex = "free"
  /\ IF sock2Channel[epSock] = None
     THEN EpGoto("close") /\ UNCHANGED connectionMutex
     ELSE /\ connectionMutex' = "epoll" /\ epPc' = "clear"
          /\ epChan' = sock2Channel[epSock] /\ UNCHANGED <<batch, epSock>>
  /\ UNCHANGED <<table, fds, monitor>>

Owns(p, c) == c \in {server[p], client[p]}

\* Mutant: only peer->server is looked at.
ClearOwner_ForgetsClient(c) ==
  /\ server' = [p \in Peers |-> IF server[p] = c THEN None ELSE server[p]]
  /\ UNCHANGED client

\* Mutant: the owner loses its server channel whichever of the two died.
ClearOwner_DropsServer(c) ==
  /\ server' = [p \in Peers |-> IF Owns(p, c) THEN None ELSE server[p]]
  /\ client' = [p \in Peers |-> IF client[p] = c THEN None ELSE client[p]]

\* The first peer that owns the channel loses it: as server, else as client.
ClearOwner(c) ==
  LET First(p) == Owns(p, c) /\ \A q \in Peers : q < p => ~Owns(q, c)
  IN  /\ server' = [p \in Peers |-> IF First(p) /\ server[p] = c
                                    THEN None ELSE server[p]]
      /\ client' = [p \in Peers |-> IF First(p) /\ server[p] # c
                                    THEN None ELSE client[p]]

EpClear ==
  /\ epPc = "clear" /\ ClearOwner(epChan) /\ EpGoto("unmap")
  /\ UNCHANGED <<connectionMutex, channelRing, hash, chans, fds, monitor>>

EpUnmap ==
  /\ epPc = "unmap" /\ HashDel(epSock) /\ EpGoto("recycle")
  /\ UNCHANGED <<connectionMutex, channelRing, freed, chans, roles, fds, monitor>>

EpRecycle ==
  /\ epPc = "recycle" /\ ResetChannel(epChan) /\ RingIn(epChan)
  /\ Unlock /\ EpGoto("close")
  /\ UNCHANGED <<hash, roles, fds, monitor>>

\* The descriptor is unwatched and closed after the mutex is released.
EpClose ==
  /\ epPc = "close" /\ CloseSock(epSock) /\ EpDone
  /\ UNCHANGED <<connectionMutex, table, monitor>>

-----------------------------------------------------------------------------
Monitor ==
  \/ MonLock \/ MonSkip \/ MonNoSocket \/ MonConnectOk \/ MonConnectFail
  \/ MonTakeNone \/ MonPublish \/ MonMap \/ MonRegister \/ MonUnlock
  \/ \E s \in Socks : MonSocket(s)
  \/ \E c \in Channels : MonTake(c)

\* What the epoll thread does once it has an event or a connection in hand.
EpHandle ==
  \/ EpAcceptLock \/ EpAcceptNone \/ EpAcceptMap
  \/ \E c \in Channels : EpAcceptTake(c)
  \/ EpLookup \/ EpReadDone \/ EpDead \/ EpDisconnectLock
  \/ EpClear \/ EpUnmap \/ EpRecycle \/ EpClose

Epoll ==
  \/ EpWait
  \/ \E s \in Socks : EpAccept(s) \/ EpEvent(s)
  \/ \E p \in Peers : EpRegister(p)
  \/ EpHandle

Next == Monitor \/ Epoll

Spec == Init /\ [][Next]_vars

\* Both threads keep running.  The mutex is a spin lock with no queue: a thread
\* gets it if it is free again and again.  ofp_bind and connect return.
Fairness ==
  /\ WF_vars(Monitor) /\ SF_vars(MonLock)
  /\ WF_vars(EpHandle) /\ WF_vars(\E s \in Socks : EpEvent(s))
  /\ SF_vars(EpAcceptLock) /\ SF_vars(EpLookup) /\ SF_vars(EpDisconnectLock)

FairSpec == Spec /\ Fairness

-----------------------------------------------------------------------------
(***************************************************************************)
(* Where a channel may be.                                                 *)
(***************************************************************************)
InRing(q, c)    == \E i \in 1..Len(q) : q[i] = c
Distinct(q)     == \A i, j \in 1..Len(q) : q[i] = q[j] => i = j
Pooled(c)       == InRing(channelRing, c)
Mapped(c)       == \E s \in Socks : sock2Channel[s] = c
MonHolds(c)     == monPc \in {"publish", "map"} /\ monChan = c
EpHolds(c)      == epPc \in {"acceptMap", "recycle"} /\ epChan = c

\* hsModCreate 501-506, onDisconnect 278-284: every channel is in exactly one
\* place: once in the ring, in the hash under one socket, or in the hands of the
\* thread that moves it.  No channel is lost, doubled, or freed by hsHashAdd.
ChannelConservation ==
  /\ freed = {}
  /\ Distinct(channelRing)
  /\ \A s, t \in Socks :
       sock2Channel[s] # None /\ sock2Channel[s] = sock2Channel[t] => s = t
  /\ \A c \in Channels :
       /\ Pooled(c) \/ Mapped(c) \/ MonHolds(c) \/ EpHolds(c)
       /\ Pooled(c) => ~Mapped(c) /\ ~MonHolds(c) /\ ~EpHolds(c)
       /\ Mapped(c) => ~MonHolds(c) /\ ~EpHolds(c)
       /\ MonHolds(c) => ~EpHolds(c)

\* onWrite and the trigger calls use channel->sock, onRead the hash: a mapped
\* socket's channel names that very socket, which is still open and watched, so
\* neither thread touches a descriptor the stack has given to someone else.
SocketsAgree ==
  \A s \in Socks : sock2Channel[s] # None =>
    /\ chanSock[sock2Channel[s]] = s
    /\ s \in open /\ s \in watched

\* sendOnePeer, onWrite and onGetPacket follow peer->server, peer->client and
\* channel->peer: both ends agree, a live peer pointer is never to a pooled
\* channel, a channel has one role, and for one peer only.
PeersAgree ==
  \A p \in Peers :
    /\ server[p] # None => /\ chanPeer[server[p]] = p
                           /\ ~Pooled(server[p])
                           /\ Mapped(server[p]) => dialed[chanSock[server[p]]] = p
    /\ client[p] # None => /\ chanPeer[client[p]] = p
                           /\ Mapped(client[p])
                           /\ dialed[chanSock[client[p]]] = None
    /\ \A q \in Peers : server[p] # None => server[p] # client[q]

\* hsMonitorCheckConnection 70: a peer has at most one dialled connection with a
\* channel, however often it is dialled, lost and dialled again.
OneDialPerPeer ==
  \A s, t \in MappedSocks : dialed[s] # None /\ dialed[s] = dialed[t] => s = t

\* onRead uses the channel it looked up after getChannelBySockId released the
\* mutex: until the epoll thread itself recycles it, the socket keeps it.
StableLookup ==
  epPc \in {"read", "disconnect", "clear", "unmap"} => sock2Channel[epSock] = epChan

\* hsModCreate 500, 509 and hsRingIn, hsHashAdd, whose results nobody reads:
\* when a channel is put back or mapped there is room for it.
NeverOverflow ==
  /\ epPc = "recycle" => Len(channelRing) < RingCap
  /\ epPc = "acceptMap" \/ monPc = "map" => Cardinality(MappedSocks) < HashCap

\* 2 * serverCount channels (hsModCreate 501): a dialled connection is turned
\* away for want of a channel only while more than serverCount accepted
\* connections hold one, and an accepted one only while serverCount of them do.
AcceptedSocks == {s \in MappedSocks : dialed[s] = None}
PoolShortage ==
  channelRing = <<>> =>
    /\ monPc = "take"       => Cardinality(AcceptedSocks) > ServerCount
    /\ epPc = "acceptTake"  => Cardinality(AcceptedSocks) >= ServerCount

\* Every open descriptor is mapped, in the hands of a thread, or was accepted
\* when no channel was left (hsSock2ChannelOnAccept 310): only that path leaks,
\* and what it leaks is never mapped or closed.
FdAccounted ==
  /\ \A s \in open :
       \/ sock2Channel[s] # None
       \/ s \in refused
       \/ s = monSock
       \/ s = epSock /\ epPc \in {"accept", "acceptTake", "acceptMap", "recycle", "close"}
  /\ \A s \in refused : s \in open /\ sock2Channel[s] = None

\* onDisconnect 264-277: a peer's dialled channel is given up only for the death
\* of that connection itself; no step replaces one live server channel by another.
ServerKeptWhileAlive ==
  [][\A p \in Peers : server[p] # None /\ server'[p] # server[p] =>
        /\ server'[p] = None
        /\ epPc = "clear" /\ connectionMutex = "epoll"
        /\ dialed[epSock] = p /\ chanSock[server[p]] = epSock]_vars

-----------------------------------------------------------------------------
(***************************************************************************)
(* The inductive invariant behind those properties: what each thread knows *)
(* at each of its steps, and how the hash, the channels, the peers and the *)
(* descriptors hang together in between.                                   *)
(***************************************************************************)
LockInv ==
  /\ connectionMutex = "monitor" <=> monPc # "sleep"
  /\ connectionMutex = "epoll" <=>
       epPc \in {"acceptTake", "acceptMap", "clear", "unmap", "recycle"}

MonInv ==
  /\ monSock # None <=> monPc \in {"bind", "take", "publish", "map", "register"}
  /\ monChan # None <=> monPc \in {"publish", "map", "register"}
  /\ monPc \in {"bind", "take", "publish", "map", "register"} => monCur \in Peers
  /\ monPc \in {"bind", "take", "publish"} => server[monCur] = None
  /\ monPc \in {"bind", "take", "publish", "map"} =>
       /\ monSock \in open /\ monSock \notin refused
       /\ sock2Channel[monSock] = None
       /\ dialed[monSock] = monCur
       /\ epPc \in {"recycle", "close"} => epSock # monSock
  /\ monPc \in {"take", "publish", "map"} => monSock \in watched
  /\ monPc = "publish" => chanSock[monChan] = None
  /\ monPc = "map" => /\ server[monCur] = monChan
                      /\ chanSock[monChan] = monSock
  /\ monPc = "register" => sock2Channel[monSock] = monChan

EpInv ==
  /\ epSock = None <=> epPc = "wait"
  /\ epChan # None <=>
       epPc \in {"acceptMap", "read", "disconnect", "clear", "unmap", "recycle",
                 "close"}
  /\ epPc \in {"accept", "acceptTake", "acceptMap"} =>
       /\ epSock \in open /\ epSock \in watched /\ epSock \notin refused
       /\ sock2Channel[epSock] = None
       /\ dialed[epSock] = None
  /\ epPc = "acceptMap" => chanSock[epChan] = None /\ chanPeer[epChan] = None
  /\ epPc \in {"unmap", "recycle"} =>
       \A p \in Peers : epChan \notin {server[p], client[p]}
  /\ epPc \in {"recycle", "close"} =>
       /\ epSock \in open /\ epSock \notin refused
       /\ sock2Channel[epSock] = None
  /\ epPc = "recycle" => chanSock[epChan] = epSock

\* A channel outside the hash has a socket only while a thread moves it.
ChanInv ==
  \A c \in Channels :
    /\ Pooled(c) => chanSock[c] = None /\ chanPeer[c] = None
    /\ chanSock[c] # None =>
         \/ sock2Channel[chanSock[c]] = c
         \/ monPc = "map" /\ monChan = c
         \/ epPc = "recycle" /\ epChan = c

PeerInv ==
  \A p \in Peers :
    /\ server[p] # None =>
         /\ chanPeer[server[p]] = p
         /\ \/ Mapped(server[p]) /\ dialed[chanSock[server[p]]] = p
            \/ monPc = "map" /\ monChan = server[p] /\ monCur = p
    /\ client[p] # None =>
         /\ chanPeer[client[p]] = p
         /\ Mapped(client[p])
         /\ dialed[chanSock[client[p]]] = None

\* A mapped connection that was dialled is its peer's server channel.
DialInv ==
  \A s \in Socks : sock2Channel[s] # None /\ dialed[s] # None =>
    \/ server[dialed[s]] = sock2Channel[s]
    \/ epPc = "unmap" /\ epSock = s /\ server[dialed[s]] = None

IInv ==
  /\ TypeOK /\ LockInv /\ MonInv /\ EpInv /\ ChannelConservation /\ ChanInv
  /\ SocketsAgree /\ PeerInv /\ DialInv /\ StableLookup /\ FdAccounted

-----------------------------------------------------------------------------
\* The pool seen from outside: who holds each channel (refinement below).
Pool == INSTANCE ChannelPool WITH holder <- chanSock
PoolSpec == Pool!Spec

\* onDisconnect waits for the mutex, which the monitor keeps through bind and
\* connect: a dead connection's descriptor is closed in the end all the same.
DeadIsReclaimed ==
  \A s \in Socks : epPc = "disconnect" /\ epSock = s ~> s \notin open

\* hsMonitorThread: a peer that has or loses no server channel is dialled again,
\* unless the stack is out of descriptors.
LostPeerIsDialed ==
  \A p \in Peers :
    server[p] = None ~> \/ server[p] # None
                        \/ monPc = "bind" /\ monCur = p
                        \/ open = Socks
=============================================================================
