---------------------------- MODULE HsConnProofs ----------------------------
(***************************************************************************)
(* Proofs about the connection table for every pool size, every number of  *)
(* peers and every set of descriptors.                                     *)
(***************************************************************************)
EXTENDS HsConn, SequenceTheorems, FiniteSetTheorems, TLAPS

USE PeerAssumption, ServerAssumption, NoneAssumption DEF Channels, Peers

-----------------------------------------------------------------------------
(***************************************************************************)
(* The ring as a sequence without duplicates.                              *)
(***************************************************************************)

\* hsRingOut takes out the head, and nothing else.
LEMMA RingOutProperties ==
  ASSUME NEW S, NEW q \in Seq(S), q # <<>>, Distinct(q)
  PROVE  /\ Tail(q) \in Seq(S) /\ Head(q) \in S
         /\ Distinct(Tail(q))
         /\ InRing(q, Head(q))
         /\ \A c : InRing(Tail(q), c) <=> InRing(q, c) /\ c # Head(q)
<1>1. /\ Len(q) \in Nat /\ Len(q) > 0
      /\ Head(q) = q[1]
      /\ Tail(q) \in Seq(S) /\ Head(q) \in S
      /\ Len(Tail(q)) = Len(q) - 1
      /\ \A i \in 1..Len(Tail(q)) : Tail(q)[i] = q[i + 1]
  BY HeadTailProperties, LenProperties, EmptySeq
<1>2. Distinct(Tail(q))
  BY <1>1 DEF Distinct
<1>3. ASSUME NEW c PROVE InRing(Tail(q), c) <=> InRing(q, c) /\ c # Head(q)
  <2>1. ASSUME InRing(Tail(q), c) PROVE InRing(q, c) /\ c # Head(q)
    BY <1>1, <2>1 DEF InRing, Distinct
  <2>2. ASSUME InRing(q, c), c # Head(q) PROVE InRing(Tail(q), c)
    <3>1. PICK i \in 1..Len(q) : q[i] = c
      BY <2>2 DEF InRing
    <3>2. i - 1 \in 1..Len(Tail(q)) /\ Tail(q)[i - 1] = c
      BY <1>1, <2>2, <3>1
    <3>3. QED BY <3>2 DEF InRing
  <2>3. QED BY <2>1, <2>2
<1>4. InRing(q, Head(q))
  BY <1>1 DEF InRing
<1>5. QED BY <1>1, <1>2, <1>3, <1>4

\* hsRingIn adds one channel at the end when there is room.
LEMMA AppendDistinct ==
  ASSUME NEW S, NEW q \in Seq(S), NEW x \in S, Distinct(q), ~InRing(q, x)
  PROVE  /\ Append(q, x) \in Seq(S)
         /\ Distinct(Append(q, x))
         /\ \A c : InRing(Append(q, x), c) <=> InRing(q, c) \/ c = x
<1>1. /\ Len(q) \in Nat
      /\ Append(q, x) \in Seq(S)
      /\ Len(Append(q, x)) = Len(q) + 1
      /\ \A i \in 1..Len(q) : Append(q, x)[i] = q[i]
      /\ Append(q, x)[Len(q) + 1] = x
  BY AppendProperties, LenProperties
<1>2. Distinct(Append(q, x))
  BY <1>1 DEF Distinct, InRing
<1>3. ASSUME NEW c PROVE InRing(Append(q, x), c) <=> InRing(q, c) \/ c = x
  <2>1. ASSUME InRing(Append(q, x), c) PROVE InRing(q, c) \/ c = x
    BY <1>1, <2>1 DEF InRing
  <2>2. ASSUME InRing(q, c) PROVE InRing(Append(q, x), c)
    BY <1>1, <2>2 DEF InRing
  <2>3. InRing(Append(q, x), x)
    <3>1. Len(q) + 1 \in 1..Len(Append(q, x))
      BY <1>1
    <3>2. QED BY <1>1, <3>1 DEF InRing
  <2>4. QED BY <2>1, <2>2, <2>3
<1>4. QED BY <1>1, <1>2, <1>3

\* A ring without duplicates that misses one of n channels holds fewer than n.
LEMMA RingRoom ==
  ASSUME NEW n \in Nat, NEW q \in Seq(1..n), Distinct(q),
         NEW x \in 1..n, ~InRing(q, x)
  PROVE  Len(q) < n
<1>1. Append(q, x) \in Seq(1..n) /\ Distinct(Append(q, x))
  BY AppendDistinct
<1>2. Len(Append(q, x)) = Len(q) + 1 /\ Len(q) \in Nat
  BY AppendProperties, LenProperties
<1>3. Append(q, x) \in [1..(Len(q) + 1) -> 1..n]
  BY <1>1, <1>2, LenProperties
<1>4. Append(q, x) \in Injection(1..(Len(q) + 1), 1..n)
  BY <1>1, <1>2, <1>3 DEF Distinct, Injection, IsInjective
<1>5. IsFiniteSet(1..n) /\ Cardinality(1..n) = n
  BY FS_Interval
<1>6. Cardinality(1..(Len(q) + 1)) = Len(q) + 1
  BY <1>2, FS_Interval
<1>7. Cardinality(1..(Len(q) + 1)) <= Cardinality(1..n)
  BY <1>4, <1>5, FS_Injection
<1>8. QED BY <1>2, <1>5, <1>6, <1>7

\* Sockets mapped one to one into n channels that miss one are fewer than n.
LEMMA HashRoom ==
  ASSUME NEW n \in Nat, NEW M, NEW f \in [M -> 1..n],
         \A s, t \in M : f[s] = f[t] => s = t,
         NEW x \in 1..n, \A s \in M : f[s] # x
  PROVE  Cardinality(M) < n
<1>1. f \in Injection(M, (1..n) \ {x})
  BY DEF Injection, IsInjective
<1>2. IsFiniteSet(1..n) /\ Cardinality(1..n) = n
  BY FS_Interval
<1>3. IsFiniteSet((1..n) \ {x}) /\ Cardinality((1..n) \ {x}) = n - 1
  BY <1>2, FS_RemoveElement
<1>4. IsFiniteSet(M) /\ Cardinality(M) <= n - 1
  BY <1>1, <1>3, FS_Injection
<1>5. Cardinality(M) \in Nat
  BY <1>4, FS_CardinalityType
<1>6. QED BY <1>4, <1>5

-----------------------------------------------------------------------------
(***************************************************************************)
(* There is always room: the ring and the hash never hold all the channels *)
(* when one of them is in the hands of a thread.                           *)
(***************************************************************************)
LEMMA RoomInRing ==
  ASSUME IInv, epPc = "recycle"
  PROVE  /\ Len(channelRing) < RingCap
         /\ epChan \in Channels /\ ~InRing(channelRing, epChan)
         /\ channelRing \in Seq(Channels) /\ Distinct(channelRing)
<1>1. epChan \in Channels
  BY DEF IInv, TypeOK, EpInv
<1>2. channelRing \in Seq(Channels) /\ Distinct(channelRing)
  BY DEF IInv, TypeOK, ChannelConservation
<1>3. ~InRing(channelRing, epChan)
  BY <1>1 DEF IInv, ChannelConservation, Pooled, EpHolds
<1>4. 2 * ServerCount \in Nat
  OBVIOUS
<1>5. Len(channelRing) < 2 * ServerCount
  BY <1>1, <1>2, <1>3, <1>4, RingRoom
<1>6. Len(channelRing) \in Nat
  BY <1>2, LenProperties
<1>7. QED BY <1>1, <1>2, <1>3, <1>5, <1>6, CapAssumption

\* There is a place in the hash for a channel a thread is about to map.
LEMMA RoomInHash ==
  ASSUME IInv, epPc = "acceptMap" \/ monPc = "map"
  PROVE  Cardinality(MappedSocks) < HashCap
<1>1. PICK x \in Channels : ~Mapped(x)
  <2>1. CASE epPc = "acceptMap"
    BY <2>1 DEF IInv, TypeOK, EpInv, ChannelConservation, EpHolds
  <2>2. CASE monPc = "map"
    BY <2>2 DEF IInv, TypeOK, MonInv, ChannelConservation, MonHolds
  <2>3. QED BY <2>1, <2>2
<1> DEFINE f == [s \in MappedSocks |-> sock2Channel[s]]
<1>2. f \in [MappedSocks -> 1..(2 * ServerCount)]
  BY DEF IInv, TypeOK, MappedSocks
<1>3. \A s, t \in MappedSocks : f[s] = f[t] => s = t
  BY DEF IInv, ChannelConservation, MappedSocks
<1>4. \A s \in MappedSocks : f[s] # x
  BY <1>1 DEF Mapped, MappedSocks
<1>5. 2 * ServerCount \in Nat
  OBVIOUS
<1> HIDE DEF f
<1>6. Cardinality(MappedSocks) < 2 * ServerCount
  BY <1>1, <1>2, <1>3, <1>4, <1>5, HashRoom
<1>7. IsFiniteSet(MappedSocks)
  BY SocksAssumption, FS_Subset DEF MappedSocks
<1>8. Cardinality(MappedSocks) \in Nat
  BY <1>7, FS_CardinalityType
<1>9. QED BY <1>6, <1>8, CapAssumption

\* hsModCreate 500, 509: the ring and the hash are never full when a channel is
\* put into them, so the unread results of hsRingIn and hsHashAdd do no harm.
THEOREM IInvNeverOverflow == IInv => NeverOverflow
BY RoomInRing, RoomInHash DEF NeverOverflow

\* What an uncontended hsHashAdd does: it maps the socket and frees nothing.
LEMMA HashAddMaps ==
  ASSUME IInv, NEW s, NEW c, sock2Channel[s] = None,
         epPc = "acceptMap" \/ monPc = "map", HashAdd(s, c)
  PROVE  sock2Channel' = [sock2Channel EXCEPT ![s] = c] /\ freed' = freed
BY RoomInHash DEF HashAdd

\* hsRingOut of the ring of free channels.
LEMMA RingOutTakes ==
  ASSUME IInv, NEW c \in Channels, RingOut(c)
  PROVE  /\ channelRing' \in Seq(Channels) /\ Distinct(channelRing')
         /\ InRing(channelRing, c)
         /\ \A d : InRing(channelRing', d) <=> InRing(channelRing, d) /\ d # c
BY RingOutProperties DEF IInv, TypeOK, ChannelConservation, RingOut

\* hsRingIn of a channel that has been taken down.
LEMMA RingInPuts ==
  ASSUME IInv, epPc = "recycle", RingIn(epChan)
  PROVE  /\ channelRing' \in Seq(Channels) /\ Distinct(channelRing')
         /\ \A d : InRing(channelRing', d) <=> InRing(channelRing, d) \/ d = epChan
BY RoomInRing, AppendDistinct DEF RingIn

-----------------------------------------------------------------------------
(***************************************************************************)
(* Every step keeps the inductive invariant: one lemma per action, with a  *)
(* step for each part of the invariant that needs other parts to be kept.  *)
(***************************************************************************)

\* The monitor enters with no descriptor and no channel in its hands.
LEMMA MonLockStep ==
  ASSUME IInv, MonLock
  PROVE  IInv'
<1> USE DEF IInv, MonLock, vars, table, fds, monitor, epoll, hash, chans,
      roles
<1>1. TypeOK' /\ LockInv' /\ MonInv' /\ EpInv' /\ ChannelConservation' /\
     ChanInv' /\ SocketsAgree' /\ PeerInv' /\ DialInv' /\ StableLookup'
     /\ FdAccounted'
  BY DEF TypeOK, LockInv, MonInv, EpInv, ChannelConservation, ChanInv,
    SocketsAgree, PeerInv, DialInv, StableLookup, FdAccounted, MonPcs, EpPcs,
    Pooled, Mapped, MonHolds, EpHolds
<1>2. QED BY <1>1

\* A peer that has a server channel is passed over.
LEMMA MonSkipStep ==
  ASSUME IInv, MonSkip
  PROVE  IInv'
<1> USE DEF IInv, MonSkip, NextPeer, vars, table, fds, monitor, epoll, hash,
      chans, roles
<1>1. TypeOK' /\ MonInv' /\ PeerInv'
  BY DEF TypeOK, MonInv, PeerInv, MonPcs, EpPcs, Mapped
<1>2. LockInv' /\ EpInv' /\ ChannelConservation' /\ ChanInv' /\
     SocketsAgree' /\ DialInv' /\ StableLookup' /\ FdAccounted'
  BY DEF LockInv, EpInv, ChannelConservation, ChanInv, SocketsAgree, DialInv,
    StableLookup, FdAccounted, MonInv, Pooled, Mapped, MonHolds, EpHolds
<1>3. QED BY <1>1, <1>2

\* The new descriptor was closed, so no table mentions it.
LEMMA MonSocketStep ==
  ASSUME IInv, NEW s \in Socks, MonSocket(s)
  PROVE  IInv'
<1> USE DEF IInv, MonSocket, ToDial, OpenSock, vars, table, fds, monitor,
      epoll, hash, chans, roles
<1>1. TypeOK' /\ LockInv' /\ EpInv' /\ ChannelConservation' /\ ChanInv' /\
     SocketsAgree' /\ StableLookup'
  BY DEF TypeOK, LockInv, EpInv, ChannelConservation, ChanInv, SocketsAgree,
    StableLookup, MonPcs, EpPcs, Pooled, Mapped, MonHolds, EpHolds
<1>2. MonInv'
  BY DEF MonInv, TypeOK, EpInv, SocketsAgree, FdAccounted, MonPcs, EpPcs
<1>3. PeerInv'
  BY DEF PeerInv, SocketsAgree, Mapped
<1>4. DialInv'
  BY DEF DialInv, SocketsAgree
<1>5. FdAccounted'
  BY DEF FdAccounted, TypeOK, MonInv, MonPcs, EpPcs
<1>6. QED BY <1>1, <1>2, <1>3, <1>4, <1>5

\* A peer is passed over when descriptors run out.
LEMMA MonNoSocketStep ==
  ASSUME IInv, MonNoSocket
  PROVE  IInv'
<1> USE DEF IInv, MonNoSocket, ToDial, NextPeer, vars, table, fds, monitor,
      epoll, hash, chans, roles
<1>1. TypeOK' /\ MonInv' /\ PeerInv'
  BY DEF TypeOK, MonInv, PeerInv, MonPcs, EpPcs, Mapped
<1>2. LockInv' /\ EpInv' /\ ChannelConservation' /\ ChanInv' /\
     SocketsAgree' /\ DialInv' /\ StableLookup' /\ FdAccounted'
  BY DEF LockInv, EpInv, ChannelConservation, ChanInv, SocketsAgree, DialInv,
    StableLookup, FdAccounted, MonInv, Pooled, Mapped, MonHolds, EpHolds
<1>3. QED BY <1>1, <1>2

\* The dialled descriptor joins the epoll set before it has a channel.
LEMMA MonConnectOkStep ==
  ASSUME IInv, MonConnectOk
  PROVE  IInv'
<1> USE DEF IInv, MonConnectOk, MonGoto, vars, table, fds, monitor, epoll,
      hash, chans, roles
<1>1. LockInv' /\ MonInv' /\ EpInv' /\ ChannelConservation' /\ ChanInv' /\
     SocketsAgree' /\ PeerInv' /\ DialInv' /\ StableLookup' /\
     FdAccounted'
  BY DEF LockInv, MonInv, EpInv, ChannelConservation, ChanInv, SocketsAgree,
    PeerInv, DialInv, StableLookup, FdAccounted, Pooled, Mapped, MonHolds,
    EpHolds
<1>2. TypeOK'
  BY DEF TypeOK, MonInv, MonPcs, EpPcs
<1>3. QED BY <1>1, <1>2

\* The descriptor that is closed was never mapped.
LEMMA MonConnectFailStep ==
  ASSUME IInv, MonConnectFail
  PROVE  IInv'
<1> USE DEF IInv, MonConnectFail, CloseSock, NextPeer, vars, table, fds,
      monitor, epoll, hash, chans, roles
<1>1. LockInv' /\ MonInv' /\ ChannelConservation' /\ ChanInv' /\ DialInv'
     /\ StableLookup'
  BY DEF LockInv, MonInv, ChannelConservation, ChanInv, DialInv, StableLookup,
    Pooled, Mapped, MonHolds, EpHolds
<1>2. TypeOK'
  BY DEF TypeOK, MonInv, MonPcs, EpPcs
<1>3. EpInv'
  BY DEF EpInv, MonInv
<1>4. SocketsAgree'
  BY DEF SocketsAgree, MonInv
<1>5. PeerInv'
  BY DEF PeerInv, MonInv, Mapped
<1>6. FdAccounted'
  BY DEF FdAccounted, MonInv
<1>7. QED BY <1>1, <1>2, <1>3, <1>4, <1>5, <1>6

\* The descriptor that is closed again was never mapped.
LEMMA MonTakeNoneStep ==
  ASSUME IInv, MonTakeNone
  PROVE  IInv'
<1> USE DEF IInv, MonTakeNone, CloseSock, NextPeer, vars, table, fds, monitor,
      epoll, hash, chans, roles
<1>1. LockInv' /\ MonInv' /\ ChannelConservation' /\ ChanInv' /\ DialInv'
     /\ StableLookup'
  BY DEF LockInv, MonInv, ChannelConservation, ChanInv, DialInv, StableLookup,
    Pooled, Mapped, MonHolds, EpHolds
<1>2. TypeOK'
  BY DEF TypeOK, MonInv, MonPcs, EpPcs
<1>3. EpInv'
  BY DEF EpInv, MonInv
<1>4. SocketsAgree'
  BY DEF SocketsAgree, MonInv
<1>5. PeerInv'
  BY DEF PeerInv, MonInv, Mapped
<1>6. FdAccounted'
  BY DEF FdAccounted, MonInv
<1>7. QED BY <1>1, <1>2, <1>3, <1>4, <1>5, <1>6

\* The head of the ring passes into the hands of the monitor.
LEMMA MonTakeStep ==
  ASSUME IInv, NEW c \in Channels, MonTake(c)
  PROVE  IInv'
<1> USE DEF IInv, MonTake, RingOut, vars, table, fds, monitor, epoll, hash,
      chans, roles
<1>a. /\ channelRing' \in Seq(Channels) /\ Distinct(channelRing')
      /\ InRing(channelRing, c)
      /\ \A d : InRing(channelRing', d) <=> InRing(channelRing, d) /\ d # c
  BY RingOutTakes
<1>1. TypeOK' /\ LockInv' /\ EpInv' /\ ChannelConservation' /\ ChanInv' /\
     SocketsAgree' /\ PeerInv' /\ DialInv' /\ StableLookup' /\
     FdAccounted'
  BY SMTT(20), <1>a DEF TypeOK, LockInv, EpInv, ChannelConservation, ChanInv,
    SocketsAgree, PeerInv, DialInv, StableLookup, FdAccounted, MonPcs, EpPcs,
    Pooled, Mapped, MonHolds, EpHolds
<1>2. MonInv'
  BY <1>a DEF MonInv, ChanInv, Pooled
<1>3. QED BY <1>1, <1>2

\* The peer gets its server channel before the hash knows it: PeerInv and
\* ChanInv allow for that with the monitor at "map".
LEMMA MonPublishStep ==
  ASSUME IInv, MonPublish
  PROVE  IInv'
<1> USE DEF IInv, MonPublish, MonGoto, vars, table, fds, monitor, epoll, hash,
      chans, roles
<1>1. LockInv' /\ ChannelConservation' /\ StableLookup' /\ FdAccounted'
  BY DEF LockInv, ChannelConservation, StableLookup, FdAccounted, Pooled,
    Mapped, MonHolds, EpHolds
<1>2. TypeOK'
  BY DEF TypeOK, MonInv, MonPcs, EpPcs
<1>3. MonInv'
  BY DEF MonInv, TypeOK, MonPcs, EpPcs
<1>4. EpInv'
  BY DEF EpInv, LockInv
<1>5. ChanInv'
  BY DEF ChanInv, ChannelConservation, Pooled, Mapped, MonHolds, EpHolds
<1>6. SocketsAgree'
  <2>1. \A s \in Socks : sock2Channel[s] # monChan
    BY DEF TypeOK, MonInv, ChannelConservation, Mapped, MonHolds
  <2>2. \A s \in Socks :
          sock2Channel[s] # None => chanSock'[sock2Channel[s]] = chanSock[sock2Channel[s]]
    BY <2>1 DEF TypeOK
  <2>3. QED BY <2>2 DEF SocketsAgree
<1>7. PeerInv'
  BY DEF PeerInv, TypeOK, ChannelConservation, Mapped, MonPcs, EpPcs, Pooled,
    MonHolds, EpHolds
<1>8. DialInv'
  BY DEF DialInv, LockInv, MonInv
<1>9. QED BY <1>1, <1>2, <1>3, <1>4, <1>5, <1>6, <1>7, <1>8

\* The channel passes from the monitor to the hash; nothing is overwritten.
LEMMA MonMapStep ==
  ASSUME IInv, MonMap
  PROVE  IInv'
<1> USE DEF IInv, MonMap, MonGoto, HashAdd, vars, table, fds, monitor, epoll,
      hash, chans, roles
<1>a. sock2Channel' = [sock2Channel EXCEPT ![monSock] = monChan] /\ freed' = freed
  BY HashAddMaps DEF MonInv
<1>1. LockInv'
  BY <1>a DEF LockInv
<1>2. TypeOK'
  BY <1>a DEF TypeOK, MonInv, ChannelConservation, MonPcs, EpPcs, Pooled,
    Mapped, MonHolds, EpHolds
<1>3. MonInv'
  BY <1>a DEF MonInv, TypeOK, MonPcs, EpPcs
<1>4. EpInv'
  BY <1>a DEF EpInv, MonInv
<1>5. ChannelConservation'
  BY <1>a DEF ChannelConservation, TypeOK, MonInv, Pooled, Mapped, MonHolds,
    EpHolds, MonPcs, EpPcs
<1>6. ChanInv'
  BY <1>a DEF ChanInv, TypeOK, MonInv, Pooled, MonPcs, EpPcs
<1>7. SocketsAgree'
  BY <1>a DEF SocketsAgree, MonInv
<1>8. PeerInv'
  BY <1>a DEF PeerInv, TypeOK, MonInv, Mapped, MonPcs, EpPcs
<1>9. DialInv'
  BY <1>a DEF DialInv, MonInv
<1>10. StableLookup'
  BY <1>a DEF StableLookup, MonInv, EpInv
<1>11. FdAccounted'
  BY <1>a DEF FdAccounted, MonInv
<1>12. QED BY <1>1, <1>2, <1>3, <1>4, <1>5, <1>6, <1>7, <1>8, <1>9, <1>10,
  <1>11

\* The channel is in the hash, so the monitor may let go of it.
LEMMA MonRegisterStep ==
  ASSUME IInv, MonRegister
  PROVE  IInv'
<1> USE DEF IInv, MonRegister, NextPeer, vars, table, fds, monitor, epoll,
      hash, chans, roles
<1>1. LockInv' /\ MonInv' /\ EpInv' /\ ChannelConservation' /\ ChanInv' /\
     SocketsAgree' /\ PeerInv' /\ DialInv' /\ StableLookup'
  BY DEF LockInv, MonInv, EpInv, ChannelConservation, ChanInv, SocketsAgree,
    PeerInv, DialInv, StableLookup, Pooled, Mapped, MonHolds, EpHolds
<1>2. TypeOK'
  BY DEF TypeOK, MonInv, MonPcs, EpPcs
<1>3. FdAccounted'
  BY DEF FdAccounted, MonInv
<1>4. QED BY <1>1, <1>2, <1>3

\* The monitor leaves with no descriptor and no channel in its hands.
LEMMA MonUnlockStep ==
  ASSUME IInv, MonUnlock
  PROVE  IInv'
<1> USE DEF IInv, MonUnlock, Unlock, MonGoto, vars, table, fds, monitor,
      epoll, hash, chans, roles
<1>1. TypeOK' /\ LockInv' /\ MonInv' /\ EpInv' /\ ChannelConservation' /\
     ChanInv' /\ SocketsAgree' /\ PeerInv' /\ DialInv' /\ StableLookup'
     /\ FdAccounted'
  BY DEF TypeOK, LockInv, MonInv, EpInv, ChannelConservation, ChanInv,
    SocketsAgree, PeerInv, DialInv, StableLookup, FdAccounted, MonPcs, EpPcs,
    Pooled, Mapped, MonHolds, EpHolds
<1>2. QED BY <1>1

\* Events are hints: no invariant depends on the batch.
LEMMA EpWaitStep ==
  ASSUME IInv, EpWait
  PROVE  IInv'
<1> USE DEF IInv, EpWait, vars, table, fds, monitor, epoll, hash, chans, roles
<1>1. TypeOK' /\ LockInv' /\ MonInv' /\ EpInv' /\ ChannelConservation' /\
     ChanInv' /\ SocketsAgree' /\ PeerInv' /\ DialInv' /\ StableLookup'
     /\ FdAccounted'
  BY DEF TypeOK, LockInv, MonInv, EpInv, ChannelConservation, ChanInv,
    SocketsAgree, PeerInv, DialInv, StableLookup, FdAccounted, MonPcs, EpPcs,
    Pooled, Mapped, MonHolds, EpHolds
<1>2. QED BY <1>1

\* The accepted descriptor was closed, so no table mentions it.
LEMMA EpAcceptStep ==
  ASSUME IInv, NEW s \in Socks, EpAccept(s)
  PROVE  IInv'
<1> USE DEF IInv, EpAccept, OpenSock, vars, table, fds, monitor, epoll, hash,
      chans, roles
<1>1. TypeOK' /\ LockInv' /\ MonInv' /\ ChannelConservation' /\ ChanInv'
     /\ SocketsAgree' /\ DialInv' /\ StableLookup' /\ FdAccounted'
  BY DEF TypeOK, LockInv, MonInv, ChannelConservation, ChanInv, SocketsAgree,
    DialInv, StableLookup, FdAccounted, MonPcs, EpPcs, Pooled, Mapped,
    MonHolds, EpHolds
<1>2. EpInv'
  BY DEF EpInv, TypeOK, SocketsAgree, FdAccounted, MonPcs, EpPcs
<1>3. PeerInv'
  BY DEF PeerInv, SocketsAgree, Mapped
<1>4. QED BY <1>1, <1>2, <1>3

\* The accepted descriptor is not mapped, so it may take a channel.
LEMMA EpAcceptLockStep ==
  ASSUME IInv, EpAcceptLock
  PROVE  IInv'
<1> USE DEF IInv, EpAcceptLock, EpDone, EpGoto, vars, table, fds, monitor,
      epoll, hash, chans, roles
<1>1. TypeOK' /\ LockInv' /\ MonInv' /\ EpInv' /\ ChannelConservation' /\
     ChanInv' /\ SocketsAgree' /\ PeerInv' /\ DialInv' /\ StableLookup'
     /\ FdAccounted'
  BY DEF TypeOK, LockInv, MonInv, EpInv, ChannelConservation, ChanInv,
    SocketsAgree, PeerInv, DialInv, StableLookup, FdAccounted, MonPcs, EpPcs,
    Pooled, Mapped, MonHolds, EpHolds
<1>2. QED BY <1>1

\* The descriptor without a channel is accounted for as refused.
LEMMA EpAcceptNoneStep ==
  ASSUME IInv, EpAcceptNone
  PROVE  IInv'
<1> USE DEF IInv, EpAcceptNone, Unlock, EpDone, vars, table, fds, monitor,
      epoll, hash, chans, roles
<1>1. LockInv' /\ EpInv' /\ ChannelConservation' /\ ChanInv' /\
     SocketsAgree' /\ PeerInv' /\ DialInv' /\ StableLookup'
  BY DEF LockInv, EpInv, ChannelConservation, ChanInv, SocketsAgree, PeerInv,
    DialInv, StableLookup, Pooled, Mapped, MonHolds, EpHolds
<1>2. TypeOK'
  BY DEF TypeOK, EpInv, MonPcs, EpPcs
<1>3. MonInv'
  BY DEF MonInv, LockInv
<1>4. FdAccounted'
  BY DEF FdAccounted, EpInv
<1>5. QED BY <1>1, <1>2, <1>3, <1>4

\* The head of the ring passes into the hands of the epoll thread.
LEMMA EpAcceptTakeStep ==
  ASSUME IInv, NEW c \in Channels, EpAcceptTake(c)
  PROVE  IInv'
<1> USE DEF IInv, EpAcceptTake, RingOut, vars, table, fds, monitor, epoll,
      hash, chans, roles
<1>a. /\ channelRing' \in Seq(Channels) /\ Distinct(channelRing')
      /\ InRing(channelRing, c)
      /\ \A d : InRing(channelRing', d) <=> InRing(channelRing, d) /\ d # c
  BY RingOutTakes
<1>1. TypeOK' /\ LockInv' /\ MonInv' /\ ChannelConservation' /\ ChanInv'
     /\ SocketsAgree' /\ PeerInv' /\ DialInv' /\ StableLookup' /\
     FdAccounted'
  BY SMTT(20), <1>a DEF TypeOK, LockInv, MonInv, ChannelConservation, ChanInv,
    SocketsAgree, PeerInv, DialInv, StableLookup, FdAccounted, MonPcs, EpPcs,
    Pooled, Mapped, MonHolds, EpHolds
<1>2. EpInv'
  BY <1>a DEF EpInv, ChanInv, Pooled
<1>3. QED BY <1>1, <1>2

\* The channel passes from the epoll thread to the hash.
LEMMA EpAcceptMapStep ==
  ASSUME IInv, EpAcceptMap
  PROVE  IInv'
<1> USE DEF IInv, EpAcceptMap, HashAdd, Unlock, EpDone, vars, table, fds,
      monitor, epoll, hash, chans, roles
<1>a. sock2Channel' = [sock2Channel EXCEPT ![epSock] = epChan] /\ freed' = freed
  BY HashAddMaps DEF EpInv
<1>1. LockInv' /\ EpInv' /\ StableLookup'
  BY <1>a DEF LockInv, EpInv, StableLookup
<1>2. TypeOK'
  BY <1>a DEF TypeOK, EpInv, ChannelConservation, MonPcs, EpPcs, Pooled,
    Mapped, MonHolds, EpHolds
<1>3. MonInv'
  BY <1>a DEF MonInv, LockInv
<1>4. ChannelConservation'
  BY <1>a DEF ChannelConservation, TypeOK, EpInv, Pooled, Mapped, MonHolds,
    EpHolds, MonPcs, EpPcs
<1>5. ChanInv'
  BY <1>a DEF ChanInv, TypeOK, ChannelConservation, Pooled, MonPcs, EpPcs,
    Mapped, MonHolds, EpHolds
<1>6. SocketsAgree'
  BY <1>a DEF SocketsAgree, TypeOK, EpInv, MonPcs, EpPcs
<1>7. PeerInv'
  BY <1>a DEF PeerInv, EpInv, Mapped
<1>8. DialInv'
  BY <1>a DEF DialInv, EpInv
<1>9. FdAccounted'
  BY <1>a DEF FdAccounted, TypeOK, EpInv, MonPcs, EpPcs
<1>10. QED BY <1>1, <1>2, <1>3, <1>4, <1>5, <1>6, <1>7, <1>8, <1>9

\* The socket of an event may have any state by now.
LEMMA EpEventStep ==
  ASSUME IInv, NEW s \in Socks, EpEvent(s)
  PROVE  IInv'
<1> USE DEF IInv, EpEvent, vars, table, fds, monitor, epoll, hash, chans,
      roles
<1>1. TypeOK' /\ LockInv' /\ MonInv' /\ EpInv' /\ ChannelConservation' /\
     ChanInv' /\ SocketsAgree' /\ PeerInv' /\ DialInv' /\ StableLookup'
     /\ FdAccounted'
  BY DEF TypeOK, LockInv, MonInv, EpInv, ChannelConservation, ChanInv,
    SocketsAgree, PeerInv, DialInv, StableLookup, FdAccounted, MonPcs, EpPcs,
    Pooled, Mapped, MonHolds, EpHolds
<1>2. QED BY <1>1

\* The channel the hash gives for the socket is a mapped one.
LEMMA EpLookupStep ==
  ASSUME IInv, EpLookup
  PROVE  IInv'
<1> USE DEF IInv, EpLookup, EpDone, vars, table, fds, monitor, epoll, hash,
      chans, roles
<1>1. LockInv' /\ MonInv' /\ EpInv' /\ ChannelConservation' /\ ChanInv' /\
     SocketsAgree' /\ PeerInv' /\ DialInv' /\ StableLookup' /\
     FdAccounted'
  BY DEF LockInv, MonInv, EpInv, ChannelConservation, ChanInv, SocketsAgree,
    PeerInv, DialInv, StableLookup, FdAccounted, Pooled, Mapped, MonHolds,
    EpHolds
<1>2. TypeOK'
  BY DEF TypeOK, EpInv, MonPcs, EpPcs
<1>3. QED BY <1>1, <1>2

\* Without the mutex: the channel is mapped, hence not the one the monitor
\* may be publishing, and not a dialled one, whose peer is set.
LEMMA EpRegisterStep ==
  ASSUME IInv, NEW p \in Peers, EpRegister(p)
  PROVE  IInv'
<1> USE DEF IInv, EpRegister, vars, table, fds, monitor, epoll, hash, chans,
      roles
<1>1. LockInv' /\ MonInv' /\ EpInv' /\ ChannelConservation' /\
     SocketsAgree' /\ DialInv' /\ StableLookup' /\ FdAccounted'
  BY DEF LockInv, MonInv, EpInv, ChannelConservation, SocketsAgree, DialInv,
    StableLookup, FdAccounted, Pooled, Mapped, MonHolds, EpHolds
<1>2. TypeOK'
  BY DEF TypeOK, EpInv, MonPcs, EpPcs
<1>3. ChanInv'
  BY DEF ChanInv, TypeOK, EpInv, StableLookup, SocketsAgree, Pooled, MonPcs,
    EpPcs
<1>4. PeerInv'
  BY DEF PeerInv, TypeOK, EpInv, SocketsAgree, DialInv, StableLookup, Mapped,
    MonPcs, EpPcs
<1>5. QED BY <1>1, <1>2, <1>3, <1>4

\* Back to the event loop.
LEMMA EpReadDoneStep ==
  ASSUME IInv, EpReadDone
  PROVE  IInv'
<1> USE DEF IInv, EpReadDone, EpDone, vars, table, fds, monitor, epoll, hash,
      chans, roles
<1>1. TypeOK' /\ LockInv' /\ MonInv' /\ EpInv' /\ ChannelConservation' /\
     ChanInv' /\ SocketsAgree' /\ PeerInv' /\ DialInv' /\ StableLookup'
     /\ FdAccounted'
  BY DEF TypeOK, LockInv, MonInv, EpInv, ChannelConservation, ChanInv,
    SocketsAgree, PeerInv, DialInv, StableLookup, FdAccounted, MonPcs, EpPcs,
    Pooled, Mapped, MonHolds, EpHolds
<1>2. QED BY <1>1

\* The socket stays mapped and open until onDisconnect has the mutex.
LEMMA EpDeadStep ==
  ASSUME IInv, EpDead
  PROVE  IInv'
<1> USE DEF IInv, EpDead, EpGoto, vars, table, fds, monitor, epoll, hash,
      chans, roles
<1>1. TypeOK' /\ LockInv' /\ MonInv' /\ EpInv' /\ ChannelConservation' /\
     ChanInv' /\ SocketsAgree' /\ PeerInv' /\ DialInv' /\ StableLookup'
     /\ FdAccounted'
  BY DEF TypeOK, LockInv, MonInv, EpInv, ChannelConservation, ChanInv,
    SocketsAgree, PeerInv, DialInv, StableLookup, FdAccounted, MonPcs, EpPcs,
    Pooled, Mapped, MonHolds, EpHolds
<1>2. QED BY <1>1

\* The second lookup finds the channel of the first.
LEMMA EpDisconnectLockStep ==
  ASSUME IInv, EpDisconnectLock
  PROVE  IInv'
<1> USE DEF IInv, EpDisconnectLock, EpGoto, vars, table, fds, monitor, epoll,
      hash, chans, roles
<1>1. LockInv' /\ ChannelConservation' /\ ChanInv' /\ SocketsAgree' /\
     PeerInv' /\ DialInv' /\ StableLookup' /\ FdAccounted'
  BY DEF LockInv, ChannelConservation, ChanInv, SocketsAgree, PeerInv,
    DialInv, StableLookup, FdAccounted, Pooled, Mapped, MonHolds, EpHolds
<1>2. TypeOK'
  BY DEF TypeOK, EpInv, MonPcs, EpPcs
<1>3. MonInv'
  BY DEF MonInv, LockInv
<1>4. EpInv'
  BY DEF EpInv, StableLookup
<1>5. QED BY <1>1, <1>2, <1>3, <1>4

\* The owner that loses the channel is the only one: channel->peer names it.
LEMMA EpClearStep ==
  ASSUME IInv, EpClear
  PROVE  IInv'
<1> USE DEF IInv, EpClear, ClearOwner, Owns, EpGoto, vars, table, fds,
      monitor, epoll, hash, chans, roles
<1>1. TypeOK' /\ LockInv' /\ ChannelConservation' /\ ChanInv' /\
     SocketsAgree' /\ PeerInv' /\ StableLookup' /\ FdAccounted'
  BY SMTT(20) DEF TypeOK, LockInv, ChannelConservation, ChanInv, SocketsAgree, PeerInv,
    StableLookup, FdAccounted, MonPcs, EpPcs, Pooled, Mapped, MonHolds,
    EpHolds
<1>2. MonInv'
  BY DEF MonInv, LockInv
<1>3. EpInv'
  BY DEF EpInv, LockInv, SocketsAgree, PeerInv, Mapped
<1>4. DialInv'
  BY DEF DialInv, TypeOK, EpInv, StableLookup, ChannelConservation, MonPcs,
    EpPcs, Pooled, Mapped, MonHolds, EpHolds
<1>5. QED BY <1>1, <1>2, <1>3, <1>4

\* The channel passes from the hash to the epoll thread; by now no peer refers
\* to it.
LEMMA EpUnmapStep ==
  ASSUME IInv, EpUnmap
  PROVE  IInv'
<1> USE DEF IInv, EpUnmap, HashDel, EpGoto, vars, table, fds, monitor, epoll,
      hash, chans, roles
<1>1. LockInv' /\ SocketsAgree' /\ StableLookup' /\ FdAccounted'
  BY DEF LockInv, SocketsAgree, StableLookup, FdAccounted
<1>2. TypeOK'
  BY DEF TypeOK, EpInv, MonPcs, EpPcs
<1>3. MonInv'
  BY DEF MonInv, LockInv
<1>4. EpInv'
  BY DEF EpInv, TypeOK, SocketsAgree, StableLookup, FdAccounted, MonPcs, EpPcs
<1>5. ChannelConservation'
  BY DEF ChannelConservation, TypeOK, EpInv, StableLookup, Pooled, Mapped,
    MonHolds, EpHolds, MonPcs, EpPcs
<1>6. ChanInv'
  BY DEF ChanInv, LockInv, EpInv, StableLookup, Pooled
<1>7. PeerInv'
  BY DEF PeerInv, EpInv, StableLookup, Mapped
<1>8. DialInv'
  BY DEF DialInv, TypeOK, MonPcs, EpPcs
<1>9. QED BY <1>1, <1>2, <1>3, <1>4, <1>5, <1>6, <1>7, <1>8

\* The channel passes, clean, from the epoll thread to the ring.
LEMMA EpRecycleStep ==
  ASSUME IInv, EpRecycle
  PROVE  IInv'
<1> USE DEF IInv, EpRecycle, ResetChannel, RingIn, Unlock, EpGoto, vars,
      table, fds, monitor, epoll, hash, chans, roles
<1>a. /\ channelRing' \in Seq(Channels) /\ Distinct(channelRing')
      /\ \A d : InRing(channelRing', d) <=> InRing(channelRing, d) \/ d = epChan
  BY RingInPuts
<1>1. LockInv' /\ EpInv' /\ ChannelConservation' /\ DialInv' /\
     StableLookup' /\ FdAccounted'
  BY <1>a DEF LockInv, EpInv, ChannelConservation, DialInv, StableLookup,
    FdAccounted, Pooled, Mapped, MonHolds, EpHolds
<1>2. TypeOK'
  BY <1>a DEF TypeOK, EpInv, MonPcs, EpPcs
<1>3. MonInv'
  BY <1>a DEF MonInv, LockInv
<1>4. ChanInv'
  BY <1>a DEF ChanInv, TypeOK, Pooled, MonPcs, EpPcs
<1>5. SocketsAgree'
  BY <1>a DEF SocketsAgree, EpInv
<1>6. PeerInv'
  BY <1>a DEF PeerInv, EpInv, Mapped
<1>7. QED BY <1>1, <1>2, <1>3, <1>4, <1>5, <1>6

\* The descriptor that is closed is mapped no more.
LEMMA EpCloseStep ==
  ASSUME IInv, EpClose
  PROVE  IInv'
<1> USE DEF IInv, EpClose, CloseSock, EpDone, vars, table, fds, monitor,
      epoll, hash, chans, roles
<1>1. LockInv' /\ MonInv' /\ EpInv' /\ ChannelConservation' /\ ChanInv' /\
     DialInv' /\ StableLookup'
  BY DEF LockInv, MonInv, EpInv, ChannelConservation, ChanInv, DialInv,
    StableLookup, Pooled, Mapped, MonHolds, EpHolds
<1>2. TypeOK'
  BY DEF TypeOK, EpInv, MonPcs, EpPcs
<1>3. SocketsAgree'
  BY DEF SocketsAgree, EpInv
<1>4. PeerInv'
  BY DEF PeerInv, EpInv, SocketsAgree, Mapped
<1>5. FdAccounted'
  BY DEF FdAccounted, EpInv
<1>6. QED BY <1>1, <1>2, <1>3, <1>4, <1>5

-----------------------------------------------------------------------------
\* hsModCreate leaves every channel in the ring, once, and no peer connected.
LEMMA InitIInv == Init => IInv
<1> SUFFICES ASSUME Init PROVE IInv
  OBVIOUS
<1> USE DEF Init, InitialRing
<1>1. /\ channelRing \in Seq(Channels)
      /\ Len(channelRing) = 2 * ServerCount
      /\ \A i \in 1..Len(channelRing) : channelRing[i] = i
  <2>1. /\ channelRing \in [Channels -> Channels]
        /\ \A c \in Channels : channelRing[c] = c
        /\ 2 * ServerCount \in Nat
    OBVIOUS
  <2>2. channelRing \in Seq(Channels)
    BY <2>1, SeqDef
  <2>3. Len(channelRing) = 2 * ServerCount
    BY <2>1, <2>2
  <2>4. QED BY <2>1, <2>2, <2>3
<1>2. TypeOK
  BY <1>1 DEF TypeOK, MonPcs, EpPcs
<1>3. ChannelConservation
  BY <1>1 DEF ChannelConservation, Distinct, InRing, Pooled, Mapped, MonHolds,
    EpHolds
<1>4. LockInv /\ MonInv /\ EpInv /\ ChanInv /\ SocketsAgree /\ PeerInv
      /\ DialInv /\ StableLookup /\ FdAccounted
  BY <1>1 DEF LockInv, MonInv, EpInv, ChanInv, SocketsAgree, PeerInv, DialInv,
    StableLookup, FdAccounted, MonPcs, EpPcs
<1>5. QED BY <1>2, <1>3, <1>4 DEF IInv

\* Every step of either thread keeps the inductive invariant.
LEMMA NextIInv == IInv /\ [Next]_vars => IInv'
<1> SUFFICES ASSUME IInv, [Next]_vars PROVE IInv'
  OBVIOUS
<1>1. CASE Monitor
  BY <1>1, MonLockStep, MonSkipStep, MonNoSocketStep, MonConnectOkStep,
     MonConnectFailStep, MonTakeNoneStep, MonTakeStep, MonPublishStep,
     MonMapStep, MonRegisterStep, MonUnlockStep, MonSocketStep DEF Monitor
<1>2. CASE Epoll
  BY <1>2, EpWaitStep, EpAcceptStep, EpEventStep, EpRegisterStep,
     EpAcceptLockStep, EpAcceptNoneStep, EpAcceptTakeStep, EpAcceptMapStep,
     EpLookupStep, EpReadDoneStep, EpDeadStep, EpDisconnectLockStep,
     EpClearStep, EpUnmapStep, EpRecycleStep, EpCloseStep
     DEF Epoll, EpHandle
<1>3. CASE UNCHANGED vars
  BY <1>3 DEF vars, table, fds, monitor, epoll, hash, chans, roles, IInv,
     TypeOK, LockInv, MonInv, EpInv, ChannelConservation, ChanInv, SocketsAgree,
     PeerInv, DialInv, StableLookup, FdAccounted, Pooled, Mapped, MonHolds,
     EpHolds
<1>4. QED BY <1>1, <1>2, <1>3 DEF Next

\* The inductive invariant holds in every reachable state.
THEOREM IInvHolds == Spec => []IInv
BY InitIInv, NextIInv, PTL DEF Spec

-----------------------------------------------------------------------------
(***************************************************************************)
(* The safety properties.                                                  *)
(***************************************************************************)

\* Every variable keeps its type.
THEOREM TypeCorrect == Spec => []TypeOK
<1>1. IInv => TypeOK
  BY DEF IInv
<1>2. QED BY <1>1, IInvHolds, PTL

\* No channel is lost, doubled or freed: each is in the ring, in the hash, or in
\* the hands of one thread.
THEOREM Conservation == Spec => []ChannelConservation
<1>1. IInv => ChannelConservation
  BY DEF IInv
<1>2. QED BY <1>1, IInvHolds, PTL

\* The hash and channel->sock agree on open, watched descriptors.
THEOREM SocketsAgreeAlways == Spec => []SocketsAgree
<1>1. IInv => SocketsAgree
  BY DEF IInv
<1>2. QED BY <1>1, IInvHolds, PTL

\* The channel onRead looked up stays the socket's until onDisconnect unmaps it.
THEOREM LookupIsStable == Spec => []StableLookup
<1>1. IInv => StableLookup
  BY DEF IInv
<1>2. QED BY <1>1, IInvHolds, PTL

\* Only an accept without a free channel leaves a descriptor without an owner.
THEOREM DescriptorsAccounted == Spec => []FdAccounted
<1>1. IInv => FdAccounted
  BY DEF IInv
<1>2. QED BY <1>1, IInvHolds, PTL

\* The ring and the hash have room whenever a channel is put into them.
THEOREM OverflowFree == Spec => []NeverOverflow
BY IInvNeverOverflow, IInvHolds, PTL

\* peer->server, peer->client and channel->peer agree, and no channel serves two
\* peers or plays both roles.
THEOREM PeersAgreeAlways == Spec => []PeersAgree
<1>1. ASSUME IInv PROVE PeersAgree
  <2>1. ASSUME NEW p \in Peers, server[p] # None
        PROVE  /\ chanPeer[server[p]] = p /\ ~Pooled(server[p])
               /\ Mapped(server[p]) => dialed[chanSock[server[p]]] = p
    BY <1>1, <2>1 DEF IInv, TypeOK, PeerInv, ChanInv, ChannelConservation, MonHolds
  <2>2. ASSUME NEW p \in Peers, NEW q \in Peers, server[p] # None
        PROVE  server[p] # client[q]
    <3>1. SUFFICES ASSUME server[p] = client[q] PROVE FALSE
      OBVIOUS
    <3>2. Mapped(client[q]) /\ dialed[chanSock[client[q]]] = None
      BY <1>1, <2>2, <3>1 DEF IInv, PeerInv
    <3>3. dialed[chanSock[server[p]]] = p
      BY <2>1, <2>2, <3>1, <3>2
    <3>4. QED BY <3>1, <3>2, <3>3
  <2>3. QED BY <1>1, <2>1, <2>2 DEF PeersAgree, IInv, PeerInv
<1>2. QED BY <1>1, IInvHolds, PTL

\* A peer has at most one dialled connection that holds a channel.
THEOREM OneDialPerPeerAlways == Spec => []OneDialPerPeer
<1>1. ASSUME IInv PROVE OneDialPerPeer
  BY <1>1 DEF IInv, TypeOK, DialInv, ChannelConservation, OneDialPerPeer,
    MappedSocks
<1>2. QED BY <1>1, IInvHolds, PTL

-----------------------------------------------------------------------------
(***************************************************************************)
(* The pool of 2 * ServerCount channels: who holds them when it is empty.  *)
(***************************************************************************)
DialedSocks == MappedSocks \ AcceptedSocks

\* When no thread carries a channel, an empty ring means every one is mapped.
LEMMA AllMapped ==
  ASSUME IInv, channelRing = <<>>, monPc = "take" \/ epPc = "acceptTake"
  PROVE  IsFiniteSet(MappedSocks) /\ Cardinality(MappedSocks) = 2 * ServerCount
<1> DEFINE f == [s \in MappedSocks |-> sock2Channel[s]]
           n == 2 * ServerCount
<1>1. \A c \in Channels : ~Pooled(c) /\ ~MonHolds(c) /\ ~EpHolds(c)
  BY DEF IInv, LockInv, Pooled, InRing, MonHolds, EpHolds
<1>2. \A c \in Channels : Mapped(c)
  BY <1>1 DEF IInv, ChannelConservation
<1>3. f \in [MappedSocks -> 1..n] /\ \A s, t \in MappedSocks : f[s] = f[t] => s = t
  BY DEF IInv, TypeOK, ChannelConservation, MappedSocks
<1>4. \A c \in 1..n : \E s \in MappedSocks : f[s] = c
  BY <1>2 DEF Mapped, MappedSocks
<1>5. n \in Nat
  OBVIOUS
<1> HIDE DEF f, n
<1>6. f \in Injection(MappedSocks, 1..n) /\ f \in Surjection(MappedSocks, 1..n)
  BY <1>3, <1>4 DEF Injection, IsInjective, Surjection
<1>7. IsFiniteSet(1..n) /\ Cardinality(1..n) = n
  BY <1>5, FS_Interval
<1>8. IsFiniteSet(MappedSocks) /\ Cardinality(MappedSocks) = n
  BY <1>6, <1>7, FS_Injection
<1>9. QED BY <1>8 DEF n

\* Dialled connections go to different peers: there are no more of them than
\* peers they go to.
LEMMA DialedBound ==
  ASSUME IInv, IsFiniteSet(MappedSocks), epPc # "unmap", NEW P \in SUBSET Peers,
         \A s \in DialedSocks : dialed[s] \in P
  PROVE  Cardinality(DialedSocks) <= Cardinality(P)
<1> DEFINE g == [s \in DialedSocks |-> dialed[s]]
<1>1. g \in [DialedSocks -> P]
  OBVIOUS
<1>2. \A s, t \in DialedSocks : g[s] = g[t] => s = t
  BY DEF IInv, TypeOK, DialInv, ChannelConservation, DialedSocks, AcceptedSocks,
    MappedSocks
<1> HIDE DEF g
<1>3. g \in Injection(DialedSocks, P)
  BY <1>1, <1>2 DEF Injection, IsInjective
<1>4. IsFiniteSet(Peers)
  BY FS_Interval
<1>5. IsFiniteSet(P)
  BY <1>4, FS_Subset
<1>6. QED BY <1>3, <1>5, FS_Injection

\* Whoever finds the ring empty shares the pool with at least as many accepted
\* connections as the dialled ones leave over.
LEMMA AcceptedCount ==
  ASSUME IInv, IsFiniteSet(MappedSocks)
  PROVE  /\ Cardinality(AcceptedSocks) \in Nat
         /\ Cardinality(DialedSocks) \in Nat
         /\ Cardinality(AcceptedSocks)
              = Cardinality(MappedSocks) - Cardinality(DialedSocks)
<1>1. IsFiniteSet(AcceptedSocks) /\ IsFiniteSet(DialedSocks)
  BY FS_Subset DEF AcceptedSocks, DialedSocks
<1>2. /\ Cardinality(AcceptedSocks) \in Nat /\ Cardinality(DialedSocks) \in Nat
      /\ Cardinality(MappedSocks) \in Nat
  BY <1>1, FS_CardinalityType
<1>3. AcceptedSocks \cap DialedSocks = {} /\ MappedSocks = AcceptedSocks \cup DialedSocks
  BY DEF AcceptedSocks, DialedSocks
<1>4. Cardinality(AcceptedSocks \cup DialedSocks)
        = Cardinality(AcceptedSocks) + Cardinality(DialedSocks)
          - Cardinality(AcceptedSocks \cap DialedSocks)
  BY <1>1, FS_Union
<1>5. Cardinality(AcceptedSocks \cap DialedSocks) = 0
  BY <1>3, FS_EmptySet
<1>6. QED BY <1>2, <1>3, <1>4, <1>5

\* A dialled connection is turned away only while more than ServerCount accepted
\* ones hold channels, an accepted one only while ServerCount do.
THEOREM PoolShortageAlways == Spec => []PoolShortage
<1>1. ASSUME IInv, channelRing = <<>>, monPc = "take"
      PROVE  Cardinality(AcceptedSocks) > ServerCount
  <2>1. IsFiniteSet(MappedSocks) /\ Cardinality(MappedSocks) = 2 * ServerCount
    BY <1>1, AllMapped
  <2>2. epPc # "unmap" /\ monCur \in Peers /\ server[monCur] = None
    BY <1>1 DEF IInv, LockInv, MonInv
  <2>3. \A s \in DialedSocks : dialed[s] \in Peers \ {monCur}
    BY <1>1, <2>2 DEF IInv, TypeOK, DialInv, DialedSocks, AcceptedSocks, MappedSocks
  <2>4. Cardinality(DialedSocks) <= Cardinality(Peers \ {monCur})
    BY <1>1, <2>1, <2>2, <2>3, DialedBound
  <2>5. IsFiniteSet(Peers) /\ Cardinality(Peers) = PeerCount
    BY FS_Interval
  <2> HIDE DEF Peers
  <2>6. Cardinality(Peers \ {monCur}) = PeerCount - 1
    BY <2>2, <2>5, FS_RemoveElement
  <2>7. QED BY <1>1, <2>1, <2>4, <2>6, AcceptedCount
<1>2. ASSUME IInv, channelRing = <<>>, epPc = "acceptTake"
      PROVE  Cardinality(AcceptedSocks) >= ServerCount
  <2>1. IsFiniteSet(MappedSocks) /\ Cardinality(MappedSocks) = 2 * ServerCount
    BY <1>2, AllMapped
  <2>2. \A s \in DialedSocks : dialed[s] \in Peers
    BY <1>2 DEF IInv, TypeOK, DialedSocks, AcceptedSocks, MappedSocks
  <2>3. Cardinality(DialedSocks) <= Cardinality(Peers)
    BY <1>2, <2>1, <2>2, DialedBound
  <2>4. Cardinality(Peers) = PeerCount
    BY FS_Interval
  <2>5. QED BY <1>2, <2>1, <2>3, <2>4, AcceptedCount
<1>3. IInv => PoolShortage
  BY <1>1, <1>2 DEF PoolShortage
<1>4. QED BY <1>3, IInvHolds, PTL

-----------------------------------------------------------------------------
(***************************************************************************)
(* Steps: what a step may never do, and the refinement of ChannelPool.     *)
(***************************************************************************)

\* A live server channel is given up only by the teardown of its own connection.
THEOREM ServerKept == Spec => ServerKeptWhileAlive
<1> DEFINE Kept == \A p \in Peers : server[p] # None /\ server'[p] # server[p] =>
                     /\ server'[p] = None
                     /\ epPc = "clear" /\ connectionMutex = "epoll"
                     /\ dialed[epSock] = p /\ chanSock[server[p]] = epSock
<1>1. ASSUME IInv, MonPublish PROVE Kept
  BY <1>1 DEF IInv, TypeOK, MonInv, MonPublish
<1>2. ASSUME IInv, EpClear PROVE Kept
  BY <1>2 DEF IInv, TypeOK, LockInv, EpInv, PeerInv, SocketsAgree, StableLookup,
    EpClear, ClearOwner, Owns
<1>3. ASSUME Next, ~MonPublish, ~EpClear PROVE server' = server
  BY <1>3 DEF Next, Monitor, Epoll, EpHandle, MonLock, MonSkip, MonSocket,
    MonNoSocket, MonConnectOk, MonConnectFail, MonTakeNone, MonTake, MonMap,
    MonRegister, MonUnlock, EpWait, EpAccept, EpAcceptLock, EpAcceptNone,
    EpAcceptTake, EpAcceptMap, EpEvent, EpLookup, EpRegister, EpReadDone, EpDead,
    EpDisconnectLock, EpUnmap, EpRecycle, EpClose, table, roles
<1>4. IInv /\ [Next]_vars => [Kept]_vars
  BY <1>1, <1>2, <1>3
<1>5. QED BY <1>4, IInvHolds, PTL DEF Spec, ServerKeptWhileAlive

\* HsConn implements ChannelPool with channel->sock as the holder: a channel
\* serves one socket at a time, no two channels the same one.
THEOREM Refinement == Spec => PoolSpec
<1>1. Init => Pool!Init
  BY DEF Init, Pool!Init
<1>2. ASSUME IInv, MonPublish PROVE Pool!Next
  <2>1. monChan \in Channels /\ monSock \in Socks
    BY <1>2 DEF IInv, TypeOK, MonInv, MonPublish
  <2>2. Pool!Lease(monChan, monSock)
    BY <1>2 DEF IInv, TypeOK, LockInv, MonInv, ChanInv, MonPublish, Pool!Lease
  <2>3. QED BY <2>1, <2>2 DEF Pool!Next
<1>3. ASSUME IInv, EpAcceptMap PROVE Pool!Next
  <2>1. epChan \in Channels /\ epSock \in Socks
    BY <1>3 DEF IInv, TypeOK, EpInv, EpAcceptMap
  <2>2. Pool!Lease(epChan, epSock)
    BY <1>3, <2>1 DEF IInv, TypeOK, LockInv, EpInv, ChanInv, EpAcceptMap, Pool!Lease
  <2>3. QED BY <2>1, <2>2 DEF Pool!Next
<1>4. ASSUME IInv, EpRecycle PROVE Pool!Next
  <2>1. epChan \in Channels /\ epSock \in Socks
    BY <1>4 DEF IInv, TypeOK, EpInv, EpRecycle
  <2>2. Pool!Release(epChan)
    BY <1>4, <2>1 DEF IInv, TypeOK, EpInv, EpRecycle, ResetChannel, Pool!Release
  <2>3. QED BY <2>1, <2>2 DEF Pool!Next
<1>5. ASSUME Next, ~MonPublish, ~EpAcceptMap, ~EpRecycle PROVE chanSock' = chanSock
  BY <1>5 DEF Next, Monitor, Epoll, EpHandle, MonLock, MonSkip, MonSocket,
    MonNoSocket, MonConnectOk, MonConnectFail, MonTakeNone, MonTake, MonMap,
    MonRegister, MonUnlock, EpWait, EpAccept, EpAcceptLock, EpAcceptNone,
    EpAcceptTake, EpEvent, EpLookup, EpRegister, EpReadDone, EpDead,
    EpDisconnectLock, EpClear, EpUnmap, EpClose, table, chans
<1>6. UNCHANGED vars => chanSock' = chanSock
  BY DEF vars, table, chans
<1>7. IInv /\ [Next]_vars => [Pool!Next]_chanSock
  BY <1>2, <1>3, <1>4, <1>5, <1>6
<1>8. QED BY <1>1, <1>7, IInvHolds, PTL DEF Spec, PoolSpec, Pool!Spec
=============================================================================
