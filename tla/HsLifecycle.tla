---------------------------- MODULE HsLifecycle ----------------------------
(***************************************************************************)
(* One HsMod from hsModCreate to hsModDelete: the thread that owns it (the *)
(* serverProc of test/main.c) adds peers, starts the monitor and the epoll *)
(* thread, sends, and deletes it while the two are still at work.          *)
(*                                                                         *)
(* What a thread does in one turn of its loop is a program: a sequence of  *)
(* operations, each of which uses some of what hsModCreate allocated.  A   *)
(* function of the source is such a sequence, and a call is its place in   *)
(* the caller's.  hsModStart and hsModDelete are programs of the owner.    *)
(*                                                                         *)
(* Both builds of HsConfig.h are here: with the system's epoll ("sys") and *)
(* with OFP ("ofp").                                                       *)
(***************************************************************************)
EXTENDS Integers, Sequences, FiniteSets, SequencesExt

CONSTANT ServerCount   \* hsModCreate's serverCount

ASSUME ServerCountAssumption == ServerCount \in Nat \ {0}

Threads == {"monitorThread", "epollThread"}
Channels == 1..(2 * ServerCount)
Resources == Threads \cup {"mod", "selfIp", "mutex", "hash", "ring", "peers", "epoll"}

VARIABLES build,      \* HS_EPOLL_TYPE
          phase,      \* which of the functions of HsMod.h the owner has called
          plan,       \* what the owner's call has still to do
          peerCur, peerCount,
          alive,      \* the allocations that are not freed yet
          place,      \* where a channel is: "ring", "hash", a thread, "freed"
          running,    \* thread->isRunning
          up,         \* "none", "up", "ended"
          todo,       \* what a thread has still to do in this turn of its loop
          owner, depth,   \* connectionMutex
          bad         \* history: what was used and not there

counts == <<peerCur, peerCount>>
lock   == <<owner, depth>>
vars   == <<build, phase, plan, counts, alive, place, running, up, todo, lock, bad>>

Operations == {"lock", "unlock", "find", "map", "unmap", "take", "recycle",
               "peers", "connect", "watch", "hang"}

TypeOK ==
  /\ build \in {"sys", "ofp"}
  /\ phase \in {"ready", "started", "deleting", "done"}
  /\ plan \in Seq({"count", "run", "create", "stop", "join", "empty", "free"} \X Resources)
  /\ peerCur \in 0..ServerCount /\ peerCount \in 0..peerCur
  /\ alive \subseteq Resources
  /\ place \in [Channels -> {"ring", "hash", "freed"} \cup Threads]
  /\ running \in [Threads -> BOOLEAN]
  /\ up \in [Threads -> {"none", "up", "ended"}]
  /\ todo \in [Threads -> Seq(Operations)]
  /\ owner \in Threads \cup {"none"} /\ depth \in 0..2
  /\ bad \subseteq Resources

\* hsModCreate has returned.
Init ==
  /\ build \in {"sys", "ofp"}
  /\ phase = "ready" /\ plan = <<>>
  /\ peerCur = 0 /\ peerCount = 0
  /\ alive = Resources
  /\ place = [c \in Channels |-> "ring"]
  /\ running = [t \in Threads |-> FALSE]
  /\ up = [t \in Threads |-> "none"]
  /\ todo = [t \in Threads |-> <<>>]
  /\ owner = "none" /\ depth = 0
  /\ bad = {}

\* Uses what is in the set.
Touch(used) == bad' = bad \cup (used \ alive)

-----------------------------------------------------------------------------
(***************************************************************************)
(* connectionMutex.                                                        *)
(***************************************************************************)
\* hsModCreate asks for the recursive spin lock.
MutexType == 2

Got(t) == owner = "none" \/ (owner = t /\ MutexType # 1)

\* A lock that was freed may be found taken for ever, or be got by anyone.
Lock(t) ==
  \/ /\ "mutex" \in alive /\ Got(t)
     /\ owner' = t /\ depth' = depth + 1
     /\ todo' = [todo EXCEPT ![t] = Tail(@)]
  \/ /\ "mutex" \notin alive
     /\ \E rest \in {Tail(todo[t]), <<"hang">>} : todo' = [todo EXCEPT ![t] = rest]
     /\ UNCHANGED lock

Unlock(t) ==
  /\ IF "mutex" \in alive
     THEN /\ depth' = depth - 1
          /\ owner' = IF depth = 1 THEN "none" ELSE owner
     ELSE UNCHANGED lock
  /\ todo' = [todo EXCEPT ![t] = Tail(@)]

-----------------------------------------------------------------------------
(***************************************************************************)
(* What the threads do.                                                    *)
(***************************************************************************)
getChannelBySockId == <<"lock", "find", "unlock">>
hsSock2ChannelOnAccept == <<"lock", "find", "take", "map", "watch", "unlock">>
onDisconnect == <<"lock", "find", "peers", "unmap", "recycle", "unlock", "watch">>
hsEchoRingTimeOutCheck == <<"peers">>

\* No channel; a packet; a connection that is dead.
onRead == {getChannelBySockId,
           getChannelBySockId \o <<"peers", "watch">>,
           getChannelBySockId \o onDisconnect}

\* Mutant: onWrite returns at once when there is nothing to send.
onWrite_Returns == {<<"lock">> \o getChannelBySockId,
                    <<"lock">> \o getChannelBySockId \o <<"peers", "watch", "unlock">>}

\* No channel or nothing to send; an item.
onWrite == {<<"lock">> \o getChannelBySockId \o <<"unlock">>,
            <<"lock">> \o getChannelBySockId \o <<"peers", "watch", "unlock">>}

\* The OFP build asks the channels in the hash, without the mutex, on every turn.
\* Bound: one of them has something to send.
onData == {<<"find">>} \cup {<<"find">> \o w : w \in onWrite}

\* Bound: epoll_wait returns one event at a time (20 in the code).
hsEpollOp ==
  LET events == {<<>>, hsSock2ChannelOnAccept} \cup onRead
  IN  IF build = "sys" THEN events \cup onWrite
      ELSE {e \o d : e \in events, d \in onData}

\* A peer that has a channel, one that cannot be reached, one that is dialled.
Dials == {<<"peers">>, <<"peers", "connect">>,
          <<"peers", "connect", "take", "map", "watch">>}

\* hsMonitorCheckConnection: a turn for each peer.
hsMonitorCheckConnection ==
  {<<"lock">> \o FlattenSeq(turns) \o <<"unlock">> : turns \in [1..peerCount -> Dials]}

\* It is not time yet; it is.
Turns(t) == IF t = "monitorThread" THEN {<<>>} \cup hsMonitorCheckConnection
            ELSE {echo \o event : echo \in {<<>>, hsEchoRingTimeOutCheck},
                                  event \in hsEpollOp}

\* hsMonitorThread, hsEpollThread: the loop looks at isRunning, then takes a turn,
\* the epoll thread's with epoll_wait.
Loop(t) ==
  /\ up[t] = "up" /\ todo[t] = <<>>
  /\ Touch({t, "mod"} \cup IF running[t] /\ t = "epollThread" THEN {"epoll"} ELSE {})
  /\ IF running[t]
     THEN \E turn \in Turns(t) : todo' = [todo EXCEPT ![t] = turn] /\ UNCHANGED up
     ELSE up' = [up EXCEPT ![t] = "ended"] /\ UNCHANGED todo
  /\ UNCHANGED <<build, phase, plan, counts, alive, place, running, lock>>

\* A channel goes from one place to another, if there is one.
Move(from, dest) ==
  IF \E c \in Channels : place[c] = from
  THEN \E c \in Channels : place[c] = from /\ place' = [place EXCEPT ![c] = dest]
  ELSE UNCHANGED place

Uses(op) == CASE op \in {"lock", "unlock"}        -> {"mod", "mutex"}
              [] op \in {"find", "map", "unmap"}  -> {"mod", "hash"}
              [] op \in {"take", "recycle"}       -> {"mod", "ring"}
              [] op = "connect"                   -> {"mod", "epoll", "selfIp", "peers"}
              [] op = "peers"                     -> {"mod", "peers"}
              [] op = "watch"                     -> {"mod", "epoll"}

\* The next operation of the turn.
Step(t) ==
  /\ todo[t] # <<>> /\ Head(todo[t]) # "hang"
  /\ LET op == Head(todo[t])
     IN  /\ Touch(Uses(op))
         /\ CASE op = "lock"   -> Lock(t)
              [] op = "unlock" -> Unlock(t)
              [] OTHER         -> todo' = [todo EXCEPT ![t] = Tail(@)] /\ UNCHANGED lock
         /\ CASE op = "take"    -> Move("ring", t)
              [] op = "map"     -> Move(t, "hash")
              [] op = "unmap"   -> Move("hash", t)
              [] op = "recycle" -> Move(t, "ring")
              [] OTHER          -> UNCHANGED place
  /\ UNCHANGED <<build, phase, plan, counts, alive, running, up>>

-----------------------------------------------------------------------------
(***************************************************************************)
(* What the owner does.                                                    *)
(***************************************************************************)
hsModAddPeer ==
  /\ phase \in {"ready", "started"} /\ plan = <<>>
  /\ peerCur < ServerCount
  /\ peerCur' = peerCur + 1
  /\ Touch({"mod", "peers"})
  /\ UNCHANGED <<build, phase, plan, peerCount, alive, place, running, up, todo, lock>>

\* sendOnePeer, to all peers or to one.
hsModSend ==
  /\ phase \in {"ready", "started"} /\ plan = <<>>
  /\ Touch({"mod", "peers", "epoll"})
  /\ UNCHANGED <<build, phase, plan, counts, alive, place, running, up, todo, lock>>

\* Mutant: the thread may look at isRunning before it is set.
ThreadStart_SetsLate(t) == <<<<"create", t>>, <<"run", t>>>>

ThreadStart(t) == <<<<"run", t>>, <<"create", t>>>>

hsModStart ==
  /\ phase = "ready" /\ plan = <<>>
  /\ phase' = "started"
  /\ plan' = <<<<"count", "peers">>>> \o ThreadStart("epollThread")
                                      \o ThreadStart("monitorThread")
  /\ UNCHANGED <<build, counts, alive, place, running, up, todo, lock, bad>>

ThreadFini(t) == <<<<"stop", t>>, <<"join", t>>>>
Free(r) == <<<<"free", r>>>>

\* Mutant: the channels in the hash are freed before the monitor has stopped.
DeleteOrder_HashFirst ==
  Free("selfIp") \o Free("mutex")
  \o ThreadFini("epollThread") \o Free("epollThread")
  \o <<<<"empty", "hash">>>>
  \o ThreadFini("monitorThread") \o Free("monitorThread") \o Free("hash")
  \o <<<<"empty", "ring">>>> \o Free("ring")
  \o Free("peers") \o Free("epoll") \o Free("mod")

\* Mutant: the thread's struct is freed before the thread is joined.
DeleteOrder_FreesThread ==
  Free("selfIp") \o Free("mutex")
  \o Free("epollThread") \o ThreadFini("epollThread")
  \o ThreadFini("monitorThread") \o Free("monitorThread")
  \o <<<<"empty", "hash">>>> \o Free("hash")
  \o <<<<"empty", "ring">>>> \o Free("ring")
  \o Free("peers") \o Free("epoll") \o Free("mod")

DeleteOrder ==
  Free("selfIp") \o Free("mutex")
  \o ThreadFini("epollThread") \o Free("epollThread")
  \o ThreadFini("monitorThread") \o Free("monitorThread")
  \o <<<<"empty", "hash">>>> \o Free("hash")
  \o <<<<"empty", "ring">>>> \o Free("ring")
  \o Free("peers") \o Free("epoll") \o Free("mod")

hsModDelete ==
  /\ phase \in {"ready", "started"} /\ plan = <<>>
  /\ phase' = "deleting" /\ plan' = DeleteOrder
  /\ UNCHANGED <<build, counts, alive, place, running, up, todo, lock, bad>>

CountPeers == peerCount' = peerCur

\* Mutant: isRunning is left as it is in both builds.
Stop_Missing(t) == t \in Threads /\ UNCHANGED running

\* hsThreadStop clears isRunning; hsOfpThreadStop does not.
Stop(t) == running' = IF build = "sys" THEN [running EXCEPT ![t] = FALSE] ELSE running

\* The next operation of the owner's call.
Own ==
  /\ plan # <<>>
  /\ plan' = Tail(plan)
  /\ LET op == Head(plan)[1]
         x  == Head(plan)[2]
     IN  /\ CASE op = "count"  -> CountPeers /\ UNCHANGED <<alive, place, running, up>>
              [] op = "run"    -> /\ running' = [running EXCEPT ![x] = TRUE]
                                  /\ UNCHANGED <<peerCount, alive, place, up>>
              [] op = "create" -> /\ up' = [up EXCEPT ![x] = "up"]
                                  /\ UNCHANGED <<peerCount, alive, place, running>>
              [] op = "stop"   -> Stop(x) /\ UNCHANGED <<peerCount, alive, place, up>>
              [] op = "join"   -> /\ up[x] # "up"
                                  /\ UNCHANGED <<peerCount, alive, place, running, up>>
              [] op = "empty"  -> /\ place' = [c \in Channels |->
                                       IF place[c] = x THEN "freed" ELSE place[c]]
                                  /\ UNCHANGED <<peerCount, alive, running, up>>
              [] op = "free"   -> /\ alive' = alive \ {x}
                                  /\ UNCHANGED <<peerCount, place, running, up>>
         /\ Touch({"mod"} \cup {x})
  /\ phase' = IF phase = "deleting" /\ Len(plan) = 1 THEN "done" ELSE phase
  /\ UNCHANGED <<build, peerCur, todo, lock>>

Next ==
  \/ hsModAddPeer \/ hsModSend \/ hsModStart \/ hsModDelete \/ Own
  \/ \E t \in Threads : Loop(t) \/ Step(t)

Spec == Init /\ [][Next]_vars

\* The threads keep running, and one that finds the mutex free again and again
\* gets it.
Fairness == WF_vars(Own) /\ \A t \in Threads : WF_vars(Loop(t)) /\ SF_vars(Step(t))

FairSpec == Spec /\ Fairness

-----------------------------------------------------------------------------
Held(t) == Cardinality({i \in 1..Len(todo[t]) : todo[t][i] = "unlock"})
           - Cardinality({i \in 1..Len(todo[t]) : todo[t][i] = "lock"})

\* onWrite calls getChannelBySockId with the mutex held: as long as the mutex is
\* there, a thread holds it as often as it has locked it and not unlocked it, and
\* one thread at a time does.
LockMatches ==
  "mutex" \in alive => \A t \in Threads : Held(t) = IF owner = t THEN depth ELSE 0

\* hsModDelete 534-560: of all it frees, the threads that still run use only the
\* address of this node and the mutex.
FreedUnused == bad \subseteq {"selfIp", "mutex"}

\* hsThreadStart 48: a thread leaves its loop only when the module is deleted.
EndsWhenDeleted ==
  \A t \in Threads : up[t] = "ended" => phase \in {"deleting", "done"}

\* hsModDelete 544-552: wherever the channels are when the threads are stopped,
\* each one is freed.
ChannelsFreed == phase = "done" => \A c \in Channels : place[c] = "freed"

Hung == \E t \in Threads : todo[t] = <<"hang">>

\* hsThreadStop 64: with the system's epoll hsModDelete returns, unless a thread
\* hangs on the mutex that was freed.
DeleteReturns == phase = "deleting" /\ build = "sys" ~> phase = "done" \/ Hung
=============================================================================
