------------------------ MODULE TelemetryClientProofs ------------------------
(***************************************************************************)
(* Proofs about the telemetry clients, for any number of them, with any    *)
(* paths and any bound on the requests.                                    *)
(***************************************************************************)
EXTENDS TelemetryClient, Integers, SequenceTheorems, TLAPS

USE PathAssumption, RequestsAssumption, NoneAssumption

-----------------------------------------------------------------------------
(***************************************************************************)
(* Sequences without duplicates.                                           *)
(***************************************************************************)
Has(s) == {s[i] : i \in DOMAIN s}
Distinct(s) == \A i, j \in DOMAIN s : s[i] = s[j] => i = j

\* The empty sequence has nothing.
LEMMA HasNone == Has(<<>>) = {} /\ Distinct(<<>>)
BY DEF Has, Distinct

\* What is appended is had besides, and is still distinct when it is new.
LEMMA HasAppend ==
  ASSUME NEW S, NEW s \in Seq(S), NEW x \in S
  PROVE  /\ Append(s, x) \in Seq(S) /\ Has(Append(s, x)) = Has(s) \cup {x}
         /\ Distinct(s) /\ x \notin Has(s) => Distinct(Append(s, x))
<1> DEFINE r == Append(s, x)
<1>1. /\ r \in Seq(S) /\ Len(r) = Len(s) + 1 /\ Len(s) \in Nat
      /\ \A i \in 1..Len(s) : r[i] = s[i]
      /\ r[Len(s) + 1] = x
  BY AppendProperties, LenProperties
<1>2. DOMAIN s = 1..Len(s) /\ DOMAIN r = 1..(Len(s) + 1)
  <2>1. \A q \in Seq(S) : DOMAIN q = 1..Len(q)
    OBVIOUS
  <2> HIDE DEF r
  <2>2. QED BY <1>1, <2>1
<1> HIDE DEF r
<1>3. Has(r) = Has(s) \cup {x}
  BY <1>1, <1>2 DEF Has
<1>4. ASSUME Distinct(s), x \notin Has(s) PROVE Distinct(r)
  BY <1>1, <1>2, <1>4 DEF Distinct, Has
<1>5. QED BY <1>1, <1>3, <1>4 DEF r

\* What is taken off the front is had no more, when all are distinct.
LEMMA HasTail ==
  ASSUME NEW S, NEW s \in Seq(S), s # <<>>
  PROVE  /\ Head(s) \in S /\ Head(s) \in Has(s) /\ Tail(s) \in Seq(S)
         /\ Has(Tail(s)) \subseteq Has(s)
         /\ Distinct(s) => Distinct(Tail(s)) /\ Head(s) \notin Has(Tail(s))
<1> DEFINE r == Tail(s)
           h == Head(s)
<1>1. /\ r \in Seq(S) /\ h \in S /\ Len(s) \in Nat /\ Len(s) > 0 /\ h = s[1]
      /\ Len(r) = Len(s) - 1 /\ \A i \in 1..Len(r) : r[i] = s[i + 1]
  BY HeadTailProperties, LenProperties, EmptySeq
<1>2. DOMAIN s = 1..Len(s) /\ DOMAIN r = 1..Len(r)
  <2>1. \A q \in Seq(S) : DOMAIN q = 1..Len(q)
    OBVIOUS
  <2> HIDE DEF r
  <2>2. QED BY <1>1, <2>1
<1> HIDE DEF r, h
<1>3. h \in Has(s) /\ Has(r) \subseteq Has(s)
  BY <1>1, <1>2 DEF Has
<1>4. ASSUME Distinct(s) PROVE Distinct(r) /\ h \notin Has(r)
  <2>1. \A i \in DOMAIN r : i + 1 \in DOMAIN s /\ 1 \in DOMAIN s /\ i + 1 # 1 /\ r[i] = s[i + 1]
    BY <1>1, <1>2
  <2>2. \A i, j \in DOMAIN r : i \in Nat /\ j \in Nat
    BY <1>1, <1>2
  <2>3. Distinct(r)
    <3> SUFFICES ASSUME NEW i \in DOMAIN r, NEW j \in DOMAIN r, r[i] = r[j] PROVE i = j
      BY DEF Distinct
    <3>1. i + 1 = j + 1
      BY <1>4, <2>1 DEF Distinct
    <3>2. QED BY <2>2, <3>1
  <2>4. h \notin Has(r)
    <3> SUFFICES ASSUME NEW i \in DOMAIN r, r[i] = h PROVE FALSE
      BY DEF Has
    <3>1. QED BY <1>1, <1>4, <2>1 DEF Distinct
  <2>5. QED BY <2>3, <2>4
<1>5. QED BY <1>1, <1>3, <1>4 DEF r, h

-----------------------------------------------------------------------------
(***************************************************************************)
(* The inductive invariant.                                                *)
(***************************************************************************)
\* Where a client stands, and what it has said to the server by then.
Stage(c) ==
  /\ asked[c] + left[c] <= MaxRequests
  /\ pc[c] \in Registering =>
       client_fd[c] = None /\ choice[c] = 0 /\ unregs[c] = 0 /\ unregistered[c] = 0
  /\ pc[c] \in {"menu", "repeat", "recv"} =>
       choice[c] = 0 /\ unregs[c] = 0 /\ unregistered[c] = 0
  /\ pc[c] = "unregSend" => choice[c] = 4 /\ unregs[c] = 0 /\ unregistered[c] = 0
  /\ pc[c] = "unregClose" => choice[c] = 4 /\ unregs[c] = 1 /\ unregistered[c] = 0
  /\ pc[c] = "exit" => \/ unregistered[c] = 1 /\ unregs[c] = 1
                       \/ unregistered[c] = 0 /\ unregs[c] = 0
                       \/ unregistered[c] = 0 /\ unregs[c] = 1 /\ c \in interrupted
  /\ pc[c] = "gone" /\ c \notin killed /\ client_fd[c] \notin hungUp =>
       unregs[c] = 1 \/ (unregs[c] = 2 /\ c \in interrupted)

Stages == \A c \in Clients : Stage(c)

\* The statements before a client has registered.
Early == {"exists", "unlink", "bind", "send"}

\* A connection is in one place: on its way to the server, waiting in one client's
\* recv_fd or that client's client_fd.  It is closed when its client has closed it or
\* is gone.
Apart ==
  /\ Distinct(regs)
  /\ \A c \in Clients :
       /\ Distinct(backlog[c])
       /\ Has(regs) \cap Has(backlog[c]) = {}
       /\ client_fd[c] \notin Has(regs)
       /\ \A d \in Clients : client_fd[c] \notin Has(backlog[d])
       /\ \A d \in Clients : d # c => /\ Has(backlog[c]) \cap Has(backlog[d]) = {}
                                      /\ client_fd[c] # None => client_fd[c] # client_fd[d]
  /\ \A k \in Clients : pc[k] \in Early =>
       k \notin closed /\ k \notin Has(regs)
       /\ \A c \in Clients : client_fd[c] # k /\ k \notin Has(backlog[c])
  /\ \A k \in closed :
       k \notin Has(regs)
       /\ \A c \in Clients : /\ k \notin Has(backlog[c])
                             /\ client_fd[c] = k => pc[c] = "gone" \/ unregistered[c] = 1

\* What is on its way on the connection of a client that was not interrupted: the
\* request it waits for an answer to, or that answer.
Exchange(c) ==
  LET k == client_fd[c]
  IN  /\ pc[c] \in {"menu", "repeat"} => k \in hungUp \/ (req[k] = <<>> /\ resp[k] = <<>>)
      /\ pc[c] = "recv" => /\ asked[c] > 0
                           /\ \/ req[k] = <<asked[c]>> /\ resp[k] = <<>>
                              \/ req[k] = <<>> /\ resp[k] = <<asked[c]>>
      /\ answer[c][2] \in {0, answer[c][1]}

Exchanges ==
  /\ answer \in [Clients -> Nat \X Nat]
  /\ \A k \in Clients : (\A c \in Clients : client_fd[c] # k) => req[k] = <<>> /\ resp[k] = <<>>
  /\ \A c \in Clients \ interrupted : Exchange(c)

IInv == TypeOK /\ Stages /\ Apart /\ Exchanges

\* It holds at first.
LEMMA InitHolds == Init => IInv
<1> SUFFICES ASSUME Init PROVE IInv
  OBVIOUS
<1>1. TypeOK
  BY DEF Init, TypeOK, States, InMenu, Registering
<1>2. Stages
  <2> SUFFICES ASSUME NEW c \in Clients PROVE Stage(c)
    BY DEF Stages
  <2>1. /\ pc[c] = "exists" /\ client_fd[c] = None /\ choice[c] = 0 /\ asked[c] = 0
        /\ left[c] = 0 /\ unregs[c] = 0 /\ unregistered[c] = 0
    BY DEF Init
  <2>2. QED BY <2>1 DEF Stage
<1>3. Apart
  BY HasNone DEF Init, Apart
<1>4. Exchanges
  BY DEF Init, Exchanges, Exchange
<1>5. QED BY <1>1, <1>2, <1>3, <1>4 DEF IInv

-----------------------------------------------------------------------------
(***************************************************************************)
(* Steps of a client that the server and the connections do not notice.    *)
(***************************************************************************)
\* What such a step does, when it leaves c at p.
Moves(c, p) ==
  /\ pc' = [pc EXCEPT ![c] = p] /\ p \in States
  /\ UNCHANGED <<regs, backlog, req, resp, registered, closed, hungUp, client_fd, asked,
                 unregistered, answer, killed, unregs>>
  /\ file' \in [Paths -> Clients \cup {None, "stale"}]
  /\ bound' \subseteq Clients /\ listening' \subseteq bound'
  /\ left' \in [Clients -> 0..MaxRequests] /\ choice' \in [Clients -> {0, 4}]
  /\ interrupted' \subseteq Clients
  /\ \A d \in Clients : d # c => /\ left'[d] = left[d] /\ choice'[d] = choice[d]
                                 /\ d \in interrupted' <=> d \in interrupted
  /\ c \in interrupted => c \in interrupted'
  /\ p \in Early => pc[c] \in Early
  /\ p \in InMenu \cup {"exit"} => pc[c] \in InMenu
  /\ p \in {"menu", "repeat"} => pc[c] \in {"menu", "repeat"} \/ c \in interrupted'
  /\ p \notin {"recv", "gone"} /\ pc[c] # "gone"

\* A step that only moves a client on keeps it.
LEMMA MovesHold ==
  ASSUME IInv, NEW c \in Clients, NEW p, Moves(c, p), Stage(c)'
  PROVE  IInv'
<1>1. /\ pc' = [pc EXCEPT ![c] = p] /\ p \in States
      /\ UNCHANGED <<regs, backlog, req, resp, registered, closed, hungUp, client_fd, asked,
                     unregistered, answer, killed, unregs>>
      /\ pc \in [Clients -> States]
      /\ pc'[c] = p /\ \A d \in Clients : d # c => pc'[d] = pc[d]
  BY DEF Moves, IInv, TypeOK
<1>2. TypeOK'
  <2>1. \A d \in Clients : pc'[d] \in InMenu \cup {"exit"} => pc[d] \in InMenu \cup {"exit"}
    BY <1>1 DEF Moves
  <2>2. pc' \in [Clients -> States]
    BY <1>1
  <2>3. QED BY <1>1, <2>1, <2>2 DEF IInv, TypeOK, Moves
<1>3. Stages'
  <2> SUFFICES ASSUME NEW d \in Clients, d # c PROVE Stage(d)'
    BY DEF Stages
  <2>1. Stage(d)
    BY DEF IInv, Stages
  <2>2. /\ pc'[d] = pc[d] /\ left'[d] = left[d] /\ choice'[d] = choice[d]
        /\ d \in interrupted' <=> d \in interrupted
    BY <1>1 DEF Moves
  <2>3. QED BY <1>1, <2>1, <2>2 DEF Stage
<1>4. Apart'
  <2>1. \A d \in Clients : pc'[d] \in Early => pc[d] \in Early
    BY <1>1 DEF Moves
  <2>2. \A d \in Clients : pc[d] = "gone" => pc'[d] = "gone"
    BY <1>1 DEF Moves
  <2>3. QED BY <1>1, <2>1, <2>2 DEF IInv, Apart
<1>5. Exchanges'
  <2>1. ASSUME NEW d \in Clients \ interrupted' PROVE Exchange(d)'
    <3>1. d \notin interrupted
      BY <2>1 DEF Moves
    <3>2. Exchange(d)
      BY <2>1, <3>1 DEF IInv, Exchanges
    <3>3. /\ pc'[d] \in {"menu", "repeat"} => pc[d] \in {"menu", "repeat"}
          /\ pc'[d] = "recv" => pc[d] = "recv"
      BY <1>1, <2>1 DEF Moves
    <3>4. QED BY <1>1, <3>2, <3>3 DEF Exchange
  <2>2. QED BY <1>1, <2>1 DEF IInv, Exchanges
<1>6. QED BY <1>2, <1>3, <1>4, <1>5 DEF IInv

\* The steps of register that do not leave the client's machine.
LEMMA LocalRegister ==
  ASSUME IInv, NEW c \in Clients,
         \/ Exists(c)
         \/ pc[c] = "unlink" /\ Unlink(c) /\ ~Crash(c)
         \/ Bind(c)
         \/ pc[c] = "listen" /\ Listen(c) /\ ~Crash(c)
  PROVE  IInv'
<1>1. PICK p \in {"unlink", "bind", "send", "accept"} :
        /\ Go(c, p) /\ pc[c] \in Early \cup {"listen"}
        /\ p \in Early => pc[c] \in Early
        /\ UNCHANGED <<regs, backlog, req, resp, registered, closed, hungUp, client_fd, asked,
                       left, choice, unregistered, answer, interrupted, killed, unregs>>
  BY DEF Exists, Unlink, Bind, Listen, net, client, history, Early
<1>2. /\ file' \in [Paths -> Clients \cup {None, "stale"}]
      /\ bound' \subseteq Clients /\ listening' \subseteq bound'
  <2>1. /\ file \in [Paths -> Clients \cup {None, "stale"}] /\ Path[c] \in Paths
        /\ bound \subseteq Clients /\ listening \subseteq bound
    BY DEF IInv, TypeOK, PathAssumption
  <2>2. /\ \E x \in Clients \cup {None} : file' = file \/ file' = [file EXCEPT ![Path[c]] = x]
        /\ bound' = bound \/ bound' = bound \cup {c}
        /\ listening' = listening \/ (listening' = listening \cup {c} /\ c \in bound')
        /\ bound \subseteq bound'
    BY DEF Exists, Unlink, Bind, Listen, net, client, history
  <2>3. file' \in [Paths -> Clients \cup {None, "stale"}]
    BY <2>1, <2>2
  <2>4. QED BY <2>1, <2>2, <2>3
<1>3. Moves(c, p)
  BY <1>1, <1>2 DEF Moves, Go, IInv, TypeOK, Early, States, Registering, InMenu
<1>4. Stage(c)'
  <2>1. Stage(c) /\ pc'[c] = p
    BY <1>1 DEF IInv, Stages, Go, TypeOK
  <2>2. QED BY <1>1, <2>1 DEF Stage, Registering, Early
<1>5. QED BY <1>3, <1>4, MovesHold

\* The steps of interactiveMenu that send and receive nothing.
LEMMA LocalMenu ==
  ASSUME IInv, NEW c \in Clients,
         \/ \E n \in 0..(MaxRequests - asked[c]) : Choose(c, n)
         \/ Leave(c)
         \/ Request(c) /\ ~CanSend(c)
         \/ EndOfRequests(c)
         \/ UnregSend(c) /\ ~CanSend(c)
         \/ Interrupt(c)
  PROVE  IInv'
<1>1. PICK p : /\ Go(c, p) /\ pc[c] \in InMenu /\ p \in {"menu", "repeat", "unregSend", "exit"}
               /\ UNCHANGED <<file, bound, listening, regs, backlog, req, resp, registered,
                              closed, hungUp, client_fd, asked, unregistered, answer, killed,
                              unregs>>
               /\ p \in {"menu", "repeat"} => pc[c] \in {"menu", "repeat"} \/ c \in interrupted'
               /\ interrupted' = interrupted \/ interrupted' = interrupted \cup {c}
               /\ \E n \in 0..(MaxRequests - asked[c]) :
                    left' = left \/ left' = [left EXCEPT ![c] = n]
               /\ \E n \in {0, 4} : choice' = choice \/ choice' = [choice EXCEPT ![c] = n]
  <2>1. 0 \in 0..(MaxRequests - asked[c])
    BY DEF IInv, TypeOK, RequestsAssumption
  <2>2. CASE \E n \in 0..(MaxRequests - asked[c]) : Choose(c, n)
    BY <2>2 DEF Choose, net, client, history, InMenu
  <2>3. CASE Leave(c) \/ EndOfRequests(c)
    BY <2>1, <2>3 DEF Leave, EndOfRequests, net, client, history, InMenu
  <2>4. CASE (Request(c) \/ UnregSend(c)) /\ ~CanSend(c)
    BY <2>1, <2>4 DEF Request, UnregSend, net, client, history, InMenu
  <2>5. CASE Interrupt(c)
    BY <2>1, <2>5 DEF Interrupt, Back, net, client, history
  <2>6. QED BY <2>2, <2>3, <2>4, <2>5
<1>2. /\ left' \in [Clients -> 0..MaxRequests] /\ choice' \in [Clients -> {0, 4}]
      /\ asked[c] + left'[c] <= MaxRequests
      /\ \A d \in Clients : d # c => left'[d] = left[d] /\ choice'[d] = choice[d]
  <2>1. /\ asked \in [Clients -> 0..MaxRequests] /\ left \in [Clients -> 0..MaxRequests]
        /\ choice \in [Clients -> {0, 4}] /\ MaxRequests \in Nat
        /\ asked[c] + left[c] <= MaxRequests
    BY DEF IInv, TypeOK, RequestsAssumption, Stages, Stage
  <2>2. PICK n \in 0..(MaxRequests - asked[c]) : left' = left \/ left' = [left EXCEPT ![c] = n]
    BY <1>1
  <2>3. PICK m \in {0, 4} : choice' = choice \/ choice' = [choice EXCEPT ![c] = m]
    BY <1>1
  <2>4. n \in 0..MaxRequests /\ asked[c] + n <= MaxRequests
    BY <2>1, <2>2
  <2>5. /\ left' \in [Clients -> 0..MaxRequests] /\ asked[c] + left'[c] <= MaxRequests
        /\ \A d \in Clients : d # c => left'[d] = left[d]
    BY <2>1, <2>2, <2>4
  <2>6. /\ choice' \in [Clients -> {0, 4}]
        /\ \A d \in Clients : d # c => choice'[d] = choice[d]
    BY <2>1, <2>3
  <2>7. QED BY <2>5, <2>6
<1>3. Moves(c, p)
  BY <1>1, <1>2 DEF Moves, Go, IInv, TypeOK, Early, States, Registering, InMenu
<1>4. Stage(c)'
  <2>1. Stage(c) /\ pc'[c] = p
    BY <1>1 DEF IInv, Stages, Go, TypeOK
  <2>2. CASE \E n \in 0..(MaxRequests - asked[c]) : Choose(c, n)
    BY <1>1, <1>2, <2>1, <2>2 DEF Choose, Go, Stage, Registering, IInv, TypeOK
  <2>3. CASE Leave(c) \/ EndOfRequests(c)
    BY ZenonT(40), <1>1, <1>2, <2>1, <2>3 DEF Leave, EndOfRequests, Go, Stage, Registering, IInv, TypeOK
  <2>4. CASE (Request(c) \/ UnregSend(c)) /\ ~CanSend(c)
    BY <1>1, <1>2, <2>1, <2>4 DEF Request, UnregSend, Go, Stage, Registering, IInv, TypeOK
  <2>5. CASE Interrupt(c)
    BY SMTT(20), <1>1, <1>2, <2>1, <2>5 DEF Interrupt, Back, Go, Stage, Registering, InMenu, IInv, TypeOK
  <2>6. QED BY <2>2, <2>3, <2>4, <2>5
<1>5. QED BY <1>3, <1>4, MovesHold

-----------------------------------------------------------------------------
(***************************************************************************)
(* The end of a client.                                                    *)
(***************************************************************************)
\* The process is over: the places of the connections.
LEMMA EndApart ==
  ASSUME TypeOK, Apart, NEW c \in Clients, End(c), regs' = regs, unregistered' = unregistered
  PROVE  Apart'
<1>1. /\ pc' = [pc EXCEPT ![c] = "gone"]
      /\ closed' = closed \cup Has(backlog[c]) \cup ({client_fd[c]} \ {None})
      /\ backlog' = [backlog EXCEPT ![c] = <<>>] /\ client_fd' = client_fd
  BY DEF End, Go, Has
<1>2. /\ pc'[c] = "gone" /\ \A d \in Clients : d # c => pc'[d] = pc[d]
      /\ backlog'[c] = <<>> /\ \A d \in Clients : d # c => backlog'[d] = backlog[d]
  BY <1>1 DEF TypeOK
<1>3. \A d \in Clients : Has(backlog'[d]) \subseteq Has(backlog[d]) /\ Distinct(backlog'[d])
  BY <1>2, HasNone DEF Apart
<1>4. Has(backlog'[c]) = {}
  BY <1>2, HasNone
<1>5. /\ Distinct(regs')
      /\ \A e \in Clients :
           /\ Distinct(backlog'[e])
           /\ Has(regs') \cap Has(backlog'[e]) = {}
           /\ client_fd'[e] \notin Has(regs')
           /\ \A d \in Clients : client_fd'[e] \notin Has(backlog'[d])
           /\ \A d \in Clients : d # e => /\ Has(backlog'[e]) \cap Has(backlog'[d]) = {}
                                          /\ client_fd'[e] # None => client_fd'[e] # client_fd'[d]
  BY <1>1, <1>3 DEF Apart
<1>6. ASSUME NEW k \in Clients, pc'[k] \in Early
      PROVE  /\ k \notin closed' /\ k \notin Has(regs')
             /\ \A d \in Clients : client_fd'[d] # k /\ k \notin Has(backlog'[d])
  <2>1. pc[k] \in Early
    BY <1>2, <1>6 DEF Early
  <2>2. QED BY <1>1, <1>3, <2>1 DEF Apart
<1>7. ASSUME NEW k \in closed'
      PROVE  /\ k \notin Has(regs')
             /\ \A d \in Clients : /\ k \notin Has(backlog'[d])
                                   /\ client_fd'[d] = k => pc'[d] = "gone" \/ unregistered'[d] = 1
  <2>1. CASE k \in closed
    BY <1>1, <1>2, <1>3, <2>1 DEF Apart
  <2>2. CASE k \in Has(backlog[c])
    BY <1>1, <1>2, <1>4, <2>2 DEF Apart
  <2>3. CASE k = client_fd[c] /\ k # None
    BY <1>1, <1>2, <1>3, <2>3 DEF Apart
  <2>4. QED BY <1>1, <1>7, <2>1, <2>2, <2>3
<1>8. QED BY <1>5, <1>6, <1>7 DEF Apart

\* The process is over: the kernel's part of the state.
LEMMA EndTypes ==
  ASSUME TypeOK, NEW c \in Clients, End(c)
  PROVE  /\ file' \in [Paths -> Clients \cup {None, "stale"}]
         /\ backlog' \in [Clients -> Seq(Clients)] /\ closed' \subseteq Clients
         /\ bound' \subseteq Clients /\ listening' \subseteq bound'
         /\ client_fd' = client_fd
         /\ pc' \in [Clients -> States] /\ pc'[c] = "gone"
         /\ \A d \in Clients : d # c => pc'[d] = pc[d]
<1>1. file' \in [Paths -> Clients \cup {None, "stale"}]
  BY DEF TypeOK, End
<1>2. Has(backlog[c]) \subseteq Clients
  <2>1. backlog[c] \in Seq(Clients)
    BY DEF TypeOK
  <2>2. QED BY <2>1, ElementOfSeq DEF Has
<1>3. closed' \subseteq Clients
  BY <1>2 DEF TypeOK, End, Has
<1>4. backlog' \in [Clients -> Seq(Clients)]
  BY DEF TypeOK, End
<1>5. "gone" \in States
  BY DEF States
<1>6. QED BY <1>1, <1>3, <1>4, <1>5 DEF TypeOK, End, Go

\* An interrupt or a kill keeps it.
LEMMA CrashHolds ==
  ASSUME IInv, NEW c \in Clients, Crash(c)
  PROVE  IInv'
<1>1. /\ End(c) /\ killed' = killed \cup {c}
      /\ UNCHANGED <<regs, req, resp, registered, hungUp, asked, left, choice, unregistered,
                     answer, interrupted, unregs>>
  BY DEF Crash
<1>2. /\ client_fd' = client_fd /\ pc'[c] = "gone" /\ \A d \in Clients : d # c => pc'[d] = pc[d]
  BY <1>1, EndTypes DEF IInv
<1>3. TypeOK'
  <2>1. \A d \in Clients : pc'[d] \in InMenu \cup {"exit"} => client_fd'[d] # None
    BY <1>2 DEF IInv, TypeOK, InMenu
  <2>2. killed' \subseteq Clients
    BY <1>1 DEF IInv, TypeOK
  <2>3. TypeOK
    BY DEF IInv
  <2>4. /\ file' \in [Paths -> Clients \cup {None, "stale"}]
        /\ backlog' \in [Clients -> Seq(Clients)] /\ closed' \subseteq Clients
        /\ bound' \subseteq Clients /\ listening' \subseteq bound'
        /\ pc' \in [Clients -> States]
    BY <1>1, <2>3, EndTypes
  <2>5. QED BY <1>1, <1>2, <2>1, <2>2, <2>3, <2>4 DEF TypeOK
<1>4. Stages'
  <2> SUFFICES ASSUME NEW d \in Clients PROVE Stage(d)'
    BY DEF Stages
  <2>1. Stage(d)
    BY DEF IInv, Stages
  <2>2. CASE d = c
    BY <1>1, <1>2, <2>1, <2>2 DEF Stage, Registering
  <2>3. CASE d # c
    BY <1>1, <1>2, <2>1, <2>3 DEF Stage
  <2>4. QED BY <2>2, <2>3
<1>5. Apart'
  BY <1>1, EndApart DEF IInv
<1>6. Exchanges'
  <2>1. ASSUME NEW d \in Clients \ interrupted PROVE Exchange(d)'
    <3>1. Exchange(d)
      BY DEF IInv, Exchanges
    <3>2. pc'[d] = pc[d] \/ pc'[d] = "gone"
      BY <1>2
    <3>3. QED BY <1>1, <1>2, <3>1, <3>2 DEF Exchange
  <2>2. QED BY <1>1, <1>2, <2>1 DEF IInv, Exchanges
<1>7. QED BY <1>3, <1>4, <1>5, <1>6 DEF IInv

-----------------------------------------------------------------------------
(***************************************************************************)
(* Steps of a client that the server or a connection notices.              *)
(***************************************************************************)
\* The connection of a client that is in the menu is its own.
LEMMA OwnConnection ==
  ASSUME TypeOK, Apart, NEW c \in Clients, pc[c] \in InMenu \cup {"exit"}
  PROVE  /\ client_fd[c] \in Clients /\ client_fd[c] # None
         /\ \A d \in Clients : d # c => client_fd[d] # client_fd[c]
<1>1. client_fd[c] \in Clients \cup {None} /\ client_fd[c] # None
  BY DEF TypeOK
<1>2. QED BY <1>1 DEF Apart

\* Registering keeps it.
LEMMA SendRegisterHolds ==
  ASSUME IInv, NEW c \in Clients, SendRegister(c), ~Crash(c)
  PROVE  IInv'
<1>1. /\ pc[c] = "send" /\ regs' = Append(regs, c) /\ pc' = [pc EXCEPT ![c] = "listen"]
      /\ UNCHANGED <<file, backlog, req, resp, registered, closed, hungUp, bound, listening,
                     client_fd, asked, left, choice, unregistered, answer, interrupted, killed,
                     unregs>>
  BY DEF SendRegister, Go, history
<1>2. /\ pc' \in [Clients -> States]
      /\ pc'[c] = "listen" /\ \A d \in Clients : d # c => pc'[d] = pc[d]
  BY <1>1 DEF IInv, TypeOK, States, Registering
<1>3. c \notin closed /\ c \notin Has(regs)
      /\ \A d \in Clients : client_fd[d] # c /\ c \notin Has(backlog[d])
  BY <1>1 DEF IInv, Apart, Early
<1>4. regs' \in Seq(Clients) /\ Has(regs') = Has(regs) \cup {c} /\ Distinct(regs')
  <2>1. regs \in Seq(Clients) /\ Distinct(regs)
    BY DEF IInv, TypeOK, Apart
  <2>2. QED BY <1>1, <1>3, <2>1, HasAppend
<1>5. TypeOK'
  BY <1>1, <1>2, <1>4 DEF IInv, TypeOK, InMenu
<1>6. Stages'
  <2> SUFFICES ASSUME NEW d \in Clients PROVE Stage(d)'
    BY DEF Stages
  <2>1. Stage(d) /\ pc'[d] = IF d = c THEN "listen" ELSE pc[d]
    BY <1>2 DEF IInv, Stages
  <2>2. QED BY <1>1, <2>1 DEF Stage, Registering
<1>7. Apart'
  <2>1. \A d \in Clients : pc'[d] \in Early => pc[d] \in Early /\ d # c
    BY <1>2 DEF Early
  <2>2. \A d \in Clients : pc[d] = "gone" => pc'[d] = "gone"
    BY <1>1, <1>2
  <2>3. QED BY <1>1, <1>3, <1>4, <2>1, <2>2 DEF IInv, Apart
<1>8. Exchanges'
  <2>1. ASSUME NEW d \in Clients \ interrupted PROVE Exchange(d)'
    <3>1. Exchange(d) /\ pc'[d] \in {pc[d], "listen"}
      BY <1>2 DEF IInv, Exchanges
    <3>2. QED BY <1>1, <3>1 DEF Exchange
  <2>2. QED BY <1>1, <2>1 DEF IInv, Exchanges
<1>9. QED BY <1>5, <1>6, <1>7, <1>8 DEF IInv

\* Accepting keeps it: the connection goes from the backlog to client_fd.
LEMMA AcceptHolds ==
  ASSUME IInv, NEW c \in Clients, Accept(c)
  PROVE  IInv'
<1> DEFINE h == Head(backlog[c])
           rest == Tail(backlog[c])
<1>1. /\ pc[c] = "accept" /\ backlog[c] # <<>> /\ client_fd' = [client_fd EXCEPT ![c] = h]
      /\ backlog' = [backlog EXCEPT ![c] = rest] /\ pc' = [pc EXCEPT ![c] = "menu"]
      /\ UNCHANGED <<file, regs, req, resp, registered, closed, hungUp, bound, listening, asked,
                     left, choice, unregistered, answer, interrupted, killed, unregs>>
  BY DEF Accept, Go, history
<1>2. /\ h \in Clients /\ h \in Has(backlog[c]) /\ rest \in Seq(Clients)
      /\ Has(rest) \subseteq Has(backlog[c]) /\ Distinct(rest) /\ h \notin Has(rest)
  <2>1. backlog[c] \in Seq(Clients) /\ Distinct(backlog[c])
    BY DEF IInv, TypeOK, Apart
  <2>2. QED BY <1>1, <2>1, HasTail
<1> HIDE DEF h, rest
<1>3. /\ pc' \in [Clients -> States]
      /\ pc'[c] = "menu" /\ \A d \in Clients : d # c => pc'[d] = pc[d]
  BY <1>1 DEF IInv, TypeOK, States, InMenu
<1>4. /\ client_fd' \in [Clients -> Clients \cup {None}] /\ client_fd'[c] = h
      /\ \A d \in Clients : d # c => client_fd'[d] = client_fd[d]
      /\ backlog' \in [Clients -> Seq(Clients)] /\ backlog'[c] = rest
      /\ \A d \in Clients : d # c => backlog'[d] = backlog[d]
  BY <1>1, <1>2 DEF IInv, TypeOK
<1>5. client_fd[c] = None /\ Stage(c)
  BY <1>1 DEF IInv, Stages, Stage, Registering
<1>6. \A d \in Clients : client_fd[d] # h
  BY <1>2 DEF IInv, Apart
<1>7. TypeOK'
  <2>1. \A d \in Clients : pc'[d] \in InMenu \cup {"exit"} => client_fd'[d] # None
    BY <1>2, <1>3, <1>4 DEF IInv, TypeOK, NoneAssumption
  <2>2. QED BY <1>1, <1>3, <1>4, <2>1 DEF IInv, TypeOK
<1>8. Stages'
  <2> SUFFICES ASSUME NEW d \in Clients PROVE Stage(d)'
    BY DEF Stages
  <2>1. CASE d = c
    BY <1>1, <1>3, <1>5, <2>1 DEF Stage, Registering
  <2>2. CASE d # c
    <3>1. Stage(d)
      BY DEF IInv, Stages
    <3>2. QED BY <1>1, <1>3, <1>4, <2>2, <3>1 DEF Stage
  <2>3. QED BY <2>1, <2>2
<1>9. Apart'
  <2>1. \A d \in Clients : Has(backlog'[d]) \subseteq Has(backlog[d]) /\ Distinct(backlog'[d])
    BY <1>2, <1>4 DEF IInv, Apart
  <2>2. /\ h \notin Has(regs) /\ h \notin closed
        /\ \A d \in Clients : h \notin Has(backlog'[d])
        /\ pc[h] \notin Early
    BY <1>2, <1>3, <1>4 DEF IInv, Apart, Early
  <2>3. /\ Distinct(regs')
        /\ \A e \in Clients :
             /\ Distinct(backlog'[e])
             /\ Has(regs') \cap Has(backlog'[e]) = {}
             /\ client_fd'[e] \notin Has(regs')
             /\ \A d \in Clients : client_fd'[e] \notin Has(backlog'[d])
             /\ \A d \in Clients : d # e => Has(backlog'[e]) \cap Has(backlog'[d]) = {}
    BY <1>1, <1>4, <2>1, <2>2 DEF IInv, Apart
  <2>4. \A e, d \in Clients : d # e /\ client_fd'[e] # None => client_fd'[e] # client_fd'[d]
    BY <1>4, <1>6 DEF IInv, Apart
  <2>5. ASSUME NEW k \in Clients, pc'[k] \in Early
        PROVE  /\ k \notin closed' /\ k \notin Has(regs')
               /\ \A d \in Clients : client_fd'[d] # k /\ k \notin Has(backlog'[d])
    <3>1. pc[k] \in Early /\ k # c
      BY <1>3, <2>5 DEF Early
    <3>2. k # h
      BY <2>2, <3>1
    <3>3. QED BY <1>1, <1>4, <2>1, <3>1, <3>2 DEF IInv, Apart
  <2>6. ASSUME NEW k \in closed'
        PROVE  /\ k \notin Has(regs')
               /\ \A d \in Clients : /\ k \notin Has(backlog'[d])
                                     /\ client_fd'[d] = k => pc'[d] = "gone" \/ unregistered'[d] = 1
    BY <1>1, <1>3, <1>4, <2>1, <2>2, <2>6 DEF IInv, Apart
  <2>7. QED BY <2>3, <2>4, <2>5, <2>6 DEF Apart
<1>10. Exchanges'
  <2>1. req[h] = <<>> /\ resp[h] = <<>>
    BY <1>2, <1>6 DEF IInv, Exchanges
  <2>2. ASSUME NEW d \in Clients \ interrupted PROVE Exchange(d)'
    <3>1. Exchange(d)
      BY DEF IInv, Exchanges
    <3>2. CASE d = c
      BY <1>1, <1>3, <1>4, <2>1, <3>1, <3>2 DEF Exchange
    <3>3. CASE d # c
      BY <1>1, <1>3, <1>4, <3>1, <3>3 DEF Exchange
    <3>4. QED BY <3>2, <3>3
  <2>3. ASSUME NEW k \in Clients, \A d \in Clients : client_fd'[d] # k
        PROVE  req'[k] = <<>> /\ resp'[k] = <<>>
    <3>1. \A d \in Clients : client_fd[d] # k
      BY <1>4, <1>5, <2>3 DEF NoneAssumption
    <3>2. QED BY <1>1, <3>1 DEF IInv, Exchanges
  <2>4. QED BY <1>1, <2>2, <2>3 DEF IInv, Exchanges
<1>11. QED BY <1>7, <1>8, <1>9, <1>10 DEF IInv

\* A message on a connection.
LEMMA Sent ==
  ASSUME TypeOK, NEW k \in Clients, NEW m \in Messages, req' = [req EXCEPT ![k] = Append(@, m)]
  PROVE  /\ req' \in [Clients -> Seq(Messages)] /\ req'[k] = Append(req[k], m)
         /\ \A d \in Clients : d # k => req'[d] = req[d]
<1>1. req \in [Clients -> Seq(Messages)]
  BY DEF TypeOK
<1>2. Append(req[k], m) \in Seq(Messages)
  BY <1>1, AppendProperties
<1>3. QED BY <1>1, <1>2

\* A request keeps it: nothing else is on its way on the connection.
LEMMA RequestHolds ==
  ASSUME IInv, NEW c \in Clients, Request(c), CanSend(c)
  PROVE  IInv'
<1> DEFINE k == client_fd[c]
           a == asked[c] + 1
<1>1. /\ pc[c] = "repeat" /\ left[c] > 0 /\ k \notin closed \cup hungUp
      /\ asked' = [asked EXCEPT ![c] = a] /\ left' = [left EXCEPT ![c] = @ - 1]
      /\ req' = [req EXCEPT ![k] = Append(@, asked'[c])] /\ pc' = [pc EXCEPT ![c] = "recv"]
      /\ UNCHANGED <<file, regs, backlog, resp, registered, closed, hungUp, bound, listening,
                     client_fd, choice, unregistered, answer, interrupted, killed, unregs>>
  BY DEF Request, CanSend, Go, history
<1>2. /\ k \in Clients /\ k # None /\ \A d \in Clients : d # c => client_fd[d] # k
  BY <1>1, OwnConnection DEF IInv, InMenu
<1>3. /\ asked \in [Clients -> 0..MaxRequests] /\ left \in [Clients -> 0..MaxRequests]
      /\ MaxRequests \in Nat /\ Stage(c) /\ asked[c] + left[c] <= MaxRequests
  BY DEF IInv, TypeOK, Stages, Stage, RequestsAssumption
<1>4. /\ a \in 1..MaxRequests /\ asked' \in [Clients -> 0..MaxRequests] /\ asked'[c] = a
      /\ left' \in [Clients -> 0..MaxRequests] /\ left'[c] = left[c] - 1
      /\ \A d \in Clients : d # c => asked'[d] = asked[d] /\ left'[d] = left[d]
  BY <1>1, <1>3
<1>5. /\ pc' \in [Clients -> States]
      /\ pc'[c] = "recv" /\ \A d \in Clients : d # c => pc'[d] = pc[d]
  BY <1>1 DEF IInv, TypeOK, States, InMenu
<1> HIDE DEF a, k
<1>6. /\ req' \in [Clients -> Seq(Messages)] /\ req'[k] = Append(req[k], a)
      /\ \A d \in Clients : d # k => req'[d] = req[d]
  <2>1. a \in Messages /\ req' = [req EXCEPT ![k] = Append(@, a)]
    BY <1>1, <1>4 DEF Messages
  <2>2. QED BY <1>2, <2>1, Sent DEF IInv
<1>7. TypeOK'
  <2>1. \A d \in Clients : pc'[d] \in InMenu \cup {"exit"} => client_fd'[d] # None
    BY <1>1, <1>2, <1>5 DEF IInv, TypeOK, k
  <2>2. QED BY <1>1, <1>4, <1>5, <1>6, <2>1 DEF IInv, TypeOK
<1>8. Stages'
  <2> SUFFICES ASSUME NEW d \in Clients PROVE Stage(d)'
    BY DEF Stages
  <2>1. CASE d = c
    <3>1. asked'[c] + left'[c] <= MaxRequests
      BY <1>3, <1>4 DEF a
    <3>2. QED BY <1>1, <1>3, <1>5, <2>1, <3>1 DEF Stage, Registering
  <2>2. CASE d # c
    <3>1. Stage(d)
      BY DEF IInv, Stages
    <3>2. QED BY <1>1, <1>4, <1>5, <2>2, <3>1 DEF Stage
  <2>3. QED BY <2>1, <2>2
<1>9. Apart'
  <2>1. \A d \in Clients : pc'[d] \in Early => pc[d] \in Early
    BY <1>5 DEF Early
  <2>2. \A d \in Clients : pc[d] = "gone" => pc'[d] = "gone"
    BY <1>1, <1>5
  <2>3. QED BY <1>1, <2>1, <2>2 DEF IInv, Apart
<1>10. Exchanges'
  <2>1. ASSUME NEW d \in Clients \ interrupted PROVE Exchange(d)'
    <3>1. Exchange(d)
      BY DEF IInv, Exchanges
    <3>2. CASE d = c
      <4>1. req[k] = <<>> /\ resp[k] = <<>>
        BY <1>1, <3>1, <3>2 DEF Exchange, k
      <4>2. req'[k] = <<a>> /\ resp'[k] = <<>>
        BY <1>1, <1>6, <4>1
      <4>3. client_fd'[c] = k
        BY <1>1 DEF k
      <4>4. a > 0
        BY <1>4
      <4>5. QED BY <1>1, <1>4, <1>5, <3>1, <3>2, <4>2, <4>3, <4>4 DEF Exchange
    <3>3. CASE d # c
      <4>1. client_fd[d] # k /\ client_fd[d] \in Clients \cup {None}
        BY <1>2, <3>3 DEF IInv, TypeOK
      <4>2. pc[d] \in {"menu", "repeat", "recv"} => req'[client_fd[d]] = req[client_fd[d]]
        BY <1>6, <4>1 DEF IInv, TypeOK, InMenu
      <4>3. QED BY <1>1, <1>4, <1>5, <3>1, <3>3, <4>2 DEF Exchange
    <3>4. QED BY <3>2, <3>3
  <2>2. ASSUME NEW j \in Clients, \A d \in Clients : client_fd'[d] # j
        PROVE  req'[j] = <<>> /\ resp'[j] = <<>>
    <3>1. j # k /\ \A d \in Clients : client_fd[d] # j
      BY <1>1, <2>2 DEF k
    <3>2. QED BY <1>1, <1>6, <3>1 DEF IInv, Exchanges
  <2>3. QED BY <1>1, <2>1, <2>2 DEF IInv, Exchanges
<1>11. QED BY <1>7, <1>8, <1>9, <1>10 DEF IInv

\* Receiving keeps it: what comes is the answer to the last request.
LEMMA ReceiveHolds ==
  ASSUME IInv, NEW c \in Clients, Receive(c)
  PROVE  IInv'
<1> DEFINE k == client_fd[c]
<1>1. /\ pc[c] = "recv" /\ pc' = [pc EXCEPT ![c] = "repeat"]
      /\ \/ /\ resp[k] # <<>> /\ resp' = [resp EXCEPT ![k] = Tail(@)]
            /\ answer' = [answer EXCEPT ![c] = <<asked[c], Head(resp[k])>>]
         \/ /\ resp[k] = <<>> /\ k \in hungUp /\ resp' = resp
            /\ answer' = [answer EXCEPT ![c] = <<asked[c], 0>>]
      /\ UNCHANGED <<file, regs, backlog, req, registered, closed, hungUp, bound, listening,
                     client_fd, asked, left, choice, unregistered, interrupted, killed, unregs>>
  BY DEF Receive, Go
<1>2. /\ k \in Clients /\ k # None /\ \A d \in Clients : d # c => client_fd[d] # k
  BY <1>1, OwnConnection DEF IInv, InMenu
<1>3. /\ pc' \in [Clients -> States]
      /\ pc'[c] = "repeat" /\ \A d \in Clients : d # c => pc'[d] = pc[d]
  BY <1>1 DEF IInv, TypeOK, States, InMenu
<1> HIDE DEF k
<1>4. /\ resp \in [Clients -> Seq(Messages)] /\ answer \in [Clients -> Nat \X Nat]
      /\ asked[c] \in Nat
  BY DEF IInv, TypeOK, Exchanges, RequestsAssumption
<1>5. resp[k] # <<>> => Head(resp[k]) \in Nat /\ Tail(resp[k]) \in Seq(Messages)
  <2>1. Messages \subseteq Nat
    BY DEF Messages, API_UNREG, RequestsAssumption
  <2>2. resp[k] \in Seq(Messages)
    BY <1>2, <1>4
  <2>3. QED BY <2>1, <2>2, HeadTailProperties
<1>6. /\ resp' \in [Clients -> Seq(Messages)] /\ answer' \in [Clients -> Nat \X Nat]
      /\ \A d \in Clients : d # k => resp'[d] = resp[d]
      /\ \A d \in Clients : d # c => answer'[d] = answer[d]
      /\ \/ resp[k] # <<>> /\ resp'[k] = Tail(resp[k]) /\ answer'[c] = <<asked[c], Head(resp[k])>>
         \/ resp[k] = <<>> /\ k \in hungUp /\ resp'[k] = <<>> /\ answer'[c] = <<asked[c], 0>>
  <2>1. CASE resp[k] # <<>>
    <3> DEFINE h == Head(resp[k])
               rest == Tail(resp[k])
    <3>1. /\ resp' = [resp EXCEPT ![k] = rest] /\ answer' = [answer EXCEPT ![c] = <<asked[c], h>>]
          /\ h \in Nat /\ rest \in Seq(Messages)
      BY <1>1, <1>5, <2>1
    <3> HIDE DEF h, rest
    <3>2. /\ resp' \in [Clients -> Seq(Messages)] /\ resp'[k] = rest
          /\ \A d \in Clients : d # k => resp'[d] = resp[d]
      BY <1>2, <1>4, <3>1
    <3>3. /\ answer' \in [Clients -> Nat \X Nat] /\ answer'[c] = <<asked[c], h>>
          /\ \A d \in Clients : d # c => answer'[d] = answer[d]
      BY <1>4, <3>1
    <3>4. QED BY <2>1, <3>2, <3>3 DEF h, rest
  <2>2. CASE resp[k] = <<>>
    <3>1. resp' = resp /\ k \in hungUp /\ answer' = [answer EXCEPT ![c] = <<asked[c], 0>>]
      BY <1>1, <2>2
    <3>2. /\ answer' \in [Clients -> Nat \X Nat] /\ answer'[c] = <<asked[c], 0>>
          /\ \A d \in Clients : d # c => answer'[d] = answer[d]
      BY <1>4, <3>1
    <3>3. QED BY <1>4, <2>2, <3>1, <3>2
  <2>3. QED BY <2>1, <2>2
<1>7. TypeOK'
  <2>1. \A d \in Clients : pc'[d] \in InMenu \cup {"exit"} => client_fd'[d] # None
    BY <1>1, <1>2, <1>3 DEF IInv, TypeOK, k
  <2>2. QED BY <1>1, <1>3, <1>6, <2>1 DEF IInv, TypeOK
<1>8. Stages'
  <2> SUFFICES ASSUME NEW d \in Clients PROVE Stage(d)'
    BY DEF Stages
  <2>1. Stage(d) /\ pc'[d] = IF d = c THEN "repeat" ELSE pc[d]
    BY <1>3 DEF IInv, Stages
  <2>2. QED BY <1>1, <2>1 DEF Stage, Registering
<1>9. Apart'
  <2>1. \A d \in Clients : pc'[d] \in Early => pc[d] \in Early
    BY <1>3 DEF Early
  <2>2. \A d \in Clients : pc[d] = "gone" => pc'[d] = "gone"
    BY <1>1, <1>3
  <2>3. QED BY <1>1, <2>1, <2>2 DEF IInv, Apart
<1>10. Exchanges'
  <2>1. ASSUME NEW d \in Clients \ interrupted PROVE Exchange(d)'
    <3>1. Exchange(d)
      BY DEF IInv, Exchanges
    <3>2. CASE d = c
      <4>1. \/ req[k] = <<asked[c]>> /\ resp[k] = <<>>
            \/ req[k] = <<>> /\ resp[k] = <<asked[c]>>
        BY <1>1, <3>1, <3>2 DEF Exchange, k
      <4>2. CASE req[k] = <<asked[c]>> /\ resp[k] = <<>>
        <5>1. k \in hungUp /\ answer'[c] = <<asked[c], 0>>
          BY <1>6, <4>2
        <5>2. client_fd'[c] = k /\ hungUp' = hungUp
          BY <1>1 DEF k
        <5>3. QED BY <1>3, <3>2, <5>1, <5>2 DEF Exchange
      <4>3. CASE req[k] = <<>> /\ resp[k] = <<asked[c]>>
        <5>1. resp[k] # <<>> /\ Head(resp[k]) = asked[c] /\ Tail(resp[k]) = <<>>
          BY <4>3
        <5>2. req'[k] = <<>> /\ resp'[k] = <<>> /\ answer'[c] = <<asked[c], asked[c]>>
          BY <1>1, <1>6, <4>3, <5>1
        <5>3. client_fd'[c] = k
          BY <1>1 DEF k
        <5>4. QED BY <1>3, <3>2, <5>2, <5>3 DEF Exchange
      <4>4. QED BY <4>1, <4>2, <4>3
    <3>3. CASE d # c
      <4>1. client_fd[d] # k /\ client_fd[d] \in Clients \cup {None}
        BY <1>2, <3>3 DEF IInv, TypeOK
      <4>2. pc[d] \in {"menu", "repeat", "recv"} => resp'[client_fd[d]] = resp[client_fd[d]]
        BY <1>6, <4>1 DEF IInv, TypeOK, InMenu
      <4>3. QED BY <1>1, <1>3, <1>6, <3>1, <3>3, <4>2 DEF Exchange
    <3>4. QED BY <3>2, <3>3
  <2>2. ASSUME NEW j \in Clients, \A d \in Clients : client_fd'[d] # j
        PROVE  req'[j] = <<>> /\ resp'[j] = <<>>
    <3>1. j # k /\ \A d \in Clients : client_fd[d] # j
      BY <1>1, <2>2 DEF k
    <3>2. QED BY <1>1, <1>6, <3>1 DEF IInv, Exchanges
  <2>3. QED BY <1>1, <1>6, <2>1, <2>2 DEF IInv, Exchanges
<1>11. QED BY <1>7, <1>8, <1>9, <1>10 DEF IInv

\* API_UNREG on its way; the client is done with its requests.
LEMMA Goodbye ==
  ASSUME IInv, NEW c \in Clients, pc[c] \in {"unregSend", "exit"},
         \/ SendUnregister(c)
         \/ UNCHANGED <<req, unregs>>,
         pc'[c] \in {"unregClose", "gone"}, \A d \in Clients : d # c => pc'[d] = pc[d],
         UNCHANGED <<resp, hungUp, client_fd, asked, answer, interrupted>>
  PROVE  /\ Exchanges' /\ req' \in [Clients -> Seq(Messages)] /\ unregs' \in [Clients -> 0..2]
         /\ SendUnregister(c) => unregs'[c] = unregs[c] + 1
         /\ \A d \in Clients : d # c => unregs'[d] = unregs[d]
<1> DEFINE k == client_fd[c]
<1>1. /\ k \in Clients /\ k # None /\ \A d \in Clients : d # c => client_fd[d] # k
  BY OwnConnection DEF IInv, InMenu
<1>2. unregs \in [Clients -> 0..2] /\ unregs[c] \in 0..1
  BY DEF IInv, TypeOK, Stages, Stage
<1> HIDE DEF k
<1>3. /\ req' \in [Clients -> Seq(Messages)]
      /\ \A d \in Clients : d # k => req'[d] = req[d]
  <2>1. CASE SendUnregister(c)
    <3>1. API_UNREG \in Messages /\ req' = [req EXCEPT ![k] = Append(@, API_UNREG)]
      BY <2>1 DEF SendUnregister, Messages, k
    <3>2. QED BY <1>1, <3>1, Sent DEF IInv
  <2>2. CASE UNCHANGED <<req, unregs>>
    BY <2>2 DEF IInv, TypeOK
  <2>3. QED BY <2>1, <2>2
<1>4. /\ unregs' \in [Clients -> 0..2]
      /\ SendUnregister(c) => unregs'[c] = unregs[c] + 1
      /\ \A d \in Clients : d # c => unregs'[d] = unregs[d]
  <2>1. CASE SendUnregister(c)
    <3>1. unregs' = [unregs EXCEPT ![c] = @ + 1]
      BY <2>1 DEF SendUnregister
    <3>2. QED BY <1>2, <3>1
  <2>2. CASE UNCHANGED <<req, unregs>> /\ ~SendUnregister(c)
    BY <1>2, <2>2
  <2>3. QED BY <2>1, <2>2
<1>5. ASSUME NEW d \in Clients \ interrupted PROVE Exchange(d)'
  <2>1. Exchange(d)
    BY DEF IInv, Exchanges
  <2>2. CASE d = c
    BY <2>1, <2>2 DEF Exchange
  <2>3. CASE d # c
    <3>1. client_fd[d] # k /\ client_fd[d] \in Clients \cup {None}
      BY <1>1, <2>3 DEF IInv, TypeOK
    <3>2. pc[d] \in {"menu", "repeat", "recv"} => req'[client_fd[d]] = req[client_fd[d]]
      BY <1>3, <3>1 DEF IInv, TypeOK, InMenu
    <3>3. QED BY <2>1, <2>3, <3>2 DEF Exchange
  <2>4. QED BY <2>2, <2>3
<1>6. ASSUME NEW j \in Clients, \A d \in Clients : client_fd'[d] # j
      PROVE  req'[j] = <<>> /\ resp'[j] = <<>>
  <2>1. j # k /\ \A d \in Clients : client_fd[d] # j
    BY <1>6 DEF k
  <2>2. QED BY <1>3, <2>1 DEF IInv, Exchanges
<1>7. Exchanges'
  BY <1>5, <1>6 DEF IInv, Exchanges
<1>8. QED BY <1>3, <1>4, <1>7

\* Saying goodbye keeps it.
LEMMA UnregSendHolds ==
  ASSUME IInv, NEW c \in Clients, UnregSend(c), CanSend(c)
  PROVE  IInv'
<1>1. /\ pc[c] = "unregSend" /\ pc' = [pc EXCEPT ![c] = "unregClose"] /\ SendUnregister(c)
      /\ UNCHANGED <<file, regs, backlog, resp, registered, closed, hungUp, bound, listening,
                     client_fd, asked, left, choice, unregistered, answer, interrupted, killed>>
  BY DEF UnregSend, Go
<1>2. /\ pc' \in [Clients -> States]
      /\ pc'[c] = "unregClose" /\ \A d \in Clients : d # c => pc'[d] = pc[d]
  BY <1>1 DEF IInv, TypeOK, States, InMenu
<1>3. /\ Exchanges' /\ req' \in [Clients -> Seq(Messages)] /\ unregs' \in [Clients -> 0..2]
      /\ unregs'[c] = unregs[c] + 1
      /\ \A d \in Clients : d # c => unregs'[d] = unregs[d]
  BY <1>1, <1>2, Goodbye
<1>4. TypeOK'
  <2>1. \A d \in Clients : pc'[d] \in InMenu \cup {"exit"} => client_fd'[d] # None
    BY <1>1, <1>2 DEF IInv, TypeOK, InMenu
  <2>2. QED BY <1>1, <1>2, <1>3, <2>1 DEF IInv, TypeOK
<1>5. Stages'
  <2> SUFFICES ASSUME NEW d \in Clients PROVE Stage(d)'
    BY DEF Stages
  <2>1. Stage(d)
    BY DEF IInv, Stages
  <2>2. CASE d = c
    BY <1>1, <1>2, <1>3, <2>1, <2>2 DEF Stage, Registering
  <2>3. CASE d # c
    BY <1>1, <1>2, <1>3, <2>1, <2>3 DEF Stage
  <2>4. QED BY <2>2, <2>3
<1>6. Apart'
  <2>1. \A d \in Clients : pc'[d] \in Early => pc[d] \in Early
    BY <1>2 DEF Early
  <2>2. \A d \in Clients : pc[d] = "gone" => pc'[d] = "gone"
    BY <1>1, <1>2
  <2>3. QED BY <1>1, <2>1, <2>2 DEF IInv, Apart
<1>7. QED BY <1>3, <1>4, <1>5, <1>6 DEF IInv

\* Closing the connection keeps it.
LEMMA UnregCloseHolds ==
  ASSUME IInv, NEW c \in Clients, UnregClose(c)
  PROVE  IInv'
<1> DEFINE k == client_fd[c]
<1>1. /\ pc[c] = "unregClose" /\ pc' = [pc EXCEPT ![c] = "exit"]
      /\ closed' = closed \cup {k} /\ unregistered' = [unregistered EXCEPT ![c] = 1]
      /\ UNCHANGED <<file, regs, backlog, req, resp, registered, hungUp, bound, listening,
                     client_fd, asked, left, choice, answer, interrupted, killed, unregs>>
  BY DEF UnregClose, Go, history
<1>2. /\ k \in Clients /\ k # None /\ \A d \in Clients : d # c => client_fd[d] # k
  BY <1>1, OwnConnection DEF IInv, InMenu
<1>3. /\ pc' \in [Clients -> States]
      /\ pc'[c] = "exit" /\ \A d \in Clients : d # c => pc'[d] = pc[d]
      /\ unregistered' \in [Clients -> {0, 1}] /\ unregistered'[c] = 1
      /\ \A d \in Clients : d # c => unregistered'[d] = unregistered[d]
  BY <1>1 DEF IInv, TypeOK, States, InMenu
<1>4. TypeOK'
  <2>1. \A d \in Clients : pc'[d] \in InMenu \cup {"exit"} => client_fd'[d] # None
    BY <1>1, <1>3 DEF IInv, TypeOK, InMenu
  <2>2. QED BY <1>1, <1>2, <1>3, <2>1 DEF IInv, TypeOK
<1>5. Stages'
  <2> SUFFICES ASSUME NEW d \in Clients PROVE Stage(d)'
    BY DEF Stages
  <2>1. Stage(d)
    BY DEF IInv, Stages
  <2>2. CASE d = c
    BY <1>1, <1>3, <2>1, <2>2 DEF Stage, Registering
  <2>3. CASE d # c
    BY <1>1, <1>3, <2>1, <2>3 DEF Stage
  <2>4. QED BY <2>2, <2>3
<1>6. Apart'
  <2>1. \A d \in Clients : pc'[d] \in Early => pc[d] \in Early
    BY <1>3 DEF Early
  <2>2. \A d \in Clients : /\ pc[d] = "gone" => pc'[d] = "gone"
                           /\ unregistered[d] = 1 => unregistered'[d] = 1
    BY <1>1, <1>3
  <2>3. /\ k \notin Has(regs) /\ \A d \in Clients : k \notin Has(backlog[d])
        /\ pc[k] \notin Early
    BY <1>2 DEF IInv, Apart
  <2>4. ASSUME NEW j \in closed'
        PROVE  /\ j \notin Has(regs')
               /\ \A d \in Clients : /\ j \notin Has(backlog'[d])
                                     /\ client_fd'[d] = j => pc'[d] = "gone" \/ unregistered'[d] = 1
    <3>1. CASE j = k
      BY <1>1, <1>2, <1>3, <2>3, <3>1
    <3>2. CASE j \in closed
      BY <1>1, <2>2, <3>2 DEF IInv, Apart
    <3>3. QED BY <1>1, <2>4, <3>1, <3>2
  <2> HIDE DEF k
  <2>5. \A j \in Clients : pc'[j] \in Early =>
          j \notin closed' /\ j \notin Has(regs')
          /\ \A d \in Clients : client_fd'[d] # j /\ j \notin Has(backlog'[d])
    BY <1>1, <2>1, <2>3 DEF IInv, Apart
  <2>6. QED BY <1>1, <2>4, <2>5 DEF IInv, Apart
<1>7. Exchanges'
  <2>1. ASSUME NEW d \in Clients \ interrupted PROVE Exchange(d)'
    <3>1. Exchange(d) /\ pc'[d] \in {pc[d], "exit"}
      BY <1>3 DEF IInv, Exchanges
    <3>2. QED BY <1>1, <3>1 DEF Exchange
  <2>2. QED BY <1>1, <2>1 DEF IInv, Exchanges
<1>8. QED BY <1>4, <1>5, <1>6, <1>7 DEF IInv

\* The end of the script keeps it.
LEMMA ExitHolds ==
  ASSUME IInv, NEW c \in Clients, Exit(c)
  PROVE  IInv'
<1>1. /\ pc[c] = "exit" /\ End(c)
      /\ IF unregistered[c] = 0 /\ CanSend(c) THEN SendUnregister(c) ELSE UNCHANGED <<req, unregs>>
      /\ UNCHANGED <<regs, resp, registered, hungUp, asked, left, choice, unregistered, answer,
                     interrupted, killed>>
  BY DEF Exit
<1>2. /\ file' \in [Paths -> Clients \cup {None, "stale"}]
      /\ backlog' \in [Clients -> Seq(Clients)] /\ closed' \subseteq Clients
      /\ bound' \subseteq Clients /\ listening' \subseteq bound'
      /\ client_fd' = client_fd
      /\ pc' \in [Clients -> States] /\ pc'[c] = "gone"
      /\ \A d \in Clients : d # c => pc'[d] = pc[d]
  BY <1>1, EndTypes DEF IInv
<1>3. /\ Exchanges' /\ req' \in [Clients -> Seq(Messages)] /\ unregs' \in [Clients -> 0..2]
      /\ SendUnregister(c) => unregs'[c] = unregs[c] + 1
      /\ \A d \in Clients : d # c => unregs'[d] = unregs[d]
  BY <1>1, <1>2, Goodbye
<1>4. TypeOK'
  <2>1. \A d \in Clients : pc'[d] \in InMenu \cup {"exit"} => client_fd'[d] # None
    BY <1>2 DEF IInv, TypeOK, InMenu
  <2>2. TypeOK
    BY DEF IInv
  <2>3. QED BY <1>1, <1>2, <1>3, <2>1, <2>2 DEF TypeOK
<1>5. Stages'
  <2> SUFFICES ASSUME NEW d \in Clients PROVE Stage(d)'
    BY DEF Stages
  <2>1. Stage(d)
    BY DEF IInv, Stages
  <2>2. CASE d = c
    <3>1. client_fd[c] \notin hungUp => unregs'[c] = 1 \/ (unregs'[c] = 2 /\ c \in interrupted)
      <4> SUFFICES ASSUME client_fd[c] \notin hungUp
                   PROVE  unregs'[c] = 1 \/ (unregs'[c] = 2 /\ c \in interrupted)
        OBVIOUS
      <4>1. \/ unregistered[c] = 1 /\ unregs[c] = 1
            \/ unregistered[c] = 0 /\ unregs[c] = 0
            \/ unregistered[c] = 0 /\ unregs[c] = 1 /\ c \in interrupted
        BY <1>1, <2>1, <2>2 DEF Stage
      <4>2. CASE unregistered[c] = 1
        BY <1>1, <4>1, <4>2
      <4>3. CASE unregistered[c] = 0
        <5>1. client_fd[c] \notin closed
          BY <1>1, <4>3 DEF IInv, Apart
        <5>2. SendUnregister(c)
          BY <1>1, <4>3, <5>1 DEF CanSend
        <5>3. QED BY <1>3, <4>1, <4>3, <5>2
      <4>4. QED BY <4>1, <4>2, <4>3
    <3>2. QED BY <1>1, <1>2, <2>1, <2>2, <3>1 DEF Stage, Registering
  <2>3. CASE d # c
    BY <1>1, <1>2, <1>3, <2>1, <2>3 DEF Stage
  <2>4. QED BY <2>2, <2>3
<1>6. Apart'
  BY <1>1, EndApart DEF IInv
<1>7. QED BY <1>3, <1>4, <1>5, <1>6 DEF IInv

-----------------------------------------------------------------------------
(***************************************************************************)
(* Steps of the server.                                                    *)
(***************************************************************************)
LEMMA ServerConnectHolds ==
  ASSUME IInv, ServerConnect
  PROVE  IInv'
<1> DEFINE h == Head(regs)
           rest == Tail(regs)
           l == file[Path[h]]
<1>1. /\ regs # <<>> /\ regs' = rest
      /\ \/ /\ l \in listening /\ backlog' = [backlog EXCEPT ![l] = Append(@, h)]
            /\ registered' = registered \cup {h}
         \/ backlog' = backlog /\ registered' = registered
      /\ UNCHANGED <<file, req, resp, closed, hungUp, pc, bound, listening, client_fd, asked,
                     left, choice, unregistered, answer, interrupted, killed, unregs>>
  BY DEF ServerConnect, client, history
<1>2. /\ h \in Clients /\ h \in Has(regs) /\ rest \in Seq(Clients)
      /\ Has(rest) \subseteq Has(regs) /\ Distinct(rest) /\ h \notin Has(rest)
  <2>1. regs \in Seq(Clients) /\ Distinct(regs)
    BY DEF IInv, TypeOK, Apart
  <2>2. QED BY <1>1, <2>1, HasTail
<1> HIDE DEF h, rest, l
<1>3. /\ registered' \subseteq Clients /\ backlog' \in [Clients -> Seq(Clients)]
      /\ \/ backlog' = backlog
         \/ /\ l \in Clients /\ backlog'[l] = Append(backlog[l], h)
            /\ \A d \in Clients : d # l => backlog'[d] = backlog[d]
  <2>1. backlog \in [Clients -> Seq(Clients)] /\ registered \subseteq Clients
        /\ listening \subseteq Clients
    BY DEF IInv, TypeOK
  <2>2. CASE l \in listening /\ backlog' = [backlog EXCEPT ![l] = Append(@, h)]
             /\ registered' = registered \cup {h}
    <3>1. Append(backlog[l], h) \in Seq(Clients)
      BY <1>2, <2>1, <2>2, AppendProperties
    <3>2. QED BY <1>2, <2>1, <2>2, <3>1
  <2>3. CASE backlog' = backlog /\ registered' = registered
    BY <2>1, <2>3
  <2>4. QED BY <1>1, <2>2, <2>3
<1>4. TypeOK'
  BY <1>1, <1>2, <1>3 DEF IInv, TypeOK
<1>5. Stages'
  BY <1>1 DEF IInv, Stages, Stage
<1>6. Exchanges'
  BY <1>1 DEF IInv, Exchanges, Exchange
\* The connection goes from regs to one backlog, or is refused.
<1>7. /\ \A d \in Clients : Distinct(backlog'[d])
      /\ \/ \A d \in Clients : Has(backlog'[d]) = Has(backlog[d])
         \/ /\ l \in Clients /\ Has(backlog'[l]) = Has(backlog[l]) \cup {h}
            /\ \A d \in Clients : d # l => Has(backlog'[d]) = Has(backlog[d])
  <2>1. \A d \in Clients : Distinct(backlog[d]) /\ h \notin Has(backlog[d])
    BY <1>2 DEF IInv, Apart
  <2>2. CASE backlog' = backlog
    BY <2>1, <2>2
  <2>3. CASE l \in Clients /\ backlog'[l] = Append(backlog[l], h)
             /\ \A d \in Clients : d # l => backlog'[d] = backlog[d]
    <3>1. backlog[l] \in Seq(Clients)
      BY <2>3 DEF IInv, TypeOK
    <3>2. Has(backlog'[l]) = Has(backlog[l]) \cup {h} /\ Distinct(backlog'[l])
      BY <1>2, <2>1, <2>3, <3>1, HasAppend
    <3>3. QED BY <2>1, <2>3, <3>2
  <2>4. QED BY <1>3, <2>2, <2>3
<1>8. \A d \in Clients : Has(backlog'[d]) \subseteq Has(backlog[d]) \cup {h}
  BY <1>7
<1>9. /\ h \notin closed /\ pc[h] \notin Early
      /\ \A d \in Clients : client_fd[d] # h /\ h \notin Has(backlog[d])
  BY <1>2 DEF IInv, Apart
<1>10. Apart'
  <2>1. /\ Distinct(regs')
        /\ \A e \in Clients :
             /\ Distinct(backlog'[e])
             /\ Has(regs') \cap Has(backlog'[e]) = {}
             /\ client_fd'[e] \notin Has(regs')
             /\ \A d \in Clients : client_fd'[e] \notin Has(backlog'[d])
    BY <1>1, <1>2, <1>7, <1>8, <1>9 DEF IInv, Apart
  <2>2. \A e, d \in Clients : d # e => Has(backlog'[e]) \cap Has(backlog'[d]) = {}
    BY <1>7, <1>9 DEF IInv, Apart
  <2>3. \A e, d \in Clients : d # e /\ client_fd'[e] # None => client_fd'[e] # client_fd'[d]
    BY <1>1 DEF IInv, Apart
  <2>4. \A k \in Clients : pc'[k] \in Early =>
          k \notin closed' /\ k \notin Has(regs')
          /\ \A d \in Clients : client_fd'[d] # k /\ k \notin Has(backlog'[d])
    BY <1>1, <1>2, <1>8, <1>9 DEF IInv, Apart
  <2>5. \A k \in closed' :
          k \notin Has(regs')
          /\ \A d \in Clients : /\ k \notin Has(backlog'[d])
                                /\ client_fd'[d] = k => pc'[d] = "gone" \/ unregistered'[d] = 1
    BY <1>1, <1>2, <1>8, <1>9 DEF IInv, Apart
  <2>6. QED BY <2>1, <2>2, <2>3, <2>4, <2>5 DEF Apart
<1>11. QED BY <1>4, <1>5, <1>6, <1>10 DEF IInv

\* A client that is not interrupted and has something on its way on its connection is
\* waiting for the answer to it.
LEMMA Waiting ==
  ASSUME IInv, NEW c \in Clients \ interrupted, pc[c] \in {"menu", "repeat", "recv"},
         client_fd[c] \notin hungUp, req[client_fd[c]] # <<>>
  PROVE  /\ pc[c] = "recv" /\ asked[c] > 0
         /\ req[client_fd[c]] = <<asked[c]>> /\ resp[client_fd[c]] = <<>>
BY DEF IInv, Exchanges, Exchange

\* An answer of the server keeps it.
LEMMA ServerAnswerHolds ==
  ASSUME IInv, NEW k \in Clients, ServerAnswer(k)
  PROVE  IInv'
<1> DEFINE h == Head(req[k])
           rest == Tail(req[k])
<1>1. /\ req[k] # <<>> /\ h # API_UNREG
      /\ req' = [req EXCEPT ![k] = rest] /\ resp' = [resp EXCEPT ![k] = Append(@, h)]
      /\ UNCHANGED <<file, regs, backlog, registered, closed, hungUp, pc, bound, listening,
                     client_fd, asked, left, choice, unregistered, answer, interrupted, killed,
                     unregs>>
  BY DEF ServerAnswer, client, history
<1>2. /\ req \in [Clients -> Seq(Messages)] /\ resp \in [Clients -> Seq(Messages)]
  BY DEF IInv, TypeOK
<1>3. h \in Messages /\ rest \in Seq(Messages)
  <2>1. req[k] \in Seq(Messages)
    BY <1>2
  <2>2. QED BY <1>1, <2>1, HeadTailProperties
<1>4. req[k] = <<h>> \/ req[k] # <<h>>
  OBVIOUS
<1>5. \A a : req[k] = <<a>> => h = a /\ rest = <<>>
  OBVIOUS
<1> HIDE DEF h, rest
<1>6. /\ req' \in [Clients -> Seq(Messages)] /\ resp' \in [Clients -> Seq(Messages)]
      /\ req'[k] = rest /\ resp'[k] = Append(resp[k], h)
      /\ \A d \in Clients : d # k => req'[d] = req[d] /\ resp'[d] = resp[d]
  <2>1. resp[k] \in Seq(Messages)
    BY <1>2
  <2>2. Append(resp[k], h) \in Seq(Messages)
    BY <1>3, <2>1, AppendProperties
  <2>3. QED BY <1>1, <1>2, <1>3, <2>2
<1>7. TypeOK'
  BY <1>1, <1>6 DEF IInv, TypeOK
<1>8. Stages'
  BY <1>1 DEF IInv, Stages, Stage
<1>9. Apart'
  BY <1>1 DEF IInv, Apart
<1>10. Exchanges'
  <2>1. ASSUME NEW c \in Clients \ interrupted PROVE Exchange(c)'
    <3>1. Exchange(c) /\ client_fd[c] \in Clients \cup {None}
      BY DEF IInv, Exchanges, TypeOK
    <3>2. CASE client_fd[c] # k
      <4>1. pc[c] \in {"menu", "repeat", "recv"} =>
              req'[client_fd[c]] = req[client_fd[c]] /\ resp'[client_fd[c]] = resp[client_fd[c]]
        BY <1>6, <3>1, <3>2 DEF IInv, TypeOK, InMenu
      <4>2. QED BY <1>1, <3>1, <4>1 DEF Exchange
    <3>3. CASE client_fd[c] = k
      <4>1. pc[c] \in {"menu", "repeat"} => k \in hungUp
        BY <1>1, <3>1, <3>3 DEF Exchange
      <4>2. pc[c] = "recv" => asked[c] > 0 /\ req'[k] = <<>> /\ resp'[k] = <<asked[c]>>
        <5> SUFFICES ASSUME pc[c] = "recv"
                     PROVE  asked[c] > 0 /\ req'[k] = <<>> /\ resp'[k] = <<asked[c]>>
          OBVIOUS
        <5>1. asked[c] > 0 /\ req[k] = <<asked[c]>> /\ resp[k] = <<>>
          BY <1>1, <3>1, <3>3 DEF Exchange
        <5>2. h = asked[c] /\ rest = <<>>
          BY <1>5, <5>1
        <5>3. Append(<<>>, h) = <<h>>
          OBVIOUS
        <5>4. QED BY <1>6, <5>1, <5>2, <5>3
      <4>3. QED BY <1>1, <3>1, <3>3, <4>1, <4>2 DEF Exchange
    <3>4. QED BY <3>2, <3>3
  <2>2. ASSUME NEW j \in Clients, \A d \in Clients : client_fd'[d] # j
        PROVE  req'[j] = <<>> /\ resp'[j] = <<>>
    <3>1. \A d \in Clients : client_fd[d] # j
      BY <1>1, <2>2
    <3>2. req[j] = <<>> /\ resp[j] = <<>>
      BY <3>1 DEF IInv, Exchanges
    <3>3. j # k
      BY <1>1, <3>2
    <3>4. QED BY <1>6, <3>2, <3>3
  <2>3. QED BY <1>1, <2>1, <2>2 DEF IInv, Exchanges
<1>11. QED BY <1>7, <1>8, <1>9, <1>10 DEF IInv

\* So does its hanging up.
LEMMA ServerUnregisterHolds ==
  ASSUME IInv, NEW k \in Clients, NEW r \in Clients, ServerUnregister(k, r)
  PROVE  IInv'
<1> DEFINE rest == Tail(req[k])
<1>1. /\ req[k] # <<>> /\ Head(req[k]) = API_UNREG /\ req' = [req EXCEPT ![k] = rest]
      /\ registered' = registered \ {r} /\ hungUp' = hungUp \cup {r}
      /\ UNCHANGED <<file, regs, backlog, resp, closed, pc, bound, listening, client_fd, asked,
                     left, choice, unregistered, answer, interrupted, killed, unregs>>
  BY DEF ServerUnregister, client, history
<1>2. rest \in Seq(Messages)
  <2>1. req[k] \in Seq(Messages)
    BY DEF IInv, TypeOK
  <2>2. QED BY <1>1, <2>1, HeadTailProperties
<1>3. \A a : a > 0 => req[k] # <<a>>
  BY <1>1 DEF API_UNREG
<1> HIDE DEF rest
<1>4. /\ req' \in [Clients -> Seq(Messages)]
      /\ \A d \in Clients : d # k => req'[d] = req[d]
  BY <1>1, <1>2 DEF IInv, TypeOK
<1>5. TypeOK'
  BY <1>1, <1>4 DEF IInv, TypeOK
<1>6. Stages'
  BY <1>1 DEF IInv, Stages, Stage
<1>7. Apart'
  BY <1>1 DEF IInv, Apart
<1>8. Exchanges'
  <2>1. ASSUME NEW c \in Clients \ interrupted PROVE Exchange(c)'
    <3>1. Exchange(c) /\ client_fd[c] \in Clients \cup {None}
      BY DEF IInv, Exchanges, TypeOK
    <3>2. CASE client_fd[c] # k
      <4>1. pc[c] \in {"menu", "repeat", "recv"} => req'[client_fd[c]] = req[client_fd[c]]
        BY <1>4, <3>1, <3>2 DEF IInv, TypeOK, InMenu
      <4>2. QED BY <1>1, <3>1, <4>1 DEF Exchange
    <3>3. CASE client_fd[c] = k
      <4>1. pc[c] \in {"menu", "repeat"} => k \in hungUp
        BY <1>1, <3>1, <3>3 DEF Exchange
      <4>2. pc[c] # "recv"
        BY <1>1, <1>3, <3>1, <3>3 DEF Exchange
      <4>3. QED BY <1>1, <3>1, <3>3, <4>1, <4>2 DEF Exchange
    <3>4. QED BY <3>2, <3>3
  <2>2. ASSUME NEW j \in Clients, \A d \in Clients : client_fd'[d] # j
        PROVE  req'[j] = <<>> /\ resp'[j] = <<>>
    <3>1. req[j] = <<>> /\ resp[j] = <<>>
      BY <1>1, <2>2 DEF IInv, Exchanges
    <3>2. j # k
      BY <1>1, <3>1
    <3>3. QED BY <1>1, <1>4, <3>1, <3>2
  <2>3. QED BY <1>1, <2>1, <2>2 DEF IInv, Exchanges
<1>9. QED BY <1>5, <1>6, <1>7, <1>8 DEF IInv

-----------------------------------------------------------------------------
(***************************************************************************)
(* The theorems.                                                           *)
(***************************************************************************)
LEMMA ClientHolds ==
  ASSUME IInv, NEW c \in Clients, Register(c) \/ Menu(c) \/ Interrupt(c) \/ Kill(c)
  PROVE  IInv'
<1>1. CASE Crash(c)
  BY <1>1, CrashHolds
<1>2. CASE Register(c) /\ ~Crash(c)
  <2>1. CASE Exists(c) \/ Unlink(c) \/ Bind(c) \/ Listen(c)
    BY <1>2, <2>1, LocalRegister DEF Unlink, Listen
  <2>2. CASE SendRegister(c)
    BY <1>2, <2>2, SendRegisterHolds
  <2>3. CASE Accept(c)
    BY <2>3, AcceptHolds
  <2>4. CASE AcceptTimeout(c)
    BY <1>2, <2>4 DEF AcceptTimeout
  <2>5. QED BY <1>2, <2>1, <2>2, <2>3, <2>4 DEF Register
<1>3. CASE Menu(c)
  <2>1. CASE (\E n \in 0..(MaxRequests - asked[c]) : Choose(c, n)) \/ Leave(c) \/ EndOfRequests(c)
    BY <2>1, LocalMenu
  <2>2. CASE Request(c)
    BY <2>2, LocalMenu, RequestHolds
  <2>3. CASE Receive(c)
    BY <2>3, ReceiveHolds
  <2>4. CASE UnregSend(c)
    BY <2>4, LocalMenu, UnregSendHolds
  <2>5. CASE UnregClose(c)
    BY <2>5, UnregCloseHolds
  <2>6. CASE Exit(c)
    BY <2>6, ExitHolds
  <2>7. QED BY <1>3, <2>1, <2>2, <2>3, <2>4, <2>5, <2>6 DEF Menu
<1>4. CASE Interrupt(c)
  BY <1>4, LocalMenu
<1>5. CASE Kill(c)
  BY <1>1, <1>5 DEF Kill
<1>6. QED BY <1>1, <1>2, <1>3, <1>4, <1>5

\* What every state satisfies, for any number of clients.
LEMMA IInvHolds == Spec => []IInv
<1>1. Init => IInv
  BY InitHolds
<1>2. IInv /\ [Next]_vars => IInv'
  <2> SUFFICES ASSUME IInv, [Next]_vars PROVE IInv'
    OBVIOUS
  <2>1. ASSUME NEW c \in Clients, Register(c) \/ Menu(c) \/ Interrupt(c) \/ Kill(c)
        PROVE  IInv'
    BY <2>1, ClientHolds
  <2>2. CASE Server
    BY <2>2, ServerConnectHolds, ServerAnswerHolds, ServerUnregisterHolds DEF Server
  <2>3. CASE UNCHANGED vars
    <3>1. TypeOK' /\ Stages'
      BY <2>3 DEF vars, net, client, history, IInv, TypeOK, Stages, Stage
    <3>2. Apart' /\ Exchanges'
      BY <2>3 DEF vars, net, client, history, IInv, Apart, Exchanges, Exchange
    <3>3. QED BY <3>1, <3>2 DEF IInv
  <2>4. QED BY <2>1, <2>2, <2>3 DEF Next
<1>3. QED BY <1>1, <1>2, PTL DEF Spec

\* The model's variables stay in their sets; a client that is in the menu has a
\* connection, and none says more than two goodbyes.
THEOREM TypeCorrect == Spec => []TypeOK
<1>1. IInv => TypeOK
  BY DEF IInv
<1>2. QED BY <1>1, IInvHolds, PTL

\* What requestMetrics prints as a response is the response to the request it has just
\* made, or empty, for a client that was not interrupted.
THEOREM AnswersMatch == Spec => []AnswerMatches
<1>1. IInv => AnswerMatches
  BY DEF IInv, Exchanges, Exchange, AnswerMatches
<1>2. QED BY <1>1, IInvHolds, PTL

\* A client that ends by itself has told the server so once; twice only after a Ctrl-C
\* between send and close.
THEOREM EveryClientSaysGoodbye == Spec => []SaysGoodbye
<1>1. IInv => SaysGoodbye
  BY DEF IInv, Stages, Stage, SaysGoodbye
<1>2. QED BY <1>1, IInvHolds, PTL
=============================================================================
