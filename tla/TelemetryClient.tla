--------------------------- MODULE TelemetryClient ---------------------------
(***************************************************************************)
(* dpdk-telemetry-client.py, any number of them, and the telemetry thread  *)
(* of a DPDK process they register with.  A client binds a socket to a     *)
(* file, names the file to the server, and the server connects to it.  One *)
(* action per system call of a client.  The server and the kernel's        *)
(* sockets are external: they do what the client relies on.  A connection  *)
(* is called by the client whose registration the server made it for.      *)
(***************************************************************************)
EXTENDS Naturals, Sequences

CONSTANTS Clients,
          Paths,
          Path,         \* Path[c]: file_path; DEFAULT_FP unless one is given
          MaxRequests,  \* bound: the requests one client makes
          None

ASSUME PathAssumption == Path \in [Clients -> Paths]
ASSUME RequestsAssumption == MaxRequests \in Nat
ASSUME NoneAssumption == None \notin Clients /\ "stale" \notin Clients \cup {None}

VARIABLES
  file,          \* file[p]: whose socket is bound to it; None: no such file
  regs,          \* API_REG messages on their way to the server: their senders
  backlog,       \* backlog[c]: connections waiting in c's recv_fd
  req, resp,     \* what is on its way on each connection
  registered,    \* the connections the server serves
  closed,        \* connections the client has closed
  hungUp,        \* connections the server has closed
  pc,            \* the statement a client is at
  bound,         \* clients whose recv_fd got an address
  listening,
  client_fd,
  asked,         \* requests made so far
  left,          \* requests left in repeatedlyRequestMetrics
  choice,
  unregistered,  \* the flag
  answer,        \* history: the last answer and the request it was printed for
  interrupted,   \* history: clients interrupted by Ctrl-C in the menu
  killed,        \* history: clients killed or ended by an exception
  unregs         \* history: API_UNREG messages sent

\* Requests are numbered from 1.
API_UNREG == 0

net == <<file, regs, backlog, req, resp, registered, closed, hungUp>>
client == <<pc, bound, listening, client_fd, asked, left, choice, unregistered>>
history == <<answer, interrupted, killed, unregs>>
vars == <<net, client, history>>

Registering == {"exists", "unlink", "bind", "send", "listen", "accept"}
InMenu == {"menu", "repeat", "recv", "unregSend", "unregClose"}
States == Registering \cup InMenu \cup {"exit", "gone"}

Init ==
  /\ file \in [Paths -> {None, "stale"}]
  /\ regs = <<>> /\ registered = {} /\ closed = {} /\ hungUp = {}
  /\ backlog = [c \in Clients |-> <<>>]
  /\ req = [c \in Clients |-> <<>>] /\ resp = [c \in Clients |-> <<>>]
  /\ pc = [c \in Clients |-> "exists"]
  /\ bound = {} /\ listening = {}
  /\ client_fd = [c \in Clients |-> None]
  /\ asked = [c \in Clients |-> 0] /\ left = [c \in Clients |-> 0]
  /\ choice = [c \in Clients |-> 0]
  /\ unregistered = [c \in Clients |-> 0]
  /\ answer = [c \in Clients |-> <<0, 0>>]
  /\ interrupted = {} /\ killed = {}
  /\ unregs = [c \in Clients |-> 0]

Go(c, p) == pc' = [pc EXCEPT ![c] = p]

\* The process is over: the kernel closes its sockets, the file stays.  The
\* server sees that connections nobody accepted are closed.
End(c) ==
  /\ Go(c, "gone")
  /\ file' = [p \in Paths |-> IF file[p] = c THEN "stale" ELSE file[p]]
  /\ closed' = closed \cup {backlog[c][i] : i \in DOMAIN backlog[c]} \cup ({client_fd[c]} \ {None})
  /\ backlog' = [backlog EXCEPT ![c] = <<>>]
  /\ listening' = listening \ {c} /\ bound' = bound \ {c}
  /\ UNCHANGED client_fd

\* An exception that register does not catch ends the client; __del__ then has
\* no client_fd to say goodbye on, and prints so.
Crash(c) ==
  /\ End(c) /\ killed' = killed \cup {c}
  /\ UNCHANGED <<regs, req, resp, registered, hungUp, asked, left, choice, unregistered,
                 answer, interrupted, unregs>>

-----------------------------------------------------------------------------
(***************************************************************************)
(* register.                                                               *)
(***************************************************************************)
Exists(c) ==
  /\ pc[c] = "exists"
  /\ Go(c, IF file[Path[c]] # None THEN "unlink" ELSE "bind")
  /\ UNCHANGED <<net, bound, listening, client_fd, asked, left, choice, unregistered, history>>

\* Another client may have removed the file first.
Unlink(c) ==
  /\ pc[c] = "unlink"
  /\ \/ /\ file[Path[c]] # None
        /\ file' = [file EXCEPT ![Path[c]] = None] /\ Go(c, "bind")
        /\ UNCHANGED <<regs, backlog, req, resp, registered, closed, hungUp, bound, listening,
                       client_fd, asked, left, choice, unregistered, history>>
     \/ file[Path[c]] = None /\ Crash(c)

\* If the file is back the error is printed and register goes on.
Bind(c) ==
  /\ pc[c] = "bind" /\ Go(c, "send")
  /\ \/ /\ file[Path[c]] = None
        /\ file' = [file EXCEPT ![Path[c]] = c] /\ bound' = bound \cup {c}
     \/ file[Path[c]] # None /\ UNCHANGED <<file, bound>>
  /\ UNCHANGED <<regs, backlog, req, resp, registered, closed, hungUp, listening, client_fd,
                 asked, left, choice, unregistered, history>>

\* The server's socket may not be there.
SendRegister(c) ==
  /\ pc[c] = "send"
  /\ \/ /\ regs' = Append(regs, c) /\ Go(c, "listen")
        /\ UNCHANGED <<file, backlog, req, resp, registered, closed, hungUp, bound, listening,
                       client_fd, asked, left, choice, unregistered, history>>
     \/ Crash(c)

\* A socket without an address cannot listen.
Listen(c) ==
  /\ pc[c] = "listen"
  /\ \/ /\ c \in bound
        /\ listening' = listening \cup {c} /\ Go(c, "accept")
        /\ UNCHANGED <<net, bound, client_fd, asked, left, choice, unregistered, history>>
     \/ c \notin bound /\ Crash(c)

Accept(c) ==
  /\ pc[c] = "accept" /\ backlog[c] # <<>>
  /\ client_fd' = [client_fd EXCEPT ![c] = Head(backlog[c])]
  /\ backlog' = [backlog EXCEPT ![c] = Tail(@)] /\ Go(c, "menu")
  /\ UNCHANGED <<file, regs, req, resp, registered, closed, hungUp, bound, listening, asked,
                 left, choice, unregistered, history>>

\* Mutant: without settimeout accept waits for as long as it takes.
AcceptTimeout_Never(c) == FALSE /\ Crash(c)

\* Mutant: the timeout is caught and the menu shown.
AcceptTimeout_Caught(c) ==
  /\ pc[c] = "accept" /\ backlog[c] = <<>> /\ Go(c, "menu")
  /\ UNCHANGED <<net, bound, listening, client_fd, asked, left, choice, unregistered, history>>

\* settimeout(2).
AcceptTimeout(c) ==
  pc[c] = "accept" /\ backlog[c] = <<>> /\ Crash(c)

-----------------------------------------------------------------------------
(***************************************************************************)
(* interactiveMenu.  Whatever fails in it, or a Ctrl-C, leads back to the  *)
(* test of choice.                                                         *)
(***************************************************************************)
Back(c) == IF choice[c] = 4 THEN "exit" ELSE "menu"

\* Choices 1 and 3 ask once, 2 asks n times.  All that is asked of choice later
\* is whether it is 4.
Choose(c, n) ==
  /\ pc[c] = "menu" /\ Go(c, "repeat")
  /\ choice' = [choice EXCEPT ![c] = 0] /\ left' = [left EXCEPT ![c] = n]
  /\ UNCHANGED <<net, bound, listening, client_fd, asked, unregistered, history>>

Leave(c) ==
  /\ pc[c] = "menu" /\ Go(c, "unregSend")
  /\ choice' = [choice EXCEPT ![c] = 4]
  /\ UNCHANGED <<net, bound, listening, client_fd, asked, left, unregistered, history>>

CanSend(c) == client_fd[c] \notin closed \cup hungUp

\* requestMetrics and requestGlobalMetrics, first half.
Request(c) ==
  /\ pc[c] = "repeat" /\ left[c] > 0
  /\ \/ /\ CanSend(c)
        /\ asked' = [asked EXCEPT ![c] = @ + 1] /\ left' = [left EXCEPT ![c] = @ - 1]
        /\ req' = [req EXCEPT ![client_fd[c]] = Append(@, asked'[c])]
        /\ Go(c, "recv")
     \/ /\ ~CanSend(c) /\ Go(c, "menu")
        /\ left' = [left EXCEPT ![c] = 0] /\ UNCHANGED <<req, asked>>
  /\ UNCHANGED <<file, regs, backlog, resp, registered, closed, hungUp, bound, listening,
                 client_fd, choice, unregistered, history>>

\* Mutant: recv has a timeout too, and the menu's except takes it.
Receive_TimesOut(c) ==
  LET k == client_fd[c] IN
  /\ pc[c] = "recv"
  /\ \/ /\ resp[k] # <<>> /\ Go(c, "repeat")
        /\ answer' = [answer EXCEPT ![c] = <<asked[c], Head(resp[k])>>]
        /\ resp' = [resp EXCEPT ![k] = Tail(@)]
        /\ UNCHANGED left
     \/ /\ resp[k] = <<>> /\ Go(c, "menu")
        /\ left' = [left EXCEPT ![c] = 0] /\ UNCHANGED <<answer, resp>>
  /\ UNCHANGED <<file, regs, backlog, req, registered, closed, hungUp, bound, listening,
                 client_fd, asked, choice, unregistered, interrupted, killed, unregs>>

\* Second half.  A connection the server closed gives an empty answer, 0.
Receive(c) ==
  LET k == client_fd[c] IN
  /\ pc[c] = "recv" /\ (resp[k] # <<>> \/ k \in hungUp)
  /\ IF resp[k] # <<>>
     THEN /\ answer' = [answer EXCEPT ![c] = <<asked[c], Head(resp[k])>>]
          /\ resp' = [resp EXCEPT ![k] = Tail(@)]
     ELSE answer' = [answer EXCEPT ![c] = <<asked[c], 0>>] /\ UNCHANGED resp
  /\ Go(c, "repeat")
  /\ UNCHANGED <<file, regs, backlog, req, registered, closed, hungUp, bound, listening,
                 client_fd, asked, left, choice, unregistered, interrupted, killed, unregs>>

EndOfRequests(c) ==
  /\ pc[c] = "repeat" /\ left[c] = 0
  /\ Go(c, "menu")
  /\ UNCHANGED <<net, bound, listening, client_fd, asked, left, choice, unregistered, history>>

SendUnregister(c) ==
  /\ req' = [req EXCEPT ![client_fd[c]] = Append(@, API_UNREG)]
  /\ unregs' = [unregs EXCEPT ![c] = @ + 1]

UnregSend(c) ==
  /\ pc[c] = "unregSend"
  /\ \/ CanSend(c) /\ SendUnregister(c) /\ Go(c, "unregClose")
     \/ ~CanSend(c) /\ Go(c, "exit") /\ UNCHANGED <<req, unregs>>
  /\ UNCHANGED <<file, regs, backlog, resp, registered, closed, hungUp, bound, listening,
                 client_fd, asked, left, choice, unregistered, answer, interrupted, killed>>

UnregClose(c) ==
  /\ pc[c] = "unregClose"
  /\ closed' = closed \cup {client_fd[c]}
  /\ unregistered' = [unregistered EXCEPT ![c] = 1] /\ Go(c, "exit")
  /\ UNCHANGED <<file, regs, backlog, req, resp, registered, hungUp, bound, listening,
                 client_fd, asked, left, choice, history>>

Interrupt(c) ==
  /\ pc[c] \in InMenu /\ Go(c, Back(c))
  /\ interrupted' = interrupted \cup {c} /\ left' = [left EXCEPT ![c] = 0]
  /\ UNCHANGED <<net, bound, listening, client_fd, asked, choice, unregistered,
                 answer, killed, unregs>>

\* Mutant: the destructor does not say goodbye.
Exit_Silent(c) ==
  /\ pc[c] = "exit" /\ End(c)
  /\ UNCHANGED <<regs, req, resp, registered, hungUp, asked, left, choice, unregistered,
                 answer, interrupted, killed, unregs>>

\* __del__ of the client and of its sockets, at the end of the program.
Exit(c) ==
  /\ pc[c] = "exit"
  /\ IF unregistered[c] = 0 /\ CanSend(c) THEN SendUnregister(c) ELSE UNCHANGED <<req, unregs>>
  /\ End(c)
  /\ UNCHANGED <<regs, resp, registered, hungUp, asked, left, choice, unregistered,
                 answer, interrupted, killed>>

Kill(c) == pc[c] # "gone" /\ Crash(c)

Register(c) == \/ Exists(c) \/ Unlink(c) \/ Bind(c) \/ SendRegister(c) \/ Listen(c)
               \/ Accept(c) \/ AcceptTimeout(c)

Menu(c) == \/ \E n \in 0..(MaxRequests - asked[c]) : Choose(c, n)
           \/ Leave(c) \/ Request(c) \/ Receive(c) \/ EndOfRequests(c)
           \/ UnregSend(c) \/ UnregClose(c) \/ Exit(c)

-----------------------------------------------------------------------------
(***************************************************************************)
(* The server.                                                             *)
(***************************************************************************)
\* It connects to whatever listens behind the path, if anything does yet.
ServerConnect ==
  /\ regs # <<>> /\ regs' = Tail(regs)
  /\ LET l == file[Path[Head(regs)]] IN
     IF l \in listening
     THEN /\ backlog' = [backlog EXCEPT ![l] = Append(@, Head(regs))]
          /\ registered' = registered \cup {Head(regs)}
     ELSE UNCHANGED <<backlog, registered>>
  /\ UNCHANGED <<file, req, resp, closed, hungUp, client, history>>

ServerAnswer(k) ==
  /\ k \in registered /\ req[k] # <<>> /\ Head(req[k]) # API_UNREG
  /\ req' = [req EXCEPT ![k] = Tail(@)]
  /\ resp' = [resp EXCEPT ![k] = Append(@, Head(req[k]))]
  /\ UNCHANGED <<file, regs, backlog, registered, closed, hungUp, client, history>>

\* API_UNREG names a path, not a connection.
ServerUnregister(k, r) ==
  /\ k \in registered /\ req[k] # <<>> /\ Head(req[k]) = API_UNREG
  /\ req' = [req EXCEPT ![k] = Tail(@)]
  /\ r \in registered /\ Path[r] = Path[k]
  /\ registered' = registered \ {r} /\ hungUp' = hungUp \cup {r}
  /\ UNCHANGED <<file, regs, backlog, resp, closed, client, history>>

Server == \/ ServerConnect
          \/ \E k \in Clients : ServerAnswer(k)
          \/ \E k, r \in Clients : ServerUnregister(k, r)

Next == \/ \E c \in Clients : Register(c) \/ Menu(c) \/ Interrupt(c) \/ Kill(c)
        \/ Server

Spec == Init /\ [][Next]_vars

\* A client's register goes on, its accept for two seconds at most.  Nothing is
\* asked of the server or of the user.
FairSpec == Spec /\ \A c \in Clients : WF_vars(Register(c))

-----------------------------------------------------------------------------
Messages == {API_UNREG} \cup 1..MaxRequests

TypeOK ==
  /\ file \in [Paths -> Clients \cup {None, "stale"}]
  /\ regs \in Seq(Clients)
  /\ backlog \in [Clients -> Seq(Clients)]
  /\ req \in [Clients -> Seq(Messages)] /\ resp \in [Clients -> Seq(Messages)]
  /\ registered \subseteq Clients /\ hungUp \subseteq Clients /\ closed \subseteq Clients
  /\ pc \in [Clients -> States]
  /\ bound \subseteq Clients /\ listening \subseteq bound
  /\ client_fd \in [Clients -> Clients \cup {None}]
  /\ \A c \in Clients : pc[c] \in InMenu \cup {"exit"} => client_fd[c] # None
  /\ asked \in [Clients -> 0..MaxRequests] /\ left \in [Clients -> 0..MaxRequests]
  /\ choice \in [Clients -> {0, 4}]
  /\ unregistered \in [Clients -> {0, 1}] /\ unregs \in [Clients -> 0..2]
  /\ interrupted \subseteq Clients /\ killed \subseteq Clients

\* requestMetrics 78-81: what is printed as the response is the response to the
\* request just made, or empty when the server has hung up.  It rests on recv
\* having no timeout; a Ctrl-C in between (120) does leave a response behind,
\* which the next request then takes for its own.
AnswerMatches ==
  \A c \in Clients \ interrupted : answer[c][2] \in {0, answer[c][1]}

\* interactiveMenu 115-117 and __del__ 49-54: a client that ends by itself has told
\* the server so, once, whether the menu did it or was interrupted or failed on
\* the way; only a Ctrl-C between send and close makes it say so twice.
SaysGoodbye ==
  \A c \in Clients :
    pc[c] = "gone" /\ c \notin killed /\ client_fd[c] \notin hungUp =>
      unregs[c] = 1 \/ (unregs[c] = 2 /\ c \in interrupted)

\* register 59-72: it ends, with a connection or an error.  The server may connect
\* before listen (71) is reached and be refused; only the timeout (66) ends that.
RegisterEnds ==
  \A c \in Clients : pc[c] \in Registering ~> pc[c] \in InMenu \cup {"exit", "gone"}
=============================================================================
