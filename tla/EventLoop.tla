----------------------------- MODULE EventLoop -----------------------------
(***************************************************************************)
(* The single-threaded epoll loop (IOMultiplexer::runEventLoop), the       *)
(* listening server with its pool of ClientServer objects (Server), and    *)
(* the descriptors that client connections and CGI pipes own.              *)
(*                                                                         *)
(* epoll_wait returns a BATCH of events.  The handlers of the batch run    *)
(* one after another, and any of them may close a descriptor whose event   *)
(* is still waiting in the batch, or open a descriptor that reuses its     *)
(* number.  The module is about what that does to the map fd -> listener.  *)
(*                                                                         *)
(* Abstractions: a request is the kind of work it causes; a peer sends a   *)
(* request only when it has received the previous response; a response is  *)
(* a flag; a CGI that closes its output exits; time is a free choice       *)
(* (every timeout may or may not have expired when it is tested).          *)
(***************************************************************************)
EXTENDS Integers, FiniteSets

CONSTANTS
  Fd,          \* the descriptor numbers that sockets and pipes can get
  ListenFds,   \* the listening sockets opened by StartServer
  MaxConns,    \* bound on connections, accepted or waiting, at a time
  Requests,    \* the kinds of input a peer may send
  CtlMayFail   \* whether epoll_ctl(EPOLL_CTL_ADD) may fail (ENOMEM, ENOSPC)

Client == 1..MaxConns    \* positions in Server::_clients, counted from one
NoFd == -1
NoClient == 0

\* What one recv() of a peer's bytes amounts to: an incomplete request, a
\* request answered at once, one that starts a CGI (without or with a body
\* file), and body bytes of a request over client_max_body_size.
CgiRequests == {"get_cgi", "post_cgi"}
RequestKinds == {"part", "plain", "too_big"} \cup CgiRequests

ASSUME EventLoopAssumption ==
  /\ Fd \subseteq Nat
  /\ ListenFds \subseteq Fd
  /\ MaxConns \in Nat
  /\ Requests \subseteq RequestKinds
  /\ CtlMayFail \in BOOLEAN

\* The values of std::map<int, IEvenetListeners *>.
ServerL == [kind |-> "server", id |-> NoClient]
ClientL(c) == [kind |-> "client", id |-> c]
CgiL(c) == [kind |-> "cgi", id |-> c]        \* the CGIHandler of client c
NoListener == [kind |-> "none", id |-> NoClient]

Listener == {ServerL, NoListener} \cup {ClientL(c) : c \in Client}
                                  \cup {CgiL(c) : c \in Client}

Event == [fd : Fd, in : BOOLEAN, out : BOOLEAN, hup : BOOLEAN, stale : BOOLEAN]

VARIABLES
  obj,              \* kernel: the object behind each descriptor number
  interest,         \* kernel: the epoll interest list
  backlog,          \* kernel: the listening sockets with a connection to
                    \* accept (bound: one each)
  input,            \* kernel: unread bytes of a socket or a pipe
  hup,              \* kernel: the peer, or the CGI, closed its end
  listeners,        \* IOMultiplexer::_listeners
  server_configs,   \* ClientServer::_server_configs: the listening socket
                    \* whose configs it was constructed with (NoFd: no object)
  server_socket_fd, \* ClientServer::_server_socket_fd
  is_started,       \* the clients whose _is_started is true
  peer_socket_fd,   \* ClientServer::_peer_socket_fd
  output_fd,        \* output_fd of the client's _pendingCgi (NoFd: no CGI)
  ready,            \* the clients with _response_ready and bytes to send
  batch,            \* events of this epoll_wait not yet dispatched; "stale"
                    \* (history) marks one whose descriptor has been closed
  pc,               \* "loop", "client_out" (second half of onEvent), "dead"
  cur,              \* the client being handled at "client_out"
  anomaly           \* history: wrong outcomes of dispatching so far

kernel == <<obj, interest, backlog, input, hup>>
pool == <<server_configs, server_socket_fd, is_started, peer_socket_fd>>
vars == <<kernel, listeners, pool, output_fd, ready, batch, pc, cur, anomaly>>

Free == {f \in Fd : obj[f] = "free"}
\* POSIX hands out the lowest free number.
Lowest(f, S) == f \in S /\ \A g \in S : f <= g
Mark(e, F) == IF e.fd \in F THEN [e EXCEPT !.stale = TRUE] ELSE e

\* Faulty variant of Owned: terminate() forgets the CGI of the client.
OwnedWithoutPipe(c) == {peer_socket_fd[c]} \ {NoFd}

\* The descriptors a client object owns: its socket and its CGI's pipe.
Owned(c) == {peer_socket_fd[c], output_fd[c]} \ {NoFd}

\* Faulty variant of Close: removeListener leaves the entry in the map.
CloseKeepsEntry(F, rest) ==
  /\ obj' = [f \in Fd |-> IF f \in F THEN "free" ELSE obj[f]]
  /\ interest' = interest \ F
  /\ input' = [f \in Fd |-> IF f \in F THEN "none" ELSE input[f]]
  /\ hup' = [f \in Fd |-> IF f \in F THEN FALSE ELSE hup[f]]
  /\ batch' = {Mark(e, F) : e \in rest}
  /\ UNCHANGED listeners

\* close(2) on the descriptors F while "rest" of the batch is pending.
Close(F, rest) ==
  /\ obj' = [f \in Fd |-> IF f \in F THEN "free" ELSE obj[f]]
  /\ interest' = interest \ F
  /\ input' = [f \in Fd |-> IF f \in F THEN "none" ELSE input[f]]
  /\ hup' = [f \in Fd |-> IF f \in F THEN FALSE ELSE hup[f]]
  /\ listeners' = [f \in Fd |-> IF f \in F THEN NoListener ELSE listeners[f]]
  /\ batch' = {Mark(e, F) : e \in rest}

\* A descriptor number f gets a new object, registered for listener l.
Open(f, kind, l) ==
  /\ obj' = [obj EXCEPT ![f] = kind]
  /\ interest' = interest \cup {f}
  /\ listeners' = [listeners EXCEPT ![f] = l]

Init ==
  /\ obj = [f \in Fd |-> IF f \in ListenFds THEN "listen" ELSE "free"]
  /\ interest = ListenFds
  /\ backlog = {}
  /\ input = [f \in Fd |-> "none"]
  /\ hup = [f \in Fd |-> FALSE]
  /\ listeners = [f \in Fd |-> IF f \in ListenFds THEN ServerL ELSE NoListener]
  /\ server_configs = [c \in Client |-> NoFd]
  /\ server_socket_fd = [c \in Client |-> NoFd]
  /\ is_started = {}
  /\ peer_socket_fd = [c \in Client |-> NoFd]
  /\ output_fd = [c \in Client |-> NoFd]
  /\ ready = {}
  /\ batch = {}
  /\ pc = "loop"
  /\ cur = NoClient
  /\ anomaly = {}
-----------------------------------------------------------------------------
(* Peers and CGI processes.  Their steps fall between two handlers or two  *)
(* halves of the loop's work; a handler reads each kernel fact only once,  *)
(* so a step in the middle of it can be counted as before or after it.     *)

Connect(l) ==
  /\ l \notin backlog
  /\ Cardinality(is_started) + Cardinality(backlog) < MaxConns
  /\ backlog' = backlog \cup {l}
  /\ UNCHANGED <<obj, interest, input, hup, listeners, pool, output_fd, ready,
                 batch, pc, cur, anomaly>>

PeerSend(c, r) ==
  LET f == peer_socket_fd[c] IN
  /\ c \in is_started \ ready
  /\ output_fd[c] = NoFd
  /\ input[f] = "none" /\ ~hup[f]
  /\ input' = [input EXCEPT ![f] = r]
  /\ UNCHANGED <<obj, interest, backlog, hup, listeners, pool, output_fd,
                 ready, batch, pc, cur, anomaly>>

CgiWrite(f) ==
  /\ obj[f] = "pipe" /\ input[f] = "none" /\ ~hup[f]
  /\ input' = [input EXCEPT ![f] = "output"]
  /\ UNCHANGED <<obj, interest, backlog, hup, listeners, pool, output_fd,
                 ready, batch, pc, cur, anomaly>>

\* A peer closes its connection; a CGI exits.
HangUp(f) ==
  /\ obj[f] \in {"socket", "pipe"} /\ ~hup[f]
  /\ hup' = [hup EXCEPT ![f] = TRUE]
  /\ UNCHANGED <<obj, interest, backlog, input, listeners, pool, output_fd,
                 ready, batch, pc, cur, anomaly>>

Environment ==
  /\ pc = "loop"
  /\ \/ \E l \in ListenFds : Connect(l)
     \/ \E c \in Client, r \in Requests : PeerSend(c, r)
     \/ \E f \in Fd : CgiWrite(f) \/ HangUp(f)
-----------------------------------------------------------------------------
(* The event loop                                                          *)

\* Faulty variant of EventOf: the end of a pipe is not reported.
EventWithoutHup(f) ==
  [fd |-> f, in |-> f \in backlog \/ (f \notin ListenFds /\ input[f] # "none")
                      \/ (obj[f] = "socket" /\ hup[f]),
   out |-> obj[f] = "socket", hup |-> FALSE, stale |-> FALSE]

\* What epoll reports of f now.  Clients register for EPOLLIN | EPOLLOUT,
\* and a socket whose peer closed is readable; the write end of a pipe that
\* is gone gives EPOLLHUP.
EventOf(f) ==
  [fd    |-> f,
   in    |-> \/ f \in backlog
             \/ f \notin ListenFds /\ input[f] # "none"
             \/ obj[f] = "socket" /\ hup[f],
   out   |-> obj[f] = "socket",
   hup   |-> obj[f] = "pipe" /\ hup[f],
   stale |-> FALSE]

\* epoll_wait: it blocks until a descriptor of the interest list is ready.
Poll ==
  LET Ready == {f \in interest : LET e == EventOf(f) IN e.in \/ e.out \/ e.hup}
  IN
  /\ pc = "loop" /\ batch = {} /\ Ready # {}
  /\ batch' = {EventOf(f) : f \in Ready}
  /\ UNCHANGED <<kernel, listeners, pool, output_fd, ready, pc, cur, anomaly>>

\* The loop takes an event and finds its listener.  The array's order is the
\* kernel's: any order.
Dispatch(e, kind) ==
  /\ pc = "loop" /\ e \in batch
  /\ listeners[e.fd].kind = kind

\* The exception leaves runEventLoop; main reports it and exits.
LookupFails(e) ==
  /\ Dispatch(e, "none")
  /\ pc' = "dead"
  /\ anomaly' = anomaly \cup {"no_listener"}
  /\ batch' = batch \ {e}
  /\ UNCHANGED <<kernel, listeners, pool, output_fd, ready, cur>>
-----------------------------------------------------------------------------
(* Server::accept_peer                                                     *)

\* accept() returns -1: no descriptor is free.
AcceptFails(e) ==
  /\ Dispatch(e, "server")
  /\ Free = {}
  /\ batch' = batch \ {e}
  /\ UNCHANGED <<kernel, listeners, pool, output_fd, ready, pc, cur, anomaly>>

Idle == {c \in Client : server_configs[c] # NoFd /\ c \notin is_started}
Unused == {c \in Client : server_configs[c] = NoFd}

\* The scan of _clients: the first object that is not started, or a new one
\* at the end of the vector.
Slot(c) == IF Idle # {} THEN Lowest(c, Idle) ELSE Lowest(c, Unused)

\* Faulty variant of AssignSlot: the two descriptors are swapped.
AssignSlotSwapped(c, l, f) ==
  /\ peer_socket_fd' = [peer_socket_fd EXCEPT ![c] = l]
  /\ server_socket_fd' = [server_socket_fd EXCEPT ![c] = f]
  /\ server_configs' = [server_configs EXCEPT ![c] = f]

\* An object of the pool gets the two socket fds, a new one the configs too.
AssignSlot(c, l, f) ==
  /\ peer_socket_fd' = [peer_socket_fd EXCEPT ![c] = f]
  /\ server_socket_fd' = [server_socket_fd EXCEPT ![c] = l]
  /\ server_configs' = IF server_configs[c] = NoFd
                       THEN [server_configs EXCEPT ![c] = l]
                       ELSE server_configs

\* RegisterWithIOMultiplexer succeeds.
AcceptPeer(e, f, c) ==
  /\ Dispatch(e, "server")
  /\ e.fd \in backlog /\ Lowest(f, Free) /\ Slot(c)
  /\ listeners[f] = NoListener
  /\ AssignSlot(c, e.fd, f)
  /\ Open(f, "socket", ClientL(c))
  /\ is_started' = is_started \cup {c}
  /\ backlog' = backlog \ {e.fd}
  /\ batch' = batch \ {e}
  /\ UNCHANGED <<input, hup, output_fd, ready, pc, cur, anomaly>>

\* Faulty variant of RegisterFails: the socket is not closed.
RegisterLeaks(e, f, c) ==
  /\ Dispatch(e, "server") /\ CtlMayFail
  /\ e.fd \in backlog /\ Lowest(f, Free) /\ Slot(c)
  /\ AssignSlot(c, e.fd, f)
  /\ obj' = [obj EXCEPT ![f] = "socket"]
  /\ listeners' = [listeners EXCEPT ![f] = ClientL(c)]
  /\ backlog' = backlog \ {e.fd} /\ batch' = batch \ {e}
  /\ UNCHANGED <<interest, input, hup, is_started, output_fd, ready, pc, cur, anomaly>>

\* addListener throws: the number already has an entry, or epoll_ctl failed
\* after the entry was inserted.  The socket is closed and the entry stays.
RegisterFails(e, f, c) ==
  /\ Dispatch(e, "server")
  /\ e.fd \in backlog /\ Lowest(f, Free) /\ Slot(c)
  /\ listeners[f] # NoListener \/ CtlMayFail
  /\ AssignSlot(c, e.fd, f)
  /\ listeners' = IF listeners[f] = NoListener
                  THEN [listeners EXCEPT ![f] = ClientL(c)] ELSE listeners
  /\ backlog' = backlog \ {e.fd}
  /\ batch' = batch \ {e}
  /\ UNCHANGED <<obj, interest, input, hup, is_started, output_fd, ready, pc,
                 cur, anomaly>>
-----------------------------------------------------------------------------
(* ClientServer::onEvent, EPOLLIN half.  The handler uses its own          *)
(* _peer_socket_fd, not the descriptor the event names.                    *)

\* ClientServer::terminate, which does nothing unless the object is started.
Terminate(c, rest) ==
  /\ Close(Owned(c), rest)
  /\ is_started' = is_started \ {c}
  /\ output_fd' = [output_fd EXCEPT ![c] = NoFd]
  /\ ready' = ready \ {c}
  /\ UNCHANGED <<backlog, server_configs, server_socket_fd, peer_socket_fd>>

\* The EPOLLOUT half follows if the event has that bit.
ToOutHalf(e, c) ==
  /\ pc' = IF e.out THEN "client_out" ELSE "loop"
  /\ cur' = IF e.out THEN c ELSE NoClient

\* No EPOLLIN bit, or an object that is not started: recv() fails and
\* terminate() returns at once.
ClientSkips(e) ==
  LET c == listeners[e.fd].id IN
  /\ Dispatch(e, "client")
  /\ ~e.in \/ c \notin is_started
  /\ batch' = batch \ {e}
  /\ ToOutHalf(e, c)
  /\ UNCHANGED <<kernel, listeners, pool, output_fd, ready, anomaly>>

\* recv() returns bytes of an incomplete request, or of a complete one that
\* is answered at once (processNormalRequest).
ClientRequest(e) ==
  LET c == listeners[e.fd].id
      f == peer_socket_fd[c] IN
  /\ Dispatch(e, "client") /\ e.in /\ c \in is_started
  /\ input[f] \in {"part", "plain"}
  /\ ready' = IF input[f] = "plain" THEN ready \cup {c} ELSE ready
  /\ input' = [input EXCEPT ![f] = "none"]
  /\ batch' = batch \ {e}
  /\ ToOutHalf(e, c)
  /\ UNCHANGED <<obj, interest, backlog, hup, listeners, pool, output_fd,
                 anomaly>>

\* Faulty variant of ClientLeaves: a closed connection is taken for one with
\* nothing to read yet.
ClientIgnoresEof(e) ==
  LET c == listeners[e.fd].id IN
  /\ Dispatch(e, "client") /\ e.in /\ c \in is_started
  /\ input[peer_socket_fd[c]] \in {"none", "too_big"}
  /\ batch' = batch \ {e}
  /\ ToOutHalf(e, c)
  /\ UNCHANGED <<kernel, listeners, pool, output_fd, ready, anomaly>>

\* recv() returns 0 or -1, or the body is over the limit (413): terminate().
ClientLeaves(e) ==
  LET c == listeners[e.fd].id
      f == peer_socket_fd[c] IN
  /\ Dispatch(e, "client") /\ e.in /\ c \in is_started
  /\ input[f] \in {"none", "too_big"}
  /\ Terminate(c, batch \ {e})
  /\ anomaly' = IF input[f] = "none" /\ ~hup[f]
                THEN anomaly \cup {"cut"} ELSE anomaly
  /\ UNCHANGED <<pc, cur>>

\* recv() returns a CGI request and startCGI succeeds.  The file with the
\* body takes the lowest number, the pipe the next two; the body file and
\* the write end are closed again before the handler returns.
ClientStartsCgi(e, g) ==
  LET c == listeners[e.fd].id
      f == peer_socket_fd[c]
      BodyFd == IF input[f] = "post_cgi"
                THEN {b \in Free : Lowest(b, Free)} ELSE {} IN
  /\ Dispatch(e, "client") /\ e.in /\ c \in is_started
  /\ input[f] \in CgiRequests
  /\ Lowest(g, Free \ BodyFd)
  /\ Free \ (BodyFd \cup {g}) # {}
  /\ listeners[g] = NoListener
  /\ Open(g, "pipe", CgiL(c))
  /\ output_fd' = [output_fd EXCEPT ![c] = g]
  /\ input' = [input EXCEPT ![f] = "none"]
  /\ batch' = batch \ {e}
  /\ ToOutHalf(e, c)
  /\ UNCHANGED <<backlog, hup, pool, ready, anomaly>>

\* recv() returns a CGI request and something throws: no script, no free
\* descriptor, fork() (the map is untouched), or addListener, after which
\* ~CGIHandler erases the entry of the pipe.  The answer is 500.
ClientCgiFails(e) ==
  LET c == listeners[e.fd].id
      f == peer_socket_fd[c] IN
  /\ Dispatch(e, "client") /\ e.in /\ c \in is_started
  /\ input[f] \in CgiRequests
  /\ \/ UNCHANGED listeners
     \/ \E g \in Free : /\ listeners[g] # NoListener
                        /\ listeners' = [listeners EXCEPT ![g] = NoListener]
  /\ ready' = ready \cup {c}
  /\ input' = [input EXCEPT ![f] = "none"]
  /\ batch' = batch \ {e}
  /\ ToOutHalf(e, c)
  /\ UNCHANGED <<obj, interest, backlog, hup, pool, output_fd, anomaly>>
-----------------------------------------------------------------------------
(* ClientServer::onEvent, EPOLLOUT half                                    *)

\* checkCGIProgress: the CGI ran too long; it is killed, the answer is 504.
CgiTimesOut ==
  /\ pc = "client_out" /\ output_fd[cur] # NoFd
  /\ Close({output_fd[cur]}, batch)
  /\ output_fd' = [output_fd EXCEPT ![cur] = NoFd]
  /\ ready' = ready \cup {cur}
  /\ UNCHANGED <<backlog, pool, pc, cur, anomaly>>

\* handleResponse has nothing to send, or send() took part of the buffer,
\* or all of it and the connection is kept alive.
HandleResponse ==
  /\ pc = "client_out"
  /\ ready' \in {ready, ready \ {cur}}
  /\ pc' = "loop" /\ cur' = NoClient
  /\ UNCHANGED <<kernel, listeners, pool, output_fd, batch, anomaly>>

\* handleResponse ends the connection: inactivity timeout, failing send(),
\* or the response is complete and the connection is not kept alive.
ResponseEnds ==
  /\ pc = "client_out" /\ cur \in ready
  /\ Terminate(cur, batch)
  /\ pc' = "loop" /\ cur' = NoClient
  /\ UNCHANGED anomaly
-----------------------------------------------------------------------------
(* CGIHandler::onEvent                                                     *)

\* EPOLLIN without EPOLLHUP: all or part of the output is read.
CgiRead(e) ==
  /\ Dispatch(e, "cgi")
  /\ e.in => input[e.fd] # "none"
  /\ ~e.hup
  /\ input' \in {input, [input EXCEPT ![e.fd] = "none"]}
  /\ batch' = batch \ {e}
  /\ UNCHANGED <<obj, interest, backlog, hup, listeners, pool, output_fd,
                 ready, pc, cur, anomaly>>

\* Faulty variants of CgiFinalize: the first read counts as the end of the
\* output; the connection is closed with the CGI.
CgiFinalizeOnRead(e) ==
  LET c == listeners[e.fd].id IN
  /\ Dispatch(e, "cgi")
  /\ Close({e.fd}, batch \ {e})
  /\ output_fd' = [output_fd EXCEPT ![c] = NoFd]
  /\ ready' = ready \cup {c}
  /\ anomaly' = IF hup[e.fd] THEN anomaly ELSE anomaly \cup {"blank"}
  /\ UNCHANGED <<backlog, pool, pc, cur>>
CgiFinalizeEndsClient(e) ==
  /\ Dispatch(e, "cgi")
  /\ Terminate(listeners[e.fd].id, batch \ {e})
  /\ UNCHANGED <<pc, cur, anomaly>>

\* finalizeCGI and ClientServer::onCGIComplete: EPOLLHUP after the read, or
\* the read returned nothing.
CgiFinalize(e) ==
  LET c == listeners[e.fd].id
      nothing == e.in /\ input[e.fd] = "none" IN
  /\ Dispatch(e, "cgi")
  /\ e.hup # nothing
  /\ Close({e.fd}, batch \ {e})
  /\ output_fd' = [output_fd EXCEPT ![c] = NoFd]
  /\ ready' = ready \cup {c}
  /\ anomaly' = IF hup[e.fd] THEN anomaly ELSE anomaly \cup {"blank"}
  /\ UNCHANGED <<backlog, pool, pc, cur>>

\* The read returned nothing AND the event has EPOLLHUP: onEvent calls
\* finalizeCGI a second time, on the handler the first call deleted.
CgiFinalizeTwice(e) ==
  LET c == listeners[e.fd].id IN
  /\ Dispatch(e, "cgi")
  /\ e.in /\ e.hup /\ input[e.fd] = "none"
  /\ Close({e.fd}, batch \ {e})
  /\ output_fd' = [output_fd EXCEPT ![c] = NoFd]
  /\ ready' = ready \cup {c}
  /\ anomaly' = anomaly \cup {"use_after_free"}
  /\ pc' = "dead"
  /\ UNCHANGED <<backlog, pool, cur>>
-----------------------------------------------------------------------------
ServerStep(e) ==
  \/ AcceptFails(e)
  \/ \E f \in Fd, c \in Client : AcceptPeer(e, f, c) \/ RegisterFails(e, f, c)

ClientStep(e) ==
  \/ ClientSkips(e) \/ ClientRequest(e) \/ ClientLeaves(e)
  \/ \E g \in Fd : ClientStartsCgi(e, g)
  \/ ClientCgiFails(e)

CgiStep(e) == CgiRead(e) \/ CgiFinalize(e) \/ CgiFinalizeTwice(e)

LoopStep ==
  \/ Poll
  \/ \E e \in batch : LookupFails(e) \/ ServerStep(e) \/ ClientStep(e) \/ CgiStep(e)
  \/ CgiTimesOut \/ HandleResponse \/ ResponseEnds

\* The process has died; nothing happens any more.
Exited == pc = "dead" /\ UNCHANGED vars

Next == LoopStep \/ Environment \/ Exited

Spec == Init /\ [][Next]_vars

\* The loop is one thread that never waits except in epoll_wait.
FairSpec == Spec /\ WF_vars(LoopStep)
-----------------------------------------------------------------------------
TypeOK ==
  /\ obj \in [Fd -> {"free", "listen", "socket", "pipe"}]
  /\ interest \in SUBSET Fd
  /\ backlog \in SUBSET ListenFds
  /\ input \in [Fd -> {"none", "output"} \cup RequestKinds]
  /\ hup \in [Fd -> BOOLEAN]
  /\ listeners \in [Fd -> Listener]
  /\ server_configs \in [Client -> ListenFds \cup {NoFd}]
  /\ server_socket_fd \in [Client -> ListenFds \cup {NoFd}]
  /\ is_started \in SUBSET Client
  /\ peer_socket_fd \in [Client -> Fd \cup {NoFd}]
  /\ output_fd \in [Client -> Fd \cup {NoFd}]
  /\ ready \in SUBSET Client
  /\ batch \in SUBSET Event
  /\ pc \in {"loop", "client_out", "dead"}
  /\ cur \in Client \cup {NoClient}
  /\ anomaly \in SUBSET {"no_listener", "use_after_free", "cut", "blank"}

\* Every descriptor that is registered with epoll has the map entry of the
\* one object that owns it now, and every open descriptor is registered and
\* owned: no descriptor outlives its owner and no owner loses one.
OwnedExactly ==
  \A f \in Fd :
    /\ f \in interest <=> obj[f] # "free"
    /\ obj[f] = "listen" <=> f \in ListenFds
    /\ obj[f] = "listen" => listeners[f] = ServerL
    /\ obj[f] = "socket" =>
         \E c \in is_started : listeners[f] = ClientL(c) /\ peer_socket_fd[c] = f
    /\ obj[f] = "pipe" =>
         \E c \in is_started : listeners[f] = CgiL(c) /\ output_fd[c] = f

\* A client that is started has its socket, and a CGI only a started client.
ClientsWhole ==
  \A c \in Client :
    /\ c \in is_started =>
         peer_socket_fd[c] \in Fd /\ obj[peer_socket_fd[c]] = "socket"
           /\ listeners[peer_socket_fd[c]] = ClientL(c)
    /\ output_fd[c] # NoFd =>
         c \in is_started /\ obj[output_fd[c]] = "pipe"
           /\ listeners[output_fd[c]] = CgiL(c)

\* A map entry without an open descriptor is the leftover of a connection
\* whose registration failed; without epoll_ctl failures there is none.
NoLeftovers == ~CtlMayFail => \A f \in Fd : obj[f] = "free" => listeners[f] = NoListener

\* Only the events of CGI pipes are ever dispatched after their descriptor
\* was closed: a connection's own event is never pending when it is closed.
StaleOnlyPipes == \A e \in batch : e.stale => ~e.out /\ e.fd \notin ListenFds

\* A wrong outcome - no listener for an event, a live connection cut, a CGI
\* answered before it finished, a handler used after its deletion - happens
\* only in the dispatch of a stale event.
AnomalyNeedsStale ==
  [][anomaly' # anomaly => \E e \in batch : e.stale /\ e \notin batch']_vars

\* A client whose peer has gone is terminated and its descriptor released.
HangUpReclaimed ==
  \A f \in Fd : (obj[f] = "socket" /\ hup[f])
                  ~> (obj[f] # "socket" \/ ~hup[f] \/ pc = "dead")

\* A CGI that exited is finalised, and its client gets an answer.
CgiAnswered ==
  \A c \in Client : (output_fd[c] # NoFd /\ hup[output_fd[c]])
                      ~> (c \in ready \/ c \notin is_started \/ pc = "dead")

\* "Ensure the server handles multiple clients simultaneously" (README.md:9):
\* no event one client causes may end the process for the others.
LoopSurvives == pc # "dead"

\* "Maps socket FDs to their server configs" (Server.hpp:20): a connection is
\* served with the configs of the listening socket that accepted it.
ServesOwnConfig == \A c \in is_started : server_configs[c] = server_socket_fd[c]
-----------------------------------------------------------------------------
(* The inductive invariant: the properties above, and what they rest on.   *)

\* A free descriptor number has no history, an entry of the map has the
\* kind of the object behind it, and only constructed objects are started.
NoGhosts ==
  /\ \A f \in Fd :
       /\ obj[f] = "free" => input[f] = "none" /\ ~hup[f]
       /\ listeners[f].kind = "server" => f \in ListenFds
       /\ listeners[f].kind = "cgi" => obj[f] = "pipe"
  /\ \A c \in is_started : server_configs[c] # NoFd

\* There is no unread request of a client whose CGI is still running.
NoPipelining ==
  \A c \in is_started : input[peer_socket_fd[c]] # "none" => output_fd[c] = NoFd

\* One event per descriptor, and an event that is not stale still says the
\* truth about its descriptor when it is dispatched.
BatchTruthful ==
  \A e \in batch :
    /\ \A d \in batch : d.fd = e.fd => d = e
    /\ ~e.stale =>
         /\ obj[e.fd] # "free"
         /\ e.out <=> obj[e.fd] = "socket"
         /\ e.in => \/ obj[e.fd] = "listen"
                    \/ input[e.fd] # "none"
                    \/ obj[e.fd] = "socket" /\ hup[e.fd]
         /\ e.hup => obj[e.fd] = "pipe" /\ hup[e.fd]

\* A stale event can reach a client over an entry left by a registration that
\* failed; no true event of that client's socket is then pending.
MisdirectedStale ==
  \A e \in batch, d \in batch, c \in is_started :
    e.stale /\ listeners[e.fd] = ClientL(c) /\ d.fd = peer_socket_fd[c] => d.stale

\* While a client is being handled its own event is not pending.
CurSettled ==
  pc = "client_out" =>
    cur \in is_started /\ \A e \in batch : e.fd = peer_socket_fd[cur] => e.stale

IInv ==
  /\ TypeOK /\ OwnedExactly /\ ClientsWhole /\ NoLeftovers /\ NoGhosts
  /\ NoPipelining /\ BatchTruthful /\ StaleOnlyPipes /\ MisdirectedStale
  /\ CurSettled
=============================================================================
