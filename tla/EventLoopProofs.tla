-------------------------- MODULE EventLoopProofs --------------------------
(***************************************************************************)
(* Proofs about EventLoop for any set of descriptors, any listening        *)
(* sockets, any number of connections and any kinds of requests.           *)
(***************************************************************************)
EXTENDS EventLoop, TLAPS

\* The default values are no descriptor and no client.
LEMMA Defaults == NoFd \notin Fd /\ NoClient \notin Client
  BY EventLoopAssumption DEF NoFd, NoClient, Client

\* A listener is determined by its kind and the client it belongs to.
LEMMA ListenerFacts ==
  /\ ServerL \in Listener /\ ServerL.kind = "server"
  /\ NoListener \in Listener /\ NoListener.kind = "none"
  /\ \A c \in Client : /\ ClientL(c) \in Listener
                       /\ ClientL(c).kind = "client" /\ ClientL(c).id = c
                       /\ CgiL(c) \in Listener
                       /\ CgiL(c).kind = "cgi" /\ CgiL(c).id = c
  /\ \A x \in Listener : \/ x.kind = "server" /\ x = ServerL
                         \/ x.kind = "none" /\ x = NoListener
                         \/ x.kind = "client" /\ x.id \in Client /\ x = ClientL(x.id)
                         \/ x.kind = "cgi" /\ x.id \in Client /\ x = CgiL(x.id)
<1>1. /\ ServerL.kind = "server" /\ NoListener.kind = "none"
      /\ \A c \in Client : /\ ClientL(c).kind = "client" /\ ClientL(c).id = c
                           /\ CgiL(c).kind = "cgi" /\ CgiL(c).id = c
  BY DEF ServerL, NoListener, ClientL, CgiL
<1> QED
  BY <1>1 DEF Listener

\* The inductive invariant holds initially: only listening sockets are open.
LEMMA InitInvariant == Init => IInv
<1> SUFFICES ASSUME Init PROVE IInv
  OBVIOUS
<1> USE EventLoopAssumption, Defaults, ListenerFacts DEF Init
<1>1. TypeOK
  BY DEF TypeOK
<1>2. OwnedExactly /\ ClientsWhole /\ NoLeftovers /\ NoGhosts
  BY DEF OwnedExactly, ClientsWhole, NoLeftovers, NoGhosts
<1>3. NoPipelining /\ BatchTruthful /\ StaleOnlyPipes /\ MisdirectedStale /\ CurSettled
  BY DEF NoPipelining, BatchTruthful, StaleOnlyPipes, MisdirectedStale, CurSettled
<1> QED
  BY <1>1, <1>2, <1>3 DEF IInv

\* Marking an event changes nothing but its staleness.
LEMMA MarkFacts ==
  ASSUME NEW e \in Event, NEW F
  PROVE  /\ Mark(e, F) \in Event
         /\ Mark(e, F).fd = e.fd /\ Mark(e, F).in = e.in
         /\ Mark(e, F).out = e.out /\ Mark(e, F).hup = e.hup
         /\ Mark(e, F).stale <=> e.stale \/ e.fd \in F
         /\ e.fd \in Fd
         /\ e.fd \notin F => Mark(e, F) = e
  BY DEF Event, Mark

\* epoll_wait reports on the descriptor it is asked about.
LEMMA EventOfFacts ==
  ASSUME TypeOK, NEW f \in Fd
  PROVE  /\ EventOf(f) \in Event /\ EventOf(f).fd = f /\ ~EventOf(f).stale
         /\ EventOf(f).out <=> obj[f] = "socket"
         /\ EventOf(f).hup <=> obj[f] = "pipe" /\ hup[f]
         /\ EventOf(f).in => \/ f \in ListenFds
                             \/ input[f] # "none"
                             \/ obj[f] = "socket" /\ hup[f]
  BY EventLoopAssumption DEF EventOf, Event, TypeOK

\* What close(2) does to the map, the kernel and the events still waiting.
LEMMA CloseFacts ==
  ASSUME TypeOK, NEW F, NEW rest \in SUBSET batch, Close(F, rest)
  PROVE  /\ obj' \in [Fd -> {"free", "listen", "socket", "pipe"}]
         /\ interest' \in SUBSET Fd
         /\ input' \in [Fd -> {"none", "output"} \cup RequestKinds]
         /\ hup' \in [Fd -> BOOLEAN]
         /\ listeners' \in [Fd -> Listener]
         /\ batch' \in SUBSET Event
         /\ \A f \in Fd : f \in F =>
              /\ obj'[f] = "free" /\ input'[f] = "none" /\ ~hup'[f]
              /\ listeners'[f] = NoListener /\ f \notin interest'
         /\ \A f \in Fd : f \notin F =>
              /\ obj'[f] = obj[f] /\ input'[f] = input[f] /\ hup'[f] = hup[f]
              /\ listeners'[f] = listeners[f]
              /\ f \in interest' <=> f \in interest
         /\ \A d \in batch' : \E e \in rest :
              /\ d.fd = e.fd /\ d.in = e.in /\ d.out = e.out /\ d.hup = e.hup
              /\ d.stale <=> e.stale \/ e.fd \in F
              /\ e.fd \notin F => d = e
              /\ d = Mark(e, F)
<1>1. \A e \in rest : e \in Event
  BY DEF TypeOK
<1>2. batch' \in SUBSET Event
  BY <1>1, MarkFacts DEF Close
<1>3. \A d \in batch' : \E e \in rest :
              /\ d.fd = e.fd /\ d.in = e.in /\ d.out = e.out /\ d.hup = e.hup
              /\ d.stale <=> e.stale \/ e.fd \in F
              /\ e.fd \notin F => d = e
              /\ d = Mark(e, F)
  BY <1>1, MarkFacts DEF Close
<1> QED
  BY <1>2, <1>3, ListenerFacts DEF Close, TypeOK

-----------------------------------------------------------------------------
\* No descriptor has two owners.
Distinct ==
  /\ \A c \in is_started : peer_socket_fd[c] \in Fd
  /\ \A c \in Client : output_fd[c] # NoFd => output_fd[c] \in Fd
  /\ \A b, c \in is_started : peer_socket_fd[b] = peer_socket_fd[c] => b = c
  /\ \A b, c \in Client :
       output_fd[b] = output_fd[c] /\ output_fd[b] # NoFd => b = c
  /\ \A b \in is_started, c \in Client : peer_socket_fd[b] # output_fd[c]

\* The map has one listener per descriptor, so one owner.
LEMMA DistinctOwners == IInv => Distinct
  BY Defaults, ListenerFacts DEF IInv, TypeOK, ClientsWhole, Distinct

\* Whom an event dispatched to a client object reaches.
LEMMA ClientEvent ==
  ASSUME IInv, NEW e \in batch, NEW c, c = listeners[e.fd].id,
         listeners[e.fd].kind = "client"
  PROVE  /\ c \in Client /\ listeners[e.fd] = ClientL(c)
         /\ ~e.stale => c \in is_started /\ peer_socket_fd[c] = e.fd
         /\ e.out => c \in is_started
         /\ c \in is_started =>
              /\ peer_socket_fd[c] \in Fd /\ obj[peer_socket_fd[c]] = "socket"
              /\ \A d \in batch : d # e /\ d.fd = peer_socket_fd[c] => d.stale
<1> USE Defaults, ListenerFacts DEF IInv
<1>1. e.fd \in Fd
  BY DEF TypeOK, Event
<1>2. c \in Client /\ listeners[e.fd] = ClientL(c)
  BY <1>1 DEF TypeOK
<1>3. ~e.stale => c \in is_started /\ peer_socket_fd[c] = e.fd
  <2> SUFFICES ASSUME ~e.stale PROVE c \in is_started /\ peer_socket_fd[c] = e.fd
    OBVIOUS
  <2>1. obj[e.fd] # "free"
    BY DEF BatchTruthful
  <2>2. obj[e.fd] = "socket"
    <3>1. listeners[e.fd] # ServerL /\ \A b \in Client : listeners[e.fd] # CgiL(b)
      BY <1>2
    <3>2. obj[e.fd] \in {"listen", "socket", "pipe"}
      BY <1>1, <2>1 DEF TypeOK
    <3> QED
      BY <1>1, <3>1, <3>2 DEF TypeOK, OwnedExactly
  <2>3. PICK b \in is_started : listeners[e.fd] = ClientL(b) /\ peer_socket_fd[b] = e.fd
    BY <1>1, <2>2 DEF OwnedExactly
  <2> QED
    BY <1>2, <2>3 DEF TypeOK
<1>4. e.out => c \in is_started
  BY <1>3 DEF StaleOnlyPipes
<1>5. c \in is_started => peer_socket_fd[c] \in Fd /\ obj[peer_socket_fd[c]] = "socket"
  BY <1>2 DEF ClientsWhole
<1>6. c \in is_started =>
        \A d \in batch : d # e /\ d.fd = peer_socket_fd[c] => d.stale
  <2> SUFFICES ASSUME c \in is_started, NEW d \in batch, d # e, d.fd = peer_socket_fd[c]
               PROVE  d.stale
    OBVIOUS
  <2>1. CASE e.stale
    BY <1>2, <2>1 DEF MisdirectedStale
  <2>2. CASE ~e.stale
    BY <1>3, <2>2 DEF BatchTruthful
  <2> QED
    BY <2>1, <2>2
<1> QED
  BY <1>2, <1>3, <1>4, <1>5, <1>6

\* An event dispatched to a CGI handler is about that handler's own pipe.
LEMMA CgiEvent ==
  ASSUME IInv, NEW e \in batch, NEW c, c = listeners[e.fd].id,
         listeners[e.fd].kind = "cgi"
  PROVE  /\ c \in Client /\ c \in is_started
         /\ listeners[e.fd] = CgiL(c) /\ output_fd[c] = e.fd
         /\ obj[e.fd] = "pipe"
<1> USE Defaults, ListenerFacts DEF IInv
<1>1. e.fd \in Fd
  BY DEF TypeOK, Event
<1>2. c \in Client /\ listeners[e.fd] = CgiL(c) /\ obj[e.fd] = "pipe"
  BY <1>1 DEF TypeOK, NoGhosts
<1> QED
  BY <1>1, <1>2 DEF TypeOK, OwnedExactly

\* An event dispatched to the server is about a listening socket, and the
\* object that accept_peer takes from the pool is idle.
LEMMA ServerEvent ==
  ASSUME IInv, NEW e \in batch, listeners[e.fd].kind = "server",
         NEW c \in Client, Slot(c)
  PROVE  /\ e.fd \in ListenFds
         /\ c \notin is_started /\ output_fd[c] = NoFd
<1> USE DEF IInv
<1>1. e.fd \in Fd
  BY DEF TypeOK, Event
<1>2. c \notin is_started
  BY DEF Slot, Idle, Unused, Lowest, NoGhosts
<1> QED
  BY <1>1, <1>2 DEF NoGhosts, ClientsWhole
-----------------------------------------------------------------------------
\* Closing descriptors while events wait: the events stay truthful if the
\* closed descriptors that true events are about are pipes.
LEMMA CloseBatch ==
  ASSUME IInv, NEW F, NEW rest \in SUBSET batch, Close(F, rest),
         \A e \in rest : e.fd \in F => e.stale \/ obj[e.fd] = "pipe",
         is_started' \subseteq is_started, peer_socket_fd' = peer_socket_fd
  PROVE  BatchTruthful' /\ StaleOnlyPipes' /\ MisdirectedStale'
<1> USE DEF IInv
<1>1. \A d \in batch' : \E e \in rest :
              /\ d.fd = e.fd /\ d.in = e.in /\ d.out = e.out /\ d.hup = e.hup
              /\ d.stale <=> e.stale \/ e.fd \in F
              /\ e.fd \notin F => d = e
              /\ d = Mark(e, F)
  BY CloseFacts
<1>2. \A f \in Fd : f \notin F =>
              /\ obj'[f] = obj[f] /\ input'[f] = input[f] /\ hup'[f] = hup[f]
              /\ listeners'[f] = listeners[f]
  BY CloseFacts
<1>3. \A f \in Fd : f \in F => listeners'[f] = NoListener
  BY CloseFacts
<1>4. \A e \in rest : e \in batch /\ e.fd \in Fd
  BY DEF TypeOK, Event
<1>5. BatchTruthful'
  <2> SUFFICES ASSUME NEW d \in batch'
               PROVE  /\ \A b \in batch' : b.fd = d.fd => b = d
                      /\ ~d.stale =>
                           /\ obj'[d.fd] # "free"
                           /\ d.out <=> obj'[d.fd] = "socket"
                           /\ d.in => \/ obj'[d.fd] = "listen"
                                      \/ input'[d.fd] # "none"
                                      \/ obj'[d.fd] = "socket" /\ hup'[d.fd]
                           /\ d.hup => obj'[d.fd] = "pipe" /\ hup'[d.fd]
    BY DEF BatchTruthful
  <2>1. PICK e \in rest : /\ d.fd = e.fd
                          /\ d.stale <=> e.stale \/ e.fd \in F
                          /\ e.fd \notin F => d = e
                          /\ d = Mark(e, F)
    BY <1>1
  <2>2. ASSUME NEW b \in batch', b.fd = d.fd PROVE b = d
    <3>1. PICK a \in rest : b.fd = a.fd /\ b = Mark(a, F)
      BY <1>1
    <3> QED
      BY <1>4, <2>1, <2>2, <3>1 DEF BatchTruthful
  <2>3. ASSUME ~d.stale
        PROVE  /\ obj'[d.fd] # "free"
               /\ d.out <=> obj'[d.fd] = "socket"
               /\ d.in => \/ obj'[d.fd] = "listen"
                          \/ input'[d.fd] # "none"
                          \/ obj'[d.fd] = "socket" /\ hup'[d.fd]
               /\ d.hup => obj'[d.fd] = "pipe" /\ hup'[d.fd]
    BY <1>2, <1>4, <2>1, <2>3 DEF BatchTruthful
  <2> QED
    BY <2>2, <2>3
<1>6. StaleOnlyPipes'
  <2> SUFFICES ASSUME NEW d \in batch', d.stale
               PROVE  ~d.out /\ d.fd \notin ListenFds
    BY DEF StaleOnlyPipes
  <2>1. PICK e \in rest : /\ d.fd = e.fd /\ d.out = e.out
                          /\ d.stale <=> e.stale \/ e.fd \in F
    BY <1>1
  <2>2. CASE e.stale
    BY <1>4, <2>1, <2>2 DEF StaleOnlyPipes
  <2>3. CASE ~e.stale /\ obj[e.fd] = "pipe"
    BY <1>4, <2>1, <2>3 DEF BatchTruthful, OwnedExactly
  <2> QED
    BY <2>1, <2>2, <2>3
<1>7. MisdirectedStale'
  <2> SUFFICES ASSUME NEW d \in batch', NEW b \in batch', NEW c \in is_started',
                      d.stale, listeners'[d.fd] = ClientL(c), b.fd = peer_socket_fd[c]
               PROVE  b.stale
    BY DEF MisdirectedStale
  <2>1. PICK e \in rest : d.fd = e.fd /\ (d.stale <=> e.stale \/ e.fd \in F)
    BY <1>1
  <2>2. PICK a \in rest : b.fd = a.fd /\ (b.stale <=> a.stale \/ a.fd \in F)
    BY <1>1
  <2>3. e.fd \notin F
    BY <1>3, <1>4, <2>1, ListenerFacts DEF TypeOK
  <2>4. listeners[e.fd] = ClientL(c) /\ e.stale
    BY <1>2, <1>4, <2>1, <2>3
  <2>5. a.stale
    BY <1>4, <2>2, <2>4 DEF MisdirectedStale
  <2> QED
    BY <2>2, <2>5
<1> QED
  BY <1>5, <1>6, <1>7

\* Closing descriptors leaves whole every client that keeps its own.
LEMMA CloseClients ==
  ASSUME IInv, NEW F, NEW rest \in SUBSET batch, Close(F, rest),
         is_started' \subseteq is_started, peer_socket_fd' = peer_socket_fd,
         \A c \in is_started' : peer_socket_fd[c] \notin F,
         \A c \in Client : output_fd'[c] # NoFd =>
           /\ output_fd'[c] = output_fd[c]
           /\ output_fd[c] \notin F /\ c \in is_started'
  PROVE  ClientsWhole' /\ NoPipelining'
<1> USE DEF IInv
<1>1. \A f \in Fd : f \notin F =>
              /\ obj'[f] = obj[f] /\ input'[f] = input[f]
              /\ listeners'[f] = listeners[f]
  BY CloseFacts
<1>2. \A c \in is_started' : c \in Client /\ c \in is_started /\ peer_socket_fd[c] \in Fd
  BY DEF TypeOK, ClientsWhole
<1>3. ClientsWhole'
  <2> SUFFICES ASSUME NEW c \in Client
               PROVE  /\ c \in is_started' =>
                           /\ peer_socket_fd[c] \in Fd
                           /\ obj'[peer_socket_fd[c]] = "socket"
                           /\ listeners'[peer_socket_fd[c]] = ClientL(c)
                      /\ output_fd'[c] # NoFd =>
                           /\ c \in is_started' /\ obj'[output_fd'[c]] = "pipe"
                           /\ listeners'[output_fd'[c]] = CgiL(c)
    BY DEF ClientsWhole
  <2>1. CASE c \in is_started'
    BY <1>1, <1>2, <2>1, DistinctOwners DEF Distinct, ClientsWhole
  <2>2. CASE c \notin is_started'
    BY <2>2
  <2> QED
    BY <2>1, <2>2
<1>4. NoPipelining'
  BY <1>1, <1>2 DEF NoPipelining
<1> QED
  BY <1>3, <1>4

\* The conjuncts of the invariant that follow when descriptors F are closed:
\* the handled client's other descriptors and all other clients are intact.
LEMMA CloseStep ==
  ASSUME IInv, NEW F, NEW rest \in SUBSET batch, Close(F, rest),
         \A d \in rest : d.fd \in F => d.stale \/ obj[d.fd] = "pipe",
         \A f \in F : obj[f] \in {"socket", "pipe"},
         is_started' \subseteq is_started, peer_socket_fd' = peer_socket_fd,
         server_configs' = server_configs,
         \A c \in is_started' : peer_socket_fd[c] \notin F,
         output_fd' \in [Client -> Fd \cup {NoFd}],
         \A c \in Client : output_fd'[c] # NoFd =>
           output_fd'[c] = output_fd[c] /\ output_fd[c] \notin F /\ c \in is_started',
         \A c \in is_started : peer_socket_fd[c] \notin F => c \in is_started',
         \A c \in Client : output_fd[c] # NoFd /\ output_fd[c] \notin F =>
                              output_fd'[c] = output_fd[c]
  PROVE  /\ OwnedExactly' /\ ClientsWhole' /\ NoLeftovers' /\ NoGhosts'
         /\ NoPipelining' /\ BatchTruthful' /\ StaleOnlyPipes' /\ MisdirectedStale'
<1>1. ClientsWhole' /\ NoPipelining'
  BY CloseClients
<1>2. BatchTruthful' /\ StaleOnlyPipes' /\ MisdirectedStale'
  BY CloseBatch
<1>3. \A f \in Fd : f \in F =>
              /\ obj'[f] = "free" /\ input'[f] = "none" /\ ~hup'[f]
              /\ listeners'[f] = NoListener /\ f \notin interest'
  BY CloseFacts DEF IInv
<1>4. \A f \in Fd : f \notin F =>
              /\ obj'[f] = obj[f] /\ input'[f] = input[f] /\ hup'[f] = hup[f]
              /\ listeners'[f] = listeners[f]
              /\ f \in interest' <=> f \in interest
  BY CloseFacts DEF IInv
<1>5. OwnedExactly'
  <2> SUFFICES ASSUME NEW f \in Fd
               PROVE  /\ f \in interest' <=> obj'[f] # "free"
                      /\ obj'[f] = "listen" <=> f \in ListenFds
                      /\ obj'[f] = "listen" => listeners'[f] = ServerL
                      /\ obj'[f] = "socket" =>
                           \E c \in is_started' :
                             listeners'[f] = ClientL(c) /\ peer_socket_fd'[c] = f
                      /\ obj'[f] = "pipe" =>
                           \E c \in is_started' :
                             listeners'[f] = CgiL(c) /\ output_fd'[c] = f
    BY DEF OwnedExactly
  <2>1. CASE f \in F
    BY <1>3, <2>1 DEF IInv, OwnedExactly
  <2>2. CASE f \notin F
    <3>1. obj[f] = "pipe" => \E c \in is_started' :
                             listeners[f] = CgiL(c) /\ output_fd'[c] = f
      <4> SUFFICES ASSUME obj[f] = "pipe"
                   PROVE  \E c \in is_started' : listeners[f] = CgiL(c) /\ output_fd'[c] = f
        OBVIOUS
      <4>1. PICK c \in is_started : listeners[f] = CgiL(c) /\ output_fd[c] = f
        BY DEF IInv, OwnedExactly
      <4>2. c \in Client /\ output_fd[c] # NoFd
        BY <4>1, Defaults DEF IInv, TypeOK
      <4>3. output_fd'[c] = f
        BY <2>2, <4>1, <4>2
      <4> QED
        BY <4>1, <4>2, <4>3
    <3> QED
      BY <1>4, <2>2, <3>1 DEF IInv, OwnedExactly
  <2> QED
    BY <2>1, <2>2
<1>6. NoLeftovers'
  BY <1>3, <1>4 DEF IInv, NoLeftovers
<1>7. NoGhosts'
  BY <1>3, <1>4, ListenerFacts DEF IInv, NoGhosts
<1> QED
  BY <1>1, <1>2, <1>5, <1>6, <1>7

LEMMA CgiEndsStep ==
  ASSUME IInv, NEW e \in batch, Dispatch(e, "cgi"),
         NEW c, c = listeners[e.fd].id,
         Close({e.fd}, batch \ {e}), output_fd' = [output_fd EXCEPT ![c] = NoFd],
         UNCHANGED pool
  PROVE  /\ c \in Client /\ output_fd' \in [Client -> Fd \cup {NoFd}]
         /\ OwnedExactly' /\ ClientsWhole' /\ NoLeftovers' /\ NoGhosts'
         /\ NoPipelining' /\ BatchTruthful' /\ StaleOnlyPipes' /\ MisdirectedStale'
<1>1. \A d \in batch : d.fd \in Fd
  BY DEF IInv, TypeOK, Event
<1>2. /\ c \in Client /\ c \in is_started /\ output_fd[c] = e.fd
      /\ obj[e.fd] = "pipe"
  BY CgiEvent DEF Dispatch
<1>3. output_fd' \in [Client -> Fd \cup {NoFd}]
  BY <1>2 DEF IInv, TypeOK
<1>4. /\ is_started' = is_started /\ peer_socket_fd' = peer_socket_fd
      /\ server_configs' = server_configs
  BY DEF pool
<1>5. \A b \in is_started' : peer_socket_fd[b] \notin {e.fd}
  BY <1>2, <1>4, DistinctOwners DEF Distinct
<1>6. \A b \in Client : output_fd'[b] # NoFd => b # c /\ output_fd'[b] = output_fd[b]
  BY <1>2 DEF IInv, TypeOK
<1>7. \A b \in Client : b # c => output_fd'[b] = output_fd[b] /\ output_fd[b] # e.fd
  BY <1>1, <1>2, Defaults, DistinctOwners DEF Distinct, IInv, TypeOK
<1>8. \A b \in Client : output_fd'[b] # NoFd =>
        output_fd'[b] = output_fd[b] /\ output_fd[b] \notin {e.fd} /\ b \in is_started'
  BY <1>4, <1>6, <1>7 DEF IInv, ClientsWhole
<1>9. \A b \in Client : output_fd[b] # NoFd /\ output_fd[b] \notin {e.fd} =>
                              output_fd'[b] = output_fd[b]
  BY <1>2, <1>7
<1>10. \A d \in batch \ {e} : d.fd \in {e.fd} => d.stale \/ obj[d.fd] = "pipe"
  BY <1>2
<1>11. \A f \in {e.fd} : obj[f] \in {"socket", "pipe"}
  BY <1>2
<1>12. \A b \in is_started : peer_socket_fd[b] \notin {e.fd} => b \in is_started'
  BY <1>4
<1>13. is_started' \subseteq is_started /\ batch \ {e} \in SUBSET batch
  BY <1>4
<1> QED
  BY <1>2, <1>3, <1>4, <1>5, <1>8, <1>9, <1>10, <1>11, <1>12, <1>13, CloseStep

\* ClientServer::terminate inside the dispatch of an event: the client's own
\* true event, if one was in the batch, is the one being dispatched.
LEMMA TerminateStep ==
  ASSUME IInv, NEW c \in is_started, NEW rest \in SUBSET batch, Terminate(c, rest),
         \A d \in rest : d.fd = peer_socket_fd[c] => d.stale
  PROVE  /\ output_fd' \in [Client -> Fd \cup {NoFd}]
         /\ OwnedExactly' /\ ClientsWhole' /\ NoLeftovers' /\ NoGhosts'
         /\ NoPipelining' /\ BatchTruthful' /\ StaleOnlyPipes' /\ MisdirectedStale'
<1> DEFINE F == Owned(c)
<1>1. \A d \in batch : d.fd \in Fd
  BY DEF IInv, TypeOK, Event
<1>2. /\ c \in Client /\ peer_socket_fd[c] \in Fd /\ obj[peer_socket_fd[c]] = "socket"
      /\ output_fd[c] # NoFd => obj[output_fd[c]] = "pipe"
  BY DEF IInv, TypeOK, ClientsWhole
<1>3. \A g : g \in F <=> g # NoFd /\ (g = peer_socket_fd[c] \/ g = output_fd[c])
  BY DEF Owned
<1>4. /\ is_started' = is_started \ {c} /\ peer_socket_fd' = peer_socket_fd
      /\ server_configs' = server_configs
      /\ output_fd' = [output_fd EXCEPT ![c] = NoFd] /\ Close(F, rest)
  BY DEF Terminate
<1> HIDE DEF F
<1>5. output_fd' \in [Client -> Fd \cup {NoFd}]
  BY <1>4 DEF IInv, TypeOK
<1>6. \A b \in is_started' : peer_socket_fd[b] \notin F
  BY <1>2, <1>3, <1>4, DistinctOwners DEF Distinct
<1>7. \A b \in Client : b # c =>
        output_fd'[b] = output_fd[b] /\ output_fd[b] \notin F
  BY <1>2, <1>3, <1>4, DistinctOwners DEF Distinct, IInv, TypeOK
<1>8. output_fd'[c] = NoFd
  BY <1>2, <1>4 DEF IInv, TypeOK
<1>9. \A b \in Client : output_fd'[b] # NoFd =>
        output_fd'[b] = output_fd[b] /\ output_fd[b] \notin F /\ b \in is_started'
  BY <1>4, <1>7, <1>8 DEF IInv, ClientsWhole
<1>10. \A b \in Client : output_fd[b] # NoFd /\ output_fd[b] \notin F =>
                              output_fd'[b] = output_fd[b]
  BY <1>3, <1>7
<1>11. \A d \in rest : d.fd \in F => d.stale \/ obj[d.fd] = "pipe"
  BY <1>2, <1>3
<1>12. \A f \in F : obj[f] \in {"socket", "pipe"}
  BY <1>2, <1>3
<1>13. \A b \in is_started : peer_socket_fd[b] \notin F => b \in is_started'
  BY <1>2, <1>3, <1>4, Defaults
<1>14. is_started' \subseteq is_started
  BY <1>4
<1> QED
  BY <1>4, <1>5, <1>6, <1>9, <1>10, <1>11, <1>12, <1>13, <1>14, CloseStep

-----------------------------------------------------------------------------
\* Steps that open and close nothing: bytes arrive or are read, an event is
\* taken from the batch, a phase of a handler ends.
LEMMA QuietStep ==
  ASSUME IInv, TypeOK', CurSettled', batch' \subseteq batch,
         UNCHANGED <<obj, interest, listeners, pool, output_fd>>,
         \A f \in Fd : hup[f] => hup'[f],
         \A f \in Fd : obj[f] = "free" => input'[f] = input[f] /\ hup'[f] = hup[f],
         \A d \in batch' : ~d.stale /\ input[d.fd] # "none" => input'[d.fd] # "none",
         \A c \in is_started : input'[peer_socket_fd[c]] # "none" => output_fd[c] = NoFd
  PROVE  IInv'
<1> USE DEF pool
<1>1. \A d \in batch : d.fd \in Fd
  BY DEF IInv, TypeOK, Event
<1>2. OwnedExactly' /\ ClientsWhole' /\ NoLeftovers'
  BY DEF IInv, OwnedExactly, ClientsWhole, NoLeftovers
<1>3. NoGhosts' /\ NoPipelining'
  BY DEF IInv, NoGhosts, NoPipelining
<1>4. BatchTruthful'
  BY <1>1 DEF IInv, BatchTruthful
<1>5. StaleOnlyPipes' /\ MisdirectedStale'
  BY DEF IInv, StaleOnlyPipes, MisdirectedStale
<1> QED
  BY <1>2, <1>3, <1>4, <1>5 DEF IInv

LEMMA ConnectStep == ASSUME IInv, NEW l \in ListenFds, Connect(l), pc = "loop" PROVE IInv'
<1>1. TypeOK'
  BY DEF IInv, TypeOK, Connect, pool
<1>2. CurSettled'
  BY DEF Connect, CurSettled
<1> QED
  BY <1>1, <1>2, QuietStep DEF IInv, Connect, NoPipelining

LEMMA PeerSendStep ==
  ASSUME IInv, NEW c \in Client, NEW r \in Requests, PeerSend(c, r), pc = "loop"
  PROVE  IInv'
<1>1. /\ peer_socket_fd[c] \in Fd /\ obj[peer_socket_fd[c]] = "socket"
      /\ r \in RequestKinds
  BY EventLoopAssumption DEF IInv, ClientsWhole, PeerSend
<1>2. input' \in [Fd -> {"none", "output"} \cup RequestKinds]
  BY <1>1 DEF IInv, TypeOK, PeerSend
<1>3. TypeOK'
  BY <1>2 DEF IInv, TypeOK, PeerSend, pool
<1>4. CurSettled'
  BY DEF PeerSend, CurSettled
<1>5. \A b \in is_started : b # c => peer_socket_fd[b] # peer_socket_fd[c]
  BY DistinctOwners DEF Distinct, PeerSend
<1>6. \A f \in Fd : f # peer_socket_fd[c] => input'[f] = input[f]
  BY DEF IInv, TypeOK, PeerSend
<1>7. \A b \in is_started : input'[peer_socket_fd[b]] # "none" => output_fd[b] = NoFd
  BY <1>5, <1>6, DistinctOwners DEF Distinct, IInv, NoPipelining, PeerSend
<1>8. r # "none"
  BY <1>1 DEF RequestKinds, CgiRequests
<1>9. input'[peer_socket_fd[c]] # "none"
  BY <1>1, <1>8 DEF IInv, TypeOK, PeerSend
<1>10. \A d \in batch' : input[d.fd] # "none" => input'[d.fd] # "none"
  BY <1>6, <1>9 DEF IInv, TypeOK, Event, PeerSend
<1> QED
  BY <1>1, <1>3, <1>4, <1>6, <1>7, <1>10, QuietStep DEF PeerSend

LEMMA CgiWriteStep == ASSUME IInv, NEW f \in Fd, CgiWrite(f), pc = "loop" PROVE IInv'
<1>1. TypeOK'
  BY DEF IInv, TypeOK, CgiWrite, pool
<1>2. CurSettled'
  BY DEF CgiWrite, CurSettled
<1>3. \A g \in Fd : g # f => input'[g] = input[g]
  BY DEF IInv, TypeOK, CgiWrite
<1>4. \A c \in is_started : peer_socket_fd[c] \in Fd /\ peer_socket_fd[c] # f
  BY DEF IInv, TypeOK, ClientsWhole, CgiWrite
<1>5. \A c \in is_started : input'[peer_socket_fd[c]] # "none" => output_fd[c] = NoFd
  BY <1>3, <1>4 DEF IInv, NoPipelining
<1>6. \A d \in batch' : input[d.fd] # "none" => input'[d.fd] # "none"
  BY <1>3 DEF IInv, TypeOK, Event, CgiWrite
<1> QED
  BY <1>1, <1>2, <1>3, <1>5, <1>6, QuietStep DEF CgiWrite

LEMMA HangUpStep == ASSUME IInv, NEW f \in Fd, HangUp(f), pc = "loop" PROVE IInv'
<1>1. TypeOK'
  BY DEF IInv, TypeOK, HangUp, pool
<1>2. CurSettled'
  BY DEF HangUp, CurSettled
<1>3. \A g \in Fd : (hup[g] => hup'[g]) /\ (g # f => hup'[g] = hup[g])
  BY DEF IInv, TypeOK, HangUp
<1> QED
  BY <1>1, <1>2, <1>3, QuietStep DEF HangUp, IInv, NoPipelining

LEMMA LookupFailsStep == ASSUME IInv, NEW e \in batch, LookupFails(e) PROVE IInv'
<1>1. TypeOK'
  BY DEF IInv, TypeOK, LookupFails, kernel, pool
<1>2. CurSettled'
  BY DEF LookupFails, CurSettled
<1> QED
  BY <1>1, <1>2, QuietStep DEF LookupFails, kernel, IInv, NoPipelining

LEMMA AcceptFailsStep == ASSUME IInv, NEW e \in batch, AcceptFails(e) PROVE IInv'
<1>1. TypeOK'
  BY DEF IInv, TypeOK, AcceptFails, kernel, pool
<1>2. CurSettled'
  BY DEF AcceptFails, Dispatch, CurSettled
<1> QED
  BY <1>1, <1>2, QuietStep DEF AcceptFails, kernel, IInv, NoPipelining
\* The EPOLLOUT half is entered for the client the event was dispatched to.
LEMMA ToOutHalfFacts ==
  ASSUME IInv, NEW e \in batch, Dispatch(e, "client"),
         NEW c, c = listeners[e.fd].id, ToOutHalf(e, c),
         is_started' = is_started, peer_socket_fd' = peer_socket_fd,
         batch' = batch \ {e}
  PROVE  /\ CurSettled'
         /\ cur' \in Client \cup {NoClient} /\ pc' \in {"loop", "client_out", "dead"}
<1>1. /\ c \in Client
      /\ e.out => c \in is_started
      /\ c \in is_started =>
           \A d \in batch : d # e /\ d.fd = peer_socket_fd[c] => d.stale
  BY ClientEvent DEF Dispatch
<1> QED
  BY <1>1 DEF ToOutHalf, CurSettled

LEMMA ClientSkipsStep == ASSUME IInv, NEW e \in batch, ClientSkips(e) PROVE IInv'
<1> DEFINE c == listeners[e.fd].id
<1>1. /\ CurSettled'
      /\ cur' \in Client \cup {NoClient} /\ pc' \in {"loop", "client_out", "dead"}
  BY ToOutHalfFacts DEF ClientSkips, pool
<1>2. TypeOK'
  BY <1>1 DEF IInv, TypeOK, ClientSkips, kernel, pool
<1> QED
  BY <1>1, <1>2, QuietStep DEF ClientSkips, kernel, IInv, NoPipelining

LEMMA ClientRequestStep == ASSUME IInv, NEW e \in batch, ClientRequest(e) PROVE IInv'
<1> DEFINE c == listeners[e.fd].id
           f == peer_socket_fd[c]
<1>1. /\ CurSettled'
      /\ cur' \in Client \cup {NoClient} /\ pc' \in {"loop", "client_out", "dead"}
  BY ToOutHalfFacts DEF ClientRequest, pool
<1>2. /\ c \in Client /\ c \in is_started /\ f \in Fd /\ obj[f] = "socket"
      /\ \A d \in batch : d # e /\ d.fd = f => d.stale
  BY ClientEvent DEF ClientRequest, Dispatch
<1>3. /\ input' = [input EXCEPT ![f] = "none"] /\ batch' = batch \ {e}
      /\ UNCHANGED <<obj, interest, backlog, hup, listeners, pool, output_fd, anomaly>>
      /\ ready' \in {ready, ready \cup {c}}
  BY DEF ClientRequest
<1> HIDE DEF c, f
<1>4. TypeOK'
  BY <1>1, <1>2, <1>3 DEF IInv, TypeOK, pool
<1>5. \A g \in Fd : input'[g] = IF g = f THEN "none" ELSE input[g]
  BY <1>3 DEF IInv, TypeOK
<1>6. \A b \in is_started : input'[peer_socket_fd[b]] # "none" => output_fd[b] = NoFd
  BY <1>5, DistinctOwners DEF Distinct, IInv, NoPipelining
<1>7. \A d \in batch' : ~d.stale => input'[d.fd] = input[d.fd]
  BY <1>2, <1>3, <1>5 DEF IInv, TypeOK, Event
<1> QED
  BY <1>1, <1>2, <1>3, <1>4, <1>5, <1>6, <1>7, QuietStep

LEMMA HandleResponseStep == ASSUME IInv, HandleResponse PROVE IInv'
<1>1. TypeOK'
  BY DEF IInv, TypeOK, HandleResponse, kernel, pool
<1>2. CurSettled'
  BY DEF HandleResponse, CurSettled
<1> QED
  BY <1>1, <1>2, QuietStep DEF HandleResponse, kernel, IInv, NoPipelining

LEMMA CgiReadStep == ASSUME IInv, NEW e \in batch, CgiRead(e) PROVE IInv'
<1>1. e.fd \in Fd /\ obj[e.fd] = "pipe"
  BY CgiEvent DEF CgiRead, Dispatch, IInv, TypeOK, Event
<1>2. TypeOK'
  BY <1>1 DEF IInv, TypeOK, CgiRead, pool
<1>3. CurSettled'
  BY DEF CgiRead, Dispatch, CurSettled
<1>4. \A g \in Fd : g # e.fd => input'[g] = input[g]
  BY DEF IInv, TypeOK, CgiRead
<1>5. \A c \in is_started : peer_socket_fd[c] \in Fd /\ peer_socket_fd[c] # e.fd
  BY <1>1 DEF IInv, TypeOK, ClientsWhole
<1>6. \A c \in is_started : input'[peer_socket_fd[c]] # "none" => output_fd[c] = NoFd
  BY <1>4, <1>5 DEF IInv, NoPipelining
<1>7. \A d \in batch' : d.fd \in Fd /\ d.fd # e.fd
  BY DEF IInv, TypeOK, Event, BatchTruthful, CgiRead
<1> QED
  BY <1>1, <1>2, <1>3, <1>4, <1>6, <1>7, QuietStep DEF CgiRead
-----------------------------------------------------------------------------
\* epoll_wait: every new event is true.
LEMMA PollStep == ASSUME IInv, Poll PROVE IInv'
<1> DEFINE True(d, f) ==
      /\ d = EventOf(f) /\ d \in Event /\ d.fd = f /\ ~d.stale
      /\ d.out <=> obj[f] = "socket"
      /\ d.hup <=> obj[f] = "pipe" /\ hup[f]
      /\ d.in => \/ f \in ListenFds
                 \/ input[f] # "none"
                 \/ obj[f] = "socket" /\ hup[f]
<1>1. \A d \in batch' : \E f \in interest : f \in Fd /\ True(d, f)
  BY EventOfFacts DEF Poll, IInv, TypeOK
<1>2. TypeOK'
  BY <1>1 DEF IInv, TypeOK, Poll, kernel, pool
<1>3. OwnedExactly' /\ ClientsWhole' /\ NoLeftovers' /\ NoGhosts' /\ NoPipelining'
  BY DEF IInv, Poll, kernel, pool, OwnedExactly, ClientsWhole, NoLeftovers,
         NoGhosts, NoPipelining
<1>4. /\ obj' = obj /\ input' = input /\ hup' = hup /\ pc' = "loop"
      /\ \A f \in interest : f \in Fd => obj[f] # "free"
      /\ \A f \in Fd : f \in ListenFds => obj[f] = "listen"
  BY DEF IInv, Poll, kernel, OwnedExactly
<1>5. BatchTruthful'
  BY <1>1, <1>4 DEF BatchTruthful
<1>6. StaleOnlyPipes' /\ MisdirectedStale' /\ CurSettled'
  BY <1>1, <1>4 DEF StaleOnlyPipes, MisdirectedStale, CurSettled
<1> QED
  BY <1>2, <1>3, <1>5, <1>6 DEF IInv

LEMMA ClientLeavesStep == ASSUME IInv, NEW e \in batch, ClientLeaves(e) PROVE IInv'
<1> DEFINE c == listeners[e.fd].id
<1>1. /\ c \in is_started /\ \A d \in batch \ {e} : d.fd = peer_socket_fd[c] => d.stale
  BY ClientEvent DEF ClientLeaves, Dispatch
<1>2. Terminate(c, batch \ {e}) /\ pc' = "loop" /\ cur' = cur
      /\ (anomaly' = anomaly \/ anomaly' = anomaly \cup {"cut"})
  BY DEF ClientLeaves, Dispatch
<1> HIDE DEF c
<1>3. /\ output_fd' \in [Client -> Fd \cup {NoFd}]
      /\ OwnedExactly' /\ ClientsWhole' /\ NoLeftovers' /\ NoGhosts'
      /\ NoPipelining' /\ BatchTruthful' /\ StaleOnlyPipes' /\ MisdirectedStale'
  BY <1>1, <1>2, TerminateStep
<1>4. TypeOK'
  BY <1>2, <1>3, CloseFacts DEF IInv, TypeOK, Terminate
<1> QED
  BY <1>2, <1>3, <1>4 DEF IInv, CurSettled

LEMMA ResponseEndsStep == ASSUME IInv, ResponseEnds PROVE IInv'
<1>1. /\ cur \in is_started /\ \A d \in batch : d.fd = peer_socket_fd[cur] => d.stale
  BY DEF ResponseEnds, IInv, CurSettled
<1>2. /\ Terminate(cur, batch) /\ pc' = "loop" /\ cur' = NoClient /\ anomaly' = anomaly
  BY DEF ResponseEnds
<1>3. /\ output_fd' \in [Client -> Fd \cup {NoFd}]
      /\ OwnedExactly' /\ ClientsWhole' /\ NoLeftovers' /\ NoGhosts'
      /\ NoPipelining' /\ BatchTruthful' /\ StaleOnlyPipes' /\ MisdirectedStale'
  BY <1>1, <1>2, TerminateStep
<1>4. TypeOK'
  BY <1>2, <1>3, CloseFacts DEF IInv, TypeOK, Terminate
<1> QED
  BY <1>2, <1>3, <1>4 DEF IInv, CurSettled

LEMMA CgiFinalizeStep ==
  ASSUME IInv, NEW e \in batch, CgiFinalize(e) \/ CgiFinalizeTwice(e)
  PROVE  IInv'
<1> DEFINE c == listeners[e.fd].id
<1>1. /\ Dispatch(e, "cgi") /\ Close({e.fd}, batch \ {e})
      /\ output_fd' = [output_fd EXCEPT ![c] = NoFd] /\ ready' = ready \cup {c}
      /\ anomaly' \in {anomaly, anomaly \cup {"blank"}, anomaly \cup {"use_after_free"}}
      /\ pc' \in {"loop", "dead"} /\ UNCHANGED <<backlog, pool, cur>>
  BY DEF CgiFinalize, CgiFinalizeTwice, Dispatch
<1> HIDE DEF c
<1>2. c = listeners[e.fd].id
  BY DEF c
<1>3. /\ c \in Client /\ output_fd' \in [Client -> Fd \cup {NoFd}]
      /\ OwnedExactly' /\ ClientsWhole' /\ NoLeftovers' /\ NoGhosts'
      /\ NoPipelining' /\ BatchTruthful' /\ StaleOnlyPipes' /\ MisdirectedStale'
  BY <1>1, <1>2, CgiEndsStep
<1>4. batch \ {e} \in SUBSET batch
  OBVIOUS
<1>5. TypeOK'
  BY <1>1, <1>3, <1>4, CloseFacts DEF IInv, TypeOK, pool
<1> QED
  BY <1>1, <1>3, <1>5 DEF IInv, CurSettled

LEMMA CgiTimesOutStep == ASSUME IInv, CgiTimesOut PROVE IInv'
<1> DEFINE f == output_fd[cur]
<1>1. /\ cur \in is_started /\ cur \in Client /\ f \in Fd /\ obj[f] = "pipe" /\ f # NoFd
      /\ \A d \in batch : d.fd = peer_socket_fd[cur] => d.stale
  BY DistinctOwners DEF CgiTimesOut, IInv, CurSettled, TypeOK, ClientsWhole, Distinct
<1>2. /\ Close({f}, batch) /\ output_fd' = [output_fd EXCEPT ![cur] = NoFd]
      /\ ready' = ready \cup {cur} /\ pc' = "client_out"
      /\ UNCHANGED <<backlog, pool, pc, cur, anomaly>>
  BY DEF CgiTimesOut
<1> HIDE DEF f
<1>3. f = output_fd[cur]
  BY DEF f
<1>4. /\ is_started' = is_started /\ peer_socket_fd' = peer_socket_fd
      /\ server_configs' = server_configs
  BY <1>2 DEF pool
<1>5. output_fd' \in [Client -> Fd \cup {NoFd}]
  BY <1>1, <1>2 DEF IInv, TypeOK
<1>6. \A b \in is_started' : peer_socket_fd[b] \notin {f}
  BY <1>1, <1>3, <1>4, DistinctOwners DEF Distinct
<1>7. output_fd'[cur] = NoFd /\ \A b \in Client : b # cur =>
        output_fd'[b] = output_fd[b] /\ output_fd[b] # f
  BY <1>1, <1>2, <1>3, DistinctOwners DEF Distinct, IInv, TypeOK
<1>8. \A b \in Client : output_fd'[b] # NoFd =>
        output_fd'[b] = output_fd[b] /\ output_fd[b] \notin {f} /\ b \in is_started'
  BY <1>4, <1>7 DEF IInv, ClientsWhole
<1>9. \A b \in Client : output_fd[b] # NoFd /\ output_fd[b] \notin {f} =>
                              output_fd'[b] = output_fd[b]
  BY <1>3, <1>7
<1>10. /\ \A d \in batch : d.fd \in {f} => d.stale \/ obj[d.fd] = "pipe"
       /\ \A g \in {f} : obj[g] \in {"socket", "pipe"}
       /\ \A b \in is_started : peer_socket_fd[b] \notin {f} => b \in is_started'
       /\ is_started' \subseteq is_started /\ batch \in SUBSET batch
  BY <1>1, <1>4
<1>11. /\ OwnedExactly' /\ ClientsWhole' /\ NoLeftovers' /\ NoGhosts'
       /\ NoPipelining' /\ BatchTruthful' /\ StaleOnlyPipes' /\ MisdirectedStale'
  BY <1>2, <1>4, <1>5, <1>6, <1>8, <1>9, <1>10, CloseStep
<1>12. TypeOK'
  BY <1>1, <1>2, <1>5, <1>10, CloseFacts DEF IInv, TypeOK, pool
<1>13. CurSettled'
  <2>1. \A d \in batch' : \E e \in batch : d.fd = e.fd /\ (d.stale <=> e.stale \/ e.fd \in {f})
    BY <1>2, <1>10, CloseFacts DEF IInv
  <2> QED
    BY <1>1, <1>2, <1>4, <2>1 DEF CurSettled
<1> QED
  BY <1>11, <1>12, <1>13 DEF IInv
-----------------------------------------------------------------------------
(* Steps that open a descriptor or change the map.                         *)

LEMMA AcceptPeerStep ==
  ASSUME IInv, NEW e \in batch, NEW f \in Fd, NEW c \in Client, AcceptPeer(e, f, c)
  PROVE  IInv'
<1>1. e.fd \in ListenFds /\ c \notin is_started /\ output_fd[c] = NoFd
  BY ServerEvent DEF AcceptPeer, Dispatch
<1>2. obj[f] = "free" /\ listeners[f] = NoListener /\ f \notin interest
      /\ input[f] = "none" /\ ~hup[f]
  BY DEF AcceptPeer, Lowest, Free, IInv, OwnedExactly, NoGhosts
<1>3. /\ peer_socket_fd' = [peer_socket_fd EXCEPT ![c] = f]
      /\ server_socket_fd' = [server_socket_fd EXCEPT ![c] = e.fd]
      /\ server_configs' = IF server_configs[c] = NoFd
                           THEN [server_configs EXCEPT ![c] = e.fd]
                           ELSE server_configs
      /\ obj' = [obj EXCEPT ![f] = "socket"] /\ interest' = interest \cup {f}
      /\ listeners' = [listeners EXCEPT ![f] = ClientL(c)]
      /\ is_started' = is_started \cup {c} /\ batch' = batch \ {e}
      /\ backlog' = backlog \ {e.fd}
      /\ UNCHANGED <<input, hup, output_fd, ready, pc, cur, anomaly>> /\ pc = "loop"
  BY DEF AcceptPeer, AssignSlot, Open, Dispatch
<1>4. TypeOK'
  BY <1>1, <1>3, ListenerFacts DEF IInv, TypeOK
<1>5. /\ obj'[f] = "socket" /\ listeners'[f] = ClientL(c) /\ peer_socket_fd'[c] = f
      /\ \A g \in Fd : g # f => obj'[g] = obj[g] /\ listeners'[g] = listeners[g]
      /\ \A b \in Client : b # c => peer_socket_fd'[b] = peer_socket_fd[b]
  BY <1>3 DEF IInv, TypeOK
<1>6. OwnedExactly'
  BY <1>1, <1>2, <1>3, <1>5, EventLoopAssumption DEF IInv, TypeOK, OwnedExactly
<1>7. ClientsWhole'
  BY <1>1, <1>2, <1>3, <1>5, DistinctOwners DEF IInv, TypeOK, ClientsWhole, Distinct
<1>8. NoLeftovers' /\ NoGhosts'
  <2>1. NoLeftovers'
    BY <1>2, <1>5, ListenerFacts DEF IInv, NoLeftovers
  <2>2. e.fd # NoFd
    BY <1>1, Defaults, EventLoopAssumption
  <2>3. \A b \in is_started' : server_configs'[b] # NoFd
    BY <1>3, <2>2 DEF IInv, TypeOK, NoGhosts
  <2> QED
    BY <1>2, <1>3, <1>5, <2>1, <2>3, ListenerFacts DEF IInv, NoGhosts
<1>9. NoPipelining'
  BY <1>1, <1>2, <1>3, <1>5 DEF IInv, TypeOK, NoPipelining
<1>10. \A d \in batch : d.fd \in Fd /\ (d.fd = f => d.stale)
  BY <1>2 DEF IInv, TypeOK, Event, BatchTruthful
<1>11. BatchTruthful'
  BY <1>3, <1>5, <1>10 DEF IInv, BatchTruthful
<1>12. StaleOnlyPipes' /\ CurSettled'
  BY <1>3 DEF IInv, StaleOnlyPipes, CurSettled
<1>13. MisdirectedStale'
  <2> SUFFICES ASSUME NEW d \in batch', NEW b \in batch', NEW k \in is_started',
                      d.stale, listeners'[d.fd] = ClientL(k), b.fd = peer_socket_fd'[k]
               PROVE  b.stale
    BY DEF MisdirectedStale
  <2>1. CASE k = c
    BY <1>3, <1>5, <1>10, <2>1
  <2>2. CASE k # c
    <3>1. k \in Client /\ k \in is_started
      BY <1>3, <2>2 DEF IInv, TypeOK
    <3>2. d.fd # f
      BY <1>5, <2>2, <3>1, ListenerFacts
    <3> QED
      BY <1>3, <1>5, <1>10, <2>2, <3>1, <3>2 DEF IInv, MisdirectedStale
  <2> QED
    BY <2>1, <2>2
<1> QED
  BY <1>4, <1>6, <1>7, <1>8, <1>9, <1>11, <1>12, <1>13 DEF IInv

LEMMA RegisterFailsStep ==
  ASSUME IInv, NEW e \in batch, NEW f \in Fd, NEW c \in Client, RegisterFails(e, f, c)
  PROVE  IInv'
<1>1. e.fd \in ListenFds /\ c \notin is_started /\ output_fd[c] = NoFd
  BY ServerEvent DEF RegisterFails, Dispatch
<1>2. obj[f] = "free"
  BY DEF RegisterFails, Lowest, Free
<1>3. /\ peer_socket_fd' = [peer_socket_fd EXCEPT ![c] = f]
      /\ server_socket_fd' = [server_socket_fd EXCEPT ![c] = e.fd]
      /\ server_configs' = IF server_configs[c] = NoFd
                           THEN [server_configs EXCEPT ![c] = e.fd]
                           ELSE server_configs
      /\ listeners' \in {listeners, [listeners EXCEPT ![f] = ClientL(c)]}
      /\ listeners[f] # NoListener \/ CtlMayFail
      /\ backlog' = backlog \ {e.fd} /\ batch' = batch \ {e}
      /\ UNCHANGED <<obj, interest, input, hup, is_started, output_fd, ready, pc,
                     cur, anomaly>>
      /\ pc = "loop"
  BY DEF RegisterFails, AssignSlot, Dispatch
<1>4. TypeOK'
  BY <1>1, <1>3, ListenerFacts DEF IInv, TypeOK
<1>5. /\ listeners'[f] \in {listeners[f], ClientL(c)}
      /\ \A g \in Fd : g # f => listeners'[g] = listeners[g]
      /\ \A b \in Client : b # c => peer_socket_fd'[b] = peer_socket_fd[b]
  BY <1>3 DEF IInv, TypeOK
<1>6. OwnedExactly'
  BY <1>1, <1>2, <1>3, <1>5 DEF IInv, TypeOK, OwnedExactly
<1>7. ClientsWhole'
  BY <1>1, <1>2, <1>3, <1>5, DistinctOwners DEF IInv, TypeOK, ClientsWhole, Distinct
<1>8. NoLeftovers' /\ NoGhosts'
  <2>1. NoLeftovers'
    BY <1>2, <1>3, <1>5 DEF IInv, NoLeftovers
  <2>2. e.fd # NoFd
    BY <1>1, Defaults, EventLoopAssumption
  <2>3. \A b \in is_started' : server_configs'[b] # NoFd
    BY <1>1, <1>3, <2>2 DEF IInv, TypeOK, NoGhosts
  <2> QED
    BY <1>2, <1>3, <1>5, <2>1, <2>3, ListenerFacts DEF IInv, NoGhosts
<1>9. \A b \in is_started : b \in Client /\ b # c
  BY <1>1 DEF IInv, TypeOK
<1>10. NoPipelining' /\ BatchTruthful' /\ StaleOnlyPipes' /\ CurSettled'
  BY <1>3, <1>5, <1>9
     DEF IInv, NoPipelining, BatchTruthful, StaleOnlyPipes, CurSettled
<1>11. \A d \in batch : d.fd \in Fd
  BY DEF IInv, TypeOK, Event
<1>12. MisdirectedStale'
  BY <1>3, <1>5, <1>9, <1>11, ListenerFacts DEF IInv, MisdirectedStale
<1> QED
  BY <1>4, <1>6, <1>7, <1>8, <1>10, <1>12 DEF IInv

LEMMA ClientStartsCgiStep ==
  ASSUME IInv, NEW e \in batch, NEW g \in Fd, ClientStartsCgi(e, g)
  PROVE  IInv'
<1> DEFINE c == listeners[e.fd].id
           f == peer_socket_fd[c]
<1>1. /\ CurSettled'
      /\ cur' \in Client \cup {NoClient} /\ pc' \in {"loop", "client_out", "dead"}
  BY ToOutHalfFacts DEF ClientStartsCgi, pool
<1>2. /\ c \in Client /\ c \in is_started /\ f \in Fd /\ obj[f] = "socket"
      /\ \A d \in batch : d # e /\ d.fd = f => d.stale
  BY ClientEvent DEF ClientStartsCgi, Dispatch
<1>3. /\ obj[g] = "free" /\ listeners[g] = NoListener /\ input[g] = "none" /\ ~hup[g]
      /\ g \notin interest
  BY DEF ClientStartsCgi, Lowest, Free, IInv, OwnedExactly, NoGhosts
<1>4. output_fd[c] = NoFd
  <2>1. input[f] # "none"
    BY DEF ClientStartsCgi, CgiRequests
  <2> QED
    BY <1>2, <2>1 DEF IInv, NoPipelining
<1>5. /\ obj' = [obj EXCEPT ![g] = "pipe"] /\ interest' = interest \cup {g}
      /\ listeners' = [listeners EXCEPT ![g] = CgiL(c)]
      /\ output_fd' = [output_fd EXCEPT ![c] = g]
      /\ input' = [input EXCEPT ![f] = "none"] /\ batch' = batch \ {e}
      /\ UNCHANGED <<backlog, hup, pool, ready, anomaly>>
  BY DEF ClientStartsCgi, Open
<1> HIDE DEF c, f
<1>6. f = peer_socket_fd[c]
  BY DEF f
<1> USE DEF pool
<1>7. TypeOK'
  BY <1>1, <1>2, <1>5, ListenerFacts DEF IInv, TypeOK
<1>8. /\ obj'[g] = "pipe" /\ listeners'[g] = CgiL(c) /\ output_fd'[c] = g
      /\ \A h \in Fd : h # g => obj'[h] = obj[h] /\ listeners'[h] = listeners[h]
      /\ \A b \in Client : b # c => output_fd'[b] = output_fd[b]
      /\ \A h \in Fd : input'[h] = IF h = f THEN "none" ELSE input[h]
  BY <1>2, <1>5 DEF IInv, TypeOK
<1>9. OwnedExactly'
  <2> SUFFICES ASSUME NEW h \in Fd
               PROVE  /\ h \in interest' <=> obj'[h] # "free"
                      /\ obj'[h] = "listen" <=> h \in ListenFds
                      /\ obj'[h] = "listen" => listeners'[h] = ServerL
                      /\ obj'[h] = "socket" =>
                           \E b \in is_started' :
                             listeners'[h] = ClientL(b) /\ peer_socket_fd'[b] = h
                      /\ obj'[h] = "pipe" =>
                           \E b \in is_started' :
                             listeners'[h] = CgiL(b) /\ output_fd'[b] = h
    BY DEF OwnedExactly
  <2>1. CASE h = g
    BY <1>2, <1>3, <1>5, <1>8, <2>1 DEF IInv, OwnedExactly
  <2>2. CASE h # g
    <3>1. obj[h] = "pipe" => \E b \in is_started : listeners[h] = CgiL(b) /\ output_fd'[b] = h
      BY <1>2, <1>4, <1>8, Defaults DEF IInv, TypeOK, OwnedExactly
    <3> QED
      BY <1>5, <1>8, <2>2, <3>1 DEF IInv, OwnedExactly
  <2> QED
    BY <2>1, <2>2
<1>10. \A b \in is_started : peer_socket_fd[b] \in Fd /\ peer_socket_fd[b] # g
  BY <1>3 DEF IInv, TypeOK, ClientsWhole
<1>11. \A b \in Client : output_fd[b] # NoFd => output_fd[b] \in Fd /\ output_fd[b] # g
  BY <1>3 DEF IInv, TypeOK, ClientsWhole
<1>12. ClientsWhole'
  BY <1>2, <1>5, <1>8, <1>10, <1>11 DEF IInv, TypeOK, ClientsWhole
<1>13. NoLeftovers' /\ NoGhosts'
  BY <1>2, <1>3, <1>5, <1>8, ListenerFacts DEF IInv, NoLeftovers, NoGhosts
<1>14. NoPipelining'
  BY <1>5, <1>6, <1>8, <1>10, DistinctOwners DEF Distinct, IInv, TypeOK, NoPipelining
<1>15. \A d \in batch : d.fd \in Fd /\ (d.fd = g => d.stale)
  BY <1>3 DEF IInv, TypeOK, Event, BatchTruthful
<1>16. \A d \in batch' : ~d.stale => d.fd # f /\ d.fd # g
  BY <1>2, <1>5, <1>15
<1>17. BatchTruthful'
  BY <1>5, <1>8, <1>15, <1>16 DEF IInv, BatchTruthful
<1>18. StaleOnlyPipes'
  BY <1>5 DEF IInv, StaleOnlyPipes
<1>19. MisdirectedStale'
  BY <1>2, <1>5, <1>8, <1>15, ListenerFacts DEF IInv, TypeOK, MisdirectedStale
<1> QED
  BY <1>1, <1>7, <1>9, <1>12, <1>13, <1>14, <1>17, <1>18, <1>19 DEF IInv

LEMMA ClientCgiFailsStep == ASSUME IInv, NEW e \in batch, ClientCgiFails(e) PROVE IInv'
<1> DEFINE c == listeners[e.fd].id
           f == peer_socket_fd[c]
<1>1. /\ CurSettled'
      /\ cur' \in Client \cup {NoClient} /\ pc' \in {"loop", "client_out", "dead"}
  BY ToOutHalfFacts DEF ClientCgiFails, pool
<1>2. /\ c \in Client /\ c \in is_started /\ f \in Fd /\ obj[f] = "socket"
      /\ \A d \in batch : d # e /\ d.fd = f => d.stale
  BY ClientEvent DEF ClientCgiFails, Dispatch
<1>3. /\ input' = [input EXCEPT ![f] = "none"] /\ batch' = batch \ {e}
      /\ ready' = ready \cup {c}
      /\ UNCHANGED <<obj, interest, backlog, hup, pool, output_fd, anomaly>>
  BY DEF ClientCgiFails
<1>4. listeners' \in [Fd -> Listener]
      /\ \A h \in Fd : \/ listeners'[h] = listeners[h]
                       \/ listeners'[h] = NoListener /\ obj[h] = "free"
  BY ListenerFacts DEF ClientCgiFails, Free, IInv, TypeOK
<1> HIDE DEF c, f
<1> USE DEF pool
<1>5. f = peer_socket_fd[c]
  BY DEF f
<1>6. TypeOK'
  BY <1>1, <1>2, <1>3, <1>4 DEF IInv, TypeOK
<1>7. \A h \in Fd : /\ input'[h] = IF h = f THEN "none" ELSE input[h]
                    /\ obj[h] # "free" => listeners'[h] = listeners[h]
  BY <1>3, <1>4 DEF IInv, TypeOK
<1>8. OwnedExactly'
  BY <1>3, <1>7 DEF IInv, OwnedExactly
<1>9. \A b \in is_started : peer_socket_fd[b] \in Fd /\ obj[peer_socket_fd[b]] # "free"
  BY DEF IInv, TypeOK, ClientsWhole
<1>10. \A b \in Client : output_fd[b] # NoFd =>
         output_fd[b] \in Fd /\ obj[output_fd[b]] # "free"
  BY DEF IInv, TypeOK, ClientsWhole
<1>11. ClientsWhole'
  BY <1>3, <1>7, <1>9, <1>10 DEF IInv, ClientsWhole
<1>12. NoLeftovers' /\ NoGhosts'
  BY <1>3, <1>4, <1>7, ListenerFacts DEF IInv, NoLeftovers, NoGhosts
<1>13. NoPipelining'
  BY <1>3, <1>7, <1>9 DEF IInv, NoPipelining
<1>14. \A d \in batch : d.fd \in Fd
  BY DEF IInv, TypeOK, Event
<1>15. \A d \in batch' : ~d.stale => d.fd # f
  BY <1>2, <1>3
<1>16. BatchTruthful'
  BY <1>3, <1>7, <1>14, <1>15 DEF IInv, BatchTruthful
<1>17. StaleOnlyPipes'
  BY <1>3 DEF IInv, StaleOnlyPipes
<1>18. \A b \in is_started : ClientL(b) # NoListener
  BY ListenerFacts DEF IInv, TypeOK
<1>19. MisdirectedStale'
  BY <1>3, <1>4, <1>14, <1>18 DEF IInv, MisdirectedStale
<1> QED
  BY <1>1, <1>6, <1>8, <1>11, <1>12, <1>13, <1>16, <1>17, <1>19 DEF IInv
-----------------------------------------------------------------------------
LEMMA StutterStep == ASSUME IInv, UNCHANGED vars PROVE IInv'
<1> USE DEF vars, kernel, pool
<1>1. TypeOK' /\ OwnedExactly' /\ ClientsWhole' /\ NoLeftovers' /\ NoGhosts'
  BY DEF IInv, TypeOK, OwnedExactly, ClientsWhole, NoLeftovers, NoGhosts
<1>2. NoPipelining' /\ BatchTruthful' /\ StaleOnlyPipes' /\ MisdirectedStale' /\ CurSettled'
  BY DEF IInv, NoPipelining, BatchTruthful, StaleOnlyPipes, MisdirectedStale, CurSettled
<1> QED
  BY <1>1, <1>2 DEF IInv

LEMMA DispatchStep ==
  ASSUME IInv, NEW e \in batch,
         LookupFails(e) \/ ServerStep(e) \/ ClientStep(e) \/ CgiStep(e)
  PROVE  IInv'
<1>1. CASE LookupFails(e)
  BY <1>1, LookupFailsStep
<1>2. CASE ServerStep(e)
  BY <1>2, AcceptFailsStep, AcceptPeerStep, RegisterFailsStep DEF ServerStep
<1>3. CASE ClientStep(e)
  BY <1>3, ClientSkipsStep, ClientRequestStep, ClientLeavesStep,
     ClientStartsCgiStep, ClientCgiFailsStep DEF ClientStep
<1>4. CASE CgiStep(e)
  BY <1>4, CgiReadStep, CgiFinalizeStep DEF CgiStep
<1> QED
  BY <1>1, <1>2, <1>3, <1>4

LEMMA NextStep == IInv /\ [Next]_vars => IInv'
<1> SUFFICES ASSUME IInv, [Next]_vars PROVE IInv'
  OBVIOUS
<1>1. CASE LoopStep
  BY <1>1, PollStep, DispatchStep, CgiTimesOutStep, HandleResponseStep,
     ResponseEndsStep DEF LoopStep
<1>2. CASE Environment
  BY <1>2, ConnectStep, PeerSendStep, CgiWriteStep, HangUpStep DEF Environment
<1>3. CASE UNCHANGED vars
  BY <1>3, StutterStep
<1> QED
  BY <1>1, <1>2, <1>3 DEF Next, Exited

\* The inductive invariant holds in every reachable state.
THEOREM Invariance == Spec => []IInv
<1>1. Init => IInv
  BY InitInvariant
<1>2. IInv /\ [Next]_vars => IInv'
  BY NextStep
<1> QED
  BY <1>1, <1>2, PTL DEF Spec

\* Every variable of the event loop keeps its type.
THEOREM TypeCorrect == Spec => []TypeOK
  BY Invariance, PTL DEF IInv

\* The map, the kernel's interest list and the objects agree about who owns
\* each descriptor, whatever order a batch is dispatched in (IOMultiplexer's
\* _listeners, ClientServer::terminate, CGIHandler::finalizeCGI).
THEOREM OwnershipExact == Spec => [](OwnedExactly /\ ClientsWhole)
  BY Invariance, PTL DEF IInv

(* Unless epoll_ctl may fail, no entry of _listeners outlives the           *)
(* descriptor it is for (addListener, removeListener, terminate).           *)
THEOREM NothingLeftOver == Spec => []NoLeftovers
  BY Invariance, PTL DEF IInv

\* Of all events still to be dispatched, only those of CGI pipes can be about
\* a descriptor that was closed meanwhile.
THEOREM StalenessConfined == Spec => []StaleOnlyPipes
  BY Invariance, PTL DEF IInv
-----------------------------------------------------------------------------
\* The listener of an event that is not stale is there, and is of the kind of
\* the object the event is about.
LEMMA TrueEvent ==
  ASSUME IInv, NEW e \in batch, ~e.stale
  PROVE  /\ e.fd \in Fd /\ obj[e.fd] # "free" /\ listeners[e.fd].kind # "none"
         /\ listeners[e.fd].kind = "cgi" => obj[e.fd] = "pipe"
<1>1. e.fd \in Fd /\ obj[e.fd] \in {"listen", "socket", "pipe"}
  BY DEF IInv, TypeOK, Event, BatchTruthful
<1>2. is_started \subseteq Client
  BY DEF IInv, TypeOK
<1> QED
  BY <1>1, <1>2, ListenerFacts DEF IInv, OwnedExactly

\* An event that was dispatched is not in the batch any more, whatever is
\* closed meanwhile.
LEMMA DispatchedIsGone ==
  ASSUME IInv, NEW e \in batch, NEW F, Close(F, batch \ {e})
  PROVE  e \notin batch'
<1>1. \A d \in batch' : \E b \in batch \ {e} : d.fd = b.fd
  <2>1. batch \ {e} \in SUBSET batch
    OBVIOUS
  <2> QED
    BY <2>1, CloseFacts DEF IInv
<1> QED
  BY <1>1 DEF IInv, BatchTruthful

\* Whatever a dispatch does wrong, it does with a stale event: with no stale
\* event every event finds its listener, no live connection is cut, and a CGI
\* is finalised once, after it has exited.
THEOREM AnomaliesNeedStale == Spec => AnomalyNeedsStale
<1> DEFINE Stale == \E e \in batch : e.stale /\ e \notin batch'
<1>1. ASSUME IInv, Next, anomaly' # anomaly PROVE Stale
  <2> SUFFICES ASSUME NEW e \in batch, e \notin batch', ~e.stale,
                      LookupFails(e) \/ ClientLeaves(e) \/ CgiFinalize(e)
                        \/ CgiFinalizeTwice(e)
               PROVE  FALSE
    <3>1. \E e \in batch : LookupFails(e) \/ ClientLeaves(e) \/ CgiFinalize(e)
                             \/ CgiFinalizeTwice(e)
      <4>1. ~Environment /\ ~Exited /\ ~Poll
        BY <1>1 DEF Environment, Connect, PeerSend, CgiWrite, HangUp, Exited, Poll, vars
      <4>2. ~CgiTimesOut /\ ~HandleResponse /\ ~ResponseEnds
        BY <1>1 DEF CgiTimesOut, HandleResponse, ResponseEnds
      <4>3. ASSUME NEW e \in batch PROVE ~ServerStep(e)
        BY <1>1 DEF ServerStep, AcceptFails, AcceptPeer, RegisterFails
      <4>4. ASSUME NEW e \in batch PROVE ClientStep(e) => ClientLeaves(e)
        <5>1. ~ClientSkips(e) /\ ~ClientRequest(e) /\ ~ClientCgiFails(e)
          BY <1>1 DEF ClientSkips, ClientRequest, ClientCgiFails
        <5>2. \A g \in Fd : ~ClientStartsCgi(e, g)
          BY <1>1 DEF ClientStartsCgi
        <5> QED
          BY <5>1, <5>2 DEF ClientStep
      <4>5. ASSUME NEW e \in batch
            PROVE  CgiStep(e) => CgiFinalize(e) \/ CgiFinalizeTwice(e)
        BY <1>1 DEF CgiStep, CgiRead
      <4> QED
        BY <1>1, <4>1, <4>2, <4>3, <4>4, <4>5 DEF Next, LoopStep
    <3>2. PICK e \in batch : LookupFails(e) \/ ClientLeaves(e) \/ CgiFinalize(e)
                               \/ CgiFinalizeTwice(e)
      BY <3>1
    <3>3. e \notin batch'
      BY <1>1, <3>2, DispatchedIsGone
         DEF LookupFails, ClientLeaves, Terminate, CgiFinalize, CgiFinalizeTwice
    <3> QED
      BY <3>2, <3>3
  <2>1. /\ e.fd \in Fd /\ obj[e.fd] # "free" /\ listeners[e.fd].kind # "none"
        /\ listeners[e.fd].kind = "cgi" => obj[e.fd] = "pipe"
    BY <1>1, TrueEvent
  <2>2. CASE LookupFails(e)
    BY <2>1, <2>2 DEF LookupFails, Dispatch
  <2>3. CASE ClientLeaves(e)
    <3> DEFINE c == listeners[e.fd].id
    <3>1. peer_socket_fd[c] = e.fd /\ obj[e.fd] = "socket"
      BY <1>1, <2>3, ClientEvent DEF ClientLeaves, Dispatch
    <3>2. input[e.fd] # "none" \/ hup[e.fd]
      BY <1>1, <2>3, <3>1 DEF IInv, BatchTruthful, ClientLeaves
    <3> QED
      BY <1>1, <2>3, <3>1, <3>2 DEF ClientLeaves
  <2>4. CASE CgiFinalize(e) \/ CgiFinalizeTwice(e)
    <3>1. obj[e.fd] = "pipe"
      BY <2>1, <2>4 DEF CgiFinalize, CgiFinalizeTwice, Dispatch
    <3>2. (e.in => input[e.fd] # "none") /\ (e.hup => hup[e.fd])
      BY <1>1, <3>1 DEF IInv, BatchTruthful
    <3>3. ~CgiFinalizeTwice(e)
      BY <3>2 DEF CgiFinalizeTwice
    <3>4. CgiFinalize(e) /\ ~hup[e.fd]
      BY <1>1, <2>4, <3>3 DEF CgiFinalize
    <3>5. ~e.hup /\ ~(e.in /\ input[e.fd] = "none")
      BY <3>2, <3>4
    <3>6. e.hup = FALSE /\ (e.in /\ input[e.fd] = "none") = FALSE
      BY <1>1, <3>5 DEF IInv, TypeOK, Event
    <3> QED
      BY <3>4, <3>6 DEF CgiFinalize
  <2> QED
    BY <2>2, <2>3, <2>4
<1>2. IInv /\ [Next]_vars => [anomaly' # anomaly => Stale]_vars
  BY <1>1
<1> QED
  BY <1>2, Invariance, PTL DEF Spec, AnomalyNeedsStale
-----------------------------------------------------------------------------
(* A server that is never asked for a CGI.                                 *)

NoCgi ==
  /\ \A f \in Fd : obj[f] # "pipe" /\ input[f] \notin CgiRequests
  /\ \A e \in batch : ~e.stale
  /\ LoopSurvives

\* Nothing is marked stale when a client leaves, if it has no CGI.
LEMMA PlainTerminate ==
  ASSUME IInv, NoCgi, NEW c \in is_started, NEW rest \in SUBSET batch,
         Terminate(c, rest), \A d \in rest : d.fd = peer_socket_fd[c] => d.stale
  PROVE  /\ \A f \in Fd : obj'[f] # "pipe" /\ input'[f] \notin CgiRequests
         /\ \A e \in batch' : ~e.stale
<1>1. output_fd[c] = NoFd
  BY DistinctOwners DEF IInv, TypeOK, ClientsWhole, Distinct, NoCgi
<1>2. Owned(c) \subseteq {peer_socket_fd[c]} /\ Close(Owned(c), rest)
  BY <1>1 DEF Owned, Terminate
<1>3. /\ \A f \in Fd : f \in Owned(c) => obj'[f] = "free" /\ input'[f] = "none"
      /\ \A f \in Fd : f \notin Owned(c) => obj'[f] = obj[f] /\ input'[f] = input[f]
      /\ \A d \in batch' : \E e \in rest : d.stale <=> e.stale \/ e.fd \in Owned(c)
  BY <1>2, CloseFacts DEF IInv
<1>4. "none" \notin CgiRequests
  BY DEF CgiRequests
<1>5. \A e \in rest : ~e.stale /\ e.fd \notin Owned(c)
  BY <1>2 DEF NoCgi
<1> QED
  BY <1>3, <1>4, <1>5 DEF NoCgi

LEMMA PlainStep ==
  ASSUME Requests \cap CgiRequests = {}, IInv, NoCgi, [Next]_vars
  PROVE  NoCgi'
<1> USE DEF NoCgi, LoopSurvives
<1>1. ASSUME NEW e \in batch
      PROVE  /\ listeners[e.fd].kind \notin {"none", "cgi"} /\ e.fd \in Fd
  BY TrueEvent, ListenerFacts DEF IInv, TypeOK
<1>2. CASE Poll
  <2>1. \A d \in batch' : ~d.stale
    BY <1>2, EventOfFacts DEF Poll, IInv, TypeOK
  <2> QED
    BY <1>2, <2>1 DEF Poll, kernel
<1>3. ASSUME NEW e \in batch, LookupFails(e) \/ CgiStep(e) PROVE FALSE
  BY <1>1, <1>3 DEF LookupFails, CgiStep, CgiRead, CgiFinalize, CgiFinalizeTwice, Dispatch
<1>4. ASSUME NEW e \in batch, ServerStep(e) PROVE NoCgi'
  BY <1>4 DEF ServerStep, AcceptFails, AcceptPeer, RegisterFails, Open, Dispatch,
              kernel, IInv, TypeOK
<1>5. ASSUME NEW e \in batch, ClientStep(e) PROVE NoCgi'
  <2> DEFINE c == listeners[e.fd].id
  <2>1. CASE ClientSkips(e)
    BY <2>1 DEF ClientSkips, ToOutHalf, kernel
  <2>2. CASE ClientRequest(e)
    BY <2>2 DEF ClientRequest, ToOutHalf, CgiRequests, IInv, TypeOK
  <2>3. CASE ClientLeaves(e)
    <3>1. /\ c \in is_started
          /\ \A d \in batch \ {e} : d.fd = peer_socket_fd[c] => d.stale
          /\ Terminate(c, batch \ {e}) /\ pc' = pc
      BY <2>3, ClientEvent DEF ClientLeaves, Dispatch
    <3>2. batch \ {e} \in SUBSET batch
      OBVIOUS
    <3> QED
      BY <3>1, <3>2, PlainTerminate
  <2>4. ASSUME NEW g \in Fd, ClientStartsCgi(e, g) \/ ClientCgiFails(e) PROVE FALSE
    BY <2>4, ClientEvent DEF ClientStartsCgi, ClientCgiFails, Dispatch
  <2>5. ~ClientCgiFails(e)
    BY <1>1, <2>4
  <2> QED
    BY <1>5, <2>1, <2>2, <2>3, <2>4, <2>5 DEF ClientStep
<1>6. CASE CgiTimesOut
  BY <1>6, DistinctOwners DEF CgiTimesOut, IInv, TypeOK, ClientsWhole, CurSettled, Distinct
<1>7. CASE HandleResponse
  BY <1>7 DEF HandleResponse, kernel
<1>8. CASE ResponseEnds
  <2>1. /\ cur \in is_started /\ \A d \in batch : d.fd = peer_socket_fd[cur] => d.stale
        /\ Terminate(cur, batch) /\ pc' = "loop"
    BY <1>8 DEF ResponseEnds, IInv, CurSettled
  <2>2. batch \in SUBSET batch
    OBVIOUS
  <2> QED
    BY <2>1, <2>2, PlainTerminate
<1>9. CASE Environment
  <2>1. ASSUME NEW c \in Client, NEW r \in Requests, PeerSend(c, r) PROVE NoCgi'
    BY <2>1 DEF PeerSend, IInv, TypeOK
  <2>2. ASSUME NEW f \in Fd, CgiWrite(f) PROVE NoCgi'
    BY <2>2 DEF CgiWrite
  <2> QED
    BY <1>9, <2>1, <2>2 DEF Environment, Connect, HangUp
<1>10. CASE UNCHANGED vars
  BY <1>10 DEF vars, kernel
<1> QED
  BY <1>2, <1>3, <1>4, <1>5, <1>6, <1>7, <1>8, <1>9, <1>10 DEF Next, LoopStep, Exited

\* Without CGI requests the loop outlives everything its clients do: every
\* event finds its listener, even when epoll_ctl fails (runEventLoop's
\* exception "fd not found" is about CGI pipes only).
THEOREM PlainServerSurvives ==
  ASSUME Requests \cap CgiRequests = {}
  PROVE  Spec => []LoopSurvives
<1>1. Init => NoCgi
  BY DEF Init, NoCgi, LoopSurvives, CgiRequests
<1>2. IInv /\ NoCgi /\ [Next]_vars => NoCgi'
  BY PlainStep
<1>3. NoCgi => LoopSurvives
  BY DEF NoCgi
<1> QED
  BY <1>1, <1>2, <1>3, Invariance, PTL DEF Spec
=============================================================================
