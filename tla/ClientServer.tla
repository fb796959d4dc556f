---------------------------- MODULE ClientServer ----------------------------
(* One connection object (ClientServer) and the peer at the other end, over *)
(* several requests and several connections: reading, Expect, the request's *)
(* way to a response or a CGI, sending, keep-alive, and the end.            *)
(*                                                                          *)
(* The object has ONE parser, ONE response and ONE CGI at a time, and it    *)
(* goes on reading while they are in use.  A peer that sends its next       *)
(* request before it has the response to the last (pipelining) replaces     *)
(* them under way.                                                          *)
(*                                                                          *)
(* Abstractions: a request is sent in its parts, which TCP may join but     *)
(* does not split (RequestBody has the splits); error pages fit into one    *)
(* send(), other responses may need two; what a CGI writes is left out      *)
(* (CGIHandler); a timeout may have passed whenever it is tested.           *)
EXTENDS Integers, Sequences, FiniteSets

CONSTANT
  Conversations  \* what a peer may ask for on one connection, in order

\* "large" is over client_max_body_size; "bad" says where the first fault is:
\* before the URI is known, after it, or that the URI has no location.
Request == [cgi : BOOLEAN, body : {"none", "small", "large"}, expect : BOOLEAN,
            close : BOOLEAN, bad : {"no", "line", "header", "location"}]

ASSUME ClientServerAssumption == Conversations \subseteq Seq(Request)

VARIABLES
  asked,            \* peer: the requests it has begun to send
  left,             \* peer: parts of the last one it has not sent yet
  wire,             \* parts sent and not read by the server
  gone,             \* the peer has closed its connection
  replies,          \* history: what the server sends until the peer has gone
  irregular,        \* history: the peer pipelined, or asked on after a body
                    \* over the limit was taken
  writable,         \* the socket's send buffer has room
  expired,          \* more than TIME_OUT_SECONDS since _last_activity
  is_started, request_buffer, continue_sent, waitingForCGI,
  parser,           \* _parser: its request, its state, and whether
                    \* content_length_value is set
  responseBuilder,  \* the request _responseBuilder was made for (0: NULL)
  response_buffer,  \* the response, and how many send()s it may take
  handlers,         \* the CGI handlers with a script: "pending" is _pendingCgi,
                    \* "live" means its responseBuilder is not deleted
  pc                \* "loop", "out" (second half of onEvent), "dead"

peer == <<asked, left, wire, gone, irregular>>
response == <<responseBuilder, response_buffer, handlers, waitingForCGI>>
vars == <<peer, replies, writable, expired, is_started, request_buffer,
          continue_sent, parser, response, pc>>

Rank == [head |-> 1, body |-> 2, end |-> 3]
Part(n, part) == [req |-> n, part |-> part]
Before(x, y) == x.req < y.req \/ (x.req = y.req /\ Rank[x.part] < Rank[y.part])

Reply(n, kind) == [req |-> n, kind |-> kind]
NoParser == [req |-> 0, state |-> "NULL", known |-> FALSE]
NoResponse == [req |-> 0, size |-> 0]
Sends(reply) == replies' = IF gone THEN replies ELSE Append(replies, reply)
PendingCgi == {h \in handlers : h.pending}

\* The peer has asked for something it does not have the whole response to.
Outstanding ==
  /\ asked # <<>>
  /\ replies = <<>> \/ LET r == replies[Len(replies)] IN
                       r.kind # "final" \/ r.req < Len(asked)

Init ==
  /\ asked = <<>> /\ left = 0 /\ wire = {} /\ gone = FALSE
  /\ replies = <<>> /\ irregular = FALSE
  /\ writable = TRUE /\ expired = FALSE
  /\ is_started = FALSE
  /\ request_buffer = {}
  /\ continue_sent = FALSE /\ waitingForCGI = FALSE
  /\ parser = NoParser
  /\ responseBuilder = 0 /\ response_buffer = NoResponse
  /\ handlers = {}
  /\ pc = "loop"
-----------------------------------------------------------------------------
(* The peer, and the kernel between                                         *)

ServerSame == UNCHANGED <<is_started, request_buffer, continue_sent, parser, response, pc>>

\* Server::accept_peer takes the object, new or used, for a connection.
Accept ==
  /\ pc = "loop" /\ ~is_started
  /\ is_started' = TRUE
  /\ asked' = <<>> /\ left' = 0 /\ wire' = {} /\ gone' = FALSE
  /\ replies' = <<>> /\ irregular' = (handlers # {})
  /\ writable' = TRUE
  /\ UNCHANGED <<expired, request_buffer, continue_sent, parser, response, pc>>

Upto(c, n) == SubSeq(c, 1, n)

Ask(c) ==
  /\ pc = "loop" /\ is_started /\ ~gone
  /\ left = 0 /\ Len(asked) < Len(c) /\ asked = Upto(c, Len(asked))
  /\ asked' = Upto(c, Len(asked) + 1)
  /\ left' = IF c[Len(asked')].body = "none" THEN 0 ELSE 2
  /\ wire' = wire \cup {Part(Len(asked) + 1, "head")}
  /\ irregular' = \/ irregular \/ Outstanding \/ ~writable
                  \/ asked # <<>> /\ asked[Len(asked)].body = "large"
  /\ UNCHANGED <<gone, replies, writable, expired>> /\ ServerSame

SendRest ==
  /\ pc = "loop" /\ is_started /\ ~gone
  /\ left > 0
  /\ left' = left - 1
  /\ wire' = wire \cup {Part(Len(asked), IF left = 2 THEN "body" ELSE "end")}
  /\ UNCHANGED <<asked, gone, irregular, replies, writable, expired>> /\ ServerSame

LeavePeer ==
  /\ pc = "loop" /\ is_started /\ ~gone
  /\ gone' = TRUE
  /\ UNCHANGED <<asked, left, wire, irregular, replies, writable, expired>> /\ ServerSame

\* The peer reads what fills the send buffer.
Drain ==
  /\ pc = "loop" /\ is_started /\ ~writable
  /\ writable' = TRUE
  /\ UNCHANGED <<peer, replies, expired>> /\ ServerSame

Expire ==
  /\ pc = "loop" /\ response_buffer # NoResponse
  /\ expired' = TRUE
  /\ UNCHANGED <<peer, replies, writable>> /\ ServerSame
-----------------------------------------------------------------------------
(* The end of a connection and of a response                                *)

\* _responseBuilder is deleted; a handler that writes to it does not know.
Deleted(H) == {[h EXCEPT !.live = FALSE] : h \in H}

\* Faulty variant: the parser survives the connection.
TerminateKeepsParser ==
  /\ is_started' = FALSE
  /\ responseBuilder' = 0
  /\ handlers' = Deleted(handlers \ PendingCgi)
  /\ request_buffer' = {} /\ response_buffer' = NoResponse
  /\ waitingForCGI' = FALSE
  /\ pc' = "loop"
  /\ UNCHANGED <<continue_sent, parser>>

\* Faulty variant: the running CGI survives the connection.
TerminateKeepsCgi ==
  /\ is_started' = FALSE
  /\ parser' = NoParser
  /\ responseBuilder' = 0
  /\ handlers' = Deleted(handlers)
  /\ request_buffer' = {} /\ response_buffer' = NoResponse
  /\ waitingForCGI' = FALSE
  /\ pc' = "loop"
  /\ UNCHANGED continue_sent

\* ClientServer::terminate.
Terminate ==
  /\ is_started' = FALSE
  /\ parser' = NoParser
  /\ responseBuilder' = 0
  /\ handlers' = Deleted(handlers \ PendingCgi)
  /\ request_buffer' = {} /\ response_buffer' = NoResponse
  /\ waitingForCGI' = FALSE
  /\ pc' = "loop"
  /\ UNCHANGED continue_sent

\* Faulty variant: the test on the connection header is inverted.
KeepAliveInverted == parser # NoParser /\ parser.state # "ERROR" /\ asked[parser.req].close

KeepAlive == parser # NoParser /\ parser.state # "ERROR" /\ ~asked[parser.req].close

\* Faulty variant: the response builder is left for the next request.
FinalizeKeepsBuilder ==
  \/ ~KeepAlive /\ Terminate
  \/ /\ KeepAlive
     /\ response_buffer' = NoResponse
     /\ pc' = "loop"
     /\ UNCHANGED <<is_started, parser, request_buffer, continue_sent,
                    responseBuilder, handlers, waitingForCGI>>

\* Faulty variant: the response is left in its buffer.
FinalizeKeepsResponse ==
  \/ ~KeepAlive /\ Terminate
  \/ /\ KeepAlive
     /\ responseBuilder' = 0
     /\ handlers' = Deleted(handlers)
     /\ pc' = "loop"
     /\ UNCHANGED <<is_started, parser, request_buffer, continue_sent,
                    response_buffer, waitingForCGI>>

\* finalizeResponse.
FinalizeResponse ==
  \/ ~KeepAlive /\ Terminate
  \/ /\ KeepAlive
     /\ response_buffer' = NoResponse
     /\ responseBuilder' = 0
     /\ handlers' = Deleted(handlers)
     /\ pc' = "loop"
     /\ UNCHANGED <<is_started, parser, request_buffer, continue_sent, waitingForCGI>>
-----------------------------------------------------------------------------
(* processCompletedRequest                                                  *)

Size(p) == IF p.state = "ERROR" THEN {1} ELSE {1, 2}

\* processNormalRequest: whatever response there was is replaced.
NormalRequest(p) ==
  /\ responseBuilder' = p.req
  /\ \E size \in Size(p) : response_buffer' = [req |-> p.req, size |-> size]
  /\ handlers' = Deleted(handlers)
  /\ UNCHANGED waitingForCGI

\* processCGIRequest uses a response builder that is already there.
Builder(p) == IF responseBuilder = 0 THEN p.req ELSE responseBuilder

ErrorPage(p) ==
  /\ responseBuilder' = Builder(p)
  /\ response_buffer' = [req |-> p.req, size |-> 1]

\* 405: no CGI here, or not with this method.
CgiRefused(p) ==
  /\ ErrorPage(p)
  /\ UNCHANGED <<handlers, waitingForCGI>>

\* 500: the constructor throws, and _pendingCgi, which the catch deletes, is
\* the handler before; or startCGI throws, and that handler is forgotten.
CgiFails(p) ==
  /\ ErrorPage(p)
  /\ handlers' \in {handlers \ PendingCgi, {[h EXCEPT !.pending = FALSE] : h \in handlers}}
  /\ UNCHANGED waitingForCGI

CgiStarts(p) ==
  /\ responseBuilder' = Builder(p)
  /\ handlers' = {[h EXCEPT !.pending = FALSE] : h \in handlers}
                   \cup {[req |-> p.req, pending |-> TRUE, live |-> TRUE]}
  /\ waitingForCGI' = TRUE
  /\ UNCHANGED response_buffer

AfterIn == pc' = IF writable THEN "out" ELSE "loop"

Accepted(p) ==
  /\ \/ ~asked[p.req].cgi /\ NormalRequest(p)
     \/ asked[p.req].cgi /\ (CgiRefused(p) \/ CgiFails(p) \/ CgiStarts(p))
  /\ AfterIn

\* A script's URI in a request the parser rejects has no location: unless a
\* builder that is still there answers 405, get_location_config()-> or, in
\* the handler's constructor, ->root dereferences NULL.
Rejected(p) ==
  LET script == asked[p.req].cgi /\ asked[p.req].bad # "line" IN
  \/ ~script /\ NormalRequest(p) /\ AfterIn
  \/ script /\ responseBuilder # 0 /\ CgiRefused(p) /\ AfterIn
  \/ script /\ UNCHANGED response /\ pc' = "dead"
-----------------------------------------------------------------------------
(* ClientServer::onEvent, EPOLLIN half                                      *)

InEvent == pc = "loop" /\ is_started /\ (wire # {} \/ gone)

\* readIncomingData's test before recv(), on whatever parser there is.
OverLimit == parser # NoParser /\ parser.known /\ asked[parser.req].body = "large"

\* 413 with one send(), and the end.
TooLarge ==
  /\ InEvent /\ OverLimit
  /\ Sends(Reply(parser.req, "final"))
  /\ Terminate
  /\ UNCHANGED <<peer, writable, expired>>

\* The test reads the config of a parser that has a Content-Length and, for
\* an error, was never given one.
ConfigMissing ==
  /\ InEvent /\ parser.state = "ERROR"
  /\ asked[parser.req].body # "none" /\ asked[parser.req].bad = "header"
  /\ pc' = "dead"
  /\ UNCHANGED <<peer, replies, writable, expired, is_started, request_buffer,
                 continue_sent, parser, response>>

\* recv() returns 0.
PeerGone ==
  /\ InEvent /\ wire = {} /\ ~OverLimit
  /\ Terminate
  /\ UNCHANGED <<peer, replies, writable, expired>>

\* recv() returns some of the parts on the wire; 100 Continue goes out if the
\* parser, of this request or of the one before, has an Expect header.
Recv(T) ==
  LET invite == parser # NoParser /\ asked[parser.req].expect /\ ~continue_sent IN
  /\ InEvent /\ ~OverLimit
  /\ T # {} /\ T \subseteq wire /\ \A x \in T, y \in wire \ T : Before(x, y)
  /\ wire' = wire \ T
  /\ continue_sent' = (continue_sent \/ invite)
  /\ IF invite THEN Sends(Reply(Len(asked), "interim")) ELSE UNCHANGED replies
  /\ expired' = FALSE
  /\ UNCHANGED <<asked, left, gone, irregular, writable, is_started>>

Own(S, n) == {x \in S : x.req = n}
Ends(S, n) == Part(n, "end") \in S

\* isParsingRequestBody.
InBody == parser.state = "BODY" /\ ~waitingForCGI

ReadBody(T) ==
  LET S == request_buffer \cup T IN
  /\ InBody /\ Recv(T)
  /\ ~Ends(S, parser.req)
  /\ request_buffer' = S \ Own(S, parser.req)
  /\ parser' = [parser EXCEPT !.known = TRUE]
  /\ AfterIn
  /\ UNCHANGED response

ReadBodyEnd(T) ==
  LET S == request_buffer \cup T IN
  /\ InBody /\ Recv(T)
  /\ Ends(S, parser.req)
  /\ request_buffer' = S \ Own(S, parser.req)
  /\ parser' = [parser EXCEPT !.known = TRUE, !.state = "DONE"]
  /\ Accepted(parser')

\* processRequestHeaders finds no blank line.
ReadNoHead(T) ==
  LET S == request_buffer \cup T IN
  /\ ~InBody /\ Recv(T)
  /\ \A x \in S : x.part # "head"
  /\ request_buffer' = S
  /\ AfterIn
  /\ UNCHANGED <<parser, response>>

First(S, n) == \E x \in S : x.req = n /\ \A y \in S : n <= y.req

\* parseHeaders, and the body is not complete yet.
ReadHead(T) ==
  LET S == request_buffer \cup T IN
  \E n \in DOMAIN asked :
    /\ ~InBody /\ Recv(T)
    /\ First(S, n) /\ Part(n, "head") \in S /\ asked[n].bad = "no"
    /\ asked[n].body # "none" /\ ~Ends(S, n)
    /\ request_buffer' = S \ Own(S, n)
    /\ parser' = [req |-> n, state |-> "BODY", known |-> Part(n, "body") \in S]
    /\ AfterIn
    /\ UNCHANGED response

\* parseHeaders, and the request is complete.
ReadRequest(T) ==
  LET S == request_buffer \cup T IN
  \E n \in DOMAIN asked :
    /\ ~InBody /\ Recv(T)
    /\ First(S, n) /\ Part(n, "head") \in S /\ asked[n].bad = "no"
    /\ asked[n].body = "none" \/ Ends(S, n)
    /\ request_buffer' = S \ Own(S, n)
    /\ parser' = [req |-> n, state |-> "DONE", known |-> asked[n].body # "none"]
    /\ Accepted(parser')

\* The parser rejects the request, and leaves the rest of it in the buffer;
\* or match_location finds no location for it.
ReadBadHead(T) ==
  LET S == request_buffer \cup T IN
  \E n \in DOMAIN asked :
    /\ ~InBody /\ Recv(T)
    /\ First(S, n) /\ Part(n, "head") \in S /\ asked[n].bad # "no"
    /\ IF asked[n].bad = "location"
       THEN /\ request_buffer' = S \ Own(S, n)
            /\ parser' = [req |-> n, state |-> "ERROR", known |-> Part(n, "body") \in S]
       ELSE /\ request_buffer' = S
            /\ parser' = [req |-> n, state |-> "ERROR", known |-> FALSE]
    /\ Rejected(parser')

\* What is left of a body is taken for a request line.
ReadGarbage(T) ==
  LET S == request_buffer \cup T IN
  \E n \in DOMAIN asked :
    /\ ~InBody /\ Recv(T)
    /\ First(S, n) /\ Part(n, "head") \notin S
    /\ \E x \in S : x.part = "head"
    /\ request_buffer' = S
    /\ parser' = [req |-> n, state |-> "ERROR", known |-> FALSE]
    /\ NormalRequest(parser') /\ AfterIn
-----------------------------------------------------------------------------
(* ClientServer::onEvent, EPOLLOUT half                                     *)

\* It follows the first half, or the event has EPOLLOUT only.
OutEvent ==
  \/ pc = "out"
  \/ pc = "loop" /\ is_started /\ writable /\ wire = {} /\ ~gone

Waiting == waitingForCGI /\ PendingCgi # {}

\* checkCGIProgress: 504.
CgiTimesOut ==
  /\ OutEvent /\ Waiting
  /\ handlers' = handlers \ PendingCgi
  /\ waitingForCGI' = FALSE
  /\ \E h \in PendingCgi : response_buffer' = [req |-> h.req, size |-> 1]
  /\ pc' = "out"
  /\ expired' = FALSE
  /\ UNCHANGED <<peer, replies, writable, is_started, request_buffer,
                 continue_sent, parser, responseBuilder>>

Responding == OutEvent /\ response_buffer # NoResponse

\* handleResponse: there is nothing to send.
NothingToSend ==
  /\ pc = "out" /\ response_buffer = NoResponse
  /\ pc' = "loop"
  /\ UNCHANGED <<peer, replies, writable, expired, is_started, request_buffer,
                 continue_sent, parser, response>>

\* handleTimeout.
TimesOut ==
  /\ Responding /\ expired /\ ~Waiting
  /\ Terminate
  /\ UNCHANGED <<peer, replies, writable, expired>>

\* send() fails: the peer is gone.
SendFails ==
  /\ Responding /\ gone
  /\ Terminate
  /\ UNCHANGED <<peer, replies, writable, expired>>

SendPart ==
  /\ Responding /\ (~expired \/ Waiting) /\ response_buffer.size > 1
  /\ Sends(Reply(response_buffer.req, "part"))
  /\ response_buffer' = [response_buffer EXCEPT !.size = @ - 1]
  /\ writable' = FALSE
  /\ expired' = FALSE
  /\ pc' = "loop"
  /\ UNCHANGED <<peer, is_started, request_buffer, continue_sent, parser,
                 responseBuilder, handlers, waitingForCGI>>

SendAll ==
  /\ Responding /\ (~expired \/ Waiting)
  /\ Sends(Reply(response_buffer.req, "final"))
  /\ writable' \in BOOLEAN
  /\ expired' = FALSE
  /\ FinalizeResponse
  /\ UNCHANGED peer
-----------------------------------------------------------------------------
(* CGIHandler::finalizeCGI                                                  *)

\* Faulty variant: the response is not marked as ready.
CgiCompletesSilently(h) ==
  /\ pc = "loop" /\ h \in handlers /\ h.live
  /\ handlers' = handlers \ {h}
  /\ waitingForCGI' = (waitingForCGI /\ ~h.pending)
  /\ UNCHANGED <<peer, replies, writable, expired, is_started, request_buffer,
                 continue_sent, parser, response_buffer, responseBuilder, pc>>

\* processCGIOutput writes to the response builder; onCGIComplete makes the
\* response if the handler is _pendingCgi.
CgiCompletes(h) ==
  /\ pc = "loop" /\ h \in handlers /\ h.live
  /\ handlers' = handlers \ {h}
  /\ \/ /\ h.pending
        /\ \E size \in {1, 2} : response_buffer' = [req |-> h.req, size |-> size]
        /\ waitingForCGI' = FALSE
     \/ ~h.pending /\ UNCHANGED <<response_buffer, waitingForCGI>>
  /\ UNCHANGED <<peer, replies, writable, expired, is_started, request_buffer,
                 continue_sent, parser, responseBuilder, pc>>

\* ... which has been deleted.
CgiWritesToDeleted(h) ==
  /\ pc = "loop" /\ h \in handlers /\ ~h.live
  /\ pc' = "dead"
  /\ UNCHANGED <<peer, replies, writable, expired, is_started, request_buffer,
                 continue_sent, parser, response>>
-----------------------------------------------------------------------------
Peer == Accept \/ (\E c \in Conversations : Ask(c)) \/ SendRest \/ LeavePeer \/ Drain \/ Expire

Read(T) == \/ ReadBody(T) \/ ReadBodyEnd(T) \/ ReadNoHead(T) \/ ReadHead(T)
           \/ ReadRequest(T) \/ ReadBadHead(T) \/ ReadGarbage(T)

In == TooLarge \/ ConfigMissing \/ PeerGone \/ \E T \in SUBSET wire : Read(T)

Out == CgiTimesOut \/ NothingToSend \/ TimesOut \/ SendFails \/ SendPart \/ SendAll

Cgi == \E h \in handlers : CgiCompletes(h) \/ CgiWritesToDeleted(h)

Exited == pc = "dead" /\ UNCHANGED vars

Next == Peer \/ In \/ Out \/ Cgi \/ Exited

Spec == Init /\ [][Next]_vars

FairSpec ==
  /\ Spec
  /\ WF_vars(In) /\ WF_vars(Out) /\ WF_vars(Cgi)
  /\ WF_vars(SendRest) /\ WF_vars(Drain)
-----------------------------------------------------------------------------
TypeOK ==
  /\ asked = <<>> \/ \E c \in Conversations : Len(asked) <= Len(c) /\ asked = Upto(c, Len(asked))
  /\ left \in 0..2
  /\ \A x \in wire \cup request_buffer : x.req \in DOMAIN asked /\ x.part \in DOMAIN Rank
  /\ gone \in BOOLEAN /\ irregular \in BOOLEAN /\ writable \in BOOLEAN /\ expired \in BOOLEAN
  /\ is_started \in BOOLEAN /\ continue_sent \in BOOLEAN /\ waitingForCGI \in BOOLEAN
  /\ parser = NoParser \/ /\ parser.req \in DOMAIN asked
                          /\ parser.state \in {"BODY", "DONE", "ERROR"}
                          /\ parser.known \in BOOLEAN
  /\ responseBuilder \in 0..Len(asked)
  /\ response_buffer = NoResponse \/ /\ response_buffer.req \in DOMAIN asked
                                     /\ response_buffer.size \in {1, 2}
  /\ handlers \subseteq [req : Nat \ {0}, pending : BOOLEAN, live : BOOLEAN]
  /\ Cardinality(PendingCgi) <= 1
  /\ pc \in {"loop", "out", "dead"}

\* As long as the peer waits for its responses: there is at most one CGI, and
\* while it runs, its builder and its client's parser are those of its own
\* request, nothing else is being answered, and nothing is unread.
OneAtATime ==
  ~irregular /\ pc # "dead" =>
    /\ handlers = PendingCgi
    /\ waitingForCGI <=> handlers # {}
    /\ \A h \in handlers : /\ h.live /\ h.req = Len(asked) /\ responseBuilder = h.req
                           /\ parser.req = h.req /\ response_buffer = NoResponse
                           /\ wire = {} /\ request_buffer = {}
    /\ response_buffer # NoResponse => Outstanding /\ response_buffer.req = Len(asked)

\* What the connection promises (RequestReply), kept as long as the peer waits
\* for its responses and the process lives.
Broken == irregular \/ pc = "dead"
Promise == INSTANCE RequestReply WITH
  status <- IF Broken THEN "broken" ELSE IF is_started THEN "open" ELSE "closed",
  count  <- IF Broken THEN 0 ELSE Len(asked),
  stream <- IF Broken THEN <<>> ELSE replies
KeepsPromise == Promise!Spec

\* A connection ends when the peer has left or not read for too long, or when
\* the response to a request that is wrong, too large or the last is complete.
EndsForReason ==
  [][is_started /\ ~is_started' /\ ~irregular =>
       \/ gone \/ expired
       \/ /\ replies' # replies /\ ~Outstanding'
          /\ LET r == asked[Len(asked)] IN r.close \/ r.body = "large" \/ r.bad # "no"]_vars

\* No peer that waits for its responses can make the server use a deleted
\* object or a missing config - except by a request for a script that the
\* parser rejects.
DiesOnlyOfBadScript ==
  pc = "dead" /\ ~irregular =>
    \E n \in DOMAIN asked : /\ n = parser.req
                            /\ asked[n].cgi /\ asked[n].bad \in {"header", "location"}

\* A peer that completes its request and waits gets the whole response, or the
\* connection ends.
Answered ==
  Outstanding /\ ~irregular ~> ~Outstanding \/ irregular \/ ~is_started \/ pc = "dead"

\* "Provide default error pages and send appropriate HTTP error codes"
\* (README.md:17): a request with an error gets a response.
ErrorAnswered == pc = "dead" => irregular
=============================================================================
