------------------------- MODULE ClientServerProofs -------------------------
(***************************************************************************)
(* Proofs about ClientServer for any set of conversations: the object      *)
(* keeps its shape whatever the peer does (Always), and a connection whose *)
(* peer waits for its responses is always in one of five phases (InPhase), *)
(* from which the connection's promises follow.                            *)
(***************************************************************************)
EXTENDS ClientServer, FiniteSetTheorems, SequenceTheorems, TLAPS

Latest == Len(asked)
LastReply == replies[Len(replies)]
Regular == ~irregular /\ pc # "dead"

AsAgreed == asked = <<>> \/ \E c \in Conversations : Len(asked) <= Len(c) /\ asked = Upto(c, Len(asked))

Parts == [req : DOMAIN asked, part : {"head", "body", "end"}]
Lefts == IF asked = <<>> THEN {0} ELSE 0..2

Handler == [req : Nat \ {0}, pending : BOOLEAN, live : BOOLEAN]
Replies == [req : Nat, kind : {"interim", "part", "final"}]

Flags ==
  /\ gone \in BOOLEAN /\ irregular \in BOOLEAN /\ writable \in BOOLEAN /\ expired \in BOOLEAN
  /\ is_started \in BOOLEAN /\ continue_sent \in BOOLEAN /\ waitingForCGI \in BOOLEAN

\* The types, in full.
Types ==
  /\ asked \in Seq(Request) /\ AsAgreed
  /\ replies \in Seq(Replies)
  /\ left \in Lefts /\ wire \subseteq Parts /\ request_buffer \subseteq Parts
  /\ parser = NoParser \/ parser \in [req : DOMAIN asked, state : {"BODY", "DONE", "ERROR"}, known : BOOLEAN]
  /\ responseBuilder \in 0..Latest
  /\ response_buffer = NoResponse \/ response_buffer \in [req : DOMAIN asked, size : {1, 2}]
  /\ handlers \subseteq Handler
  /\ pc \in {"loop", "out", "dead"}

\* There is one pending handler at most, and its request is a known one.
PendingKnown ==
  /\ \A h \in handlers : h.pending => is_started /\ h.req \in DOMAIN asked
  /\ \A g, h \in handlers : g.pending /\ h.pending => g = h

\* An object that is not in use has kept nothing of its last connection.
Unused ==
  ~is_started =>
    /\ parser = NoParser /\ responseBuilder = 0 /\ response_buffer = NoResponse
    /\ request_buffer = {} /\ ~waitingForCGI /\ pc # "out"

\* What holds whatever the peer does.
Always == Flags /\ Types /\ PendingKnown /\ Unused

(* The phases of a connection with a peer that waits for its responses.     *)
NoAnswerYet ==
  responseBuilder = 0 /\ response_buffer = NoResponse /\ handlers = {} /\ ~waitingForCGI

AllRead == wire = {} /\ request_buffer = {} /\ left = 0

Idle ==
  /\ NoAnswerYet /\ AllRead /\ pc = "loop"
  /\ parser = NoParser \/ parser.state = "DONE"
  /\ gone \/ ~Outstanding

Reading ==
  /\ NoAnswerYet /\ request_buffer = {} /\ writable
  /\ Outstanding /\ (replies # <<>> => LastReply.kind # "part")
  /\ asked[Latest].body = "none" => left = 0 /\ wire \subseteq {Part(Latest, "head")}
  /\ Part(Latest, "end") \in wire => left = 0
  /\ IF Part(Latest, "head") \in wire
     THEN parser = NoParser \/ (parser.state = "DONE" /\ parser.req < Latest)
     ELSE /\ parser.req = Latest /\ parser.state = "BODY"
          /\ asked[Latest].body # "none" /\ asked[Latest].bad = "no"

InProcess == Outstanding /\ AllRead /\ parser.req = Latest /\ parser.state = "DONE"

Scripted ==
  /\ InProcess /\ response_buffer = NoResponse /\ responseBuilder = Latest /\ waitingForCGI
  /\ handlers = {[req |-> Latest, pending |-> TRUE, live |-> TRUE]}

Answering ==
  /\ InProcess /\ handlers = {} /\ ~waitingForCGI
  /\ response_buffer # NoResponse /\ response_buffer.req = Latest

Refused ==
  /\ Outstanding /\ parser.req = Latest /\ parser.state = "ERROR" /\ asked[Latest].bad # "no"
  /\ handlers = {} /\ ~waitingForCGI
  /\ response_buffer = [req |-> Latest, size |-> 1]
  /\ pc = "out" /\ ~expired

InPhase ==
  Regular =>
    /\ replies # <<>> => LastReply.req \in 1..Latest
    /\ \A x \in wire : x.req = Latest
    /\ \A i \in 1..(Latest - 1) : asked[i].body # "large"
    /\ IF is_started THEN Idle \/ Reading \/ Scripted \/ Answering \/ Refused
       ELSE handlers = {}

IInv == Always /\ InPhase /\ DiesOnlyOfBadScript
-----------------------------------------------------------------------------
\* A new object is closed and has nothing.
LEMMA InitInvariant == Init => IInv
<1> SUFFICES ASSUME Init PROVE IInv
  OBVIOUS
<1>1. Latest = 0 /\ DOMAIN asked = {}
  BY DEF Init, Latest
<1>2. asked \in Seq(Request) /\ replies \in Seq(Replies) /\ wire \subseteq Parts /\ request_buffer \subseteq Parts
  BY DEF Init
<1>5. handlers \subseteq Handler
  BY DEF Init
<1>6. responseBuilder \in 0..Latest
  BY <1>1 DEF Init
<1>8. AsAgreed
  BY DEF Init, AsAgreed
<1>9. Flags
  BY DEF Init, Flags
<1>10. left \in Lefts /\ pc \in {"loop", "out", "dead"} /\ parser = NoParser /\ response_buffer = NoResponse
  BY DEF Init, Lefts
<1>7. Types
  BY <1>2, <1>5, <1>6, <1>8, <1>9, <1>10 DEF Types
<1>3. PendingKnown /\ Unused
  BY DEF Init, PendingKnown, Unused
<1>4. InPhase /\ DiesOnlyOfBadScript
  BY <1>1 DEF Init, InPhase, DiesOnlyOfBadScript
<1> QED
  BY <1>3, <1>4, <1>7, <1>9 DEF IInv, Always

\* A step that leaves the object alone.
LEMMA Quiet ==
  ASSUME Always, UNCHANGED <<asked, replies, wire, is_started, request_buffer, continue_sent, parser, response, pc>>,
         left' \in Lefts, gone' \in BOOLEAN, irregular' \in BOOLEAN, writable' \in BOOLEAN, expired' \in BOOLEAN
  PROVE  Always'
<1>1. Types'
  BY DEF Always, Types, AsAgreed, Upto, Parts, Lefts, Latest, response
<1>2. Flags'
  BY DEF Always, Flags, response
<1>3. PendingKnown' /\ Unused'
  BY DEF Always, PendingKnown, Unused, response
<1> QED
  BY <1>1, <1>2, <1>3 DEF Always

\* What becomes of a handler that loses its builder, or is replaced.
LEMMA Except ==
  ASSUME NEW h \in Handler
  PROVE  /\ [h EXCEPT !.live = FALSE] \in Handler /\ ~[h EXCEPT !.live = FALSE].live
         /\ [h EXCEPT !.live = FALSE].req = h.req /\ [h EXCEPT !.live = FALSE].pending = h.pending
         /\ [h EXCEPT !.pending = FALSE] \in Handler /\ ~[h EXCEPT !.pending = FALSE].pending
  BY DEF Handler

\* What becomes of handlers whose response builder is deleted.
LEMMA Forgetting ==
  ASSUME NEW H, H \subseteq Handler
  PROVE  /\ Deleted(H) \subseteq Handler
         /\ \A h \in Deleted(H) : \E g \in H : h.req = g.req /\ h.pending = g.pending /\ ~h.live
         /\ H = {} => Deleted(H) = {}
<1>1. ASSUME NEW h \in Deleted(H)
      PROVE  h \in Handler /\ \E g \in H : h.req = g.req /\ h.pending = g.pending /\ ~h.live
  <2>1. PICK g \in H : h = [g EXCEPT !.live = FALSE]
    BY DEF Deleted
  <2> QED
    BY <2>1, Except
<1>2. H = {} => Deleted(H) = {}
  BY DEF Deleted
<1> QED
  BY <1>1, <1>2

\* Handlers that _pendingCgi does not point to any more.
LEMMA Unpending ==
  ASSUME NEW H, H \subseteq Handler
  PROVE  {[h EXCEPT !.pending = FALSE] : h \in H} \subseteq Handler
         /\ \A h \in {[g EXCEPT !.pending = FALSE] : g \in H} : ~h.pending
<1>1. ASSUME NEW h \in {[g EXCEPT !.pending = FALSE] : g \in H} PROVE h \in Handler /\ ~h.pending
  <2>1. PICK g \in H : h = [g EXCEPT !.pending = FALSE]
    OBVIOUS
  <2> QED
    BY <2>1, Except
<1> QED
  BY <1>1

\* Terminate, whatever has been sent: nothing of the connection is kept.
LEMMA Terminates ==
  ASSUME Always, is_started, Terminate, UNCHANGED <<asked, left, wire, irregular>>,
         replies' \in Seq(Replies),
         gone' \in BOOLEAN, writable' \in BOOLEAN, expired' \in BOOLEAN
  PROVE  Always' /\ handlers' = Deleted(handlers \ PendingCgi) /\ ~is_started'
<1>0. handlers \ PendingCgi \subseteq Handler /\ \A h \in handlers \ PendingCgi : ~h.pending
  BY DEF Always, Types, PendingCgi
<1>1. handlers' = Deleted(handlers \ PendingCgi)
  BY DEF Terminate
<1>2. handlers' \subseteq Handler /\ \A h \in handlers' : ~h.pending
  BY <1>0, <1>1, Forgetting
<1>3. Types'
  <2>1. asked' \in Seq(Request) /\ AsAgreed' /\ left' \in Lefts' /\ wire' \subseteq Parts'
    BY DEF Always, Types, AsAgreed, Upto, Parts, Lefts
  <2>2. /\ pc' \in {"loop", "out", "dead"} /\ parser' = NoParser /\ response_buffer' = NoResponse
        /\ request_buffer' \subseteq Parts' /\ responseBuilder' \in 0..Latest'
    BY DEF Terminate, Always, Types, Latest
  <2> QED
    BY <1>2, <2>1, <2>2 DEF Types
<1>6. Flags'
  BY DEF Flags, Terminate, Always
<1>4. PendingKnown'
  BY <1>2 DEF PendingKnown
<1>5. Unused'
  BY DEF Terminate, Unused
<1> QED
  BY <1>3, <1>4, <1>5, <1>6 DEF Terminate, Always

\* What is sent reaches the peer unless it has gone.
LEMMA Answer ==
  ASSUME Always, NEW r \in Replies, Sends(r)
  PROVE  /\ replies' \in Seq(Replies)
         /\ ~gone => replies' # <<>> /\ Len(replies') = Len(replies) + 1 /\ LastReply' = r
         /\ gone => replies' = replies
<1>1. replies \in Seq(Replies)
  BY DEF Always, Types
<1>2. CASE gone
  BY <1>1, <1>2 DEF Sends
<1>3. CASE ~gone
  <2>1. replies' = Append(replies, r)
    BY <1>3 DEF Sends
  <2>2. replies' # <<>> /\ Len(replies') = Len(replies) + 1 /\ replies'[Len(replies')] = r
    BY <1>1, <2>1
  <2> QED
    BY <1>1, <1>3, <2>1, <2>2 DEF LastReply
<1> QED
  BY <1>2, <1>3

AParser == [req : DOMAIN asked, state : {"BODY", "DONE", "ERROR"}, known : BOOLEAN]
AResponse == [req : DOMAIN asked, size : {1, 2}]

\* How a step of a connection that goes on is checked.
LEMMA GoesOn ==
  ASSUME Always, Flags', is_started, is_started', asked' = asked, left' \in Lefts, replies' \in Seq(Replies),
         wire' \subseteq Parts, request_buffer' \subseteq Parts, pc' \in {"loop", "out", "dead"},
         parser' = NoParser \/ parser' \in AParser,
         responseBuilder' \in 0..Latest, response_buffer' = NoResponse \/ response_buffer' \in AResponse,
         handlers' \subseteq Handler,
         \A h \in handlers' : h.pending => h.req \in DOMAIN asked,
         \A g, h \in handlers' : g.pending /\ h.pending => g = h
  PROVE  Always'
<1>1. AsAgreed' /\ Parts' = Parts /\ Lefts' = Lefts /\ Latest' = Latest /\ AParser' = AParser /\ AResponse' = AResponse
  BY DEF Always, Types, AsAgreed, Upto, Parts, Lefts, Latest, AParser, AResponse
<1>2. Types'
  BY <1>1 DEF Always, Types, AParser, AResponse
<1>3. PendingKnown' /\ Unused'
  BY DEF PendingKnown, Unused
<1> QED
  BY <1>2, <1>3 DEF Always

\* What there is to say of what a step leaves alone.
LEMMA Kept ==
  ASSUME Always
  PROVE  /\ left \in Lefts /\ replies \in Seq(Replies) /\ wire \subseteq Parts /\ request_buffer \subseteq Parts
         /\ pc \in {"loop", "out", "dead"}
         /\ parser = NoParser \/ parser \in AParser
         /\ responseBuilder \in 0..Latest
         /\ response_buffer = NoResponse \/ response_buffer \in AResponse
         /\ handlers \subseteq Handler
         /\ \A h \in handlers : h.pending => h.req \in DOMAIN asked
         /\ \A g, h \in handlers : g.pending /\ h.pending => g = h
  BY DEF Always, Types, PendingKnown, AParser, AResponse

\* processCompletedRequest: one response, or one more handler.
LEMMA Processed ==
  ASSUME Always, is_started, NEW p \in AParser,
         NormalRequest(p) \/ CgiRefused(p) \/ CgiFails(p) \/ CgiStarts(p)
  PROVE  /\ responseBuilder' \in 0..Latest
         /\ response_buffer' = NoResponse \/ response_buffer' \in AResponse
         /\ handlers' \subseteq Handler
         /\ \A h \in handlers' : h.pending => h.req \in DOMAIN asked
         /\ \A g, h \in handlers' : g.pending /\ h.pending => g = h
         /\ waitingForCGI' \in BOOLEAN
<1>1. /\ p.req \in DOMAIN asked /\ p.req \in Nat \ {0} /\ p.req \in 1..Latest /\ Latest \in Nat
      /\ p.state \in {"BODY", "DONE", "ERROR"}
  BY DEF AParser, Always, Types, Latest
<1>2. /\ responseBuilder \in 0..Latest /\ (response_buffer = NoResponse \/ response_buffer \in AResponse)
      /\ handlers \subseteq Handler
  BY DEF Always, Types, AResponse
<1>3. waitingForCGI \in BOOLEAN
  BY DEF Always, Flags
<1>4. /\ \A h \in handlers : h.pending => h.req \in DOMAIN asked
      /\ \A g, h \in handlers : g.pending /\ h.pending => g = h
  BY DEF Always, PendingKnown
<1>5. Builder(p) \in 0..Latest
  BY <1>1, <1>2 DEF Builder
<1>6. [req |-> p.req, size |-> 1] \in AResponse /\ [req |-> p.req, size |-> 2] \in AResponse
  BY <1>1 DEF AResponse
<1>7. CASE NormalRequest(p)
  <2>1. handlers' \subseteq Handler
    BY <1>2, <1>7, Forgetting DEF NormalRequest
  <2>2. \A h \in handlers' : h.pending => h.req \in DOMAIN asked
    BY <1>2, <1>4, <1>7, Forgetting DEF NormalRequest
  <2>3. \A g, h \in handlers' : g.pending /\ h.pending => g = h
    <3> SUFFICES ASSUME NEW g \in handlers', NEW h \in handlers', g.pending, h.pending PROVE g = h
      OBVIOUS
    <3>1. PICK k \in handlers : g = [k EXCEPT !.live = FALSE]
      BY <1>7 DEF NormalRequest, Deleted
    <3>2. PICK l \in handlers : h = [l EXCEPT !.live = FALSE]
      BY <1>7 DEF NormalRequest, Deleted
    <3>3. k.pending /\ l.pending
      BY <1>2, <3>1, <3>2, Except
    <3> QED
      BY <1>4, <3>1, <3>2, <3>3
  <2>4. responseBuilder' \in 0..Latest /\ response_buffer' \in AResponse
    BY <1>1, <1>6, <1>7 DEF NormalRequest, Size
  <2> QED
    BY <1>3, <1>7, <2>1, <2>2, <2>3, <2>4 DEF NormalRequest
<1>8. CASE CgiRefused(p)
  BY <1>2, <1>3, <1>4, <1>5, <1>6, <1>8 DEF CgiRefused, ErrorPage
<1>9. CASE CgiFails(p)
  <2>1. /\ handlers' \subseteq Handler
        /\ \A h \in handlers' : ~h.pending
    BY <1>2, <1>9, Unpending DEF CgiFails, PendingCgi
  <2> QED
    BY <1>3, <1>5, <1>6, <1>9, <2>1 DEF CgiFails, ErrorPage
<1>10. CASE CgiStarts(p)
  <2> DEFINE new == [req |-> p.req, pending |-> TRUE, live |-> TRUE]
  <2>1. new \in Handler /\ new.pending /\ new.req = p.req
    BY <1>1 DEF Handler
  <2>2. handlers' = {[h EXCEPT !.pending = FALSE] : h \in handlers} \cup {new}
    BY <1>10 DEF CgiStarts
  <2>3. handlers' \subseteq Handler /\ \A h \in handlers' : h.pending => h = new
    BY <1>2, <2>1, <2>2, Unpending
  <2> QED
    BY <1>1, <1>2, <1>5, <1>10, <2>1, <2>3 DEF CgiStarts
<1> QED
  BY <1>7, <1>8, <1>9, <1>10
-----------------------------------------------------------------------------
\* One request more, of the same conversation.
LEMMA Asks ==
  ASSUME Always, NEW c \in Conversations, Ask(c)
  PROVE  /\ asked' \in Seq(Request) /\ AsAgreed' /\ Latest' = Latest + 1 /\ Latest \in Nat
         /\ \A i \in 1..Latest : asked'[i] = asked[i]
         /\ DOMAIN asked' = 1..(Latest + 1) /\ DOMAIN asked = 1..Latest
         /\ asked'[Latest + 1] = c[Latest + 1]
<1>1. c \in Seq(Request) /\ asked \in Seq(Request)
  BY ClientServerAssumption DEF Always, Types
<1>2. Len(asked) < Len(c) /\ asked = SubSeq(c, 1, Len(asked)) /\ asked' = SubSeq(c, 1, Len(asked) + 1)
  BY DEF Ask, Upto
<1>3. /\ asked' \in Seq(Request) /\ Len(asked') = Len(asked) + 1
      /\ \A i \in 1..(Len(asked) + 1) : asked'[i] = c[i]
  BY <1>1, <1>2
<1>4. \A i \in 1..Len(asked) : asked[i] = c[i]
  BY <1>1, <1>2
<1>5. AsAgreed'
  BY <1>1, <1>2, <1>3 DEF AsAgreed, Upto
<1> QED
  BY <1>1, <1>3, <1>4, <1>5 DEF Latest

\* A request more leaves the object as it is.
LEMMA AskAlways ==
  ASSUME Always, NEW c \in Conversations, Ask(c)
  PROVE  Always'
<1>0. UNCHANGED <<request_buffer, continue_sent, parser, response, pc, is_started, gone, replies, writable, expired>>
  BY DEF Ask, ServerSame
<1>1. Part(Latest + 1, "head") \in Parts' /\ Parts \subseteq Parts' /\ left' \in Lefts'
  BY Asks DEF Part, Parts, Ask, Latest, Lefts
<1>2. wire' \subseteq Parts' /\ request_buffer' \subseteq Parts'
  BY <1>0, <1>1 DEF Ask, Always, Types, Latest
<1>3. parser' = NoParser \/ parser' \in AParser'
  BY <1>0, Asks DEF AParser, Always, Types
<1>4. response_buffer' = NoResponse \/ response_buffer' \in AResponse'
  BY <1>0, Asks DEF AResponse, Always, Types, response
<1>5. responseBuilder' \in 0..Latest'
  BY <1>0, Asks DEF Always, Types, response
<1>6. Types'
  BY <1>0, <1>1, <1>2, <1>3, <1>4, <1>5, Asks DEF Types, Always, AParser, AResponse, response
<1>7. irregular' \in BOOLEAN
  BY DEF Ask
<1>8. Flags'
  BY <1>0, <1>7 DEF Flags, Always, response
<1>9. PendingKnown'
  BY <1>0, Asks DEF PendingKnown, Always, response
<1>10. Unused'
  BY <1>0 DEF Unused, Always, response
<1> QED
  BY <1>6, <1>8, <1>9, <1>10 DEF Always

\* A connection starts with a clean object.
LEMMA AcceptAlways ==
  ASSUME Always, Accept
  PROVE  Always'
<1>1. /\ parser = NoParser /\ responseBuilder = 0 /\ response_buffer = NoResponse
      /\ request_buffer = {} /\ ~waitingForCGI /\ \A h \in handlers : ~h.pending
  BY DEF Accept, Always, Unused, PendingKnown
<1>2. /\ asked' = <<>> /\ asked' \in Seq(Request) /\ AsAgreed' /\ replies' \in Seq(Replies)
      /\ wire' \subseteq Parts' /\ request_buffer' \subseteq Parts'
  BY <1>1 DEF Accept, AsAgreed
<1>3. /\ left' \in Lefts' /\ pc' \in {"loop", "out", "dead"} /\ parser' = NoParser /\ response_buffer' = NoResponse
      /\ handlers' \subseteq Handler /\ handlers' = handlers
  BY <1>1 DEF Accept, Lefts, Always, Types, response
<1>4. responseBuilder' \in 0..Latest'
  BY <1>1, <1>2 DEF Accept, Latest, response
<1>5. Types'
  BY <1>2, <1>3, <1>4 DEF Types
<1>6. Flags'
  BY DEF Flags, Accept, Always, response
<1>7. PendingKnown' /\ Unused'
  BY <1>1, <1>3 DEF PendingKnown, Unused, Accept
<1> QED
  BY <1>5, <1>6, <1>7 DEF Always

\* The rest of what the peer and its kernel do.
LEMMA PeerAlways ==
  ASSUME Always, SendRest \/ LeavePeer \/ Drain \/ Expire
  PROVE  Always'
<1>1. CASE SendRest
  <2>5. is_started
    BY <1>1 DEF SendRest
  <2>0. UNCHANGED <<asked, gone, irregular, replies, writable, expired, is_started, request_buffer, continue_sent, parser, response, pc>>
    BY <1>1 DEF SendRest, ServerSame
  <2>1. Flags'
    BY <2>0 DEF Flags, Always, response
  <2>2. left \in 1..2 /\ asked # <<>>
    BY <1>1 DEF SendRest, Always, Types, Lefts
  <2>3. left' \in Lefts /\ Latest \in DOMAIN asked
    BY <1>1, <2>2 DEF SendRest, Always, Types, Latest, Lefts
  <2>4. wire' \subseteq Parts
    BY <1>1, <2>3 DEF SendRest, Always, Types, Parts, Part, Latest
  <2> QED
    BY <2>0, <2>1, <2>3, <2>4, <2>5, Kept, GoesOn DEF response
<1>2. CASE LeavePeer \/ Drain \/ Expire
  <2>1. UNCHANGED <<asked, replies, wire, is_started, request_buffer, continue_sent, parser, response, pc>> /\ left' = left
    BY <1>2 DEF LeavePeer, Drain, Expire, ServerSame, peer
  <2>2. gone' \in BOOLEAN /\ irregular' \in BOOLEAN /\ writable' \in BOOLEAN /\ expired' \in BOOLEAN
    BY <1>2 DEF LeavePeer, Drain, Expire, peer, Always, Flags
  <2> QED
    BY <2>1, <2>2, Quiet DEF Always, Types
<1> QED
  BY <1>1, <1>2

\* What recv() has changed when the request is looked at.
LEMMA Received ==
  ASSUME Always, NEW T, Recv(T)
  PROVE  /\ is_started /\ is_started' /\ pc = "loop" /\ asked' = asked /\ left' = left
         /\ T \subseteq Parts /\ wire' \subseteq Parts
         /\ replies' \in Seq(Replies)
         /\ waitingForCGI' \in BOOLEAN => Flags'
         /\ irregular' = irregular /\ writable' = writable /\ gone' = gone /\ ~expired'
<1>1. /\ is_started /\ is_started' = is_started /\ pc = "loop" /\ asked' = asked /\ left' = left
      /\ T \subseteq wire /\ wire' = wire \ T /\ irregular' = irregular /\ writable' = writable
      /\ gone' = gone /\ expired' = FALSE
  BY DEF Recv, InEvent
<1>2. continue_sent' \in BOOLEAN
  BY DEF Recv, Always, Flags
<1>3. replies' \in Seq(Replies)
  <2>1. Reply(Len(asked), "interim") \in Replies
    BY DEF Reply, Replies, Always, Types
  <2>2. Sends(Reply(Len(asked), "interim")) \/ replies' = replies
    BY DEF Recv
  <2> QED
    BY <2>1, <2>2, Answer, Kept
<1>4. waitingForCGI' \in BOOLEAN => Flags'
  BY <1>1, <1>2 DEF Always, Flags
<1> QED
  BY <1>1, <1>3, <1>4, Kept

\* processCompletedRequest after recv().
LEMMA ProcessedAlways ==
  ASSUME Always, NEW T, Recv(T), parser' \in AParser, request_buffer' \subseteq Parts,
         Accepted(parser') \/ Rejected(parser') \/ (NormalRequest(parser') /\ AfterIn)
  PROVE  Always'
<1>1. CASE NormalRequest(parser') \/ CgiRefused(parser') \/ CgiFails(parser') \/ CgiStarts(parser')
  <2>1. pc' \in {"loop", "out", "dead"}
    BY <1>1, Received DEF Accepted, Rejected, AfterIn
  <2> QED
    BY <1>1, <2>1, Received, Processed, Kept, GoesOn
<1>2. CASE UNCHANGED response /\ pc' = "dead"
  <2>1. waitingForCGI' \in BOOLEAN
    BY <1>2 DEF response, Always, Flags
  <2> QED
    BY <1>2, <2>1, Received, Kept, GoesOn DEF response
<1> QED
  BY <1>1, <1>2 DEF Accepted, Rejected

\* Every way a read can go.
LEMMA ReadAlways ==
  ASSUME Always, NEW T, Read(T)
  PROVE  Always'
<1> DEFINE S == request_buffer \cup T
<1>1. Recv(T)
  BY DEF Read, ReadBody, ReadBodyEnd, ReadNoHead, ReadHead, ReadRequest, ReadBadHead, ReadGarbage
<1>2. S \subseteq Parts /\ \A m : S \ Own(S, m) \subseteq Parts
  BY <1>1, Received, Kept DEF Own
<1>3. AfterIn => pc' \in {"loop", "out", "dead"}
  BY DEF AfterIn
<1>4. UNCHANGED response => waitingForCGI' \in BOOLEAN
  BY DEF response, Always, Flags
<1>5. InBody => parser \in AParser
  BY Kept DEF InBody, NoParser
<1>6. parser \in AParser => /\ [parser EXCEPT !.known = TRUE] \in AParser
                            /\ [parser EXCEPT !.known = TRUE, !.state = "DONE"] \in AParser
  BY DEF AParser
<1>7. \A m \in DOMAIN asked, k \in BOOLEAN, st \in {"BODY", "DONE", "ERROR"} :
        [req |-> m, state |-> st, known |-> k] \in AParser
  BY DEF AParser
<1>8. CASE ReadBody(T)
  <2>1. /\ request_buffer' \subseteq Parts /\ parser' \in AParser /\ UNCHANGED response /\ AfterIn
    BY <1>2, <1>5, <1>6, <1>8 DEF ReadBody
  <2> QED
    BY <1>1, <1>3, <1>4, <2>1, Received, Kept, GoesOn DEF response
<1>9. CASE ReadBodyEnd(T)
  <2>1. /\ request_buffer' \subseteq Parts /\ parser' \in AParser /\ Accepted(parser')
    BY <1>2, <1>5, <1>6, <1>9 DEF ReadBodyEnd
  <2> QED
    BY <1>1, <2>1, ProcessedAlways
<1>10. CASE ReadNoHead(T)
  <2>1. /\ request_buffer' \subseteq Parts /\ parser' = parser /\ UNCHANGED response /\ AfterIn
    BY <1>2, <1>10 DEF ReadNoHead
  <2> QED
    BY <1>1, <1>3, <1>4, <2>1, Received, Kept, GoesOn DEF response
<1>11. CASE ReadHead(T)
  <2>1. /\ request_buffer' \subseteq Parts /\ parser' \in AParser /\ UNCHANGED response /\ AfterIn
    <3>1. PICK m \in DOMAIN asked :
            /\ request_buffer' = S \ Own(S, m) /\ UNCHANGED response /\ AfterIn
            /\ parser' = [req |-> m, state |-> "BODY", known |-> Part(m, "body") \in S]
      BY <1>11 DEF ReadHead
    <3>2. (Part(m, "body") \in S) \in BOOLEAN
      OBVIOUS
    <3> HIDE DEF S
    <3> QED
      BY <1>2, <1>7, <3>1, <3>2
  <2> QED
    BY <1>1, <1>3, <1>4, <2>1, Received, Kept, GoesOn DEF response
<1>12. CASE ReadRequest(T)
  <2>1. /\ request_buffer' \subseteq Parts /\ parser' \in AParser /\ Accepted(parser')
    <3>1. PICK m \in DOMAIN asked :
            /\ request_buffer' = S \ Own(S, m) /\ Accepted(parser')
            /\ parser' = [req |-> m, state |-> "DONE", known |-> asked[m].body # "none"]
      BY <1>12 DEF ReadRequest
    <3>2. (asked[m].body # "none") \in BOOLEAN
      OBVIOUS
    <3> HIDE DEF S
    <3> QED
      BY <1>2, <1>7, <3>1, <3>2
  <2> QED
    BY <1>1, <2>1, ProcessedAlways
<1>13. CASE ReadBadHead(T)
  <2>1. /\ request_buffer' \subseteq Parts /\ parser' \in AParser /\ Rejected(parser')
    <3>1. PICK m \in DOMAIN asked :
            /\ Rejected(parser')
            /\ \/ /\ request_buffer' = S \ Own(S, m)
                  /\ parser' = [req |-> m, state |-> "ERROR", known |-> Part(m, "body") \in S]
               \/ /\ request_buffer' = S
                  /\ parser' = [req |-> m, state |-> "ERROR", known |-> FALSE]
      BY <1>13 DEF ReadBadHead
    <3>2. (Part(m, "body") \in S) \in BOOLEAN
      OBVIOUS
    <3> HIDE DEF S
    <3> QED
      BY <1>2, <1>7, <3>1, <3>2
  <2> QED
    BY <1>1, <2>1, ProcessedAlways
<1>14. CASE ReadGarbage(T)
  <2>1. /\ request_buffer' \subseteq Parts /\ parser' \in AParser /\ NormalRequest(parser') /\ AfterIn
    BY <1>2, <1>7, <1>14 DEF ReadGarbage
  <2> QED
    BY <1>1, <2>1, ProcessedAlways
<1> QED
  BY <1>8, <1>9, <1>10, <1>11, <1>12, <1>13, <1>14 DEF Read

\* The event ends without a byte read.
LEMMA InAlways ==
  ASSUME Always, TooLarge \/ ConfigMissing \/ PeerGone
  PROVE  Always'
<1>1. is_started /\ pc = "loop"
  BY DEF TooLarge, ConfigMissing, PeerGone, InEvent
<1>2. gone \in BOOLEAN /\ irregular \in BOOLEAN /\ writable \in BOOLEAN /\ expired \in BOOLEAN
  BY DEF Always, Flags
<1>3. CASE TooLarge
  <2>1. Reply(parser.req, "final") \in Replies
    BY <1>3, Kept DEF TooLarge, OverLimit, AParser, Reply, Replies, Always, Types
  <2> QED
    BY <1>1, <1>2, <1>3, <2>1, Answer, Terminates DEF TooLarge, peer
<1>4. CASE PeerGone
  BY <1>1, <1>2, <1>4, Kept, Terminates DEF PeerGone, peer
<1>5. CASE ConfigMissing
  <2>1. Flags'
    BY <1>5 DEF ConfigMissing, peer, response, Always, Flags
  <2> QED
    BY <1>1, <1>5, <2>1, Kept, GoesOn DEF ConfigMissing, peer, response
<1> QED
  BY <1>3, <1>4, <1>5

\* handleResponse and checkCGIProgress.
LEMMA OutAlways ==
  ASSUME Always, Out
  PROVE  Always'
<1>0. gone \in BOOLEAN /\ irregular \in BOOLEAN /\ writable \in BOOLEAN /\ expired \in BOOLEAN
  BY DEF Always, Flags
<1>1. CASE CgiTimesOut
  <2>1. PICK h \in PendingCgi : response_buffer' = [req |-> h.req, size |-> 1]
    BY <1>1 DEF CgiTimesOut
  <2>2. h \in handlers /\ h.pending
    BY <2>1 DEF PendingCgi
  <2>3. is_started /\ h.req \in DOMAIN asked
    BY <2>2 DEF Always, PendingKnown
  <2>4. response_buffer' \in AResponse
    BY <2>1, <2>3 DEF AResponse
  <2>5. Flags'
    BY <1>1 DEF CgiTimesOut, peer, Always, Flags
  <2> QED
    BY <1>1, <2>3, <2>4, <2>5, Kept, GoesOn DEF CgiTimesOut, peer
<1>2. CASE NothingToSend
  <2>1. is_started
    BY <1>2 DEF NothingToSend, Always, Unused
  <2>2. Flags'
    BY <1>2 DEF NothingToSend, peer, response, Always, Flags
  <2> QED
    BY <1>2, <2>1, <2>2, Kept, GoesOn DEF NothingToSend, peer, response
<1>3. CASE TimesOut \/ SendFails
  <2>1. is_started
    BY <1>3 DEF TimesOut, SendFails, Responding, Always, Unused
  <2> QED
    BY <1>0, <1>3, <2>1, Kept, Terminates DEF TimesOut, SendFails, peer
<1>4. CASE SendPart
  <2>1. is_started /\ response_buffer \in AResponse
    BY <1>4, Kept DEF SendPart, Responding, Always, Unused
  <2>2. Reply(response_buffer.req, "part") \in Replies /\ response_buffer' \in AResponse
    BY <1>4, <2>1 DEF SendPart, Reply, Replies, AResponse, Always, Types
  <2>3. Flags'
    BY <1>4 DEF SendPart, peer, Always, Flags
  <2> QED
    BY <1>4, <2>1, <2>2, <2>3, Answer, Kept, GoesOn DEF SendPart, peer
<1>5. CASE SendAll
  <2>1. is_started /\ response_buffer \in AResponse
    BY <1>5, Kept DEF SendAll, Responding, Always, Unused
  <2>2. Reply(response_buffer.req, "final") \in Replies
    BY <2>1 DEF Reply, Replies, AResponse, Always, Types
  <2>3. replies' \in Seq(Replies) /\ UNCHANGED peer /\ writable' \in BOOLEAN /\ expired' \in BOOLEAN
    BY <1>5, <2>2, Answer DEF SendAll
  <2>4. CASE Terminate
    BY <1>0, <2>1, <2>3, <2>4, Terminates DEF peer
  <2>5. CASE ~Terminate
    <3>1. /\ response_buffer' = NoResponse /\ responseBuilder' = 0 /\ handlers' = Deleted(handlers) /\ pc' = "loop"
          /\ UNCHANGED <<is_started, parser, request_buffer, continue_sent, waitingForCGI>>
      BY <1>5, <2>5 DEF SendAll, FinalizeResponse
    <3>2. Flags'
      BY <2>3, <3>1 DEF peer, Always, Flags
    <3>3. handlers' \subseteq Handler /\ \A h \in handlers' : h.pending => h.req \in DOMAIN asked
      BY <3>1, Kept, Forgetting
    <3>4. \A g, h \in handlers' : g.pending /\ h.pending => g = h
      <4> SUFFICES ASSUME NEW g \in handlers', NEW h \in handlers', g.pending, h.pending PROVE g = h
        OBVIOUS
      <4>1. PICK k \in handlers : g = [k EXCEPT !.live = FALSE]
        BY <3>1 DEF Deleted
      <4>2. PICK l \in handlers : h = [l EXCEPT !.live = FALSE]
        BY <3>1 DEF Deleted
      <4>3. k.pending /\ l.pending
        BY <4>1, <4>2, Except, Kept
      <4> QED
        BY <4>1, <4>2, <4>3, Kept
    <3>5. responseBuilder' \in 0..Latest
      BY <3>1 DEF Always, Types, Latest
    <3> QED
      BY <2>1, <2>3, <3>1, <3>2, <3>3, <3>4, <3>5, Kept, GoesOn DEF peer
  <2> QED
    BY <2>4, <2>5
<1> QED
  BY <1>1, <1>2, <1>3, <1>4, <1>5 DEF Out

\* The end of a CGI, whosever builder it writes to.
LEMMA CgiAlways ==
  ASSUME Always, NEW h \in handlers, CgiCompletes(h) \/ CgiWritesToDeleted(h)
  PROVE  Always'
<1>1. CASE CgiCompletes(h)
  <2>1. CASE h.pending
    <3>1. is_started /\ h.req \in DOMAIN asked
      BY <2>1 DEF Always, PendingKnown
    <3>2. response_buffer' \in AResponse
      BY <1>1, <2>1, <3>1 DEF CgiCompletes, AResponse
    <3>3. Flags'
      BY <1>1, <2>1 DEF CgiCompletes, peer, Always, Flags
    <3> QED
      BY <1>1, <3>1, <3>2, <3>3, Kept, GoesOn DEF CgiCompletes, peer
  <2>2. CASE ~h.pending
    <3>1. UNCHANGED <<asked, left, wire, gone, irregular, replies, writable, expired, is_started, request_buffer,
                      continue_sent, parser, response_buffer, waitingForCGI, responseBuilder, pc>>
          /\ handlers' = handlers \ {h}
      BY <1>1, <2>2 DEF CgiCompletes, peer
    <3>2. Flags'
      BY <3>1 DEF Always, Flags
    <3>3. Types'
      BY <3>1 DEF Always, Types, AsAgreed, Upto, Parts, Lefts, Latest
    <3>4. PendingKnown' /\ Unused'
      BY <3>1 DEF Always, PendingKnown, Unused
    <3> QED
      BY <3>2, <3>3, <3>4 DEF Always
  <2> QED
    BY <2>1, <2>2
<1>2. CASE CgiWritesToDeleted(h)
  <2>1. UNCHANGED <<asked, left, wire, gone, irregular, replies, writable, expired, is_started, request_buffer,
                    continue_sent, parser, response_buffer, handlers, waitingForCGI, responseBuilder>>
        /\ pc' = "dead"
    BY <1>2 DEF CgiWritesToDeleted, peer, response
  <2>2. Flags'
    BY <2>1 DEF Always, Flags
  <2>3. Types'
    BY <2>1 DEF Always, Types, AsAgreed, Upto, Parts, Lefts, Latest
  <2>4. PendingKnown' /\ Unused'
    BY <2>1 DEF Always, PendingKnown, Unused
  <2> QED
    BY <2>2, <2>3, <2>4 DEF Always
<1> QED
  BY <1>1, <1>2

\* Whatever the peer does, the object keeps its shape.
LEMMA StepAlways ==
  ASSUME Always, [Next]_vars
  PROVE  Always'
<1>1. CASE Peer
  BY <1>1, AcceptAlways, AskAlways, PeerAlways DEF Peer
<1>2. CASE In
  BY <1>2, InAlways, ReadAlways DEF In
<1>3. CASE Out
  BY <1>3, OutAlways
<1>4. CASE Cgi
  BY <1>4, CgiAlways DEF Cgi
<1>5. CASE UNCHANGED vars
  <2>1. gone \in BOOLEAN /\ irregular \in BOOLEAN /\ writable \in BOOLEAN /\ expired \in BOOLEAN
    BY DEF Always, Flags
  <2> QED
    BY <1>5, <2>1, Kept, Quiet DEF vars, peer
<1> QED
  BY <1>1, <1>2, <1>3, <1>4, <1>5 DEF Next, Exited
-----------------------------------------------------------------------------
(* A peer that waits for its responses.                                     *)
Phase == Idle \/ Reading \/ Scripted \/ Answering \/ Refused

InOrder ==
  /\ replies # <<>> => LastReply.req \in 1..Latest
  /\ \A x \in wire : x.req = Latest
  /\ \A i \in 1..(Latest - 1) : asked[i].body # "large"

\* What such a peer can notice of a step.
Notices ==
  \/ UNCHANGED <<is_started, asked, replies>>
  \/ is_started /\ ~is_started' /\ UNCHANGED <<asked, replies>>
  \/ ~is_started /\ is_started' /\ asked' = <<>> /\ replies' = <<>>
  \/ /\ is_started /\ is_started' /\ ~Outstanding
     /\ Latest' = Latest + 1 /\ replies' = replies
  \/ /\ is_started /\ is_started' /\ asked' = asked
     /\ Outstanding /\ (replies # <<>> => LastReply.kind # "part")
     /\ replies' = Append(replies, Reply(Latest, "interim"))
  \/ /\ is_started /\ asked' = asked /\ Outstanding
     /\ \E kind \in {"part", "final"} :
          /\ replies' = Append(replies, Reply(Latest, kind))
          /\ is_started' \/ kind = "final"

\* Why a connection may end.
Reason ==
  is_started /\ ~is_started' =>
    \/ gone \/ expired
    \/ /\ replies' # replies /\ ~Outstanding'
       /\ LET r == asked[Latest] IN r.close \/ r.body = "large" \/ r.bad # "no"

\* What is to be shown of each step.
Good == InPhase' /\ DiesOnlyOfBadScript' /\ (Regular' => Notices) /\ Reason

\* What IInv says of an open connection whose peer waits.
LEMMA Phases ==
  ASSUME IInv, Regular, is_started
  PROVE  Phase /\ InOrder /\ Latest \in Nat /\ DOMAIN asked = 1..Latest
BY DEF IInv, InPhase, Phase, InOrder, Always, Types, Latest

\* A peer that waits for a response has asked for something.
LEMMA OutstandingLast ==
  ASSUME Always, Outstanding
  PROVE  /\ Latest \in Nat \ {0} /\ Latest \in DOMAIN asked
         /\ replies # <<>> => LastReply.kind # "final" \/ LastReply.req < Latest
BY DEF Always, Types, Outstanding, Latest, LastReply

\* Something arrives only while a request is being read.
LEMMA WhileReading ==
  ASSUME IInv, Regular, is_started, pc = "loop", wire # {} \/ left # 0
  PROVE  Reading
<1>1. Phase
  BY Phases
<1> QED
  BY <1>1 DEF Phase, Idle, Scripted, Answering, Refused, InProcess, AllRead

\* A peer that waits has left no CGI behind.
LEMMA NoOthers ==
  ASSUME IInv, Regular
  PROVE  handlers \ PendingCgi = {}
<1>1. CASE is_started
  <2>1. handlers = {} \/ handlers = {[req |-> Latest, pending |-> TRUE, live |-> TRUE]}
    BY <1>1, Phases DEF Phase, Idle, Reading, Scripted, Answering, Refused, NoAnswerYet
  <2> QED
    BY <2>1 DEF PendingCgi
<1>2. CASE ~is_started
  BY <1>2 DEF IInv, InPhase
<1> QED
  BY <1>1, <1>2 DEF IInv, Always, Flags

\* The end of the connection, for a reason.
LEMMA EndGood ==
  ASSUME IInv, Regular, is_started, Terminate, UNCHANGED <<asked, left, wire, irregular>>,
         replies' # <<>> => LastReply'.req \in 1..Latest, Notices, Reason
  PROVE  Good
<1>1. handlers' = {} /\ ~is_started' /\ pc' = "loop"
  BY NoOthers, Forgetting DEF Terminate
<1>2. InOrder /\ Latest' = Latest
  BY Phases DEF Latest
<1>3. InPhase'
  BY <1>1, <1>2 DEF InPhase, InOrder
<1>4. DiesOnlyOfBadScript'
  BY <1>1 DEF DiesOnlyOfBadScript
<1> QED
  BY <1>3, <1>4 DEF Good

\* A step after which the connection is in a phase.
LEMMA PhaseGood ==
  ASSUME is_started', Phase', InOrder', pc' # "dead", Notices
  PROVE  Good
BY DEF Good, InPhase, InOrder, Phase, DiesOnlyOfBadScript, Reason

\* A connection that is out of the bargain, and lives.
LEMMA IrregularGood ==
  ASSUME irregular', is_started', pc' # "dead"
  PROVE  Good
BY DEF Good, InPhase, Regular, DiesOnlyOfBadScript, Reason

\* A new connection is idle, or has the CGI of one before.
LEMMA AcceptGood ==
  ASSUME Always, Accept
  PROVE  Good
<1>1. is_started' /\ pc' = "loop" /\ UNCHANGED <<request_buffer, parser, responseBuilder, response_buffer, handlers, waitingForCGI>>
  BY DEF Accept, response
<1>2. CASE handlers # {}
  BY <1>1, <1>2, IrregularGood DEF Accept
<1>3. CASE handlers = {}
  <2>1. /\ parser = NoParser /\ responseBuilder = 0 /\ response_buffer = NoResponse
        /\ request_buffer = {} /\ ~waitingForCGI
    BY DEF Accept, Always, Unused
  <2>2. Idle'
    BY <1>1, <1>3, <2>1 DEF Idle, NoAnswerYet, AllRead, Outstanding, Accept
  <2>3. InOrder'
    <3>1. Latest' = 0
      BY DEF Accept, Latest
    <3> QED
      BY <3>1 DEF InOrder, Accept
  <2>4. Notices
    BY DEF Notices, Accept
  <2> QED
    BY <1>1, <2>2, <2>3, <2>4, PhaseGood DEF Phase
<1> QED
  BY <1>2, <1>3

\* A peer that is not waiting for a response asks for the next.
LEMMA AskGood ==
  ASSUME IInv, Regular, NEW c \in Conversations, Ask(c)
  PROVE  Good
<1>1. /\ is_started /\ is_started' = is_started /\ pc' = pc /\ pc = "loop"
      /\ UNCHANGED <<request_buffer, parser, responseBuilder, response_buffer, handlers, waitingForCGI, gone, replies, writable>>
  BY DEF Ask, ServerSame, response
<1>2. CASE irregular'
  BY <1>1, <1>2, IrregularGood
<1>3. CASE ~irregular'
  <2>1. ~Outstanding /\ writable /\ (asked # <<>> => asked[Len(asked)].body # "large")
    BY <1>3 DEF Ask
  <2>2. Idle /\ InOrder
    BY <1>1, <2>1, Phases DEF Phase, Reading, Scripted, Answering, Refused, InProcess
  <2>3. /\ asked' \in Seq(Request) /\ Latest' = Latest + 1 /\ Latest \in Nat /\ DOMAIN asked' = 1..(Latest + 1)
        /\ DOMAIN asked = 1..Latest /\ \A i \in 1..Latest : asked'[i] = asked[i]
    BY Asks DEF IInv
  <2>4. wire' = {Part(Latest', "head")} /\ (asked'[Latest'].body = "none" => left' = 0)
    <3>1. wire = {} /\ Latest' = Len(asked') /\ Latest = Len(asked)
      BY <2>2 DEF Idle, AllRead, Latest
    <3>2. wire' = {Part(Latest', "head")}
      BY <2>3, <3>1 DEF Ask
    <3>3. left' = IF asked'[Latest'].body = "none" THEN 0 ELSE 2
      BY <2>3, <3>1, Asks DEF Ask, IInv
    <3> QED
      BY <3>2, <3>3
  <2>5. replies # <<>> => LastReply.kind # "part" /\ LastReply.req \in 1..Latest
    BY <2>1, <2>2, <2>3 DEF Outstanding, InOrder, LastReply, Latest, IInv, Always, Types
  <2>6. Outstanding'
    <3>1. asked' # <<>>
      BY <2>3 DEF Latest
    <3>2. replies' = replies /\ (replies # <<>> => replies[Len(replies)].req < Len(asked'))
      BY <1>1, <2>3, <2>5 DEF LastReply, Latest
    <3> QED
      BY <3>1, <3>2 DEF Outstanding
  <2>7. parser = NoParser \/ (parser.state = "DONE" /\ parser.req < Latest')
    <3>1. parser = NoParser \/ parser.req \in 1..Latest
      BY <2>3, Kept DEF AParser, IInv
    <3> QED
      BY <2>2, <2>3, <3>1 DEF Idle
  <2>8. Part(Latest', "end") \notin wire'
    BY <2>4 DEF Part
  <2>9. Reading'
    BY <1>1, <2>1, <2>2, <2>4, <2>5, <2>6, <2>7, <2>8 DEF Reading, Idle, NoAnswerYet, AllRead, LastReply
  <2>10. InOrder'
    <3>1. replies' # <<>> => LastReply'.req \in 1..Latest'
      BY <1>1, <2>3, <2>5 DEF LastReply
    <3>2. \A x \in wire' : x.req = Latest'
      BY <2>4 DEF Part
    <3>3. \A i \in 1..(Latest' - 1) : asked'[i].body # "large"
      BY <2>1, <2>2, <2>3 DEF InOrder, Latest
    <3> QED
      BY <3>1, <3>2, <3>3 DEF InOrder
  <2>11. Notices
    BY <1>1, <2>1, <2>3 DEF Notices
  <2> QED
    BY <1>1, <2>9, <2>10, <2>11, PhaseGood DEF Phase
<1> QED
  BY <1>2, <1>3

\* The rest of a body is sent while the request is being read.
LEMMA SendRestGood ==
  ASSUME IInv, Regular, SendRest
  PROVE  Good
<1>1. /\ is_started /\ is_started' = is_started /\ pc' = pc /\ pc = "loop" /\ left > 0 /\ left' = left - 1
      /\ UNCHANGED <<asked, request_buffer, parser, responseBuilder, response_buffer, handlers, waitingForCGI, gone, replies, writable>>
      /\ wire' = wire \cup {Part(Latest, IF left = 2 THEN "body" ELSE "end")}
  BY DEF SendRest, ServerSame, response, Latest
<1>2. Reading /\ InOrder
  BY <1>1, WhileReading, Phases
<1>3. left \in {1, 2} /\ asked[Latest].body # "none" /\ Part(Latest, "end") \notin wire
  BY <1>1, <1>2, Kept DEF Reading, Lefts, IInv
<1>4. Latest' = Latest /\ LastReply' = LastReply /\ (Outstanding' <=> Outstanding)
  BY <1>1 DEF Latest, LastReply, Outstanding
<1>5. Part(Latest, "head") \in wire' <=> Part(Latest, "head") \in wire
  BY <1>1 DEF Part
<1>6. Part(Latest, "end") \in wire' => left' = 0
  BY <1>1, <1>3 DEF Part
<1>7. Reading'
  BY <1>1, <1>2, <1>3, <1>4, <1>5, <1>6 DEF Reading, NoAnswerYet
<1>8. InOrder'
  BY <1>1, <1>2, <1>4 DEF InOrder, Part
<1> QED
  BY <1>1, <1>7, <1>8, PhaseGood DEF Phase, Notices

\* The peer leaves or reads, or time passes.
LEMMA PeerGood ==
  ASSUME IInv, Regular, is_started, LeavePeer \/ Drain \/ Expire
  PROVE  Good
<1>1. /\ is_started' = is_started /\ pc' = pc /\ pc = "loop"
      /\ UNCHANGED <<asked, left, wire, request_buffer, parser, responseBuilder, response_buffer, handlers, waitingForCGI, replies>>
      /\ (gone => gone') /\ (writable => writable')
  <2>1. CASE LeavePeer
    BY <2>1 DEF LeavePeer, ServerSame, response
  <2>2. CASE Drain
    BY <2>2 DEF Drain, ServerSame, response, peer
  <2>3. CASE Expire
    <3>1. pc = "loop" /\ UNCHANGED <<peer, replies, writable>> /\ ServerSame
      BY <2>3 DEF Expire
    <3> QED
      BY <3>1 DEF ServerSame, response, peer
  <2> QED
    BY <2>1, <2>2, <2>3
<1>2. Latest' = Latest /\ LastReply' = LastReply /\ (Outstanding' <=> Outstanding)
  BY <1>1 DEF Latest, LastReply, Outstanding
<1>3. Phase /\ InOrder
  BY Phases
<1>4. Phase'
  BY <1>1, <1>2, <1>3 DEF Phase, Idle, Reading, Scripted, Answering, Refused, InProcess, NoAnswerYet, AllRead
<1>5. InOrder'
  BY <1>1, <1>2, <1>3 DEF InOrder
<1> QED
  BY <1>1, <1>4, <1>5, PhaseGood DEF Notices
-----------------------------------------------------------------------------
\* The order of the parts of a request.
LEMMA Ranks ==
  /\ Rank["head"] = 1 /\ Rank["body"] = 2 /\ Rank["end"] = 3
  /\ \A x \in Parts : Rank[x.part] \in 1..3 /\ (Rank[x.part] = 1 => x.part = "head")
<1>1. Rank["head"] = 1 /\ Rank["body"] = 2 /\ Rank["end"] = 3
  BY DEF Rank
<1> QED
  BY <1>1 DEF Parts

\* A part is what it is a part of, and which.
LEMMA SamePart ==
  ASSUME NEW x \in Parts
  PROVE  x = Part(x.req, x.part)
BY DEF Parts, Part

\* What recv() takes while a request is being read: its head first, its end last.
LEMMA ReadingRecv ==
  ASSUME IInv, Regular, NEW T, Recv(T)
  PROVE  /\ Reading /\ InOrder /\ Latest' = Latest /\ asked' = asked
         /\ T \subseteq wire /\ wire' \subseteq wire /\ (\A x \in T : x.req = Latest) /\ request_buffer \cup T = T
         /\ Own(T, Latest) = T
         /\ Part(Latest, "head") \in wire => Part(Latest, "head") \in T
         /\ Part(Latest, "head") \notin wire'
         /\ Part(Latest, "end") \in T => wire' = {} /\ left' = 0
         /\ asked[Latest].body = "none" => wire' = {} /\ left' = 0
         /\ \A m \in DOMAIN asked : First(T, m) => m = Latest
         /\ (\E x \in T : x.part = "head") => Part(Latest, "head") \in T
<1>1. /\ is_started /\ pc = "loop" /\ asked' = asked /\ T # {} /\ T \subseteq wire /\ wire' = wire \ T /\ left' = left
      /\ \A x \in T, y \in wire \ T : Before(x, y)
  BY DEF Recv, InEvent
<1>2. Reading /\ InOrder
  BY <1>1, WhileReading, Phases
<1>3. (\A x \in wire : x.req = Latest) /\ request_buffer = {} /\ wire \subseteq Parts
  BY <1>2, Kept DEF InOrder, Reading, IInv
<1>4. Latest \in Nat /\ Latest' = Latest
  BY <1>1 DEF Latest, IInv, Always, Types
<1> DEFINE H == Part(Latest, "head")
           E == Part(Latest, "end")
<1>5. H.req = Latest /\ H.part = "head" /\ E.req = Latest /\ E.part = "end"
  BY DEF Part
<1>6. ASSUME H \in wire PROVE H \in T
  <2> SUFFICES ASSUME H \notin T PROVE FALSE
    OBVIOUS
  <2>1. PICK x \in T : Before(x, H)
    BY <1>1, <1>6
  <2>2. x.req = Latest /\ Rank[x.part] \in 1..3 /\ Rank[H.part] = 1
    BY <1>1, <1>3, <1>5, Ranks
  <2> QED
    BY <1>4, <1>5, <2>1, <2>2 DEF Before
<1>7. ASSUME E \in T PROVE wire' = {} /\ left' = 0
  <2>1. left' = 0
    BY <1>1, <1>2, <1>7 DEF Reading
  <2>2. ASSUME NEW y \in wire' PROVE FALSE
    <3>1. Before(E, y) /\ y.req = Latest /\ Rank[y.part] \in 1..3 /\ Rank[E.part] = 3
      BY <1>1, <1>3, <1>5, <1>7, <2>2, Ranks
    <3> QED
      BY <1>4, <1>5, <3>1 DEF Before
  <2> QED
    BY <2>1, <2>2
<1>8. ASSUME asked[Latest].body = "none" PROVE wire' = {} /\ left' = 0
  BY <1>1, <1>2, <1>8 DEF Reading
<1>9. ASSUME NEW m \in DOMAIN asked, First(T, m) PROVE m = Latest
  BY <1>1, <1>3, <1>9 DEF First
<1>10. ASSUME NEW x \in T, x.part = "head" PROVE H \in T
  <2>1. x \in Parts /\ x.req = Latest
    BY <1>1, <1>3
  <2> QED
    BY <1>10, <2>1, SamePart
<1>11. H \notin wire'
  BY <1>1, <1>6
<1>12. Own(T, Latest) = T /\ request_buffer \cup T = T
  BY <1>1, <1>3 DEF Own
<1> HIDE DEF H, E
<1>13. wire' \subseteq wire /\ (\A x \in T : x.req = Latest)
  BY <1>1, <1>3
<1> QED
  BY <1>1, <1>2, <1>4, <1>6, <1>7, <1>8, <1>9, <1>10, <1>11, <1>12, <1>13 DEF H, E

\* ... and what it sends: an interim response at most.
LEMMA ReadingSends ==
  ASSUME IInv, Regular, NEW T, Recv(T)
  PROVE  /\ is_started' = is_started /\ is_started /\ irregular' = irregular /\ writable' = writable /\ ~expired'
         /\ Outstanding' /\ (replies' # <<>> => LastReply'.kind # "part")
         /\ InOrder' /\ Notices /\ Latest \in DOMAIN asked /\ Latest \in Nat \ {0}
<1>1. /\ is_started' = is_started /\ is_started /\ irregular' = irregular /\ writable' = writable /\ asked' = asked
      /\ expired' = FALSE
  BY DEF Recv, InEvent
<1>2. Reading /\ InOrder /\ Latest' = Latest /\ wire' \subseteq wire
  BY ReadingRecv
<1>3. Outstanding /\ (replies # <<>> => LastReply.kind # "part" /\ LastReply.req \in 1..Latest)
  BY <1>2 DEF Reading, InOrder
<1>4. Latest \in DOMAIN asked /\ Latest \in Nat \ {0}
  BY <1>3, OutstandingLast DEF IInv
<1>5. replies \in Seq(Replies)
  BY Kept DEF IInv
<1>6. replies' = replies \/ replies' = Append(replies, Reply(Latest, "interim"))
  BY DEF Recv, Sends, Latest
<1>7. CASE replies' = replies
  <2>1. Outstanding' /\ LastReply' = LastReply
    BY <1>1, <1>3, <1>7 DEF Outstanding, LastReply
  <2>2. InOrder'
    BY <1>1, <1>2, <1>7, <2>1 DEF InOrder
  <2> QED
    BY <1>1, <1>3, <1>4, <1>7, <2>1, <2>2 DEF Notices
<1>8. CASE replies' = Append(replies, Reply(Latest, "interim"))
  <2>1. LastReply' = Reply(Latest, "interim")
    BY <1>5, <1>8 DEF LastReply
  <2>2. LastReply'.kind = "interim" /\ LastReply'.req = Latest
    BY <2>1 DEF Reply
  <2>3. Outstanding'
    BY <1>1, <1>3, <2>2 DEF Outstanding, LastReply
  <2>4. InOrder'
    BY <1>1, <1>2, <1>4, <2>2 DEF InOrder
  <2>5. Notices
    BY <1>1, <1>3, <1>8 DEF Notices
  <2> QED
    BY <1>1, <1>4, <2>2, <2>3, <2>4, <2>5
<1> QED
  BY <1>6, <1>7, <1>8

\* Nothing becomes of no handlers.
LEMMA NoneLeft ==
  /\ Deleted({}) = {}
  /\ {[h EXCEPT !.pending = FALSE] : h \in {}} = {}
BY DEF Deleted

\* A complete request gets its response or its CGI.
LEMMA AcceptedGood ==
  ASSUME IInv, Regular, NEW T, Recv(T), Accepted(parser'),
         parser'.req = Latest, parser'.state = "DONE",
         wire' = {}, request_buffer' = {}, left' = 0
  PROVE  Good
<1> DEFINE p == parser'
<1>1. NoAnswerYet /\ Latest' = Latest /\ PendingCgi = {}
  BY ReadingRecv DEF Reading, NoAnswerYet, PendingCgi
<1>2. /\ is_started' /\ Outstanding' /\ InOrder' /\ Notices /\ Latest \in Nat \ {0}
  BY ReadingSends
<1>3. InProcess'
  BY <1>1, <1>2 DEF InProcess, AllRead
<1>4. pc' # "dead"
  BY DEF Accepted, AfterIn
<1>5. ASSUME handlers' = {}, ~waitingForCGI', NEW s \in Nat, response_buffer' = [req |-> Latest, size |-> s]
      PROVE  Answering'
  <2>1. response_buffer' # NoResponse /\ response_buffer'.req = Latest
    BY <1>2, <1>5 DEF NoResponse
  <2> QED
    BY <1>1, <1>3, <1>5, <2>1 DEF Answering
<1>6. CASE NormalRequest(p)
  <2>1. PICK s \in Size(p) : response_buffer' = [req |-> Latest, size |-> s]
    BY <1>6 DEF NormalRequest
  <2>2. s \in Nat
    BY DEF Size
  <2>3. handlers' = {} /\ ~waitingForCGI'
    BY <1>1, <1>6, NoneLeft DEF NormalRequest, NoAnswerYet
  <2> QED
    BY <1>2, <1>4, <1>5, <2>1, <2>2, <2>3, PhaseGood DEF Phase
<1>7. CASE CgiRefused(p) \/ CgiFails(p)
  <2>1. response_buffer' = [req |-> Latest, size |-> 1]
    BY <1>7 DEF CgiRefused, CgiFails, ErrorPage
  <2>2. handlers' = {} /\ ~waitingForCGI'
    BY <1>1, <1>7, NoneLeft DEF CgiRefused, CgiFails, NoAnswerYet
  <2> QED
    BY <1>2, <1>4, <1>5, <2>1, <2>2, PhaseGood DEF Phase
<1>8. CASE CgiStarts(p)
  <2>1. Scripted'
    BY <1>1, <1>3, <1>8, NoneLeft DEF CgiStarts, Scripted, NoAnswerYet, Builder
  <2> QED
    BY <1>2, <1>4, <2>1, PhaseGood DEF Phase
<1> QED
  BY <1>6, <1>7, <1>8 DEF Accepted

\* A request that the parser rejects gets an error page, or is for a script.
LEMMA RejectedGood ==
  ASSUME IInv, Regular, NEW T, Recv(T), Rejected(parser'),
         parser'.req = Latest, parser'.state = "ERROR", asked[Latest].bad # "no"
  PROVE  Good
<1> DEFINE p == parser'
<1>1. NoAnswerYet /\ writable /\ Latest' = Latest /\ asked' = asked
  BY ReadingRecv DEF Reading
<1>2. is_started' /\ Outstanding' /\ InOrder' /\ Notices /\ ~expired' /\ Latest \in DOMAIN asked
  BY ReadingSends
<1>3. CASE NormalRequest(p) /\ AfterIn
  <2>1. response_buffer' = [req |-> Latest, size |-> 1]
    BY <1>3 DEF NormalRequest, Size
  <2>2. handlers' = {} /\ ~waitingForCGI' /\ pc' = "out"
    BY <1>1, <1>3, NoneLeft DEF NormalRequest, NoAnswerYet, AfterIn
  <2>3. Refused'
    BY <1>1, <1>2, <2>1, <2>2 DEF Refused
  <2> QED
    BY <1>2, <2>2, <2>3, PhaseGood DEF Phase
<1>4. CASE /\ asked'[Latest].cgi /\ asked'[Latest].bad # "line" /\ pc' = "dead"
  <2>1. asked[Latest] \in Request
    BY <1>2 DEF IInv, Always, Types
  <2>2. asked[Latest].bad \in {"header", "location"}
    BY <1>1, <1>4, <2>1 DEF Request
  <2>3. DiesOnlyOfBadScript'
    BY <1>1, <1>2, <1>4, <2>2 DEF DiesOnlyOfBadScript
  <2>4. ~Regular'
    BY <1>4 DEF Regular
  <2> QED
    BY <1>2, <2>3, <2>4 DEF Good, InPhase, Reason
<1>5. ~(responseBuilder # 0)
  BY <1>1 DEF NoAnswerYet
<1> QED
  BY <1>1, <1>3, <1>4, <1>5 DEF Rejected

\* A read goes on with the request being read, accepts it or rejects it.
LEMMA ReadGood ==
  ASSUME IInv, Regular, NEW T, Read(T)
  PROVE  Good
<1> DEFINE H == Part(Latest, "head")
<1>1. Recv(T)
  BY DEF Read, ReadBody, ReadBodyEnd, ReadNoHead, ReadHead, ReadRequest, ReadBadHead, ReadGarbage
<1>2. /\ Reading /\ Latest' = Latest /\ asked' = asked /\ request_buffer \cup T = T /\ Own(T, Latest) = T
      /\ (H \in wire => H \in T) /\ H \notin wire'
      /\ (Part(Latest, "end") \in T => wire' = {} /\ left' = 0)
      /\ (asked[Latest].body = "none" => wire' = {} /\ left' = 0)
      /\ (\A m \in DOMAIN asked : First(T, m) => m = Latest)
      /\ ((\E x \in T : x.part = "head") => H \in T)
      /\ wire' \subseteq wire
  BY <1>1, ReadingRecv
<1>3. /\ is_started' /\ Outstanding' /\ (replies' # <<>> => LastReply'.kind # "part")
      /\ InOrder' /\ Notices /\ writable'
  BY <1>1, <1>2, ReadingSends DEF Reading
<1>4. H.part = "head"
  BY DEF Part
<1>5. H \notin wire => InBody
  BY <1>2 DEF Reading, InBody, NoAnswerYet
<1>6. InBody => parser.req = Latest /\ asked[Latest].body # "none" /\ asked[Latest].bad = "no" /\ parser \in AParser
  BY <1>2, Kept DEF Reading, InBody, NoParser, IInv
<1>7. T \ T = {}
  OBVIOUS
<1> HIDE DEF H
\* The body, or the head, is not the whole of the request.
<1>8. ASSUME parser'.req = Latest, parser'.state = "BODY", request_buffer' = {}, UNCHANGED response, AfterIn,
             asked[Latest].body # "none", asked[Latest].bad = "no"
      PROVE  Good
  <2>1. left' = left
    BY <1>1 DEF Recv
  <2>2. NoAnswerYet'
    BY <1>2, <1>8 DEF Reading, NoAnswerYet, response
  <2>3. Part(Latest, "end") \in wire' => left' = 0
    BY <1>2, <2>1 DEF Reading
  <2>4. Reading'
    BY <1>2, <1>3, <1>8, <2>2, <2>3 DEF Reading, H
  <2>5. pc' # "dead"
    BY <1>8 DEF AfterIn
  <2> QED
    BY <1>3, <2>4, <2>5, PhaseGood DEF Phase
<1>9. CASE ReadBody(T)
  <2>1. parser' = [parser EXCEPT !.known = TRUE] /\ InBody /\ request_buffer' = T \ Own(T, parser.req)
        /\ AfterIn /\ UNCHANGED response
    BY <1>2, <1>9 DEF ReadBody
  <2>2. parser'.req = Latest /\ parser'.state = "BODY"
    BY <1>6, <2>1 DEF AParser, InBody
  <2> QED
    BY <1>2, <1>6, <1>7, <1>8, <2>1, <2>2
<1>10. CASE ReadBodyEnd(T)
  <2>1. parser' = [parser EXCEPT !.known = TRUE, !.state = "DONE"] /\ InBody /\ request_buffer' = T \ Own(T, parser.req)
        /\ Accepted(parser') /\ Part(parser.req, "end") \in T
    BY <1>2, <1>10 DEF ReadBodyEnd, Ends
  <2>2. parser'.req = Latest /\ parser'.state = "DONE"
    BY <1>6, <2>1 DEF AParser
  <2> QED
    BY <1>1, <1>2, <1>6, <1>7, <2>1, <2>2, AcceptedGood
<1>11. CASE ReadNoHead(T)
  BY <1>2, <1>4, <1>5, <1>11 DEF ReadNoHead
<1>12. CASE ReadHead(T)
  <2>1. PICK m \in DOMAIN asked :
          /\ First(T, m) /\ asked[m].bad = "no" /\ asked[m].body # "none"
          /\ request_buffer' = T \ Own(T, m) /\ UNCHANGED response /\ AfterIn
          /\ parser' = [req |-> m, state |-> "BODY", known |-> Part(m, "body") \in T]
    BY <1>2, <1>12 DEF ReadHead
  <2>2. m = Latest
    BY <1>2, <2>1
  <2>3. parser'.req = Latest /\ parser'.state = "BODY"
    BY <2>1, <2>2
  <2> QED
    BY <1>2, <1>7, <1>8, <2>1, <2>2, <2>3
<1>13. CASE ReadRequest(T)
  <2>1. PICK m \in DOMAIN asked :
          /\ First(T, m) /\ (asked[m].body = "none" \/ Part(m, "end") \in T)
          /\ request_buffer' = T \ Own(T, m) /\ Accepted(parser')
          /\ parser' = [req |-> m, state |-> "DONE", known |-> asked[m].body # "none"]
    BY <1>2, <1>13 DEF ReadRequest, Ends
  <2>2. m = Latest
    BY <1>2, <2>1
  <2>3. parser'.req = Latest /\ parser'.state = "DONE"
    BY <2>1, <2>2
  <2> QED
    BY <1>1, <1>2, <1>7, <2>1, <2>2, <2>3, AcceptedGood
<1>14. CASE ReadBadHead(T)
  <2>1. PICK m \in DOMAIN asked :
          /\ First(T, m) /\ asked[m].bad # "no" /\ Rejected(parser')
          /\ \/ parser' = [req |-> m, state |-> "ERROR", known |-> Part(m, "body") \in T]
             \/ parser' = [req |-> m, state |-> "ERROR", known |-> FALSE]
    BY <1>2, <1>14 DEF ReadBadHead
  <2>2. m = Latest
    BY <1>2, <2>1
  <2>3. parser'.req = Latest /\ parser'.state = "ERROR"
    BY <2>1, <2>2
  <2> QED
    BY <1>1, <2>1, <2>2, <2>3, RejectedGood
<1>15. CASE ReadGarbage(T)
  <2>1. PICK m \in DOMAIN asked : First(T, m) /\ Part(m, "head") \notin T /\ \E x \in T : x.part = "head"
    BY <1>2, <1>15 DEF ReadGarbage
  <2> QED
    BY <1>2, <2>1 DEF H
<1> QED
  BY <1>9, <1>10, <1>11, <1>12, <1>13, <1>14, <1>15 DEF Read
-----------------------------------------------------------------------------
\* The event ends without a byte read.
LEMMA InGood ==
  ASSUME IInv, Regular, TooLarge \/ ConfigMissing \/ PeerGone
  PROVE  Good
<1>1. is_started /\ pc = "loop" /\ (wire # {} \/ gone)
  BY DEF TooLarge, ConfigMissing, PeerGone, InEvent
<1>2. Phase /\ InOrder /\ DOMAIN asked = 1..Latest /\ Latest \in Nat
  BY <1>1, Phases
<1>3. gone \in BOOLEAN
  BY DEF IInv, Always, Flags
<1>4. CASE TooLarge
  <2>1. /\ Terminate /\ UNCHANGED <<asked, left, wire, gone, irregular>> /\ Sends(Reply(parser.req, "final"))
        /\ parser # NoParser /\ asked[parser.req].body = "large"
    BY <1>4 DEF TooLarge, peer, OverLimit
  <2>2. parser.req \in 1..Latest
    BY <1>2, <2>1, Kept DEF AParser, IInv
  <2>3. parser.req = Latest
    BY <1>2, <2>1, <2>2 DEF InOrder
  <2>4. Reply(parser.req, "final") \in Replies /\ Reply(Latest, "final").kind = "final" /\ Reply(Latest, "final").req = Latest
    BY <2>2 DEF Reply, Replies
  <2>5. ~is_started' /\ Latest' = Latest /\ asked' = asked
    BY <2>1 DEF Terminate, Latest
  <2>6. CASE gone
    <3>1. replies' = replies
      BY <2>1, <2>6 DEF Sends
    <3>2. Notices /\ Reason /\ LastReply' = LastReply
      BY <1>1, <2>5, <2>6, <3>1 DEF Notices, Reason, LastReply
    <3> QED
      BY <1>1, <1>2, <2>1, <3>1, <3>2, EndGood DEF InOrder
  <2>7. CASE ~gone
    <3>1. Reading
      BY <1>1, <2>7, WhileReading
    <3>2. replies' = Append(replies, Reply(Latest, "final")) /\ LastReply' = Reply(Latest, "final") /\ replies' # replies
          /\ replies' # <<>>
      BY <2>1, <2>3, <2>4, <2>7, Answer DEF Sends, IInv
    <3>3. ~Outstanding'
      BY <2>4, <2>5, <3>2 DEF Outstanding, LastReply, Latest
    <3>4. Notices
      BY <1>1, <2>5, <3>1, <3>2 DEF Notices, Reading
    <3>5. Reason
      BY <2>1, <2>3, <3>2, <3>3 DEF Reason
    <3>6. LastReply'.req \in 1..Latest
      BY <2>2, <2>3, <2>4, <3>2
    <3> QED
      BY <1>1, <2>1, <3>4, <3>5, <3>6, EndGood
  <2> QED
    BY <2>6, <2>7
<1>5. CASE PeerGone
  <2>1. Terminate /\ UNCHANGED <<asked, left, wire, irregular, replies>> /\ gone
    BY <1>1, <1>5 DEF PeerGone, peer
  <2>2. Notices /\ Reason /\ LastReply' = LastReply
    BY <1>1, <2>1 DEF Notices, Reason, LastReply, Terminate
  <2> QED
    BY <1>1, <1>2, <2>1, <2>2, EndGood DEF InOrder
<1>6. CASE ConfigMissing
  <2>1. parser.state = "ERROR"
    BY <1>6 DEF ConfigMissing
  <2> QED
    BY <1>1, <1>2, <2>1 DEF Phase, Idle, Reading, Scripted, Answering, Refused, InProcess, NoParser
<1> QED
  BY <1>4, <1>5, <1>6

\* The CGI's response, or 504 in its place.
LEMMA ScriptEnds ==
  ASSUME IInv, Regular, Scripted, handlers' = {}, ~waitingForCGI', pc' # "dead",
         NEW s \in Nat, response_buffer' = [req |-> Latest, size |-> s],
         UNCHANGED <<asked, left, wire, replies, is_started, request_buffer, parser>>
  PROVE  Good
<1>1. Latest' = Latest /\ LastReply' = LastReply /\ (Outstanding' <=> Outstanding)
  BY DEF Latest, LastReply, Outstanding
<1>2. Outstanding /\ Latest \in Nat \ {0}
  BY OutstandingLast DEF Scripted, InProcess, IInv
<1>3. response_buffer' # NoResponse /\ response_buffer'.req = Latest
  BY <1>2 DEF NoResponse
<1>4. Answering'
  BY <1>1, <1>3 DEF Answering, Scripted, InProcess, AllRead
<1>5. is_started
  BY DEF IInv, Always, PendingKnown, Scripted
<1>6. InOrder'
  BY <1>1, <1>5, Phases DEF InOrder
<1> QED
  BY <1>4, <1>5, <1>6, PhaseGood DEF Phase, Notices

\* The only CGI is that of the last request.
LEMMA CgiGood ==
  ASSUME IInv, Regular, NEW h \in handlers, CgiCompletes(h) \/ CgiWritesToDeleted(h)
  PROVE  Good
<1>1. is_started
  BY DEF IInv, InPhase
<1>2. Scripted
  BY <1>1, Phases DEF Phase, Idle, Reading, Answering, Refused, NoAnswerYet
<1>3. h = [req |-> Latest, pending |-> TRUE, live |-> TRUE]
  BY <1>2 DEF Scripted
<1>4. h.live /\ h.pending /\ h.req = Latest
  BY <1>3
<1>5. CgiCompletes(h)
  BY <1>4 DEF CgiWritesToDeleted
<1>6. PICK s \in {1, 2} : response_buffer' = [req |-> Latest, size |-> s]
  BY <1>4, <1>5 DEF CgiCompletes
<1>7. handlers' = {} /\ ~waitingForCGI' /\ pc' # "dead"
      /\ UNCHANGED <<asked, left, wire, replies, is_started, request_buffer, parser>>
  BY <1>2, <1>3, <1>4, <1>5 DEF CgiCompletes, Scripted, peer
<1> QED
  BY <1>2, <1>6, <1>7, ScriptEnds

\* The response, or the last part of it, is sent.
LEMMA SendAllGood ==
  ASSUME IInv, Regular, SendAll
  PROVE  Good
<1>1. is_started
  BY DEF SendAll, Responding, IInv, Always, Unused
<1>2. Phase /\ InOrder
  BY <1>1, Phases
<1>3. Answering \/ Refused
  BY <1>2 DEF SendAll, Responding, Phase, Idle, Reading, Scripted, NoAnswerYet
<1>4. response_buffer.req = Latest /\ handlers = {} /\ ~waitingForCGI /\ Outstanding /\ parser.req = Latest
  BY <1>3 DEF Answering, Refused, InProcess
<1>5. Latest \in Nat \ {0}
  BY <1>4, OutstandingLast DEF IInv
<1>6. Sends(Reply(Latest, "final")) /\ FinalizeResponse /\ UNCHANGED <<asked, left, wire, gone, irregular>>
  BY <1>4 DEF SendAll, peer
<1>7. Latest' = Latest /\ gone \in BOOLEAN
  BY <1>6 DEF Latest, IInv, Always, Flags
<1>8. Reply(Latest, "final") \in Replies /\ Reply(Latest, "final").kind = "final" /\ Reply(Latest, "final").req = Latest
  BY <1>5 DEF Reply, Replies
<1>9. ~gone => /\ replies' = Append(replies, Reply(Latest, "final")) /\ LastReply' = Reply(Latest, "final")
               /\ replies' # replies /\ replies' # <<>>
  BY <1>6, <1>8, Answer DEF Sends, IInv
<1>10. gone => replies' = replies /\ LastReply' = LastReply
  BY <1>6 DEF Sends, LastReply
<1>11. ~gone => ~Outstanding'
  BY <1>6, <1>7, <1>8, <1>9 DEF Outstanding, LastReply, Latest
<1>12. replies' # <<>> => LastReply'.req \in 1..Latest
  BY <1>2, <1>5, <1>7, <1>8, <1>9, <1>10 DEF InOrder
<1>13. Notices
  <2>1. is_started' \in BOOLEAN /\ (~is_started' => is_started' = FALSE) /\ (is_started' => is_started' = is_started)
    BY <1>1, <1>6 DEF FinalizeResponse, Terminate, IInv, Always, Flags
  <2> QED
    BY <1>1, <1>4, <1>6, <1>7, <1>9, <1>10, <2>1 DEF Notices
<1>14. CASE ~KeepAlive /\ Terminate
  <2>1. asked[Latest].close \/ asked[Latest].bad # "no"
    <3>1. CASE Answering
      BY <1>4, <1>14, <3>1 DEF KeepAlive, Answering, InProcess, NoParser
    <3>2. CASE Refused
      BY <3>2 DEF Refused
    <3> QED
      BY <1>3, <3>1, <3>2
  <2>2. Reason
    BY <1>7, <1>9, <1>11, <2>1 DEF Reason
  <2> QED
    BY <1>1, <1>6, <1>12, <1>13, <1>14, <2>2, EndGood
<1>15. CASE KeepAlive
  <2>1. /\ response_buffer' = NoResponse /\ responseBuilder' = 0 /\ handlers' = Deleted(handlers) /\ pc' = "loop"
        /\ UNCHANGED <<is_started, parser, request_buffer, waitingForCGI>>
    BY <1>6, <1>15 DEF FinalizeResponse
  <2>2. Answering
    BY <1>3, <1>15 DEF KeepAlive, Refused
  <2>3. Idle'
    BY <1>4, <1>6, <1>7, <1>11, <2>1, <2>2, NoneLeft DEF Idle, Answering, InProcess, NoAnswerYet, AllRead
  <2>4. InOrder'
    BY <1>2, <1>6, <1>7, <1>12 DEF InOrder
  <2> QED
    BY <1>1, <1>13, <2>1, <2>3, <2>4, PhaseGood DEF Phase
<1> QED
  BY <1>6, <1>14, <1>15 DEF FinalizeResponse

\* What the second half of onEvent does.
LEMMA OutGood ==
  ASSUME IInv, Regular, Out
  PROVE  Good
<1>1. is_started
  BY DEF Out, CgiTimesOut, NothingToSend, TimesOut, SendFails, SendPart, SendAll, Responding, OutEvent,
         IInv, Always, Unused
<1>2. Phase /\ InOrder
  BY <1>1, Phases
<1>3. CASE CgiTimesOut
  <2>1. Scripted
    BY <1>2, <1>3 DEF CgiTimesOut, Waiting, Phase, Idle, Reading, Answering, Refused, NoAnswerYet
  <2>2. PendingCgi = handlers /\ \A h \in handlers : h.req = Latest
    BY <2>1 DEF Scripted, PendingCgi
  <2>3. handlers' = {} /\ ~waitingForCGI' /\ pc' # "dead" /\ response_buffer' = [req |-> Latest, size |-> 1]
        /\ UNCHANGED <<asked, left, wire, replies, is_started, request_buffer, parser>>
    BY <1>3, <2>2 DEF CgiTimesOut, peer
  <2> QED
    BY <2>1, <2>3, ScriptEnds
<1>4. CASE NothingToSend
  <2>1. /\ pc = "out" /\ response_buffer = NoResponse /\ pc' = "loop"
        /\ UNCHANGED <<asked, left, wire, gone, irregular, replies, writable, expired, is_started, request_buffer,
                       parser, responseBuilder, response_buffer, handlers, waitingForCGI>>
    BY <1>4 DEF NothingToSend, peer, response
  <2>2. Latest' = Latest /\ LastReply' = LastReply /\ (Outstanding' <=> Outstanding)
    BY <2>1 DEF Latest, LastReply, Outstanding
  <2>3. Reading \/ Scripted
    BY <1>2, <2>1 DEF Phase, Idle, Answering, Refused, NoResponse
  <2>4. Reading' \/ Scripted'
    BY <2>1, <2>2, <2>3 DEF Reading, Scripted, InProcess, NoAnswerYet, AllRead
  <2>5. InOrder'
    BY <1>2, <2>1, <2>2 DEF InOrder
  <2> QED
    BY <1>1, <2>1, <2>4, <2>5, PhaseGood DEF Phase, Notices
<1>5. CASE TimesOut \/ SendFails
  <2>1. Terminate /\ UNCHANGED <<asked, left, wire, irregular, replies>> /\ (gone \/ expired)
    BY <1>5 DEF TimesOut, SendFails, peer
  <2>2. Notices /\ Reason /\ LastReply' = LastReply
    BY <1>1, <2>1 DEF Notices, Reason, LastReply, Terminate
  <2> QED
    BY <1>1, <1>2, <2>1, <2>2, EndGood DEF InOrder
<1>6. CASE SendPart
  <2>1. /\ response_buffer # NoResponse /\ response_buffer.size > 1
        /\ Sends(Reply(response_buffer.req, "part")) /\ response_buffer' = [response_buffer EXCEPT !.size = @ - 1]
        /\ pc' = "loop"
        /\ UNCHANGED <<asked, left, wire, gone, is_started, request_buffer, parser, handlers, waitingForCGI>>
    BY <1>6 DEF SendPart, Responding, peer
  <2>2. Answering
    BY <1>2, <2>1 DEF Phase, Idle, Reading, Scripted, Refused, NoAnswerYet
  <2>3. response_buffer \in AResponse /\ response_buffer.req = Latest /\ Outstanding /\ Latest \in Nat \ {0}
    BY <2>1, <2>2, Kept, OutstandingLast DEF Answering, InProcess, IInv
  <2>4. response_buffer'.req = Latest /\ response_buffer' # NoResponse
    BY <2>1, <2>3 DEF AResponse, NoResponse
  <2>5. Reply(Latest, "part") \in Replies /\ Reply(Latest, "part").kind = "part" /\ Reply(Latest, "part").req = Latest
    BY <2>3 DEF Reply, Replies
  <2>6. ~gone => replies' = Append(replies, Reply(Latest, "part")) /\ LastReply' = Reply(Latest, "part") /\ replies' # <<>>
    BY <2>1, <2>3, <2>5, Answer DEF Sends, IInv
  <2>7. gone => replies' = replies /\ LastReply' = LastReply
    BY <2>1 DEF Sends, LastReply
  <2>8. Latest' = Latest /\ gone \in BOOLEAN
    BY <2>1 DEF Latest, IInv, Always, Flags
  <2>9. Outstanding'
    BY <2>1, <2>3, <2>5, <2>6, <2>7, <2>8 DEF Outstanding, LastReply
  <2>10. Answering'
    BY <2>1, <2>2, <2>4, <2>8, <2>9 DEF Answering, InProcess, AllRead
  <2>11. InOrder'
    BY <1>2, <2>1, <2>3, <2>5, <2>6, <2>7, <2>8 DEF InOrder
  <2>12. Notices
    BY <1>1, <2>1, <2>3, <2>6, <2>7, <2>8 DEF Notices
  <2> QED
    BY <1>1, <2>1, <2>10, <2>11, <2>12, PhaseGood DEF Phase
<1>7. CASE SendAll
  BY <1>7, SendAllGood
<1> QED
  BY <1>3, <1>4, <1>5, <1>6, <1>7 DEF Out

\* Every step of a connection whose peer waits.
LEMMA RegularGood ==
  ASSUME IInv, Regular, [Next]_vars
  PROVE  Good
<1>1. CASE Peer
  <2>1. Accept => Good
    BY AcceptGood DEF IInv
  <2>2. Expire => is_started
    BY DEF Expire, IInv, Always, Unused
  <2>3. LeavePeer \/ Drain => is_started
    BY DEF LeavePeer, Drain
  <2> QED
    BY <1>1, <2>1, <2>2, <2>3, AskGood, SendRestGood, PeerGood DEF Peer
<1>2. CASE In
  BY <1>2, InGood, ReadGood DEF In
<1>3. CASE Out
  BY <1>3, OutGood
<1>4. CASE Cgi
  BY <1>4, CgiGood DEF Cgi
<1>5. CASE UNCHANGED vars
  <2>1. UNCHANGED <<asked, left, wire, gone, irregular, replies, writable, expired, is_started, request_buffer,
                    parser, responseBuilder, response_buffer, handlers, waitingForCGI, pc>>
    BY <1>5 DEF vars, peer, response
  <2>2. Latest' = Latest /\ LastReply' = LastReply /\ (Outstanding' <=> Outstanding)
    BY <2>1 DEF Latest, LastReply, Outstanding
  <2>3. InPhase'
    BY <2>1, <2>2 DEF IInv, InPhase, Regular, Idle, Reading, Scripted, Answering, Refused, InProcess, NoAnswerYet, AllRead
  <2>4. DiesOnlyOfBadScript'
    BY <2>1 DEF IInv, DiesOnlyOfBadScript
  <2> QED
    BY <2>1, <2>3, <2>4 DEF Good, Notices, Reason
<1> QED
  BY <1>1, <1>2, <1>3, <1>4, <1>5 DEF Next, Exited

-----------------------------------------------------------------------------
(* A peer that does not wait, or a process that does not live.              *)
\* A dead process does nothing.
LEMMA Dead ==
  ASSUME pc = "dead", [Next]_vars
  PROVE  UNCHANGED <<asked, irregular, parser, is_started, pc>>
BY DEF Next, Exited, vars, peer, Peer, Accept, Ask, SendRest, LeavePeer, Drain, Expire, In, TooLarge, ConfigMissing,
   PeerGone, Read, ReadBody, ReadBodyEnd, ReadNoHead, ReadHead, ReadRequest, ReadBadHead, ReadGarbage, Recv, InEvent,
   Out, CgiTimesOut, NothingToSend, TimesOut, SendFails, SendPart, SendAll, Responding, OutEvent,
   Cgi, CgiCompletes, CgiWritesToDeleted

\* Out of the bargain until the next connection.
LEMMA StaysOut ==
  ASSUME IInv, ~Regular, [Next]_vars, ~Accept
  PROVE  ~Regular' /\ DiesOnlyOfBadScript'
<1>1. CASE pc = "dead"
  <2>1. UNCHANGED <<asked, irregular, parser, is_started, pc>>
    BY <1>1, Dead
  <2> QED
    BY <1>1, <2>1 DEF IInv, DiesOnlyOfBadScript, Regular
<1>2. CASE irregular
  <2>1. irregular'
    BY <1>2 DEF Next, Exited, vars, peer, Peer, Ask, SendRest, LeavePeer, Drain, Expire, In, TooLarge, ConfigMissing,
       PeerGone, Read, ReadBody, ReadBodyEnd, ReadNoHead, ReadHead, ReadRequest, ReadBadHead, ReadGarbage, Recv,
       Out, CgiTimesOut, NothingToSend, TimesOut, SendFails, SendPart, SendAll,
       Cgi, CgiCompletes, CgiWritesToDeleted
  <2> QED
    BY <2>1 DEF DiesOnlyOfBadScript, Regular
<1> QED
  BY <1>1, <1>2 DEF Regular

\* The inductive invariant is one.
LEMMA StepInvariant == IInv /\ [Next]_vars => IInv'
<1> SUFFICES ASSUME IInv, [Next]_vars PROVE IInv'
  OBVIOUS
<1>1. Always'
  BY StepAlways DEF IInv
<1>2. CASE Regular
  BY <1>1, <1>2, RegularGood DEF IInv, Good
<1>3. CASE Accept
  BY <1>1, <1>3, AcceptGood DEF IInv, Good
<1>4. CASE ~Regular /\ ~Accept
  BY <1>1, <1>4, StaysOut DEF IInv, InPhase
<1> QED
  BY <1>2, <1>3, <1>4

\* The object keeps its shape, a connection whose peer waits is in one of its
\* phases (between requests, reading one, running its CGI, sending its
\* response, sending an error page), and only a script's bad request kills.
THEOREM Invariance == Spec => []IInv
<1>1. Init => IInv
  BY InitInvariant
<1>2. IInv /\ [Next]_vars => IInv'
  BY StepInvariant
<1> QED
  BY <1>1, <1>2, PTL DEF Spec

\* Every variable stays within its type; there is one pending CGI at most.
THEOREM TypeCorrect == Spec => []TypeOK
<1>1. IInv => TypeOK
  <2> SUFFICES ASSUME IInv PROVE TypeOK
    OBVIOUS
  <2>1. AsAgreed /\ left \in 0..2
    BY DEF IInv, Always, Types, Lefts
  <2>2. \A x \in wire \cup request_buffer : x.req \in DOMAIN asked /\ x.part \in DOMAIN Rank
    BY Kept DEF IInv, Parts, Rank
  <2>3. Flags
    BY DEF IInv, Always
  <2>4. parser = NoParser \/ /\ parser.req \in DOMAIN asked
                             /\ parser.state \in {"BODY", "DONE", "ERROR"}
                             /\ parser.known \in BOOLEAN
    BY Kept DEF IInv, AParser
  <2>5. response_buffer = NoResponse \/ /\ response_buffer.req \in DOMAIN asked
                                        /\ response_buffer.size \in {1, 2}
    BY Kept DEF IInv, AResponse
  <2>6. responseBuilder \in 0..Len(asked) /\ handlers \subseteq Handler /\ pc \in {"loop", "out", "dead"}
    BY DEF IInv, Always, Types, Latest
  <2>7. Cardinality(PendingCgi) <= 1
    <3>1. \A g, h \in PendingCgi : g = h
      BY DEF IInv, Always, PendingKnown, PendingCgi
    <3>2. CASE PendingCgi = {}
      <4>1. Cardinality(PendingCgi) = 0
        BY <3>2, FS_EmptySet
      <4> QED
        BY <4>1
    <3>3. CASE PendingCgi # {}
      <4>1. PICK h \in PendingCgi : PendingCgi = {h}
        BY <3>1, <3>3
      <4>2. Cardinality({h}) = 1
        BY FS_Singleton
      <4>3. Cardinality(PendingCgi) = 1
        BY <4>1, <4>2
      <4> QED
        BY <4>3
    <3> QED
      BY <3>2, <3>3
  <2> QED
    BY <2>1, <2>2, <2>3, <2>4, <2>5, <2>6, <2>7 DEF TypeOK, AsAgreed, Flags, Handler
<1> QED
  BY <1>1, Invariance, PTL

\* While a peer that waits has a CGI running, the CGI, the builder and the
\* parser are those of one request, and nothing else is under way
\* (processCGIRequest, onCGIComplete, readIncomingData).
THEOREM OneAtATimeHolds == Spec => []OneAtATime
<1>1. IInv => OneAtATime
  <2> SUFFICES ASSUME IInv, Regular PROVE
        /\ handlers = PendingCgi
        /\ waitingForCGI <=> handlers # {}
        /\ \A h \in handlers : /\ h.live /\ h.req = Len(asked) /\ responseBuilder = h.req
                               /\ parser.req = h.req /\ response_buffer = NoResponse
                               /\ wire = {} /\ request_buffer = {}
        /\ response_buffer # NoResponse => Outstanding /\ response_buffer.req = Len(asked)
    BY DEF OneAtATime, Regular
  <2>1. CASE ~is_started
    BY <2>1 DEF IInv, InPhase, Always, Unused, PendingCgi
  <2>2. CASE is_started
    <3>1. Phase
      BY <2>2, Phases
    <3>2. CASE Scripted
      BY <3>2 DEF Scripted, InProcess, AllRead, PendingCgi, Latest
    <3>3. CASE ~Scripted
      BY <3>1, <3>3 DEF Phase, Idle, Reading, Answering, Refused, InProcess, NoAnswerYet, PendingCgi, Latest
    <3> QED
      BY <3>2, <3>3
  <2> QED
    BY <2>1, <2>2
<1> QED
  BY <1>1, Invariance, PTL

\* The process dies only of a script's request that the parser rejects: no
\* other request of a peer that waits reaches a NULL location, a missing
\* config or a deleted response builder.
THEOREM DiesOnlyOfBadScriptHolds == Spec => []DiesOnlyOfBadScript
<1>1. IInv => DiesOnlyOfBadScript
  BY DEF IInv
<1> QED
  BY <1>1, Invariance, PTL

\* ClientServer::terminate runs only when the peer is gone or late, or when
\* the response to a last, too large or wrong request is complete.
THEOREM EndsForReasonHolds == Spec => EndsForReason
<1> DEFINE Ends1 == is_started /\ ~is_started' /\ ~irregular =>
                      \/ gone \/ expired
                      \/ /\ replies' # replies /\ ~Outstanding'
                         /\ LET r == asked[Len(asked)] IN r.close \/ r.body = "large" \/ r.bad # "no"
<1>1. IInv /\ [Next]_vars => Ends1
  <2> SUFFICES ASSUME IInv, [Next]_vars, is_started, ~is_started', ~irregular PROVE Reason
    BY DEF Reason, Latest
  <2>1. CASE Regular
    BY <2>1, RegularGood DEF Good
  <2>2. CASE ~Regular
    <3>1. pc = "dead"
      BY <2>2 DEF Regular
    <3>2. UNCHANGED <<irregular, is_started>>
      BY <3>1, Dead
    <3> QED
      BY <3>2 DEF IInv, Always, Flags
  <2> QED
    BY <2>1, <2>2
<1> QED
  BY <1>1, Invariance, PTL DEF Spec, EndsForReason
-----------------------------------------------------------------------------
(* What the connection promises.                                            *)

\* There is no promise any more.
LEMMA BreakStep ==
  ASSUME Broken'
  PROVE  Promise!Break
BY DEF Promise!Break, Broken

\* A new connection, whatever there was before.
LEMMA OpenStep ==
  ASSUME Accept, ~Broken'
  PROVE  Promise!Open
<1>1. ~is_started /\ is_started' /\ asked' = <<>> /\ replies' = <<>>
  BY DEF Accept
<1>2. Len(asked') = 0
  BY <1>1
<1> QED
  BY <1>1, <1>2 DEF Promise!Open

\* What a waiting peer can notice is what the promise allows.
LEMMA NoticedStep ==
  ASSUME IInv, ~Broken, ~Broken', Notices
  PROVE  Promise!Next \/ UNCHANGED Promise!avars
<1> USE DEF Broken
<1>1. Latest \in Nat /\ Latest' = Len(asked') /\ Latest = Len(asked) /\ asked \in Seq(Request) /\ replies \in Seq(Replies)
  BY Kept DEF Latest, IInv, Always, Types
<1>2. (replies # <<>> => LastReply.req \in 1..Latest) /\ (is_started => InOrder)
  BY Phases DEF IInv, InPhase, Regular
<1>3. Outstanding => Promise!Unanswered
  <2> SUFFICES ASSUME Outstanding PROVE Len(asked) > 0 /\ (replies = <<>> \/ replies[Len(replies)] # Reply(Len(asked), "final"))
    BY DEF Promise!Unanswered, Promise!Reply, Reply
  <2>1. Len(asked) > 0
    BY <1>1, OutstandingLast DEF IInv
  <2>2. replies # <<>> => LastReply.kind # "final" \/ LastReply.req < Latest
    BY OutstandingLast DEF IInv
  <2> QED
    BY <1>1, <2>1, <2>2 DEF LastReply, Reply
<1>4. ~Outstanding => ~Promise!Unanswered
  <2> SUFFICES ASSUME ~Outstanding, Len(asked) > 0,
                      replies = <<>> \/ replies[Len(replies)] # Reply(Len(asked), "final")
               PROVE  FALSE
    BY DEF Promise!Unanswered, Promise!Reply, Reply
  <2>1. asked # <<>>
    BY <1>1
  <2>2. replies # <<>> /\ LastReply.kind = "final" /\ ~(LastReply.req < Latest)
    BY <1>1, <2>1 DEF Outstanding, LastReply
  <2>3. LastReply \in Replies
    BY <1>1, <2>2 DEF LastReply
  <2>4. LastReply.req = Latest
    BY <1>1, <1>2, <2>2
  <2>5. LastReply = Reply(Latest, "final")
    BY <2>2, <2>3, <2>4 DEF Replies, Reply
  <2> QED
    BY <1>1, <2>2, <2>5 DEF LastReply
<1>5. (replies # <<>> => LastReply.kind # "part") => Promise!LastKind # "part"
  BY DEF Promise!LastKind, LastReply
<1>6. CASE UNCHANGED <<is_started, asked, replies>>
  BY <1>6 DEF Promise!avars
<1>7. CASE is_started /\ ~is_started' /\ UNCHANGED <<asked, replies>>
  BY <1>7 DEF Promise!Next, Promise!Close
<1>8. CASE ~is_started /\ is_started' /\ asked' = <<>> /\ replies' = <<>>
  <2>1. Len(asked') = 0
    BY <1>8
  <2> QED
    BY <1>8, <2>1 DEF Promise!Next, Promise!Open
<1>9. CASE is_started /\ is_started' /\ ~Outstanding /\ Latest' = Latest + 1 /\ replies' = replies
  BY <1>1, <1>4, <1>9 DEF Promise!Next, Promise!Ask
<1>10. CASE /\ is_started /\ is_started' /\ asked' = asked
            /\ Outstanding /\ (replies # <<>> => LastReply.kind # "part")
            /\ replies' = Append(replies, Reply(Latest, "interim"))
  BY <1>1, <1>3, <1>5, <1>10 DEF Promise!Next, Promise!Interim, Promise!Reply, Reply
<1>11. ASSUME is_started, asked' = asked, Outstanding, NEW kind \in {"part", "final"},
              replies' = Append(replies, Reply(Latest, kind)), is_started' \/ kind = "final"
       PROVE  Promise!Answer(kind)
  BY <1>1, <1>3, <1>11 DEF Promise!Answer, Promise!Reply, Reply
<1> QED
  BY <1>6, <1>7, <1>8, <1>9, <1>10, <1>11 DEF Notices, Promise!Next

\* The connection implements RequestReply: a peer that waits gets, for each
\* request and before it asks again, one response, whole, and at most interim
\* responses before it (onEvent, finalizeResponse, terminate).
THEOREM PromiseKept == Spec => KeepsPromise
<1>1. Init => Promise!Init
  BY DEF Init, Promise!Init, Broken
<1>2. IInv /\ [Next]_vars => [Promise!Next]_Promise!avars
  <2> SUFFICES ASSUME IInv, [Next]_vars PROVE Promise!Next \/ UNCHANGED Promise!avars
    OBVIOUS
  <2>1. CASE Broken'
    BY <2>1, BreakStep DEF Promise!Next
  <2>2. CASE Accept /\ ~Broken'
    BY <2>2, OpenStep DEF Promise!Next
  <2>3. CASE ~Broken' /\ ~Accept
    <3>1. Regular /\ Regular'
      BY <2>3, StaysOut DEF Regular, Broken
    <3>2. Notices
      BY <3>1, RegularGood DEF Good
    <3> QED
      BY <2>3, <3>1, <3>2, NoticedStep DEF Regular, Broken
  <2> QED
    BY <2>1, <2>2, <2>3
<1> QED
  BY <1>1, <1>2, Invariance, PTL DEF Spec, KeepsPromise, Promise!Spec
=============================================================================
