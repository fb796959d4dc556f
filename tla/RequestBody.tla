----------------------------- MODULE RequestBody -----------------------------
(***************************************************************************)
(* How the body of one request is put together from what recv() returns:   *)
(* RequestParser::parse_request, parse_body and parse_chunked_body on the  *)
(* buffer of ClientServer (readIncomingData, isParsingRequestBody,         *)
(* processRequestHeaders).                                                 *)
(*                                                                         *)
(* The peer sends one valid message; TCP may cut it anywhere.  Everything  *)
(* here is about the cuts: parser and buffer together have to give the     *)
(* same body for all of them.                                              *)
(*                                                                         *)
(* Abstractions: the request line and the headers are one symbol, which    *)
(* arrives whole; chunk sizes are written in binary, so that small ones    *)
(* have several digits too; the bytes of a body are all different.         *)
(***************************************************************************)
EXTENDS Integers, SequencesExt

CONSTANTS
  Bytes,               \* what a body consists of: one of n bytes is the first n
  Messages,            \* the messages a peer may send
  ClientMaxBodySize,   \* client_max_body_size
  ReadSize             \* RD_SIZE: symbols one recv() takes

\* A body is sent with a Content-Length or in chunks of the sizes given, and
\* may be followed by another request.
Message == [framing : {"length", "chunked"}, sizes : Seq(1..3), next : BOOLEAN]

\* The sum of the first sizes, for any number of them, and of all.
Sums(sizes) ==
  LET sum[i \in 0..Len(sizes)] == IF i = 0 THEN 0 ELSE sum[i - 1] + sizes[i] IN sum
Total(sizes) == Sums(sizes)[Len(sizes)]

ASSUME RequestBodyAssumption ==
  /\ Bytes \in Seq(ToSet(Bytes))
  /\ Messages \subseteq Message
  /\ \A m \in Messages : Total(m.sizes) <= Len(Bytes)
  /\ ClientMaxBodySize \in Nat
  /\ ReadSize \in Nat \ {0}

\* Symbols on the wire.
Digit == {"0", "1"}
Header == "header"
NextRequest == "next"
CRLF == <<"CR", "LF">>

Value(d) == IF d = "1" THEN 1 ELSE 0
Number(s) ==
  LET number[i \in 0..Len(s)] == IF i = 0 THEN 0 ELSE 2 * number[i - 1] + Value(s[i])
  IN  number[Len(s)]
Digits(n) == <<<<"0">>, <<"1">>, <<"1", "0">>, <<"1", "1">>>>[n + 1]

VARIABLES
  msg,                  \* the message, and how much of it the peer's
  sent,                 \* kernel has delivered
  request_buffer,       \* ClientServer::_request_buffer
  state,                \* RequestParser::state ("none": no _parser yet)
  reading_chunk_data, current_chunk_size, current_chunk_read,
  content_length_value,
  body,
  pc,                   \* "recv", the loop of "parse_request" that has just
                        \* parsed the headers, a later call of "parse_body",
                        \* or the end: "answered", "413"
  cut,                  \* history: a recv() ended inside a chunk's size line
  clean                 \* history: every recv() ended in or after the headers
                        \* or a chunk's data, or after the CRLF of a chunk

chunk == <<reading_chunk_data, current_chunk_size, current_chunk_read>>
parser == <<state, chunk, content_length_value, body>>
vars == <<msg, sent, request_buffer, parser, pc, cut, clean>>

-----------------------------------------------------------------------------
(* The message and its encoding                                            *)

Payload(m) == SubSeq(Bytes, 1, Total(m.sizes))

\* The encoding as a sequence of <<symbol, part of the message>>.
Part(s, part) == [i \in DOMAIN s |-> <<s[i], part>>]

Chunk(m, i) ==
  LET n == m.sizes[i]
      before == Sums(m.sizes)[i - 1] IN
  Part(Digits(n) \o CRLF, "size")
    \o Part(SubSeq(Bytes, before + 1, before + n), "data") \o Part(CRLF, "crlf")

\* The first chunks, for any number of them.
Chunks(m) ==
  LET chunks[i \in 0..Len(m.sizes)] == IF i = 0 THEN <<>> ELSE chunks[i - 1] \o Chunk(m, i) IN chunks

Wire(m) ==
  <<<<Header, "header">>>>
    \o (IF m.framing = "length"
        THEN Part(Payload(m), "data")
        ELSE Chunks(m)[Len(m.sizes)]
               \o Part(<<"0">> \o CRLF, "size") \o Part(CRLF, "end"))
    \o (IF m.next THEN <<<<NextRequest, "next">>>> ELSE <<>>)

Symbols(w) == [i \in DOMAIN w |-> w[i][1]]

Init ==
  /\ msg \in Messages
  /\ sent = 0
  /\ request_buffer = <<>>
  /\ state = "none"
  /\ reading_chunk_data = FALSE
  /\ current_chunk_size = 0 /\ current_chunk_read = 0
  /\ content_length_value = 0
  /\ body = <<>>
  /\ pc = "recv"
  /\ cut = FALSE /\ clean = TRUE
-----------------------------------------------------------------------------
(* ClientServer::readIncomingData                                          *)

HasContentLength == state # "none" /\ msg.framing = "length"

\* Faulty variant of OverLimit: the limit is not checked.
NeverOverLimit == FALSE

OverLimit == HasContentLength /\ content_length_value > ClientMaxBodySize

\* The next symbols are delivered: up to ReadSize, wherever TCP cuts.
Deliver(n) ==
  LET w == Wire(msg)
      last == w[sent + n]
      more == sent + n < Len(w) IN
  /\ n <= ReadSize /\ sent + n <= Len(w)
  /\ sent' = sent + n
  /\ cut' = (cut \/ (last[2] = "size" /\ more /\ w[sent + n + 1][2] = "size"))
  /\ clean' = (clean /\ (last[2] \in {"header", "data", "next"} \/ last = <<"LF", "crlf">>
                          \/ last = <<"LF", "end">>))

Received(n) == Symbols(SubSeq(Wire(msg), sent + 1, sent + n))

\* The declared length is over the limit: 413, and the connection ends.
\* It is checked before recv(), and known after the first call of parse_body.
TooLarge ==
  /\ pc = "recv" /\ sent < Len(Wire(msg))
  /\ OverLimit
  /\ pc' = "413"
  /\ UNCHANGED <<msg, sent, request_buffer, parser, cut, clean>>

\* The headers arrive; parse_request goes on with what came with them.
RecvHeaders(n) ==
  /\ pc = "recv" /\ state = "none"
  /\ Deliver(n)
  /\ request_buffer' = Tail(Received(n))
  /\ state' = "BODY"
  /\ pc' = IF n = 1 THEN "recv" ELSE "parse_request"
  /\ UNCHANGED <<msg, chunk, content_length_value, body>>

\* More of the body arrives.
RecvBody(n) ==
  /\ pc = "recv" /\ state = "BODY"
  /\ ~OverLimit
  /\ Deliver(n)
  /\ request_buffer' = request_buffer \o Received(n)
  /\ pc' = "parse_body"
  /\ UNCHANGED <<msg, parser>>
-----------------------------------------------------------------------------
(* RequestParser.  Consumed input leaves the buffer at once (in the code   *)
(* when the parser returns).                                               *)

\* Faulty variant of Return: a complete request is not noticed.
ReturnUnnoticed(parsed, rest) ==
  pc' = IF pc = "parse_request" /\ rest # <<>> THEN "parse_request" ELSE "recv"

\* parse_body returns: isParsingRequestBody, or the loop of parse_request,
\* which goes on while there is input and the request is neither complete
\* nor wrong.
Return(parsed, rest) ==
  pc' = IF parsed # "BODY" THEN "answered"
        ELSE IF pc = "parse_request" /\ rest # <<>> THEN "parse_request"
        ELSE "recv"

Parsing(framing) ==
  /\ pc \in {"parse_request", "parse_body"}
  /\ msg.framing = framing

\* Faulty variant of ParseLength: what was read before is not subtracted.
ParseLengthAnew ==
  /\ Parsing("length")
  /\ content_length_value' = Total(msg.sizes)
  /\ LET n == IF Len(request_buffer) < Total(msg.sizes) THEN Len(request_buffer)
              ELSE Total(msg.sizes) IN
     /\ body' = body \o SubSeq(request_buffer, 1, n)
     /\ request_buffer' = SubSeq(request_buffer, n + 1, Len(request_buffer))
  /\ state' = IF Len(body') = Total(msg.sizes) THEN "DONE" ELSE "BODY"
  /\ Return(state', request_buffer')
  /\ UNCHANGED <<msg, sent, chunk, cut, clean>>

\* Faulty variant of ParseLength: everything received belongs to the body.
ParseLengthGreedy ==
  /\ Parsing("length")
  /\ content_length_value' = Total(msg.sizes)
  /\ body' = body \o request_buffer
  /\ request_buffer' = <<>>
  /\ state' = IF Len(body') >= Total(msg.sizes) THEN "DONE" ELSE "BODY"
  /\ Return(state', request_buffer')
  /\ UNCHANGED <<msg, sent, chunk, cut, clean>>

\* Content-Length: take what is still missing.
ParseLength ==
  LET content_length == Total(msg.sizes)
      remaining == content_length - Len(body)
      n == IF Len(request_buffer) < remaining THEN Len(request_buffer) ELSE remaining IN
  /\ Parsing("length")
  /\ content_length > 0
  /\ content_length_value' = content_length
  /\ body' = body \o SubSeq(request_buffer, 1, n)
  /\ request_buffer' = SubSeq(request_buffer, n + 1, Len(request_buffer))
  /\ state' = IF Len(body') = content_length THEN "DONE" ELSE "BODY"
  /\ Return(state', request_buffer')
  /\ UNCHANGED <<msg, sent, chunk, cut, clean>>

\* Content-Length: 0 is an error, found when something follows the headers.
ParseZeroLength ==
  /\ Parsing("length")
  /\ Total(msg.sizes) = 0
  /\ state' = "ERROR_PARSE"
  /\ Return(state', request_buffer)
  /\ UNCHANGED <<msg, sent, request_buffer, chunk, content_length_value, body,
                 cut, clean>>

\* The chunk's data, as much as there is, and the CRLF after it.
ParseChunkData ==
  LET remaining == current_chunk_size - current_chunk_read
      n == IF Len(request_buffer) < remaining THEN Len(request_buffer) ELSE remaining
      rest == SubSeq(request_buffer, n + 1, Len(request_buffer))
      complete == n = remaining IN
  /\ Parsing("chunked") /\ request_buffer # <<>> /\ reading_chunk_data
  /\ body' = body \o SubSeq(request_buffer, 1, n)
  /\ \/ /\ ~complete \/ Len(rest) < 2
        /\ request_buffer' = rest
        /\ current_chunk_read' = current_chunk_read + n
        /\ Return("BODY", rest)
        /\ UNCHANGED <<state, reading_chunk_data, current_chunk_size>>
     \/ /\ complete /\ Len(rest) >= 2 /\ SubSeq(rest, 1, 2) # CRLF
        /\ request_buffer' = rest
        /\ current_chunk_read' = current_chunk_read + n
        /\ state' = "ERROR_PARSE"
        /\ Return(state', rest)
        /\ UNCHANGED <<reading_chunk_data, current_chunk_size>>
     \/ /\ complete /\ Len(rest) >= 2 /\ SubSeq(rest, 1, 2) = CRLF
        /\ request_buffer' = SubSeq(rest, 3, Len(rest))
        /\ current_chunk_read' = 0 /\ current_chunk_size' = 0
        /\ reading_chunk_data' = FALSE
        /\ UNCHANGED <<state, pc>>
  /\ UNCHANGED <<msg, sent, content_length_value, cut, clean>>

\* The input is used up: parse_chunked_body returns.
ParseNothing ==
  /\ Parsing("chunked") /\ request_buffer = <<>>
  /\ Return("BODY", request_buffer)
  /\ UNCHANGED <<msg, sent, request_buffer, parser, cut, clean>>

\* Faulty variant of LineEnd: the CRLF itself is left.
LineEndBefore(b) ==
  LET ends == {i \in 2..Len(b) : SubSeq(b, i - 1, i) = CRLF} IN
  IF ends # {} THEN Min(ends) - 2 ELSE Len(b) - 1

\* find_line_end: the position after the first CRLF - or, without one, the
\* last symbol.
LineEnd(b) ==
  LET ends == {i \in 2..Len(b) : SubSeq(b, i - 1, i) = CRLF} IN
  IF ends # {} THEN Min(ends) ELSE Len(b) - 1

\* Utils::trim with "\r\n \t".
Trim(s) ==
  LET kept == {i \in DOMAIN s : s[i] \notin {"CR", "LF"}} IN
  IF kept = {} THEN <<>> ELSE SubSeq(s, Min(kept), Max(kept))

\* A size line; the last one needs the final CRLF at once.
ParseChunkSize ==
  LET e == LineEnd(request_buffer)
      size == Trim(SubSeq(request_buffer, 1, e))
      rest == SubSeq(request_buffer, e + 1, Len(request_buffer))
      valid == \A i \in DOMAIN size : size[i] \in Digit IN
  /\ Parsing("chunked") /\ request_buffer # <<>> /\ ~reading_chunk_data
  /\ \/ /\ e = Len(request_buffer)     \* "Incomplete size line"
        /\ Return("BODY", request_buffer)
        /\ UNCHANGED <<request_buffer, state, chunk>>
     \/ /\ e # Len(request_buffer) /\ ~valid
        /\ state' = "ERROR_PARSE"
        /\ Return(state', request_buffer)
        /\ UNCHANGED <<request_buffer, chunk>>
     \/ /\ e # Len(request_buffer) /\ valid /\ Number(size) # 0
        /\ request_buffer' = rest
        /\ current_chunk_size' = Number(size)
        /\ current_chunk_read' = 0
        /\ reading_chunk_data' = TRUE
        /\ UNCHANGED <<state, pc>>
     \/ /\ e # Len(request_buffer) /\ valid /\ Number(size) = 0
        /\ current_chunk_size' = 0
        /\ state' = IF Len(rest) < 2 THEN "BODY"
                    ELSE IF SubSeq(rest, 1, 2) = CRLF THEN "DONE" ELSE "ERROR_PARSE"
        /\ request_buffer' = IF state' = "DONE" THEN SubSeq(rest, 3, Len(rest)) ELSE rest
        /\ Return(state', request_buffer')
        /\ UNCHANGED <<reading_chunk_data, current_chunk_read>>
  /\ UNCHANGED <<msg, sent, content_length_value, body, cut, clean>>

Read == TooLarge \/ \E n \in 1..ReadSize : RecvHeaders(n) \/ RecvBody(n)

Parse ==
  \/ ParseLength \/ ParseZeroLength
  \/ ParseChunkData \/ ParseNothing \/ ParseChunkSize

Next == Read \/ Parse

Spec == Init /\ [][Next]_vars

\* The peer sends the whole message and the loop handles every event.
FairSpec == Spec /\ WF_vars(Next)
-----------------------------------------------------------------------------
Symbol == Digit \cup ToSet(Bytes) \cup {Header, NextRequest, "CR", "LF"}

TypeOK ==
  /\ msg \in Messages
  /\ sent \in 0..Len(Wire(msg))
  /\ request_buffer \in Seq(Symbol) /\ body \in Seq(Symbol)
  /\ Len(body) + Len(request_buffer) <= sent
  /\ msg.framing = "length" => Len(body) <= Total(msg.sizes)
  /\ state \in {"none", "BODY", "DONE", "ERROR_PARSE"}
  /\ reading_chunk_data \in BOOLEAN
  /\ current_chunk_size \in Nat /\ current_chunk_read \in 0..current_chunk_size
  /\ content_length_value \in Nat
  /\ pc \in {"recv", "parse_request", "parse_body", "answered", "413"}
  /\ cut \in BOOLEAN /\ clean \in BOOLEAN

\* Unless a recv() ends inside a size line, the parser never takes anything
\* but the body for the body, and finds no error in a valid message (other
\* than a Content-Length of 0), wherever else the message is cut.
BodyIsPrefix ==
  ~cut => /\ IsPrefix(body, Payload(msg))
          /\ state = "ERROR_PARSE" => msg.framing = "length" /\ msg.sizes = <<>>

\* A request is complete exactly when its whole body is there, and nothing of
\* the request that follows has been consumed with it.
DoneIsWhole ==
  state = "DONE" /\ ~cut =>
    /\ body = Payload(msg)
    /\ request_buffer \o Symbols(SubSeq(Wire(msg), sent + 1, Len(Wire(msg))))
         = (IF msg.next THEN <<NextRequest>> ELSE <<>>)

\* A body with a Content-Length over client_max_body_size is completed only
\* if one recv() brings all of it: the limit is checked before the next.
LimitAfterOneRead ==
  [][state' = "DONE" /\ state = "BODY" /\ msg.framing = "length"
       /\ Total(msg.sizes) > ClientMaxBodySize => body = <<>>]_vars

\* A message that is cut only in chunk data or between chunks is answered
\* (a Content-Length of 0 with nothing behind it is not).
CleanAnswered ==
  <>(pc \in {"answered", "413"} \/ ~clean \/ (msg.framing = "length" /\ msg.sizes = <<>>))

\* "return pos; // Incomplete size line" (RequestParser.cpp:371): wherever a
\* chunked message is cut, the body is what the peer sent.
BodyIntact == IsPrefix(body, Payload(msg))

\* "Handle file uploads and enforce client body size limits" (README.md:28):
\* no request is complete with a body over client_max_body_size.
BodyLimited == state = "DONE" => Len(body) <= ClientMaxBodySize

\* "Ensure the server handles multiple clients simultaneously without
\* blocking" (README.md:9): parse_request returns to the event loop.
ParserReturns == pc = "parse_request" ~> pc # "parse_request"
=============================================================================
