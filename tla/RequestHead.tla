---------------------------- MODULE RequestHead ----------------------------
(* The request line and the header lines of one request: RequestParser from *)
(* REQUEST_LINE to BODY, DONE or ERROR_PARSE.                               *)
(*                                                                          *)
(* Abstractions: the blank line that ends the head has arrived (the         *)
(* connection waits for it); a URI is a sequence of characters, of which    *)
(* "x" stands for any without a meaning that is no hexadecimal digit, "^"   *)
(* for one that is forbidden, and "%2e", "%zz" for three characters; header *)
(* lines are a key and a value, and lines that are wrong in themselves are  *)
(* kinds of their own ("fold", "large", "bad").                             *)
EXTENDS Naturals, SequencesExt

CONSTANTS
  Heads,           \* the heads peers may send
  MaxUriLength,    \* MAX_URI_LENGTH
  MaxHeaderCount   \* MAX_HEADER_COUNT

ASSUME RequestHeadAssumption ==
  /\ MaxUriLength \in Nat /\ MaxHeaderCount \in Nat
  /\ \A h \in Heads :
       h.uri \in Seq(STRING) /\ h.lines \in Seq([key : STRING, value : STRING])

VARIABLES
  head,          \* what the peer sent: line, method, uri, version, lines
  pos,           \* header lines consumed
  state, error_code,
  request_uri, query_string,
  headers,       \* the map of headers
  has_host, has_content_length, has_transfer_encoding,
  content_length_value, \* the local of parse_headers
  passes         \* what the loops of parse_request and parse_headers have made

uris == <<request_uri, query_string>>
framing == <<has_host, has_content_length, has_transfer_encoding, content_length_value>>
parser == <<head, pos, state, error_code, uris, headers, framing>>
vars == <<parser, passes>>

\* Passes are counted as far as one more than there should be.
MostPasses == Len(head.lines) + 3
Pass == passes' = IF passes < MostPasses THEN passes + 1 ELSE passes

(* The URI: set_request_uri, decode_percent_encoding, normalize_uri.        *)
Encoded == [c \in {"%2e", "%2f", "%3f"} |->
              CASE c = "%2e" -> "." [] c = "%2f" -> "/" [] c = "%3f" -> "?"]
Wide == DOMAIN Encoded \cup {"%00", "%zz"}

\* A "%" is taken literally when fewer than two characters follow it.
Undecodable(s) ==
  \E i \in DOMAIN s :
    \/ s[i] \in {"%00", "%zz"}
    \/ s[i] = "%" /\ (i + 1 < Len(s) \/ (i + 1 = Len(s) /\ s[i + 1] \in Wide))

Decode(s) == [i \in DOMAIN s |-> IF s[i] \in DOMAIN Encoded THEN Encoded[s[i]] ELSE s[i]]

First(c, s) == CHOOSE i \in DOMAIN s : s[i] = c /\ \A j \in 1..(i - 1) : s[j] # c
Before(c, s) == IF c \in ToSet(s) THEN SubSeq(s, 1, First(c, s) - 1) ELSE s
After(c, s) == IF c \in ToSet(s) THEN SubSeq(s, First(c, s) + 1, Len(s)) ELSE <<>>

\* What is between the slashes of a URI (getline).
Cut(segments, c) ==
  IF c = "/" THEN Append(segments, <<>>)
  ELSE Append(Front(segments), Append(Last(segments), c))

Segments(s) ==
  LET read[n \in 0..Len(s)] == IF n = 0 THEN << <<>> >> ELSE Cut(read[n - 1], s[n])
  IN  read[Len(s)]

\* The segments that are left; an Up with none to go back to is left as well.
Up == <<".", ".">>
Keep(kept, segment) ==
  CASE segment \in {<<>>, <<".">>} -> kept
    [] segment = Up -> IF kept = <<>> \/ Last(kept) = Up THEN Append(kept, Up) ELSE Front(kept)
    [] OTHER -> Append(kept, segment)

Kept(segments) ==
  LET kept[n \in 0..Len(segments)] ==
        IF n = 0 THEN <<>> ELSE Keep(kept[n - 1], segments[n])
  IN  kept[Len(segments)]

LeadsOutside(s) ==
  Up \in ToSet(IF Head(s) = "/" THEN Kept(Segments(s)) ELSE Segments(s))

\* Faulty variant: the slash at the end is lost.
JoinBare(s, kept) ==
  LET text == (IF Head(s) = "/" THEN <<"/">> ELSE <<>>)
                \o FlattenSeq([i \in DOMAIN kept |-> Append(kept[i], "/")])
  IN  IF text = <<>> THEN <<"/">> ELSE IF kept # <<>> THEN Front(text) ELSE text

\* "" becomes "/": a URI of "." segments only counts as the root.
Join(s, kept) ==
  LET text == (IF Head(s) = "/" THEN <<"/">> ELSE <<>>)
                \o FlattenSeq([i \in DOMAIN kept |-> Append(kept[i], "/")])
  IN  IF text = <<>> THEN <<"/">>
      ELSE IF kept # <<>> /\ Last(s) # "/" THEN Front(text) ELSE text

Refused(code, query) == [error |-> code, uri |-> <<>>, query |-> query]

\* The query string is split off what decoding and normalising have left.
\* An empty URI is neither taken nor an error: parse_request then reads the
\* same line for ever.
set_request_uri(uri) ==
  LET text == Decode(Before("#", uri))
      whole == Join(text, Kept(Segments(text)))
      path == Before("?", whole)
  IN  IF "^" \in ToSet(uri) \/ Undecodable(Before("#", uri)) THEN Refused(400, <<>>)
      ELSE IF text = <<>> THEN Refused(0, <<>>)
      ELSE IF LeadsOutside(text) THEN Refused(400, <<>>)
      ELSE IF path = <<>> \/ path[1] # "/" THEN Refused(400, After("?", whole))
      ELSE IF Len(path) > MaxUriLength THEN Refused(414, After("?", whole))
      ELSE [error |-> 0, uri |-> path, query |-> After("?", whole)]

Taken(result) == result.uri # <<>>

set_http_method(method) ==
  CASE method \in {"GET", "POST", "DELETE"} -> 0
    [] method \in {"HEAD", "OPTIONS", "TRACE", "PUT", "PATCH", "CONNECT"} -> 501
    [] OTHER -> 400

set_http_version(version) ==
  CASE version = "HTTP/1.1" -> 0 [] version \in {"HTTP/0.9", "HTTP/1.0"} -> 505 [] OTHER -> 400

Set(map, key, value) ==
  [k \in DOMAIN map \cup {key} |-> IF k = key THEN value ELSE map[k]]

Init ==
  /\ head \in Heads /\ pos = 0
  /\ state = "REQUEST_LINE" /\ error_code = 0
  /\ request_uri = <<>> /\ query_string = <<>>
  /\ headers = [k \in {} |-> ""]
  /\ has_host = FALSE /\ has_content_length = FALSE /\ has_transfer_encoding = FALSE
  /\ content_length_value = "" /\ passes = 0

\* Faulty variant: the state is left.
log_error_only(code) ==
  /\ error_code' = code /\ headers' = Set(headers, "connection", "close")
  /\ UNCHANGED state

\* Only the first error is kept, and it ends the parsing.
log_error(code) ==
  /\ error_code' = code /\ headers' = Set(headers, "connection", "close")
  /\ state' = "ERROR_PARSE"

(* parse_request_line.                                                      *)
LineError(uri) ==
  IF head.line # "whole" THEN IF head.line = "long" THEN 414 ELSE 400
  ELSE IF set_http_method(head.method) # 0 THEN set_http_method(head.method)
  ELSE IF ~Taken(uri) THEN uri.error
  ELSE set_http_version(head.version)

\* The URI is set when only the version is wrong.
RequestLineRefused ==
  /\ state = "REQUEST_LINE" /\ Pass
  /\ \E uri \in {set_request_uri(head.uri)} :
       LET reached == head.line = "whole" /\ set_http_method(head.method) = 0
       IN  /\ LineError(uri) # 0 /\ log_error(LineError(uri))
           /\ request_uri' = IF reached THEN uri.uri ELSE <<>>
           /\ query_string' = IF reached THEN uri.query ELSE <<>>
  /\ UNCHANGED <<head, pos, framing>>

RequestLineTaken ==
  /\ state = "REQUEST_LINE" /\ Pass
  /\ \E uri \in {set_request_uri(head.uri)} :
       /\ LineError(uri) = 0 /\ Taken(uri)
       /\ request_uri' = uri.uri /\ query_string' = uri.query
  /\ state' = "HEADERS"
  /\ UNCHANGED <<head, pos, error_code, headers, framing>>

(* parse_headers, one pass of its loop.                                     *)
Line == head.lines[pos + 1]
Codings == {"chunked", "compress", "deflate", "gzip"}

\* What is wrong with a line, in the order of the code.
LineFault ==
  CASE Line.key \in {"fold", "bad"} -> 400
    [] Line.key = "large" -> 431
    [] Line.key = "content-length" ->
         IF Line.value = "text" \/ (has_content_length /\ content_length_value # Line.value)
         THEN 400 ELSE 0
    [] Line.key = "transfer-encoding" -> IF Line.value \in Codings THEN 0 ELSE 400
    [] Line.key = "host" -> IF has_host THEN 400 ELSE 0
    [] Line.key = "expect" -> IF Line.value = "100-continue" THEN 0 ELSE 417
    [] OTHER -> 0

InHeaders == state = "HEADERS" /\ Pass /\ UNCHANGED <<head, uris>>

HeaderRefused ==
  /\ InHeaders /\ pos < Len(head.lines) /\ LineFault # 0
  /\ log_error(LineFault)
  /\ UNCHANGED <<pos, framing>>

NotesLine ==
  /\ has_host' = (has_host \/ Line.key = "host")
  /\ has_transfer_encoding' = (has_transfer_encoding \/ Line.key = "transfer-encoding")
  /\ has_content_length' = (has_content_length \/ Line.key = "content-length")
  /\ content_length_value' =
       IF Line.key = "content-length" THEN Line.value ELSE content_length_value

\* Faulty variant: one too many.
Overfull == Cardinality(DOMAIN headers) > MaxHeaderCount

Full == Cardinality(DOMAIN headers) >= MaxHeaderCount

TooManyHeaders ==
  /\ InHeaders /\ pos < Len(head.lines) /\ LineFault = 0 /\ Full
  /\ NotesLine /\ log_error(431)
  /\ UNCHANGED pos

HeaderTaken ==
  /\ InHeaders /\ pos < Len(head.lines) /\ LineFault = 0 /\ ~Full
  /\ NotesLine /\ headers' = Set(headers, Line.key, Line.value)
  /\ pos' = pos + 1
  /\ UNCHANGED <<state, error_code>>

\* Faulty variant: both framings are let through.
EndErrorLax ==
  CASE ~has_host -> 400
    [] ~has_content_length /\ ~has_transfer_encoding /\ head.method = "POST" -> 411
    [] OTHER -> 0

EndError ==
  CASE ~has_host -> 400
    [] has_content_length /\ has_transfer_encoding -> 400
    [] ~has_content_length /\ ~has_transfer_encoding /\ head.method = "POST" -> 411
    [] OTHER -> 0

EndOfHeaders ==
  /\ InHeaders /\ pos = Len(head.lines)
  /\ IF EndError # 0 THEN log_error(EndError)
     ELSE /\ state' = IF has_content_length \/ has_transfer_encoding THEN "BODY" ELSE "DONE"
          /\ UNCHANGED <<error_code, headers>>
  /\ UNCHANGED <<pos, framing>>

\* The line of an empty URI is read again and again, to no effect.
Spins ==
  /\ state = "REQUEST_LINE" /\ LineError(set_request_uri(head.uri)) = 0
  /\ ~Taken(set_request_uri(head.uri))
  /\ Pass /\ UNCHANGED parser

\* parse_request's loop has ended for this head.
Parsed == state \in {"BODY", "DONE", "ERROR_PARSE"} /\ UNCHANGED vars

Next ==
  \/ RequestLineRefused \/ RequestLineTaken \/ Spins
  \/ HeaderRefused \/ TooManyHeaders \/ HeaderTaken \/ EndOfHeaders
  \/ Parsed

Spec == Init /\ [][Next]_vars

-----------------------------------------------------------------------------
(* What a URI means, told from the positions of its slashes and not with a  *)
(* stack: a name survives when no later ".." takes the depth below it.      *)
Names(s) ==
  {r \in (DOMAIN s) \X (DOMAIN s) :
     /\ r[1] <= r[2]
     /\ \A i \in r[1]..r[2] : s[i] # "/"
     /\ r[1] > 1 => s[r[1] - 1] = "/"
     /\ r[2] < Len(s) => s[r[2] + 1] = "/"}

Texts(s, names) == {SubSeq(s, r[1], r[2]) : r \in names}
Ups(s) == {r \in Names(s) : SubSeq(s, r[1], r[2]) = Up}
Downs(s) == {r \in Names(s) : SubSeq(s, r[1], r[2]) \notin {<<".">>, Up}}

Depth(s, end) ==
  Cardinality({r \in Downs(s) : r[2] <= end}) - Cardinality({r \in Ups(s) : r[2] <= end})

Survivors(s) ==
  {r \in Downs(s) : \A u \in Ups(s) : u[1] > r[2] => Depth(s, u[2]) >= Depth(s, r[2])}

\* A place of the text is kept with its name; so is the slash before it.
Resolved(s) ==
  LET kept == Survivors(s)
      names == FlattenSeq([i \in DOMAIN s |->
                 IF \E r \in kept : i = r[1] THEN <<"/", s[i]>>
                 ELSE IF \E r \in kept : i \in r[1]..r[2] THEN <<s[i]>> ELSE <<>>])
  IN  IF kept = {} \/ Last(s) = "/" THEN Append(names, "/") ELSE names

Resolvable(s) ==
  IF s[1] = "/" THEN \A u \in Ups(s) : Depth(s, u[2]) >= 0
  ELSE Texts(s, Names(s)) = {<<".">>}

Count(c, s) == Cardinality({i \in DOMAIN s : s[i] = c})

UriRead == state # "REQUEST_LINE" /\ head.line = "whole" /\ set_http_method(head.method) = 0
UriTaken == UriRead /\ request_uri # <<>>
Sent == Before("#", head.uri)
Readable == "^" \notin ToSet(head.uri) /\ ~Undecodable(Sent)

(* A URI is accepted exactly when the whole of its text, the query          *)
(* included, resolves within the root, and what it resolves to is split at  *)
(* its first "?" (set_request_uri, normalize_uri).                          *)
WholeResolved ==
  LET s == Decode(Sent)
  IN  UriRead =>
        /\ UriTaken <=> /\ Readable /\ Resolvable(s)
                        /\ Len(Before("?", Resolved(s))) <= MaxUriLength
        /\ UriTaken => /\ request_uri = Before("?", Resolved(s))
                       /\ query_string = After("?", Resolved(s))

(* That does not disturb a query without slashes, sent after the only "?"   *)
(* and a path that ends in an ordinary name (set_request_uri).              *)
QueryKept ==
  (UriTaken /\ Count("?", Sent) = 1 /\ "%3f" \notin ToSet(Sent)) =>
    LET path == Decode(Before("?", Sent))
        query == Decode(After("?", Sent))
    IN  (path # <<>> /\ "/" \notin ToSet(query) /\ path[1] = "/"
           /\ \A r \in Names(path) : r[2] = Len(path) => r \in Downs(path))
          => /\ query_string = query
             /\ request_uri = Resolved(path)

(* No name of the path that is routed is "..", but for the last of a text   *)
(* with a "?", which was more than ".." when it was resolved.               *)
StaysInside ==
  UriTaken =>
    /\ request_uri[1] = "/"
    /\ \A i \in 1..(Len(request_uri) - 1) : ~(request_uri[i] = "/" /\ request_uri[i + 1] = "/")
    /\ \A u \in Ups(request_uri) : u[2] = Len(request_uri) /\ "?" \in ToSet(Decode(Sent))

(* Which path and which query set_request_uri makes of any URI, and how far *)
(* they are the ones that were sent.                                        *)
UriResolved == WholeResolved /\ QueryKept /\ StaysInside

(* "Block parent directory listing" (test_serv.sh:109): no path that is     *)
(* routed has a name "..".                                                  *)
BelowRoot == UriTaken => Ups(request_uri) = {}

(* "Extract query string if present" (RequestParser.cpp:721): the query is  *)
(* what was sent after the first "?".                                       *)
QueryExtracted ==
  UriTaken /\ "?" \in ToSet(Sent) => query_string = Decode(After("?", Sent))

\* The lines of the head, judged without the parser's flags.
LinesOf(key) == {i \in DOMAIN head.lines : head.lines[i].key = key}
ValuesOf(key) == {head.lines[i].value : i \in LinesOf(key)}
KeysBefore(i) == {head.lines[j].key : j \in 1..(i - 1)}

LinesAcceptable ==
  /\ \A i \in DOMAIN head.lines : Cardinality(KeysBefore(i)) < MaxHeaderCount
  /\ LinesOf("fold") \cup LinesOf("bad") \cup LinesOf("large") = {}
  /\ \E i \in DOMAIN head.lines : LinesOf("host") = {i}
  /\ \A v, w \in ValuesOf("content-length") : v = w
  /\ "text" \notin ValuesOf("content-length")
  /\ ValuesOf("transfer-encoding") \subseteq Codings
  /\ ValuesOf("expect") \subseteq {"100-continue"}
  /\ LinesOf("content-length") = {} \/ LinesOf("transfer-encoding") = {}
  /\ head.method = "POST" =>
       LinesOf("content-length") \cup LinesOf("transfer-encoding") # {}

(* The end of the body is never in doubt: a head is accepted exactly when   *)
(* its lines agree on one framing, a body is read exactly when one is       *)
(* announced, and a refused head always ends the connection (parse_headers, *)
(* log_error).                                                              *)
FramedOnce ==
  /\ state \in {"BODY", "DONE"} =>
       /\ LinesAcceptable /\ error_code = 0
       /\ (state = "BODY") <=> LinesOf("content-length") \cup LinesOf("transfer-encoding") # {}
       /\ LinesOf("content-length") # {} => headers["content-length"] = content_length_value
  /\ (state = "ERROR_PARSE" /\ UriTaken /\ head.version = "HTTP/1.1") => ~LinesAcceptable
  /\ (state = "ERROR_PARSE") <=> (error_code # 0)
  /\ error_code # 0 => headers["connection"] = "close"

(* The loops of parse_request and parse_headers end: of the passes they     *)
(* make, all but two have consumed a header line.  A URI with nothing       *)
(* before its "#" is left out: its line is read for ever.                   *)
Progress == Sent # <<>> => passes <= pos + 2

(* "Ensure the server handles multiple clients simultaneously without       *)
(* blocking" (README.md:9): so they do for every head.                      *)
AlwaysEnds == passes <= pos + 2

(* The states of the parser, the codes it gives, and its limits.            *)
TypeOK ==
  /\ pos \in 0..Len(head.lines)
  /\ state \in {"REQUEST_LINE", "HEADERS", "BODY", "DONE", "ERROR_PARSE"}
  /\ error_code \in {0, 400, 411, 414, 417, 431, 501, 505}
  /\ Len(request_uri) <= MaxUriLength
  /\ Cardinality(DOMAIN headers) <=
       IF state = "ERROR_PARSE" THEN MaxHeaderCount + 1 ELSE MaxHeaderCount
  /\ {has_host, has_content_length, has_transfer_encoding} \subseteq BOOLEAN
=============================================================================
