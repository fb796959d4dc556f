------------------------------- MODULE Config -------------------------------
(* From the configuration file to the listening sockets: SanitizeInput,     *)
(* tokenize, Parser, ConfigManager::loadConfig and Server::StartServer, in  *)
(* the order main runs them.  One action per directive: a directive that    *)
(* does not fit throws, and nothing of the file is used.                    *)
(*                                                                          *)
(* Abstractions: a file is a sequence of words between white space; a word  *)
(* is the sequence of the pieces SanitizeInput cuts it into ("10M" is       *)
(* <<"10", "m">>, "site2go" is <<"site2", "g", "o">>); "\n" is a line end.  *)
(* A unit on its own is one in upper case, too, but parseSize knows it in   *)
(* lower case only: Sizes["M"] is 1.                                        *)
EXTENDS Integers, SequencesExt

CONSTANTS
  Files,        \* the files that may be given
  Numbers,      \* the words string_to_size_t reads as int, with their values
  Sizes         \* what parseSize multiplies by, for each unit

Directives ==
  {"server", "listen", "server_name", "root", "error_page", "location", "autoindex", "index",
   "client_max_body_size", "allowed_methods", "redirect", "return", "cgi", "cgi_path",
   "upload_store", "{", "}", ";"}

LowerCase == {"k", "m", "g"}
UpperCase == {"K", "M", "G"}

\* A word is cut at delimiters and units only, and a line end is outside words.
\* Where it is cut before a unit, that becomes lower case.
CutRight(word) ==
  /\ \A k \in 1..(Len(word) - 1) :
       {word[k], word[k + 1]} \cap ({";", "{", "}"} \cup LowerCase) # {}
  /\ "\n" \in ToSet(word) => word = <<"\n">>

ASSUME ConfigAssumption ==
  /\ \A f \in Files : f \in Seq(Seq(STRING)) /\ \A i \in DOMAIN f : CutRight(f[i])
  /\ \A word \in DOMAIN Numbers : Numbers[word] \in Int
  /\ DOMAIN Sizes = LowerCase \cup UpperCase
  /\ \A unit \in UpperCase : Sizes[unit] = 1
  /\ DOMAIN Numbers \cap (Directives \cup DOMAIN Sizes) = {}

VARIABLES
  file,          \* the words of the file
  phase,         \* of main: "start"; the block being parsed: "servers", "server",
                 \* "location", "cgi"; "loaded", "listening", "running", "exited"
  loaded,        \* what loadConfig returns
  _tokens, _index,
  directive, expected, values,  \* the directive being read, the consumes it still
                                \* makes, the values it has consumed
  _servers, location,           \* of the parser: blocks so far, and the location block
  servers,                      \* of the ConfigManager
  attempts,                     \* addresses still to be listened on
  _socket_configs, _listen_fds  \* by socket: its blocks (places in servers), its port

reading == <<directive, expected, values>>
parser == <<_tokens, _index, reading, _servers, location>>
sockets == <<attempts, _socket_configs, _listen_fds>>
vars == <<file, phase, loaded, parser, servers, sockets>>

\* map[x] = v
With(map, x, v) == [y \in DOMAIN map \cup {x} |-> IF y = x THEN v ELSE map[y]]

\* The same, for each x in X.
WithAll(map, X, v) == [y \in DOMAIN map \cup X |-> IF y \in X THEN v ELSE map[y]]

\* What s has at the places T, in its order: a loop that pushes them back.
Selected(s, T) ==
  LET first[n \in 0..Len(s)] ==
        IF n = 0 THEN <<>>
        ELSE IF n \in T THEN Append(first[n - 1], s[n]) ELSE first[n - 1]
  IN  first[Len(s)]

(* Tokens.                                                                  *)
TokenType(word) ==
  CASE word \in Directives -> word
    [] word \in DOMAIN Sizes -> "MUL"
    [] word \in DOMAIN Numbers -> "NUMBER"
    [] OTHER -> "STRING"

SanitizeInput(input) == FlattenSeq(input)

\* "#" on its own hides the rest of its line.
Shown(words) ==
  LET Hidden(i) == \E j \in 1..i : words[j] = "#" /\ \A k \in j..i : words[k] # "\n"
  IN  Selected(words, {i \in DOMAIN words : ~Hidden(i) /\ words[i] # "\n"})

\* Faulty variant: a unit is a token only after a number.
TokenizeLoosely(input) ==
  LET words == Shown(SanitizeInput(input))
      Type(i) == IF words[i] \in DOMAIN Sizes /\ (i = 1 \/ words[i - 1] \notin DOMAIN Numbers)
                 THEN "STRING" ELSE TokenType(words[i])
  IN  Append([i \in DOMAIN words |-> [type |-> Type(i), value |-> words[i]]],
             [type |-> "END", value |-> ""])

tokenize(input) ==
  LET words == Shown(SanitizeInput(input))
  IN  Append([i \in DOMAIN words |-> [type |-> TokenType(words[i]), value |-> words[i]]],
             [type |-> "END", value |-> ""])

Negative(input) ==
  \E word \in ToSet(Shown(SanitizeInput(input))) :
    word \in DOMAIN Numbers /\ Numbers[word] < 0

(* The defaults of the two constructors.                                    *)
NewLocation(path) ==
  [location |-> path, allowedMethods |-> <<"GET", "POST", "DELETE">>, root |-> "",
   autoindex |-> FALSE, index |-> "index.html",
   isRedirect |-> FALSE, redirectUrl |-> "", isRedirectPermanent |-> FALSE, redirectCode |-> 0,
   useCgi |-> FALSE, cgiPath |-> "", uploadStore |-> "",
   has_return |-> FALSE, return_code |-> 0, return_message |-> <<>>]

NewServer ==
  [port |-> 80, host |-> "0.0.0.0", serverNames |-> <<"localhost">>,
   errorPages |-> [code \in {} |-> ""], clientMaxBodySize |-> Sizes["m"], locations |-> <<>>]

Init ==
  /\ file \in Files
  /\ phase = "start" /\ loaded = FALSE
  /\ _tokens = <<>> /\ _index = 1
  /\ directive = "" /\ expected = <<>> /\ values = <<>>
  /\ _servers = <<>> /\ location = NewLocation("")
  /\ servers = <<>> /\ attempts = {}
  /\ _socket_configs = [s \in {} |-> <<>>] /\ _listen_fds = [s \in {} |-> 0]

\* The file is not there: main returns 1.
Unopened ==
  /\ phase = "start" /\ phase' = "exited"
  /\ UNCHANGED <<file, loaded, parser, servers, sockets>>

Tokenized ==
  /\ phase = "start" /\ ~Negative(file)
  /\ _tokens' = tokenize(file) /\ phase' = "servers"
  /\ UNCHANGED <<file, loaded, _index, reading, _servers, location, servers, sockets>>

\* An exception ends loadConfig.  main does not look at what it returns.
Throw == phase' = "loaded" /\ UNCHANGED <<file, loaded, parser, servers, sockets>>

NegativeNumber == phase = "start" /\ Negative(file) /\ Throw

(* Parsing: the consumes each directive makes, by block.                    *)
One(type) == [type |-> type, times |-> "one"]
Maybe(type) == [type |-> type, times |-> "maybe"]    \* if it is next
Many(type) == [type |-> type, times |-> "many"]      \* while it is next

InLocation ==
  [d \in {"root", "autoindex", "index", "cgi", "upload_store", "error_page",
          "allowed_methods", "redirect", "return", "}"} |->
     CASE d = "error_page" -> <<One("NUMBER"), One("STRING"), One(";")>>
       [] d = "allowed_methods" -> <<Many("STRING"), One(";")>>
       [] d = "redirect" -> <<Maybe("NUMBER"), One("STRING"), One(";")>>
       [] d = "return" -> <<One("NUMBER"), Many("STRING"), One(";")>>
       [] d = "}" -> <<>>
       [] OTHER -> <<One("STRING"), One(";")>>]

Consumes ==
  [servers |-> [server |-> <<One("{")>>],
   server |->
     With([listen |-> <<One("NUMBER"), One(";")>>,
           server_name |-> <<One("STRING"), Many("STRING"), One(";")>>,
           error_page |-> <<Many("NUMBER"), One("STRING"), One(";")>>,
           location |-> <<One("STRING"), One("{")>>,
           client_max_body_size |-> <<One("NUMBER"), One("MUL"), One(";")>>],
          "}", <<>>),
   location |-> InLocation,
   \* just after cgi
   cgi |-> With(InLocation, "cgi_path", <<One("STRING"), One(";")>>)]

Token == _tokens[_index]
InBlock == phase \in DOMAIN Consumes
Constant == UNCHANGED <<file, loaded, _tokens, servers, sockets>>

Directive ==
  /\ InBlock /\ directive = "" /\ Token.type \in DOMAIN Consumes[phase]
  /\ directive' = Token.type /\ expected' = Consumes[phase][Token.type] /\ values' = <<>>
  /\ _index' = _index + 1
  /\ UNCHANGED <<phase, _servers, location>> /\ Constant

\* Nothing but "server" outside a block, no unknown directive, no END in one.
UnknownDirective ==
  /\ InBlock /\ directive = "" /\ Token.type \notin DOMAIN Consumes[phase]
  /\ ~(phase = "servers" /\ Token.type = "END")
  /\ Throw

Awaited == Head(expected)

consume ==
  /\ InBlock /\ expected # <<>> /\ Token.type = Awaited.type
  /\ _index' = _index + 1
  /\ values' = IF Token.type \in {";", "{"} THEN values ELSE Append(values, Token.value)
  /\ expected' = IF Awaited.times = "many" THEN expected ELSE Tail(expected)
  /\ UNCHANGED <<phase, directive, _servers, location>> /\ Constant

\* Faulty variant: the loop is not left.
GoOnForever ==
  /\ InBlock /\ expected # <<>> /\ Token.type # Awaited.type /\ Awaited.times # "one"
  /\ UNCHANGED vars

GoOn ==
  /\ InBlock /\ expected # <<>> /\ Token.type # Awaited.type /\ Awaited.times # "one"
  /\ expected' = Tail(expected)
  /\ UNCHANGED <<phase, _index, directive, values, _servers, location>> /\ Constant

UnexpectedToken ==
  /\ InBlock /\ expected # <<>> /\ Token.type # Awaited.type /\ Awaited.times = "one"
  /\ Throw

(* What a directive does when it has been read.                             *)
Read(block, d) ==
  /\ phase \in block /\ directive = d /\ expected = <<>>
  /\ directive' = ""
  /\ UNCHANGED <<_index, expected, values>> /\ Constant

Value(k) == values[k]
Number(k) == Numbers[values[k]]
Short(n) == ((n + 32768) % 65536) - 32768
UINT16_MAX == 65535

ServerBlock ==
  /\ Read({"servers"}, "server")
  /\ _servers' = Append(_servers, NewServer) /\ phase' = "server"
  /\ UNCHANGED location

\* of the current block
Becomes(new) == _servers' = [_servers EXCEPT ![Len(_servers)] = new]
Current == Last(_servers)
InServer(d) == Read({"server"}, d) /\ UNCHANGED <<phase, location>>

\* Faulty variant: the number is not read as one of 16 bits.
ListenWide ==
  InServer("listen") /\ Becomes([Current EXCEPT !.host = "0.0.0.0", !.port = Number(1)])

\* The stream stops at the end of any number: one that is too large for a
\* port is not an error, and leaves the largest.
parseListenDirective ==
  /\ InServer("listen")
  /\ Becomes([Current EXCEPT !.host = "0.0.0.0",
                              !.port = IF Number(1) > UINT16_MAX THEN UINT16_MAX ELSE Number(1)])

parseServerNameDirective ==
  InServer("server_name") /\ Becomes([Current EXCEPT !.serverNames = values])

parseErrorPageDirective ==
  /\ InServer("error_page")
  /\ Becomes([Current EXCEPT !.errorPages =
                WithAll(@, {Short(Number(k)) : k \in 1..(Len(values) - 1)}, Last(values))])

\* parseSize: no int times a unit is beyond size_t.
parseClientMaxBodySizeDirective ==
  /\ InServer("client_max_body_size")
  /\ Becomes([Current EXCEPT !.clientMaxBodySize = Number(1) * Sizes[Value(2)]])

EndOfServer ==
  Read({"server"}, "}") /\ phase' = "servers" /\ UNCHANGED <<_servers, location>>

\* Faulty variant: the block before is not forgotten.
LocationReused ==
  /\ Read({"server"}, "location")
  /\ location' = [location EXCEPT !.location = Value(1)] /\ phase' = "location"
  /\ UNCHANGED _servers

LocationBlock ==
  /\ Read({"server"}, "location")
  /\ location' = NewLocation(Value(1)) /\ phase' = "location"
  /\ UNCHANGED _servers

Locations == {"location", "cgi"}
Sets(d, new) ==
  Read(Locations, d) /\ location' = new /\ phase' = "location" /\ UNCHANGED _servers

Root == Sets("root", [location EXCEPT !.root = Value(1)])
Index == Sets("index", [location EXCEPT !.index = Value(1)])
Autoindex == Sets("autoindex", [location EXCEPT !.autoindex = (Value(1) = "on")])
AllowedMethods == Sets("allowed_methods", [location EXCEPT !.allowedMethods = values])
IgnoredErrorPage == Sets("error_page", location)
parseUploadStoreDirective == Sets("upload_store", [location EXCEPT !.uploadStore = Value(1)])

parseRedirectDirective ==
  LET code == IF Len(values) = 2 THEN Number(1) ELSE 302
  IN  Sets("redirect", [location EXCEPT !.isRedirect = TRUE, !.redirectUrl = Last(values),
                          !.redirectCode = code, !.isRedirectPermanent = (code = 301)])

\* Of two return directives the second gives the code, both the message.
parseReturnDirective ==
  Sets("return", [location EXCEPT !.has_return = TRUE, !.return_code = Number(1),
                    !.return_message = @ \o Tail(values)])

parseCgiDirective ==
  /\ Read(Locations, "cgi") /\ Value(1) \in {"on", "off"}
  /\ location' = [location EXCEPT !.useCgi = (Value(1) = "on")] /\ phase' = "cgi"
  /\ UNCHANGED _servers

NeitherOnNorOff ==
  /\ phase \in Locations /\ directive = "cgi" /\ expected = <<>>
  /\ Value(1) \notin {"on", "off"}
  /\ Throw

CgiPath ==
  /\ Read({"cgi"}, "cgi_path")
  /\ location' = [location EXCEPT !.cgiPath = Value(1)]
  /\ UNCHANGED <<phase, _servers>>

EndOfLocation ==
  /\ Read(Locations, "}")
  /\ Becomes([Current EXCEPT !.locations = Append(@, location)]) /\ phase' = "server"
  /\ UNCHANGED location

loadConfig ==
  /\ phase = "servers" /\ directive = "" /\ Token.type = "END"
  /\ servers' = _servers /\ loaded' = TRUE /\ phase' = "loaded"
  /\ UNCHANGED <<file, parser, sockets>>

(* Server::StartServer.                                                     *)
addressGroups(port) ==
  Selected([k \in DOMAIN servers |-> k], {k \in DOMAIN servers : servers[k].port = port})

StartServer ==
  /\ phase = "loaded" /\ phase' = "listening"
  /\ attempts' = {servers[k].port : k \in DOMAIN servers}
  /\ UNCHANGED <<file, loaded, parser, servers, _socket_configs, _listen_fds>>

\* The lowest descriptor that is not in use.
Socket ==
  CHOOSE s \in 1..(Len(servers) + 1) :
    s \notin DOMAIN _listen_fds /\ \A lower \in 1..(s - 1) : lower \in DOMAIN _listen_fds

\* Faulty variant: as with map.insert, what is there stays.
NotesOnce(port) ==
  _socket_configs' = IF Socket \in DOMAIN _socket_configs THEN _socket_configs
                     ELSE With(_socket_configs, Socket, addressGroups(port))

Notes(port) == _socket_configs' = With(_socket_configs, Socket, addressGroups(port))

Attempt(port) ==
  /\ phase = "listening" /\ port \in attempts /\ attempts' = attempts \ {port}
  /\ UNCHANGED <<file, phase, loaded, parser, servers>>

NoSocket(port) == Attempt(port) /\ UNCHANGED <<_socket_configs, _listen_fds>>

\* setsockopt, bind, listen or addListener fails: the socket is closed.
ListenFails(port) == Attempt(port) /\ Notes(port) /\ UNCHANGED _listen_fds

listenOnAddr(port) ==
  Attempt(port) /\ Notes(port) /\ _listen_fds' = With(_listen_fds, Socket, port)

runEventLoop ==
  /\ phase = "listening" /\ attempts = {}
  /\ phase' = IF DOMAIN _listen_fds = {} THEN "exited" ELSE "running"
  /\ UNCHANGED <<file, loaded, parser, servers, sockets>>

ParserStep ==
  \/ Directive \/ UnknownDirective \/ consume \/ GoOn \/ UnexpectedToken
  \/ ServerBlock \/ parseListenDirective \/ parseServerNameDirective
  \/ parseErrorPageDirective \/ parseClientMaxBodySizeDirective \/ EndOfServer
  \/ LocationBlock \/ Root \/ Index \/ Autoindex \/ AllowedMethods \/ IgnoredErrorPage
  \/ parseUploadStoreDirective \/ parseRedirectDirective \/ parseReturnDirective
  \/ parseCgiDirective \/ NeitherOnNorOff \/ CgiPath \/ EndOfLocation

Next ==
  \/ Unopened \/ Tokenized \/ NegativeNumber \/ ParserStep \/ loadConfig
  \/ StartServer \/ runEventLoop
  \/ \E port \in attempts : NoSocket(port) \/ ListenFails(port) \/ listenOnAddr(port)

Spec == Init /\ [][Next]_vars

\* Nothing main does before the event loop waits for anyone.
FairSpec == Spec /\ WF_vars(Next)
-----------------------------------------------------------------------------
(* The types, and that the parser never reads past the END token.           *)
TypeOK ==
  /\ phase \in DOMAIN Consumes \cup {"start", "loaded", "listening", "running", "exited"}
  /\ loaded \in BOOLEAN
  /\ _index \in 1..(IF _tokens = <<>> THEN 1 ELSE Len(_tokens))
  /\ directive \in Directives \cup {""}
  /\ \A k \in DOMAIN _servers : _servers[k].port \in 0..UINT16_MAX
  /\ servers \in {<<>>, _servers}
  /\ attempts \subseteq 0..UINT16_MAX
  /\ DOMAIN _listen_fds \subseteq DOMAIN _socket_configs

(* What the text says, told from its statements and the depth of braces.    *)
Words == Front(_tokens)
Ends == {i \in DOMAIN Words : Words[i].type \in {";", "{", "}"}}
Starts == {1} \cup {i + 1 : i \in Ends}
End(i) == CHOOSE j \in Ends : i <= j /\ \A e \in Ends : e >= i => e >= j
Statements == {i \in Starts : \E e \in Ends : i <= e}    \* by their first word
Shape(i) == [k \in 1..(End(i) - i + 1) |-> Words[i + k - 1].type]
Texts(i) == [k \in 1..(End(i) - i - 1) |-> Words[i + k].value]

Count(type, i) == Cardinality({k \in 1..(i - 1) : Words[k].type = type})
Depth(i) == Count("{", i) - Count("}", i)

Forms(first, many, rest) ==
  {first \o [k \in 1..n |-> many] \o rest : n \in 0..Len(Words)}

Grammar ==
  << {<<"server", "{">>},
     {<<"}">>, <<"location", "STRING", "{">>, <<"listen", "NUMBER", ";">>,
      <<"client_max_body_size", "NUMBER", "MUL", ";">>}
       \cup Forms(<<"server_name", "STRING">>, "STRING", <<";">>)
       \cup Forms(<<"error_page">>, "NUMBER", <<"STRING", ";">>),
     {<<"}">>, <<"error_page", "NUMBER", "STRING", ";">>, <<"redirect", "STRING", ";">>,
      <<"redirect", "NUMBER", "STRING", ";">>}
       \cup {<<d, "STRING", ";">> :
              d \in {"root", "autoindex", "index", "cgi", "cgi_path", "upload_store"}}
       \cup Forms(<<"allowed_methods">>, "STRING", <<";">>)
       \cup Forms(<<"return", "NUMBER">>, "STRING", <<";">>) >>

Before(i) == CHOOSE j \in Statements : End(j) = i - 1

LegalStatement(i) ==
  /\ Depth(i) \in 0..2 /\ Shape(i) \in Grammar[Depth(i) + 1]
  /\ Words[i].type = "cgi" => Texts(i)[1] \in {"on", "off"}
  /\ Words[i].type = "cgi_path" => Words[Before(i)].type \in {"cgi", "cgi_path"}

Legal ==
  /\ ~Negative(file)
  /\ Words # <<>> => Len(Words) \in Ends
  /\ Depth(Len(Words) + 1) = 0
  /\ \A i \in Statements : LegalStatement(i)

\* Up to place n: the blocks, and the statements of one directive in the
\* block that statement i opens.
ServersUpTo(n) == {i \in Statements : i < n /\ Depth(i) = 0}
Within(i, type, n) ==
  {j \in Statements :
     /\ i < j /\ j < n /\ Words[j].type = type /\ Depth(j) = Depth(i) + 1
     /\ \A k \in (i + 1)..j : k \in Statements => Depth(k) > Depth(i)}

Nth(statements, m) == CHOOSE i \in statements : Cardinality({j \in statements : j < i}) = m - 1
LastOf(statements) == Nth(statements, Cardinality(statements))

\* The last statement of a directive decides.
Says(i, type, n, default, Meaning(_)) ==
  LET all == Within(i, type, n) IN IF all = {} THEN default ELSE Meaning(LastOf(all))

Text(i) == Texts(i)[1]
Amount(i) == Numbers[Texts(i)[1]]
Codes(i) == {Numbers[text] : text \in ToSet(Front(Texts(i)))}
Unit(i) == Texts(i)[2]
Bytes(i) == Amount(i) * Sizes[Unit(i)]

LocationAsWritten(read, i, n) ==
  LET new == NewLocation(Text(i))
      redirect(j) == IF Len(Texts(j)) = 2 THEN Amount(j) ELSE 302
      returns == Within(i, "return", n)
  IN  /\ read.location = Text(i)
      /\ read.root = Says(i, "root", n, "", Text)
      /\ read.index = Says(i, "index", n, new.index, Text)
      /\ read.autoindex = Says(i, "autoindex", n, FALSE, LAMBDA j : Text(j) = "on")
      /\ read.uploadStore = Says(i, "upload_store", n, "", Text)
      /\ read.allowedMethods = Says(i, "allowed_methods", n, new.allowedMethods, Texts)
      /\ read.useCgi = Says(i, "cgi", n, FALSE, LAMBDA j : Text(j) = "on")
      /\ read.cgiPath = Says(i, "cgi_path", n, "", Text)
      /\ read.isRedirect <=> Within(i, "redirect", n) # {}
      /\ read.redirectUrl = Says(i, "redirect", n, "", LAMBDA j : Last(Texts(j)))
      /\ read.redirectCode = Says(i, "redirect", n, 0, redirect)
      /\ read.isRedirectPermanent = (read.redirectCode = 301)
      /\ read.has_return <=> returns # {}
      /\ read.return_code = Says(i, "return", n, 0, Amount)
      /\ read.return_message =
           FlattenSeq([m \in 1..Cardinality(returns) |-> Tail(Texts(Nth(returns, m)))])

LocationsAsWritten(read, i, n) ==
  LET locations == Within(i, "location", n)
  IN  /\ Len(read) = Cardinality(locations)
      /\ \A m \in DOMAIN read : LocationAsWritten(read[m], Nth(locations, m), n)

\* A port or a code that does not fit in its type, and a unit in upper case,
\* are taken for something else: of these nothing is said.
SHRT_MIN == -32768
SHRT_MAX == 32767

ServerAsWritten(read, i, n) ==
  LET pages == Within(i, "error_page", n)
      port == Says(i, "listen", n, 80, Amount)
  IN  /\ port \in 0..UINT16_MAX => read.port = port
      /\ read.serverNames = Says(i, "server_name", n, <<"localhost">>, Texts)
      /\ Says(i, "client_max_body_size", n, "m", Unit) \in LowerCase =>
           read.clientMaxBodySize = Says(i, "client_max_body_size", n, Sizes["m"], Bytes)
      /\ (\A j \in pages : Codes(j) \subseteq SHRT_MIN..SHRT_MAX) =>
           /\ DOMAIN read.errorPages = UNION {Codes(j) : j \in pages}
           /\ \A code \in DOMAIN read.errorPages :
                read.errorPages[code] = Last(Texts(LastOf({j \in pages : code \in Codes(j)})))

AsWritten(read, n) ==
  /\ Len(read) = Cardinality(ServersUpTo(n))
  /\ \A m \in DOMAIN read :
       /\ ServerAsWritten(read[m], Nth(ServersUpTo(n), m), n)
       /\ LocationsAsWritten(read[m].locations, Nth(ServersUpTo(n), m), n)

(* A file is taken as a whole or not at all: when it is in the grammar, and *)
(* then every block and location stands for what is written between its     *)
(* braces, the last directive of a kind deciding (Parser, loadConfig), as   *)
(* far as its numbers fit and its units are in lower case.                  *)
ParsedAsWritten ==
  phase = "loaded" =>
    /\ loaded <=> (_tokens # <<>> /\ Legal)
    /\ ~loaded => servers = <<>>
    /\ loaded => AsWritten(servers, Len(Words) + 1)

(* "Parse the configuration file for server details (port, host, routes)"   *)
(* (README.md:13): a block listens on the port that is written, or is not   *)
(* taken.                                                                   *)
Written(m) == Nth(ServersUpTo(Len(Words) + 1), m)

PortsAsWritten ==
  phase = "loaded" /\ loaded => \A m \in DOMAIN servers :
    servers[m].port = Says(Written(m), "listen", Len(Words) + 1, 80, Amount)

(* "Parse a size string (like "10M", "1G", etc.)" (Parser.cpp:85): a unit   *)
(* means the same in either case.                                           *)
Lower(unit) == CASE unit = "K" -> "k" [] unit = "M" -> "m" [] unit = "G" -> "g" [] OTHER -> unit

SizesAsWritten ==
  phase = "loaded" /\ loaded => \A m \in DOMAIN servers :
    servers[m].clientMaxBodySize =
      Says(Written(m), "client_max_body_size", Len(Words) + 1, Sizes["m"],
           LAMBDA j : Amount(j) * Sizes[Lower(Unit(j))])

\* Piece k of word i is after a "#" on its line.
Commented(i, k) ==
  \E j \in 1..i : \E q \in DOMAIN file[j] :
    /\ file[j][q] = "#" /\ (j = i => q <= k)
    /\ \A m \in j..i : file[m] # <<"\n">>

(* SanitizeInput cuts any word with a digit before k, m or g; no file in    *)
(* which it has cut anything but a size is taken: what is before the unit   *)
(* is a number from the beginning of the word, and nothing but the end of   *)
(* the statement, or a comment, follows in the word.                        *)
WordsWhole ==
  phase = "loaded" /\ loaded =>
    \A i \in DOMAIN file : \A k \in 2..Len(file[i]) :
      file[i][k] \in DOMAIN Sizes /\ ~Commented(i, k) =>
        /\ k = 2 /\ file[i][1] \in DOMAIN Numbers
        /\ Len(file[i]) > 2 => file[i][3] \in {";", "#"}

(* Whatever fails for one address, and whatever descriptor it leaves to the *)
(* next, each listening socket has an address of its own and answers for    *)
(* all blocks of that address, in the order of the file (listenOnAddr).     *)
AddressesServed ==
  /\ \A s \in DOMAIN _listen_fds :
       /\ ToSet(_socket_configs[s]) = {k \in DOMAIN servers : servers[k].port = _listen_fds[s]}
       /\ \A n \in 1..(Len(_socket_configs[s]) - 1) : _socket_configs[s][n] < _socket_configs[s][n + 1]
       /\ \A other \in DOMAIN _listen_fds \ {s} : _listen_fds[other] # _listen_fds[s]
  /\ phase = "running" => _listen_fds # << >>

(* Every file is read to an end, and the program gets to its event loop or  *)
(* out: parsing never stays at a token (the loops of Parser).               *)
ParsingEnds == <>(phase \in {"running", "exited"})
=============================================================================
