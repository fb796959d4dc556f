-------------------------------- MODULE Site --------------------------------
(* From a parsed request to its response: the choice of server block and    *)
(* location, GET, POST and DELETE on the file system, redirections, and the *)
(* response a script gives.                                                 *)
(*                                                                          *)
(* The server does one thing at a time, but it looks at the file system     *)
(* again and again, and scripts it started (or anybody else) change files   *)
(* between its looks.  Each action of a method goes up to its next system   *)
(* call on the file system.                                                 *)
(*                                                                          *)
(* Abstractions: a path or URI is a sequence of its characters (of pieces,  *)
(* where more is not needed), normalised by the request parser already;     *)
(* ".p" stands for the extensions ".py" and ".php"; a file's data is a      *)
(* sequence of pieces; pages the server writes itself are one piece; an     *)
(* error page is read in the step that decides for it.                      *)
EXTENDS Naturals, SequencesExt

CONSTANTS
  Requests,     \* what peers may ask for
  Servers,      \* the server blocks of one listening address, in file order
  Tree,         \* the files at the start
  Stamps,       \* what get_timestamp_str returns, second after second
  ScriptFiles,  \* the paths scripts work on
  Outputs,      \* what scripts answer
  MaxRequests, MaxMeddling

\* Strings, and those the definitions here use: the provers do not know that
\* these are strings.
Pieces == STRING \cup {"/", ".", "p", "upload_", ".bin", "CRLF", "other", "page"}
Text == Seq(Pieces)
Methods == {"GET", "POST", "DELETE"}

\* A location block, and a part of a multipart body.
Location ==
  [location : Text, root : Text, index : Text, autoindex : BOOLEAN, allowedMethods : SUBSET Methods,
   isRedirect : BOOLEAN, isRedirectPermanent : BOOLEAN, redirectUrl : Text, has_return : BOOLEAN,
   return_code : Nat, return_message : Text, useCgi : BOOLEAN, cgiPath : Text, uploadStore : Text]
FormPart == [name : Text, form : {"good", "no filename", "bad name", "cut"}, data : Text]

VARIABLES
  fs,          \* the file system: path -> type, data, mode
  clock,       \* the second, an index of Stamps
  asked,       \* number of requests so far
  meddling,    \* number of steps of others on the file system
  request, server_config, location_config,  \* of the current request
  path,        \* the local variable of that name
  parts,       \* of a multipart body: the parts not handled yet
  response,    \* status_code (0: never set), body, headers
  pc,          \* "idle", "build", "done", "crashed", or the next system call
  effects,     \* history: what the server did to the file system for this
               \* request, in order: the path, and the entry it had written
  disturbed    \* history: others changed a file since the request came

files == <<fs, meddling, disturbed>>
routing == <<asked, request, server_config, location_config>>
vars == <<files, clock, routing, path, parts, response, pc, effects>>

\* No server block, no location: what a request has whose head is wrong.
NoServer == [serverNames |-> {}, errorPages |-> [s \in {} |-> <<>>], locations |-> <<>>]
NULL == [location |-> <<>>]

(* The file system.                                                         *)
File(data) == [type |-> "file", data |-> data, mode |-> {"r", "w"}]
Missing == [type |-> "none", data |-> <<>>, mode |-> {}]
Slashed(p) == p # <<>> /\ Last(p) = "/"
Strip(p) == IF Slashed(p) THEN Front(p) ELSE p

\* What stat() finds: a path that ends with a slash names no file.
Stat(p) ==
  IF Strip(p) \notin DOMAIN fs \/ (Slashed(p) /\ fs[Strip(p)].type = "file")
  THEN Missing ELSE fs[Strip(p)]

Slashes(p) == {i \in DOMAIN p : p[i] = "/"}
Parent(p) == IF Slashes(p) = {} THEN <<>> ELSE SubSeq(p, 1, Max(Slashes(p)) - 1)
Entries(p) == {q \in DOMAIN fs : q # p /\ Parent(q) = p}
Put(p, entry) == [q \in DOMAIN fs \cup {p} |-> IF q = p THEN entry ELSE fs[q]]
Without(p) == [q \in DOMAIN fs \ {p} |-> fs[q]]

\* Whether open() for writing, rmdir() or remove() may succeed.
Writable(p) ==
  /\ Stat(Parent(p)).type = "dir"
  /\ IF Stat(p).type = "none" THEN "w" \in Stat(Parent(p)).mode
     ELSE Stat(p).type = "file" /\ "w" \in Stat(p).mode
Removable(p) ==
  /\ Stat(p).type # "none" /\ "w" \in Stat(Parent(Strip(p))).mode
  /\ Stat(p).type = "dir" => Entries(Strip(p)) = {}

Read(p) == IF "r" \in Stat(p).mode THEN Stat(p).data ELSE <<>>

(* Routing: match_location and is_cgi_request.                              *)
normalize_path(s) ==
  LET result[i \in 0..Len(s)] ==
        IF i = 0 THEN <<>>
        ELSE IF s[i] = "/" /\ i > 1 /\ s[i - 1] = "/" THEN result[i - 1]
        ELSE Append(result[i - 1], s[i])
  IN  result[Len(s)]
Paths ==
  [s \in DOMAIN Servers |->
     [i \in DOMAIN Servers[s].locations |-> normalize_path(Servers[s].locations[i].location)]]

\* The last block that names the host, else the first.
ServerFor(host) ==
  LET named == {i \in DOMAIN Servers : host \in Servers[i].serverNames}
  IN  IF named = {} THEN 1 ELSE Max(named)

\* Faulty variant: any prefix, whatever has been found.
LastLocationFor(s, uri) ==
  LET best[i \in 0..Len(Paths[s])] ==
        IF i = 0 THEN 0 ELSE IF IsPrefix(Paths[s][i], uri) THEN i ELSE best[i - 1]
  IN  best[Len(Paths[s])]

\* An exact match ends the loop; else the longest prefix, the first of equals.
LocationFor(s, uri) ==
  LET Exact(i) == i # 0 /\ Paths[s][i] = uri
      Better(i, j) == IsPrefix(Paths[s][i], uri) /\ (j = 0 \/ Len(Paths[s][i]) > Len(Paths[s][j]))
      best[i \in 0..Len(Paths[s])] ==
        IF i = 0 THEN 0
        ELSE IF ~Exact(best[i - 1]) /\ (Exact(i) \/ Better(i, best[i - 1])) THEN i
        ELSE best[i - 1]
  IN  best[Len(Paths[s])]

IsScript(p) == IsSuffix(<<".", "p">>, p)

\* Faulty variant: the index file is not considered.
is_cgi_uri == IsScript(request.uri)

is_cgi_request ==
  IF Slashed(request.uri) /\ location_config # NULL
  THEN IsScript(request.uri \o location_config.index) ELSE IsScript(request.uri)

(* Responses.  A map of headers is a function on the names that are set.    *)
NoHeaders == [h \in {} |-> {}]
Set(headers, name, value) ==
  [h \in DOMAIN headers \cup {name} |-> IF h = name THEN value ELSE headers[h]]
Reply(status, body, headers) == [status |-> status, body |-> body, headers |-> headers]

\* The codes set_status has a line for; any other is sent as UNDEFINED_STATUS.
KnownStatus ==
  (100..102) \cup (200..208) \cup {226} \cup (300..305) \cup {307, 308}
    \cup (400..418) \cup (421..424) \cup {426, 429, 431, 444, 451, 499}
    \cup (500..508) \cup {510, 511, 599}

Page == <<"page">>
generate_error_page(status) ==
  LET page == server_config.errorPages
  IN  IF status \in DOMAIN page /\ Read(page[status]) # <<>> THEN Read(page[status]) ELSE Page
Error(status) == Reply(status, generate_error_page(status), NoHeaders)

\* Faulty variant: only a method's answer is replaced.
redirection_of_answers(r) ==
  IF location_config # NULL /\ location_config.isRedirect /\ r.status < 400
  THEN LET status == IF location_config.isRedirectPermanent THEN 301 ELSE 302
       IN  Reply(status, generate_error_page(status),
                 Set(r.headers, "Location", location_config.redirectUrl))
  ELSE r

handle_redirection(r) ==
  IF location_config # NULL /\ location_config.isRedirect
  THEN LET status == IF location_config.isRedirectPermanent THEN 301 ELSE 302
       IN  Reply(status, generate_error_page(status),
                 Set(r.headers, "Location", location_config.redirectUrl))
  ELSE r

\* A chunked answer of a script loses its length and is sent as it is.
framing(headers, body) ==
  IF "Transfer-Encoding" \notin DOMAIN headers THEN Set(headers, "Content-Length", Len(body))
  ELSE IF headers["Transfer-Encoding"] # "chunked" THEN headers
  ELSE [h \in DOMAIN headers \ {"Content-Length"} |-> headers[h]]

\* An unset status_code is read uninitialised: it may happen to be 405.
include_required_headers(r) ==
  LET plain == framing(r.headers, r.body)
      allow == IF "Allow" \in DOMAIN plain \/ location_config = NULL THEN plain
               ELSE Set(plain, "Allow", location_config.allowedMethods)
      choices == {h \in {plain, allow} : (h = plain /\ r.status # 405)
                                            \/ (h = allow /\ r.status \in {0, 405})}
  IN  {[r EXCEPT !.headers = h] : h \in choices}

generate_response_only(r) ==
  /\ response' \in include_required_headers(r)
  /\ pc' = "done"
  /\ UNCHANGED <<clock, routing, path, parts>>

\* A method has its answer; build_response ends.
Answer(r) == generate_response_only(handle_redirection(r))

Undisturbed == UNCHANGED <<files, effects>>
Goto(step) == pc' = step /\ UNCHANGED <<clock, routing, parts, response>>

Writes(p, entry) ==
  /\ fs' = Put(p, entry)
  /\ effects' = Append(effects, [path |-> p, entry |-> entry])
  /\ UNCHANGED <<meddling, disturbed>>
Removes(p) ==
  /\ fs' = Without(Strip(p))
  /\ effects' = Append(effects, [path |-> Strip(p), entry |-> Missing])
  /\ UNCHANGED <<meddling, disturbed>>

\* A path is written without a slash at its end, and without two in a row, so
\* that a file has one path.
Spelt(p) == p \in Text /\ ~Slashed(p) /\ ~Slashed(Parent(p))
Entry == [type : {"file", "dir"}, data : Text, mode : SUBSET {"r", "w"}]

\* What the parser lets through (set_request_uri, log_error,
\* process_multipart_form_data).
Parsed ==
  /\ Requests # {}
  /\ \A r \in Requests :
       /\ r.uri \in Text /\ (r.error = 0 => r.uri # <<>> /\ r.uri[1] = "/")
       /\ r.error = 0 \/ r.error \in {400, 404, 411, 414, 417, 431, 501, 505}
       /\ r.matched \in BOOLEAN /\ (~r.matched => r.error # 0)
       /\ r.body \in Text /\ r.parts \in Seq(FormPart)
       /\ r.kind # "multipart" => r.parts = <<>>
       /\ \A i \in DOMAIN r.parts : r.parts[i].form = "good" => "/" \notin ToSet(r.parts[i].name)

ASSUME RequestsAssumption == Parsed

\* What the configuration gives, and what there is on the disk.  An
\* upload_store is written without a slash at its end: a file has one path here.
Configured ==
  /\ Servers \in Seq({Servers[i] : i \in DOMAIN Servers}) \ {<<>>}
  /\ \A i \in DOMAIN Servers : /\ Servers[i].locations \in Seq(Location)
                              /\ \A l \in ToSet(Servers[i].locations) : ~Slashed(l.uploadStore)
  /\ Stamps \in Seq(Pieces \ {"/"}) \ {<<>>}
  /\ \A p \in DOMAIN Tree : Spelt(p) /\ Tree[p] \in Entry
  /\ \A p \in DOMAIN Tree \ {<<>>} : Parent(p) \in DOMAIN Tree /\ Tree[Parent(p)].type = "dir"
  /\ \A p \in ScriptFiles : Spelt(p)
  /\ \A out \in Outputs : out.status \in Seq(Nat)
  /\ MaxRequests \in Nat /\ MaxMeddling \in Nat
ASSUME SiteAssumption == Configured

Init ==
  /\ fs = Tree /\ clock = 1 /\ asked = 0 /\ meddling = 0 /\ disturbed = FALSE
  /\ request = (CHOOSE r \in Requests : TRUE) /\ server_config = Servers[1] /\ location_config = NULL
  /\ path = <<>> /\ parts = <<>> /\ effects = <<>>
  /\ response = Reply(0, <<>>, NoHeaders) /\ pc = "idle"

\* A request has been parsed: its server and location are looked up, unless
\* something was wrong already (errors of a body that comes later do not
\* count), and a ResponseBuilder is made for it.
Receive(r) ==
  /\ pc \in {"idle", "done"} /\ asked < MaxRequests
  /\ asked' = asked + 1 /\ request' = r
  /\ IF r.matched
     THEN /\ server_config' = Servers[ServerFor(r.host)]
          /\ location_config' = LET i == LocationFor(ServerFor(r.host), r.uri)
                                IN  IF i = 0 THEN NULL ELSE server_config'.locations[i]
     ELSE server_config' = NoServer /\ location_config' = NULL
  /\ response' = Reply(0, <<>>, NoHeaders) /\ pc' = "build"
  /\ path' = <<>> /\ parts' = <<>> /\ effects' = <<>> /\ disturbed' = FALSE
  /\ UNCHANGED <<fs, clock, meddling>>

(* build_response and processCGIRequest, up to the method or the script.    *)
Routes == location_config.allowedMethods \cap Methods
ForScript == is_cgi_request /\ request.method # "DELETE"
Building == pc = "build" /\ ~ForScript /\ Undisturbed
BuildingFor == Building /\ request.error = 0 /\ location_config # NULL

\* Refused by the parser, or by match_location: no redirection.
ParseError ==
  /\ Building /\ (request.error # 0 \/ location_config = NULL)
  /\ generate_response_only(Error(IF request.error # 0 THEN request.error ELSE 404))

ReturnDirective ==
  /\ BuildingFor /\ location_config.has_return
  /\ Answer(Reply(location_config.return_code, location_config.return_message, NoHeaders))

Calls(methods) ==
  /\ BuildingFor /\ ~location_config.has_return
  /\ request.method \in methods

NotAllowed == Calls(Methods \ Routes) /\ Answer(Error(405))

DefaultRoot ==
  /\ Calls({"GET"} \cap Routes) /\ request.uri = <<"/">> /\ location_config.root = <<>>
  /\ Answer(Reply(200, Page, NoHeaders))

CallMethod ==
  /\ Calls(Routes)
  /\ ~(request.method = "GET" /\ request.uri = <<"/">> /\ location_config.root = <<>>)
  /\ path' = IF request.method = "POST" THEN location_config.uploadStore ELSE location_config.root \o request.uri
  /\ Goto(request.method)

\* get_location_config() is NULL for a script without a location.
Crash ==
  /\ pc = "build" /\ ForScript /\ location_config = NULL
  /\ Goto("crashed") /\ Undisturbed /\ UNCHANGED path

ScriptCalled == pc = "build" /\ ForScript /\ location_config # NULL /\ Undisturbed
ScriptAllowed == location_config.useCgi /\ request.method \in Routes

ScriptRefused == ScriptCalled /\ ~ScriptAllowed /\ generate_response_only(Error(405))

\* No interpreter, no script, or no pipe, process or body file to be had.
ScriptFails == ScriptCalled /\ ScriptAllowed /\ generate_response_only(Error(500))

ScriptStarts ==
  /\ ScriptCalled /\ ScriptAllowed /\ location_config.cgiPath # <<>>
  /\ Stat(location_config.root \o request.uri).type # "none"
  /\ Goto("script") /\ UNCHANGED path

(* GET.                                                                     *)
At(step) == pc = step /\ Undisturbed

\* Faulty variant: the path of the directory is kept.
ServePath(p) ==
  IF "r" \in Stat(p).mode THEN path' = path /\ Goto("read") ELSE Answer(Error(403))

\* What stat() found must be readable by its owner; then the file is read.
Serve(p) ==
  IF "r" \in Stat(p).mode THEN path' = p /\ Goto("read") ELSE Answer(Error(403))

Found(type) == Stat(path).type = type

GetMissing == At("GET") /\ Found("none") /\ Answer(Error(404))

GetFile == At("GET") /\ Found("file") /\ Serve(path)

GetUnslashed ==
  /\ At("GET") /\ Found("dir") /\ ~Slashed(request.uri)
  /\ Answer(Reply(301, generate_error_page(301),
                  Set(NoHeaders, "Location", Append(request.uri, "/"))))

GetDirectory ==
  /\ At("GET") /\ Found("dir") /\ Slashed(request.uri)
  /\ Goto("index") /\ UNCHANGED path

GetIndex ==
  /\ At("index") /\ Stat(path \o location_config.index).type # "none"
  /\ Serve(path \o location_config.index)

GetNoIndex ==
  /\ At("index") /\ Stat(path \o location_config.index).type = "none"
  /\ IF location_config.autoindex THEN Goto("opendir") /\ UNCHANGED path ELSE Answer(Error(403))

GetListing ==
  /\ At("opendir")
  /\ Answer(IF Found("dir") /\ "r" \in Stat(path).mode THEN Reply(200, Page, NoHeaders)
            ELSE Error(403))

\* read_file gives "" when the file cannot be opened any more.
ReadFile == At("read") /\ Answer(Reply(200, Read(path), NoHeaders))

(* POST.                                                                    *)
PostNowhere == At("POST") /\ ~Found("dir") /\ Answer(Error(500))

PostNoBoundary ==
  /\ At("POST") /\ Found("dir") /\ request.kind = "no boundary"
  /\ Answer(Error(403))

PostUpload ==
  /\ At("POST") /\ Found("dir") /\ request.kind # "no boundary"
  /\ pc' = (IF request.kind = "multipart" THEN "part" ELSE "save")
  /\ parts' = request.parts
  /\ UNCHANGED <<clock, routing, path, response>>

\* Faulty variant: no time in the name.
NameTimeless(name) == location_config.uploadStore \o <<"/", "upload_">> \o name

\* The file an upload goes to: the second, and the name its part gives.
Name(name) == location_config.uploadStore \o <<"/", "upload_", Stamps[clock]>> \o name

Saved(p) == <<"saved", p>>

Save ==
  LET full_path == Name(<<".bin">>)
  IN  /\ pc = "save"
      /\ IF Writable(full_path)
         THEN /\ Writes(full_path, File(request.body))
              /\ Answer(Reply(201, Saved(full_path), NoHeaders))
         ELSE Undisturbed /\ Answer(Error(403))

\* Faulty variant: a part without a file name is looked at again.
SkipsPartAgain ==
  /\ At("part") /\ parts # <<>>
  /\ Head(parts).form # "good" \/ ~Writable(Name(Head(parts).name))
  /\ parts' = CASE Head(parts).form = "cut" -> <<>> [] Head(parts).form = "no filename" -> parts
                [] OTHER -> Tail(parts)
  /\ UNCHANGED <<clock, routing, path, response, pc>>

\* A part of a form.  Its data ends at the boundary, so that the line end
\* before it is kept.  What is wrong with a part is passed over; a part
\* without an end is the last.
SkipsPart ==
  /\ At("part") /\ parts # <<>>
  /\ Head(parts).form # "good" \/ ~Writable(Name(Head(parts).name))
  /\ parts' = IF Head(parts).form = "cut" THEN <<>> ELSE Tail(parts)
  /\ UNCHANGED <<clock, routing, path, response, pc>>

SavePart ==
  /\ pc = "part" /\ parts # <<>> /\ Head(parts).form = "good"
  /\ LET full_path == Name(Head(parts).name)
     IN  /\ Writable(full_path)
         /\ Writes(full_path, File(Append(Head(parts).data, "CRLF")))
         /\ response' = Reply(201, Saved(full_path), Set(response.headers, "Location", full_path))
  /\ parts' = Tail(parts)
  /\ UNCHANGED <<clock, routing, path, pc>>

\* Faulty variant: the first part that was saved is answered.
PartsEndEarly == At("part") /\ (parts = <<>> \/ response.status = 201) /\ Answer(response)

PartsEnd == At("part") /\ parts = <<>> /\ Answer(response)

(* DELETE.                                                                  *)
DeleteMissing == At("DELETE") /\ Found("none") /\ Answer(Error(404))

DeleteUnslashed ==
  /\ At("DELETE") /\ Found("dir") /\ ~Slashed(request.uri)
  /\ Answer(Reply(301, <<>>, Set(NoHeaders, "Location", Append(request.uri, "/"))))

DeleteGoesOn ==
  /\ At("DELETE")
  /\ \/ Found("dir") /\ Slashed(request.uri) /\ Goto("readdir")
     \/ Found("file") /\ Goto("remove")
  /\ UNCHANGED path

DeleteUnreadable ==
  At("readdir") /\ ~(Found("dir") /\ "r" \in Stat(path).mode) /\ Answer(Error(403))

DeleteNotEmpty ==
  /\ At("readdir") /\ Found("dir") /\ "r" \in Stat(path).mode /\ Entries(Strip(path)) # {}
  /\ Answer(Error(409))

DeleteEmpty ==
  /\ At("readdir") /\ Found("dir") /\ "r" \in Stat(path).mode /\ Entries(Strip(path)) = {}
  /\ Goto("access") /\ UNCHANGED path

DeleteAccess ==
  /\ At("access")
  /\ IF "w" \in Stat(path).mode THEN Goto("rmdir") /\ UNCHANGED path ELSE Answer(Error(403))

\* rmdir() wants a directory, remove() takes what it finds.
Delete ==
  /\ pc \in {"rmdir", "remove"}
  /\ IF Removable(path) /\ (pc = "rmdir" => Found("dir"))
     THEN Removes(path) /\ Answer(Reply(204, <<>>, NoHeaders))
     ELSE Undisturbed /\ Answer(Error(500))

(* The script of a request, and everybody else.                             *)
\* processCGIOutput: the last "Status" of three digits from 100 to 599.
ScriptStatus(codes) ==
  LET good == {i \in DOMAIN codes : codes[i] \in 100..599}
  IN  IF good = {} THEN 200 ELSE codes[Max(good)]

ScriptEnds(out) ==
  /\ At("script")
  /\ generate_response_only(Reply(ScriptStatus(out.status), out.body, out.headers))

Meddles(p, tree) ==
  /\ meddling < MaxMeddling /\ meddling' = meddling + 1
  /\ fs' = tree /\ fs' # fs
  /\ disturbed' = TRUE
  /\ UNCHANGED <<clock, routing, path, parts, response, pc, effects>>

Creates(p) ==
  /\ p \notin DOMAIN fs /\ Stat(Parent(p)).type = "dir"
  /\ \E type \in {"file", "dir"} :
       Meddles(p, Put(p, [File(<<"other">>) EXCEPT !.type = type]))
Rewrites(p) == Stat(p).type = "file" /\ Meddles(p, Put(p, File(<<"other">>)))
Withdraws(p) == p \in DOMAIN fs /\ Entries(p) = {} /\ Meddles(p, Without(p))
Locks(p) == p \in DOMAIN fs /\ Meddles(p, [fs EXCEPT ![p].mode = {}])
Others == \E p \in ScriptFiles : Creates(p) \/ Rewrites(p) \/ Withdraws(p) \/ Locks(p)

Tick ==
  /\ clock < Len(Stamps) /\ clock' = clock + 1
  /\ UNCHANGED <<files, routing, path, parts, response, pc, effects>>

Build ==
  \/ ParseError \/ ReturnDirective \/ NotAllowed \/ DefaultRoot \/ CallMethod
  \/ Crash \/ ScriptRefused \/ ScriptFails \/ ScriptStarts
doGET ==
  \/ GetMissing \/ GetFile \/ GetUnslashed \/ GetDirectory \/ GetIndex
  \/ GetNoIndex \/ GetListing \/ ReadFile
doPOST == PostNowhere \/ PostNoBoundary \/ PostUpload \/ Save \/ SkipsPart \/ SavePart \/ PartsEnd
doDELETE ==
  \/ DeleteMissing \/ DeleteUnslashed \/ DeleteGoesOn \/ DeleteUnreadable
  \/ DeleteNotEmpty \/ DeleteEmpty \/ DeleteAccess \/ Delete
ServerStep == Build \/ doGET \/ doPOST \/ doDELETE

Next ==
  \/ \E r \in Requests : Receive(r)
  \/ ServerStep
  \/ \E out \in Outputs : ScriptEnds(out)
  \/ Others \/ Tick

Spec == Init /\ [][Next]_vars
FairSpec == Spec /\ WF_vars(ServerStep)

-----------------------------------------------------------------------------
TypeOK ==
  /\ \A p \in DOMAIN fs : fs[p].type \in {"file", "dir"} /\ fs[p].mode \subseteq {"r", "w"}
  /\ clock \in DOMAIN Stamps /\ asked \in 0..MaxRequests /\ meddling \in 0..MaxMeddling
  /\ request \in Requests /\ server_config \in ToSet(Servers) \cup {NoServer}
  /\ location_config \in ToSet(server_config.locations) \cup {NULL}
  /\ parts = <<>> \/ pc = "part"
  /\ response.status \in Nat
  /\ pc \in {"idle", "build", "GET", "index", "opendir", "read", "POST", "save", "part",
             "DELETE", "readdir", "access", "rmdir", "remove", "script", "done", "crashed"}
  /\ disturbed \in BOOLEAN
  \* no file is an orphan: directories go only when they are empty
  /\ \A p \in DOMAIN fs \ {<<>>} : Stat(Parent(p)).type = "dir"

\* A host that a block names is served by such a block.  The location is the
\* one with the longest path that the URI begins with, whatever the order in
\* the file, and there is none only if the URI begins with none
\* (match_location).
RoutedRight ==
  pc = "build" /\ request.matched =>
    LET matching == {l \in ToSet(server_config.locations) :
                       IsPrefix(normalize_path(l.location), request.uri)}
    IN  /\ request.host \in UNION {Servers[i].serverNames : i \in DOMAIN Servers}
             => request.host \in server_config.serverNames
        /\ IF location_config = NULL THEN matching = {}
           ELSE /\ location_config \in matching
                /\ \A l \in matching : Len(normalize_path(l.location))
                                         <= Len(normalize_path(location_config.location))

Redirects == location_config # NULL /\ request.error = 0 /\ ~ForScript /\ location_config.isRedirect
Target == Strip(location_config.root \o request.uri)

\* The response says what happened to the files.  One that refuses or fails
\* changed nothing; 204 means that the requested file, and only it, was
\* removed, and 201 that all that was written are uploads, the last of which
\* the response names.  Any other changed nothing.  Only a form without a
\* part that could be saved has no status at all (or a return directive that
\* says so), and only a configured or a script's status may have no status
\* line.  A redirecting location
\* answers with its redirection, whatever the method did (build_response).
AnswerTellsEffects ==
  pc = "done" =>
    /\ effects # <<>> => /\ request.error = 0 /\ location_config # NULL /\ ~location_config.has_return
                         /\ request.method \in Routes \ {"GET"}
    /\ Redirects => /\ response.status \in {301, 302}
                    /\ response.headers["Location"] = location_config.redirectUrl
    /\ ~Redirects =>
         CASE response.status = 204 /\ ~ForScript ->
                effects = <<[path |-> Target, entry |-> Missing]>> \/ location_config.has_return
           [] response.status = 201 /\ ~ForScript ->
                \/ location_config.has_return
                \/ /\ effects # <<>> /\ response.body = Saved(Last(effects).path)
                   /\ \A i \in DOMAIN effects : Parent(effects[i].path) = location_config.uploadStore
           [] response.status = 0 ->
                /\ effects = <<>>
                /\ request.kind = "multipart" \/ location_config.has_return
           [] OTHER -> effects = <<>>
    /\ effects = <<>> \/ ~ForScript
    /\ \/ response.status \in KnownStatus \cup {0}
       \/ location_config # NULL /\ location_config.has_return
       \/ ForScript

Plain ==
  /\ location_config # NULL /\ request.error = 0
  /\ ~ForScript /\ ~location_config.isRedirect /\ ~location_config.has_return

\* When nobody changed a file during a request, the response fits the files:
\* 404 means that nothing is there, 200 brings a whole file, or a page of the
\* server's own where there is a directory, what was deleted is gone, what was
\* uploaded is there as it was last written, and a directory is kept while it
\* has entries (doGET, doPOST, doDELETE between their system calls).
AnswerFitsFiles ==
  pc = "done" /\ Plain /\ ~disturbed =>
    LET there == Stat(location_config.root \o request.uri)
        index == Stat(location_config.root \o request.uri \o location_config.index)
    IN  /\ response.status = 404 => there.type = "none"
        /\ response.status = 301 => there.type = "dir" /\ ~Slashed(request.uri)
        /\ response.status = 200 =>
             \/ there.type = "file" /\ response.body = there.data
             \/ there.type = "dir" /\ index.type # "none" /\ response.body = index.data
             \/ there.type = "dir" /\ index.type = "none" /\ location_config.autoindex
             \/ location_config.root = <<>> /\ request.uri = <<"/">>
        /\ response.status = 204 => there.type = "none"
        /\ response.status = 409 => Entries(Target) # {}
        /\ \A i \in DOMAIN effects :
             (\A j \in DOMAIN effects : effects[j].path = effects[i].path => j <= i)
               => Stat(effects[i].path) = effects[i].entry

\* A script is run or refused, never sent as a file: what is_cgi_request takes
\* for a script from the URI and the index file, and what doGET finds there,
\* are the same.
ScriptsNotServed == pc = "read" => ~IsScript(path)

\* The server touches only the file a request is about: DELETE removes its
\* target and no directory with entries, POST creates files named after the
\* second, and overwrites only those of the same second (get_timestamp_str).
UploadsKept ==
  [][ meddling' = meddling =>
        /\ \A p \in DOMAIN fs \ DOMAIN fs' :
             request.method = "DELETE" /\ p = Target /\ Entries(p) = {}
        /\ \A p \in DOMAIN fs' :
             \/ p \in DOMAIN fs /\ fs'[p] = fs[p]
             \/ request.method = "POST" /\ Stamps[clock] \in ToSet(p) ]_vars

Waiting == pc \notin {"idle", "done", "script"}

\* A request is answered or has its script started, unless it is for a script
\* and outside every location (build_response, processCGIRequest).
Answered ==
  Waiting /\ (location_config # NULL \/ ~ForScript) ~> pc \in {"done", "script"}

\* "Provide default error pages and send appropriate HTTP error codes (e.g.,
\* 404, 403)" (README.md:17): so it is with every request.
AllAnswered == Waiting ~> pc \in {"done", "script"}
=============================================================================
