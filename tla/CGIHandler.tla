----------------------------- MODULE CGIHandler -----------------------------
(***************************************************************************)
(* The life of a CGI process: fork and exec (CGIHandler::startCGI), the    *)
(* pipe its output comes through (onEvent, finalizeCGI), its death by      *)
(* timeout or with its connection (terminate), and what ClientServer does  *)
(* with the result (processCGIRequest, checkCGIProgress, onCGIComplete).   *)
(*                                                                         *)
(* A connection points to one CGIHandler, _pendingCgi.  Nothing keeps a    *)
(* peer from sending a request while the one before is not answered, and   *)
(* a CGI that this starts takes the pointer over: the handler before it    *)
(* lives on without a client that would look after it.                     *)
(*                                                                         *)
(* The server is one thread: waitpid() in finalizeCGI, and the polling     *)
(* loop around it in terminate, hold up every client.  Child and server    *)
(* share one epoll instance, so what the child does to it, the server sees.*)
(*                                                                         *)
(* Abstractions: one event at a time (batches are EventLoop's subject);    *)
(* output is counted in units, its text is left out; a client's peer may   *)
(* leave at any time, and its requests are for scripts (ClientServer has   *)
(* the others, and the response builder that the handlers write to).  A    *)
(* handler whose process is gone is free for a new request: one that was   *)
(* overwritten is never deleted in the code, but nothing refers to it.     *)
(***************************************************************************)
EXTENDS Integers

CONSTANTS
  Client,        \* connections
  Handler,       \* CGIHandler objects, as many as there may be processes
  NoClient,      \* the connection of a handler has ended
  NoHandler,     \* NULL
  OutputSize,    \* bound on the units a script writes
  ReadSize,      \* units one read() takes: sizeof(buffer) - 1 in onEvent
  PipeSize,      \* units a pipe holds
  ExecMayFail,   \* whether execve() may fail
  DeathMayLast   \* whether a killed process may outlive terminate's 2 seconds

ASSUME CGIHandlerAssumption ==
  /\ NoClient \notin Client /\ NoHandler \notin Handler
  /\ OutputSize \in Nat \ {0}
  /\ ReadSize \in Nat \ {0}
  /\ PipeSize \in Nat \ {0}
  /\ ExecMayFail \in BOOLEAN /\ DeathMayLast \in BOOLEAN

VARIABLES
  listening,    \* the listening socket is in the epoll interest list
  sockets,      \* clients whose socket is in it
  pipes,        \* handlers whose pipe is in it
  is_started,   \* ClientServer::_is_started
  pendingCgi,   \* of each client, the handler _pendingCgi points to
                \* (_waitingForCGI is true whenever there is one)
  owner,        \* of each handler, the connection clientServer points to
  output_fd,    \* handlers whose pipe is open
  pid,          \* handlers that know a process
  child,        \* the process: "none", "forked" (before execve), "running",
                \* "lingering" (its output closed), "dying", "exited"
                \* (SIGCHLD is ignored: the kernel reaps it, and waitpid()
                \* fails from then on)
  alone,        \* the child, not yet past execve, has a copy of _listeners
                \* with its client and the listening socket only
  written,      \* units the script has written
  cgi_output,   \* units the handler has read
  expired,      \* elapsed > TIME_OUT_SECONDS
  response,     \* "none", "output", or "error": 405, 500 or 504
  pc,           \* "loop", or where the server is: "waitpid", "terminate"
  cur,          \* ... for this handler
  after,        \* ... and what follows terminate: "error" or "close"
  forgotten,    \* history: handlers whose process was given up, but not killed
  pipelined,    \* history: clients whose peer asked again too early
  overwritten   \* history: handlers whose client then forgot them

epoll == <<listening, sockets, pipes>>
script == <<child, alone, written, expired>>
handler == <<pendingCgi, owner, output_fd, pid, cgi_output>>
thread == <<pc, cur, after>>
history == <<forgotten, pipelined, overwritten>>
vars == <<epoll, is_started, script, handler, response, thread, history>>

Buffered(h) == written[h] - cgi_output[h]
AtMost(m, n) == IF m <= n THEN m ELSE n

\* No process holds the write end of the pipe: EPOLLHUP.
HungUp(h) == child[h] \in {"lingering", "exited"}

Init ==
  /\ listening = TRUE
  /\ sockets = {} /\ pipes = {}
  /\ is_started = {} /\ output_fd = {} /\ pid = {}
  /\ pendingCgi = [c \in Client |-> NoHandler]
  /\ owner = [h \in Handler |-> NoClient]
  /\ child = [h \in Handler |-> "none"]
  /\ alone = {}
  /\ written = [h \in Handler |-> 0]
  /\ cgi_output = [h \in Handler |-> 0]
  /\ expired = {}
  /\ response = [c \in Client |-> "none"]
  /\ pc = "loop" /\ cur = NoHandler /\ after = "close"
  /\ forgotten = {} /\ pipelined = {} /\ overwritten = {}
-----------------------------------------------------------------------------
(* The child process and the clock                                         *)

ChildSame == UNCHANGED <<is_started, handler, response, thread, history>>

Exec(h) ==
  /\ child[h] = "forked"
  /\ child' = [child EXCEPT ![h] = "running"]
  /\ alone' = alone \ {h}
  /\ ChildSame /\ UNCHANGED <<epoll, written, expired>>

\* Server::terminate, in the child of h: it removes the listening socket and
\* the client from the epoll instance, and its log goes to the pipe.
ServerTerminate(h) ==
  /\ listening' = FALSE /\ sockets' = sockets \ {owner[h]}
  /\ written' = [written EXCEPT ![h] = 1]
  /\ UNCHANGED pipes

\* execve() fails and exit(1) destroys the statics of the child, the first
\* of them the IOMultiplexer, whose terminate() dereferences rend().  With
\* two entries in the map that may be Server's.  Otherwise the child crashes
\* before it removes anything.
ExecFails(h) ==
  /\ ExecMayFail /\ child[h] = "forked"
  /\ child' = [child EXCEPT ![h] = "exited"]
  /\ \/ UNCHANGED <<epoll, written>>
     \/ h \in alone /\ ServerTerminate(h)
  /\ alone' = alone \ {h}
  /\ ChildSame /\ UNCHANGED expired

\* The script writes; a full pipe blocks it.
Write(h) ==
  /\ child[h] = "running"
  /\ written[h] < OutputSize /\ Buffered(h) < PipeSize
  /\ written' = [written EXCEPT ![h] = @ + 1]
  /\ ChildSame /\ UNCHANGED <<epoll, child, alone, expired>>

\* The script closes its output and goes on.
CloseOutput(h) ==
  /\ child[h] = "running"
  /\ child' = [child EXCEPT ![h] = "lingering"]
  /\ ChildSame /\ UNCHANGED <<epoll, alone, written, expired>>

\* The script exits, or a killed process is gone.
Exit(h) ==
  /\ child[h] \in {"running", "lingering", "dying"}
  /\ child' = [child EXCEPT ![h] = "exited"]
  /\ ChildSame /\ UNCHANGED <<epoll, alone, written, expired>>

\* More than TIME_OUT_SECONDS have passed since the CGI started.  Nobody asks
\* how old a handler is that no client points to.
Expire(h) ==
  /\ owner[h] \in Client /\ pendingCgi[owner[h]] = h
  /\ h \notin expired
  /\ expired' = expired \cup {h}
  /\ ChildSame /\ UNCHANGED <<epoll, child, alone, written>>
-----------------------------------------------------------------------------
(* ClientServer::processCGIRequest and CGIHandler::startCGI                *)

\* A connection is accepted; it is what Server and EventLoop do.
Accept(c) ==
  /\ pc = "loop" /\ listening
  /\ c \notin is_started
  /\ is_started' = is_started \cup {c}
  /\ sockets' = sockets \cup {c}
  /\ UNCHANGED <<listening, pipes, script, handler, response, thread, history>>

\* A request is complete, whether or not the one before is answered.
CgiRequest(c) ==
  /\ pc = "loop"
  /\ c \in sockets
  /\ pipelined' = IF pendingCgi[c] = NoHandler /\ response[c] = "none"
                  THEN pipelined ELSE pipelined \cup {c}

\* The handler that c points to, if any, loses its client.
Overwritten(c) == overwritten \cup ({pendingCgi[c]} \ {NoHandler})

\* Everything succeeds.
StartCGI(c, h) ==
  /\ CgiRequest(c) /\ child[h] = "none"
  /\ child' = [child EXCEPT ![h] = "forked"]
  /\ alone' = IF is_started = {c} /\ pipes = {} THEN alone \cup {h} ELSE alone
  /\ pipes' = pipes \cup {h}
  /\ overwritten' = Overwritten(c)
  /\ pendingCgi' = [pendingCgi EXCEPT ![c] = h]
  /\ owner' = [owner EXCEPT ![h] = c]
  /\ output_fd' = output_fd \cup {h}
  /\ pid' = pid \cup {h}
  /\ UNCHANGED <<listening, sockets, is_started, written, expired, cgi_output,
                 response, thread, forgotten>>

\* startCGI throws: no pipe, no fork - or addListener fails, and the child is
\* killed and waited for.  The new handler is deleted, the answer is 500.
StartFails(c) ==
  /\ CgiRequest(c)
  /\ overwritten' = Overwritten(c)
  /\ pendingCgi' = [pendingCgi EXCEPT ![c] = NoHandler]
  /\ response' = [response EXCEPT ![c] = "error"]
  /\ UNCHANGED <<epoll, is_started, script, owner, output_fd, pid, cgi_output,
                 thread, forgotten>>

\* The constructor throws: no interpreter, no script, no /tmp.  _pendingCgi is
\* not assigned, and there is nothing to delete ...
ConstructorThrows(c) ==
  /\ CgiRequest(c) /\ pendingCgi[c] = NoHandler
  /\ response' = [response EXCEPT ![c] = "error"]
  /\ UNCHANGED <<epoll, is_started, script, handler, thread, forgotten, overwritten>>

\* Scripts are not allowed here, or the method is not.
CgiRefused(c) ==
  /\ CgiRequest(c)
  /\ response' = [response EXCEPT ![c] = "error"]
  /\ UNCHANGED <<epoll, is_started, script, handler, thread, forgotten, overwritten>>
-----------------------------------------------------------------------------
(* CGIHandler::onEvent and finalizeCGI                                     *)

CgiEvent(h) == pc = "loop" /\ h \in pipes

\* Faulty variant of ReadOutput: sizeof(buffer) counts, not what read()
\* returned.
ReadBuffer(h) ==
  /\ CgiEvent(h)
  /\ Buffered(h) > 0 /\ ~HungUp(h)
  /\ cgi_output' = [cgi_output EXCEPT ![h] = @ + ReadSize + 1]
  /\ UNCHANGED <<epoll, is_started, script, pendingCgi, owner, output_fd, pid,
                 response, thread, history>>

\* EPOLLIN: one read.
ReadOutput(h) ==
  /\ CgiEvent(h)
  /\ Buffered(h) > 0 /\ ~HungUp(h)
  /\ cgi_output' = [cgi_output EXCEPT ![h] = @ + AtMost(Buffered(h), ReadSize)]
  /\ UNCHANGED <<epoll, is_started, script, pendingCgi, owner, output_fd, pid,
                 response, thread, history>>

\* Faulty variant of Finalize: EPOLLHUP is handled without a read.
FinalizeUnread(h) ==
  /\ CgiEvent(h) /\ HungUp(h)
  /\ pipes' = pipes \ {h}
  /\ output_fd' = output_fd \ {h}
  /\ pc' = "waitpid" /\ cur' = h
  /\ UNCHANGED <<listening, sockets, is_started, script, pendingCgi, owner, pid,
                 cgi_output, response, after, history>>

\* EPOLLHUP, after one read if there is EPOLLIN too: finalizeCGI makes the
\* response of what has been read, closes the pipe with whatever it still
\* holds, and waits for the process.
Finalize(h) ==
  /\ CgiEvent(h) /\ HungUp(h)
  /\ cgi_output' = [cgi_output EXCEPT ![h] = @ + AtMost(Buffered(h), ReadSize)]
  /\ pipes' = pipes \ {h}
  /\ output_fd' = output_fd \ {h}
  /\ pc' = "waitpid" /\ cur' = h
  /\ UNCHANGED <<listening, sockets, is_started, script, pendingCgi, owner, pid,
                 response, after, history>>

\* The process of h is gone, and with it all that is known of h.
Gone(h) ==
  /\ pid' = pid \ {h}
  /\ written' = [written EXCEPT ![h] = 0]
  /\ cgi_output' = [cgi_output EXCEPT ![h] = 0]
  /\ alone' = alone \ {h}
  /\ expired' = expired \ {h}
  /\ overwritten' = overwritten \ {h}
  /\ UNCHANGED <<listening, pipes, output_fd>>

\* onCGIComplete: the client takes the response and deletes the handler, if it
\* is the one it points to.
OnCGIComplete(h) ==
  /\ owner' = [owner EXCEPT ![h] = NoClient]
  /\ \/ /\ h \in overwritten
        /\ UNCHANGED <<pendingCgi, response>>
     \/ /\ h \notin overwritten
        /\ pendingCgi' = [pendingCgi EXCEPT ![owner[h]] = NoHandler]
        /\ response' = [response EXCEPT ![owner[h]] = "output"]

\* Faulty variant of WaitPid: waitpid(pid, &status, WNOHANG).
WaitPidNoHang ==
  /\ pc = "waitpid"
  /\ child' = IF child[cur] = "exited" THEN [child EXCEPT ![cur] = "none"] ELSE child
  /\ Gone(cur) /\ OnCGIComplete(cur)
  /\ pc' = "loop" /\ cur' = NoHandler
  /\ UNCHANGED <<sockets, is_started, after, forgotten, pipelined>>

\* waitpid() returns once the process is gone, its status ignored.
WaitPid ==
  /\ pc = "waitpid" /\ child[cur] = "exited"
  /\ child' = [child EXCEPT ![cur] = "none"]
  /\ Gone(cur) /\ OnCGIComplete(cur)
  /\ pc' = "loop" /\ cur' = NoHandler
  /\ UNCHANGED <<sockets, is_started, after, forgotten, pipelined>>
-----------------------------------------------------------------------------
(* ~CGIHandler and CGIHandler::terminate                                   *)

\* The pipe is closed, the process killed, and the loop that polls waitpid()
\* entered.
Delete(h, next) ==
  /\ pipes' = pipes \ {h}
  /\ output_fd' = output_fd \ {h}
  /\ child' = [child EXCEPT ![h] = IF @ = "exited" THEN @ ELSE "dying"]
  /\ pc' = "terminate" /\ cur' = h /\ after' = next
  /\ UNCHANGED <<listening, sockets, is_started, alone, written, expired,
                 pendingCgi, owner, pid, cgi_output, response, forgotten,
                 overwritten>>

\* ... but the catch clause of processCGIRequest deletes _pendingCgi all the
\* same, which is the handler of the request before.
ConstructorDeletes(c) ==
  /\ CgiRequest(c) /\ pendingCgi[c] # NoHandler
  /\ Delete(pendingCgi[c], "error")


\* checkCGIProgress, on EPOLLOUT of the client's socket.
CheckCGIProgress(c) ==
  /\ pc = "loop" /\ c \in sockets
  /\ pendingCgi[c] \in expired
  /\ Delete(pendingCgi[c], "error")
  /\ UNCHANGED pipelined

\* The connection ends while its CGI is pending: ClientServer::terminate.
LeavePending(c) ==
  /\ pc = "loop" /\ c \in sockets
  /\ pendingCgi[c] # NoHandler
  /\ Delete(pendingCgi[c], "close")
  /\ UNCHANGED pipelined

\* The end of ClientServer::terminate.  A handler that was overwritten stays.
EndConnection(c) ==
  /\ is_started' = is_started \ {c}
  /\ sockets' = sockets \ {c}
  /\ owner' = [h \in Handler |-> IF owner[h] = c THEN NoClient ELSE owner[h]]
  /\ response' = [response EXCEPT ![c] = "none"]
  /\ pipelined' = pipelined \ {c}

\* Faulty variant of AfterDelete: _pendingCgi is not reset.
AfterDeleteDangling(c) ==
  /\ pc' = "loop" /\ cur' = NoHandler /\ after' = "close"
  /\ Gone(cur)
  /\ \/ /\ after = "error"
        /\ response' = [response EXCEPT ![c] = "error"]
        /\ UNCHANGED <<is_started, sockets, owner, pipelined>>
     \/ /\ after = "close"
        /\ EndConnection(c)
  /\ UNCHANGED pendingCgi

\* The rest of checkCGIProgress, of processCGIRequest, or of
\* ClientServer::terminate.
AfterDelete(c) ==
  /\ pc' = "loop" /\ cur' = NoHandler /\ after' = "close"
  /\ Gone(cur)
  /\ pendingCgi' = [pendingCgi EXCEPT ![c] = NoHandler]
  /\ \/ /\ after = "error"
        /\ response' = [response EXCEPT ![c] = "error"]
        /\ owner' = [owner EXCEPT ![cur] = NoClient]
        /\ UNCHANGED <<is_started, sockets, pipelined>>
     \/ /\ after = "close"
        /\ EndConnection(c)

TerminateReaps ==
  /\ pc = "terminate" /\ child[cur] = "exited"
  /\ child' = [child EXCEPT ![cur] = "none"]
  /\ AfterDelete(owner[cur])
  /\ UNCHANGED forgotten

\* The process survives SIGKILL for two seconds; the server forgets it.
TerminateGivesUp ==
  /\ pc = "terminate" /\ DeathMayLast
  /\ child[cur] # "exited"
  /\ forgotten' = IF child[cur] = "dying" THEN forgotten ELSE forgotten \cup {cur}
  /\ child' = [child EXCEPT ![cur] = "none"]
  /\ AfterDelete(owner[cur])
-----------------------------------------------------------------------------
(* The end of a response, or of a connection without a CGI                 *)

\* The whole response is sent; the connection stays.
SendResponse(c) ==
  /\ pc = "loop" /\ c \in sockets /\ response[c] # "none"
  /\ response' = [response EXCEPT ![c] = "none"]
  /\ UNCHANGED <<epoll, is_started, script, handler, thread, history>>

Leave(c) ==
  /\ pc = "loop" /\ c \in sockets
  /\ pendingCgi[c] = NoHandler
  /\ EndConnection(c)
  /\ UNCHANGED <<listening, pipes, script, pendingCgi, output_fd, pid,
                 cgi_output, thread, forgotten, overwritten>>
-----------------------------------------------------------------------------
Process(h) ==
  Exec(h) \/ ExecFails(h) \/ Write(h) \/ CloseOutput(h) \/ Exit(h) \/ Expire(h)

Requests(c) ==
  \/ Accept(c) \/ LeavePending(c) \/ Leave(c)
  \/ \E h \in Handler : StartCGI(c, h)
  \/ StartFails(c) \/ ConstructorThrows(c) \/ ConstructorDeletes(c) \/ CgiRefused(c)

Answers(c) == CheckCGIProgress(c) \/ SendResponse(c)

Reap == WaitPid \/ TerminateReaps \/ TerminateGivesUp

Next ==
  \/ Reap
  \/ \E h \in Handler : Process(h) \/ ReadOutput(h) \/ Finalize(h)
  \/ \E c \in Client : Requests(c) \/ Answers(c)

Spec == Init /\ [][Next]_vars

\* The loop dispatches every ready descriptor after each epoll_wait, so one
\* that is ready again and again is served.  Time passes, a fork gets as far
\* as execve, and a killed process ends.  A script need not end by itself.
Fairness ==
  /\ WF_vars(Reap)
  /\ \A c \in Client : SF_vars(CheckCGIProgress(c))
  /\ \A h \in Handler :
       /\ SF_vars(Finalize(h))
       /\ WF_vars(Expire(h))
       /\ WF_vars(Exec(h) \/ ExecFails(h))
       /\ WF_vars(child[h] = "dying" /\ Exit(h))

FairSpec == Spec /\ Fairness
-----------------------------------------------------------------------------
TypeOK ==
  /\ listening \in BOOLEAN
  /\ sockets \in SUBSET Client /\ pipes \in SUBSET Handler
  /\ is_started \in SUBSET Client
  /\ pendingCgi \in [Client -> Handler \cup {NoHandler}]
  /\ owner \in [Handler -> Client \cup {NoClient}]
  /\ output_fd \in SUBSET Handler /\ pid \in SUBSET Handler
  /\ child \in [Handler -> {"none", "forked", "running", "lingering", "dying", "exited"}]
  /\ alone \in SUBSET Handler /\ expired \in SUBSET Handler
  /\ written \in [Handler -> 0..OutputSize]
  /\ cgi_output \in [Handler -> 0..OutputSize]
  /\ \A h \in Handler : Buffered(h) \in Nat
  /\ response \in [Client -> {"none", "output", "error"}]
  /\ pc \in {"loop", "waitpid", "terminate"}
  /\ cur \in Handler \cup {NoHandler}
  /\ after \in {"error", "close"}
  /\ pipelined \in SUBSET Client
  /\ overwritten \in SUBSET Handler /\ forgotten \in SUBSET Handler

\* Every process belongs to the pending handler of a started client until the
\* server has seen it end, unless its peer has sent another request too early,
\* and the one descriptor of a handler is registered as long as it is open: no
\* other process, and no pipe of one, survives its connection.  The server
\* gives up waiting only for a process it has killed.
ProcessesOwned ==
  /\ \A h \in Handler : child[h] # "none" <=> h \in pid
  /\ \A h \in pid \ overwritten : owner[h] \in is_started /\ pendingCgi[owner[h]] = h
  /\ \A h \in pid \cap overwritten : owner[h] \in pipelined \cup {NoClient}
  /\ \A c \in Client : pendingCgi[c] # NoHandler =>
       pendingCgi[c] \in pid \ overwritten /\ owner[pendingCgi[c]] = c
  /\ pipes = output_fd /\ output_fd \subseteq pid
  /\ pid \ output_fd = IF pc = "loop" THEN {} ELSE {cur}
  /\ forgotten = {}

\* A client whose peer waits for its answers has a running CGI or an answer,
\* never both: no answer is replaced by a late CGI, whichever of timeout and
\* exit comes first.
OneAnswer ==
  \A c \in Client \ pipelined :
     response[c] # "none" => c \in is_started /\ pendingCgi[c] = NoHandler

\* What a script writes arrives whole if it fits in one read, whenever the
\* script exits; of more, at least one read's worth arrives.  finalizeCGI has
\* made the response when it waits for the process.
OutputArrives ==
  pc = "waitpid" => cgi_output[cur] >= AtMost(written[cur], ReadSize)

\* As long as waitpid() always returns, every CGI ends, although scripts need
\* not: it closes its output, or it is killed after the timeout.  The two
\* exceptions are a handler that was overwritten, and one whose client another
\* child has taken out of the epoll instance (ServerTerminate).
WaitPidReturns == pc = "waitpid" ~> pc # "waitpid"


\* "Ensure the server handles multiple clients simultaneously without
\* blocking" (README.md:9): the one thread comes back to the loop.
NeverBlocked == pc # "loop" ~> pc = "loop"

\* "Implement proper connection termination (timeouts, errors)" (README.md:10):
\* no process outlives the connection it works for.
DiesWithConnection == \A h \in pid : owner[h] \in is_started

\* "Handle [...] output (content length or EOF)" (README.md:35): the response
\* has all the output, up to its end.
OutputWhole == pc = "waitpid" => cgi_output[cur] = written[cur]

\* "Implement server setup (socket creation, binding, listening)" and serve
\* "multiple clients simultaneously" (README.md:7,9): whatever a CGI process
\* does, the server goes on listening.
KeepsListening == listening
-----------------------------------------------------------------------------
(* The inductive invariant.                                                *)

\* Where the server is busy with a handler, its process is one it can wait
\* for, and what it kills is pending; a handler that still reads has a process
\* that was not killed; there is no output before execve; only a handler with a
\* process is overwritten.
BusyWithOne ==
  /\ pc = "loop" <=> cur = NoHandler
  /\ pc = "waitpid" => HungUp(cur)
  /\ pc = "terminate" => child[cur] \in {"dying", "exited"} /\ cur \notin overwritten
  /\ \A h \in Handler : /\ child[h] = "dying" => h \notin output_fd
                       /\ child[h] \in {"none", "forked"} => written[h] = 0 /\ cgi_output[h] = 0
  /\ overwritten \subseteq pid
  /\ sockets \subseteq is_started /\ pipelined \subseteq is_started

IInv == TypeOK /\ ProcessesOwned /\ OneAnswer /\ OutputArrives /\ BusyWithOne
=============================================================================
