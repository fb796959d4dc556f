--------------------------- MODULE CGIHandlerProofs ---------------------------
(***************************************************************************)
(* CGIHandler's inductive invariant, for any number of clients, handlers   *)
(* and any sizes: one lemma per action, and in it one step per part of     *)
(* IInv.                                                                   *)
(***************************************************************************)
EXTENDS CGIHandler, TLAPS

LEMMA InitInvariant == Init => IInv
  BY CGIHandlerAssumption
     DEF Init, IInv, TypeOK, ProcessesOwned, OneAnswer, OutputArrives, BusyWithOne, Buffered
-----------------------------------------------------------------------------
(* The child process and the clock                                         *)

LEMMA ExecStep ==
  ASSUME IInv, NEW h \in Handler, Exec(h)
  PROVE  IInv'
<1> USE DEF IInv, handler, thread
<1>1. TypeOK'
  BY CGIHandlerAssumption DEF TypeOK, Buffered, ProcessesOwned, BusyWithOne, HungUp, AtMost, Exec, ChildSame, epoll, history
<1>2. ProcessesOwned'
  BY CGIHandlerAssumption DEF TypeOK, ProcessesOwned, BusyWithOne, HungUp, Exec, ChildSame, epoll, history
<1>3. OneAnswer'
  BY CGIHandlerAssumption DEF TypeOK, ProcessesOwned, OneAnswer, BusyWithOne, Exec, ChildSame, epoll, history
<1>4. OutputArrives'
  BY CGIHandlerAssumption DEF TypeOK, ProcessesOwned, OutputArrives, BusyWithOne, Buffered, HungUp, AtMost, Exec, ChildSame, epoll, history
<1>5. BusyWithOne'
  BY CGIHandlerAssumption DEF TypeOK, ProcessesOwned, BusyWithOne, HungUp, Exec, ChildSame, epoll, history
<1> QED
  BY <1>1, <1>2, <1>3, <1>4, <1>5

LEMMA ExecFailsStep ==
  ASSUME IInv, NEW h \in Handler, ExecFails(h)
  PROVE  IInv'
<1> USE DEF IInv, handler, thread
<1>1. TypeOK'
  <2>1. /\ written' \in [Handler -> 0..OutputSize]
        /\ \A d \in Handler : written'[d] >= cgi_output[d]
    <3>1. CASE UNCHANGED <<epoll, written>>
      BY <3>1 DEF TypeOK, Buffered
    <3>2. CASE written' = [written EXCEPT ![h] = 1]
      <4>1. cgi_output[h] = 0 /\ 1 \in 0..OutputSize
        BY CGIHandlerAssumption DEF BusyWithOne, ExecFails, ServerTerminate
      <4> QED
        BY <3>2, <4>1 DEF TypeOK, Buffered
    <3> QED
      BY <3>1, <3>2 DEF ExecFails, ServerTerminate
  <2>2. UNCHANGED <<is_started, handler, response, thread, expired, history>> /\ alone' = alone \ {h}
    BY DEF ExecFails, ServerTerminate, ChildSame
  <2>3. cgi_output' = cgi_output /\ cgi_output \in [Handler -> 0..OutputSize]
    BY <2>2 DEF TypeOK
  <2>4. ASSUME NEW d \in Handler PROVE Buffered(d)' \in Nat
    <3>1. written'[d] \in Nat /\ cgi_output[d] \in Nat /\ written'[d] >= cgi_output[d]
      BY <2>1, <2>3, CGIHandlerAssumption
    <3> QED
      BY <2>3, <3>1 DEF Buffered
  <2>5. /\ listening' \in BOOLEAN /\ sockets' \in SUBSET Client /\ pipes' \in SUBSET Handler
        /\ child' = [child EXCEPT ![h] = "exited"]
    BY DEF TypeOK, ExecFails, ServerTerminate, epoll
  <2>6. child' \in [Handler -> {"none", "forked", "running", "lingering", "dying", "exited"}]
    BY <2>5 DEF TypeOK
  <2> QED
    BY <2>1, <2>2, <2>3, <2>4, <2>5, <2>6 DEF TypeOK, history
<1>2. ProcessesOwned'
  BY CGIHandlerAssumption DEF TypeOK, ProcessesOwned, BusyWithOne, HungUp, ExecFails, ServerTerminate, ChildSame, epoll, history
<1>3. OneAnswer'
  BY CGIHandlerAssumption DEF TypeOK, ProcessesOwned, OneAnswer, BusyWithOne, ExecFails, ServerTerminate, ChildSame, epoll, history
<1>4. OutputArrives'
  BY CGIHandlerAssumption DEF TypeOK, ProcessesOwned, OutputArrives, BusyWithOne, Buffered, HungUp, AtMost, ExecFails, ServerTerminate, ChildSame, epoll, history
<1>5. BusyWithOne'
  BY CGIHandlerAssumption DEF TypeOK, ProcessesOwned, BusyWithOne, HungUp, ExecFails, ServerTerminate, ChildSame, epoll, history
<1> QED
  BY <1>1, <1>2, <1>3, <1>4, <1>5

LEMMA WriteStep ==
  ASSUME IInv, NEW h \in Handler, Write(h)
  PROVE  IInv'
<1> USE DEF IInv, handler, thread
<1>1. TypeOK'
  BY CGIHandlerAssumption DEF TypeOK, Buffered, ProcessesOwned, BusyWithOne, HungUp, AtMost, Write, ChildSame, epoll, history
<1>2. ProcessesOwned'
  BY CGIHandlerAssumption DEF TypeOK, ProcessesOwned, BusyWithOne, HungUp, Write, ChildSame, epoll, history
<1>3. OneAnswer'
  BY CGIHandlerAssumption DEF TypeOK, ProcessesOwned, OneAnswer, BusyWithOne, Write, ChildSame, epoll, history
<1>4. OutputArrives'
  BY CGIHandlerAssumption DEF TypeOK, ProcessesOwned, OutputArrives, BusyWithOne, Buffered, HungUp, AtMost, Write, ChildSame, epoll, history
<1>5. BusyWithOne'
  BY CGIHandlerAssumption DEF TypeOK, ProcessesOwned, BusyWithOne, HungUp, Write, ChildSame, epoll, history
<1> QED
  BY <1>1, <1>2, <1>3, <1>4, <1>5

LEMMA CloseOutputStep ==
  ASSUME IInv, NEW h \in Handler, CloseOutput(h)
  PROVE  IInv'
<1> USE DEF IInv, handler, thread
<1>1. TypeOK'
  BY CGIHandlerAssumption DEF TypeOK, Buffered, ProcessesOwned, BusyWithOne, HungUp, AtMost, CloseOutput, ChildSame, epoll, history
<1>2. ProcessesOwned'
  BY CGIHandlerAssumption DEF TypeOK, ProcessesOwned, BusyWithOne, HungUp, CloseOutput, ChildSame, epoll, history
<1>3. OneAnswer'
  BY CGIHandlerAssumption DEF TypeOK, ProcessesOwned, OneAnswer, BusyWithOne, CloseOutput, ChildSame, epoll, history
<1>4. OutputArrives'
  BY CGIHandlerAssumption DEF TypeOK, ProcessesOwned, OutputArrives, BusyWithOne, Buffered, HungUp, AtMost, CloseOutput, ChildSame, epoll, history
<1>5. BusyWithOne'
  BY CGIHandlerAssumption DEF TypeOK, ProcessesOwned, BusyWithOne, HungUp, CloseOutput, ChildSame, epoll, history
<1> QED
  BY <1>1, <1>2, <1>3, <1>4, <1>5

LEMMA ExitStep ==
  ASSUME IInv, NEW h \in Handler, Exit(h)
  PROVE  IInv'
<1> USE DEF IInv, handler, thread
<1>1. TypeOK'
  BY CGIHandlerAssumption DEF TypeOK, Buffered, ProcessesOwned, BusyWithOne, HungUp, AtMost, Exit, ChildSame, epoll, history
<1>2. ProcessesOwned'
  BY CGIHandlerAssumption DEF TypeOK, ProcessesOwned, BusyWithOne, HungUp, Exit, ChildSame, epoll, history
<1>3. OneAnswer'
  BY CGIHandlerAssumption DEF TypeOK, ProcessesOwned, OneAnswer, BusyWithOne, Exit, ChildSame, epoll, history
<1>4. OutputArrives'
  BY CGIHandlerAssumption DEF TypeOK, ProcessesOwned, OutputArrives, BusyWithOne, Buffered, HungUp, AtMost, Exit, ChildSame, epoll, history
<1>5. BusyWithOne'
  BY CGIHandlerAssumption DEF TypeOK, ProcessesOwned, BusyWithOne, HungUp, Exit, ChildSame, epoll, history
<1> QED
  BY <1>1, <1>2, <1>3, <1>4, <1>5

LEMMA ExpireStep ==
  ASSUME IInv, NEW h \in Handler, Expire(h)
  PROVE  IInv'
<1> USE DEF IInv, handler, thread
<1>1. TypeOK'
  BY CGIHandlerAssumption DEF TypeOK, Buffered, ProcessesOwned, BusyWithOne, HungUp, AtMost, Expire, ChildSame, epoll, history
<1>2. ProcessesOwned'
  BY CGIHandlerAssumption DEF TypeOK, ProcessesOwned, BusyWithOne, HungUp, Expire, ChildSame, epoll, history
<1>3. OneAnswer'
  BY CGIHandlerAssumption DEF TypeOK, ProcessesOwned, OneAnswer, BusyWithOne, Expire, ChildSame, epoll, history
<1>4. OutputArrives'
  BY CGIHandlerAssumption DEF TypeOK, ProcessesOwned, OutputArrives, BusyWithOne, Buffered, HungUp, AtMost, Expire, ChildSame, epoll, history
<1>5. BusyWithOne'
  BY CGIHandlerAssumption DEF TypeOK, ProcessesOwned, BusyWithOne, HungUp, Expire, ChildSame, epoll, history
<1> QED
  BY <1>1, <1>2, <1>3, <1>4, <1>5

-----------------------------------------------------------------------------
(* Requests                                                                *)

LEMMA AcceptStep ==
  ASSUME IInv, NEW c \in Client, Accept(c)
  PROVE  IInv'
<1> USE DEF IInv, handler, thread
<1>1. TypeOK'
  BY CGIHandlerAssumption DEF TypeOK, Buffered, ProcessesOwned, BusyWithOne, HungUp, AtMost, Accept, script, history
<1>2. ProcessesOwned'
  BY CGIHandlerAssumption DEF TypeOK, ProcessesOwned, BusyWithOne, HungUp, Accept, script, history
<1>3. OneAnswer'
  BY CGIHandlerAssumption DEF TypeOK, ProcessesOwned, OneAnswer, BusyWithOne, Accept, script, history
<1>4. OutputArrives'
  BY CGIHandlerAssumption DEF TypeOK, ProcessesOwned, OutputArrives, BusyWithOne, Buffered, HungUp, AtMost, Accept, script, history
<1>5. BusyWithOne'
  BY CGIHandlerAssumption DEF TypeOK, ProcessesOwned, BusyWithOne, HungUp, Accept, script, history
<1> QED
  BY <1>1, <1>2, <1>3, <1>4, <1>5

LEMMA StartCGIStep ==
  ASSUME IInv, NEW c \in Client, NEW h \in Handler, StartCGI(c, h)
  PROVE  IInv'
<1> USE DEF IInv, handler, thread
<1>1. TypeOK'
  BY CGIHandlerAssumption DEF TypeOK, Buffered, ProcessesOwned, BusyWithOne, HungUp, AtMost, StartCGI, CgiRequest, Overwritten
<1>2. ProcessesOwned'
  BY CGIHandlerAssumption DEF TypeOK, ProcessesOwned, BusyWithOne, HungUp, StartCGI, CgiRequest, Overwritten
<1>3. OneAnswer'
  BY CGIHandlerAssumption DEF TypeOK, ProcessesOwned, OneAnswer, BusyWithOne, StartCGI, CgiRequest, Overwritten
<1>4. OutputArrives'
  BY CGIHandlerAssumption DEF TypeOK, ProcessesOwned, OutputArrives, BusyWithOne, Buffered, HungUp, AtMost, StartCGI, CgiRequest, Overwritten
<1>5. BusyWithOne'
  BY CGIHandlerAssumption DEF TypeOK, ProcessesOwned, BusyWithOne, HungUp, StartCGI, CgiRequest, Overwritten
<1> QED
  BY <1>1, <1>2, <1>3, <1>4, <1>5

LEMMA StartFailsStep ==
  ASSUME IInv, NEW c \in Client, StartFails(c)
  PROVE  IInv'
<1> USE DEF IInv, handler, thread
<1>1. TypeOK'
  BY CGIHandlerAssumption DEF TypeOK, Buffered, ProcessesOwned, BusyWithOne, HungUp, AtMost, StartFails, CgiRequest, Overwritten, epoll, script
<1>2. ProcessesOwned'
  BY CGIHandlerAssumption DEF TypeOK, ProcessesOwned, BusyWithOne, HungUp, StartFails, CgiRequest, Overwritten, epoll, script
<1>3. OneAnswer'
  BY CGIHandlerAssumption DEF TypeOK, ProcessesOwned, OneAnswer, BusyWithOne, StartFails, CgiRequest, Overwritten, epoll, script
<1>4. OutputArrives'
  BY CGIHandlerAssumption DEF TypeOK, ProcessesOwned, OutputArrives, BusyWithOne, Buffered, HungUp, AtMost, StartFails, CgiRequest, Overwritten, epoll, script
<1>5. BusyWithOne'
  BY CGIHandlerAssumption DEF TypeOK, ProcessesOwned, BusyWithOne, HungUp, StartFails, CgiRequest, Overwritten, epoll, script
<1> QED
  BY <1>1, <1>2, <1>3, <1>4, <1>5

LEMMA ConstructorThrowsStep ==
  ASSUME IInv, NEW c \in Client, ConstructorThrows(c)
  PROVE  IInv'
<1> USE DEF IInv, handler, thread
<1>1. TypeOK'
  BY CGIHandlerAssumption DEF TypeOK, Buffered, ProcessesOwned, BusyWithOne, HungUp, AtMost, ConstructorThrows, CgiRequest, epoll, script
<1>2. ProcessesOwned'
  BY CGIHandlerAssumption DEF TypeOK, ProcessesOwned, BusyWithOne, HungUp, ConstructorThrows, CgiRequest, epoll, script
<1>3. OneAnswer'
  BY CGIHandlerAssumption DEF TypeOK, ProcessesOwned, OneAnswer, BusyWithOne, ConstructorThrows, CgiRequest, epoll, script
<1>4. OutputArrives'
  BY CGIHandlerAssumption DEF TypeOK, ProcessesOwned, OutputArrives, BusyWithOne, Buffered, HungUp, AtMost, ConstructorThrows, CgiRequest, epoll, script
<1>5. BusyWithOne'
  BY CGIHandlerAssumption DEF TypeOK, ProcessesOwned, BusyWithOne, HungUp, ConstructorThrows, CgiRequest, epoll, script
<1> QED
  BY <1>1, <1>2, <1>3, <1>4, <1>5

LEMMA ConstructorDeletesStep ==
  ASSUME IInv, NEW c \in Client, ConstructorDeletes(c)
  PROVE  IInv'
<1> USE DEF IInv, handler, thread
<1>1. TypeOK'
  BY CGIHandlerAssumption DEF TypeOK, Buffered, ProcessesOwned, BusyWithOne, HungUp, AtMost, ConstructorDeletes, CgiRequest, Delete
<1>2. ProcessesOwned'
  BY CGIHandlerAssumption DEF TypeOK, ProcessesOwned, BusyWithOne, HungUp, ConstructorDeletes, CgiRequest, Delete
<1>3. OneAnswer'
  BY CGIHandlerAssumption DEF TypeOK, ProcessesOwned, OneAnswer, BusyWithOne, ConstructorDeletes, CgiRequest, Delete
<1>4. OutputArrives'
  BY CGIHandlerAssumption DEF TypeOK, ProcessesOwned, OutputArrives, BusyWithOne, Buffered, HungUp, AtMost, ConstructorDeletes, CgiRequest, Delete
<1>5. BusyWithOne'
  BY CGIHandlerAssumption DEF TypeOK, ProcessesOwned, BusyWithOne, HungUp, ConstructorDeletes, CgiRequest, Delete
<1> QED
  BY <1>1, <1>2, <1>3, <1>4, <1>5

LEMMA CgiRefusedStep ==
  ASSUME IInv, NEW c \in Client, CgiRefused(c)
  PROVE  IInv'
<1> USE DEF IInv, handler, thread
<1>1. TypeOK'
  BY CGIHandlerAssumption DEF TypeOK, Buffered, ProcessesOwned, BusyWithOne, HungUp, AtMost, CgiRefused, CgiRequest, epoll, script
<1>2. ProcessesOwned'
  BY CGIHandlerAssumption DEF TypeOK, ProcessesOwned, BusyWithOne, HungUp, CgiRefused, CgiRequest, epoll, script
<1>3. OneAnswer'
  BY CGIHandlerAssumption DEF TypeOK, ProcessesOwned, OneAnswer, BusyWithOne, CgiRefused, CgiRequest, epoll, script
<1>4. OutputArrives'
  BY CGIHandlerAssumption DEF TypeOK, ProcessesOwned, OutputArrives, BusyWithOne, Buffered, HungUp, AtMost, CgiRefused, CgiRequest, epoll, script
<1>5. BusyWithOne'
  BY CGIHandlerAssumption DEF TypeOK, ProcessesOwned, BusyWithOne, HungUp, CgiRefused, CgiRequest, epoll, script
<1> QED
  BY <1>1, <1>2, <1>3, <1>4, <1>5

-----------------------------------------------------------------------------
(* CGIHandler::onEvent                                                     *)

LEMMA ReadOutputStep ==
  ASSUME IInv, NEW h \in Handler, ReadOutput(h)
  PROVE  IInv'
<1> USE DEF IInv, handler, thread
<1>1. TypeOK'
  BY CGIHandlerAssumption DEF TypeOK, Buffered, ProcessesOwned, BusyWithOne, HungUp, AtMost, ReadOutput, CgiEvent, epoll, script, history
<1>2. ProcessesOwned'
  BY CGIHandlerAssumption DEF TypeOK, ProcessesOwned, BusyWithOne, HungUp, Buffered, ReadOutput, CgiEvent, epoll, script, history
<1>3. OneAnswer'
  BY CGIHandlerAssumption DEF TypeOK, ProcessesOwned, OneAnswer, BusyWithOne, ReadOutput, CgiEvent, epoll, script, history
<1>4. OutputArrives'
  BY CGIHandlerAssumption DEF TypeOK, ProcessesOwned, OutputArrives, BusyWithOne, Buffered, HungUp, AtMost, ReadOutput, CgiEvent, epoll, script, history
<1>5. BusyWithOne'
  BY CGIHandlerAssumption DEF TypeOK, ProcessesOwned, BusyWithOne, HungUp, Buffered, ReadOutput, CgiEvent, epoll, script, history
<1> QED
  BY <1>1, <1>2, <1>3, <1>4, <1>5

LEMMA FinalizeStep ==
  ASSUME IInv, NEW h \in Handler, Finalize(h)
  PROVE  IInv'
<1> USE DEF IInv, handler, thread
<1>1. TypeOK'
  BY CGIHandlerAssumption DEF TypeOK, Buffered, ProcessesOwned, BusyWithOne, HungUp, AtMost, Finalize, CgiEvent, script, history
<1>2. ProcessesOwned'
  BY CGIHandlerAssumption DEF TypeOK, ProcessesOwned, BusyWithOne, HungUp, Finalize, CgiEvent, script, history
<1>3. OneAnswer'
  BY CGIHandlerAssumption DEF TypeOK, ProcessesOwned, OneAnswer, BusyWithOne, Finalize, CgiEvent, script, history
<1>4. OutputArrives'
  BY CGIHandlerAssumption DEF TypeOK, ProcessesOwned, OutputArrives, BusyWithOne, Buffered, HungUp, AtMost, Finalize, CgiEvent, script, history
<1>5. BusyWithOne'
  BY CGIHandlerAssumption DEF TypeOK, ProcessesOwned, BusyWithOne, HungUp, Finalize, CgiEvent, script, history
<1> QED
  BY <1>1, <1>2, <1>3, <1>4, <1>5

-----------------------------------------------------------------------------
(* The end of a CGI, and of a connection                                   *)

LEMMA CheckCGIProgressStep ==
  ASSUME IInv, NEW c \in Client, CheckCGIProgress(c)
  PROVE  IInv'
<1> USE DEF IInv, handler, thread
<1>1. TypeOK'
  BY CGIHandlerAssumption DEF TypeOK, Buffered, ProcessesOwned, BusyWithOne, HungUp, AtMost, CheckCGIProgress, Delete
<1>2. ProcessesOwned'
  BY CGIHandlerAssumption DEF TypeOK, ProcessesOwned, BusyWithOne, HungUp, CheckCGIProgress, Delete
<1>3. OneAnswer'
  BY CGIHandlerAssumption DEF TypeOK, ProcessesOwned, OneAnswer, BusyWithOne, CheckCGIProgress, Delete
<1>4. OutputArrives'
  BY CGIHandlerAssumption DEF TypeOK, ProcessesOwned, OutputArrives, BusyWithOne, Buffered, HungUp, AtMost, CheckCGIProgress, Delete
<1>5. BusyWithOne'
  BY CGIHandlerAssumption DEF TypeOK, ProcessesOwned, BusyWithOne, HungUp, CheckCGIProgress, Delete
<1> QED
  BY <1>1, <1>2, <1>3, <1>4, <1>5

LEMMA LeavePendingStep ==
  ASSUME IInv, NEW c \in Client, LeavePending(c)
  PROVE  IInv'
<1> USE DEF IInv, handler, thread
<1>1. TypeOK'
  BY CGIHandlerAssumption DEF TypeOK, Buffered, ProcessesOwned, BusyWithOne, HungUp, AtMost, LeavePending, Delete
<1>2. ProcessesOwned'
  BY CGIHandlerAssumption DEF TypeOK, ProcessesOwned, BusyWithOne, HungUp, LeavePending, Delete
<1>3. OneAnswer'
  BY CGIHandlerAssumption DEF TypeOK, ProcessesOwned, OneAnswer, BusyWithOne, LeavePending, Delete
<1>4. OutputArrives'
  BY CGIHandlerAssumption DEF TypeOK, ProcessesOwned, OutputArrives, BusyWithOne, Buffered, HungUp, AtMost, LeavePending, Delete
<1>5. BusyWithOne'
  BY CGIHandlerAssumption DEF TypeOK, ProcessesOwned, BusyWithOne, HungUp, LeavePending, Delete
<1> QED
  BY <1>1, <1>2, <1>3, <1>4, <1>5

LEMMA SendResponseStep ==
  ASSUME IInv, NEW c \in Client, SendResponse(c)
  PROVE  IInv'
<1> USE DEF IInv, handler, thread
<1>1. TypeOK'
  BY CGIHandlerAssumption DEF TypeOK, Buffered, ProcessesOwned, BusyWithOne, HungUp, AtMost, SendResponse, epoll, script, history
<1>2. ProcessesOwned'
  BY CGIHandlerAssumption DEF TypeOK, ProcessesOwned, BusyWithOne, HungUp, SendResponse, epoll, script, history
<1>3. OneAnswer'
  BY CGIHandlerAssumption DEF TypeOK, ProcessesOwned, OneAnswer, BusyWithOne, SendResponse, epoll, script, history
<1>4. OutputArrives'
  BY CGIHandlerAssumption DEF TypeOK, ProcessesOwned, OutputArrives, BusyWithOne, Buffered, HungUp, AtMost, SendResponse, epoll, script, history
<1>5. BusyWithOne'
  BY CGIHandlerAssumption DEF TypeOK, ProcessesOwned, BusyWithOne, HungUp, SendResponse, epoll, script, history
<1> QED
  BY <1>1, <1>2, <1>3, <1>4, <1>5

LEMMA LeaveStep ==
  ASSUME IInv, NEW c \in Client, Leave(c)
  PROVE  IInv'
<1> USE DEF IInv, handler, thread
<1>1. TypeOK'
  BY CGIHandlerAssumption DEF TypeOK, Buffered, ProcessesOwned, BusyWithOne, HungUp, AtMost, Leave, EndConnection, script
<1>2. ProcessesOwned'
  BY CGIHandlerAssumption DEF TypeOK, ProcessesOwned, BusyWithOne, HungUp, Leave, EndConnection, script
<1>3. OneAnswer'
  BY CGIHandlerAssumption DEF TypeOK, ProcessesOwned, OneAnswer, BusyWithOne, Leave, EndConnection, script
<1>4. OutputArrives'
  BY CGIHandlerAssumption DEF TypeOK, ProcessesOwned, OutputArrives, BusyWithOne, Buffered, HungUp, AtMost, Leave, EndConnection, script
<1>5. BusyWithOne'
  BY CGIHandlerAssumption DEF TypeOK, ProcessesOwned, BusyWithOne, HungUp, Leave, EndConnection, script
<1> QED
  BY <1>1, <1>2, <1>3, <1>4, <1>5

LEMMA WaitPidStep ==
  ASSUME IInv, WaitPid
  PROVE  IInv'
<1> USE DEF IInv, handler, thread
<1>0. cur \in Handler /\ child[cur] = "exited"
  BY CGIHandlerAssumption DEF TypeOK, BusyWithOne, WaitPid
<1>1. TypeOK'
  <2>1. written' \in [Handler -> 0..OutputSize] /\ cgi_output' \in [Handler -> 0..OutputSize]
    <3>1. 0 \in 0..OutputSize
      BY CGIHandlerAssumption
    <3>2. /\ written' = [written EXCEPT ![cur] = 0]
          /\ cgi_output' = [cgi_output EXCEPT ![cur] = 0]
      BY DEF WaitPid, Gone
    <3> QED
      BY <3>1, <3>2 DEF TypeOK
  <2>2. ASSUME NEW h \in Handler PROVE Buffered(h)' \in Nat
    BY CGIHandlerAssumption DEF TypeOK, Buffered, WaitPid, Gone
  <2>3. child' \in [Handler -> {"none", "forked", "running", "lingering", "dying", "exited"}]
    BY DEF TypeOK, WaitPid
  <2>4. /\ pendingCgi' \in [Client -> Handler \cup {NoHandler}]
        /\ owner' \in [Handler -> Client \cup {NoClient}]
        /\ response' \in [Client -> {"none", "output", "error"}]
    BY DEF TypeOK, WaitPid, OnCGIComplete
  <2> QED
    BY <2>1, <2>2, <2>3, <2>4 DEF TypeOK, WaitPid, Gone
<1>2. ProcessesOwned'
  BY CGIHandlerAssumption DEF TypeOK, ProcessesOwned, BusyWithOne, HungUp, WaitPid, Gone, OnCGIComplete
<1>3. OneAnswer'
  BY CGIHandlerAssumption DEF TypeOK, ProcessesOwned, OneAnswer, BusyWithOne, WaitPid, Gone, OnCGIComplete
<1>4. OutputArrives'
  BY CGIHandlerAssumption DEF TypeOK, ProcessesOwned, OutputArrives, BusyWithOne, Buffered, HungUp, AtMost, WaitPid, Gone, OnCGIComplete
<1>5. BusyWithOne'
  BY CGIHandlerAssumption DEF TypeOK, ProcessesOwned, BusyWithOne, HungUp, WaitPid, Gone, OnCGIComplete
<1> QED
  BY <1>1, <1>2, <1>3, <1>4, <1>5

LEMMA TerminateReapsStep ==
  ASSUME IInv, TerminateReaps
  PROVE  IInv'
<1> USE DEF IInv, handler, thread
<1>1. TypeOK'
  BY CGIHandlerAssumption DEF TypeOK, Buffered, ProcessesOwned, BusyWithOne, HungUp, AtMost, TerminateReaps, AfterDelete, Gone, EndConnection
<1>2. ProcessesOwned'
  BY CGIHandlerAssumption DEF TypeOK, ProcessesOwned, BusyWithOne, HungUp, TerminateReaps, AfterDelete, Gone, EndConnection
<1>3. OneAnswer'
  BY CGIHandlerAssumption DEF TypeOK, ProcessesOwned, OneAnswer, BusyWithOne, TerminateReaps, AfterDelete, Gone, EndConnection
<1>4. OutputArrives'
  BY CGIHandlerAssumption DEF TypeOK, ProcessesOwned, OutputArrives, BusyWithOne, Buffered, HungUp, AtMost, TerminateReaps, AfterDelete, Gone, EndConnection
<1>5. BusyWithOne'
  BY CGIHandlerAssumption DEF TypeOK, ProcessesOwned, BusyWithOne, HungUp, TerminateReaps, AfterDelete, Gone, EndConnection
<1> QED
  BY <1>1, <1>2, <1>3, <1>4, <1>5

LEMMA TerminateGivesUpStep ==
  ASSUME IInv, TerminateGivesUp
  PROVE  IInv'
<1> USE DEF IInv, handler, thread
<1>0. cur \in Handler /\ child[cur] = "dying"
  BY CGIHandlerAssumption DEF TypeOK, BusyWithOne, TerminateGivesUp
<1>1. TypeOK'
  <2>1. written' \in [Handler -> 0..OutputSize] /\ cgi_output' \in [Handler -> 0..OutputSize]
    <3>1. 0 \in 0..OutputSize
      BY CGIHandlerAssumption
    <3>2. /\ written' = [written EXCEPT ![cur] = 0]
          /\ cgi_output' = [cgi_output EXCEPT ![cur] = 0]
      BY DEF TerminateGivesUp, AfterDelete, Gone
    <3> QED
      BY <3>1, <3>2 DEF TypeOK
  <2>2. ASSUME NEW h \in Handler PROVE Buffered(h)' \in Nat
    BY CGIHandlerAssumption DEF TypeOK, Buffered, TerminateGivesUp, AfterDelete, Gone
  <2>3. child' \in [Handler -> {"none", "forked", "running", "lingering", "dying", "exited"}]
    BY DEF TypeOK, TerminateGivesUp
  <2>4. forgotten' \in SUBSET Handler
    BY <1>0 DEF TypeOK, TerminateGivesUp
  <2>5. /\ pendingCgi' \in [Client -> Handler \cup {NoHandler}]
        /\ owner' \in [Handler -> Client \cup {NoClient}]
        /\ response' \in [Client -> {"none", "output", "error"}]
        /\ pipelined' \in SUBSET Client
    BY DEF TypeOK, TerminateGivesUp, AfterDelete, EndConnection
  <2> QED
    BY <2>1, <2>2, <2>3, <2>4, <2>5 DEF TypeOK, TerminateGivesUp, AfterDelete, Gone, EndConnection
<1>2. ProcessesOwned'
  BY <1>0, CGIHandlerAssumption DEF TypeOK, ProcessesOwned, BusyWithOne, HungUp, TerminateGivesUp, AfterDelete, Gone, EndConnection
<1>3. OneAnswer'
  BY CGIHandlerAssumption DEF TypeOK, ProcessesOwned, OneAnswer, BusyWithOne, TerminateGivesUp, AfterDelete, Gone, EndConnection
<1>4. OutputArrives'
  BY CGIHandlerAssumption DEF TypeOK, ProcessesOwned, OutputArrives, BusyWithOne, Buffered, HungUp, AtMost, TerminateGivesUp, AfterDelete, Gone, EndConnection
<1>5. BusyWithOne'
  BY CGIHandlerAssumption DEF TypeOK, ProcessesOwned, BusyWithOne, HungUp, TerminateGivesUp, AfterDelete, Gone, EndConnection
<1> QED
  BY <1>1, <1>2, <1>3, <1>4, <1>5
-----------------------------------------------------------------------------
LEMMA StutterStep ==
  ASSUME IInv, UNCHANGED vars
  PROVE  IInv'
<1> USE DEF vars, epoll, script, handler, thread, history
<1>1. TypeOK' /\ ProcessesOwned' /\ OneAnswer'
  BY DEF IInv, TypeOK, ProcessesOwned, OneAnswer, Buffered
<1>2. OutputArrives' /\ BusyWithOne'
  BY DEF IInv, OutputArrives, BusyWithOne, HungUp
<1> QED
  BY <1>1, <1>2 DEF IInv

LEMMA NextStep == IInv /\ [Next]_vars => IInv'
<1> SUFFICES ASSUME IInv, [Next]_vars PROVE IInv'
  OBVIOUS
<1>1. CASE Reap
  BY <1>1, WaitPidStep, TerminateReapsStep, TerminateGivesUpStep DEF Reap
<1>2. ASSUME NEW h \in Handler, Process(h) PROVE IInv'
  BY <1>2, ExecStep, ExecFailsStep, WriteStep, CloseOutputStep, ExitStep, ExpireStep
     DEF Process
<1>3. ASSUME NEW h \in Handler, ReadOutput(h) \/ Finalize(h) PROVE IInv'
  BY <1>3, ReadOutputStep, FinalizeStep
<1>4. ASSUME NEW c \in Client, Requests(c) PROVE IInv'
  BY <1>4, AcceptStep, LeavePendingStep, LeaveStep, StartCGIStep, StartFailsStep,
     ConstructorThrowsStep, ConstructorDeletesStep, CgiRefusedStep
     DEF Requests
<1>5. ASSUME NEW c \in Client, Answers(c) PROVE IInv'
  BY <1>5, CheckCGIProgressStep, SendResponseStep DEF Answers
<1>6. CASE UNCHANGED vars
  BY <1>6, StutterStep
<1> QED
  BY <1>1, <1>2, <1>3, <1>4, <1>5, <1>6 DEF Next

\* The inductive invariant holds in every reachable state.
THEOREM Invariance == Spec => []IInv
<1>1. Init => IInv
  BY InitInvariant
<1>2. IInv /\ [Next]_vars => IInv'
  BY NextStep
<1> QED
  BY <1>1, <1>2, PTL DEF Spec

\* Every variable keeps its type: in particular the handler never counts
\* more output than the script has written.
THEOREM TypeCorrect == Spec => []TypeOK
  BY Invariance, PTL DEF IInv

\* startCGI, finalizeCGI and terminate leave every process with the pending
\* handler of a started client until the server has seen it end, unless
\* processCGIRequest has overwritten _pendingCgi for a pipelined request.
THEOREM NoProcessLeaks == Spec => []ProcessesOwned
  BY Invariance, PTL DEF IInv

\* checkCGIProgress and onCGIComplete never both answer a peer that waits.
THEOREM AnsweredOnce == Spec => []OneAnswer
  BY Invariance, PTL DEF IInv

\* Output of at most one read's size is never cut by finalizeCGI, and of
\* longer output at least one read's worth is delivered.
THEOREM ShortOutputArrives == Spec => []OutputArrives
  BY Invariance, PTL DEF IInv
=============================================================================
