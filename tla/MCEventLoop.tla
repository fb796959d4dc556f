---------------------------- MODULE MCEventLoop ----------------------------
(* Small instances of EventLoop for TLC: the descriptor numbers start      *)
(* after those of the standard streams.                                    *)
EXTENDS EventLoop

\* Two clients and a CGI with a body file at the same time, no shortage.
AmpleFds == 3..8
\* Three clients, or two and a CGI: accept() and pipe() run out of numbers.
ScarceFds == 3..6

OneListener == {3}
TwoListeners == {3, 4}
=============================================================================
