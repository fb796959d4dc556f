--------------------------- MODULE MCClientServer ---------------------------
(* Small instances of ClientServer for TLC.                                *)
EXTENDS ClientServer

Plain == [cgi |-> FALSE, body |-> "none", expect |-> FALSE, close |-> FALSE, bad |-> "no"]
Last == [Plain EXCEPT !.close = TRUE]
Expecting == [Plain EXCEPT !.body = "small", !.expect = TRUE]
TooBig == [Plain EXCEPT !.body = "large"]
Script == [Plain EXCEPT !.cgi = TRUE]
BadScript == [Script EXCEPT !.bad = "header", !.body = "small"]
Nowhere == [Plain EXCEPT !.bad = "location", !.body = "large"]
Nonsense == [Plain EXCEPT !.bad = "line"]

Any == {Plain, Expecting, TooBig, Script, BadScript}

\* Every two of the usual requests, what only ends a conversation, and the
\* three requests it takes for a body to be read as a request.
SomeConversations ==
  {<<r, q>> : r \in Any, q \in Any}
    \cup {<<Last>>, <<Nonsense>>, <<[Script EXCEPT !.body = "small"]>>,
              <<Plain, Nowhere>>, <<Script, Expecting, Plain>>}
=============================================================================
