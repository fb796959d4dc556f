---------------------------- MODULE MCRequestBody ----------------------------
(* Small instances of RequestBody for TLC.                                 *)
EXTENDS RequestBody

\* Up to three chunks of up to three bytes, four bytes in all: no body, bodies
\* below and above the limit, sizes of one and of two digits.
Sizes == {s \in UNION {[1..n -> 1..3] : n \in 0..3} : Total(s) <= 4}

AllMessages == [framing : {"length", "chunked"}, sizes : Sizes, next : BOOLEAN]

SomeBytes == <<"a", "b", "c", "d">>

OneChunkMessage == {[framing |-> "chunked", sizes |-> <<2>>, next |-> FALSE]}
=============================================================================
