---------------------------- MODULE MCCGIHandler ----------------------------
(* Small instances of CGIHandler for TLC.                                  *)
EXTENDS CGIHandler

CONSTANTS c1, h1, h2

OneClient == {c1}
TwoHandlers == {h1, h2}
=============================================================================
