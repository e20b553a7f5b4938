------------------------- MODULE MC_ServerLifecycle -------------------------
(* A small instance of ServerLifecycle for TLC.                             *)
EXTENDS ServerLifecycle

CONSTANTS c1, c2, s1, s2, a1, a2

MCConns    == {c1, c2}
MCSessions == {s1, s2}
MCSources  == {a1, a2}
=============================================================================
