--------------------------- MODULE MC_AuthSessions ---------------------------
(* A small instance of AuthSessions for TLC.                                *)
EXTENDS AuthSessions, TLC

CONSTANTS r1, r2, s1, s2, c1, p1

MCRequests == {r1, r2}
MCSessions == {s1, s2}
MCCodes    == {c1}
MCPolicies == {p1}

(* Handlers, rows and codes are interchangeable. *)
Symmetry == Permutations(MCRequests) \union Permutations(MCSessions)
=============================================================================
