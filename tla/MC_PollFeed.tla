----------------------------- MODULE MC_PollFeed -----------------------------
(* Small instances of PollFeed for TLC.                                     *)
EXTENDS PollFeed

CONSTANTS r1, r2, x, y, ip6

OneRouter  == {r1}
TwoRouters == {r1, r2}
OneValue   == {x}
TwoValues  == {x, y}
OneAddress == {ip6}
NoAddress  == {}
=============================================================================
