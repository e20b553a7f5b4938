----------------------------- MODULE MC_SignIn ------------------------------
(* A small instance of SignIn for TLC: a fresh daemon, one with a provider  *)
(* and one with devices to pair.                                            *)
EXTENDS SignIn

CONSTANTS h1, h2, s1, s2, f1, f2, b1, c1, c2, d1

MCHandlers == {h1, h2}
MCSources == {s1, s2}
MCFlows == {f1, f2}
MCBrowsers == {b1}
MCCallbacks == {c1, c2}
MCDeployments ==
    {[admin |-> FALSE, oidc |-> FALSE, devices |-> {}, faults |-> 2],
     [admin |-> TRUE, oidc |-> TRUE, devices |-> {}, faults |-> 0],
     [admin |-> TRUE, oidc |-> FALSE, devices |-> {d1}, faults |-> 0]}
=============================================================================
