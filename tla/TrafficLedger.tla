---------------------------- MODULE TrafficLedger ----------------------------
(****************************************************************************)
(* What exact traffic persistence promises, without counters, baselines or  *)
(* a database.  Every interface owns a ledger: a frontier (the instant of   *)
(* the last durable observation) and the intervals accounted for so far.    *)
(* An interval is either exact (its bytes are known) or a gap.  A ledger is *)
(* opened once and afterwards only extended from its frontier, so nothing   *)
(* is counted twice and nothing is silently skipped.                        *)
(****************************************************************************)
EXTENDS Integers

CONSTANTS
    Interfaces,     \* every interface with a durable id, the aggregate included
    None            \* the frontier of an interface that was never observed (no integer)

VARIABLES
    frontier,       \* [Interfaces -> Int \cup {None}]
    entries         \* the accounted intervals

ledgerVars == <<frontier, entries>>

Entry == [iface : Interfaces, start : Int, end : Int, exact : BOOLEAN]

LedgerTypeOK ==
    /\ frontier \in [Interfaces -> Int \cup {None}]
    /\ entries \subseteq Entry

LedgerInit ==
    /\ frontier = [i \in Interfaces |-> None]
    /\ entries = {}

(* The first observation of an interface claims no traffic. *)
Open(i, t) ==
    /\ frontier[i] \notin Int
    /\ t \in Int
    /\ frontier' = [frontier EXCEPT ![i] = t]
    /\ UNCHANGED entries

(* Every later observation accounts for exactly the time since the last one. *)
Extend(i, t, exact) ==
    /\ frontier[i] \in Int
    /\ t \in Int
    /\ t > frontier[i]
    /\ frontier' = [frontier EXCEPT ![i] = t]
    /\ entries' = entries \cup
         {[iface |-> i, start |-> frontier[i], end |-> t, exact |-> exact]}

LedgerNext ==
    \E i \in Interfaces :
        \/ Open(i, frontier'[i])
        \/ \E exact \in BOOLEAN : Extend(i, frontier'[i], exact)

LedgerSpec == LedgerInit /\ [][LedgerNext]_ledgerVars

-----------------------------------------------------------------------------

(* Entries have positive length and end no later than the frontier. *)
EntriesBehindFrontier ==
    \A e \in entries :
        /\ frontier[e.iface] \in Int
        /\ e.start < e.end
        /\ e.end <= frontier[e.iface]

(* No instant of an interface is accounted for twice. *)
NoDoubleCounting ==
    \A e, f \in entries :
        e.iface = f.iface => e = f \/ e.end <= f.start \/ f.end <= e.start

(* No instant between the first entry and the frontier is skipped: each     *)
(* entry is followed by another one or reaches the frontier.                *)
NoSilentHole ==
    \A e \in entries :
        \/ e.end = frontier[e.iface]
        \/ \E f \in entries : f.iface = e.iface /\ f.start = e.end

=============================================================================
