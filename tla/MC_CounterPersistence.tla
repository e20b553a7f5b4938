------------------------ MODULE MC_CounterPersistence ------------------------
(* Small instances of CounterPersistence for TLC.                           *)
EXTENDS CounterPersistence, TLC

CONSTANTS a, b

MCWans == {a, b}
MCOneWan == {a}
WanSymmetry == Permutations({a, b})

(* With U64Max = 15 a counter at 12 wraps when it forwards 4 more bytes. *)
ZeroCounter == {0}
TwelveBytes == {12}
FourBytes == {4}
TwoOrSix == {2, 6}

StepBack == {-4000}
NoClockSteps == {}

StoreFaults == {"storage", "identity", "uptime"}
MemberFaults == {"interface", "counter", "identity"}
StorageFaults == {"storage"}
-----------------------------------------------------------------------------
(* The run `single' follows every behaviour through polls at three instants *)
(* and a reboot; as long as nothing but reboots disturbed the samples, it   *)
(* goes on to twice that time and a second reboot: uptimes have to grow     *)
(* before one can be mistaken for another.                                  *)
Undisturbed ==
    /\ incarnation = 1
    /\ wall = mono
    /\ \A i \in Interfaces : baselines[i] = None => checkpoint[i] = None
    /\ \A i \in Interfaces : baselines[i] # None => baselines[i].uptime # None
    /\ \A g \in gaps : g.reason = "router_rebooted"

ShortOrUndisturbed == Undisturbed \/ (mono <= 28000 /\ boots <= 1)
=============================================================================
