-------------------------- MODULE WebSocket_proofs --------------------------
(****************************************************************************)
(* Theorems about the two ends of a WebSocket: ServerLifecycle, for any     *)
(* finite set of connections and any sessions, sources and limits, and      *)
(* WsClient, for any number of generations and sign-ins.  The two share no  *)
(* state; each theorem is about the specification of one of them.           *)
(****************************************************************************)
EXTENDS ServerLifecycle, WsClient, FiniteSetTheorems, TLAPS

-----------------------------------------------------------------------------
(* The server.  The tallies of the limiter and of the tracker are compared  *)
(* with sets of connections, so every step is classified by what it does to *)
(* these sets: one connection enters or leaves, or nothing changes.         *)

Places == {"new", "permitted", "registered", "streaming", "closing",
           "unguarding", "refused", "gone"}

(* Where a connection stands; who holds a permit is known by its tallies. *)
ConnsTyped ==
    /\ conn \in [Conns -> [pc : Places, session : Sessions \cup {"none"},
                           source : Sources \cup {"none"}]]
    /\ \A c \in Conns : HoldsPermit(c) => conn[c].session \in Sessions
                                          /\ conn[c].source \in Sources

(* Once main has stopped accepting it stays so, and an empty drain is empty *)
(* for good.                                                                *)
DrainStands ==
    /\ main \in {"checkEmpty", "asleep", "joinPoller", "exited"} => ~accepting
    /\ wsDrained = "empty" => ~accepting /\ active = 0

LifecycleInv ==
    /\ TypeOK
    /\ ConnsTyped
    /\ PermitsAreCounted
    /\ GuardsAreCounted
    /\ DrainStands
    /\ SleeperIsNotified

Permits == {c \in Conns : HoldsPermit(c)}
Guards == {c \in Conns : HoldsGuard(c)}
OfSession(s) == {c \in Conns : HoldsPermit(c) /\ conn[c].session = s}
OfSource(a) == {c \in Conns : HoldsPermit(c) /\ conn[c].source = a}

-----------------------------------------------------------------------------
(* Counting                                                                 *)

LEMMA Limits ==
    /\ IsFiniteSet(Conns)
    /\ GlobalLimit \in Nat /\ SessionLimit \in Nat /\ SourceLimit \in Nat
    /\ Cardinality(Conns) \in Nat
BY LifecycleConstants, FS_CardinalityType DEF LifecycleConstants

(* Any set of connections can be counted. *)
LEMMA Countable ==
    ASSUME NEW S \in SUBSET Conns
    PROVE  IsFiniteSet(S) /\ Cardinality(S) \in 0..Cardinality(Conns)
BY Limits, FS_Subset, FS_CardinalityType

(* The tallies as cardinalities of the sets above, now and after a step. *)
PermitsTallied ==
    /\ counts.total = Cardinality(Permits) /\ counts.total <= GlobalLimit
    /\ \A s \in Sessions : counts.bySession[s] = Cardinality(OfSession(s))
                           /\ counts.bySession[s] <= SessionLimit
    /\ \A a \in Sources : counts.bySource[a] = Cardinality(OfSource(a))
                          /\ counts.bySource[a] <= SourceLimit

LEMMA Tallies ==
    /\ PermitsAreCounted <=> PermitsTallied
    /\ PermitsAreCounted' <=> PermitsTallied'
    /\ GuardsAreCounted <=> active = Cardinality(Guards)
    /\ GuardsAreCounted' <=> active' = Cardinality(Guards')
BY DEF PermitsAreCounted, PermitsTallied, GuardsAreCounted, Count, Permits, Guards, OfSession,
       OfSource

(* A step that leaves every permit where it is keeps the tallies right. *)
LEMMA PermitsKept ==
    ASSUME PermitsAreCounted, counts' = counts,
           \A c \in Conns : /\ HoldsPermit(c)' <=> HoldsPermit(c)
                            /\ HoldsPermit(c) => conn'[c].session = conn[c].session
                                                 /\ conn'[c].source = conn[c].source
    PROVE  PermitsAreCounted'
<1>1. Permits' = Permits
  BY DEF Permits
<1>2. \A s \in Sessions : OfSession(s)' = OfSession(s)
  BY DEF OfSession
<1>3. \A a \in Sources : OfSource(a)' = OfSource(a)
  BY DEF OfSource
<1> QED
  BY <1>1, <1>2, <1>3, Tallies DEF PermitsTallied

(* A connection that takes a permit is counted three times. *)
LEMMA PermitTaken ==
    ASSUME TypeOK, ConnsTyped, PermitsAreCounted,
           NEW d \in Conns, NEW s \in Sessions, NEW a \in Sources,
           WithinLimits(s, a), AddPermit(s, a), ~HoldsPermit(d),
           conn' = [conn EXCEPT ![d] = [pc |-> "permitted", session |-> s, source |-> a]]
    PROVE  /\ PermitsAreCounted'
           /\ counts' \in [total : 0..GlobalLimit, bySession : [Sessions -> 0..SessionLimit],
                           bySource : [Sources -> 0..SourceLimit]]
<1>1. /\ HoldsPermit(d)' /\ conn'[d].session = s /\ conn'[d].source = a
      /\ \A c \in Conns \ {d} : (HoldsPermit(c)' <=> HoldsPermit(c)) /\ conn'[c] = conn[c]
  BY DEF ConnsTyped, HoldsPermit
<1>2. /\ Permits' = Permits \cup {d} /\ d \notin Permits
      /\ \A t \in Sessions : /\ d \notin OfSession(t)
                             /\ OfSession(t)' = IF t = s THEN OfSession(t) \cup {d} ELSE OfSession(t)
      /\ \A b \in Sources : /\ d \notin OfSource(b)
                            /\ OfSource(b)' = IF b = a THEN OfSource(b) \cup {d} ELSE OfSource(b)
  BY <1>1 DEF Permits, OfSession, OfSource
<1>3. /\ Cardinality(Permits \cup {d}) = Cardinality(Permits) + 1
      /\ \A t \in Sessions : Cardinality(OfSession(t) \cup {d}) = Cardinality(OfSession(t)) + 1
      /\ \A b \in Sources : Cardinality(OfSource(b) \cup {d}) = Cardinality(OfSource(b)) + 1
  BY <1>2, Countable, FS_AddElement DEF Permits, OfSession, OfSource
<1>4. /\ counts'.total = counts.total + 1
      /\ \A t \in Sessions : counts'.bySession[t] = IF t = s THEN counts.bySession[t] + 1
                                                    ELSE counts.bySession[t]
      /\ \A b \in Sources : counts'.bySource[b] = IF b = a THEN counts.bySource[b] + 1
                                                   ELSE counts.bySource[b]
      /\ counts' \in [total : 0..GlobalLimit, bySession : [Sessions -> 0..SessionLimit],
                      bySource : [Sources -> 0..SourceLimit]]
  <2>1. counts' = [total |-> counts.total + 1,
                   bySession |-> [counts.bySession EXCEPT ![s] = @ + 1],
                   bySource |-> [counts.bySource EXCEPT ![a] = @ + 1]]
    BY DEF TypeOK, AddPermit
  <2> QED
    BY <2>1, Limits DEF TypeOK, WithinLimits
<1>5. /\ counts'.total = Cardinality(Permits') /\ counts'.total <= GlobalLimit
  BY <1>2, <1>3, <1>4, Tallies, Limits DEF PermitsTallied
<1>6. \A t \in Sessions : counts'.bySession[t] = Cardinality(OfSession(t)')
                          /\ counts'.bySession[t] <= SessionLimit
  BY <1>2, <1>3, <1>4, Tallies, Limits DEF PermitsTallied
<1>7. \A b \in Sources : counts'.bySource[b] = Cardinality(OfSource(b)')
                         /\ counts'.bySource[b] <= SourceLimit
  BY <1>2, <1>3, <1>4, Tallies, Limits DEF PermitsTallied
<1> QED
  BY <1>4, <1>5, <1>6, <1>7, Tallies DEF PermitsTallied

(* A connection that drops its permit is forgotten by all three tallies. *)
LEMMA PermitDropped ==
    ASSUME TypeOK, ConnsTyped, PermitsAreCounted,
           NEW d \in Conns, HoldsPermit(d), DropPermit(d),
           NEW pc \in Places, pc \notin {"permitted", "registered", "streaming", "closing"},
           Goto(d, pc)
    PROVE  /\ PermitsAreCounted'
           /\ counts' \in [total : 0..GlobalLimit, bySession : [Sessions -> 0..SessionLimit],
                           bySource : [Sources -> 0..SourceLimit]]
<1> DEFINE s == conn[d].session
           a == conn[d].source
<1>0. s \in Sessions /\ a \in Sources
  BY DEF ConnsTyped
<1> HIDE DEF s, a
<1>1. /\ ~HoldsPermit(d)'
      /\ \A c \in Conns \ {d} : (HoldsPermit(c)' <=> HoldsPermit(c)) /\ conn'[c] = conn[c]
  BY DEF ConnsTyped, HoldsPermit, Goto
<1>2. /\ Permits' = Permits \ {d} /\ d \in Permits
      /\ \A t \in Sessions : /\ t = s => d \in OfSession(t)
                             /\ OfSession(t)' = IF t = s THEN OfSession(t) \ {d} ELSE OfSession(t)
      /\ \A b \in Sources : /\ b = a => d \in OfSource(b)
                            /\ OfSource(b)' = IF b = a THEN OfSource(b) \ {d} ELSE OfSource(b)
  BY <1>1 DEF Permits, OfSession, OfSource, s, a
<1>3. /\ Cardinality(Permits \ {d}) = Cardinality(Permits) - 1
      /\ \A t \in Sessions : d \in OfSession(t) =>
            Cardinality(OfSession(t) \ {d}) = Cardinality(OfSession(t)) - 1
      /\ \A b \in Sources : d \in OfSource(b) =>
            Cardinality(OfSource(b) \ {d}) = Cardinality(OfSource(b)) - 1
  BY <1>2, Countable, FS_RemoveElement DEF Permits, OfSession, OfSource
<1>4. /\ counts'.total = Decrement(counts.total)
      /\ \A t \in Sessions : counts'.bySession[t] = IF t = s THEN Decrement(counts.bySession[t])
                                                    ELSE counts.bySession[t]
      /\ \A b \in Sources : counts'.bySource[b] = IF b = a THEN Decrement(counts.bySource[b])
                                                   ELSE counts.bySource[b]
      /\ counts' \in [total : 0..GlobalLimit, bySession : [Sessions -> 0..SessionLimit],
                      bySource : [Sources -> 0..SourceLimit]]
  <2>1. counts' = [total |-> Decrement(counts.total),
                   bySession |-> [counts.bySession EXCEPT ![s] = Decrement(@)],
                   bySource |-> [counts.bySource EXCEPT ![a] = Decrement(@)]]
    BY DEF TypeOK, DropPermit, s, a
  <2> QED
    BY <1>0, <2>1, Limits DEF TypeOK, Decrement
<1>5. /\ Cardinality(Permits) \in Nat /\ Cardinality(Permits \ {d}) \in Nat
      /\ \A t \in Sessions : Cardinality(OfSession(t)) \in Nat /\ Cardinality(OfSession(t) \ {d}) \in Nat
      /\ \A b \in Sources : Cardinality(OfSource(b)) \in Nat /\ Cardinality(OfSource(b) \ {d}) \in Nat
  BY Countable, Limits DEF Permits, OfSession, OfSource
<1>6. counts'.total = Cardinality(Permits') /\ counts'.total <= GlobalLimit
  BY <1>2, <1>3, <1>4, <1>5, Tallies, Limits DEF PermitsTallied, Decrement
<1>7. \A t \in Sessions : counts'.bySession[t] = Cardinality(OfSession(t)')
                          /\ counts'.bySession[t] <= SessionLimit
  BY <1>2, <1>3, <1>4, <1>5, Tallies, Limits DEF PermitsTallied, Decrement
<1>8. \A b \in Sources : counts'.bySource[b] = Cardinality(OfSource(b)')
                         /\ counts'.bySource[b] <= SourceLimit
  BY <1>2, <1>3, <1>4, <1>5, Tallies, Limits DEF PermitsTallied, Decrement
<1> QED
  BY <1>4, <1>6, <1>7, <1>8, Tallies DEF PermitsTallied

(* A step that leaves every guard where it is keeps the tracker's count. *)
LEMMA GuardsKept ==
    ASSUME GuardsAreCounted, active' = active,
           \A c \in Conns : HoldsGuard(c)' <=> HoldsGuard(c)
    PROVE  GuardsAreCounted'
<1>1. Guards' = Guards
  BY DEF Guards
<1> QED
  BY <1>1, Tallies

LEMMA GuardTaken ==
    ASSUME ConnsTyped, GuardsAreCounted, NEW d \in Conns, ~HoldsGuard(d),
           Goto(d, "registered"), active' = active + 1
    PROVE  GuardsAreCounted' /\ active' \in 0..Cardinality(Conns)
<1>1. Guards' = Guards \cup {d} /\ d \notin Guards
  BY DEF Guards, HoldsGuard, ConnsTyped, Goto
<1>2. Cardinality(Guards \cup {d}) = Cardinality(Guards) + 1
  BY <1>1, Countable, FS_AddElement DEF Guards
<1>3. Cardinality(Guards') \in 0..Cardinality(Conns)
  BY <1>1, Countable DEF Guards
<1> QED
  BY <1>1, <1>2, <1>3, Tallies

LEMMA GuardDropped ==
    ASSUME ConnsTyped, GuardsAreCounted, NEW d \in Conns, HoldsGuard(d),
           Goto(d, "gone"), active' = Decrement(active)
    PROVE  GuardsAreCounted' /\ active' \in 0..Cardinality(Conns)
<1>1. Guards' = Guards \ {d} /\ d \in Guards
  BY DEF Guards, HoldsGuard, ConnsTyped, Goto
<1>2. Cardinality(Guards \ {d}) = Cardinality(Guards) - 1
  BY <1>1, Countable, FS_RemoveElement DEF Guards
<1>3. /\ Cardinality(Guards') \in 0..Cardinality(Conns)
      /\ Cardinality(Guards) \in 0..Cardinality(Conns)
  BY <1>1, Countable DEF Guards
<1> QED
  BY <1>1, <1>2, <1>3, Tallies, Limits DEF Decrement

-----------------------------------------------------------------------------
(* Steps of a connection                                                    *)

LEMMA TryAcquireStep ==
    ASSUME LifecycleInv, NEW c \in Conns, NEW s \in Sessions, NEW a \in Sources,
           TryAcquire(c, s, a)
    PROVE  LifecycleInv'
<1> USE DEF LifecycleInv, TryAcquire
<1>1. /\ PermitsAreCounted'
      /\ counts' \in [total : 0..GlobalLimit, bySession : [Sessions -> 0..SessionLimit],
                      bySource : [Sources -> 0..SourceLimit]]
  BY PermitTaken DEF HoldsPermit
<1>2. ConnsTyped'
  BY DEF ConnsTyped, HoldsPermit, Places
<1>3. GuardsAreCounted'
  BY GuardsKept DEF HoldsGuard, ConnsTyped
<1>4. TypeOK'
  BY <1>1, <1>2 DEF TypeOK, ConnsTyped, Places, pollerVars, mainVars
<1>5. DrainStands' /\ SleeperIsNotified'
  BY DEF DrainStands, SleeperIsNotified, mainVars
<1> QED
  BY <1>1, <1>2, <1>3, <1>4, <1>5

(* A connection that moves on without touching permit, guard or counters. *)
LEMMA MoveStep ==
    ASSUME LifecycleInv, NEW c \in Conns, NEW pc \in Places, Goto(c, pc),
           UNCHANGED <<counts, accepting, active, notified, valid, pollerVars, mainVars>>,
           \/ conn[c].pc = "new" /\ pc = "refused"
           \/ conn[c].pc \in {"registered", "streaming"} /\ pc \in {"streaming", "closing"}
    PROVE  LifecycleInv'
<1> USE DEF LifecycleInv, Goto
<1>1. ConnsTyped'
  BY DEF ConnsTyped, HoldsPermit, Places
<1>2. PermitsAreCounted'
  BY PermitsKept DEF HoldsPermit, ConnsTyped
<1>3. GuardsAreCounted'
  BY GuardsKept DEF HoldsGuard, ConnsTyped
<1>4. TypeOK'
  BY <1>1 DEF TypeOK, ConnsTyped, Places, pollerVars, mainVars
<1>5. DrainStands' /\ SleeperIsNotified'
  BY DEF DrainStands, SleeperIsNotified, mainVars
<1> QED
  BY <1>1, <1>2, <1>3, <1>4, <1>5

LEMMA TryRegisterStep ==
    ASSUME LifecycleInv, NEW c \in Conns, TryRegister(c)
    PROVE  LifecycleInv'
<1> USE DEF LifecycleInv, TryRegister
<1>1. ConnsTyped'
  BY DEF ConnsTyped, HoldsPermit, Places, Goto
<1>2. PermitsAreCounted'
  BY PermitsKept DEF HoldsPermit, ConnsTyped, Goto
<1>3. GuardsAreCounted' /\ active' \in 0..Cardinality(Conns)
  BY GuardTaken DEF HoldsGuard
<1>4. TypeOK'
  BY <1>1, <1>3 DEF TypeOK, ConnsTyped, Places, pollerVars, mainVars
<1>5. DrainStands' /\ SleeperIsNotified'
  BY Limits DEF DrainStands, SleeperIsNotified, mainVars, TypeOK
<1> QED
  BY <1>1, <1>2, <1>3, <1>4, <1>5

(* RefuseRegistration, UpgradeFails and ReleasePermit give the permit back. *)
LEMMA GiveBackStep ==
    ASSUME LifecycleInv, NEW c \in Conns, NEW pc, Goto(c, pc), DropPermit(c),
           UNCHANGED <<accepting, active, notified, valid, pollerVars, mainVars>>,
           \/ conn[c].pc = "permitted" /\ pc = "refused"
           \/ conn[c].pc \in {"registered", "closing"} /\ pc = "unguarding"
    PROVE  LifecycleInv'
<1> USE DEF LifecycleInv
<1>1. /\ PermitsAreCounted'
      /\ counts' \in [total : 0..GlobalLimit, bySession : [Sessions -> 0..SessionLimit],
                      bySource : [Sources -> 0..SourceLimit]]
  BY PermitDropped DEF HoldsPermit, Places
<1>2. ConnsTyped'
  BY DEF ConnsTyped, HoldsPermit, Places, Goto
<1>3. GuardsAreCounted'
  BY GuardsKept DEF HoldsGuard, ConnsTyped, Goto
<1>4. TypeOK'
  BY <1>1, <1>2 DEF TypeOK, ConnsTyped, Places, pollerVars, mainVars
<1>5. DrainStands' /\ SleeperIsNotified'
  BY DEF DrainStands, SleeperIsNotified, mainVars
<1> QED
  BY <1>1, <1>2, <1>3, <1>4, <1>5

(* The last guard leaves a wake-up behind. *)
LEMMA ReleaseGuardStep ==
    ASSUME LifecycleInv, NEW c \in Conns, ReleaseGuard(c)
    PROVE  LifecycleInv'
<1> USE DEF LifecycleInv, ReleaseGuard
<1>1. ConnsTyped'
  BY DEF ConnsTyped, HoldsPermit, Places, Goto
<1>2. PermitsAreCounted'
  BY PermitsKept DEF HoldsPermit, ConnsTyped, Goto
<1>3. GuardsAreCounted' /\ active' \in 0..Cardinality(Conns)
  BY GuardDropped DEF HoldsGuard, DropGuard
<1>4. TypeOK'
  BY <1>1, <1>3 DEF TypeOK, ConnsTyped, Places, pollerVars, mainVars, DropGuard
<1>5. DrainStands' /\ SleeperIsNotified'
  <2>1. active = 0 => active' = 0
    BY DEF DropGuard, Decrement
  <2>2. active' = 0 => notified'
    BY DEF DropGuard
  <2> QED
    BY <2>1, <2>2 DEF DrainStands, SleeperIsNotified, mainVars
<1> QED
  BY <1>1, <1>2, <1>3, <1>4, <1>5

LEMMA ConnectionStep ==
    ASSUME LifecycleInv, NEW c \in Conns,
           \/ \E s \in Sessions, a \in Sources : TryAcquire(c, s, a) \/ RefuseConnection(c, s, a)
           \/ UpgradeFails(c)
           \/ EndSession(c)
           \/ SessionStep(c)
    PROVE  LifecycleInv'
<1>1. CASE \E s \in Sessions, a \in Sources : TryAcquire(c, s, a)
  BY <1>1, TryAcquireStep
<1>2. CASE \E s \in Sessions, a \in Sources : RefuseConnection(c, s, a)
  BY <1>2, MoveStep DEF RefuseConnection, Places
<1>3. CASE UpgradeFails(c) \/ RefuseRegistration(c) \/ ReleasePermit(c)
  BY <1>3, GiveBackStep DEF UpgradeFails, RefuseRegistration, ReleasePermit
<1>4. CASE EndSession(c) \/ ObserveShutdown(c) \/ RevalidateSession(c)
  BY <1>4, MoveStep DEF EndSession, ObserveShutdown, RevalidateSession, Places
<1>5. CASE StartSession(c)
  BY <1>5, MoveStep DEF StartSession, Places
<1>6. CASE TryRegister(c)
  BY <1>6, TryRegisterStep
<1>7. CASE ReleaseGuard(c)
  BY <1>7, ReleaseGuardStep
<1> QED
  BY <1>1, <1>2, <1>3, <1>4, <1>5, <1>6, <1>7 DEF SessionStep

-----------------------------------------------------------------------------
(* Steps of main, of the poller and of the login sessions                   *)

(* What concerns connections only depends on the connections' variables. *)
LEMMA ConnectionsKept ==
    ASSUME LifecycleInv, UNCHANGED <<conn, counts, active>>
    PROVE  ConnsTyped' /\ PermitsAreCounted' /\ GuardsAreCounted'
<1> USE DEF LifecycleInv
<1>1. ConnsTyped'
  BY DEF ConnsTyped, HoldsPermit
<1>2. PermitsAreCounted'
  BY PermitsKept DEF HoldsPermit
<1>3. GuardsAreCounted'
  BY GuardsKept DEF HoldsGuard
<1> QED
  BY <1>1, <1>2, <1>3

LEMMA SupervisionStep ==
    ASSUME LifecycleInv,
           \/ SignalArrives \/ PollerDies \/ SetupFails \/ PollerStops \/ GraceExpires
           \/ DrainTimesOut \/ MainStep \/ \E s \in Sessions : Revoke(s)
           \/ HoldRequest \/ FinishRequest
    PROVE  LifecycleInv'
<1> USE DEF connVars, pollerVars, mainVars
<1>1. UNCHANGED <<conn, counts, active>>
  BY DEF SignalArrives, PollerDies, SetupFails, PollerStops, GraceExpires, DrainTimesOut,
         MainStep, HttpDrains, HttpIsDone, SupervisePoller, StopAccepting, CheckEmpty, WakeUp,
         JoinPoller, Revoke, HoldRequest, FinishRequest
<1>2. ConnsTyped' /\ PermitsAreCounted' /\ GuardsAreCounted'
  BY <1>1, ConnectionsKept
<1>3. TypeOK' /\ DrainStands' /\ SleeperIsNotified'
  <2> USE <1>1 DEF LifecycleInv, TypeOK, DrainStands, SleeperIsNotified
  <2>1. CASE SignalArrives
    BY <2>1 DEF SignalArrives
  <2>13. CASE SetupFails
    BY <2>13 DEF SetupFails
  <2>10. CASE PollerDies \/ PollerStops
    BY <2>10 DEF PollerDies, PollerStops
  <2>2. CASE GraceExpires
    BY <2>2 DEF GraceExpires
  <2>3. CASE DrainTimesOut
    BY <2>3 DEF DrainTimesOut
  <2>14. CASE HoldRequest
    BY <2>14 DEF HoldRequest
  <2>15. CASE FinishRequest
    <3>1. /\ held' = FALSE
          /\ UNCHANGED <<accepting, notified, valid, pollerVars, shutdown, http, main, wsDrained>>
      BY <2>15 DEF FinishRequest
    <3>2. TypeOK'
      BY <3>1
    <3>3. DrainStands' /\ SleeperIsNotified'
      BY <3>1
    <3> QED BY <3>2, <3>3
  <2>4. CASE HttpDrains
    BY <2>4 DEF HttpDrains
  <2>11. CASE HttpIsDone
    BY <2>11 DEF HttpIsDone
  <2>12. CASE SupervisePoller
    BY <2>12 DEF SupervisePoller
  <2>5. CASE StopAccepting
    BY <2>5 DEF StopAccepting
  <2>6. CASE CheckEmpty
    BY <2>6 DEF CheckEmpty
  <2>7. CASE WakeUp
    BY <2>7 DEF WakeUp
  <2>8. CASE \E aborts \in BOOLEAN : JoinPoller(aborts)
    BY <2>8 DEF JoinPoller
  <2>9. CASE \E s \in Sessions : Revoke(s)
    BY <2>9 DEF Revoke
  <2> QED
    BY <2>1, <2>2, <2>3, <2>4, <2>5, <2>6, <2>7, <2>8, <2>9, <2>10, <2>11, <2>12, <2>13,
       <2>14, <2>15 DEF MainStep
<1> QED
  BY <1>2, <1>3 DEF LifecycleInv

-----------------------------------------------------------------------------
LEMMA LifecycleInvInit == Init => LifecycleInv
<1> SUFFICES ASSUME Init PROVE LifecycleInv
  OBVIOUS
<1> USE DEF Init, Idle
<1>1. Permits = {} /\ Guards = {}
  BY DEF Permits, Guards, HoldsPermit, HoldsGuard
<1>2. \A s \in Sessions : OfSession(s) = {}
  BY <1>1 DEF OfSession, Permits
<1>3. \A a \in Sources : OfSource(a) = {}
  BY <1>1 DEF OfSource, Permits
<1>4. PermitsAreCounted /\ GuardsAreCounted
  <2>1. Cardinality({}) = 0
    BY FS_EmptySet
  <2>2. /\ counts.total = 0 /\ active = 0
        /\ \A s \in Sessions : counts.bySession[s] = 0
        /\ \A a \in Sources : counts.bySource[a] = 0
    OBVIOUS
  <2> HIDE DEF Init
  <2>4. 0 <= GlobalLimit /\ 0 <= SessionLimit /\ 0 <= SourceLimit
    BY Limits
  <2>5. \A s \in Sessions : counts.bySession[s] = Cardinality(OfSession(s))
                            /\ counts.bySession[s] <= SessionLimit
    BY <1>2, <2>1, <2>2, <2>4
  <2>6. \A a \in Sources : counts.bySource[a] = Cardinality(OfSource(a))
                           /\ counts.bySource[a] <= SourceLimit
    BY <1>3, <2>1, <2>2, <2>4
  <2>3. PermitsTallied
    BY <1>1, <2>1, <2>2, <2>4, <2>5, <2>6 DEF PermitsTallied
  <2> QED
    BY <1>1, <2>1, <2>2, <2>3, Tallies
<1>5. TypeOK /\ ConnsTyped
  <2>1. counts \in [total : 0..GlobalLimit, bySession : [Sessions -> 0..SessionLimit],
                    bySource : [Sources -> 0..SourceLimit]]
    BY Limits
  <2>2. ConnsTyped
    BY DEF ConnsTyped, Places, HoldsPermit
  <2>3. \A c \in Conns : conn[c].pc \in Places
    BY <2>2 DEF ConnsTyped
  <2>4. valid \in [Sessions -> BOOLEAN] /\ active \in 0..Cardinality(Conns)
    BY Limits
  <2> QED
    BY <2>1, <2>2, <2>3, <2>4 DEF TypeOK, Places
<1> QED
  BY <1>4, <1>5 DEF LifecycleInv, DrainStands, SleeperIsNotified

LEMMA LifecycleInvStep == LifecycleInv /\ [Next]_vars => LifecycleInv'
<1> SUFFICES ASSUME LifecycleInv, [Next]_vars PROVE LifecycleInv'
  OBVIOUS
<1>1. CASE Exited \/ UNCHANGED vars
  <2>1. UNCHANGED vars
    BY <1>1 DEF Exited
  <2>2. ConnsTyped' /\ PermitsAreCounted' /\ GuardsAreCounted'
    BY <2>1, ConnectionsKept DEF vars, connVars
  <2> QED
    BY <2>1, <2>2 DEF vars, connVars, pollerVars, mainVars, LifecycleInv, TypeOK, DrainStands,
                      SleeperIsNotified
<1> QED
  BY <1>1, ConnectionStep, SupervisionStep DEF Next

(* Whatever ends a connection - a refused registration, an upgrade that     *)
(* never completes, the client, a revoked login, the shutdown - its permit  *)
(* goes back to all three tallies of ws/limits.rs and its guard to          *)
(* ws/tracker.rs, which never exceed their limits.                          *)
THEOREM NoResourceLeaks == Spec => []ResourcesAreCounted
<1>1. LifecycleInv => ResourcesAreCounted
  BY DEF LifecycleInv, ResourcesAreCounted, NothingLeaks
<1> QED
  BY <1>1, LifecycleInvInit, LifecycleInvStep, PTL DEF Spec

(* wait_for_empty of ws/tracker.rs neither misses the wake-up of the last   *)
(* session nor reports an empty server to which a session is still, or ever *)
(* again, registered.                                                       *)
THEOREM DrainIsComplete == Spec => []DrainIsSound
<1>1. LifecycleInv => DrainIsSound
  <2> SUFFICES ASSUME LifecycleInv, wsDrained = "empty" PROVE \A c \in Conns : ~HoldsGuard(c)
    BY DEF LifecycleInv, DrainIsSound, DrainIsFinal
  <2>1. Cardinality(Guards) = 0
    BY Tallies DEF LifecycleInv, DrainStands
  <2>2. Guards = {}
    BY <2>1, Countable, FS_EmptySet DEF Guards
  <2> QED
    BY <2>2 DEF Guards
<1> QED
  BY <1>1, LifecycleInvInit, LifecycleInvStep, PTL DEF Spec

-----------------------------------------------------------------------------
(* The browser.  The functions of websocket.ts are operators on stores, so  *)
(* the invariant is written on stores too: what each function does to a     *)
(* sound store is a lemma of its own, and a callback composes them.         *)

SocketStates == {"none", "connecting", "open", "closing", "closed"}

(* Only the store's socket can be live, it is then the current one, and     *)
(* "connected" is said of a current socket that has opened.                 *)
Sound(s) ==
    /\ s \in StoreType
    /\ \A g \in Generations : s.sockets[g] \in Live => s.ws = g /\ s.generation = g
    /\ s.connectionState = "connected" =>
         s.ws # None /\ IsCurrent(s, s.ws) /\ s.sockets[s.ws] \in {"open", "closing"}

(* A store that connect has been called on, and not disconnect. *)
Running(s) == s.activeUrl /\ ~s.intentional /\ ~s.expired /\ s.listening

Stopped(s) == ~s.activeUrl /\ s.ws = None /\ ~s.reconnectTimer /\ ~s.listening

StoreTries(s) ==
    \/ /\ s.ws # None
       /\ IsCurrent(s, s.ws)
       /\ s.sockets[s.ws] \in Live \cup {"closing"}
    \/ s.reconnectTimer
    \/ s.generation \in s.verifying

(* The store of a started application runs, of any other it is stopped; and *)
(* a start that is still loading is the present one unless it was stopped.  *)
Fits(a, s) ==
    /\ a \in AppType
    /\ Sound(s)
    /\ a.started => a.authenticated /\ Running(s) /\ (s.offline \/ StoreTries(s))
    /\ ~a.started => Stopped(s)
    /\ a.starting => a.startedIn <= a.generation
    /\ a.starting /\ ~a.started => a.startedIn # a.generation

Present(a) ==
    a.authenticated => a.started \/ (a.starting /\ a.startedIn # a.generation)

ClientInv ==
    /\ online \in BOOLEAN
    /\ signIns \in 0..MaxSignIns
    /\ Fits(app, store)
    /\ Present(app)

-----------------------------------------------------------------------------
(* What the functions of websocket.ts do to a sound store.                  *)

LEMMA Bounds == MaxGeneration \in Nat /\ MaxSignIns \in Nat /\ None \notin Generations
BY WsClientConstants DEF WsClientConstants, Generations

(* markDisconnected *)
LEMMA MarkDisconnectedIsSound ==
    ASSUME NEW s, Sound(s)
    PROVE  /\ Sound(MarkDisconnected(s))
           /\ MarkDisconnected(s).connectionState = "disconnected"
           /\ \A f \in {"ws", "activeUrl", "reconnectTimer", "intentional", "generation",
                        "listening", "offline", "expired", "sockets", "verifying"} :
                 MarkDisconnected(s)[f] = s[f]
BY DEF MarkDisconnected, Sound, StoreType, IsCurrent

(* scheduleReconnect leaves a timer unless the store is not to reconnect. *)
LEMMA ScheduleReconnectIsSound ==
    ASSUME NEW s, Sound(s)
    PROVE  /\ Sound(ScheduleReconnect(s))
           /\ ScheduleReconnect(s).offline = s.offline
           /\ Running(s) => Running(ScheduleReconnect(s))
                            /\ (s.offline \/ StoreTries(ScheduleReconnect(s)))
<1>1. CASE s.intentional \/ s.expired \/ s.offline \/ s.reconnectTimer
  BY <1>1 DEF ScheduleReconnect, Running, StoreTries
<1>2. CASE ~(s.intentional \/ s.expired \/ s.offline \/ s.reconnectTimer)
  <2> DEFINE t == [s EXCEPT !.reconnectTimer = TRUE]
  <2>1. ScheduleReconnect(s) = t
    BY <1>2 DEF ScheduleReconnect
  <2>2. Sound(t)
    BY DEF Sound, StoreType, IsCurrent
  <2>3. t.offline = s.offline /\ t.reconnectTimer /\ (Running(s) => Running(t))
    BY DEF Sound, StoreType, Running
  <2> QED
    BY <2>1, <2>2, <2>3 DEF StoreTries
<1> QED
  BY <1>1, <1>2

(* Setting flags, timers and checks does not touch the sockets. *)
LEMMA FlagsAreSound ==
    ASSUME NEW s, Sound(s), NEW t \in StoreType,
           t.ws = s.ws, t.generation = s.generation, t.sockets = s.sockets,
           t.connectionState = s.connectionState
    PROVE  Sound(t)
BY DEF Sound, IsCurrent

(* invalidateSocket closes what it forgets. *)
LEMMA InvalidateSocketIsSound ==
    ASSUME NEW s, Sound(s), s.generation < MaxGeneration
    PROVE  LET t == InvalidateSocket(s)
           IN  /\ t \in StoreType /\ t.ws = None
               /\ \A g \in Generations : t.sockets[g] \notin Live
               /\ \A f \in {"activeUrl", "reconnectTimer", "intentional", "listening",
                            "offline", "expired", "verifying"} : t[f] = s[f]
<1> DEFINE closed == [g \in Generations |->
                IF g = s.ws /\ s.sockets[g] \in Live THEN "closing" ELSE s.sockets[g]]
           t == [s EXCEPT !.generation = @ + 1, !.ws = None, !.sockets = closed]
<1>1. InvalidateSocket(s) = t
  BY DEF InvalidateSocket, Sound, StoreType
<1>2. closed \in [Generations -> SocketStates]
  BY DEF Sound, StoreType, SocketStates
<1>3. \A g \in Generations : closed[g] \notin Live
  BY DEF Sound, Live
<1>4. s.generation + 1 \in 0..MaxGeneration
  BY Bounds DEF Sound, StoreType
<1> HIDE DEF closed
<1>5. t \in StoreType
  BY <1>2, <1>4 DEF Sound, StoreType, SocketStates
<1>6. t.ws = None /\ t.sockets = closed
  BY DEF Sound, StoreType
<1>7. \A f \in {"activeUrl", "reconnectTimer", "intentional", "listening", "offline",
                "expired", "verifying"} : t[f] = s[f]
  BY DEF Sound, StoreType
<1> QED
  BY <1>1, <1>3, <1>5, <1>6, <1>7

(* Every caller of invalidateSocket marks the store disconnected. *)
LEMMA ReleaseIsSound ==
    ASSUME NEW s, Sound(s), s.generation < MaxGeneration
    PROVE  LET t == MarkDisconnected(InvalidateSocket(s))
           IN  /\ Sound(t) /\ t.ws = None
               /\ \A f \in {"activeUrl", "reconnectTimer", "intentional", "listening",
                            "offline", "expired", "verifying"} : t[f] = s[f]
<1> DEFINE i == InvalidateSocket(s)
<1>1. /\ i \in StoreType /\ i.ws = None
      /\ \A g \in Generations : i.sockets[g] \notin Live
      /\ \A f \in {"activeUrl", "reconnectTimer", "intentional", "listening",
                   "offline", "expired", "verifying"} : i[f] = s[f]
  BY InvalidateSocketIsSound
<1> HIDE DEF i
<1>2. Sound(MarkDisconnected(i))
  BY <1>1 DEF MarkDisconnected, Sound, StoreType
<1>3. MarkDisconnected(i).ws = None
  BY <1>1 DEF MarkDisconnected, StoreType
<1>4. \A f \in {"activeUrl", "reconnectTimer", "intentional", "listening",
                "offline", "expired", "verifying"} : MarkDisconnected(i)[f] = i[f]
  BY <1>1 DEF MarkDisconnected, StoreType
<1> QED
  BY <1>1, <1>2, <1>3, <1>4 DEF i

(* disconnect() stops the store, whatever it was doing. *)
LEMMA DisconnectStops ==
    ASSUME NEW s, Sound(s), s.generation < MaxGeneration
    PROVE  Sound(Disconnect(s)) /\ Stopped(Disconnect(s))
<1> DEFINE u == [s EXCEPT !.intentional = TRUE, !.activeUrl = FALSE,
                          !.reconnectTimer = FALSE, !.watchdog = None, !.listening = FALSE]
<1>1. /\ u \in StoreType /\ ~u.activeUrl /\ ~u.reconnectTimer /\ ~u.listening
      /\ u.ws = s.ws /\ u.generation = s.generation /\ u.sockets = s.sockets
      /\ u.connectionState = s.connectionState
  BY DEF Sound, StoreType
<1>2. Disconnect(s) = MarkDisconnected(InvalidateSocket(u))
  BY DEF Disconnect
<1> HIDE DEF u
<1>3. Sound(u)
  BY <1>1, FlagsAreSound
<1> QED
  BY <1>1, <1>2, <1>3, ReleaseIsSound DEF Stopped

(* connect(url) opens or keeps a current socket, or schedules the next try, *)
(* unless the browser is offline.                                           *)
LEMMA ConnectRuns ==
    ASSUME NEW s, Sound(s), s.generation < MaxGeneration, NEW throws \in BOOLEAN
    PROVE  /\ Sound(Connect(s, throws))
           /\ Running(Connect(s, throws))
           /\ Connect(s, throws).offline \/ StoreTries(Connect(s, throws))
<1> DEFINE t == AcceptUrl(s)
<1>1. /\ t \in StoreType /\ Running(t)
      /\ t.ws = s.ws /\ t.generation = s.generation /\ t.sockets = s.sockets
      /\ t.connectionState = s.connectionState
  BY DEF Sound, StoreType, AcceptUrl, Running
<1>2. Connect(s, throws) = IF t.offline THEN MarkDisconnected(t)
                           ELSE IF t.ws # None /\ t.sockets[t.ws] \in Live THEN t
                           ELSE OpenSocket(t, throws)
  BY DEF Connect
<1> HIDE DEF t
<1>3. Sound(t)
  BY <1>1, FlagsAreSound
<1>4. CASE t.offline
  BY <1>1, <1>2, <1>3, <1>4, MarkDisconnectedIsSound DEF Running
<1>5. CASE ~t.offline /\ t.ws # None /\ t.sockets[t.ws] \in Live
  <2>1. t.ws \in Generations
    BY <1>3, <1>5 DEF Sound, StoreType
  <2> QED
    BY <1>1, <1>2, <1>3, <1>5, <2>1 DEF Sound, StoreTries, IsCurrent
<1>6. CASE ~t.offline /\ ~(t.ws # None /\ t.sockets[t.ws] \in Live)
  <2> DEFINE h == t.generation + 1
             u == [t EXCEPT !.reconnectTimer = FALSE, !.connectionState = "connecting",
                            !.generation = h]
  <2>1. h \in Generations /\ h \in 0..MaxGeneration
    BY <1>1, Bounds DEF StoreType, Generations
  <2>2. \A g \in Generations : t.sockets[g] \notin Live
    BY <1>3, <1>6, Bounds DEF Sound
  <2>3. /\ u \in StoreType /\ Running(u) /\ u.generation = h /\ u.ws = t.ws
        /\ u.sockets = t.sockets /\ u.connectionState = "connecting" /\ ~u.offline
    BY <1>1, <1>6, <2>1 DEF StoreType, Running
  <2>4. OpenSocket(t, throws) = IF throws THEN ScheduleReconnect(MarkDisconnected(u))
                                ELSE [u EXCEPT !.ws = h, !.sockets[h] = "connecting"]
    BY DEF OpenSocket
  <2> HIDE DEF h, u
  <2>5. Sound(u)
    BY <2>2, <2>3 DEF Sound
  <2>6. CASE throws
    <3>1. Sound(MarkDisconnected(u)) /\ Running(MarkDisconnected(u))
      BY <2>3, <2>5, MarkDisconnectedIsSound DEF Running
    <3> QED
      BY <1>2, <1>6, <2>4, <2>6, <3>1, ScheduleReconnectIsSound
  <2>7. CASE ~throws
    <3> DEFINE w == [u EXCEPT !.ws = h, !.sockets[h] = "connecting"]
    <3>1. w = [u EXCEPT !.ws = h, !.sockets = [u.sockets EXCEPT ![h] = "connecting"]]
      BY <2>3 DEF StoreType
    <3>2. [u.sockets EXCEPT ![h] = "connecting"] \in [Generations -> SocketStates]
      BY <2>1, <2>3 DEF StoreType, SocketStates
    <3>3. /\ w \in StoreType /\ w.ws = h /\ w.generation = h /\ Running(w)
          /\ w.sockets = [u.sockets EXCEPT ![h] = "connecting"]
          /\ w.connectionState = "connecting"
      BY <2>1, <2>3, <3>1, <3>2 DEF StoreType, SocketStates, Running
    <3> HIDE DEF w
    <3>4. w.sockets[h] = "connecting"
          /\ \A g \in Generations : g # h => w.sockets[g] \notin Live
      BY <2>1, <2>2, <2>3, <3>3 DEF StoreType
    <3>5. Sound(w)
      BY <3>3, <3>4 DEF Sound
    <3>6. StoreTries(w)
      BY <2>1, <3>3, <3>4, Bounds DEF StoreTries, IsCurrent, Live
    <3> QED
      BY <1>2, <1>6, <2>4, <2>7, <3>3, <3>5, <3>6 DEF w
  <2> QED
    BY <2>6, <2>7
<1> QED
  BY <1>4, <1>5, <1>6

-----------------------------------------------------------------------------
(* What the application does to a store that fits it.                       *)

(* startApplication, once nobody is starting it already *)
LEMMA StartFits ==
    ASSUME NEW a \in AppType, NEW s, Sound(s), s.generation < MaxGeneration,
           NEW throws \in BOOLEAN, ~a.started, ~a.starting, a.authenticated
    PROVE  LET r == StartApplication(a, s, throws)
           IN  Fits(r.app, r.store) /\ Present(r.app)
<1> DEFINE b == [a EXCEPT !.started = TRUE, !.starting = TRUE, !.startedIn = a.generation]
           t == Connect(s, throws)
           r == StartApplication(a, s, throws)
<1>1. r.app = b /\ r.store = t
  BY DEF StartApplication
<1>2. /\ b \in AppType /\ b.started /\ b.authenticated /\ b.startedIn = b.generation
      /\ b.generation \in Nat
  BY DEF AppType
<1>3. Sound(t) /\ Running(t) /\ (t.offline \/ StoreTries(t))
  BY ConnectRuns
<1> HIDE DEF b, t, r
<1>4. Fits(b, t) /\ Present(b)
  BY <1>2, <1>3 DEF Fits, Present
<1> QED
  BY <1>1, <1>4 DEF r

(* setAnonymous stops what runs; the store may have learned of its expiry *)
(* just before.                                                           *)
LEMMA SetAnonymousFits ==
    ASSUME NEW a \in AppType, NEW s, Sound(s), s.generation < MaxGeneration,
           a.authenticated,
           ~a.started => Stopped(s), a.starting => a.startedIn <= a.generation
    PROVE  LET r == SetAnonymous(a, s)
           IN  Fits(r.app, r.store) /\ Present(r.app)
<1> DEFINE b == [a EXCEPT !.authenticated = FALSE]
           c == [b EXCEPT !.generation = @ + 1, !.started = FALSE]
           t == IF b.started THEN Disconnect(s) ELSE s
           r == SetAnonymous(a, s)
<1>1. r.app = c /\ r.store = t
  BY DEF SetAnonymous, StopApplication
<1>2. /\ c \in AppType /\ ~c.started /\ ~c.authenticated /\ c.starting = a.starting
      /\ c.startedIn = a.startedIn /\ c.generation = a.generation + 1
      /\ a.generation \in Nat /\ a.startedIn \in Nat
  <2>1. /\ b \in AppType /\ ~b.authenticated /\ b.starting = a.starting
        /\ b.startedIn = a.startedIn /\ b.generation = a.generation
    BY DEF AppType
  <2>2. a.generation \in Nat /\ a.startedIn \in Nat /\ a.generation + 1 \in Nat
    BY DEF AppType
  <2> HIDE DEF b
  <2>3. c \in AppType /\ c.generation = a.generation + 1
    BY <2>1, <2>2 DEF AppType
  <2>4. /\ ~c.started /\ ~c.authenticated /\ c.starting = a.starting
        /\ c.startedIn = a.startedIn
    BY <2>1 DEF AppType
  <2> QED
    BY <2>2, <2>3, <2>4
<1>3. b.started = a.started
  BY DEF AppType
<1>4. Sound(t) /\ Stopped(t)
  BY <1>3, DisconnectStops
<1> HIDE DEF b, c, t, r
<1>5. Fits(c, t) /\ Present(c)
  BY <1>2, <1>4 DEF Fits, Present
<1> QED
  BY <1>1, <1>5 DEF r

-----------------------------------------------------------------------------
(* Callbacks                                                                *)

LEMMA SignInStep ==
    ASSUME ClientInv, NEW throws \in BOOLEAN, SignIn(throws)
    PROVE  ClientInv'
<1> DEFINE a == [app EXCEPT !.authenticated = TRUE]
           r == StartApplication(a, store, throws)
<1>1. app' = r.app /\ store' = r.store
  BY DEF SignIn, Become
<1>2. /\ a \in AppType /\ a.started = app.started /\ a.starting = app.starting /\ a.authenticated
      /\ a.startedIn = app.startedIn /\ a.generation = app.generation
  BY DEF ClientInv, Fits, AppType
<1>3. ~a.started /\ Sound(store) /\ Stopped(store) /\ store.generation < MaxGeneration
  BY <1>2, Bounds DEF ClientInv, Fits, SignIn, InBounds, Sound, StoreType
<1>4. online' \in BOOLEAN /\ signIns' \in 0..MaxSignIns
  BY Bounds DEF ClientInv, SignIn
<1>5. Fits(r.app, r.store) /\ Present(r.app)
  <2>1. CASE a.starting
    <3>1. r.app = a /\ r.store = store
      BY <2>1 DEF StartApplication
    <3> HIDE DEF a, r
    <3> QED
      BY <1>2, <1>3, <2>1, <3>1 DEF ClientInv, Fits, Present
  <2>2. CASE ~a.starting
    <3> HIDE DEF a
    <3> QED
      BY <1>2, <1>3, <2>2, StartFits
  <2> QED
    BY <2>1, <2>2
<1> HIDE DEF a, r
<1> QED
  BY <1>1, <1>4, <1>5 DEF ClientInv

LEMMA SignOutStep ==
    ASSUME ClientInv, SignOut
    PROVE  ClientInv'
<1> DEFINE r == SetAnonymous(app, store)
<1>1. app' = r.app /\ store' = r.store
  BY DEF SignOut, Become
<1>2. store.generation < MaxGeneration
  BY Bounds DEF ClientInv, Fits, SignOut, InBounds, Sound, StoreType
<1>3. Fits(r.app, r.store) /\ Present(r.app)
  BY <1>2, SetAnonymousFits DEF ClientInv, Fits, SignOut
<1> HIDE DEF r
<1> QED
  BY <1>1, <1>3 DEF ClientInv, SignOut

LEMMA OverridesLoadedStep ==
    ASSUME ClientInv, NEW throws \in BOOLEAN, OverridesLoaded(throws)
    PROVE  ClientInv'
<1> DEFINE a == [app EXCEPT !.starting = FALSE]
           r == StartApplication(a, store, throws)
<1>1. IF a.startedIn # a.generation /\ a.authenticated /\ ~a.started
      THEN app' = r.app /\ store' = r.store
      ELSE app' = a /\ store' = store
  BY DEF OverridesLoaded, Become
<1>2. /\ a \in AppType /\ a.started = app.started /\ ~a.starting
      /\ a.authenticated = app.authenticated
      /\ a.startedIn = app.startedIn /\ a.generation = app.generation
  BY DEF ClientInv, Fits, AppType
<1>3. Sound(store) /\ store.generation < MaxGeneration
  BY Bounds DEF ClientInv, Fits, OverridesLoaded, InBounds, Sound, StoreType
<1> HIDE DEF a
<1>4. CASE a.startedIn # a.generation /\ a.authenticated /\ ~a.started
  <2>1. Fits(r.app, r.store) /\ Present(r.app)
    BY <1>2, <1>3, <1>4, StartFits
  <2> HIDE DEF r
  <2> QED
    BY <1>1, <1>4, <2>1 DEF ClientInv, OverridesLoaded
<1>5. CASE ~(a.startedIn # a.generation /\ a.authenticated /\ ~a.started)
  <2>1. Fits(a, store) /\ Present(a)
    BY <1>2, <1>5 DEF ClientInv, Fits, Present
  <2> QED
    BY <1>1, <1>5, <2>1 DEF ClientInv, OverridesLoaded
<1> QED
  BY <1>4, <1>5

(* The steps that only the store takes. *)
LEMMA StoreStep ==
    ASSUME ClientInv, UNCHANGED <<app, signIns>>, online' \in BOOLEAN, Sound(store'),
           app.started => Running(store') /\ (store'.offline \/ StoreTries(store')),
           ~app.started => Stopped(store')
    PROVE  ClientInv'
BY DEF ClientInv, Fits

(* A socket changes its state; everything else in the store stays. *)
SetSocket(s, g, x) == [s EXCEPT !.sockets[g] = x]

LEMMA SocketUpdate ==
    ASSUME NEW s \in StoreType, NEW g \in Generations, NEW x \in SocketStates
    PROVE  LET t == SetSocket(s, g, x)
           IN  /\ t \in StoreType
               /\ t.sockets[g] = x /\ \A h \in Generations : h # g => t.sockets[h] = s.sockets[h]
               /\ \A f \in {"ws", "activeUrl", "reconnectTimer", "watchdog", "intentional",
                            "generation", "listening", "offline", "expired",
                            "connectionState", "wsConnected", "verifying"} : t[f] = s[f]
<1> DEFINE m == [s.sockets EXCEPT ![g] = x]
           t == SetSocket(s, g, x)
<1>1. t = [s EXCEPT !.sockets = m]
  BY DEF StoreType, SetSocket
<1>2. m \in [Generations -> SocketStates]
  BY DEF StoreType, SocketStates
<1>3. m[g] = x /\ \A h \in Generations : h # g => m[h] = s.sockets[h]
  BY DEF StoreType
<1> HIDE DEF m
<1>4. t \in StoreType /\ t.sockets = m
  BY <1>1, <1>2 DEF StoreType, SocketStates
<1>5. \A f \in {"ws", "activeUrl", "reconnectTimer", "watchdog", "intentional",
                "generation", "listening", "offline", "expired",
                "connectionState", "wsConnected", "verifying"} : t[f] = s[f]
  BY <1>1 DEF StoreType
<1> QED
  BY <1>3, <1>4, <1>5 DEF m

LEMMA SocketOpensStep ==
    ASSUME ClientInv, NEW g \in Generations, SocketOpens(g)
    PROVE  ClientInv'
<1> DEFINE s == SetSocket(store, g, "open")
           t == OnOpen(s, g)
<1>1. Sound(store) /\ store.ws = g /\ store.generation = g
  BY DEF ClientInv, Fits, SocketOpens, Sound, Live
<1>2. store' = t
  BY <1>1 DEF SocketOpens, IsCurrent, SetSocket
<1>3. /\ s \in StoreType /\ s.sockets[g] = "open" /\ s.ws = g /\ s.generation = g
      /\ \A h \in Generations : h # g => s.sockets[h] = store.sockets[h]
      /\ \A f \in {"activeUrl", "intentional", "listening", "offline", "expired"} :
            s[f] = store[f]
  <2>1. store \in StoreType /\ "open" \in SocketStates /\ "closing" \in SocketStates /\ "closed" \in SocketStates
    BY <1>1 DEF Sound, SocketStates
  <2> QED
    BY <1>1, <2>1, SocketUpdate
<1> HIDE DEF s
<1>4. /\ t \in StoreType /\ t.sockets = s.sockets /\ t.ws = g /\ t.generation = g
      /\ \A f \in {"activeUrl", "intentional", "listening", "offline", "expired"} :
            t[f] = s[f]
  BY <1>3 DEF OnOpen, StoreType
<1> HIDE DEF t
<1>5. Sound(t)
  BY <1>1, <1>3, <1>4, Bounds DEF Sound, IsCurrent
<1>6. StoreTries(t)
  BY <1>3, <1>4, Bounds DEF StoreTries, IsCurrent, Live
<1>7. app.started
  BY <1>1, Bounds DEF ClientInv, Fits, Stopped
<1>8. Running(t)
  BY <1>3, <1>4, <1>7 DEF ClientInv, Fits, Running
<1> QED
  BY <1>2, <1>5, <1>6, <1>7, <1>8, StoreStep DEF SocketOpens, ClientInv

LEMMA SocketClosingStep ==
    ASSUME ClientInv, NEW g \in Generations, SocketClosing(g)
    PROVE  ClientInv'
<1> DEFINE s == SetSocket(store, g, "closing")
<1>1. Sound(store) /\ store.ws = g /\ store.generation = g
  BY DEF ClientInv, Fits, SocketClosing, Sound, Live
<1>2. store' = s
  BY DEF SocketClosing, SetSocket
<1>3. /\ s \in StoreType /\ s.sockets[g] = "closing" /\ s.ws = g /\ s.generation = g
      /\ \A h \in Generations : h # g => s.sockets[h] = store.sockets[h]
      /\ \A f \in {"activeUrl", "intentional", "listening", "offline", "expired"} :
            s[f] = store[f]
  <2>1. store \in StoreType /\ "open" \in SocketStates /\ "closing" \in SocketStates /\ "closed" \in SocketStates
    BY <1>1 DEF Sound, SocketStates
  <2> QED
    BY <1>1, <2>1, SocketUpdate
<1> HIDE DEF s
<1>4. Sound(s)
  BY <1>1, <1>3, Bounds DEF Sound, IsCurrent, Live
<1>5. StoreTries(s)
  BY <1>3, Bounds DEF StoreTries, IsCurrent
<1>6. app.started
  BY <1>1, Bounds DEF ClientInv, Fits, Stopped
<1>7. Running(s)
  BY <1>3, <1>6 DEF ClientInv, Fits, Running
<1> QED
  BY <1>2, <1>4, <1>5, <1>6, <1>7, StoreStep DEF SocketClosing, ClientInv

(* A late close of a replaced socket changes nothing that matters. *)
LEMMA LateCloseStep ==
    ASSUME ClientInv, NEW g \in Generations, NEW code \in CloseCodes, SocketCloses(g, code),
           ~IsCurrent(store, g)
    PROVE  ClientInv'
<1> DEFINE s == SetSocket(store, g, "closed")
<1>1. store' = s /\ app' = app
  BY DEF SocketCloses, SetSocket
<1>2. Sound(store)
  BY DEF ClientInv, Fits
<1>3. /\ s \in StoreType /\ s.sockets[g] = "closed"
      /\ \A h \in Generations : h # g => s.sockets[h] = store.sockets[h]
      /\ \A f \in {"ws", "generation", "activeUrl", "intentional", "listening", "offline",
                   "expired", "reconnectTimer", "verifying", "connectionState"} :
            s[f] = store[f]
  <2>1. store \in StoreType /\ "open" \in SocketStates /\ "closing" \in SocketStates /\ "closed" \in SocketStates
    BY <1>2 DEF Sound, SocketStates
  <2> QED
    BY <1>2, <2>1, SocketUpdate
<1>4. store.ws \in Generations \cup {None}
  BY <1>2 DEF Sound, StoreType
<1> HIDE DEF s
<1>5. Sound(s)
  BY <1>2, <1>3, <1>4 DEF Sound, IsCurrent, Live
<1>6. StoreTries(store) => StoreTries(s)
  BY <1>3, <1>4 DEF StoreTries, IsCurrent
<1>7. (Running(store) => Running(s)) /\ (Stopped(store) => Stopped(s))
  BY <1>3 DEF Running, Stopped
<1> QED
  BY <1>1, <1>3, <1>5, <1>6, <1>7, StoreStep DEF SocketCloses, ClientInv, Fits

(* markSessionExpired and the watcher that stops the application. *)
LEMMA ExpiryStops ==
    ASSUME NEW a \in AppType, a.authenticated, a.started, a.starting => a.startedIn <= a.generation,
           NEW s, Sound(s), s.generation < MaxGeneration
    PROVE  LET r == WatchExpiry(a, MarkSessionExpired(s))
           IN  Fits(r.app, r.store) /\ Present(r.app)
<1> DEFINE t == MarkSessionExpired(s)
<1>1. /\ t \in StoreType /\ t.expired
      /\ t.ws = s.ws /\ t.generation = s.generation /\ t.sockets = s.sockets
      /\ t.connectionState = s.connectionState
  BY DEF Sound, StoreType, MarkSessionExpired
<1> HIDE DEF t
<1>2. Sound(t)
  BY <1>1, FlagsAreSound
<1>3. WatchExpiry(a, t) = SetAnonymous(a, t)
  BY <1>1 DEF WatchExpiry
<1> QED
  BY <1>1, <1>2, <1>3, SetAnonymousFits DEF t

(* onclose of the current socket: the login is over, is checked, or another *)
(* try is scheduled.                                                        *)
LEMMA CurrentCloseStep ==
    ASSUME ClientInv, NEW g \in Generations, NEW code \in CloseCodes, SocketCloses(g, code),
           IsCurrent(store, g)
    PROVE  ClientInv'
<1> DEFINE s == SetSocket(store, g, "closed")
           v == [s EXCEPT !.ws = None, !.watchdog = None]
           t == MarkDisconnected(v)
           opened == store.sockets[g] # "connecting"
           n == OnClose(s, g, code, opened)
           r == WatchExpiry(app, n)
<1>1. app' = r.app /\ store' = r.store
  BY DEF SocketCloses, SetSocket, Become
<1>2. /\ Sound(store) /\ store.ws = g /\ store.generation = g /\ store.generation < MaxGeneration
  BY Bounds DEF ClientInv, Fits, IsCurrent, SocketCloses, InBounds, Sound, StoreType
<1>3. /\ app \in AppType /\ app.started /\ app.authenticated /\ Running(store)
      /\ (app.starting => app.startedIn <= app.generation)
  BY <1>2, Bounds DEF ClientInv, Fits, Stopped
<1>4. /\ s \in StoreType /\ s.sockets[g] = "closed" /\ s.generation = g
      /\ \A h \in Generations : h # g => s.sockets[h] = store.sockets[h]
      /\ \A f \in {"activeUrl", "intentional", "listening", "offline", "expired"} :
            s[f] = store[f]
  <2>1. store \in StoreType /\ "closed" \in SocketStates
    BY <1>2 DEF Sound, SocketStates
  <2> QED
    BY <1>2, <2>1, SocketUpdate
<1>5. n = IF code = "policy" THEN MarkSessionExpired(t)
          ELSE IF code = "abnormal" /\ ~opened /\ ~t.intentional
               THEN [t EXCEPT !.verifying = @ \cup {g}]
               ELSE IF t.intentional THEN t ELSE ScheduleReconnect(t)
  BY DEF OnClose
<1> HIDE DEF s
<1>6. /\ v \in StoreType /\ v.sockets = s.sockets /\ v.generation = g /\ v.ws = None
      /\ \A f \in {"activeUrl", "intentional", "listening", "offline", "expired"} :
            v[f] = s[f]
  BY <1>4 DEF StoreType
<1> HIDE DEF v
<1>7. \A h \in Generations : v.sockets[h] \notin Live
  BY <1>2, <1>4, <1>6 DEF Sound, Live
<1>8. /\ t \in StoreType /\ t.sockets = v.sockets /\ t.generation = g /\ t.ws = None
      /\ t.connectionState = "disconnected"
      /\ \A f \in {"activeUrl", "intentional", "listening", "offline", "expired"} :
            t[f] = v[f]
  BY <1>6 DEF StoreType, MarkDisconnected
<1> HIDE DEF t
<1>9. Sound(t) /\ Running(t)
  BY <1>3, <1>4, <1>6, <1>7, <1>8 DEF Sound, Running
<1>10. Fits(r.app, r.store) /\ Present(r.app)
  <2>1. CASE code = "policy"
    <3>1. n = MarkSessionExpired(t)
      BY <1>5, <2>1
    <3> HIDE DEF n
    <3> QED
      BY <1>2, <1>3, <1>8, <1>9, <3>1, ExpiryStops
  <2>2. CASE code # "policy"
    <3>1. /\ Sound(n) /\ Running(n) /\ (n.offline \/ StoreTries(n))
      <4>1. CASE code = "abnormal" /\ ~opened
        <5> DEFINE u == [t EXCEPT !.verifying = @ \cup {g}]
        <5>1. n = u
          BY <1>5, <1>9, <2>2, <4>1 DEF Running
        <5>2. /\ u \in StoreType /\ g \in u.verifying /\ u.ws = t.ws /\ u.sockets = t.sockets
              /\ u.generation = g /\ u.connectionState = t.connectionState
              /\ \A f \in {"activeUrl", "intentional", "listening", "offline", "expired"} :
                    u[f] = t[f]
          BY <1>8 DEF StoreType
        <5> HIDE DEF u, n
        <5>3. Sound(u) /\ Running(u)
          BY <1>8, <1>9, <5>2, FlagsAreSound DEF Running
        <5> QED
          BY <5>1, <5>2, <5>3 DEF StoreTries
      <4>2. CASE ~(code = "abnormal" /\ ~opened)
        <5>1. n = ScheduleReconnect(t)
          BY <1>5, <1>9, <2>2, <4>2 DEF Running
        <5> HIDE DEF n
        <5> QED
          BY <1>9, <5>1, ScheduleReconnectIsSound
      <4> QED
        BY <4>1, <4>2
    <3>2. r.app = app /\ r.store = n
      <4> HIDE DEF n
      <4> QED
        BY <3>1 DEF WatchExpiry, Running
    <3> HIDE DEF r, n
    <3> QED
      BY <1>3, <3>1, <3>2 DEF ClientInv, Fits
  <2> QED
    BY <2>1, <2>2
<1> HIDE DEF r
<1> QED
  BY <1>1, <1>10 DEF ClientInv, SocketCloses

LEMMA WatchdogExpiresStep ==
    ASSUME ClientInv, WatchdogExpires
    PROVE  ClientInv'
<1> DEFINE u == [store EXCEPT !.watchdog = None]
           t == MarkDisconnected(InvalidateSocket(u))
<1>1. Sound(store) /\ store.generation < MaxGeneration
  BY Bounds DEF ClientInv, Fits, WatchdogExpires, InBounds, Sound, StoreType
<1>2. app.started /\ Running(store)
  BY Bounds DEF ClientInv, Fits, WatchdogExpires, IsCurrent, Stopped, Sound, StoreType
<1>3. store' = ScheduleReconnect(t)
  BY <1>2 DEF WatchdogExpires, RestartCurrentSocket, Running
<1>4. /\ u \in StoreType /\ Running(u)
      /\ u.ws = store.ws /\ u.generation = store.generation /\ u.sockets = store.sockets
      /\ u.connectionState = store.connectionState
  BY <1>1, <1>2 DEF Sound, StoreType, Running
<1> HIDE DEF u
<1>5. Sound(u)
  BY <1>1, <1>4, FlagsAreSound
<1>6. Sound(t) /\ Running(t)
  BY <1>1, <1>4, <1>5, ReleaseIsSound DEF Running
<1> HIDE DEF t
<1>7. Sound(store') /\ Running(store') /\ (store'.offline \/ StoreTries(store'))
  BY <1>3, <1>6, ScheduleReconnectIsSound
<1> QED
  BY <1>2, <1>7, StoreStep DEF WatchdogExpires, ClientInv

LEMMA ReconnectTimerFiresStep ==
    ASSUME ClientInv, NEW throws \in BOOLEAN, ReconnectTimerFires(throws)
    PROVE  ClientInv'
<1> DEFINE s == [store EXCEPT !.reconnectTimer = FALSE]
<1>1. Sound(store) /\ store.generation < MaxGeneration
  BY Bounds DEF ClientInv, Fits, ReconnectTimerFires, InBounds, Sound, StoreType
<1>2. app.started /\ Running(store)
  BY DEF ClientInv, Fits, ReconnectTimerFires, Stopped
<1>3. store' = IF ~s.intentional /\ ~s.offline /\ s.activeUrl THEN Connect(s, throws) ELSE s
  BY DEF ReconnectTimerFires
<1>4. /\ s \in StoreType /\ Running(s)
      /\ s.ws = store.ws /\ s.generation = store.generation /\ s.sockets = store.sockets
      /\ s.connectionState = store.connectionState
  BY <1>1, <1>2 DEF Sound, StoreType, Running
<1> HIDE DEF s
<1>5. Sound(s)
  BY <1>1, <1>4, FlagsAreSound
<1>6. Sound(store') /\ Running(store') /\ (store'.offline \/ StoreTries(store'))
  <2>1. CASE s.offline
    BY <1>3, <1>4, <1>5, <2>1
  <2>2. CASE ~s.offline
    BY <1>1, <1>3, <1>4, <1>5, <2>2, ConnectRuns DEF Running
  <2> QED
    BY <2>1, <2>2
<1> QED
  BY <1>2, <1>6, StoreStep DEF ReconnectTimerFires, ClientInv

(* A session check is over: the store without it. *)
Checked(s, g) == [s EXCEPT !.verifying = @ \ {g}]

LEMMA CheckedIsSound ==
    ASSUME NEW s, Sound(s), NEW g \in Generations
    PROVE  /\ Sound(Checked(s, g))
           /\ Checked(s, g).generation = s.generation
           /\ Checked(s, g).offline = s.offline
           /\ Running(s) => Running(Checked(s, g))
           /\ Stopped(s) => Stopped(Checked(s, g))
           /\ IsPendingReconnect(Checked(s, g), g) <=> IsPendingReconnect(s, g)
           /\ Running(s) /\ StoreTries(s) /\ ~IsPendingReconnect(s, g) => StoreTries(Checked(s, g))
<1> DEFINE t == Checked(s, g)
<1>1. /\ t \in StoreType /\ t.verifying = s.verifying \ {g} /\ t.ws = s.ws
      /\ t.generation = s.generation /\ t.sockets = s.sockets
      /\ t.connectionState = s.connectionState /\ t.reconnectTimer = s.reconnectTimer
      /\ t.activeUrl = s.activeUrl /\ t.intentional = s.intentional
      /\ t.listening = s.listening /\ t.offline = s.offline /\ t.expired = s.expired
  BY DEF Checked, Sound, StoreType
<1> HIDE DEF t
<1>2. Sound(t)
  BY <1>1, FlagsAreSound
<1>3. /\ Running(s) => Running(t)
      /\ Stopped(s) => Stopped(t)
      /\ IsPendingReconnect(t, g) <=> IsPendingReconnect(s, g)
  BY <1>1 DEF Running, Stopped, IsPendingReconnect
<1>4. Running(s) /\ StoreTries(s) /\ ~IsPendingReconnect(s, g) => StoreTries(t)
  BY <1>1 DEF Running, StoreTries, IsPendingReconnect, IsCurrent
<1> QED
  BY <1>1, <1>2, <1>3, <1>4 DEF t

(* The check of an older generation, or of a store that was stopped. *)
LEMMA LateStatusStep ==
    ASSUME ClientInv, NEW g \in Generations, ~IsPendingReconnect(store, g),
           store' = Checked(store, g), UNCHANGED <<online, app, signIns>>
    PROVE  ClientInv'
<1>1. Sound(store)
  BY DEF ClientInv, Fits
<1> QED
  BY <1>1, CheckedIsSound, StoreStep DEF ClientInv, Fits

LEMMA StatusStep ==
    ASSUME ClientInv, NEW g \in Generations,
           StatusFails(g) \/ \E authenticated \in BOOLEAN : StatusAnswers(g, authenticated)
    PROVE  ClientInv'
<1> DEFINE s == Checked(store, g)
<1>1. Sound(store)
  BY DEF ClientInv, Fits
<1>2. CASE ~IsPendingReconnect(store, g)
  <2>1. ~IsPendingReconnect(s, g)
    BY <1>1, <1>2, CheckedIsSound
  <2>2. store' = s /\ UNCHANGED <<online, app, signIns>>
    BY <2>1 DEF StatusFails, StatusAnswers, Checked
  <2> QED
    BY <1>2, <2>2, LateStatusStep
<1>3. CASE IsPendingReconnect(store, g)
  <2>1. IsPendingReconnect(s, g) /\ Sound(s)
    BY <1>1, <1>3, CheckedIsSound
  <2>2. app.started /\ Running(store)
    BY <1>3 DEF ClientInv, Fits, Stopped, IsPendingReconnect
  <2>3. Running(s) /\ s.generation = store.generation /\ s.offline = store.offline
    BY <1>1, <2>2, CheckedIsSound
  <2>4. CASE StatusFails(g) \/ StatusAnswers(g, TRUE)
    <3>1. store' = ScheduleReconnect(s) /\ UNCHANGED <<online, app, signIns>>
      BY <2>1, <2>4 DEF StatusFails, StatusAnswers, Checked
    <3> HIDE DEF s
    <3>2. Sound(store') /\ Running(store') /\ (store'.offline \/ StoreTries(store'))
      BY <2>1, <2>3, <3>1, ScheduleReconnectIsSound
    <3> QED
      BY <2>2, <3>1, <3>2, StoreStep DEF ClientInv
  <2>5. CASE StatusAnswers(g, FALSE)
    <3> DEFINE r == WatchExpiry(app, MarkSessionExpired(s))
    <3>1. app' = r.app /\ store' = r.store /\ UNCHANGED <<online, signIns>>
      BY <2>1, <2>5 DEF StatusAnswers, Checked, Become
    <3>2. s.generation < MaxGeneration
      BY <1>1, <2>3, <2>5, Bounds DEF StatusAnswers, InBounds, Sound, StoreType
    <3> HIDE DEF s
    <3>3. Fits(r.app, r.store) /\ Present(r.app)
      BY <2>1, <2>2, <3>2, ExpiryStops DEF ClientInv, Fits
    <3> HIDE DEF r
    <3> QED
      BY <3>1, <3>3 DEF ClientInv
  <2> QED
    BY <2>4, <2>5
<1> QED
  BY <1>2, <1>3

LEMMA GoOfflineStep ==
    ASSUME ClientInv, GoOffline
    PROVE  ClientInv'
<1>1. Sound(store) /\ store.generation < MaxGeneration
  BY Bounds DEF ClientInv, Fits, GoOffline, InBounds, Sound, StoreType
<1>2. CASE ~store.listening
  BY <1>2, StoreStep DEF GoOffline, ClientInv, Fits, Running
<1>3. CASE store.listening
  <2> DEFINE u == [store EXCEPT !.offline = TRUE, !.reconnectTimer = FALSE, !.watchdog = None]
             t == MarkDisconnected(InvalidateSocket(u))
  <2>1. store' = t
    BY <1>3 DEF GoOffline, OnOffline
  <2>2. app.started /\ Running(store)
    BY <1>3 DEF ClientInv, Fits, Stopped
  <2>3. /\ u \in StoreType /\ Running(u) /\ u.offline
        /\ u.ws = store.ws /\ u.generation = store.generation /\ u.sockets = store.sockets
        /\ u.connectionState = store.connectionState
    BY <1>1, <2>2 DEF Sound, StoreType, Running
  <2> HIDE DEF u
  <2>4. Sound(u)
    BY <1>1, <2>3, FlagsAreSound
  <2>5. Sound(t) /\ Running(t) /\ t.offline
    BY <1>1, <2>3, <2>4, ReleaseIsSound DEF Running
  <2> HIDE DEF t
  <2> QED
    BY <2>1, <2>2, <2>5, StoreStep DEF GoOffline
<1> QED
  BY <1>2, <1>3

LEMMA GoOnlineStep ==
    ASSUME ClientInv, NEW throws \in BOOLEAN, GoOnline(throws)
    PROVE  ClientInv'
<1>1. Sound(store) /\ store.generation < MaxGeneration
  BY Bounds DEF ClientInv, Fits, GoOnline, InBounds, Sound, StoreType
<1>2. CASE ~store.listening
  BY <1>2, StoreStep DEF GoOnline, ClientInv, Fits, Running
<1>3. CASE store.listening
  <2> DEFINE t == [store EXCEPT !.offline = FALSE]
  <2>1. app.started /\ Running(store)
    BY <1>3 DEF ClientInv, Fits, Stopped
  <2>2. /\ t \in StoreType /\ Running(t)
        /\ t.ws = store.ws /\ t.generation = store.generation /\ t.sockets = store.sockets
        /\ t.connectionState = store.connectionState
    BY <1>1, <2>1 DEF Sound, StoreType, Running
  <2>3. store' = IF t.activeUrl /\ ~t.intentional /\ ~t.expired THEN Connect(t, throws) ELSE t
    BY <1>3 DEF GoOnline, OnOnline
  <2> HIDE DEF t
  <2>4. store' = Connect(t, throws)
    BY <2>2, <2>3 DEF Running
  <2>5. Sound(t)
    BY <1>1, <2>2, FlagsAreSound
  <2>6. Sound(store') /\ Running(store') /\ (store'.offline \/ StoreTries(store'))
    BY <1>1, <2>2, <2>4, <2>5, ConnectRuns
  <2> QED
    BY <2>1, <2>6, StoreStep DEF GoOnline
<1> QED
  BY <1>2, <1>3

-----------------------------------------------------------------------------
LEMMA ClientInvInit == ClientInit => ClientInv
<1> SUFFICES ASSUME ClientInit PROVE ClientInv
  OBVIOUS
<1>1. Sound(store) /\ Stopped(store)
  BY Bounds DEF ClientInit, Sound, StoreType, Stopped, Live
<1>2. app \in AppType /\ ~app.started /\ ~app.starting /\ ~app.authenticated
  BY DEF ClientInit, AppType
<1> QED
  BY <1>1, <1>2, Bounds DEF ClientInit, ClientInv, Fits, Present

LEMMA ClientInvStep == ClientInv /\ [ClientNext]_clientVars => ClientInv'
<1> SUFFICES ASSUME ClientInv, [ClientNext]_clientVars PROVE ClientInv'
  OBVIOUS
<1>1. CASE SignOut
  BY <1>1, SignOutStep
<1>2. CASE WatchdogExpires
  BY <1>2, WatchdogExpiresStep
<1>3. CASE GoOffline
  BY <1>3, GoOfflineStep
<1>4. ASSUME NEW throws \in BOOLEAN,
             \/ SignIn(throws) \/ OverridesLoaded(throws)
             \/ ReconnectTimerFires(throws) \/ GoOnline(throws)
      PROVE  ClientInv'
  BY <1>4, SignInStep, OverridesLoadedStep, ReconnectTimerFiresStep, GoOnlineStep
<1>5. ASSUME NEW g \in Generations, SocketOpens(g) \/ SocketClosing(g)
      PROVE  ClientInv'
  BY <1>5, SocketOpensStep, SocketClosingStep
<1>6. ASSUME NEW g \in Generations, NEW code \in CloseCodes, SocketCloses(g, code)
      PROVE  ClientInv'
  BY <1>6, LateCloseStep, CurrentCloseStep
<1>7. ASSUME NEW g \in Generations,
             StatusFails(g) \/ \E authenticated \in BOOLEAN : StatusAnswers(g, authenticated)
      PROVE  ClientInv'
  BY <1>7, StatusStep
<1>8. CASE UNCHANGED clientVars
  BY <1>8 DEF clientVars, ClientInv
<1> QED
  BY <1>1, <1>2, <1>3, <1>4, <1>5, <1>6, <1>7, <1>8 DEF ClientNext

(* websocket.ts never leaves a live socket behind and calls only its        *)
(* current socket connected, however late the events of replaced sockets    *)
(* arrive.                                                                  *)
THEOREM NoSocketIsForgotten == ClientSpec => []SocketsAreOwned
<1>1. ClientInv => SocketsAreOwned
  BY DEF ClientInv, Fits, Sound, SocketsAreOwned, ClientTypeOK, OneLiveSocket,
         ConnectedMeansCurrentSocket
<1> QED
  BY <1>1, ClientInvInit, ClientInvStep, PTL DEF ClientSpec

(* App.vue runs the store for a signed-in user, or is about to, and after a *)
(* sign-out no timer, listener or late answer can bring it back.            *)
THEOREM ConnectionFollowsLogin == ClientSpec => []FollowsTheLogin
<1>1. ClientInv => FollowsTheLogin
  BY DEF ClientInv, Fits, Stopped, Present, FollowsTheLogin, SignedOutIsQuiet,
         SignedInIsStarted, IsPendingReconnect
<1> QED
  BY <1>1, ClientInvInit, ClientInvStep, PTL DEF ClientSpec

(* A started application whose store believes the browser online always has *)
(* a pending socket, timer or session check: none of the silent returns of  *)
(* scheduleReconnect is a dead end.                                         *)
THEOREM ReconnectingNeverStops == ClientSpec => []NeverStopsTrying
<1>1. ClientInv => NeverStopsTrying
  BY DEF ClientInv, Fits, NeverStopsTrying, Trying, StoreTries
<1> QED
  BY <1>1, ClientInvInit, ClientInvStep, PTL DEF ClientSpec

=============================================================================
