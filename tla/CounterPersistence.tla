-------------------------- MODULE CounterPersistence --------------------------
(****************************************************************************)
(* Exact traffic persistence: the poller turns router byte counters into    *)
(* durable samples and gaps (backend/src/poller/engine.rs) with one         *)
(* SQLite transaction per interface and observation                         *)
(* (backend/src/db/traffic_v4.rs).                                          *)
(*                                                                          *)
(* Part 1 is the world the poller measures: a router that forwards bytes,   *)
(* resets counters and reboots, and a host whose wall clock can be stepped. *)
(* Part 2 is the poller: the volatile baselines, the durable checkpoints,   *)
(* and one poll cycle: the uptime and the interface counters are fetched by *)
(* concurrent requests, then follows a loop over the WAN interfaces and the *)
(* aggregate.  Any database call may fail and the process may die between   *)
(* any two transactions.                                                    *)
(*                                                                          *)
(* Abstractions.  The rx and tx counters of an interface always travel      *)
(* together and are judged by the same rules: one counter stands for both.  *)
(* One router is modelled; a poll answered by another router (or one whose  *)
(* identity cannot be stored) is the action LoseScope.  Of the requests of  *)
(* fetch_all only the two whose answers persistence uses are modelled; the  *)
(* others delay the poll or fail it.  An answer shows what the router knew  *)
(* at one instant before it arrives, and no request outlives its timeout.   *)
(* Persistence reads neither the router nor a clock, so the world only      *)
(* moves while no poll is persisting.                                       *)
(****************************************************************************)
EXTENDS Integers, FiniteSets, Functions

CONSTANTS
    Wans,               \* WAN interfaces of the router
    Aggregate,          \* the synthetic interface that sums the WANs
    None,               \* an absent Option value
    U64Max,             \* largest counter value (u64::MAX)
    InitialCounters,    \* what a counter may show when the model starts
    Traffic,            \* bytes an interface may forward during one tick
    TickMs,             \* time between two poll opportunities
    RebootMs,           \* how long the router is away when it reboots
    RequestMs,          \* timeout of one request to the router
    StartMs,            \* wall and monotonic clock when the model starts
    StartUptimeMs,      \* how long the router has been up by then
    Faults,             \* which of FaultKinds may happen
    ClockSteps,         \* corrections NTP or an operator applies to the wall clock
    MaxMono,            \* bound: monotonic clock
    MaxBoots,           \* bound: reboots
    MaxResets,          \* bound: counter resets of one interface
    MaxSkew,            \* bound: distance between the two clocks
    MaxIncarnation      \* bound: process starts

ASSUME CounterConstants ==
    /\ IsFiniteSet(Wans)
    /\ Aggregate \notin Wans
    /\ None \notin Int
    /\ U64Max \in Nat
    /\ InitialCounters \subseteq 0..U64Max
    /\ Traffic \subseteq Nat
    /\ TickMs \in Nat \ {0}
    /\ RebootMs \in Nat \ {0}
    /\ RequestMs \in Nat
    /\ StartMs \in Nat
    /\ StartUptimeMs \in 0..StartMs
    /\ ClockSteps \subseteq Int

FaultKinds ==
    {"storage",     \* the router does not answer; a statement or commit fails
     "identity",    \* resolve_router fails or names another router
     "uptime",      \* the router's answer lacks the uptime
     "interface",   \* a WAN is missing from the answer, or its row cannot be written
     "counter"}     \* a WAN is listed without byte counters

Interfaces == Wans \cup {Aggregate}

I64Max == U64Max \div 2

VARIABLES
    \* the world
    mono,           \* monotonic clock of the host, in ms
    wall,           \* wall clock of the host, in ms
    bootedAt,       \* monotonic instant of the router's last boot
    counter,        \* [Wans -> 0..U64Max], the router's byte counters
    \* what really happened; no guard of the poller reads these
    boots, resets, passed, incarnation,
    \* the poller's memory
    baselines,      \* exact_counter_baselines
    polledAt,       \* monotonic instant at which this process's last poll ended
    asked,          \* monotonic instant at which the requests went out
    system,         \* the router's answer about its uptime
    reading,        \* the router's answer about its counters
    sampleTime,     \* CounterSampleTime: when that answer had arrived
    pc, obs, todo, sum, complete, continuous, members,
    \* the database
    checkpoint,     \* table counter_checkpoints
    samples,        \* table traffic_samples
    gaps            \* table traffic_gaps

worldVars  == <<mono, wall, bootedAt, counter, boots, resets, passed>>
fetchVars  == <<asked, system, reading, sampleTime>>
loopVars   == <<obs, todo, sum, complete, continuous, members>>
pollVars   == <<polledAt, fetchVars, pc, loopVars>>
dbVars     == <<checkpoint, samples, gaps>>
vars       == <<worldVars, incarnation, baselines, pollVars, dbVars>>

-----------------------------------------------------------------------------
(* Part 1: the router and the host's clocks.                                *)

Uptime == mono - bootedAt

WorldInit ==
    /\ mono = StartMs
    /\ wall = StartMs
    /\ bootedAt = StartMs - StartUptimeMs
    /\ counter \in [Wans -> InitialCounters]
    /\ boots = 0
    /\ resets = [w \in Wans |-> 0]
    /\ passed = [w \in Wans |-> 0]

Tick ==
    /\ mono + TickMs <= MaxMono
    /\ mono' = mono + TickMs
    /\ wall' = wall + TickMs
    /\ \E bytes \in [Wans -> Traffic] :
         /\ counter' = [w \in Wans |-> (counter[w] + bytes[w]) % (U64Max + 1)]
         /\ passed' = [w \in Wans |-> passed[w] + bytes[w]]
    /\ UNCHANGED <<bootedAt, boots, resets>>

Reboot ==
    /\ boots < MaxBoots
    /\ mono + RebootMs <= MaxMono
    /\ boots' = boots + 1
    /\ mono' = mono + RebootMs
    /\ wall' = wall + RebootMs
    /\ bootedAt' = mono'
    /\ counter' = [w \in Wans |-> 0]
    /\ UNCHANGED <<resets, passed>>

ResetCounter(w) ==
    /\ resets[w] < MaxResets
    /\ resets' = [resets EXCEPT ![w] = @ + 1]
    /\ counter' = [counter EXCEPT ![w] = 0]
    /\ UNCHANGED <<mono, wall, bootedAt, boots, passed>>

StepClock(d) ==
    /\ wall + d - mono \in -MaxSkew..MaxSkew
    /\ wall' = wall + d
    /\ UNCHANGED <<mono, bootedAt, counter, boots, resets, passed>>

WorldNext ==
    /\ pc # "members"
    /\ \/ Tick
       \/ Reboot
       \/ \E w \in Wans : ResetCounter(w)
       \/ \E d \in ClockSteps : StepClock(d)
    /\ UNCHANGED <<incarnation, baselines, pollVars, dbVars>>

-----------------------------------------------------------------------------
(* Part 2: judging one observation against the previous one.                *)

AbsDiff(a, b) == IF a >= b THEN a - b ELSE b - a

EstimatedBootEpoch(wallMs, uptime) ==
    IF uptime = None THEN None ELSE wallMs \div 1000 - uptime

SamplingClocksAreConsistent(wallElapsed, monoElapsed) ==
    /\ wallElapsed > 0
    /\ monoElapsed > 0
    /\ AbsDiff(wallElapsed, monoElapsed) <= 250 + monoElapsed \div 100
(* Mutant: the step from U64Max to zero is not counted. *)
WrappedCounterDeltaShort(previous, current) ==
    IF previous <= (U64Max \div 4) * 3 \/ current >= U64Max \div 4
    THEN None
    ELSE (U64Max - previous) + current

WrappedCounterDelta(previous, current) ==
    IF previous <= (U64Max \div 4) * 3 \/ current >= U64Max \div 4
    THEN None
    ELSE (U64Max - previous) + current + 1

CounterDelta(previous, current) ==
    IF current >= previous
    THEN current - previous
    ELSE WrappedCounterDelta(previous, current)
(* Mutant: only an uptime that went back counts as a reboot. *)
RebootedByUptimeOnly(previous) ==
    /\ previous.uptime # None
    /\ obs.uptime # None
    /\ obs.uptime < previous.uptime

Rebooted(previous) ==
    \/ /\ previous.uptime # None
       /\ obs.uptime # None
       /\ obs.uptime < previous.uptime
    \/ /\ previous.bootEpoch # None
       /\ obs.bootEpoch # None
       /\ AbsDiff(previous.bootEpoch, obs.bootEpoch) > 5

UptimeContinuous(previous) == previous.uptime # None /\ obs.uptime # None

ClockConsistent(previous) ==
    SamplingClocksAreConsistent(obs.wall - previous.observed,
                                obs.mono - previous.mono)
(* Mutant: the delta is not checked against the signed column. *)
DeltaIsUnbounded(previous, n) == CounterDelta(previous.counter, n) # None

DeltaIsExact(previous, n) ==
    /\ CounterDelta(previous.counter, n) # None
    /\ CounterDelta(previous.counter, n) <= I64Max

(* Mutant: a discontinuity of a member does not force a gap. *)
MayRecordDespiteMembers(previous, n, signature, forcedGap) ==
    /\ previous.signature = signature
    /\ ~Rebooted(previous)
    /\ UptimeContinuous(previous)
    /\ ClockConsistent(previous)
    /\ DeltaIsExact(previous, n)

MayRecordExactSample(previous, n, signature, forcedGap) ==
    /\ previous.signature = signature
    /\ ~forcedGap
    /\ ~Rebooted(previous)
    /\ UptimeContinuous(previous)
    /\ ClockConsistent(previous)
    /\ DeltaIsExact(previous, n)

GapReason(previous, n, signature, forcedGap) ==
    IF previous.signature # signature THEN "wan_membership_changed"
    ELSE IF forcedGap THEN "wan_member_discontinuity"
    ELSE IF ~UptimeContinuous(previous) THEN "uptime_unavailable"
    ELSE IF Rebooted(previous) THEN "router_rebooted"
    ELSE IF ~ClockConsistent(previous) THEN "clock_discontinuity"
    ELSE IF CounterDelta(previous.counter, n) = None THEN "counter_reset"
    ELSE "counter_discontinuity"

(* The boot marker only changes when a reboot is recognised. *)
NextMarker(previous) ==
    IF Rebooted(previous) \/ previous.marker = None
    THEN obs.bootEpoch
    ELSE previous.marker

-----------------------------------------------------------------------------
(* The transactions of traffic_v4.rs.  Each either commits as a whole or    *)
(* leaves the tables alone.                                                 *)

Checkpoint(n, marker) ==
    [counter |-> n, observed |-> obs.wall, marker |-> marker]

CheckpointAdvances(i) ==
    checkpoint[i] # None => checkpoint[i].observed < obs.wall

InitializeCheckpointIfAbsent(i, n) ==
    /\ checkpoint[i] = None
    /\ checkpoint' = [checkpoint EXCEPT ![i] = Checkpoint(n, obs.bootEpoch)]
    /\ UNCHANGED <<samples, gaps>>

(* A sample key that already exists is accepted only as an exact repetition *)
(* that the checkpoint already covers; otherwise the checkpoint must        *)
(* advance strictly.                                                        *)
CommitSampleAndCheckpoint(i, s, cp) ==
    LET duplicates == {t \in samples : t.iface = i /\ t.end = s.end}
    IN  \/ /\ duplicates = {s}
           /\ checkpoint[i] # None
           /\ checkpoint[i].observed > cp.observed \/ checkpoint[i] = cp
           /\ UNCHANGED dbVars
        \/ /\ duplicates = {}
           /\ CheckpointAdvances(i)
           /\ samples' = samples \cup {s}
           /\ checkpoint' = [checkpoint EXCEPT ![i] = cp]
           /\ UNCHANGED gaps

CommitGapAndCheckpoint(i, g, cp) ==
    \/ /\ g \in gaps
       /\ checkpoint[i] # None
       /\ checkpoint[i].observed > cp.observed \/ checkpoint[i] = cp
       /\ UNCHANGED dbVars
    \/ /\ g \notin gaps
       /\ CheckpointAdvances(i)
       /\ gaps' = gaps \cup {g}
       /\ checkpoint' = [checkpoint EXCEPT ![i] = cp]
       /\ UNCHANGED samples

-----------------------------------------------------------------------------
(* persist_counter_observation: one disjunct per way it returns.  `keep' is *)
(* the set of interfaces whose baselines survive the call: all of them      *)
(* inside the loop, the active ones when the aggregate closes the poll.     *)

BaselineFromObservation(n, signature, marker) ==
    [counter |-> n, observed |-> obs.wall, mono |-> obs.mono,
     uptime |-> obs.uptime, bootEpoch |-> obs.bootEpoch, marker |-> marker,
     signature |-> signature, upAt |-> obs.upAt, truth |-> obs.truth]

Retain(keep) ==
    [j \in Interfaces |-> IF j \in keep THEN baselines[j] ELSE None]

InsertBaseline(i, b, keep) == baselines' = [Retain(keep) EXCEPT ![i] = b]

SampleSince(i, previous, n, signature) ==
    [iface |-> i, start |-> previous.observed, end |-> obs.wall,
     bytes |-> CounterDelta(previous.counter, n), signature |-> signature,
     from |-> previous.truth, to |-> obs.truth]

Gap(i, start, reason) ==
    [iface |-> i, start |-> start, end |-> obs.wall, reason |-> reason]

FirstObservation(i, n, signature, keep) ==
    /\ baselines[i] = None
    /\ InitializeCheckpointIfAbsent(i, n)
    /\ InsertBaseline(i, BaselineFromObservation(n, signature, obs.bootEpoch), keep)

RepeatedObservation(i, n, signature, keep) ==
    /\ baselines[i] = None
    /\ checkpoint[i] # None
    /\ checkpoint[i] = Checkpoint(n, obs.bootEpoch)
    /\ InsertBaseline(i, BaselineFromObservation(n, signature, obs.bootEpoch), keep)
    /\ UNCHANGED dbVars
(* Mutant: after a restart the checkpoint is moved without storing a gap. *)
ResumeSilently(i, n, signature, keep) ==
    /\ baselines[i] = None
    /\ checkpoint[i] # None
    /\ obs.wall > checkpoint[i].observed
    /\ checkpoint' = [checkpoint EXCEPT ![i] = Checkpoint(n, obs.bootEpoch)]
    /\ InsertBaseline(i, BaselineFromObservation(n, signature, obs.bootEpoch), keep)
    /\ UNCHANGED <<samples, gaps>>

ResumeAfterDiscontinuity(i, n, signature, keep) ==
    /\ baselines[i] = None
    /\ checkpoint[i] # None
    /\ obs.wall > checkpoint[i].observed
    /\ CommitGapAndCheckpoint(i,
         Gap(i, checkpoint[i].observed, "poller_discontinuity"),
         Checkpoint(n, obs.bootEpoch))
    /\ InsertBaseline(i, BaselineFromObservation(n, signature, obs.bootEpoch), keep)

RecordSample(i, n, signature, forcedGap, keep) ==
    LET previous == baselines[i] IN
    /\ previous # None
    /\ obs.wall > previous.observed
    /\ MayRecordExactSample(previous, n, signature, forcedGap)
    /\ CommitSampleAndCheckpoint(i, SampleSince(i, previous, n, signature),
         Checkpoint(n, NextMarker(previous)))
    /\ InsertBaseline(i,
         BaselineFromObservation(n, signature, NextMarker(previous)), keep)

RecordGap(i, n, signature, forcedGap, keep) ==
    LET previous == baselines[i] IN
    /\ previous # None
    /\ obs.wall > previous.observed
    /\ ~MayRecordExactSample(previous, n, signature, forcedGap)
    /\ CommitGapAndCheckpoint(i,
         Gap(i, previous.observed, GapReason(previous, n, signature, forcedGap)),
         Checkpoint(n, NextMarker(previous)))
    /\ InsertBaseline(i,
         BaselineFromObservation(n, signature, NextMarker(previous)), keep)

(* The observation is not later than the baseline or, without one, neither  *)
(* later than the checkpoint nor a repetition of it.                        *)
TimestampDoesNotAdvance(i, n) ==
    \/ /\ baselines[i] # None
       /\ obs.wall <= baselines[i].observed
    \/ /\ baselines[i] = None
       /\ checkpoint[i] # None
       /\ checkpoint[i] # Checkpoint(n, obs.bootEpoch)
       /\ obs.wall <= checkpoint[i].observed
(* Mutant: the baseline moves although nothing was committed. *)
RefuseButMoveBaseline(i, n, keep) ==
    /\ TimestampDoesNotAdvance(i, n) \/ "storage" \in Faults
    /\ InsertBaseline(i, BaselineFromObservation(n, {}, obs.bootEpoch), keep)
    /\ UNCHANGED dbVars

(* A timestamp that does not advance is refused, and any statement or       *)
(* commit may fail (disk full, busy): neither tables nor baseline move.     *)
RefuseObservation(i, n, keep) ==
    /\ TimestampDoesNotAdvance(i, n) \/ "storage" \in Faults
    /\ baselines' = Retain(keep)
    /\ UNCHANGED dbVars

PersistCounterObservation(i, n, signature, forcedGap, keep, outcome) ==
    \/ outcome = "Initialized" /\ FirstObservation(i, n, signature, keep)
    \/ outcome = "Initialized" /\ RepeatedObservation(i, n, signature, keep)
    \/ outcome = "Gap" /\ ResumeAfterDiscontinuity(i, n, signature, keep)
    \/ outcome = "ExactSample" /\ RecordSample(i, n, signature, forcedGap, keep)
    \/ outcome = "Gap" /\ RecordGap(i, n, signature, forcedGap, keep)
    \/ outcome = "Error" /\ RefuseObservation(i, n, keep)

Outcomes == {"Initialized", "ExactSample", "Gap", "Error"}

-----------------------------------------------------------------------------
(* persist_exact_traffic: one poll.                                         *)

PollerInit ==
    /\ incarnation = 1
    /\ baselines = [i \in Interfaces |-> None]
    /\ polledAt = None
    /\ asked = None
    /\ system = None
    /\ reading = None
    /\ sampleTime = None
    /\ pc = "idle"
    /\ obs = None
    /\ todo = {}
    /\ sum = 0
    /\ complete = FALSE
    /\ continuous = FALSE
    /\ members = {}

DatabaseInit ==
    /\ checkpoint = [i \in Interfaces |-> None]
    /\ samples = {}
    /\ gaps = {}

(* The run loop sleeps between two polls; a new process polls at once. *)
PollDue == pc = "idle" /\ (polledAt # None => polledAt < mono)

(* fetch_all sends its requests at once. *)
StartPoll ==
    /\ PollDue
    /\ asked' = mono
    /\ pc' = "fetching"
    /\ UNCHANGED <<worldVars, incarnation, baselines, polledAt, system, reading,
                   sampleTime, loopVars, dbVars>>

InTime == pc = "fetching" /\ mono <= asked + RequestMs

(* The router answers /system/resource.  The uptime field may be absent.    *)
(* What poller and router do not exchange is kept for the properties.       *)
AnswerUptime(uptime) ==
    /\ InTime
    /\ system = None
    /\ system' = [uptime |-> uptime, at |-> mono, up |-> Uptime, boots |-> boots]
    /\ UNCHANGED <<worldVars, incarnation, baselines, polledAt, asked, reading,
                   sampleTime, pc, loopVars, dbVars>>

(* The router answers /interface: it reads its counters ... *)
AnswerCounters ==
    /\ InTime
    /\ reading = None
    /\ reading' = [counter |-> counter, at |-> mono, boots |-> boots,
                   resets |-> resets, passed |-> passed]
    /\ UNCHANGED <<worldVars, incarnation, baselines, polledAt, asked, system,
                   sampleTime, pc, loopVars, dbVars>>

(* ... and the poller looks at its clocks when the answer has arrived. *)
StampCounters ==
    /\ InTime
    /\ reading # None
    /\ sampleTime = None
    /\ sampleTime' = [wall |-> wall, mono |-> mono]
    /\ UNCHANGED <<worldVars, incarnation, baselines, polledAt, asked, system,
                   reading, pc, loopVars, dbVars>>

Answered == pc = "fetching" /\ system # None /\ sampleTime # None

ForgetAnswers ==
    /\ asked' = None
    /\ system' = None
    /\ reading' = None
    /\ sampleTime' = None

(* A request of fetch_all failed or timed out, or the aggregate's row       *)
(* cannot be written: the poll returns before it looks at any counter.      *)
FailPoll ==
    /\ pc = "fetching"
    /\ "storage" \in Faults \/ (~Answered /\ mono >= asked + RequestMs)
    /\ polledAt' = mono
    /\ pc' = "idle"
    /\ ForgetAnswers
    /\ UNCHANGED <<worldVars, incarnation, baselines, loopVars, dbVars>>

(* resolve_router failed or named another router: every baseline is         *)
(* forgotten and nothing of this router is persisted.                       *)
LoseScope ==
    /\ "identity" \in Faults
    /\ Answered
    /\ polledAt' = mono
    /\ pc' = "idle"
    /\ ForgetAnswers
    /\ baselines' = [i \in Interfaces |-> None]
    /\ UNCHANGED <<worldVars, incarnation, loopVars, dbVars>>

(* The uptime belongs to the instant the router was asked for it, the boot  *)
(* epoch is estimated for the instant the counters arrived.                 *)
Observation ==
    [wall |-> sampleTime.wall, mono |-> sampleTime.mono, uptime |-> system.uptime,
     bootEpoch |-> EstimatedBootEpoch(sampleTime.wall, system.uptime),
     counter |-> reading.counter,
     upAt |-> system.at,
     truth |-> [boots |-> reading.boots, resets |-> reading.resets,
                passed |-> reading.passed, incarnation |-> incarnation,
                mono |-> sampleTime.mono, up |-> system.up, upBoots |-> system.boots]]

(* persist_exact_traffic begins: `names' are the WANs of the routing table. *)
StartPersisting(names) ==
    /\ Answered
    /\ pc' = "members"
    /\ obs' = Observation
    /\ ForgetAnswers
    /\ todo' = names
    /\ sum' = 0
    /\ complete' = (names # {})
    /\ continuous' = (names # {})
    /\ members' = {}
    /\ UNCHANGED <<worldVars, incarnation, baselines, polledAt, dbVars>>

(* The interface is missing from the answer, or its row cannot be written.  *)
SkipMember(w) ==
    /\ "interface" \in Faults
    /\ pc = "members"
    /\ w \in todo
    /\ todo' = todo \ {w}
    /\ complete' = FALSE
    /\ UNCHANGED <<worldVars, incarnation, baselines, dbVars,
                   polledAt, fetchVars, pc, obs, sum, continuous, members>>

(* The answer lists the interface without a byte counter. *)
DropMember(w) ==
    /\ "counter" \in Faults
    /\ pc = "members"
    /\ w \in todo
    /\ todo' = todo \ {w}
    /\ complete' = FALSE
    /\ members' = members \cup {w}
    /\ baselines' = [baselines EXCEPT ![w] = None]
    /\ UNCHANGED <<worldVars, incarnation, dbVars, polledAt, fetchVars, pc, obs,
                   sum, continuous>>

PersistMember(w) ==
    /\ pc = "members"
    /\ w \in todo
    /\ todo' = todo \ {w}
    /\ members' = members \cup {w}
    /\ \E outcome \in Outcomes :
         /\ PersistCounterObservation(w, obs.counter[w], {}, FALSE, Interfaces, outcome)
         /\ continuous' = (continuous /\ outcome = "ExactSample")
    /\ IF sum + obs.counter[w] <= U64Max
       THEN sum' = sum + obs.counter[w] /\ complete' = complete
       ELSE sum' = sum /\ complete' = FALSE
    /\ UNCHANGED <<worldVars, incarnation, polledAt, fetchVars, pc, obs>>

EndPoll ==
    /\ pc' = "idle"
    /\ ForgetAnswers
    /\ obs' = None
    /\ todo' = {}
    /\ sum' = 0
    /\ complete' = FALSE
    /\ continuous' = FALSE
    /\ members' = {}

PersistAggregate ==
    /\ pc = "members"
    /\ todo = {}
    /\ complete
    /\ \E outcome \in Outcomes :
         PersistCounterObservation(Aggregate, sum, members, ~continuous,
                                   members \cup {Aggregate}, outcome)
    /\ polledAt' = mono
    /\ EndPoll
    /\ UNCHANGED <<worldVars, incarnation>>

DropAggregate ==
    /\ pc = "members"
    /\ todo = {}
    /\ ~complete
    /\ baselines' = Retain(members)
    /\ polledAt' = mono
    /\ EndPoll
    /\ UNCHANGED <<worldVars, incarnation, dbVars>>
(* Mutant: baselines outlive the process. *)
RestartWithBaselines ==
    /\ incarnation < MaxIncarnation
    /\ incarnation' = incarnation + 1
    /\ polledAt' = None
    /\ EndPoll
    /\ UNCHANGED <<worldVars, baselines, dbVars>>

(* The process dies and is started again: only the database survives. *)
Restart ==
    /\ incarnation < MaxIncarnation
    /\ incarnation' = incarnation + 1
    /\ baselines' = [i \in Interfaces |-> None]
    /\ polledAt' = None
    /\ EndPoll
    /\ UNCHANGED <<worldVars, dbVars>>

ReportedUptimes ==
    {Uptime \div 1000} \cup (IF "uptime" \in Faults THEN {None} ELSE {})

PollerNext ==
    \/ StartPoll
    \/ \E uptime \in ReportedUptimes : AnswerUptime(uptime)
    \/ AnswerCounters
    \/ StampCounters
    \/ \E names \in SUBSET Wans : StartPersisting(names)
    \/ FailPoll
    \/ LoseScope
    \/ \E w \in Wans : SkipMember(w) \/ DropMember(w) \/ PersistMember(w)
    \/ PersistAggregate
    \/ DropAggregate
    \/ Restart

Init == WorldInit /\ PollerInit /\ DatabaseInit

Next == WorldNext \/ PollerNext

Spec == Init /\ [][Next]_vars
-----------------------------------------------------------------------------
(* Types.                                                                   *)

TruthType ==
    [boots : Nat, resets : [Wans -> Nat], passed : [Wans -> Nat],
     incarnation : Nat, mono : Int, up : Int, upBoots : Nat]

SystemType == [uptime : Int \cup {None}, at : Int, up : Int, boots : Nat]

ReadingType ==
    [counter : [Wans -> 0..U64Max], at : Int, boots : Nat, resets : [Wans -> Nat],
     passed : [Wans -> Nat]]

SampleTimeType == [wall : Int, mono : Int]

BaselineType ==
    [counter : 0..U64Max, observed : Int, mono : Int, uptime : Int \cup {None},
     bootEpoch : Int \cup {None}, marker : Int \cup {None},
     signature : SUBSET Wans, upAt : Int, truth : TruthType]

ObservationType ==
    [wall : Int, mono : Int, uptime : Int \cup {None}, bootEpoch : Int \cup {None},
     counter : [Wans -> 0..U64Max], upAt : Int, truth : TruthType]

CheckpointType == [counter : 0..U64Max, observed : Int, marker : Int \cup {None}]

SampleType ==
    [iface : Interfaces, start : Int, end : Int, bytes : 0..I64Max,
     signature : SUBSET Wans, from : TruthType, to : TruthType]

GapReasons ==
    {"poller_discontinuity", "wan_membership_changed", "wan_member_discontinuity",
     "uptime_unavailable", "router_rebooted", "clock_discontinuity",
     "counter_reset", "counter_discontinuity"}

GapType == [iface : Interfaces, start : Int, end : Int, reason : GapReasons]

ASSUME NoneIsNoRecord ==
    None \notin ObservationType \cup BaselineType \cup CheckpointType
                  \cup SystemType \cup ReadingType \cup SampleTimeType

WorldTypeOK ==
    /\ mono \in Int
    /\ wall \in Int
    /\ bootedAt \in Int
    /\ counter \in [Wans -> 0..U64Max]
    /\ boots \in Nat
    /\ resets \in [Wans -> Nat]
    /\ passed \in [Wans -> Nat]
    /\ incarnation \in Nat

PollTypeOK ==
    /\ polledAt \in Int \cup {None}
    /\ asked \in Int \cup {None}
    /\ system \in SystemType \cup {None}
    /\ reading \in ReadingType \cup {None}
    /\ sampleTime \in SampleTimeType \cup {None}
    /\ pc \in {"idle", "fetching", "members"}
    /\ pc = "fetching" => asked # None
    /\ sampleTime # None => reading # None
    /\ obs \in ObservationType \cup {None}
    /\ pc = "members" => obs # None
    /\ todo \subseteq Wans
    /\ sum \in 0..U64Max
    /\ complete \in BOOLEAN
    /\ continuous \in BOOLEAN
    /\ members \subseteq Wans

StoreTypeOK ==
    /\ baselines \in [Interfaces -> BaselineType \cup {None}]
    /\ checkpoint \in [Interfaces -> CheckpointType \cup {None}]
    /\ samples \subseteq SampleType
    /\ gaps \subseteq GapType

(* Every variable has its type; in particular an exact sample always holds  *)
(* a byte count that fits the signed SQLite column (i64::try_from).         *)
TypeOK == WorldTypeOK /\ PollTypeOK /\ StoreTypeOK

-----------------------------------------------------------------------------
(* Properties.                                                              *)

(* The baseline in memory is the durable checkpoint: it "advances only      *)
(* after the corresponding sample/gap and checkpoint transaction succeeds"  *)
(* (engine.rs:182), whatever failed, restarted or was dropped before.       *)
BaselineIsCheckpoint ==
    \A i \in Interfaces :
        baselines[i] # None =>
            /\ checkpoint[i] # None
            /\ baselines[i].counter = checkpoint[i].counter
            /\ baselines[i].observed = checkpoint[i].observed
            /\ baselines[i].marker = checkpoint[i].marker

Frontier ==
    [i \in Interfaces |-> IF checkpoint[i] = None THEN None ELSE checkpoint[i].observed]

Entries ==
    {[iface |-> s.iface, start |-> s.start, end |-> s.end, exact |-> TRUE] : s \in samples}
    \cup
    {[iface |-> g.iface, start |-> g.start, end |-> g.end, exact |-> FALSE] : g \in gaps}

Ledger == INSTANCE TrafficLedger WITH frontier <- Frontier, entries <- Entries

(* Persistence implements the ledger: tables and checkpoint move together,  *)
(* a ledger is opened once and only ever extended from its frontier.        *)
ImplementsLedger == Ledger!LedgerSpec

(* For every interface the stored samples and gaps lie side by side from    *)
(* the first checkpoint to the last one: no instant is counted twice and    *)
(* none is skipped, across failed commits, clock steps and restarts.        *)
SamplesAndGapsTile ==
    /\ Ledger!EntriesBehindFrontier
    /\ Ledger!NoDoubleCounting
    /\ Ledger!NoSilentHole

(* No exact sample reaches across a process start ("Callers must handle an  *)
(* existing checkpoint as a sampling discontinuity instead of deriving      *)
(* traffic across a process restart", traffic_v4.rs:542).                   *)
ExactWithinOneProcess ==
    \A s \in samples : s.from.incarnation = s.to.incarnation

(* An exact sample hides a reboot only when the router had been up so       *)
(* briefly when it was asked, and was away so briefly, that the tolerances  *)
(* swallow it: 5 s between boot epochs, the rounding to whole seconds,      *)
(* 250 ms + 1 % between the clocks and, because uptime and counters are     *)
(* fetched by different requests, the time two polls may spend fetching.    *)
(* The exception is a router that is back within one request: asked for its *)
(* uptime on one side of the reboot and for its counters on the other, it   *)
(* gives the poller no way to tell.                                         *)
RebootHiddenOnlyBelowTolerance ==
    \A s \in samples :
        s.from.boots # s.to.boots =>
            \/ s.from.up + RebootMs
                  < 7000 + 250 + 2 * RequestMs + (s.to.mono - s.from.mono) \div 100
            \/ RebootMs <= RequestMs /\ s.to.upBoots # s.to.boots

(* The WANs whose counters a sample was computed from. *)
Sources(s) == IF s.iface = Aggregate THEN s.signature ELSE {s.iface}

(* Unless a counter was reset behind the poller's back, an exact sample is  *)
(* the number of bytes the router really forwarded in the interval, counter *)
(* wrap-around included, for single WANs and for the aggregate.             *)
ExactBytesAreTrue ==
    \A s \in samples :
        (/\ s.from.boots = s.to.boots
         /\ \A w \in Sources(s) : s.from.resets[w] = s.to.resets[w]) =>
            s.bytes = SumFunction([w \in Sources(s) |-> s.to.passed[w] - s.from.passed[w]])
                          % (U64Max + 1)

(* An exact aggregate sample is the sum of exact samples: every member of   *)
(* its signature has one over the same interval, and their bytes add up.    *)
AggregateBackedByMembers ==
    \A a \in samples :
        a.iface = Aggregate =>
            LET parts == {s \in samples : /\ s.iface \in a.signature
                                          /\ s.start = a.start
                                          /\ s.end = a.end} IN
            /\ {s.iface : s \in parts} = a.signature
            /\ a.bytes = SumFunction([s \in parts |-> s.bytes]) % (U64Max + 1)

(* The aggregate is never exact over an interval in which one of its        *)
(* members only has a gap (what the test                                    *)
(* aggregate_gaps_when_one_member_reset_is_masked_by_another_member,        *)
(* engine.rs:2300, expects).                                                *)
AggregateNeverMasksMemberGap ==
    \A a \in samples, g \in gaps :
        (a.iface = Aggregate /\ g.iface \in a.signature)
            => g.end <= a.start \/ a.end <= g.start

=============================================================================
