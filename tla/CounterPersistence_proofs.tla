---------------------- MODULE CounterPersistence_proofs ----------------------
(* Proofs about exact traffic persistence, for every set of WANs, every     *)
(* counter width, every fault mix and every bound.                          *)
EXTENDS CounterPersistence, Sums, TLAPS

-----------------------------------------------------------------------------
(* Facts about the operators.                                               *)

(* An accepted delta is a byte count that fits an i64. *)
LEMMA DeltaType ==
    ASSUME NEW p \in 0..U64Max, NEW n \in 0..U64Max, CounterDelta(p, n) # None,
           CounterDelta(p, n) <= I64Max
    PROVE  CounterDelta(p, n) \in 0..I64Max
<1>1. CounterDelta(p, n) \in Nat
  <2>1. p \in Int /\ n \in Int /\ U64Max \in Int /\ p <= U64Max /\ n >= 0
    BY CounterConstants
  <2>2. CASE n >= p
    BY <2>1, <2>2 DEF CounterDelta
  <2>3. CASE ~(n >= p)
    <3>1. CounterDelta(p, n) = (U64Max - p) + n + 1
      BY <2>3 DEF CounterDelta, WrappedCounterDelta
    <3>2. (U64Max - p) + n + 1 \in Nat
      BY <2>1
    <3> QED
      BY <3>1, <3>2
  <2> QED
    BY <2>2, <2>3
<1>2. I64Max \in Int
  BY CounterConstants DEF I64Max
<1> QED
  BY <1>1, <1>2

(* A baseline or checkpoint built from a typed observation is typed         *)
(* (baseline_from_observation).                                             *)
LEMMA BaselineFieldsType ==
    ASSUME TypeOK, obs # None, NEW n \in 0..U64Max, NEW sig \in SUBSET Wans,
           NEW m \in Int \cup {None}
    PROVE  /\ BaselineFromObservation(n, sig, m) \in BaselineType
           /\ Checkpoint(n, m) \in CheckpointType
  BY DEF TypeOK, PollTypeOK, ObservationType, BaselineFromObservation,
         BaselineType, Checkpoint, CheckpointType

(* Dropping the baselines of inactive interfaces keeps their type           *)
(* (baselines.retain).                                                      *)
LEMMA RetainType ==
    ASSUME TypeOK, NEW keep
    PROVE  Retain(keep) \in [Interfaces -> BaselineType \cup {None}]
  BY DEF TypeOK, StoreTypeOK, Retain

(* Replacing one baseline keeps the type of the map (baselines.insert).     *)
LEMMA InsertBaselineType ==
    ASSUME TypeOK, NEW keep, NEW i \in Interfaces, NEW b \in BaselineType,
           InsertBaseline(i, b, keep)
    PROVE  baselines' \in [Interfaces -> BaselineType \cup {None}]
  BY RetainType DEF InsertBaseline

(* The boot marker carried to the next checkpoint is an epoch or absent.    *)
LEMMA MarkerType ==
    ASSUME TypeOK, obs # None, NEW i \in Interfaces, baselines[i] # None
    PROVE  NextMarker(baselines[i]) \in Int \cup {None}
  BY DEF TypeOK, PollTypeOK, StoreTypeOK, ObservationType, BaselineType, NextMarker

(* Every gap is stored with one of the reasons the schema knows.            *)
LEMMA GapReasonType ==
    ASSUME NEW p, NEW n, NEW sig, NEW f \in BOOLEAN
    PROVE  GapReason(p, n, sig, f) \in GapReasons
  BY DEF GapReason, GapReasons

(* A gap transaction keeps the three tables typed                           *)
(* (commit_gap_and_checkpoint).                                             *)
LEMMA CommitGapType ==
    ASSUME TypeOK, NEW i \in Interfaces, NEW g \in GapType, NEW cp \in CheckpointType,
           CommitGapAndCheckpoint(i, g, cp)
    PROVE  /\ checkpoint' \in [Interfaces -> CheckpointType \cup {None}]
           /\ samples' \subseteq SampleType
           /\ gaps' \subseteq GapType
  BY DEF TypeOK, StoreTypeOK, CommitGapAndCheckpoint, dbVars

(* A sample transaction keeps the three tables typed                        *)
(* (commit_sample_and_checkpoint).                                          *)
LEMMA CommitSampleType ==
    ASSUME TypeOK, NEW i \in Interfaces, NEW s \in SampleType, NEW cp \in CheckpointType,
           CommitSampleAndCheckpoint(i, s, cp)
    PROVE  /\ checkpoint' \in [Interfaces -> CheckpointType \cup {None}]
           /\ samples' \subseteq SampleType
           /\ gaps' \subseteq GapType
  BY DEF TypeOK, StoreTypeOK, CommitSampleAndCheckpoint, dbVars

-----------------------------------------------------------------------------
(* Type correctness.                                                        *)

(* However persist_counter_observation returns, baselines and tables stay   *)
(* typed.                                                                   *)
LEMMA PersistType ==
    ASSUME TypeOK, obs # None, NEW i \in Interfaces, NEW n \in 0..U64Max,
           NEW sig \in SUBSET Wans, NEW forced \in BOOLEAN, NEW keep, NEW outcome,
           PersistCounterObservation(i, n, sig, forced, keep, outcome)
    PROVE  StoreTypeOK'
<1> DEFINE p == baselines[i]
<1>0. /\ obs \in ObservationType
      /\ obs.bootEpoch \in Int \cup {None}
      /\ obs.wall \in Int
      /\ obs.truth \in TruthType
      /\ checkpoint[i] # None => checkpoint[i].observed \in Int
      /\ p # None => p \in BaselineType
  BY DEF TypeOK, PollTypeOK, StoreTypeOK, ObservationType, CheckpointType
<1>1. CASE FirstObservation(i, n, sig, keep)
  BY <1>0, <1>1, BaselineFieldsType, InsertBaselineType
     DEF FirstObservation, InitializeCheckpointIfAbsent, StoreTypeOK, TypeOK
<1>2. CASE RepeatedObservation(i, n, sig, keep)
  BY <1>0, <1>2, BaselineFieldsType, InsertBaselineType
     DEF RepeatedObservation, StoreTypeOK, TypeOK, dbVars
<1>3. CASE ResumeAfterDiscontinuity(i, n, sig, keep)
  <2>1. Gap(i, checkpoint[i].observed, "poller_discontinuity") \in GapType
    BY <1>0, <1>3 DEF ResumeAfterDiscontinuity, Gap, GapType, GapReasons
  <2> QED
    BY <1>0, <1>3, <2>1, BaselineFieldsType, InsertBaselineType, CommitGapType
       DEF ResumeAfterDiscontinuity, StoreTypeOK
<1>4. CASE RecordSample(i, n, sig, forced, keep)
  <2>1. p # None /\ NextMarker(p) \in Int \cup {None}
    BY <1>4, MarkerType DEF RecordSample
  <2>2. CounterDelta(p.counter, n) \in 0..I64Max
    BY <1>0, <1>4, DeltaType
       DEF RecordSample, MayRecordExactSample, DeltaIsExact, BaselineType
  <2>3. SampleSince(i, p, n, sig) \in SampleType
    BY <1>0, <2>1, <2>2 DEF SampleSince, SampleType, BaselineType
  <2> QED
    BY <1>4, <2>1, <2>3, BaselineFieldsType, InsertBaselineType, CommitSampleType
       DEF RecordSample, StoreTypeOK
<1>5. CASE RecordGap(i, n, sig, forced, keep)
  <2>1. p # None /\ NextMarker(p) \in Int \cup {None}
    BY <1>5, MarkerType DEF RecordGap
  <2>2. Gap(i, p.observed, GapReason(p, n, sig, forced)) \in GapType
    BY <1>0, <2>1, GapReasonType DEF Gap, GapType, BaselineType
  <2> QED
    BY <1>5, <2>1, <2>2, BaselineFieldsType, InsertBaselineType, CommitGapType
       DEF RecordGap, StoreTypeOK
<1>6. CASE RefuseObservation(i, n, keep)
  BY <1>6, RetainType DEF RefuseObservation, StoreTypeOK, TypeOK, dbVars
<1> QED
  BY <1>1, <1>2, <1>3, <1>4, <1>5, <1>6 DEF PersistCounterObservation

(* A counter reduced modulo U64Max + 1 is a u64.                            *)
LEMMA Modulo == ASSUME NEW x \in Nat, NEW m \in Nat PROVE x % (m + 1) \in 0..m
  OBVIOUS

(* Traffic, reboots, resets and clock steps keep every variable typed.      *)
LEMMA WorldType == ASSUME TypeOK, WorldNext PROVE TypeOK'
<1>1. /\ UNCHANGED <<incarnation, baselines, pollVars, dbVars>>
      /\ \/ Tick
         \/ Reboot
         \/ \E w \in Wans : ResetCounter(w)
         \/ \E d \in ClockSteps : StepClock(d)
  BY DEF WorldNext
<1>2. PollTypeOK' /\ StoreTypeOK'
  BY <1>1 DEF TypeOK, PollTypeOK, StoreTypeOK, pollVars, fetchVars, loopVars, dbVars
<1>3. WorldTypeOK'
  <2>1. CASE Tick
    <3>1. PICK bytes \in [Wans -> Traffic] :
            /\ counter' = [w \in Wans |-> (counter[w] + bytes[w]) % (U64Max + 1)]
            /\ passed' = [w \in Wans |-> passed[w] + bytes[w]]
      BY <2>1 DEF Tick
    <3>2. \A w \in Wans : (counter[w] + bytes[w]) % (U64Max + 1) \in 0..U64Max
      <4> TAKE w \in Wans
      <4>1. counter[w] + bytes[w] \in Nat
        <5>1. bytes[w] \in Nat
          BY CounterConstants
        <5>2. counter[w] \in Nat
          BY CounterConstants DEF TypeOK, WorldTypeOK
        <5> QED
          BY <5>1, <5>2
      <4> QED
        BY <4>1, Modulo, CounterConstants
    <3>3. ASSUME NEW w \in Wans PROVE passed[w] + bytes[w] \in Nat
      <4>1. bytes[w] \in Nat
        BY CounterConstants
      <4>2. passed[w] \in Nat
        BY DEF TypeOK, WorldTypeOK
      <4> QED
        BY <4>1, <4>2
    <3> QED
      BY <1>1, <2>1, <3>1, <3>2, <3>3, CounterConstants DEF Tick, TypeOK, WorldTypeOK
  <2>2. CASE Reboot
    BY <1>1, <2>2, CounterConstants DEF Reboot, TypeOK, WorldTypeOK
  <2>3. ASSUME NEW w \in Wans, ResetCounter(w) PROVE WorldTypeOK'
    BY <1>1, <2>3, CounterConstants DEF ResetCounter, TypeOK, WorldTypeOK
  <2>4. ASSUME NEW d \in ClockSteps, StepClock(d) PROVE WorldTypeOK'
    BY <1>1, <2>4, CounterConstants DEF StepClock, TypeOK, WorldTypeOK
  <2> QED
    BY <1>1, <2>1, <2>2, <2>3, <2>4
<1> QED
  BY <1>2, <1>3 DEF TypeOK

(* What a poll has fetched from the router is a typed observation.          *)
LEMMA ObservationTyped ==
    ASSUME TypeOK, Answered
    PROVE  Observation \in ObservationType
<1>1. /\ system \in SystemType
      /\ sampleTime \in SampleTimeType
      /\ reading \in ReadingType
      /\ incarnation \in Nat
  BY DEF Answered, TypeOK, WorldTypeOK, PollTypeOK
<1>2. EstimatedBootEpoch(sampleTime.wall, system.uptime) \in Int \cup {None}
  BY <1>1 DEF EstimatedBootEpoch, SystemType, SampleTimeType
<1>3. Observation.truth \in TruthType
  BY <1>1 DEF Observation, TruthType, SystemType, ReadingType, SampleTimeType
<1> QED
  BY <1>1, <1>2, <1>3
     DEF Observation, ObservationType, SystemType, ReadingType, SampleTimeType

(* fetch_all: the requests, the router's answers and the look at the clocks.*)
FetchNext ==
    \/ StartPoll
    \/ \E uptime \in ReportedUptimes : AnswerUptime(uptime)
    \/ AnswerCounters
    \/ StampCounters

(* Fetching touches neither the world nor what persistence works with.      *)
LEMMA FetchFrame ==
    ASSUME FetchNext
    PROVE  /\ UNCHANGED <<worldVars, incarnation, baselines, polledAt, loopVars, dbVars>>
           /\ pc # "members"
           /\ pc' = "fetching"
  BY DEF FetchNext, StartPoll, PollDue, InTime, AnswerUptime, AnswerCounters, StampCounters

(* Each answer of the router and each look at the clocks keeps every        *)
(* variable typed.                                                          *)
LEMMA FetchType == ASSUME TypeOK, FetchNext PROVE TypeOK'
<1>0. /\ mono \in Int /\ wall \in Int /\ Uptime \in Int /\ boots \in Nat
      /\ counter \in [Wans -> 0..U64Max]
      /\ resets \in [Wans -> Nat]
      /\ passed \in [Wans -> Nat]
  BY DEF TypeOK, WorldTypeOK, Uptime
<1>1. CASE StartPoll
  BY <1>0, <1>1, CounterConstants
     DEF StartPoll, TypeOK, WorldTypeOK, PollTypeOK, StoreTypeOK, worldVars,
         loopVars, dbVars
<1>2. ASSUME NEW uptime \in ReportedUptimes, AnswerUptime(uptime) PROVE TypeOK'
  <2>1. uptime \in Int \cup {None}
    BY <1>0 DEF ReportedUptimes
  <2>2. system' \in SystemType
    BY <1>0, <1>2, <2>1 DEF AnswerUptime, SystemType
  <2> QED
    BY <1>2, <2>2 DEF AnswerUptime, TypeOK, WorldTypeOK, PollTypeOK, StoreTypeOK,
       worldVars, loopVars, dbVars
<1>3. CASE AnswerCounters
  <2>1. reading' \in ReadingType
    BY <1>0, <1>3 DEF AnswerCounters, ReadingType
  <2> QED
    BY <1>3, <2>1, NoneIsNoRecord
       DEF AnswerCounters, TypeOK, WorldTypeOK, PollTypeOK, StoreTypeOK,
       worldVars, loopVars, dbVars
<1>4. CASE StampCounters
  <2>1. sampleTime' \in SampleTimeType
    BY <1>0, <1>4 DEF StampCounters, SampleTimeType
  <2> QED
    BY <1>4, <2>1 DEF StampCounters, TypeOK, WorldTypeOK, PollTypeOK, StoreTypeOK,
       worldVars, loopVars, dbVars
<1> QED
  BY <1>1, <1>2, <1>3, <1>4 DEF FetchNext

(* The locals of persist_exact_traffic are typed after the poll returns.    *)
LEMMA EndPollType == ASSUME EndPoll, polledAt' \in Int \cup {None} PROVE PollTypeOK'
<1>1. sum' \in 0..U64Max
  BY CounterConstants DEF EndPoll
<1> QED
  BY <1>1, Zenon DEF EndPoll, ForgetAnswers, PollTypeOK

(* The observation of a WAN is within the counter's range. *)
LEMMA MemberCounter ==
    ASSUME TypeOK, pc = "members", NEW w \in Wans
    PROVE  /\ obs # None
           /\ obs.counter[w] \in 0..U64Max
           /\ w \in Interfaces
  BY DEF TypeOK, PollTypeOK, ObservationType, Interfaces

(* Every step of a poll, its failures and a restart keep every variable     *)
(* typed.                                                                   *)
LEMMA PollerType == ASSUME TypeOK, PollerNext PROVE TypeOK'
<1>0. CASE FetchNext
  BY <1>0, FetchType
<1>1. ASSUME NEW names \in SUBSET Wans, StartPersisting(names) PROVE TypeOK'
  <2>1. Observation \in ObservationType /\ Observation # None
    BY <1>1, ObservationTyped, NoneIsNoRecord DEF StartPersisting
  <2> QED
    BY <1>1, <2>1, CounterConstants
       DEF StartPersisting, ForgetAnswers, TypeOK, WorldTypeOK, PollTypeOK, StoreTypeOK,
           worldVars, dbVars
<1>2. CASE FailPoll \/ LoseScope
  BY <1>2 DEF FailPoll, LoseScope, ForgetAnswers, TypeOK, WorldTypeOK, PollTypeOK,
     StoreTypeOK, worldVars, loopVars, dbVars
<1>3. ASSUME NEW w \in Wans, SkipMember(w) PROVE TypeOK'
  BY <1>3 DEF SkipMember, TypeOK, WorldTypeOK, PollTypeOK, StoreTypeOK, worldVars,
     fetchVars, dbVars
<1>4. ASSUME NEW w \in Wans, DropMember(w) PROVE TypeOK'
  BY <1>4 DEF DropMember, TypeOK, WorldTypeOK, PollTypeOK, StoreTypeOK, worldVars,
     fetchVars, dbVars
<1>5. ASSUME NEW w \in Wans, PersistMember(w) PROVE TypeOK'
  <2>1. PICK outcome \in Outcomes :
          /\ PersistCounterObservation(w, obs.counter[w], {}, FALSE, Interfaces, outcome)
          /\ continuous' = (continuous /\ outcome = "ExactSample")
    BY <1>5 DEF PersistMember
  <2>0. /\ pc = "members"
        /\ obs # None
        /\ obs.counter[w] \in 0..U64Max
        /\ w \in Interfaces
    BY <1>5, MemberCounter DEF PersistMember
  <2>2. StoreTypeOK'
    <3>1. {} \in SUBSET Wans /\ FALSE \in BOOLEAN
      OBVIOUS
    <3> QED
      BY <2>0, <2>1, <3>1, PersistType
  <2>3. complete' \in BOOLEAN
    BY <1>5, Zenon DEF PersistMember, TypeOK, PollTypeOK
  <2>4. sum' \in 0..U64Max
    <3>1. sum \in 0..U64Max
      BY DEF TypeOK, PollTypeOK
    <3>2. \/ sum' = sum + obs.counter[w] /\ sum + obs.counter[w] <= U64Max
          \/ sum' = sum
      BY <1>5, Zenon DEF PersistMember
    <3> QED
      BY <2>0, <3>1, <3>2, CounterConstants
  <2> QED
    BY <1>5, <2>1, <2>2, <2>3, <2>4
       DEF PersistMember, TypeOK, WorldTypeOK, PollTypeOK, worldVars, fetchVars
<1>6. CASE PersistAggregate
  <2>1. StoreTypeOK'
    <3>1. /\ obs # None
          /\ sum \in 0..U64Max
          /\ members \in SUBSET Wans
          /\ (~continuous) \in BOOLEAN
          /\ Aggregate \in Interfaces
      BY <1>6, Zenon DEF PersistAggregate, TypeOK, PollTypeOK, Interfaces
    <3> QED
      BY <1>6, <3>1, PersistType DEF PersistAggregate
  <2> QED
    BY <1>6, <2>1, EndPollType, Zenon
       DEF PersistAggregate, TypeOK, WorldTypeOK, PollTypeOK, worldVars
<1>7. CASE DropAggregate
  BY <1>7, EndPollType, RetainType, Zenon
     DEF DropAggregate, TypeOK, WorldTypeOK, PollTypeOK, StoreTypeOK, worldVars, dbVars
<1>8. CASE Restart
  <2>1. WorldTypeOK'
    BY <1>8 DEF Restart, TypeOK, WorldTypeOK, worldVars
  <2>2. PollTypeOK'
    BY <1>8, EndPollType DEF Restart
  <2>3. StoreTypeOK'
    BY <1>8 DEF Restart, TypeOK, StoreTypeOK, dbVars
  <2> QED
    BY <2>1, <2>2, <2>3 DEF TypeOK
<1> QED
  BY <1>0, <1>1, <1>2, <1>3, <1>4, <1>5, <1>6, <1>7, <1>8 DEF PollerNext, FetchNext

(* A step that changes nothing keeps every variable typed.                  *)
LEMMA StutterType == ASSUME TypeOK, UNCHANGED vars PROVE TypeOK'
  BY DEF vars, worldVars, pollVars, fetchVars, loopVars, dbVars, TypeOK, WorldTypeOK,
     PollTypeOK, StoreTypeOK

(* A fresh process on an empty database is typed.                           *)
LEMMA InitType == ASSUME Init PROVE TypeOK
<1>1. WorldTypeOK
  <2>1. StartMs \in Int /\ StartMs - StartUptimeMs \in Int /\ 0 \in Nat /\ 1 \in Nat
    BY CounterConstants
  <2>2. counter \in [Wans -> 0..U64Max]
    BY CounterConstants DEF Init, WorldInit
  <2> QED
    BY <2>1, <2>2 DEF Init, WorldInit, PollerInit, WorldTypeOK
<1>2. PollTypeOK
  <2>1. 0 \in 0..U64Max
    BY CounterConstants
  <2> QED
    BY <2>1, Zenon DEF Init, PollerInit, PollTypeOK
<1>3. StoreTypeOK
  BY DEF Init, PollerInit, DatabaseInit, StoreTypeOK
<1> QED
  BY <1>1, <1>2, <1>3 DEF TypeOK

(* Persistence keeps every table, baseline and poll-local value within its  *)
(* type; stored byte counts always fit the i64 column.                      *)
THEOREM TypeCorrect == Spec => []TypeOK
<1>1. TypeOK /\ [Next]_vars => TypeOK'
  BY WorldType, PollerType, StutterType DEF Next
<1>2. Init => TypeOK
  BY InitType
<1> QED
  BY <1>1, <1>2, PTL DEF Spec

-----------------------------------------------------------------------------
(* What one call of persist_counter_observation does to the tables, once    *)
(* the baseline is known to be the checkpoint: nothing, open the ledger, or *)
(* extend it from the checkpoint by a sample or a gap.  In particular the   *)
(* duplicate-key branches of the transactions never apply.                  *)

MovesCheckpoint(i, n, marker) ==
    checkpoint' = [checkpoint EXCEPT ![i] = Checkpoint(n, marker)]

Opens(i, n, m) ==
    /\ checkpoint[i] = None
    /\ MovesCheckpoint(i, n, m)
    /\ UNCHANGED <<samples, gaps>>

ExtendsBySample(i, n, m) ==
    /\ checkpoint[i] # None
    /\ obs.wall > checkpoint[i].observed
    /\ MovesCheckpoint(i, n, m)
    /\ \E s \in SampleType :
         /\ s.iface = i
         /\ s.start = checkpoint[i].observed
         /\ s.end = obs.wall
         /\ samples' = samples \cup {s}
    /\ UNCHANGED gaps

ExtendsByGap(i, n, m) ==
    /\ checkpoint[i] # None
    /\ obs.wall > checkpoint[i].observed
    /\ MovesCheckpoint(i, n, m)
    /\ \E g \in GapType :
         /\ g.iface = i
         /\ g.start = checkpoint[i].observed
         /\ g.end = obs.wall
         /\ gaps' = gaps \cup {g}
    /\ UNCHANGED samples

TableStep(i, n, m) == Opens(i, n, m) \/ ExtendsBySample(i, n, m) \/ ExtendsByGap(i, n, m)

(* The baselines that survive are old ones, except the one of i. *)
BaselineStep(i, n, sig, m, keep) ==
    InsertBaseline(i, BaselineFromObservation(n, sig, m), keep)

(* A gap that ends after its checkpoint is new, so its transaction moves    *)
(* the checkpoint.                                                          *)
LEMMA FreshGap ==
    ASSUME TypeOK, obs # None, NEW i \in Interfaces, checkpoint[i] # None,
           obs.wall > checkpoint[i].observed, NEW n, NEW m, NEW g,
           CommitGapAndCheckpoint(i, g, Checkpoint(n, m))
    PROVE  /\ gaps' = gaps \cup {g}
           /\ MovesCheckpoint(i, n, m)
           /\ UNCHANGED samples
<1>1. obs.wall \in Int /\ checkpoint[i].observed \in Int
  BY DEF TypeOK, PollTypeOK, ObservationType, StoreTypeOK, CheckpointType
<1>2. Checkpoint(n, m).observed = obs.wall
  BY DEF Checkpoint
<1> QED
  BY <1>1, <1>2 DEF CommitGapAndCheckpoint, MovesCheckpoint

(* A sample that ends after its checkpoint is new, so its transaction moves *)
(* the checkpoint.                                                          *)
LEMMA FreshSample ==
    ASSUME TypeOK, obs # None, NEW i \in Interfaces, checkpoint[i] # None,
           obs.wall > checkpoint[i].observed, NEW n, NEW m, NEW s,
           CommitSampleAndCheckpoint(i, s, Checkpoint(n, m))
    PROVE  /\ samples' = samples \cup {s}
           /\ MovesCheckpoint(i, n, m)
           /\ UNCHANGED gaps
<1>1. obs.wall \in Int /\ checkpoint[i].observed \in Int
  BY DEF TypeOK, PollTypeOK, ObservationType, StoreTypeOK, CheckpointType
<1>2. Checkpoint(n, m).observed = obs.wall
  BY DEF Checkpoint
<1> QED
  BY <1>1, <1>2 DEF CommitSampleAndCheckpoint, MovesCheckpoint

(* The two effects persist_counter_observation can have on tables and       *)
(* baselines together.                                                      *)
LEMMA PersistEffect ==
    ASSUME TypeOK, BaselineIsCheckpoint, obs # None,
           NEW i \in Interfaces, NEW n \in 0..U64Max,
           NEW sig \in SUBSET Wans, NEW forced \in BOOLEAN, NEW keep, NEW outcome,
           PersistCounterObservation(i, n, sig, forced, keep, outcome)
    PROVE  \/ UNCHANGED dbVars /\ baselines' = Retain(keep)
           \/ \E m \in Int \cup {None} :
                /\ BaselineStep(i, n, sig, m, keep)
                /\ \/ TableStep(i, n, m)
                   \/ UNCHANGED dbVars /\ checkpoint[i] = Checkpoint(n, m)
<1> DEFINE p == baselines[i]
<1>0. /\ obs.bootEpoch \in Int \cup {None}
      /\ obs.wall \in Int
      /\ obs.truth \in TruthType
      /\ checkpoint[i] # None => checkpoint[i].observed \in Int
      /\ p # None => /\ p \in BaselineType
                     /\ checkpoint[i] # None
                     /\ p.observed = checkpoint[i].observed
  BY DEF TypeOK, PollTypeOK, StoreTypeOK, ObservationType, CheckpointType, BaselineIsCheckpoint
<1>1. CASE FirstObservation(i, n, sig, keep)
  BY <1>0, <1>1 DEF FirstObservation, InitializeCheckpointIfAbsent, BaselineStep,
                    TableStep, Opens, MovesCheckpoint
<1>2. CASE RepeatedObservation(i, n, sig, keep)
  BY <1>0, <1>2 DEF RepeatedObservation, BaselineStep
<1>3. CASE ResumeAfterDiscontinuity(i, n, sig, keep)
  <2> DEFINE g == Gap(i, checkpoint[i].observed, "poller_discontinuity")
  <2>1. g \in GapType
    BY <1>0, <1>3 DEF ResumeAfterDiscontinuity, Gap, GapType, GapReasons
  <2>2. g.iface = i /\ g.start = checkpoint[i].observed /\ g.end = obs.wall
    BY DEF Gap
  <2>3. /\ gaps' = gaps \cup {g}
        /\ MovesCheckpoint(i, n, obs.bootEpoch)
        /\ UNCHANGED samples
    BY <1>3, FreshGap DEF ResumeAfterDiscontinuity
  <2>4. ExtendsByGap(i, n, obs.bootEpoch)
    <3> HIDE DEF g
    <3> QED
      BY <1>3, <2>1, <2>2, <2>3 DEF ResumeAfterDiscontinuity, ExtendsByGap
  <2> QED
    BY <1>0, <1>3, <2>4 DEF ResumeAfterDiscontinuity, BaselineStep, TableStep
<1>4. CASE RecordSample(i, n, sig, forced, keep)
  <2> DEFINE s == SampleSince(i, p, n, sig)
  <2>1. p # None /\ NextMarker(p) \in Int \cup {None}
    BY <1>4, MarkerType DEF RecordSample
  <2>2. CounterDelta(p.counter, n) \in 0..I64Max
    BY <1>0, <1>4, DeltaType
       DEF RecordSample, MayRecordExactSample, DeltaIsExact, BaselineType
  <2>3. s \in SampleType
    BY <1>0, <2>1, <2>2 DEF SampleSince, SampleType, BaselineType
  <2>4. s.iface = i /\ s.start = checkpoint[i].observed /\ s.end = obs.wall
    BY <1>0, <2>1 DEF SampleSince
  <2>5. checkpoint[i] # None /\ obs.wall > checkpoint[i].observed
    BY <1>0, <1>4, <2>1 DEF RecordSample
  <2>6. /\ samples' = samples \cup {s}
        /\ MovesCheckpoint(i, n, NextMarker(p))
        /\ UNCHANGED gaps
    BY <1>4, <2>5, FreshSample DEF RecordSample
  <2>7. ExtendsBySample(i, n, NextMarker(p))
    <3> HIDE DEF s
    <3> QED
      BY <2>3, <2>4, <2>5, <2>6 DEF ExtendsBySample
  <2> QED
    BY <1>4, <2>1, <2>7 DEF RecordSample, BaselineStep, TableStep
<1>5. CASE RecordGap(i, n, sig, forced, keep)
  <2> DEFINE g == Gap(i, p.observed, GapReason(p, n, sig, forced))
  <2>1. p # None /\ NextMarker(p) \in Int \cup {None}
    BY <1>5, MarkerType DEF RecordGap
  <2>2. g \in GapType
    BY <1>0, <2>1, GapReasonType DEF Gap, GapType, BaselineType
  <2>3. g.iface = i /\ g.start = checkpoint[i].observed /\ g.end = obs.wall
    BY <1>0, <2>1 DEF Gap
  <2>4. checkpoint[i] # None /\ obs.wall > checkpoint[i].observed
    BY <1>0, <1>5, <2>1 DEF RecordGap
  <2>5. /\ gaps' = gaps \cup {g}
        /\ MovesCheckpoint(i, n, NextMarker(p))
        /\ UNCHANGED samples
    BY <1>5, <2>4, FreshGap DEF RecordGap
  <2>6. ExtendsByGap(i, n, NextMarker(p))
    <3> HIDE DEF g
    <3> QED
      BY <2>2, <2>3, <2>4, <2>5 DEF ExtendsByGap
  <2> QED
    BY <1>5, <2>1, <2>6 DEF RecordGap, BaselineStep, TableStep
<1>6. CASE RefuseObservation(i, n, keep)
  BY <1>6 DEF RefuseObservation
<1> QED
  BY <1>1, <1>2, <1>3, <1>4, <1>5, <1>6 DEF PersistCounterObservation

-----------------------------------------------------------------------------
(* The baseline is the checkpoint.                                          *)

(* Forgetting baselines never separates the remaining ones from their       *)
(* checkpoints.                                                             *)
LEMMA RetainKeepsBaselines ==
    ASSUME BaselineIsCheckpoint, NEW keep, baselines' = Retain(keep), UNCHANGED checkpoint
    PROVE  BaselineIsCheckpoint'
  BY DEF BaselineIsCheckpoint, Retain

(* Persisting one observation moves baseline and checkpoint of the          *)
(* interface together.                                                      *)
LEMMA PersistKeepsBaselines ==
    ASSUME TypeOK, BaselineIsCheckpoint, obs # None,
           NEW i \in Interfaces, NEW n \in 0..U64Max,
           NEW sig \in SUBSET Wans, NEW forced \in BOOLEAN, NEW keep, NEW outcome,
           PersistCounterObservation(i, n, sig, forced, keep, outcome)
    PROVE  BaselineIsCheckpoint'
<1>1. CASE UNCHANGED dbVars /\ baselines' = Retain(keep)
  BY <1>1, RetainKeepsBaselines DEF dbVars
<1>2. ASSUME NEW m \in Int \cup {None}, BaselineStep(i, n, sig, m, keep),
             \/ TableStep(i, n, m)
             \/ UNCHANGED dbVars /\ checkpoint[i] = Checkpoint(n, m)
      PROVE  BaselineIsCheckpoint'
  <2> DEFINE b == BaselineFromObservation(n, sig, m)
             cp == Checkpoint(n, m)
  <2>1. checkpoint' = [checkpoint EXCEPT ![i] = cp]
    BY <1>2 DEF TableStep, Opens, ExtendsBySample, ExtendsByGap, MovesCheckpoint,
                dbVars, TypeOK, StoreTypeOK
  <2>2. baselines' = [Retain(keep) EXCEPT ![i] = b]
    BY <1>2 DEF BaselineStep, InsertBaseline
  <2>3. b.counter = cp.counter /\ b.observed = cp.observed /\ b.marker = cp.marker
    BY DEF BaselineFromObservation, Checkpoint
  <2>4. cp # None
    BY BaselineFieldsType, NoneIsNoRecord
  <2> HIDE DEF b, cp
  <2>5. ASSUME NEW j \in Interfaces, baselines'[j] # None
        PROVE  /\ checkpoint'[j] # None
               /\ baselines'[j].counter = checkpoint'[j].counter
               /\ baselines'[j].observed = checkpoint'[j].observed
               /\ baselines'[j].marker = checkpoint'[j].marker
    <3>1. CASE j = i
      BY <2>1, <2>2, <2>3, <2>4, <3>1 DEF Retain, TypeOK, StoreTypeOK
    <3>2. CASE j # i
      BY <2>1, <2>2, <2>5, <3>2 DEF Retain, TypeOK, StoreTypeOK, BaselineIsCheckpoint
    <3> QED
      BY <3>1, <3>2
  <2> QED
    BY <2>5 DEF BaselineIsCheckpoint
<1> QED
  BY <1>1, <1>2, PersistEffect

(* Every step of the system keeps the baselines equal to the checkpoints.   *)
LEMMA BaselineStepInductive ==
    ASSUME TypeOK, BaselineIsCheckpoint, [Next]_vars
    PROVE  BaselineIsCheckpoint'
<1>1. CASE WorldNext \/ UNCHANGED vars
  BY <1>1 DEF WorldNext, vars, dbVars, BaselineIsCheckpoint
<1>2. CASE FetchNext
  BY <1>2, FetchFrame DEF dbVars, BaselineIsCheckpoint
<1>8. ASSUME NEW names \in SUBSET Wans, StartPersisting(names) PROVE BaselineIsCheckpoint'
  BY <1>8 DEF StartPersisting, dbVars, BaselineIsCheckpoint
<1>3. CASE FailPoll \/ LoseScope \/ Restart
  BY <1>3 DEF FailPoll, LoseScope, Restart, dbVars, BaselineIsCheckpoint
<1>4. ASSUME NEW w \in Wans, SkipMember(w) \/ DropMember(w) PROVE BaselineIsCheckpoint'
  BY <1>4 DEF SkipMember, DropMember, dbVars, BaselineIsCheckpoint, TypeOK, StoreTypeOK
<1>5. ASSUME NEW w \in Wans, PersistMember(w) PROVE BaselineIsCheckpoint'
  <2>1. PICK outcome \in Outcomes :
          PersistCounterObservation(w, obs.counter[w], {}, FALSE, Interfaces, outcome)
    BY <1>5 DEF PersistMember
  <2>2. obs # None /\ obs.counter[w] \in 0..U64Max /\ w \in Interfaces
    BY <1>5, MemberCounter DEF PersistMember
  <2>3. {} \in SUBSET Wans /\ FALSE \in BOOLEAN
    OBVIOUS
  <2> QED
    BY <2>1, <2>2, <2>3, PersistKeepsBaselines
<1>6. CASE PersistAggregate
  <2>1. /\ obs # None
        /\ sum \in 0..U64Max
        /\ members \in SUBSET Wans
        /\ (~continuous) \in BOOLEAN
        /\ Aggregate \in Interfaces
    BY <1>6, Zenon DEF PersistAggregate, TypeOK, PollTypeOK, Interfaces
  <2> QED
    BY <1>6, <2>1, PersistKeepsBaselines DEF PersistAggregate
<1>7. CASE DropAggregate
  BY <1>7, RetainKeepsBaselines DEF DropAggregate, dbVars
<1> QED
  BY <1>1, <1>2, <1>3, <1>4, <1>5, <1>6, <1>7, <1>8 DEF Next, PollerNext, FetchNext

(* Whatever fails, restarts or is dropped, the volatile baseline of an      *)
(* interface is its durable checkpoint.                                     *)
THEOREM BaselineMatchesCheckpoint == Spec => []BaselineIsCheckpoint
<1>1. Init => BaselineIsCheckpoint
  BY DEF Init, PollerInit, BaselineIsCheckpoint
<1>2. TypeOK /\ BaselineIsCheckpoint /\ [Next]_vars => BaselineIsCheckpoint'
  BY BaselineStepInductive
<1> QED
  BY <1>1, <1>2, TypeCorrect, PTL DEF Spec

-----------------------------------------------------------------------------
(* The tables implement the ledger.                                         *)

(* A stored sample is one exact entry of the ledger.                        *)
LEMMA SampleEntry ==
    ASSUME NEW s, samples' = samples \cup {s}, UNCHANGED gaps
    PROVE  Entries' = Entries \cup
             {[iface |-> s.iface, start |-> s.start, end |-> s.end, exact |-> TRUE]}
  BY DEF Entries

(* A stored gap is one inexact entry of the ledger.                         *)
LEMMA GapEntry ==
    ASSUME NEW g, gaps' = gaps \cup {g}, UNCHANGED samples
    PROVE  Entries' = Entries \cup
             {[iface |-> g.iface, start |-> g.start, end |-> g.end, exact |-> FALSE]}
  BY DEF Entries

(* A committed transaction opens one ledger or extends it from its          *)
(* frontier.                                                                *)
LEMMA TableStepIsLedgerStep ==
    ASSUME TypeOK, obs # None, NEW i \in Interfaces, NEW n \in 0..U64Max,
           NEW m \in Int \cup {None}, TableStep(i, n, m)
    PROVE  Ledger!LedgerNext
<1>1. /\ obs.wall \in Int
      /\ Checkpoint(n, m) \in CheckpointType
      /\ Checkpoint(n, m).observed = obs.wall
      /\ Checkpoint(n, m) # None
  BY NoneIsNoRecord DEF TypeOK, PollTypeOK, ObservationType, Checkpoint, CheckpointType
<1>2. /\ Frontier' = [Frontier EXCEPT ![i] = obs.wall]
      /\ Frontier'[i] = obs.wall
      /\ checkpoint[i] = None => Frontier[i] = None
      /\ checkpoint[i] # None => Frontier[i] = checkpoint[i].observed
  BY <1>1 DEF TableStep, Opens, ExtendsBySample, ExtendsByGap, MovesCheckpoint,
              Frontier, TypeOK, StoreTypeOK
<1>3. CASE Opens(i, n, m)
  <2>1. Frontier[i] \notin Int
    BY <1>2, <1>3, CounterConstants DEF Opens
  <2>2. Entries' = Entries
    BY <1>3 DEF Opens, Entries
  <2>3. Ledger!Open(i, Frontier'[i])
    BY <1>1, <1>2, <2>1, <2>2 DEF Ledger!Open
  <2> QED
    BY <2>3 DEF Ledger!LedgerNext
<1>4. CASE ExtendsBySample(i, n, m)
  <2>1. Frontier[i] \in Int /\ Frontier'[i] > Frontier[i]
    BY <1>1, <1>2, <1>4 DEF ExtendsBySample, TypeOK, StoreTypeOK, CheckpointType
  <2>2. Entries' = Entries \cup
          {[iface |-> i, start |-> Frontier[i], end |-> Frontier'[i], exact |-> TRUE]}
    BY <1>2, <1>4, SampleEntry DEF ExtendsBySample
  <2>3. Ledger!Extend(i, Frontier'[i], TRUE)
    BY <1>1, <1>2, <2>1, <2>2 DEF Ledger!Extend
  <2> QED
    BY <2>3 DEF Ledger!LedgerNext
<1>5. CASE ExtendsByGap(i, n, m)
  <2>1. Frontier[i] \in Int /\ Frontier'[i] > Frontier[i]
    BY <1>1, <1>2, <1>5 DEF ExtendsByGap, TypeOK, StoreTypeOK, CheckpointType
  <2>2. Entries' = Entries \cup
          {[iface |-> i, start |-> Frontier[i], end |-> Frontier'[i], exact |-> FALSE]}
    BY <1>2, <1>5, GapEntry DEF ExtendsByGap
  <2>3. Ledger!Extend(i, Frontier'[i], FALSE)
    BY <1>1, <1>2, <2>1, <2>2 DEF Ledger!Extend
  <2> QED
    BY <2>3 DEF Ledger!LedgerNext
<1> QED
  BY <1>3, <1>4, <1>5 DEF TableStep

(* A rolled back transaction is a stuttering step of the ledger.            *)
LEMMA UnchangedTables ==
    ASSUME UNCHANGED dbVars PROVE UNCHANGED <<Frontier, Entries>>
  BY DEF dbVars, Frontier, Entries

(* However persist_counter_observation returns, it is a ledger step or a    *)
(* stutter.                                                                 *)
LEMMA PersistIsLedgerStep ==
    ASSUME TypeOK, BaselineIsCheckpoint, obs # None,
           NEW i \in Interfaces, NEW n \in 0..U64Max,
           NEW sig \in SUBSET Wans, NEW forced \in BOOLEAN, NEW keep, NEW outcome,
           PersistCounterObservation(i, n, sig, forced, keep, outcome)
    PROVE  Ledger!LedgerNext \/ UNCHANGED <<Frontier, Entries>>
  BY PersistEffect, TableStepIsLedgerStep, UnchangedTables

(* Every step of the system is a ledger step or a stutter.                  *)
LEMMA StepIsLedgerStep ==
    ASSUME TypeOK, BaselineIsCheckpoint, [Next]_vars
    PROVE  Ledger!LedgerNext \/ UNCHANGED <<Frontier, Entries>>
<1>1. CASE UNCHANGED dbVars
  BY <1>1, UnchangedTables
<1>2. ASSUME NEW w \in Wans, PersistMember(w)
      PROVE  Ledger!LedgerNext \/ UNCHANGED <<Frontier, Entries>>
  <2>1. PICK outcome \in Outcomes :
          PersistCounterObservation(w, obs.counter[w], {}, FALSE, Interfaces, outcome)
    BY <1>2 DEF PersistMember
  <2>2. obs # None /\ obs.counter[w] \in 0..U64Max /\ w \in Interfaces
    BY <1>2, MemberCounter DEF PersistMember
  <2>3. {} \in SUBSET Wans /\ FALSE \in BOOLEAN
    OBVIOUS
  <2> QED
    BY <2>1, <2>2, <2>3, PersistIsLedgerStep
<1>3. CASE PersistAggregate
  <2>1. /\ obs # None
        /\ sum \in 0..U64Max
        /\ members \in SUBSET Wans
        /\ (~continuous) \in BOOLEAN
        /\ Aggregate \in Interfaces
    BY <1>3, Zenon DEF PersistAggregate, TypeOK, PollTypeOK, Interfaces
  <2> QED
    BY <1>3, <2>1, PersistIsLedgerStep DEF PersistAggregate
<1>4. \/ UNCHANGED dbVars
      \/ \E w \in Wans : PersistMember(w)
      \/ PersistAggregate
  BY FetchFrame DEF Next, WorldNext, PollerNext, FetchNext, StartPersisting, FailPoll,
     LoseScope, SkipMember, DropMember, DropAggregate, Restart, vars
<1> QED
  BY <1>1, <1>2, <1>3, <1>4

(* Exact traffic persistence implements the abstract ledger.                *)
THEOREM PersistenceImplementsLedger == Spec => ImplementsLedger
<1>1. Init => Ledger!LedgerInit
  BY DEF Init, DatabaseInit, Ledger!LedgerInit, Frontier, Entries
<1>2. TypeOK /\ BaselineIsCheckpoint /\ [Next]_vars
        => [Ledger!LedgerNext]_(Ledger!ledgerVars)
  BY StepIsLedgerStep DEF Ledger!ledgerVars
<1> QED
  BY <1>1, <1>2, TypeCorrect, BaselineMatchesCheckpoint, PTL
     DEF Spec, ImplementsLedger, Ledger!LedgerSpec

(* The ledger is typed and accounts for every instant at most once.         *)
LedgerInv ==
    /\ Ledger!LedgerTypeOK
    /\ Ledger!EntriesBehindFrontier
    /\ Ledger!NoDoubleCounting
    /\ Ledger!NoSilentHole

(* No ledger step forgets, overlaps or skips an interval: the inductive     *)
(* step behind the tiling of samples and gaps.                              *)
LEMMA LedgerStep == LedgerInv /\ [Ledger!LedgerNext]_(Ledger!ledgerVars) => LedgerInv'
<1> SUFFICES ASSUME LedgerInv, [Ledger!LedgerNext]_(Ledger!ledgerVars) PROVE LedgerInv'
  OBVIOUS
<1>1. CASE UNCHANGED Ledger!ledgerVars
  BY <1>1 DEF LedgerInv, Ledger!ledgerVars, Ledger!LedgerTypeOK, Ledger!EntriesBehindFrontier,
              Ledger!NoDoubleCounting, Ledger!NoSilentHole
<1>2. ASSUME NEW i \in Interfaces, Ledger!Open(i, Frontier'[i]) PROVE LedgerInv'
  <2>1. \A e \in Entries : e.iface # i
    BY <1>2 DEF LedgerInv, Ledger!Open, Ledger!EntriesBehindFrontier
  <2>2. \A e \in Entries : Frontier'[e.iface] = Frontier[e.iface]
    BY <1>2, <2>1 DEF LedgerInv, Ledger!LedgerTypeOK, Ledger!Open, Ledger!Entry
  <2> QED
    BY <1>2, <2>2 DEF LedgerInv, Ledger!LedgerTypeOK, Ledger!Open, Ledger!EntriesBehindFrontier,
                      Ledger!NoDoubleCounting, Ledger!NoSilentHole
<1>3. ASSUME NEW i \in Interfaces, NEW exact \in BOOLEAN,
             Ledger!Extend(i, Frontier'[i], exact)
      PROVE  LedgerInv'
  <2> DEFINE n == [iface |-> i, start |-> Frontier[i], end |-> Frontier'[i], exact |-> exact]
  <2>1. /\ Entries' = Entries \cup {n}
        /\ n \in Ledger!Entry
        /\ Frontier[i] \in Int
        /\ Frontier'[i] \in Int
        /\ Frontier[i] < Frontier'[i]
        /\ \A j \in Interfaces : j # i => Frontier'[j] = Frontier[j]
        /\ Frontier' \in [Interfaces -> Int \cup {None}]
    BY <1>3 DEF LedgerInv, Ledger!LedgerTypeOK, Ledger!Extend, Ledger!Entry
  <2>2. /\ n.iface = i
        /\ n.start = Frontier[i]
        /\ n.end = Frontier'[i]
    OBVIOUS
  <2>3. Entries \subseteq Ledger!Entry /\ Ledger!EntriesBehindFrontier /\ Ledger!NoDoubleCounting /\ Ledger!NoSilentHole
    BY DEF LedgerInv, Ledger!LedgerTypeOK
  <2> HIDE DEF n
  <2>4. Ledger!LedgerTypeOK'
    BY <2>1, <2>3 DEF Ledger!LedgerTypeOK
  <2>5. Ledger!EntriesBehindFrontier'
    BY <2>1, <2>2, <2>3 DEF Ledger!EntriesBehindFrontier, Ledger!Entry
  <2>6. Ledger!NoDoubleCounting'
    BY <2>1, <2>2, <2>3 DEF Ledger!EntriesBehindFrontier, Ledger!NoDoubleCounting, Ledger!Entry
  <2>7. Ledger!NoSilentHole'
    <3>1. ASSUME NEW e \in Entries'
          PROVE  \/ e.end = Frontier'[e.iface]
                 \/ \E f \in Entries' : f.iface = e.iface /\ f.start = e.end
      <4>1. CASE e = n
        BY <4>1, <2>2
      <4>2. CASE e \in Entries /\ e.end = Frontier[e.iface] /\ e.iface = i
        BY <4>2, <2>1, <2>2
      <4>3. CASE e \in Entries /\ e.end = Frontier[e.iface] /\ e.iface # i
        BY <4>3, <2>1, <2>3 DEF Ledger!Entry
      <4>4. CASE e \in Entries /\ e.end # Frontier[e.iface]
        BY <4>4, <2>1, <2>3 DEF Ledger!NoSilentHole
      <4> QED
        BY <2>1, <3>1, <4>1, <4>2, <4>3, <4>4
    <3> QED
      BY <3>1 DEF Ledger!NoSilentHole
  <2> QED
    BY <2>4, <2>5, <2>6, <2>7 DEF LedgerInv
<1> QED
  BY <1>1, <1>2, <1>3 DEF Ledger!LedgerNext

(* Every behaviour of the ledger accounts for every instant exactly once:   *)
(* what LedgerSpec promises is what SamplesAndGapsTile says of the tables.  *)
THEOREM LedgerTiles == Ledger!LedgerSpec => []SamplesAndGapsTile
<1>1. Ledger!LedgerInit => LedgerInv
  BY DEF Ledger!LedgerInit, LedgerInv, Ledger!LedgerTypeOK, Ledger!EntriesBehindFrontier,
         Ledger!NoDoubleCounting, Ledger!NoSilentHole
<1>2. LedgerInv => SamplesAndGapsTile
  BY DEF LedgerInv, SamplesAndGapsTile
<1> QED
  BY <1>1, <1>2, LedgerStep, PTL DEF Ledger!LedgerSpec

(* Samples and gaps of every interface tile the time between its first and  *)
(* its last checkpoint, because persistence implements the ledger.          *)
THEOREM TablesTile == Spec => []SamplesAndGapsTile
  BY PersistenceImplementsLedger, LedgerTiles, PTL DEF ImplementsLedger

-----------------------------------------------------------------------------
(* What a fetch, an observation and a baseline say about the world.  Each   *)
(* remembers at which instant the router was asked for its uptime, how long *)
(* it had been up then and how often it had booted.                         *)

(* If the router booted between two such instants, it was away for RebootMs *)
(* and has been up ever since.                                              *)
Precedes(at1, boots1, at2, up2, boots2) ==
    /\ boots1 <= boots2
    /\ boots1 # boots2 => up2 + RebootMs <= at2 - at1

BeforeNow(at, bootsThen) ==
    /\ at <= mono
    /\ Precedes(at, bootsThen, mono, Uptime, boots)

(* The uptime and the counters of one poll come from the same boot, unless  *)
(* the router was away and back within one request.                         *)
Straddles(up, upBoots, counterBoots) ==
    /\ upBoots # counterBoots => RebootMs <= RequestMs
    /\ counterBoots < upBoots => up + RebootMs <= RequestMs

(* An instant between sending the requests and their timeout.               *)
Fetched(at) == asked <= at /\ at <= asked + RequestMs /\ at <= mono

FetchIsTrue ==
    /\ bootedAt <= mono
    /\ pc # "fetching" => system = None /\ reading = None /\ sampleTime = None
    /\ pc = "fetching" => asked <= mono
    /\ system # None =>
         /\ Fetched(system.at)
         /\ BeforeNow(system.at, system.boots)
         /\ system.up >= 0
         /\ system.uptime = None \/ system.uptime = system.up \div 1000
    /\ reading # None =>
         /\ Fetched(reading.at)
         /\ BeforeNow(reading.at, reading.boots)
    /\ sampleTime # None => Fetched(sampleTime.mono)
    /\ system # None /\ reading # None => Straddles(system.up, system.boots, reading.boots)

(* An observation, or the baseline taken from it: its uptime and its        *)
(* counters were fetched within one timeout, by this process.               *)
IsPast(o, observed) ==
    /\ o.truth.incarnation = incarnation
    /\ o.mono = o.truth.mono
    /\ o.mono <= mono
    /\ o.mono - o.upAt <= RequestMs
    /\ o.upAt - o.mono <= RequestMs
    /\ o.uptime = None \/ o.uptime = o.truth.up \div 1000
    /\ o.bootEpoch = EstimatedBootEpoch(observed, o.uptime)
    /\ o.truth.boots <= boots
    /\ BeforeNow(o.upAt, o.truth.upBoots)
    /\ Straddles(o.truth.up, o.truth.upBoots, o.truth.boots)

(* A baseline is older than what the running poll fetched.                  *)
BeforeFetch(b) ==
    /\ system # None =>
         Precedes(b.upAt, b.truth.upBoots, system.at, system.up, system.boots)
    /\ reading # None => b.truth.boots <= reading.boots
    /\ pc = "members" =>
         /\ Precedes(b.upAt, b.truth.upBoots, obs.upAt, obs.truth.up, obs.truth.upBoots)
         /\ b.truth.boots <= obs.truth.boots

ObservationIsPast == pc = "members" => IsPast(obs, obs.wall)

BaselinesArePast ==
    \A i \in Interfaces : baselines[i] # None =>
        IsPast(baselines[i], baselines[i].observed) /\ BeforeFetch(baselines[i])

SamplesAreHonest == ExactWithinOneProcess /\ RebootHiddenOnlyBelowTolerance

TruthInv == FetchIsTrue /\ ObservationIsPast /\ BaselinesArePast /\ SamplesAreHonest

(* The bound on a hidden reboot, for one sample.                            *)
WithinTolerance(from, to) ==
    from.boots # to.boots =>
        \/ from.up + RebootMs
              < 7000 + 250 + 2 * RequestMs + (to.mono - from.mono) \div 100
        \/ RebootMs <= RequestMs /\ to.upBoots # to.boots

(* Boot epochs within 5 s: the wall clock advanced at most 7 s more than    *)
(* the uptime.                                                              *)
LEMMA EpochArithmetic ==
    ASSUME NEW O \in Int, NEW W \in Int, NEW u \in Int, NEW v \in Int,
           AbsDiff(O \div 1000 - u \div 1000, W \div 1000 - v \div 1000) <= 5
    PROVE  (W - O) - (v - u) < 7000
  BY DEF AbsDiff

(* A distance bounds the difference from both sides.                        *)
LEMMA DistanceBounds ==
    ASSUME NEW a \in Int, NEW b \in Int, NEW c \in Int, AbsDiff(a, b) <= c
    PROVE  b - a <= c /\ a - b <= c
  BY DEF AbsDiff

(* A sample that passes the conditions of engine.rs 1295-1331 hides a       *)
(* reboot only within the tolerances.                                       *)
LEMMA SampleIsHonest ==
    ASSUME TypeOK, TruthInv, pc = "members", NEW i \in Interfaces,
           NEW n \in 0..U64Max, NEW sig \in SUBSET Wans, NEW forced \in BOOLEAN,
           baselines[i] # None, MayRecordExactSample(baselines[i], n, sig, forced),
           NEW s, s = SampleSince(i, baselines[i], n, sig)
    PROVE  /\ s.from.incarnation = s.to.incarnation
           /\ WithinTolerance(s.from, s.to)
<1> DEFINE p == baselines[i]
<1>1. /\ s.from = p.truth
      /\ s.to = obs.truth
  BY DEF SampleSince
<1>2. /\ IsPast(p, p.observed)
      /\ IsPast(obs, obs.wall)
      /\ Precedes(p.upAt, p.truth.upBoots, obs.upAt, obs.truth.up, obs.truth.upBoots)
      /\ p.truth.boots <= obs.truth.boots
  BY DEF TruthInv, BaselinesArePast, ObservationIsPast, BeforeFetch
<1>3. s.from.incarnation = s.to.incarnation
  BY <1>1, <1>2 DEF IsPast
<1>4. ASSUME p.truth.boots # obs.truth.boots
      PROVE  WithinTolerance(p.truth, obs.truth)
  <2>1. /\ p \in BaselineType
        /\ obs \in ObservationType
    BY DEF TypeOK, StoreTypeOK, PollTypeOK
  <2>2. /\ p.truth.up \in Int /\ obs.truth.up \in Int
        /\ p.truth.boots \in Int /\ obs.truth.boots \in Int
        /\ p.truth.upBoots \in Int /\ obs.truth.upBoots \in Int
        /\ p.mono \in Int /\ obs.mono \in Int
        /\ p.upAt \in Int /\ obs.upAt \in Int
        /\ p.observed \in Int /\ obs.wall \in Int
        /\ RebootMs \in Int /\ RequestMs \in Nat
    BY <2>1, CounterConstants DEF BaselineType, ObservationType, TruthType
  <2>3. /\ p.mono = p.truth.mono /\ obs.mono = obs.truth.mono
        /\ p.mono - p.upAt <= RequestMs /\ p.upAt - p.mono <= RequestMs
        /\ obs.mono - obs.upAt <= RequestMs /\ obs.upAt - obs.mono <= RequestMs
    BY <1>2 DEF IsPast
  <2>4. /\ obs.mono - p.mono > 0
        /\ AbsDiff(obs.wall - p.observed, obs.mono - p.mono)
             <= 250 + (obs.mono - p.mono) \div 100
    BY DEF MayRecordExactSample, ClockConsistent, SamplingClocksAreConsistent
  <2>5. CASE obs.truth.upBoots # obs.truth.boots
    BY <1>2, <2>5 DEF IsPast, Straddles, WithinTolerance
  <2>6. CASE obs.truth.upBoots = obs.truth.boots /\ p.truth.upBoots = obs.truth.upBoots
    <3>0. p.truth.boots < p.truth.upBoots
      BY <1>2, <1>4, <2>2, <2>6
    <3>1. p.truth.up + RebootMs <= RequestMs
      BY <1>2, <3>0 DEF IsPast, Straddles
    <3>2. (obs.mono - p.mono) \div 100 >= 0
      BY <2>2, <2>4
    <3>3. p.truth.up + RebootMs
             < 7000 + 250 + 2 * RequestMs + (obs.mono - p.mono) \div 100
      BY <2>2, <3>1, <3>2
    <3>4. p.truth.up + RebootMs
             < 7000 + 250 + 2 * RequestMs + (obs.truth.mono - p.truth.mono) \div 100
      BY <2>3, <3>3
    <3> QED
      BY <3>4 DEF WithinTolerance
  <2>7. CASE p.truth.upBoots # obs.truth.upBoots
    <3>1. obs.truth.up + RebootMs <= obs.upAt - p.upAt
      BY <1>2, <2>7 DEF Precedes
    <3>2. /\ p.uptime = p.truth.up \div 1000
          /\ obs.uptime = obs.truth.up \div 1000
          /\ p.uptime # None /\ obs.uptime # None
      BY <1>2 DEF MayRecordExactSample, UptimeContinuous, IsPast
    <3>3. /\ p.bootEpoch = p.observed \div 1000 - p.truth.up \div 1000
          /\ obs.bootEpoch = obs.wall \div 1000 - obs.truth.up \div 1000
      BY <1>2, <3>2 DEF EstimatedBootEpoch, IsPast
    <3>4. p.bootEpoch \in Int /\ obs.bootEpoch \in Int
      BY <2>2, <3>3
    <3>5. ~(AbsDiff(p.bootEpoch, obs.bootEpoch) > 5)
      BY <3>4, CounterConstants DEF MayRecordExactSample, Rebooted
    <3>6. AbsDiff(p.bootEpoch, obs.bootEpoch) <= 5
      BY <3>4, <3>5 DEF AbsDiff
    <3>7. AbsDiff(p.observed \div 1000 - p.truth.up \div 1000,
                  obs.wall \div 1000 - obs.truth.up \div 1000) <= 5
      BY <3>3, <3>6
    <3>8. p.truth.up + RebootMs
             < 7000 + 250 + 2 * RequestMs + (obs.mono - p.mono) \div 100
      <4>1. (obs.wall - p.observed) - (obs.truth.up - p.truth.up) < 7000
        BY <2>2, <3>7, EpochArithmetic
      <4>2. (obs.mono - p.mono) - (obs.wall - p.observed)
               <= 250 + (obs.mono - p.mono) \div 100
        BY <2>2, <2>4, DistanceBounds
      <4>3. obs.upAt - p.upAt <= (obs.mono - p.mono) + 2 * RequestMs
        BY <2>2, <2>3
      <4> DEFINE percent == (obs.mono - p.mono) \div 100
      <4>4. percent \in Int
        BY <2>2
      <4> HIDE DEF p, percent
      <4> QED
        BY <2>2, <3>1, <4>1, <4>2, <4>3, <4>4 DEF percent
    <3>9. p.truth.up + RebootMs
             < 7000 + 250 + 2 * RequestMs + (obs.truth.mono - p.truth.mono) \div 100
      BY <2>3, <3>8
    <3> QED
      BY <3>9 DEF WithinTolerance
  <2> QED
    BY <2>5, <2>6, <2>7
<1> QED
  BY <1>1, <1>3, <1>4 DEF WithinTolerance

(* persist_counter_observation adds at most the sample it has just judged   *)
(* exact.                                                                   *)
LEMMA PersistSamples ==
    ASSUME NEW i, NEW n, NEW sig, NEW forced, NEW keep, NEW outcome,
           PersistCounterObservation(i, n, sig, forced, keep, outcome)
    PROVE  \/ samples' = samples
           \/ /\ baselines[i] # None
              /\ MayRecordExactSample(baselines[i], n, sig, forced)
              /\ samples' = samples \cup {SampleSince(i, baselines[i], n, sig)}
  BY DEF PersistCounterObservation, FirstObservation, InitializeCheckpointIfAbsent,
         RepeatedObservation, ResumeAfterDiscontinuity, RecordSample, RecordGap,
         RefuseObservation, CommitSampleAndCheckpoint, CommitGapAndCheckpoint, dbVars

(* persist_counter_observation keeps a baseline, forgets it, or takes it    *)
(* from this observation.                                                   *)
LEMMA PersistBaselines ==
    ASSUME NEW i, NEW n, NEW sig, NEW forced, NEW keep, NEW outcome,
           PersistCounterObservation(i, n, sig, forced, keep, outcome)
    PROVE  \/ baselines' = Retain(keep)
           \/ \E m : BaselineStep(i, n, sig, m, keep)
  BY DEF PersistCounterObservation, FirstObservation, RepeatedObservation,
         ResumeAfterDiscontinuity, RecordSample, RecordGap, RefuseObservation, BaselineStep

(* A baseline taken from the observation describes the past as faithfully,  *)
(* and is not younger than the observation.                                 *)
LEMMA NewBaselineIsPast ==
    ASSUME TypeOK, TruthInv, pc = "members", NEW n, NEW sig, NEW m
    PROVE  LET b == BaselineFromObservation(n, sig, m)
           IN  IsPast(b, b.observed) /\ BeforeFetch(b)
<1> DEFINE b == BaselineFromObservation(n, sig, m)
<1>1. /\ b.truth = obs.truth
      /\ b.mono = obs.mono
      /\ b.observed = obs.wall
      /\ b.uptime = obs.uptime
      /\ b.bootEpoch = obs.bootEpoch
      /\ b.upAt = obs.upAt
  BY DEF BaselineFromObservation
<1>2. IsPast(obs, obs.wall) /\ system = None /\ reading = None
  BY DEF TruthInv, ObservationIsPast, FetchIsTrue
<1>3. obs.truth.boots \in Nat /\ obs.truth.upBoots \in Nat
  BY DEF TypeOK, PollTypeOK, ObservationType, TruthType
<1> HIDE DEF b
<1>4. IsPast(b, b.observed)
  BY <1>1, <1>2 DEF IsPast
<1>5. BeforeFetch(b)
  BY <1>1, <1>2, <1>3 DEF BeforeFetch, Precedes
<1> QED
  BY <1>4, <1>5 DEF b

(* What has been recorded only depends on clocks, boots, incarnation and    *)
(* what the poll holds.                                                     *)
LEMMA SameMoment ==
    ASSUME NEW b, NEW observed, UNCHANGED <<worldVars, incarnation, system, reading, pc, obs>>
    PROVE  /\ IsPast(b, observed) => IsPast(b, observed)'
           /\ BeforeFetch(b) => BeforeFetch(b)'
  BY DEF IsPast, BeforeFetch, BeforeNow, Precedes, Straddles, Uptime, worldVars,
         EstimatedBootEpoch

(* The same when the poll ends: only the past is left to describe.          *)
LEMMA PollOver ==
    ASSUME NEW b, NEW observed, UNCHANGED <<worldVars, incarnation>>,
           pc' = "idle", system' = None, reading' = None
    PROVE  /\ IsPast(b, observed) => IsPast(b, observed)'
           /\ BeforeFetch(b)'
  BY DEF IsPast, BeforeFetch, BeforeNow, Precedes, Straddles, Uptime, worldVars,
         EstimatedBootEpoch

(* A committed or refused observation adds only honest samples.             *)
LEMMA PersistedSamplesAreHonest ==
    ASSUME TypeOK, TruthInv, pc = "members", NEW i \in Interfaces, NEW n \in 0..U64Max,
           NEW sig \in SUBSET Wans, NEW forced \in BOOLEAN, NEW keep, NEW outcome,
           PersistCounterObservation(i, n, sig, forced, keep, outcome)
    PROVE  SamplesAreHonest'
<1>1. CASE samples' = samples
  BY <1>1 DEF TruthInv, SamplesAreHonest, ExactWithinOneProcess,
              RebootHiddenOnlyBelowTolerance
<1>2. CASE /\ baselines[i] # None
           /\ MayRecordExactSample(baselines[i], n, sig, forced)
           /\ samples' = samples \cup {SampleSince(i, baselines[i], n, sig)}
  <2> DEFINE s == SampleSince(i, baselines[i], n, sig)
  <2>1. s.from.incarnation = s.to.incarnation /\ WithinTolerance(s.from, s.to)
    BY <1>2, SampleIsHonest
  <2> HIDE DEF s
  <2> QED
    BY <1>2, <2>1 DEF s, TruthInv, SamplesAreHonest, ExactWithinOneProcess,
                      RebootHiddenOnlyBelowTolerance, WithinTolerance
<1> QED
  BY <1>1, <1>2, PersistSamples

(* A committed or refused observation leaves only baselines of the past.    *)
LEMMA PersistedBaselinesArePast ==
    ASSUME TypeOK, TruthInv, pc = "members", NEW i \in Interfaces, NEW n \in 0..U64Max,
           NEW sig \in SUBSET Wans, NEW forced \in BOOLEAN, NEW keep, NEW outcome,
           PersistCounterObservation(i, n, sig, forced, keep, outcome),
           NEW j \in Interfaces, baselines'[j] # None
    PROVE  IsPast(baselines'[j], baselines'[j].observed) /\ BeforeFetch(baselines'[j])
<1>1. CASE baselines' = Retain(keep)
  BY <1>1 DEF Retain, TruthInv, BaselinesArePast
<1>2. ASSUME NEW m, BaselineStep(i, n, sig, m, keep)
      PROVE  IsPast(baselines'[j], baselines'[j].observed) /\ BeforeFetch(baselines'[j])
  <2> DEFINE b == BaselineFromObservation(n, sig, m)
  <2>1. IsPast(b, b.observed) /\ BeforeFetch(b)
    BY NewBaselineIsPast
  <2>2. baselines' = [Retain(keep) EXCEPT ![i] = b]
    BY <1>2 DEF BaselineStep, InsertBaseline
  <2> HIDE DEF b
  <2> QED
    BY <2>1, <2>2 DEF Retain, TruthInv, BaselinesArePast
<1> QED
  BY <1>1, <1>2, PersistBaselines

(* The world moves on: an instant of the past stays one, and a reboot keeps *)
(* the router away for RebootMs.                                            *)
LEMMA WorldMovesOn ==
    ASSUME TypeOK, bootedAt <= mono, WorldNext
    PROVE  /\ mono <= mono'
           /\ boots <= boots'
           /\ bootedAt' <= mono'
           /\ \A at \in Int, b \in Nat : BeforeNow(at, b) => BeforeNow(at, b)'
<1>1. /\ mono \in Int /\ bootedAt \in Int /\ boots \in Nat
      /\ TickMs \in Nat /\ RebootMs \in Nat
  BY CounterConstants DEF TypeOK, WorldTypeOK
<1>2. \/ Tick
      \/ Reboot
      \/ UNCHANGED <<mono, bootedAt, boots>>
  BY DEF WorldNext, ResetCounter, StepClock
<1>3. CASE Tick
  BY <1>1, <1>3 DEF Tick, BeforeNow, Precedes, Uptime
<1>4. CASE Reboot
  BY <1>1, <1>4 DEF Reboot, BeforeNow, Precedes, Uptime
<1>5. CASE UNCHANGED <<mono, bootedAt, boots>>
  BY <1>1, <1>5 DEF BeforeNow, Precedes, Uptime
<1> QED
  BY <1>2, <1>3, <1>4, <1>5

(* Traffic, reboots, resets and clock steps do not falsify what was         *)
(* recorded.                                                                *)
LEMMA WorldKeepsTruth == ASSUME TypeOK, TruthInv, WorldNext PROVE TruthInv'
<1>1. /\ pc # "members"
      /\ UNCHANGED <<incarnation, baselines, pollVars, dbVars>>
  BY DEF WorldNext
<1>2. /\ mono <= mono'
      /\ boots <= boots'
      /\ bootedAt' <= mono'
      /\ \A at \in Int, b \in Nat : BeforeNow(at, b) => BeforeNow(at, b)'
      /\ mono \in Int /\ mono' \in Int /\ boots \in Nat /\ boots' \in Nat
  BY WorldMovesOn, WorldType DEF TruthInv, FetchIsTrue, TypeOK, WorldTypeOK
<1>3. FetchIsTrue'
  <2>1. UNCHANGED <<asked, system, reading, sampleTime, pc>>
    BY <1>1 DEF pollVars, fetchVars
  <2>2. \A at \in Int : Fetched(at) => Fetched(at)'
    BY <1>2, <2>1 DEF Fetched
  <2>3. pc = "fetching" => asked \in Int /\ asked <= mono'
    BY <1>2 DEF TruthInv, FetchIsTrue, TypeOK, PollTypeOK
  <2>4. /\ system # None => system.at \in Int /\ system.boots \in Nat
        /\ reading # None => reading.at \in Int /\ reading.boots \in Nat
        /\ sampleTime # None => sampleTime.mono \in Int
    BY DEF TypeOK, PollTypeOK, SystemType, ReadingType, SampleTimeType
  <2>5. /\ system # None => Fetched(system.at)' /\ BeforeNow(system.at, system.boots)'
        /\ reading # None => Fetched(reading.at)' /\ BeforeNow(reading.at, reading.boots)'
        /\ sampleTime # None => Fetched(sampleTime.mono)'
    BY <1>2, <2>1, <2>2, <2>4 DEF TruthInv, FetchIsTrue
  <2> QED
    BY <1>2, <2>1, <2>3, <2>5 DEF TruthInv, FetchIsTrue, Straddles
<1>4. ObservationIsPast' /\ SamplesAreHonest'
  BY <1>1 DEF pollVars, dbVars, ObservationIsPast, TruthInv, SamplesAreHonest,
              ExactWithinOneProcess, RebootHiddenOnlyBelowTolerance
<1>5. ASSUME NEW i \in Interfaces, baselines[i] # None
      PROVE  (IsPast(baselines[i], baselines[i].observed) /\ BeforeFetch(baselines[i]))'
  <2> DEFINE b == baselines[i]
  <2>1. /\ IsPast(b, b.observed)
        /\ BeforeFetch(b)
        /\ b.mono \in Int
        /\ b.upAt \in Int
        /\ b.truth.boots \in Nat
        /\ b.truth.upBoots \in Nat
    BY <1>5 DEF TruthInv, BaselinesArePast, TypeOK, StoreTypeOK, BaselineType, TruthType
  <2>2. UNCHANGED <<baselines, incarnation, system, reading, pc>>
    BY <1>1 DEF pollVars, fetchVars
  <2>3. BeforeNow(b.upAt, b.truth.upBoots)'
    BY <1>2, <2>1, <2>2 DEF IsPast
  <2>4. b.mono <= mono' /\ b.truth.boots <= boots'
    BY <1>2, <2>1 DEF IsPast
  <2>5. IsPast(b, b.observed)'
    BY <2>1, <2>2, <2>3, <2>4 DEF IsPast, EstimatedBootEpoch, Straddles
  <2>6. BeforeFetch(b)'
    BY <1>1, <2>1, <2>2 DEF BeforeFetch, Precedes
  <2> QED
    BY <2>5, <2>6
<1>6. BaselinesArePast'
  BY <1>1, <1>5 DEF BaselinesArePast
<1> QED
  BY <1>3, <1>4, <1>6 DEF TruthInv

(* A step that leaves the world, the observation and the baselines alone    *)
(* keeps the past as it was recorded.                                       *)
LEMMA StillPast ==
    ASSUME TruthInv, UNCHANGED <<worldVars, incarnation, baselines>>,
           NEW i \in Interfaces, baselines[i] # None
    PROVE  IsPast(baselines[i], baselines[i].observed)'
  BY DEF TruthInv, BaselinesArePast, IsPast, BeforeNow, Precedes, Straddles, Uptime,
         worldVars, EstimatedBootEpoch

(* Asking, answering and stamping do not falsify what was recorded: an      *)
(* answer is younger than every baseline, and two answers of one poll are   *)
(* at most one timeout apart.                                               *)
LEMMA FetchKeepsTruth == ASSUME TypeOK, TruthInv, FetchNext PROVE TruthInv'
<1>1. /\ UNCHANGED <<worldVars, incarnation, baselines, samples>>
      /\ UNCHANGED <<mono, wall, bootedAt, boots>>
      /\ pc' = "fetching"
  BY FetchFrame DEF worldVars, dbVars
<1>2. ObservationIsPast' /\ SamplesAreHonest'
  BY <1>1 DEF ObservationIsPast, TruthInv, SamplesAreHonest, ExactWithinOneProcess,
              RebootHiddenOnlyBelowTolerance
<1>3. /\ mono \in Int /\ bootedAt \in Int /\ boots \in Nat /\ Uptime \in Int
      /\ Uptime' = Uptime
      /\ RequestMs \in Nat /\ RebootMs \in Nat
      /\ Uptime >= 0
  BY <1>1, CounterConstants DEF TypeOK, WorldTypeOK, Uptime, TruthInv, FetchIsTrue
<1>4. /\ BeforeNow(mono, boots)
      /\ \A at, b : BeforeNow(at, b) <=> BeforeNow(at, b)'
  BY <1>1, <1>3 DEF BeforeNow, Precedes
<1>5. pc = "fetching" => asked \in Int
  BY DEF TypeOK, PollTypeOK
<1>6. ASSUME FetchIsTrue',
             \A i \in Interfaces : baselines[i] # None => BeforeFetch(baselines[i])'
      PROVE  TruthInv'
  <2>1. BaselinesArePast'
    BY <1>1, <1>6, StillPast DEF BaselinesArePast
  <2> QED
    BY <1>2, <1>6, <2>1 DEF TruthInv
<1>7. CASE StartPoll
  <2>1. pc = "idle" /\ asked' = mono /\ UNCHANGED <<system, reading, sampleTime>>
    BY <1>7 DEF StartPoll, PollDue
  <2>2. system' = None /\ reading' = None /\ sampleTime' = None
    BY <2>1 DEF TruthInv, FetchIsTrue
  <2>3. FetchIsTrue'
    BY <1>1, <1>3, <2>1, <2>2 DEF TruthInv, FetchIsTrue
  <2>4. ASSUME NEW b PROVE BeforeFetch(b)'
    BY <1>1, <2>2 DEF BeforeFetch
  <2> QED
    BY <1>6, <2>3, <2>4
<1>8. ASSUME NEW uptime \in ReportedUptimes, AnswerUptime(uptime) PROVE TruthInv'
  <2>1. /\ pc = "fetching" /\ Fetched(mono)
        /\ UNCHANGED <<asked, reading, sampleTime>>
        /\ system' = [uptime |-> uptime, at |-> mono, up |-> Uptime, boots |-> boots]
        /\ uptime = None \/ uptime = Uptime \div 1000
    BY <1>3, <1>8 DEF AnswerUptime, InTime, Fetched, ReportedUptimes, TruthInv, FetchIsTrue
  <2>2. /\ system'.at = mono /\ system'.up = Uptime /\ system'.boots = boots
        /\ system'.uptime = uptime
    BY <2>1
  <2>3. \A at : Fetched(at) <=> Fetched(at)'
    BY <1>1, <2>1 DEF Fetched
  <2>4. ASSUME reading # None PROVE Straddles(Uptime, boots, reading.boots)
    <3>1. /\ Fetched(reading.at)
          /\ BeforeNow(reading.at, reading.boots)
          /\ reading.at \in Int /\ reading.boots \in Nat
      BY <2>4 DEF TruthInv, FetchIsTrue, TypeOK, PollTypeOK, ReadingType
    <3> QED
      BY <1>3, <1>5, <2>1, <3>1 DEF Fetched, BeforeNow, Precedes, Straddles
  <2>5. FetchIsTrue'
    BY <1>1, <1>4, <1>3, <2>1, <2>2, <2>3, <2>4 DEF TruthInv, FetchIsTrue
  <2>6. ASSUME NEW i \in Interfaces, baselines[i] # None PROVE BeforeFetch(baselines[i])'
    BY <1>1, <2>1, <2>2, <2>6
       DEF BeforeFetch, TruthInv, BaselinesArePast, IsPast, BeforeNow
  <2> QED
    BY <1>6, <2>5, <2>6
<1>9. CASE AnswerCounters
  <2>1. /\ pc = "fetching" /\ Fetched(mono)
        /\ UNCHANGED <<asked, system, sampleTime>>
        /\ reading' = [counter |-> counter, at |-> mono, boots |-> boots,
                       resets |-> resets, passed |-> passed]
    BY <1>3, <1>9 DEF AnswerCounters, InTime, Fetched, TruthInv, FetchIsTrue
  <2>2. reading'.at = mono /\ reading'.boots = boots
    BY <2>1
  <2>3. \A at : Fetched(at) <=> Fetched(at)'
    BY <1>1, <2>1 DEF Fetched
  <2>4. ASSUME system # None PROVE Straddles(system.up, system.boots, boots)
    <3>1. /\ Fetched(system.at)
          /\ BeforeNow(system.at, system.boots)
          /\ system.at \in Int /\ system.boots \in Nat
      BY <2>4 DEF TruthInv, FetchIsTrue, TypeOK, PollTypeOK, SystemType
    <3> QED
      BY <1>3, <1>5, <2>1, <3>1 DEF Fetched, BeforeNow, Precedes, Straddles
  <2>5. FetchIsTrue'
    BY <1>1, <1>4, <2>1, <2>2, <2>3, <2>4 DEF TruthInv, FetchIsTrue
  <2>6. ASSUME NEW i \in Interfaces, baselines[i] # None PROVE BeforeFetch(baselines[i])'
    BY <1>1, <2>1, <2>2, <2>6
       DEF BeforeFetch, TruthInv, BaselinesArePast, IsPast, Precedes
  <2> QED
    BY <1>6, <2>5, <2>6
<1>10. CASE StampCounters
  <2>1. /\ pc = "fetching" /\ Fetched(mono)
        /\ UNCHANGED <<asked, system, reading>>
        /\ sampleTime'.mono = mono
    BY <1>3, <1>10 DEF StampCounters, InTime, Fetched, TruthInv, FetchIsTrue
  <2>2. \A at : Fetched(at) <=> Fetched(at)'
    BY <1>1, <2>1 DEF Fetched
  <2>3. FetchIsTrue'
    BY <1>1, <1>4, <2>1, <2>2 DEF TruthInv, FetchIsTrue, Straddles
  <2>4. ASSUME NEW i \in Interfaces, baselines[i] # None PROVE BeforeFetch(baselines[i])'
    BY <1>1, <2>1, <2>4 DEF BeforeFetch, TruthInv, BaselinesArePast, Precedes
  <2> QED
    BY <1>6, <2>3, <2>4
<1> QED
  BY <1>7, <1>8, <1>9, <1>10 DEF FetchNext

(* The observation of a poll is as true as the answers it was built from.   *)
LEMMA StartKeepsTruth ==
    ASSUME TypeOK, TruthInv, NEW names \in SUBSET Wans, StartPersisting(names)
    PROVE  TruthInv'
<1>1. /\ UNCHANGED <<worldVars, incarnation, baselines, samples>>
      /\ UNCHANGED <<mono, bootedAt, boots>>
      /\ obs' = Observation
      /\ pc' = "members"
      /\ system' = None /\ reading' = None /\ sampleTime' = None
  BY DEF StartPersisting, ForgetAnswers, worldVars, dbVars
<1>2. /\ system # None /\ sampleTime # None /\ reading # None
      /\ pc = "fetching" /\ asked \in Int
      /\ system.at \in Int /\ system.boots \in Nat /\ reading.boots \in Nat
      /\ sampleTime.mono \in Int
      /\ RequestMs \in Nat
  BY CounterConstants DEF StartPersisting, Answered, TypeOK, PollTypeOK, SystemType,
     ReadingType, SampleTimeType
<1>3. /\ obs'.wall = sampleTime.wall
      /\ obs'.mono = sampleTime.mono
      /\ obs'.uptime = system.uptime
      /\ obs'.bootEpoch = EstimatedBootEpoch(sampleTime.wall, system.uptime)
      /\ obs'.upAt = system.at
      /\ obs'.truth.boots = reading.boots
      /\ obs'.truth.incarnation = incarnation
      /\ obs'.truth.mono = sampleTime.mono
      /\ obs'.truth.up = system.up
      /\ obs'.truth.upBoots = system.boots
  BY <1>1 DEF Observation
<1>4. /\ Fetched(system.at) /\ Fetched(sampleTime.mono)
      /\ BeforeNow(system.at, system.boots)
      /\ BeforeNow(reading.at, reading.boots)
      /\ Straddles(system.up, system.boots, reading.boots)
      /\ system.uptime = None \/ system.uptime = system.up \div 1000
      /\ bootedAt <= mono
  BY <1>2 DEF TruthInv, FetchIsTrue
<1>5. FetchIsTrue'
  BY <1>1, <1>4 DEF FetchIsTrue
<1>6. ObservationIsPast'
  <2>1. /\ sampleTime.mono <= mono
        /\ sampleTime.mono - system.at <= RequestMs
        /\ system.at - sampleTime.mono <= RequestMs
    BY <1>2, <1>4 DEF Fetched
  <2>2. reading.boots <= boots
    BY <1>4 DEF BeforeNow, Precedes
  <2>3. \A at, b : BeforeNow(at, b) => BeforeNow(at, b)'
    BY <1>1 DEF BeforeNow, Precedes, Uptime
  <2>4. BeforeNow(obs.upAt, obs.truth.upBoots)'
    BY <1>3, <1>4, <2>3
  <2>5. IsPast(obs, obs.wall)'
    BY <1>1, <1>3, <1>4, <2>1, <2>2, <2>4 DEF IsPast, Straddles, EstimatedBootEpoch
  <2> QED
    BY <2>5 DEF ObservationIsPast
<1>7. BaselinesArePast'
  <2>1. ASSUME NEW i \in Interfaces, baselines[i] # None PROVE BeforeFetch(baselines[i])'
    BY <1>1, <1>2, <1>3, <2>1 DEF BeforeFetch, TruthInv, BaselinesArePast, Precedes
  <2> QED
    BY <1>1, <2>1, StillPast DEF BaselinesArePast
<1>8. SamplesAreHonest'
  BY <1>1 DEF TruthInv, SamplesAreHonest, ExactWithinOneProcess,
              RebootHiddenOnlyBelowTolerance
<1> QED
  BY <1>5, <1>6, <1>7, <1>8 DEF TruthInv

(* When a poll ends or fails, what remains of it are baselines of the past. *)
LEMMA EndKeepsTruth ==
    ASSUME TypeOK, TruthInv, UNCHANGED <<worldVars, incarnation>>, pc' = "idle",
           ForgetAnswers, SamplesAreHonest',
           \A i \in Interfaces : baselines'[i] # None =>
              IsPast(baselines'[i], baselines'[i].observed)
    PROVE  TruthInv'
<1>1. FetchIsTrue' /\ ObservationIsPast'
  BY DEF TruthInv, FetchIsTrue, ObservationIsPast, ForgetAnswers, worldVars
<1>2. BaselinesArePast'
  BY PollOver DEF BaselinesArePast, ForgetAnswers
<1> QED
  BY <1>1, <1>2 DEF TruthInv

(* No step of a poll, failure or restart falsifies what was recorded.       *)
LEMMA PollerKeepsTruth == ASSUME TypeOK, TruthInv, PollerNext PROVE TruthInv'
<1>0. UNCHANGED samples => SamplesAreHonest'
  BY DEF TruthInv, SamplesAreHonest, ExactWithinOneProcess, RebootHiddenOnlyBelowTolerance
<1>1. ASSUME NEW names \in SUBSET Wans, StartPersisting(names) PROVE TruthInv'
  BY <1>1, StartKeepsTruth
<1>2. CASE FailPoll \/ LoseScope \/ DropAggregate
  <2>1. /\ UNCHANGED <<worldVars, incarnation, samples>>
        /\ pc' = "idle" /\ ForgetAnswers
        /\ \A i \in Interfaces : baselines'[i] \in {baselines[i], None}
    BY <1>2 DEF FailPoll, LoseScope, DropAggregate, EndPoll, dbVars, Retain
  <2> QED
    BY <1>0, <2>1, EndKeepsTruth DEF TruthInv, BaselinesArePast
<1>3. ASSUME NEW w \in Wans, SkipMember(w) \/ DropMember(w) \/ PersistMember(w)
      PROVE  TruthInv'
  <2>1. /\ pc = "members"
        /\ UNCHANGED <<worldVars, incarnation, fetchVars, pc, obs>>
        /\ UNCHANGED <<mono, bootedAt, wall, boots, asked, system, reading, sampleTime>>
    BY <1>3 DEF SkipMember, DropMember, PersistMember, worldVars, fetchVars
  <2>2. FetchIsTrue'
    BY <2>1 DEF TruthInv, FetchIsTrue
  <2>3. ObservationIsPast'
    <3>1. IsPast(obs, obs.wall)
      BY <2>1 DEF TruthInv, ObservationIsPast
    <3>2. IsPast(obs, obs.wall)'
      BY <2>1, <3>1, SameMoment
    <3> QED
      BY <3>2 DEF ObservationIsPast
  <2>4. SamplesAreHonest' /\ \A i \in Interfaces : baselines'[i] # None =>
            IsPast(baselines'[i], baselines'[i].observed) /\ BeforeFetch(baselines'[i])
    <3>1. CASE SkipMember(w) \/ DropMember(w)
      <4>1. UNCHANGED samples /\ \A i \in Interfaces : baselines'[i] \in {baselines[i], None}
        BY <3>1 DEF SkipMember, DropMember, dbVars, TypeOK, StoreTypeOK
      <4> QED
        BY <1>0, <4>1 DEF TruthInv, BaselinesArePast
    <3>2. CASE PersistMember(w)
      <4>1. PICK outcome \in Outcomes :
              PersistCounterObservation(w, obs.counter[w], {}, FALSE, Interfaces, outcome)
        BY <3>2 DEF PersistMember
      <4>2. pc = "members" /\ obs.counter[w] \in 0..U64Max /\ w \in Interfaces
        BY <2>1, MemberCounter
      <4>3. {} \in SUBSET Wans /\ FALSE \in BOOLEAN
        OBVIOUS
      <4>4. SamplesAreHonest'
        BY <4>1, <4>2, <4>3, PersistedSamplesAreHonest
      <4>5. ASSUME NEW i \in Interfaces, baselines'[i] # None
            PROVE  IsPast(baselines'[i], baselines'[i].observed) /\ BeforeFetch(baselines'[i])
        BY <4>1, <4>2, <4>3, <4>5, PersistedBaselinesArePast
      <4> QED
        BY <4>4, <4>5
    <3> QED
      BY <1>3, <3>1, <3>2
  <2>5. BaselinesArePast'
    BY <2>1, <2>4, SameMoment DEF BaselinesArePast
  <2> QED
    BY <2>2, <2>3, <2>4, <2>5 DEF TruthInv
<1>4. CASE PersistAggregate
  <2>1. /\ pc = "members"
        /\ sum \in 0..U64Max
        /\ members \in SUBSET Wans
        /\ (~continuous) \in BOOLEAN
        /\ Aggregate \in Interfaces
    BY <1>4, Zenon DEF PersistAggregate, TypeOK, PollTypeOK, Interfaces
  <2>2. PICK outcome \in Outcomes :
          PersistCounterObservation(Aggregate, sum, members, ~continuous,
                                    members \cup {Aggregate}, outcome)
    BY <1>4 DEF PersistAggregate
  <2>3. SamplesAreHonest'
    BY <2>1, <2>2, PersistedSamplesAreHonest
  <2>4. ASSUME NEW i \in Interfaces, baselines'[i] # None
        PROVE  IsPast(baselines'[i], baselines'[i].observed)
    BY <2>1, <2>2, <2>4, PersistedBaselinesArePast
  <2>5. UNCHANGED <<worldVars, incarnation>> /\ pc' = "idle" /\ ForgetAnswers
    BY <1>4 DEF PersistAggregate, EndPoll
  <2> QED
    BY <2>3, <2>4, <2>5, EndKeepsTruth
<1>5. CASE Restart
  <2>1. /\ UNCHANGED <<worldVars, samples>>
        /\ bootedAt' = bootedAt /\ mono' = mono
        /\ pc' = "idle"
        /\ system' = None /\ reading' = None /\ sampleTime' = None
        /\ \A i \in Interfaces : baselines'[i] = None
    BY <1>5 DEF Restart, EndPoll, ForgetAnswers, dbVars, worldVars
  <2> QED
    BY <1>0, <2>1 DEF TruthInv, FetchIsTrue, ObservationIsPast, BaselinesArePast
<1> QED
  BY <1>1, <1>2, <1>3, <1>4, <1>5, FetchKeepsTruth DEF PollerNext, FetchNext

(* A step that changes nothing does not falsify what was recorded.          *)
LEMMA StutterKeepsTruth == ASSUME TruthInv, UNCHANGED vars PROVE TruthInv'
<1>1. /\ UNCHANGED <<worldVars, incarnation, system, reading, pc, obs>>
      /\ UNCHANGED <<baselines, samples, asked, sampleTime, mono, bootedAt>>
  BY DEF vars, worldVars, pollVars, fetchVars, loopVars, dbVars
<1>2. FetchIsTrue'
  BY <1>1 DEF TruthInv, FetchIsTrue, Fetched, BeforeNow, Precedes, Straddles, Uptime, worldVars
<1>3. ObservationIsPast' /\ BaselinesArePast'
  BY <1>1, SameMoment DEF TruthInv, ObservationIsPast, BaselinesArePast
<1>4. SamplesAreHonest'
  BY <1>1 DEF TruthInv, SamplesAreHonest, ExactWithinOneProcess,
              RebootHiddenOnlyBelowTolerance
<1> QED
  BY <1>2, <1>3, <1>4 DEF TruthInv

(* What was fetched, observed and recorded agrees with what happened, in    *)
(* every reachable state.                                                   *)
LEMMA TruthInductive == Spec => []TruthInv
<1>1. Init => TruthInv
  <2>1. Init => bootedAt <= mono
    BY CounterConstants DEF Init, WorldInit
  <2> QED
    BY <2>1 DEF Init, PollerInit, DatabaseInit, TruthInv, FetchIsTrue, ObservationIsPast,
       BaselinesArePast, SamplesAreHonest, ExactWithinOneProcess,
       RebootHiddenOnlyBelowTolerance
<1>2. TypeOK /\ TruthInv /\ [Next]_vars => TruthInv'
  BY WorldKeepsTruth, PollerKeepsTruth, StutterKeepsTruth DEF Next
<1> QED
  BY <1>1, <1>2, TypeCorrect, PTL DEF Spec

(* No exact sample reaches across a process restart.                        *)
THEOREM NoExactSampleAcrossRestart == Spec => []ExactWithinOneProcess
<1>1. TruthInv => ExactWithinOneProcess
  BY DEF TruthInv, SamplesAreHonest
<1> QED
  BY <1>1, TruthInductive, PTL

(* The reboot test of persist_counter_observation misses a reboot only      *)
(* within the sum of its tolerances and of the time two polls spend         *)
(* fetching, or when the router is back within one request, whatever the    *)
(* clocks do.                                                               *)
THEOREM RebootDetection == Spec => []RebootHiddenOnlyBelowTolerance
<1>1. TruthInv => RebootHiddenOnlyBelowTolerance
  BY DEF TruthInv, SamplesAreHonest
<1> QED
  BY <1>1, TruthInductive, PTL

-----------------------------------------------------------------------------
(* Byte counts.  Counters wrap, so what they show is compared modulo        *)
(* U64Max + 1.                                                              *)

Congruent(a, b) == \E k \in Int : a - b = k * (U64Max + 1)

(* Every number is congruent to itself.                                     *)
LEMMA CongruentSame == ASSUME NEW a \in Int PROVE Congruent(a, a)
<1>1. a - a = 0 * (U64Max + 1)
  BY CounterConstants
<1> QED BY <1>1 DEF Congruent

(* Congruent numbers may be added.                                          *)
LEMMA CongruentAdds ==
    ASSUME NEW a \in Int, NEW b \in Int, NEW c \in Int, NEW d \in Int,
           Congruent(a, b), Congruent(c, d)
    PROVE  Congruent(a + c, b + d)
<1>1. PICK k \in Int : a - b = k * (U64Max + 1)
  BY DEF Congruent
<1>2. PICK l \in Int : c - d = l * (U64Max + 1)
  BY DEF Congruent
<1>3. (a + c) - (b + d) = (k + l) * (U64Max + 1)
  BY <1>1, <1>2, CounterConstants
<1> QED BY <1>3 DEF Congruent

(* Congruent numbers may be subtracted.                                     *)
LEMMA CongruentSubtracts ==
    ASSUME NEW a \in Int, NEW b \in Int, NEW c \in Int, NEW d \in Int,
           Congruent(a, b), Congruent(c, d)
    PROVE  Congruent(a - c, b - d)
<1>1. PICK k \in Int : a - b = k * (U64Max + 1)
  BY DEF Congruent
<1>2. PICK l \in Int : c - d = l * (U64Max + 1)
  BY DEF Congruent
<1>3. (a - c) - (b - d) = (k - l) * (U64Max + 1)
  BY <1>1, <1>2, CounterConstants
<1> QED BY <1>3 DEF Congruent

(* A counter that wraps around stays congruent to the bytes it counted.     *)
LEMMA WrapIsCongruent == ASSUME NEW x \in Nat PROVE Congruent(x % (U64Max + 1), x)
<1>1. U64Max + 1 \in Nat /\ U64Max + 1 > 0
  BY CounterConstants
<1>2. (x % (U64Max + 1)) - x = (-(x \div (U64Max + 1))) * (U64Max + 1)
  BY <1>1
<1>3. -(x \div (U64Max + 1)) \in Int
  BY <1>1
<1> QED BY <1>2, <1>3 DEF Congruent

(* The counter value congruent to a number is the number's remainder.       *)
LEMMA CongruentIsRemainder ==
    ASSUME NEW a \in 0..U64Max, NEW b \in Int, Congruent(a, b)
    PROVE  a = b % (U64Max + 1)
<1> DEFINE m == U64Max + 1
           q == b \div m
           r == b % m
<1>1. m \in Nat /\ m > 0 /\ a < m /\ a >= 0 /\ a \in Int
  BY CounterConstants
<1>2. q \in Int /\ r \in Int /\ b = q * m + r /\ 0 <= r /\ r < m
  BY <1>1
<1>3. PICK k \in Int : a - b = k * m
  BY DEF Congruent
<1> HIDE DEF m, q, r
<1>4. a - r = (k + q) * m
  BY <1>1, <1>2, <1>3
<1>5. k + q = 0
  <2> DEFINE j == k + q
  <2>1. j \in Int
    BY <1>2
  <2> HIDE DEF j
  <2>2. CASE j >= 1
    <3>1. j * m >= m
      BY <1>1, <2>1, <2>2
    <3> QED BY <1>1, <1>2, <1>4, <3>1 DEF j
  <2>3. CASE j <= -1
    <3>1. j * m <= -m
      BY <1>1, <2>1, <2>3
    <3> QED BY <1>1, <1>2, <1>4, <3>1 DEF j
  <2> QED BY <2>1, <2>2, <2>3 DEF j
<1>6. a = r
  BY <1>1, <1>2, <1>4, <1>5
<1> QED BY <1>6 DEF r, m

(* Congruence is transitive and symmetric.                                  *)
LEMMA CongruentTrans ==
    ASSUME NEW a \in Int, NEW b \in Int, NEW c \in Int, Congruent(a, b), Congruent(b, c)
    PROVE  Congruent(a, c) /\ Congruent(c, a)
<1>1. PICK k \in Int : a - b = k * (U64Max + 1)
  BY DEF Congruent
<1>2. PICK l \in Int : b - c = l * (U64Max + 1)
  BY DEF Congruent
<1>3. a - c = (k + l) * (U64Max + 1) /\ c - a = (-(k + l)) * (U64Max + 1)
  BY <1>1, <1>2, CounterConstants
<1>4. k + l \in Int /\ -(k + l) \in Int
  OBVIOUS
<1> QED BY <1>3, <1>4 DEF Congruent

(* counter_delta is the difference of two readings, modulo the wrap.        *)
LEMMA DeltaIsCongruent ==
    ASSUME NEW p \in 0..U64Max, NEW n \in 0..U64Max, CounterDelta(p, n) # None
    PROVE  CounterDelta(p, n) \in Int /\ Congruent(CounterDelta(p, n), n - p)
<1>1. p \in Int /\ n \in Int /\ U64Max \in Int
  BY CounterConstants
<1>2. CASE n >= p
  BY <1>1, <1>2, CongruentSame DEF CounterDelta
<1>3. CASE ~(n >= p)
  <2>1. CounterDelta(p, n) = (U64Max - p) + n + 1
    BY <1>3 DEF CounterDelta, WrappedCounterDelta
  <2>2. ((U64Max - p) + n + 1) - (n - p) = 1 * (U64Max + 1)
    BY <1>1
  <2> QED BY <1>1, <2>1, <2>2 DEF Congruent
<1> QED BY <1>2, <1>3

(* Sums of congruent numbers are congruent.                                 *)
LEMMA SumIsCongruent ==
    ASSUME NEW S, IsFiniteSet(S), NEW f, NEW g,
           \A s \in S : f[s] \in Int /\ g[s] \in Int /\ Congruent(f[s], g[s])
    PROVE  Congruent(SumFunctionOnSet(f, S), SumFunctionOnSet(g, S))
<1> DEFINE G == {T \in SUBSET S : Congruent(SumFunctionOnSet(f, T), SumFunctionOnSet(g, T))}
<1>1. {} \in G
  BY SumEmpty, CongruentSame
<1>2. ASSUME NEW T \in SUBSET S, NEW x \in S, T \in G, x \notin T PROVE T \cup {x} \in G
  <2>1. IsFiniteSet(T)
    BY FS_Subset
  <2>2. SumFunctionOnSet(f, T) \in Int /\ SumFunctionOnSet(g, T) \in Int
    BY <2>1, SumRemove
  <2>3. /\ SumFunctionOnSet(f, T \cup {x}) = f[x] + SumFunctionOnSet(f, T)
        /\ SumFunctionOnSet(g, T \cup {x}) = g[x] + SumFunctionOnSet(g, T)
    BY <1>2, <2>1, SumInsert
  <2>4. Congruent(SumFunctionOnSet(f, T), SumFunctionOnSet(g, T)) /\ Congruent(f[x], g[x])
    BY <1>2
  <2>5. f[x] \in Int /\ g[x] \in Int
    OBVIOUS
  <2>6. Congruent(f[x] + SumFunctionOnSet(f, T), g[x] + SumFunctionOnSet(g, T))
    BY <2>2, <2>4, <2>5, CongruentAdds
  <2> QED
    BY <2>3, <2>6
<1> HIDE DEF G
<1>3. S \in G
  BY <1>1, <1>2, FiniteIsGenerated
<1> QED
  BY <1>3 DEF G

(* The WANs behind the counter of a baseline of interface i. *)
Behind(i, signature) == IF i = Aggregate THEN signature ELSE {i}

(* What a reading of all counters knew: the router's answer, the            *)
(* observation made from it, and what a reading would show now.             *)
Snapshot(c, truth) ==
    [counter |-> c, boots |-> truth.boots, resets |-> truth.resets, passed |-> truth.passed]
Observed == Snapshot(obs.counter, obs.truth)
Present == [counter |-> counter, boots |-> boots, resets |-> resets, passed |-> passed]

(* Snapshot r was taken before snapshot q; unless a counter was reset in    *)
(* between, it moved on by the bytes that passed.                           *)
Continues(r, q) ==
    /\ r.boots <= q.boots
    /\ \A w \in Wans :
         /\ r.resets[w] <= q.resets[w]
         /\ r.boots = q.boots /\ r.resets[w] = q.resets[w] =>
              Congruent(q.counter[w] - q.passed[w] + r.passed[w], r.counter[w])

(* A complete sum is the sum of its members. *)
SumIsOfMembers ==
    pc = "members" =>
        /\ members \cap todo = {}
        /\ complete => sum = SumFunctionOnSet(obs.counter, members)

ReadingsContinue ==
    /\ reading # None => Continues(reading, Present)
    /\ pc = "members" => Continues(Observed, Present)

(* Baseline b of interface i was taken when the counters showed c. *)
TakenFrom(i, b, c) ==
    /\ b.counter = SumFunctionOnSet(c, Behind(i, b.signature))
    /\ Continues(Snapshot(c, b.truth), Present)
    /\ reading # None => Continues(Snapshot(c, b.truth), reading)
    /\ pc = "members" => Continues(Snapshot(c, b.truth), Observed)

BaselinesExplain ==
    \A i \in Interfaces : baselines[i] # None =>
        \E c \in [Wans -> 0..U64Max] : TakenFrom(i, baselines[i], c)

BytesInv ==
    SumIsOfMembers /\ ReadingsContinue /\ BaselinesExplain /\ ExactBytesAreTrue

(* Only finitely many counters stand behind a baseline.                     *)
LEMMA BehindIsFinite ==
    ASSUME NEW i \in Interfaces, NEW sig \in SUBSET Wans
    PROVE  Behind(i, sig) \subseteq Wans /\ IsFiniteSet(Behind(i, sig))
<1>1. Behind(i, sig) \subseteq Wans
  BY DEF Behind, Interfaces
<1> QED BY <1>1, CounterConstants, FS_Subset

(* A sample from one reading of the counters to a later one, neither reset  *)
(* nor rebooted in between, holds the bytes that passed.                    *)
LEMMA SampleCountsTruly ==
    ASSUME TypeOK, BytesInv, pc = "members", NEW i \in Interfaces,
           NEW n \in 0..U64Max, NEW sig \in SUBSET Wans, NEW forced \in BOOLEAN,
           n = SumFunctionOnSet(obs.counter, Behind(i, sig)),
           baselines[i] # None, MayRecordExactSample(baselines[i], n, sig, forced),
           NEW s, s = SampleSince(i, baselines[i], n, sig),
           s.from.boots = s.to.boots,
           \A w \in Sources(s) : s.from.resets[w] = s.to.resets[w]
    PROVE  s.bytes = SumFunction([w \in Sources(s) |-> s.to.passed[w] - s.from.passed[w]])
                       % (U64Max + 1)
<1> DEFINE p == baselines[i]
           B == Behind(i, sig)
           D == [w \in B |-> obs.truth.passed[w] - p.truth.passed[w]]
           E == [w \in B |-> obs.counter[w] - obs.truth.passed[w] + p.truth.passed[w]]
<1>1. /\ p.counter \in 0..U64Max
      /\ p.truth.passed \in [Wans -> Nat]
      /\ obs.truth.passed \in [Wans -> Nat]
      /\ obs.counter \in [Wans -> 0..U64Max]
      /\ U64Max \in Nat
  BY CounterConstants
     DEF TypeOK, StoreTypeOK, PollTypeOK, BaselineType, ObservationType, TruthType
<1>2. /\ s.from = p.truth
      /\ s.to = obs.truth
      /\ s.iface = i
      /\ s.signature = sig
      /\ s.bytes = CounterDelta(p.counter, n)
      /\ p.signature = sig
  BY DEF SampleSince, MayRecordExactSample
<1>3. Sources(s) = B
  BY <1>2 DEF Sources, Behind
<1>4. IsFiniteSet(B) /\ B \subseteq Wans
  BY BehindIsFinite
<1>5. PICK c \in [Wans -> 0..U64Max] :
        /\ p.counter = SumFunctionOnSet(c, B)
        /\ Continues(Snapshot(c, p.truth), Observed)
  BY <1>2 DEF BytesInv, BaselinesExplain, TakenFrom
<1>6. \A w \in B : Congruent(E[w], c[w])
  BY <1>2, <1>3, <1>4, <1>5 DEF Continues, Snapshot, Observed
<1>7. \A w \in B : /\ D[w] \in Int
                   /\ E[w] \in Int
                   /\ c[w] \in Int
                   /\ obs.counter[w] \in Int
                   /\ obs.counter[w] = E[w] + D[w]
  BY <1>1, <1>4
<1> HIDE DEF D, E, B, p
<1>8. n = SumFunctionOnSet(E, B) + SumFunctionOnSet(D, B)
  BY <1>4, <1>7, SumAdds DEF B
<1>9. /\ SumFunctionOnSet(E, B) \in Int
      /\ SumFunctionOnSet(D, B) \in Int
      /\ Congruent(SumFunctionOnSet(E, B), p.counter)
  BY <1>4, <1>5, <1>6, <1>7, SumRemove, SumIsCongruent
<1>10. /\ CounterDelta(p.counter, n) \in 0..U64Max
       /\ Congruent(CounterDelta(p.counter, n), n - p.counter)
  <2>1. CounterDelta(p.counter, n) # None /\ CounterDelta(p.counter, n) <= I64Max
    BY DEF MayRecordExactSample, DeltaIsExact, p
  <2>2. CounterDelta(p.counter, n) \in 0..I64Max
    BY <1>1, <2>1, DeltaType
  <2>3. I64Max \in Int /\ I64Max <= U64Max
    BY <1>1 DEF I64Max
  <2> QED BY <1>1, <2>1, <2>2, <2>3, DeltaIsCongruent
<1>11. Congruent(SumFunctionOnSet(D, B), n - p.counter)
  <2>1. Congruent(n - SumFunctionOnSet(E, B), n - p.counter)
    <3>1. n \in Int /\ p.counter \in Int
      BY <1>1
    <3> QED BY <1>9, <3>1, CongruentSame, CongruentSubtracts
  <2>2. n - SumFunctionOnSet(E, B) = SumFunctionOnSet(D, B)
    BY <1>8, <1>9
  <2> QED BY <2>1, <2>2
<1>12. Congruent(CounterDelta(p.counter, n), SumFunctionOnSet(D, B))
  <2>1. n - p.counter \in Int /\ CounterDelta(p.counter, n) \in Int
    BY <1>1, <1>10
  <2>2. Congruent(n - p.counter, SumFunctionOnSet(D, B))
    BY <1>9, <1>11, <2>1, CongruentSame, CongruentTrans
  <2> QED BY <1>9, <1>10, <2>1, <2>2, CongruentTrans
<1>13. CounterDelta(p.counter, n) = SumFunctionOnSet(D, B) % (U64Max + 1)
  BY <1>9, <1>10, <1>12, CongruentIsRemainder
<1>14. [w \in Sources(s) |-> s.to.passed[w] - s.from.passed[w]] = D
  BY <1>2, <1>3 DEF D, p
<1>15. SumFunction(D) = SumFunctionOnSet(D, B)
  BY DEF SumFunction, D
<1> QED
  BY <1>2, <1>13, <1>14, <1>15

(* A snapshot continues itself.                                             *)
LEMMA ContinuesSame ==
    ASSUME NEW r, r.boots \in Nat, r.resets \in [Wans -> Nat], r.passed \in [Wans -> Nat],
           r.counter \in [Wans -> 0..U64Max]
    PROVE  Continues(r, r)
<1>1. ASSUME NEW w \in Wans
      PROVE  Congruent(r.counter[w] - r.passed[w] + r.passed[w], r.counter[w])
  <2>1. r.counter[w] \in Int /\ r.passed[w] \in Int
    BY CounterConstants
  <2>2. r.counter[w] - r.passed[w] + r.passed[w] = r.counter[w]
    BY <2>1
  <2> QED BY <2>1, <2>2, CongruentSame
<1> QED BY <1>1 DEF Continues

(* The world as a snapshot is typed.                                        *)
LEMMA PresentType ==
    ASSUME TypeOK
    PROVE  /\ Present.boots = boots /\ boots \in Nat
           /\ Present.resets = resets /\ resets \in [Wans -> Nat]
           /\ Present.passed = passed /\ passed \in [Wans -> Nat]
           /\ Present.counter = counter /\ counter \in [Wans -> 0..U64Max]
  BY DEF Present, TypeOK, WorldTypeOK

(* A baseline made from the observation was taken from its counters.        *)
LEMMA NewBaselineExplains ==
    ASSUME TypeOK, TruthInv, BytesInv, pc = "members", NEW i \in Interfaces,
           NEW n \in 0..U64Max, NEW sig \in SUBSET Wans, NEW m,
           n = SumFunctionOnSet(obs.counter, Behind(i, sig))
    PROVE  \E c \in [Wans -> 0..U64Max] : TakenFrom(i, BaselineFromObservation(n, sig, m), c)
<1> DEFINE b == BaselineFromObservation(n, sig, m)
           r == Snapshot(obs.counter, obs.truth)
<1>1. b.truth = obs.truth /\ b.counter = n /\ b.signature = sig
  BY DEF BaselineFromObservation
<1>2. /\ obs.counter \in [Wans -> 0..U64Max]
      /\ obs.truth \in TruthType
  BY DEF TypeOK, PollTypeOK, ObservationType
<1>3. reading = None
  BY DEF TruthInv, FetchIsTrue
<1>4. Continues(r, r)
  BY <1>2, ContinuesSame DEF Snapshot, TruthType
<1>5. Continues(r, Present)
  BY DEF BytesInv, ReadingsContinue, Observed
<1> HIDE DEF b
<1>6. TakenFrom(i, b, obs.counter)
  BY <1>1, <1>3, <1>4, <1>5 DEF TakenFrom, Observed
<1> QED BY <1>2, <1>6 DEF b

(* What a baseline was taken from depends on the world and on what the poll *)
(* has read.                                                                *)
LEMMA SameSnapshots ==
    ASSUME UNCHANGED <<boots, resets, counter, passed>>
    PROVE  /\ Present' = Present
           /\ UNCHANGED <<reading, pc, obs>> =>
                \A i, b, c : TakenFrom(i, b, c) => TakenFrom(i, b, c)'
           /\ reading' = None /\ pc' = "idle" =>
                \A i, b, c : TakenFrom(i, b, c) => TakenFrom(i, b, c)'
  BY DEF TakenFrom, Present, Observed, Continues, Congruent, Snapshot, Behind

(* persist_counter_observation stores only true byte counts, and its        *)
(* baseline was taken from the counters it observed.                        *)
LEMMA PersistKeepsBytes ==
    ASSUME TypeOK, TruthInv, BytesInv, pc = "members", NEW i \in Interfaces, NEW n \in 0..U64Max,
           NEW sig \in SUBSET Wans, NEW forced \in BOOLEAN, NEW keep, NEW outcome,
           n = SumFunctionOnSet(obs.counter, Behind(i, sig)),
           PersistCounterObservation(i, n, sig, forced, keep, outcome)
    PROVE  /\ ExactBytesAreTrue'
           /\ \A j \in Interfaces : baselines'[j] # None =>
                 \E c \in [Wans -> 0..U64Max] : TakenFrom(j, baselines'[j], c)
<1>1. ExactBytesAreTrue'
  <2>1. CASE samples' = samples
    BY <2>1 DEF BytesInv, ExactBytesAreTrue, Sources
  <2>2. CASE /\ baselines[i] # None
             /\ MayRecordExactSample(baselines[i], n, sig, forced)
             /\ samples' = samples \cup {SampleSince(i, baselines[i], n, sig)}
    <3> DEFINE s == SampleSince(i, baselines[i], n, sig)
    <3>1. (s.from.boots = s.to.boots /\ \A w \in Sources(s) : s.from.resets[w] = s.to.resets[w]) =>
             s.bytes = SumFunction([w \in Sources(s) |-> s.to.passed[w] - s.from.passed[w]]) % (U64Max + 1)
      BY <2>2, SampleCountsTruly
    <3>2. samples' = samples \cup {s}
      BY <2>2
    <3> HIDE DEF s
    <3>3. ASSUME NEW t \in samples',
                 t.from.boots = t.to.boots, \A w \in Sources(t) : t.from.resets[w] = t.to.resets[w]
          PROVE  t.bytes = SumFunction([w \in Sources(t) |-> t.to.passed[w] - t.from.passed[w]]) % (U64Max + 1)
      <4>1. CASE t = s
        BY <3>1, <3>3, <4>1
      <4>2. CASE t \in samples
        BY <3>3, <4>2 DEF BytesInv, ExactBytesAreTrue
      <4> QED BY <3>2, <4>1, <4>2
    <3> QED
      BY <3>3 DEF ExactBytesAreTrue, Sources
  <2> QED
    BY <2>1, <2>2, PersistSamples
<1>2. ASSUME NEW j \in Interfaces, baselines'[j] # None
      PROVE  \E c \in [Wans -> 0..U64Max] : TakenFrom(j, baselines'[j], c)
  <2>1. CASE baselines' = Retain(keep)
    BY <1>2, <2>1 DEF Retain, BytesInv, BaselinesExplain
  <2>2. ASSUME NEW m, BaselineStep(i, n, sig, m, keep)
        PROVE  \E c \in [Wans -> 0..U64Max] : TakenFrom(j, baselines'[j], c)
    <3> DEFINE b == BaselineFromObservation(n, sig, m)
    <3>1. \E c \in [Wans -> 0..U64Max] : TakenFrom(i, b, c)
      BY NewBaselineExplains
    <3>2. baselines' = [Retain(keep) EXCEPT ![i] = b]
      BY <2>2 DEF BaselineStep, InsertBaseline
    <3> HIDE DEF b
    <3> QED
      BY <1>2, <3>1, <3>2 DEF Retain, BytesInv, BaselinesExplain
  <2> QED
    BY <2>1, <2>2, PersistBaselines
<1> QED
  BY <1>1, <1>2

(* Traffic moves a counter and the truth together, modulo the wrap.         *)
LEMMA TickContinues ==
    ASSUME NEW c \in Nat, NEW d \in Nat, NEW o \in Nat, NEW q \in Nat, NEW k \in Int,
           Congruent(c - o + q, k)
    PROVE  Congruent(((c + d) % (U64Max + 1)) - (o + d) + q, k)
<1> DEFINE e == (c + d) % (U64Max + 1)
<1>1. U64Max \in Nat
  BY CounterConstants
<1>2. Congruent(e, c + d) /\ e \in Int
  BY <1>1, WrapIsCongruent, Modulo
<1> HIDE DEF e
<1>3. Congruent(e - (o + d - q), (c + d) - (o + d - q))
  BY <1>2, CongruentSame, CongruentSubtracts
<1>4. e - (o + d - q) = e - (o + d) + q /\ (c + d) - (o + d - q) = c - o + q
  BY <1>2
<1>5. c - o + q \in Int /\ e - (o + d) + q \in Int
  BY <1>2
<1>6. Congruent(e - (o + d) + q, k)
  BY <1>3, <1>4, <1>5, CongruentTrans
<1> QED BY <1>6 DEF e

(* Traffic continues every snapshot; a reboot or a reset ends the           *)
(* comparison.                                                              *)
LEMMA WorldContinues ==
    ASSUME TypeOK, WorldNext, NEW r, r.boots \in Nat, r.resets \in [Wans -> Nat],
           r.passed \in [Wans -> Nat], r.counter \in [Wans -> 0..U64Max],
           Continues(r, Present)
    PROVE  Continues(r, Present')
<1>0. /\ Present'.boots = boots' /\ Present'.resets = resets'
      /\ Present'.passed = passed' /\ Present'.counter = counter'
      /\ U64Max \in Nat
  BY CounterConstants DEF Present
<1>1. /\ r.boots <= boots
      /\ \A w \in Wans :
           /\ r.resets[w] <= resets[w]
           /\ r.boots = boots /\ r.resets[w] = resets[w] =>
                Congruent(counter[w] - passed[w] + r.passed[w], r.counter[w])
  BY PresentType DEF Continues
<1>2. CASE Tick
  <2>1. PICK bytes \in [Wans -> Traffic] :
          /\ counter' = [w \in Wans |-> (counter[w] + bytes[w]) % (U64Max + 1)]
          /\ passed' = [w \in Wans |-> passed[w] + bytes[w]]
    BY <1>2 DEF Tick
  <2>2. boots' = boots /\ resets' = resets
    BY <1>2 DEF Tick
  <2>3. ASSUME NEW w \in Wans, r.boots = boots, r.resets[w] = resets[w]
        PROVE  Congruent(counter'[w] - passed'[w] + r.passed[w], r.counter[w])
    <3>1. counter[w] \in Nat /\ r.counter[w] \in Int /\ passed[w] \in Nat /\ r.passed[w] \in Nat
      BY <1>0, PresentType
    <3>2. bytes[w] \in Nat
      BY CounterConstants
    <3>3. Congruent(counter[w] - passed[w] + r.passed[w], r.counter[w])
      BY <1>1, <2>3
    <3> QED BY <2>1, <3>1, <3>2, <3>3, TickContinues
  <2> QED BY <1>0, <1>1, <2>2, <2>3 DEF Continues
<1>3. CASE Reboot
  <2>1. boots' = boots + 1 /\ resets' = resets
    BY <1>3 DEF Reboot
  <2>2. r.boots <= boots' /\ r.boots # boots'
    BY <1>1, <2>1, PresentType
  <2> QED BY <1>0, <1>1, <2>1, <2>2 DEF Continues
<1>4. ASSUME NEW w \in Wans, ResetCounter(w) PROVE Continues(r, Present')
  <2>1. /\ resets' = [resets EXCEPT ![w] = @ + 1]
        /\ counter' = [counter EXCEPT ![w] = 0]
        /\ boots' = boots /\ passed' = passed
    BY <1>4 DEF ResetCounter
  <2>2. ASSUME NEW v \in Wans
        PROVE  /\ r.resets[v] <= resets'[v]
               /\ v = w => r.resets[v] # resets'[v]
               /\ v # w => resets'[v] = resets[v] /\ counter'[v] = counter[v]
    BY <1>1, <2>1, PresentType
  <2> QED BY <1>0, <1>1, <2>1, <2>2 DEF Continues
<1>5. ASSUME NEW d \in ClockSteps, StepClock(d) PROVE Continues(r, Present')
  BY <1>0, <1>1, <1>5 DEF StepClock, Continues
<1> QED BY <1>2, <1>3, <1>4, <1>5 DEF WorldNext

(* The world disturbs no stored byte count.                                 *)
LEMMA WorldKeepsBytes == ASSUME TypeOK, BytesInv, WorldNext PROVE BytesInv'
<1>1. /\ pc # "members" /\ pc' = pc /\ reading' = reading /\ obs' = obs
      /\ samples' = samples /\ baselines' = baselines
  BY DEF WorldNext, pollVars, fetchVars, loopVars, dbVars
<1>2. SumIsOfMembers' /\ ExactBytesAreTrue'
  BY <1>1 DEF SumIsOfMembers, BytesInv, ExactBytesAreTrue, Sources
<1>3. ReadingsContinue'
  <2>1. ASSUME reading # None PROVE Continues(reading, Present')
    <3>1. reading \in ReadingType /\ Continues(reading, Present)
      BY <2>1 DEF TypeOK, PollTypeOK, BytesInv, ReadingsContinue
    <3> QED BY <3>1, WorldContinues DEF ReadingType
  <2> QED BY <1>1, <2>1 DEF ReadingsContinue
<1>4. ASSUME NEW i \in Interfaces, baselines[i] # None
      PROVE  \E c \in [Wans -> 0..U64Max] : TakenFrom(i, baselines[i], c)'
  <2>1. PICK c \in [Wans -> 0..U64Max] : TakenFrom(i, baselines[i], c)
    BY <1>4 DEF BytesInv, BaselinesExplain
  <2> DEFINE r == Snapshot(c, baselines[i].truth)
  <2>2. baselines[i].truth \in TruthType
    BY <1>4 DEF TypeOK, StoreTypeOK, BaselineType
  <2>3. /\ r.boots \in Nat /\ r.resets \in [Wans -> Nat]
        /\ r.passed \in [Wans -> Nat] /\ r.counter \in [Wans -> 0..U64Max]
        /\ Continues(r, Present)
    BY <2>1, <2>2 DEF Snapshot, TruthType, TakenFrom
  <2> HIDE DEF r
  <2>4. Continues(r, Present')
    BY <2>3, WorldContinues
  <2>5. TakenFrom(i, baselines[i], c)'
    BY <1>1, <2>1, <2>4 DEF r, TakenFrom, Behind, Snapshot, Continues, Congruent
  <2> QED BY <2>5
<1> QED BY <1>1, <1>2, <1>3, <1>4 DEF BytesInv, BaselinesExplain

(* Steps that only forget.                                                  *)
LEMMA SameBytes ==
    ASSUME BytesInv, UNCHANGED worldVars, UNCHANGED samples,
           \/ UNCHANGED <<reading, pc, obs>>
           \/ reading' = None /\ pc' = "idle",
           \A i \in Interfaces : baselines'[i] \in {baselines[i], None}
    PROVE  ReadingsContinue' /\ BaselinesExplain' /\ ExactBytesAreTrue'
<1>1. ExactBytesAreTrue'
  BY DEF BytesInv, ExactBytesAreTrue, Sources
<1>2. UNCHANGED <<boots, resets, counter, passed>>
  BY DEF worldVars
<1>3. ReadingsContinue'
  BY <1>2, SameSnapshots DEF BytesInv, ReadingsContinue, Observed, Continues, Congruent, Snapshot
<1>4. ASSUME NEW i \in Interfaces, baselines'[i] # None
      PROVE  \E c \in [Wans -> 0..U64Max] : TakenFrom(i, baselines[i], c)'
  <2>1. baselines'[i] = baselines[i]
    BY <1>4
  <2>2. PICK c \in [Wans -> 0..U64Max] : TakenFrom(i, baselines[i], c)
    BY <1>4, <2>1 DEF BytesInv, BaselinesExplain
  <2>3. \A b : TakenFrom(i, b, c) => TakenFrom(i, b, c)'
    BY <1>2, SameSnapshots
  <2>4. \A b : b = baselines[i] => TakenFrom(i, b, c)'
    BY <2>2, <2>3
  <2>5. TakenFrom(i, baselines[i], c)'
    BY <2>1, <2>4
  <2> QED BY <2>5
<1>5. BaselinesExplain'
  BY <1>4 DEF BaselinesExplain
<1> QED BY <1>1, <1>3, <1>5

(* Reading the counters continues every baseline.                           *)
LEMMA FetchKeepsBytes == ASSUME TypeOK, TruthInv, BytesInv, FetchNext PROVE BytesInv'
<1>1. /\ UNCHANGED <<worldVars, baselines, samples, obs>>
      /\ UNCHANGED <<boots, resets, counter, passed>>
      /\ pc # "members" /\ pc' = "fetching"
  BY FetchFrame DEF worldVars, dbVars, loopVars
<1>2. SumIsOfMembers' /\ ExactBytesAreTrue'
  BY <1>1 DEF SumIsOfMembers, BytesInv, ExactBytesAreTrue, Sources
<1>3. Present' = Present
  BY <1>1 DEF Present
<1>4. CASE reading' = reading
  <2>1. ReadingsContinue'
    BY <1>1, <1>3, <1>4 DEF BytesInv, ReadingsContinue
  <2>2. ASSUME NEW i \in Interfaces, NEW c, baselines[i] # None, TakenFrom(i, baselines[i], c)
        PROVE  TakenFrom(i, baselines[i], c)'
    BY <1>1, <1>3, <1>4, <2>2 DEF TakenFrom, Behind, Snapshot, Continues, Congruent
  <2>3. BaselinesExplain'
    BY <1>1, <2>2 DEF BytesInv, BaselinesExplain
  <2> QED BY <1>2, <2>1, <2>3 DEF BytesInv
<1>5. CASE AnswerCounters
  <2>1. /\ reading'.counter = Present.counter /\ reading'.boots = Present.boots
        /\ reading'.resets = Present.resets /\ reading'.passed = Present.passed
    BY <1>5 DEF AnswerCounters, Present
  <2>2. \A r : Continues(r, reading') <=> Continues(r, Present)
    BY <2>1 DEF Continues
  <2>3. Continues(Present, Present)
    BY PresentType, ContinuesSame
  <2>4. ReadingsContinue'
    BY <1>1, <1>3, <2>1, <2>3 DEF ReadingsContinue, Continues
  <2>5. ASSUME NEW i \in Interfaces, NEW c, baselines[i] # None, TakenFrom(i, baselines[i], c)
        PROVE  TakenFrom(i, baselines[i], c)'
    <3> DEFINE r == Snapshot(c, baselines[i].truth)
    <3>1. Continues(r, Present) /\ Continues(r, reading')
      BY <2>2, <2>5 DEF TakenFrom
    <3>2. r' = r
      BY <1>1 DEF Snapshot
    <3> QED BY <1>1, <1>3, <2>5, <3>1, <3>2 DEF TakenFrom, Behind
  <2>6. BaselinesExplain'
    BY <1>1, <2>5 DEF BytesInv, BaselinesExplain
  <2> QED BY <1>2, <2>4, <2>6 DEF BytesInv
<1> QED
  BY <1>4, <1>5 DEF FetchNext, StartPoll, AnswerUptime, StampCounters

(* What persistence observes is what the router answered.                   *)
LEMMA StartKeepsBytes ==
    ASSUME TypeOK, BytesInv, NEW names \in SUBSET Wans, StartPersisting(names)
    PROVE  BytesInv'
<1>1. /\ UNCHANGED <<worldVars, baselines, samples>>
      /\ UNCHANGED <<boots, resets, counter, passed>>
      /\ reading # None /\ reading' = None /\ pc' = "members"
      /\ members' = {} /\ sum' = 0
      /\ obs' = Observation
  BY DEF StartPersisting, Answered, ForgetAnswers, worldVars, dbVars, TypeOK, PollTypeOK
<1>2. ExactBytesAreTrue'
  BY <1>1 DEF BytesInv, ExactBytesAreTrue, Sources
<1>3. SumIsOfMembers'
  BY <1>1, SumEmpty DEF SumIsOfMembers
<1>4. Present' = Present
  BY <1>1 DEF Present
<1>5. /\ Observed'.counter = reading.counter /\ Observed'.boots = reading.boots
      /\ Observed'.resets = reading.resets /\ Observed'.passed = reading.passed
  BY <1>1 DEF Observed, Observation, Snapshot
<1>6. /\ \A r : Continues(r, Observed') <=> Continues(r, reading)
      /\ \A q : Continues(Observed', q) <=> Continues(reading, q)
  BY <1>5 DEF Continues
<1>7. ReadingsContinue'
  <2>1. Continues(Observed', Present)
    BY <1>1, <1>6 DEF BytesInv, ReadingsContinue
  <2> QED BY <1>1, <1>4, <2>1 DEF ReadingsContinue
<1>8. ASSUME NEW i \in Interfaces, NEW c, baselines[i] # None, TakenFrom(i, baselines[i], c)
      PROVE  TakenFrom(i, baselines[i], c)'
  <2> DEFINE r == Snapshot(c, baselines[i].truth)
  <2>1. Continues(r, Present) /\ Continues(r, Observed')
    BY <1>1, <1>6, <1>8 DEF TakenFrom
  <2>2. r' = r
    BY <1>1 DEF Snapshot
  <2> QED BY <1>1, <1>4, <1>8, <2>1, <2>2 DEF TakenFrom, Behind
<1>9. BaselinesExplain'
  BY <1>1, <1>8 DEF BytesInv, BaselinesExplain
<1> QED BY <1>2, <1>3, <1>7, <1>9 DEF BytesInv

(* No step of the poller disturbs a stored byte count.                      *)
LEMMA PollerKeepsBytes == ASSUME TypeOK, TruthInv, BytesInv, PollerNext PROVE BytesInv'
<1>1. CASE FailPoll \/ LoseScope \/ DropAggregate \/ Restart
  <2>1. /\ UNCHANGED <<worldVars, samples>>
        /\ pc' = "idle" /\ reading' = None
        /\ \A i \in Interfaces : baselines'[i] \in {baselines[i], None}
    BY <1>1 DEF FailPoll, LoseScope, DropAggregate, Restart, EndPoll, ForgetAnswers, dbVars, Retain
  <2>2. SumIsOfMembers'
    BY <2>1 DEF SumIsOfMembers
  <2> QED
    BY <2>1, <2>2, SameBytes DEF BytesInv
<1>2. ASSUME NEW w \in Wans, SkipMember(w) \/ DropMember(w) PROVE BytesInv'
  <2>1. /\ UNCHANGED <<worldVars, samples, reading, pc, obs>>
        /\ \A i \in Interfaces : baselines'[i] \in {baselines[i], None}
    BY <1>2 DEF SkipMember, DropMember, dbVars, fetchVars, TypeOK, StoreTypeOK
  <2>2. SumIsOfMembers'
    BY <1>2 DEF SkipMember, DropMember, BytesInv, SumIsOfMembers
  <2> QED
    BY <2>1, <2>2, SameBytes DEF BytesInv
<1>3. ASSUME NEW w \in Wans, PersistMember(w) PROVE BytesInv'
  <2>1. PICK outcome \in Outcomes :
          PersistCounterObservation(w, obs.counter[w], {}, FALSE, Interfaces, outcome)
    BY <1>3 DEF PersistMember
  <2>2. pc = "members" /\ obs.counter[w] \in 0..U64Max /\ w \in Interfaces
    BY <1>3, MemberCounter DEF PersistMember
  <2>3. {} \in SUBSET Wans /\ FALSE \in BOOLEAN
    OBVIOUS
  <2>4. /\ UNCHANGED <<worldVars, reading, pc, obs>>
        /\ members \cap todo = {} /\ w \in todo
        /\ complete => sum = SumFunctionOnSet(obs.counter, members)
    BY <1>3, <2>2 DEF PersistMember, BytesInv, SumIsOfMembers, fetchVars
  <2>5. obs.counter[w] \in Int /\ \A v \in Wans : obs.counter[v] \in Int
    BY <2>2, CounterConstants DEF TypeOK, PollTypeOK, ObservationType
  <2>6. obs.counter[w] = SumFunctionOnSet(obs.counter, Behind(w, {}))
    <3>1. Behind(w, {}) = {w}
      BY CounterConstants DEF Behind
    <3> QED BY <2>4, <2>5, <3>1, SumOfOne
  <2>7. /\ ExactBytesAreTrue'
        /\ \A j \in Interfaces : baselines'[j] # None =>
              \E c \in [Wans -> 0..U64Max] : TakenFrom(j, baselines'[j], c)
    BY <2>1, <2>2, <2>3, <2>6, PersistKeepsBytes
  <2>8. BaselinesExplain' /\ ReadingsContinue'
    <3>1. UNCHANGED <<boots, resets, counter, passed>>
      BY <2>4 DEF worldVars
    <3>2. ReadingsContinue'
      BY <2>4, <3>1, SameSnapshots
         DEF BytesInv, ReadingsContinue, Observed, Continues, Congruent, Snapshot
    <3>3. \A i, b, c : TakenFrom(i, b, c) => TakenFrom(i, b, c)'
      BY <2>4, <3>1, SameSnapshots
    <3>4. ASSUME NEW j \in Interfaces, baselines'[j] # None
          PROVE  \E c \in [Wans -> 0..U64Max] : TakenFrom(j, baselines[j], c)'
      <4>1. PICK c \in [Wans -> 0..U64Max] : TakenFrom(j, baselines'[j], c)
        BY <2>7, <3>4
      <4>2. \A b : b = baselines'[j] => TakenFrom(j, b, c)'
        BY <3>3, <4>1
      <4>3. TakenFrom(j, baselines[j], c)'
        BY <4>2
      <4> QED BY <4>3
    <3> QED BY <3>2, <3>4 DEF BaselinesExplain
  <2>9. SumIsOfMembers'
    <3>1. /\ obs' = obs
          /\ members' = members \cup {w}
          /\ todo' = todo \ {w}
          /\ complete' => complete /\ sum' = sum + obs.counter[w]
      BY <1>3 DEF PersistMember
    <3>2. members \subseteq Wans /\ IsFiniteSet(members) /\ w \notin members
      BY <2>4, CounterConstants, FS_Subset DEF TypeOK, PollTypeOK
    <3>3. /\ SumFunctionOnSet(obs.counter, members \cup {w})
               = obs.counter[w] + SumFunctionOnSet(obs.counter, members)
          /\ SumFunctionOnSet(obs.counter, members) \in Int
      BY <2>5, <3>2, SumInsert, SumRemove
    <3>4. complete' => sum' = SumFunctionOnSet(obs.counter, members \cup {w})
      BY <2>4, <2>5, <3>1, <3>3
    <3> QED BY <2>4, <3>1, <3>4 DEF SumIsOfMembers
  <2> QED
    BY <2>7, <2>8, <2>9 DEF BytesInv
<1>4. CASE PersistAggregate
  <2>1. /\ pc = "members"
        /\ sum \in 0..U64Max
        /\ members \in SUBSET Wans
        /\ (~continuous) \in BOOLEAN
        /\ Aggregate \in Interfaces
    BY <1>4, Zenon DEF PersistAggregate, TypeOK, PollTypeOK, Interfaces
  <2>2. UNCHANGED worldVars /\ pc' = "idle" /\ reading' = None
    BY <1>4 DEF PersistAggregate, EndPoll, ForgetAnswers
  <2>3. sum = SumFunctionOnSet(obs.counter, Behind(Aggregate, members))
    BY <1>4, <2>1 DEF PersistAggregate, BytesInv, SumIsOfMembers, Behind
  <2>4. /\ ExactBytesAreTrue'
        /\ \A j \in Interfaces : baselines'[j] # None =>
              \E c \in [Wans -> 0..U64Max] : TakenFrom(j, baselines'[j], c)
    BY <1>4, <2>1, <2>3, PersistKeepsBytes DEF PersistAggregate
  <2>5. SumIsOfMembers' /\ ReadingsContinue'
    BY <2>2 DEF SumIsOfMembers, ReadingsContinue
  <2>6. BaselinesExplain'
    <3>1. UNCHANGED <<boots, resets, counter, passed>>
      BY <2>2 DEF worldVars
    <3>2. \A i, b, c : TakenFrom(i, b, c) => TakenFrom(i, b, c)'
      BY <2>2, <3>1, SameSnapshots
    <3>3. ASSUME NEW j \in Interfaces, baselines'[j] # None
          PROVE  \E c \in [Wans -> 0..U64Max] : TakenFrom(j, baselines[j], c)'
      <4>1. PICK c \in [Wans -> 0..U64Max] : TakenFrom(j, baselines'[j], c)
        BY <2>4, <3>3
      <4>2. \A b : b = baselines'[j] => TakenFrom(j, b, c)'
        BY <3>2, <4>1
      <4>3. TakenFrom(j, baselines[j], c)'
        BY <4>2
      <4> QED BY <4>3
    <3> QED BY <3>3 DEF BaselinesExplain
  <2> QED
    BY <2>4, <2>5, <2>6 DEF BytesInv
<1> QED
  BY <1>1, <1>2, <1>3, <1>4, FetchKeepsBytes, StartKeepsBytes DEF PollerNext, FetchNext

(* Readings, baselines and stored byte counts agree with what passed, in    *)
(* every reachable state.                                                   *)
LEMMA BytesInductive == Spec => []BytesInv
<1>1. Init => BytesInv
  BY DEF Init, PollerInit, DatabaseInit, BytesInv, SumIsOfMembers, ReadingsContinue,
         BaselinesExplain, ExactBytesAreTrue
<1>2. TypeOK /\ TruthInv /\ BytesInv /\ [Next]_vars => BytesInv'
  <2>1. ASSUME BytesInv, UNCHANGED vars PROVE BytesInv'
    <3>1. SumIsOfMembers'
      BY <2>1 DEF vars, pollVars, loopVars, BytesInv, SumIsOfMembers
    <3> QED BY <2>1, <3>1, SameBytes DEF vars, pollVars, fetchVars, loopVars, dbVars, BytesInv
  <2> QED BY <2>1, WorldKeepsBytes, PollerKeepsBytes DEF Next
<1> QED
  BY <1>1, <1>2, TypeCorrect, TruthInductive, PTL DEF Spec

(* Unless a counter was reset behind the poller's back, every exact sample  *)
(* is the number of bytes forwarded in its interval, wrap-around included,  *)
(* for one WAN and for the aggregate, whatever failed or restarted.         *)
THEOREM ExactCountsAreTrue == Spec => []ExactBytesAreTrue
<1>1. BytesInv => ExactBytesAreTrue
  BY DEF BytesInv
<1> QED
  BY <1>1, BytesInductive, PTL

-----------------------------------------------------------------------------
(* The aggregate and its members.                                           *)

(* No statement fails and the wall clock is never set back.  Otherwise a    *)
(* member's observation may be refused: it keeps an older baseline than the *)
(* aggregate, and its next sample covers a longer interval.                 *)
SteadyHost == "storage" \notin Faults /\ ClockSteps \subseteq Nat

group == baselines[Aggregate]

(* How far the wall clock was ahead when a poll looked at its clocks.       *)
Lead(wallMs, monoMs) == wallMs - monoMs

(* Baselines were taken in order, and the wall clock never lost time.       *)
TimeInv ==
    /\ pc # "members" => members = {}
    /\ polledAt # None =>
         /\ polledAt <= mono
         /\ pc = "fetching" => polledAt < asked
         /\ pc = "members" => polledAt < obs.mono
    /\ sampleTime # None => Lead(sampleTime.wall, sampleTime.mono) <= Lead(wall, mono)
    /\ pc = "members" => Lead(obs.wall, obs.mono) <= Lead(wall, mono)
    /\ \A i \in Interfaces : baselines[i] # None =>
         /\ baselines[i].mono <= mono
         /\ i \notin members => polledAt # None /\ baselines[i].mono <= polledAt
         /\ Lead(baselines[i].observed, baselines[i].mono) <= Lead(wall, mono)
         /\ sampleTime # None =>
              Lead(baselines[i].observed, baselines[i].mono)
                <= Lead(sampleTime.wall, sampleTime.mono)
         /\ pc = "members" =>
              Lead(baselines[i].observed, baselines[i].mono) <= Lead(obs.wall, obs.mono)

(* The baselines of the members were taken with the one of the aggregate. *)
MembersInStep ==
    /\ pc = "members" => \A w \in members : baselines[w] # None =>
        baselines[w].observed = obs.wall /\ baselines[w].counter = obs.counter[w]
    /\ group # None => \A w \in group.signature \ members :
        baselines[w] # None => baselines[w].observed = group.observed

(* Every member of a poll that is continuous so far has stored d[w] bytes. *)
StoredBy(d) ==
    \A w \in members : \E s \in samples :
        /\ s.iface = w
        /\ s.end = obs.wall
        /\ s.bytes = d[w]
        /\ group # None /\ w \in group.signature => s.start = group.observed

(* The counters of the members when the aggregate's baseline was taken. *)
Prior(d) == [w \in Wans |-> IF w \in members THEN obs.counter[w] - d[w]
                            ELSE IF baselines[w] = None THEN 0 ELSE baselines[w].counter]

AddsUp(d) ==
    group # None /\ (\A w \in group.signature \ members : baselines[w] # None) =>
        Congruent(SumFunctionOnSet(Prior(d), group.signature), group.counter)

GroupAddsUp ==
    pc # "members" \/ (continuous /\ complete) =>
        \E d \in [Wans -> Nat] : (pc = "members" => StoredBy(d)) /\ AddsUp(d)

OneSamplePerEnd ==
    \A s, t \in samples : s.iface = t.iface /\ s.end = t.end => s = t

GroupInv ==
    TimeInv /\ MembersInStep /\ GroupAddsUp /\ OneSamplePerEnd /\ AggregateBackedByMembers

(* Without storage faults an observation is refused only when there is no   *)
(* baseline, and a new sample ends after everything stored before it.       *)
LEMMA SteadyPersist ==
    ASSUME SteadyHost, TypeOK, BaselineIsCheckpoint, SamplesAndGapsTile, TimeInv,
           pc = "members", NEW i \in Interfaces, i \notin members, NEW n \in 0..U64Max,
           NEW sig \in SUBSET Wans, NEW forced \in BOOLEAN, NEW keep, NEW outcome,
           PersistCounterObservation(i, n, sig, forced, keep, outcome)
    PROVE  /\ \/ baselines' = Retain(keep) /\ baselines[i] = None
              \/ \E m : BaselineStep(i, n, sig, m, keep)
           /\ \/ samples' = samples /\ outcome # "ExactSample"
              \/ /\ baselines[i] # None
                 /\ MayRecordExactSample(baselines[i], n, sig, forced)
                 /\ samples' = samples \cup {SampleSince(i, baselines[i], n, sig)}
                 /\ \A s \in samples : s.iface = i => s.end < obs.wall
<1> DEFINE p == baselines[i]
<1>1. /\ obs.wall \in Int /\ obs.mono \in Int
      /\ polledAt # None => polledAt \in Int
      /\ p # None => p.observed \in Int /\ p.mono \in Int
  BY DEF TypeOK, PollTypeOK, ObservationType, StoreTypeOK, BaselineType
<1>2. p # None => obs.wall > p.observed
  BY <1>1 DEF TimeInv, Lead
<1>3. \/ baselines' = Retain(keep) /\ p = None
      \/ \E m : BaselineStep(i, n, sig, m, keep)
  BY <1>1, <1>2 DEF PersistCounterObservation, FirstObservation, RepeatedObservation,
         ResumeAfterDiscontinuity, RecordSample, RecordGap, RefuseObservation, BaselineStep,
         SteadyHost, TimestampDoesNotAdvance
<1>4. CASE RecordSample(i, n, sig, forced, keep)
  <2>1. /\ p # None /\ MayRecordExactSample(p, n, sig, forced)
        /\ checkpoint[i] # None /\ checkpoint[i].observed = p.observed
    BY <1>4 DEF RecordSample, BaselineIsCheckpoint
  <2>2. samples' = samples \cup {SampleSince(i, p, n, sig)}
    <3>1. obs # None /\ obs.wall > checkpoint[i].observed
      BY <1>2, <2>1 DEF TypeOK, PollTypeOK
    <3> QED BY <1>4, <2>1, <3>1, FreshSample DEF RecordSample
  <2>3. ASSUME NEW s \in samples, s.iface = i PROVE s.end < obs.wall
    <3> DEFINE e == [iface |-> s.iface, start |-> s.start, end |-> s.end, exact |-> TRUE]
    <3>1. e \in Entries /\ e.iface = i /\ e.end = s.end
      BY <2>3 DEF Entries
    <3>2. Frontier[i] = p.observed
      BY <2>1 DEF Frontier
    <3>3. s.end <= p.observed
      BY <3>1, <3>2 DEF SamplesAndGapsTile, Ledger!EntriesBehindFrontier
    <3>4. s.end \in Int
      BY DEF TypeOK, StoreTypeOK, SampleType
    <3> QED BY <1>1, <1>2, <2>1, <3>3, <3>4
  <2> QED BY <1>3, <2>1, <2>2, <2>3
<1>5. CASE ~RecordSample(i, n, sig, forced, keep)
  <2>1. samples' = samples /\ outcome # "ExactSample"
    BY <1>5 DEF PersistCounterObservation, FirstObservation, InitializeCheckpointIfAbsent,
         RepeatedObservation, ResumeAfterDiscontinuity, RecordGap,
         RefuseObservation, CommitGapAndCheckpoint, dbVars
  <2> QED BY <1>3, <2>1
<1> QED BY <1>4, <1>5

(* The bytes the members stored make up the aggregate's. *)
LEMMA GroupSampleAddsUp ==
    ASSUME TypeOK, BytesInv, GroupInv, pc = "members", complete, continuous,
           group # None, MayRecordExactSample(group, sum, members, FALSE),
           NEW parts, parts = {s \in samples : /\ s.iface \in members
                                               /\ s.start = group.observed
                                               /\ s.end = obs.wall}
    PROVE  /\ {s.iface : s \in parts} = members
           /\ CounterDelta(group.counter, sum) = SumFunction([s \in parts |-> s.bytes]) % (U64Max + 1)
<1>1. PICK d \in [Wans -> Nat] : StoredBy(d) /\ AddsUp(d)
  BY DEF GroupInv, GroupAddsUp
<1>2. /\ group.signature = members /\ members \subseteq Wans /\ IsFiniteSet(members)
      /\ group.counter \in 0..U64Max /\ sum \in 0..U64Max /\ U64Max \in Nat
      /\ obs.counter \in [Wans -> 0..U64Max]
  <2>1. group.signature = members
    BY DEF MayRecordExactSample
  <2>2. members \subseteq Wans /\ sum \in 0..U64Max /\ obs.counter \in [Wans -> 0..U64Max]
    BY DEF TypeOK, PollTypeOK, ObservationType
  <2>3. IsFiniteSet(members) /\ U64Max \in Nat
    BY <2>2, CounterConstants, FS_Subset
  <2>4. group \in BaselineType
    BY DEF TypeOK, StoreTypeOK, Interfaces, group
  <2>5. group.counter \in 0..U64Max
    BY <2>4 DEF BaselineType
  <2> QED BY <2>1, <2>2, <2>3, <2>5
<1> DEFINE b == [w \in members |-> CHOOSE s \in parts : s.iface = w]
           f == [s \in parts |-> s.bytes]
<1>3. ASSUME NEW w \in members PROVE b[w] \in parts /\ b[w].iface = w /\ f[b[w]] = d[w] /\ d[w] \in Int
  <2>1. PICK s \in samples : s.iface = w /\ s.end = obs.wall /\ s.bytes = d[w] /\ s.start = group.observed
    BY <1>1, <1>2 DEF StoredBy
  <2>2. s \in parts
    BY <2>1
  <2>3. b[w] \in parts /\ b[w].iface = w
    BY <2>1, <2>2
  <2>4. b[w] = s
    BY <2>1, <2>3 DEF GroupInv, OneSamplePerEnd
  <2>5. f[b[w]] = d[w]
    BY <2>1, <2>2, <2>4
  <2> QED BY <1>2, <2>3, <2>5
<1> HIDE DEF b, f
<1>4. parts = {b[w] : w \in members}
  <2>1. ASSUME NEW s \in parts PROVE s.iface \in members /\ b[s.iface] = s
    BY <1>3, <2>1 DEF GroupInv, OneSamplePerEnd
  <2>2. \A s \in parts : s \in {b[w] : w \in members}
    BY <2>1
  <2>3. \A w \in members : b[w] \in parts
    BY <1>3
  <2> QED BY <2>2, <2>3
<1>5. {s.iface : s \in parts} = members
  <2>1. \A w \in members : b[w] \in parts /\ b[w].iface = w
    BY <1>3
  <2>2. \A s \in parts : s.iface \in members
    OBVIOUS
  <2> QED BY <2>1, <2>2
<1>6. SumFunctionOnSet(f, parts) = SumFunctionOnSet(d, members)
  <2>1. \A v, w \in members : b[v] = b[w] => v = w
    BY <1>3
  <2>2. \A w \in members : d[w] \in Int /\ f[b[w]] = d[w]
    BY <1>3
  <2>3. SumFunctionOnSet(f, {b[w] : w \in members}) = SumFunctionOnSet(d, members)
    BY <1>2, <2>1, <2>2, SumRenamed
  <2> QED BY <1>4, <2>3
<1>7. SumFunction(f) = SumFunctionOnSet(f, parts)
  BY DEF SumFunction, f
<1>8. \A w \in members : /\ obs.counter[w] \in Int /\ d[w] \in Int /\ Prior(d)[w] \in Int
                         /\ obs.counter[w] = Prior(d)[w] + d[w]
  BY <1>2 DEF Prior
<1>9. sum = SumFunctionOnSet(Prior(d), members) + SumFunctionOnSet(d, members)
  <2>1. sum = SumFunctionOnSet(obs.counter, members)
    BY DEF BytesInv, SumIsOfMembers
  <2> QED BY <1>2, <1>8, <2>1, SumAdds
<1>10. SumFunctionOnSet(Prior(d), members) \in Int /\ SumFunctionOnSet(d, members) \in Int
  BY <1>2, <1>8, SumRemove
<1>11. Congruent(SumFunctionOnSet(Prior(d), members), group.counter)
  BY <1>1, <1>2 DEF AddsUp
<1>12. CounterDelta(group.counter, sum) \in 0..U64Max /\ Congruent(CounterDelta(group.counter, sum), sum - group.counter)
  <2>1. CounterDelta(group.counter, sum) # None /\ CounterDelta(group.counter, sum) <= I64Max
    BY DEF MayRecordExactSample, DeltaIsExact
  <2>2. CounterDelta(group.counter, sum) \in 0..I64Max
    BY <1>2, <2>1, DeltaType
  <2>3. I64Max \in Int /\ I64Max <= U64Max
    BY <1>2 DEF I64Max
  <2> QED BY <1>2, <2>1, <2>2, <2>3, DeltaIsCongruent
<1>13. Congruent(CounterDelta(group.counter, sum), SumFunctionOnSet(d, members))
  <2>1. sum - SumFunctionOnSet(Prior(d), members) = SumFunctionOnSet(d, members)
        /\ sum \in Int /\ group.counter \in Int /\ sum - group.counter \in Int
        /\ CounterDelta(group.counter, sum) \in Int
    BY <1>2, <1>9, <1>10, <1>12
  <2>2. Congruent(sum - SumFunctionOnSet(Prior(d), members), sum - group.counter)
    BY <1>10, <1>11, <2>1, CongruentSame, CongruentSubtracts
  <2>3. Congruent(sum - group.counter, SumFunctionOnSet(d, members))
    BY <1>10, <2>1, <2>2, CongruentSame, CongruentTrans
  <2> QED BY <1>10, <1>12, <2>1, <2>3, CongruentTrans
<1>14. CounterDelta(group.counter, sum) = SumFunctionOnSet(d, members) % (U64Max + 1)
  BY <1>10, <1>12, <1>13, CongruentIsRemainder
<1> QED BY <1>5, <1>6, <1>7, <1>14 DEF f

(* What the type says of a baseline.                                        *)
LEMMA BaselineFields ==
    ASSUME TypeOK, NEW i \in Interfaces, baselines[i] # None
    PROVE  /\ baselines[i] \in BaselineType
           /\ baselines[i].mono \in Int /\ baselines[i].observed \in Int
           /\ baselines[i].counter \in 0..U64Max
           /\ baselines[i].signature \subseteq Wans
<1>1. baselines[i] \in BaselineType
  BY DEF TypeOK, StoreTypeOK
<1> QED BY <1>1 DEF BaselineType

(* The WANs and the aggregate make up the interfaces.                       *)
LEMMA WansAreInterfaces == Wans \subseteq Interfaces /\ Aggregate \in Interfaces /\ Aggregate \notin Wans
  BY CounterConstants DEF Interfaces

(* The samples of an aggregate stay the same when a sample is added. *)
LEMMA BackingStays ==
    ASSUME TypeOK, AggregateBackedByMembers, OneSamplePerEnd,
           NEW new, samples' = samples \cup {new},
           \A s \in samples : s.iface = new.iface => s.end < new.end, new.end \in Int,
           new.iface = Aggregate =>
             LET parts == {s \in samples : /\ s.iface \in new.signature
                                           /\ s.start = new.start
                                           /\ s.end = new.end} IN
             /\ {s.iface : s \in parts} = new.signature
             /\ new.bytes = SumFunction([s \in parts |-> s.bytes]) % (U64Max + 1)
             /\ new.signature \subseteq Wans
    PROVE  OneSamplePerEnd' /\ AggregateBackedByMembers'
<1>1. \A s \in samples : s.end \in Int /\ s.signature \subseteq Wans
  BY DEF TypeOK, StoreTypeOK, SampleType
<1>2. OneSamplePerEnd'
  BY <1>1 DEF OneSamplePerEnd
<1> DEFINE Parts(a) == {s \in samples : /\ s.iface \in a.signature
                                        /\ s.start = a.start
                                        /\ s.end = a.end}
<1>3. ASSUME NEW a \in samples', a.iface = Aggregate
      PROVE  /\ Parts(a)' = Parts(a)
             /\ {s.iface : s \in Parts(a)} = a.signature
             /\ a.bytes = SumFunction([s \in Parts(a) |-> s.bytes]) % (U64Max + 1)
  <2>1. /\ {s.iface : s \in Parts(a)} = a.signature
        /\ a.bytes = SumFunction([s \in Parts(a) |-> s.bytes]) % (U64Max + 1)
        /\ a.signature \subseteq Wans
    <3>1. CASE a = new
      BY <1>3, <3>1
    <3>2. CASE a \in samples
      BY <1>1, <1>3, <3>2 DEF AggregateBackedByMembers
    <3> QED BY <3>1, <3>2
  <2>2. ~(new.iface \in a.signature /\ new.end = a.end)
    <3> SUFFICES ASSUME new.iface \in a.signature, new.end = a.end PROVE FALSE
      OBVIOUS
    <3>1. PICK s \in Parts(a) : s.iface = new.iface
      BY <2>1
    <3>2. s \in samples /\ s.end = new.end
      BY <3>1
    <3> QED BY <1>1, <3>1, <3>2
  <2>3. Parts(a)' = Parts(a)
    BY <2>2
  <2> QED BY <2>1, <2>3
<1>4. AggregateBackedByMembers'
  <2> SUFFICES ASSUME NEW a \in samples', a.iface = Aggregate
               PROVE  LET parts == Parts(a)' IN
                      /\ {s.iface : s \in parts} = a.signature
                      /\ a.bytes = SumFunction([s \in parts |-> s.bytes]) % (U64Max + 1)
    BY DEF AggregateBackedByMembers
  <2> HIDE DEF Parts
  <2> QED BY <1>3
<1> QED BY <1>2, <1>4

(* Persisting one WAN keeps the members in step with the aggregate.         *)
LEMMA MemberKeepsGroup ==
    ASSUME SteadyHost, TypeOK, BaselineIsCheckpoint, SamplesAndGapsTile, TruthInv, BytesInv,
           GroupInv, NEW w \in Wans, PersistMember(w)
    PROVE  GroupInv'
<1>1. PICK outcome \in Outcomes :
        /\ PersistCounterObservation(w, obs.counter[w], {}, FALSE, Interfaces, outcome)
        /\ continuous' = (continuous /\ outcome = "ExactSample")
  BY DEF PersistMember
<1>2. /\ pc = "members" /\ pc' = "members" /\ obs' = obs /\ polledAt' = polledAt
      /\ mono' = mono /\ wall' = wall /\ sampleTime' = sampleTime
      /\ w \in todo /\ members' = members \cup {w}
      /\ complete' => complete
  BY DEF PersistMember, worldVars, fetchVars
<1>3. /\ obs.counter[w] \in 0..U64Max /\ w \in Interfaces /\ obs # None
      /\ obs.counter \in [Wans -> 0..U64Max]
      /\ w \notin members /\ w # Aggregate /\ members \subseteq Wans
      /\ obs.wall \in Int /\ obs.mono \in Int /\ mono \in Int /\ wall \in Int
      /\ obs.mono <= mono /\ sampleTime = None
  BY <1>2, MemberCounter, WansAreInterfaces
     DEF BytesInv, SumIsOfMembers, TruthInv, FetchIsTrue, ObservationIsPast, IsPast,
         TypeOK, PollTypeOK, WorldTypeOK, ObservationType
<1>4. {} \in SUBSET Wans /\ FALSE \in BOOLEAN /\ TimeInv
  BY DEF GroupInv
<1>5. /\ \/ baselines' = Retain(Interfaces) /\ baselines[w] = None
         \/ \E m : BaselineStep(w, obs.counter[w], {}, m, Interfaces)
      /\ \/ samples' = samples /\ outcome # "ExactSample"
         \/ /\ baselines[w] # None
            /\ MayRecordExactSample(baselines[w], obs.counter[w], {}, FALSE)
            /\ samples' = samples \cup {SampleSince(w, baselines[w], obs.counter[w], {})}
            /\ \A s \in samples : s.iface = w => s.end < obs.wall
  BY <1>1, <1>2, <1>3, <1>4, SteadyPersist
<1>6. /\ \A i \in Interfaces : i # w => baselines'[i] = baselines[i]
      /\ \/ baselines'[w] = None
         \/ /\ baselines'[w] # None
            /\ baselines'[w].observed = obs.wall
            /\ baselines'[w].counter = obs.counter[w]
            /\ baselines'[w].mono = obs.mono
  <2>1. CASE baselines' = Retain(Interfaces) /\ baselines[w] = None
    BY <1>3, <2>1 DEF Retain
  <2>2. ASSUME NEW m, BaselineStep(w, obs.counter[w], {}, m, Interfaces)
        PROVE  <1>6!:
    <3> DEFINE b == BaselineFromObservation(obs.counter[w], {}, m)
    <3>1. b.observed = obs.wall /\ b.counter = obs.counter[w] /\ b.mono = obs.mono
      BY <1>3 DEF BaselineFromObservation
    <3>2. baselines' = [Retain(Interfaces) EXCEPT ![w] = b]
      BY <2>2 DEF BaselineStep, InsertBaseline
    <3> HIDE DEF b
    <3> QED BY <1>3, <3>1, <3>2 DEF Retain
  <2> QED BY <1>5, <2>1, <2>2
<1>7. group' = group
  BY <1>3, <1>6, WansAreInterfaces DEF group
<1>8. TimeInv'
  <2>1. ASSUME NEW i \in Interfaces, baselines'[i] # None
        PROVE  /\ baselines'[i].mono <= mono
               /\ i \notin members \cup {w} => polledAt # None /\ baselines'[i].mono <= polledAt
               /\ Lead(baselines'[i].observed, baselines'[i].mono) <= Lead(obs.wall, obs.mono)
               /\ Lead(baselines'[i].observed, baselines'[i].mono) <= Lead(wall, mono)
    <3>1. CASE i = w
      BY <1>2, <1>3, <1>4, <1>6, <2>1, <3>1 DEF TimeInv, Lead
    <3>2. CASE i # w
      BY <1>2, <1>4, <1>6, <2>1, <3>2 DEF TimeInv
    <3> QED BY <3>1, <3>2
  <2> QED BY <1>2, <1>3, <1>4, <2>1 DEF TimeInv
<1>9. MembersInStep'
  <2>1. ASSUME NEW v \in members', baselines'[v] # None
        PROVE  baselines'[v].observed = obs.wall /\ baselines'[v].counter = obs.counter[v]
    <3>1. CASE v = w
      BY <1>6, <2>1, <3>1
    <3>2. CASE v # w
      BY <1>2, <1>3, <1>6, <2>1, <3>2, WansAreInterfaces DEF GroupInv, MembersInStep
    <3> QED BY <3>1, <3>2
  <2>2. ASSUME group # None, NEW v \in group.signature \ members', baselines'[v] # None
        PROVE  baselines'[v].observed = group.observed
    <3>1. v \in Wans /\ v # w /\ v \in group.signature \ members
      BY <1>2, <2>2, BaselineFields, WansAreInterfaces DEF group
    <3> QED BY <1>6, <2>2, <3>1, WansAreInterfaces DEF GroupInv, MembersInStep
  <2> QED BY <1>2, <1>7, <2>1, <2>2 DEF MembersInStep
<1>10. OneSamplePerEnd' /\ AggregateBackedByMembers'
  <2>1. CASE samples' = samples
    BY <2>1 DEF GroupInv, OneSamplePerEnd, AggregateBackedByMembers
  <2>2. CASE /\ samples' = samples \cup {SampleSince(w, baselines[w], obs.counter[w], {})}
             /\ \A s \in samples : s.iface = w => s.end < obs.wall
    <3> DEFINE new == SampleSince(w, baselines[w], obs.counter[w], {})
    <3>1. new.iface = w /\ new.end = obs.wall
      BY DEF SampleSince
    <3> HIDE DEF new
    <3>2. new.end \in Int /\ new.iface # Aggregate
      BY <1>3, <3>1
    <3> QED BY <2>2, <3>1, <3>2, BackingStays DEF GroupInv, new
  <2> QED BY <1>5, <2>1, <2>2
<1>11. GroupAddsUp'
  <2> SUFFICES ASSUME continuous', complete'
               PROVE  \E d \in [Wans -> Nat] : StoredBy(d)' /\ AddsUp(d)'
    BY <1>2 DEF GroupAddsUp
  <2>1. continuous /\ complete /\ outcome = "ExactSample"
    BY <1>1, <1>2
  <2>2. PICK d \in [Wans -> Nat] : StoredBy(d) /\ AddsUp(d)
    BY <1>2, <2>1 DEF GroupInv, GroupAddsUp
  <2> DEFINE p == baselines[w]
             new == SampleSince(w, p, obs.counter[w], {})
  <2>3. /\ p # None
        /\ MayRecordExactSample(p, obs.counter[w], {}, FALSE)
        /\ samples' = samples \cup {new}
    BY <1>5, <2>1
  <2>4. new.iface = w /\ new.end = obs.wall /\ new.start = p.observed
        /\ new.bytes = CounterDelta(p.counter, obs.counter[w])
    BY <1>3 DEF SampleSince
  <2>5. p.counter \in 0..U64Max /\ obs.counter[w] \in 0..U64Max
    BY <1>3, <2>3, BaselineFields
  <2>6. new.bytes \in Nat /\ Congruent(new.bytes, obs.counter[w] - p.counter)
    <3>1. CounterDelta(p.counter, obs.counter[w]) # None /\ CounterDelta(p.counter, obs.counter[w]) <= I64Max
      BY <1>3, <2>3 DEF MayRecordExactSample, DeltaIsExact
    <3>2. CounterDelta(p.counter, obs.counter[w]) \in 0..I64Max
      BY <2>5, <3>1, DeltaType
    <3>3. CounterDelta(p.counter, obs.counter[w]) \in Nat
      BY <3>2
    <3>4. Congruent(CounterDelta(p.counter, obs.counter[w]), obs.counter[w] - p.counter)
      BY <2>5, <3>1, DeltaIsCongruent
    <3> QED BY <2>4, <3>3, <3>4
  <2> HIDE DEF new
  <2>7. PICK e \in [Wans -> Nat] : e[w] = new.bytes /\ \A v \in Wans : v # w => e[v] = d[v]
    <3>1. [d EXCEPT ![w] = new.bytes] \in [Wans -> Nat]
      BY <2>6
    <3> QED BY <3>1
  <2>8. group # None /\ w \in group.signature => p.observed = group.observed
    BY <1>3, <2>3 DEF GroupInv, MembersInStep
  <2>9. StoredBy(e)'
    <3> SUFFICES ASSUME NEW v \in members \cup {w}
                 PROVE  \E s \in samples' : /\ s.iface = v
                                            /\ s.end = obs.wall
                                            /\ s.bytes = e[v]
                                            /\ group # None /\ v \in group.signature => s.start = group.observed
      BY <1>2, <1>7 DEF StoredBy
    <3>1. CASE v = w
      BY <2>3, <2>4, <2>7, <2>8, <3>1
    <3>2. CASE v \in members
      <4>1. v \in Wans /\ v # w
        BY <1>3, <3>2
      <4>2. PICK s \in samples : /\ s.iface = v
                                 /\ s.end = obs.wall
                                 /\ s.bytes = d[v]
                                 /\ group # None /\ v \in group.signature => s.start = group.observed
        BY <2>2, <3>2 DEF StoredBy
      <4> QED BY <2>3, <2>7, <4>1, <4>2
    <3> QED BY <3>1, <3>2
  <2>10. AddsUp(e)'
    <3> SUFFICES ASSUME group # None, \A v \in group.signature \ (members \cup {w}) : baselines'[v] # None
                 PROVE  Congruent(SumFunctionOnSet(Prior(e)', group.signature), group.counter)
      BY <1>2, <1>7 DEF AddsUp, Congruent
    <3>1. group.signature \subseteq Wans /\ group.counter \in Int
      BY BaselineFields, WansAreInterfaces DEF group
    <3>2. \A v \in group.signature \ members : baselines[v] # None
      BY <1>6, <2>3, <3>1, WansAreInterfaces
    <3>3. Congruent(SumFunctionOnSet(Prior(d), group.signature), group.counter)
      BY <2>2, <3>2 DEF AddsUp
    <3>4. ASSUME NEW v \in group.signature
          PROVE  Prior(e)'[v] \in Int /\ Prior(d)[v] \in Int /\ Congruent(Prior(e)'[v], Prior(d)[v])
      <4>1. obs.counter[v] \in 0..U64Max /\ U64Max \in Nat /\ v \in Wans
        BY <1>3, <3>1, CounterConstants
      <4>2. CASE v = w
        <5>1. Prior(e)'[v] = obs.counter[w] - new.bytes /\ Prior(d)[v] = p.counter
          BY <1>2, <1>3, <2>3, <2>7, <4>1, <4>2 DEF Prior
        <5>2. Congruent(obs.counter[w] - new.bytes, obs.counter[w] - (obs.counter[w] - p.counter))
          <6>1. obs.counter[w] \in Int /\ new.bytes \in Int /\ obs.counter[w] - p.counter \in Int
            BY <2>5, <2>6
          <6> QED BY <2>6, <6>1, CongruentSame, CongruentSubtracts
        <5>3. obs.counter[w] - (obs.counter[w] - p.counter) = p.counter
          BY <2>5
        <5> QED BY <2>5, <2>6, <5>1, <5>2, <5>3
      <4>3. CASE v # w
        <5>1. e[v] = d[v] /\ d[v] \in Nat /\ baselines'[v] = baselines[v]
          BY <1>6, <2>7, <4>1, <4>3, WansAreInterfaces
        <5>2. Prior(e)'[v] = Prior(d)[v]
          BY <1>2, <4>1, <4>3, <5>1 DEF Prior
        <5>3. v \notin members => baselines[v].counter \in Int
          BY <3>2, <4>1, BaselineFields, WansAreInterfaces
        <5>4. Prior(d)[v] \in Int
          BY <3>2, <4>1, <5>1, <5>3 DEF Prior
        <5> QED BY <5>2, <5>4, CongruentSame
      <4> QED BY <4>2, <4>3
    <3>5. IsFiniteSet(group.signature)
      BY <3>1, CounterConstants, FS_Subset
    <3> DEFINE f == Prior(e)'
               g == Prior(d)
    <3>6. Congruent(SumFunctionOnSet(f, group.signature), SumFunctionOnSet(g, group.signature))
          /\ SumFunctionOnSet(f, group.signature) \in Int /\ SumFunctionOnSet(g, group.signature) \in Int
      <4> HIDE DEF f, g
      <4> QED BY <3>4, <3>5, SumIsCongruent, SumRemove DEF f, g
    <3> HIDE DEF f, g
    <3>7. Congruent(SumFunctionOnSet(f, group.signature), group.counter)
      BY <3>1, <3>3, <3>6, CongruentTrans DEF g
    <3> QED BY <3>7 DEF f
  <2> QED BY <2>7, <2>9, <2>10
<1> QED BY <1>8, <1>9, <1>10, <1>11 DEF GroupInv

(* A sum that is not open adds up to anything. *)
LEMMA NoGroupAddsUp ==
    ASSUME pc' = "idle", group' = None
    PROVE  GroupAddsUp'
<1>1. [w \in Wans |-> 0] \in [Wans -> Nat]
  OBVIOUS
<1>2. \A d : AddsUp(d)'
  BY DEF AddsUp
<1> QED BY <1>1, <1>2 DEF GroupAddsUp

(* A bound on a clock's lead survives when the lead grows.                  *)
LEMMA LosesNoTime ==
    ASSUME NEW x \in Int, NEW y \in Int, NEW d \in Int, NEW e \in Int, d <= e, x - y <= d
    PROVE  x - y <= e
  OBVIOUS

(* The world does not move while a poll persists, and time moves forward.   *)
LEMMA WorldKeepsGroup ==
    ASSUME SteadyHost, TypeOK, GroupInv, WorldNext PROVE GroupInv'
<1>1. /\ pc # "members" /\ pc' = pc /\ baselines' = baselines /\ polledAt' = polledAt
      /\ members' = members /\ members = {} /\ samples' = samples
      /\ asked' = asked /\ sampleTime' = sampleTime
  BY DEF WorldNext, pollVars, fetchVars, loopVars, dbVars, GroupInv, TimeInv
<1>2. /\ mono \in Int /\ wall \in Int /\ mono' \in Int /\ wall' \in Int
      /\ mono <= mono' /\ wall - mono <= wall' - mono'
  <2>1. /\ mono \in Int /\ wall \in Int
        /\ TickMs \in Nat /\ RebootMs \in Nat /\ ClockSteps \subseteq Nat
    BY CounterConstants DEF SteadyHost, TypeOK, WorldTypeOK
  <2> QED BY <2>1 DEF WorldNext, Tick, Reboot, ResetCounter, StepClock
<1>3. /\ \A x \in Int : x <= mono => x <= mono'
      /\ \A x \in Int, y \in Int : Lead(x, y) <= Lead(wall, mono) => Lead(x, y) <= Lead(wall, mono)'
  <2>1. \A x \in Int : x <= mono => x <= mono'
    BY <1>2
  <2>2. ASSUME NEW x \in Int, NEW y \in Int, Lead(x, y) <= Lead(wall, mono)
        PROVE  Lead(x, y) <= Lead(wall, mono)'
    <3> DEFINE now == wall - mono
              later == wall' - mono'
    <3>1. now \in Int
      BY <1>2
    <3>2. later \in Int
      BY <1>2
    <3>3. now <= later
      BY <1>2
    <3>4. x - y <= now
      BY <2>2 DEF Lead
    <3> HIDE DEF now, later
    <3>5. x - y <= later
      BY <3>1, <3>2, <3>3, <3>4, LosesNoTime
    <3> QED BY <3>5 DEF Lead, later
  <2> QED BY <2>1, <2>2
<1>4. TimeInv'
  <2>1. /\ polledAt # None => polledAt \in Int
        /\ sampleTime # None => sampleTime.wall \in Int /\ sampleTime.mono \in Int
    BY DEF TypeOK, PollTypeOK, SampleTimeType
  <2>2. /\ polledAt # None => polledAt <= mono'
        /\ sampleTime # None =>
             Lead(sampleTime.wall, sampleTime.mono) <= Lead(wall, mono)'
    BY <1>3, <2>1 DEF GroupInv, TimeInv
  <2>3. ASSUME NEW i \in Interfaces, baselines[i] # None
        PROVE  /\ baselines[i].mono <= mono'
               /\ Lead(baselines[i].observed, baselines[i].mono) <= Lead(wall, mono)'
    BY <1>3, <2>3, BaselineFields DEF GroupInv, TimeInv
  <2> QED BY <1>1, <2>2, <2>3 DEF GroupInv, TimeInv, Lead
<1>5. MembersInStep'
  BY <1>1 DEF GroupInv, MembersInStep, group
<1>6. GroupAddsUp'
  <2>1. PICK d \in [Wans -> Nat] : AddsUp(d)
    BY <1>1 DEF GroupInv, GroupAddsUp
  <2>2. Prior(d)' = Prior(d)
    BY <1>1 DEF Prior
  <2>3. AddsUp(d)'
    BY <1>1, <2>1, <2>2 DEF AddsUp, group, Congruent
  <2> QED BY <1>1, <2>3 DEF GroupAddsUp
<1>7. OneSamplePerEnd' /\ AggregateBackedByMembers'
  BY <1>1 DEF GroupInv, OneSamplePerEnd, AggregateBackedByMembers
<1> QED BY <1>4, <1>5, <1>6, <1>7 DEF GroupInv

(* What the members and the aggregate have stored outlives every step that  *)
(* leaves baselines and tables alone and persists nothing yet.              *)
LEMMA NothingPersistedKeepsGroup ==
    ASSUME GroupInv, pc # "members", members' = {}, UNCHANGED <<baselines, samples>>, TimeInv',
           \/ pc' # "members"
           \/ pc' = "members" /\ StoredBy([w \in Wans |-> 0])'
    PROVE  GroupInv'
<1>1. members = {}
  BY DEF GroupInv, TimeInv
<1>2. MembersInStep'
  BY <1>1 DEF GroupInv, MembersInStep, group
<1>3. GroupAddsUp'
  <2>1. PICK d \in [Wans -> Nat] : AddsUp(d)
    BY DEF GroupInv, GroupAddsUp
  <2>2. Prior(d)' = Prior(d)
    BY <1>1 DEF Prior
  <2>3. AddsUp(d)' /\ StoredBy(d)'
    BY <1>1, <2>1, <2>2 DEF AddsUp, group, Congruent, StoredBy
  <2> QED BY <2>3 DEF GroupAddsUp
<1>4. OneSamplePerEnd' /\ AggregateBackedByMembers'
  BY DEF GroupInv, OneSamplePerEnd, AggregateBackedByMembers
<1> QED BY <1>2, <1>3, <1>4 DEF GroupInv

(* Fetching stores nothing, and the clocks are looked at after the last     *)
(* poll has ended.                                                          *)
LEMMA FetchKeepsGroup ==
    ASSUME TypeOK, GroupInv, FetchNext PROVE GroupInv'
<1>1. /\ UNCHANGED <<mono, wall, baselines, samples, polledAt, members>>
      /\ pc # "members" /\ pc' = "fetching"
      /\ members = {}
  BY FetchFrame DEF worldVars, loopVars, dbVars, GroupInv, TimeInv
<1>2. /\ mono \in Int /\ wall \in Int
  BY DEF TypeOK, WorldTypeOK
<1>3. polledAt # None => polledAt < asked'
  BY <1>1 DEF FetchNext, StartPoll, PollDue, AnswerUptime, AnswerCounters, StampCounters,
     InTime, GroupInv, TimeInv
<1>4. \/ sampleTime' = sampleTime
      \/ sampleTime' = [wall |-> wall, mono |-> mono]
  BY DEF FetchNext, StartPoll, AnswerUptime, AnswerCounters, StampCounters
<1>5. sampleTime' # None => Lead(sampleTime'.wall, sampleTime'.mono) <= Lead(wall, mono)
  BY <1>2, <1>4 DEF GroupInv, TimeInv, Lead
<1>6. ASSUME NEW i \in Interfaces, baselines[i] # None, sampleTime' # None
      PROVE  Lead(baselines[i].observed, baselines[i].mono)
               <= Lead(sampleTime'.wall, sampleTime'.mono)
  <2>1. CASE sampleTime' = sampleTime
    BY <1>6, <2>1 DEF GroupInv, TimeInv
  <2>2. CASE sampleTime' = [wall |-> wall, mono |-> mono]
    BY <1>6, <2>2 DEF GroupInv, TimeInv
  <2> QED BY <1>4, <2>1, <2>2
<1>7. TimeInv'
  BY <1>1, <1>3, <1>5, <1>6 DEF GroupInv, TimeInv, Lead
<1> QED BY <1>1, <1>7, NothingPersistedKeepsGroup

(* A poll that fails or times out while fetching leaves everything as it    *)
(* was.                                                                     *)
LEMMA FailKeepsGroup ==
    ASSUME TypeOK, GroupInv, FailPoll PROVE GroupInv'
<1>1. /\ UNCHANGED <<mono, wall, baselines, samples, members>>
      /\ pc # "members" /\ pc' = "idle" /\ polledAt' = mono /\ sampleTime' = None
      /\ members = {}
      /\ mono \in Int /\ mono # None
  BY CounterConstants DEF FailPoll, ForgetAnswers, worldVars, loopVars, dbVars, GroupInv,
     TimeInv, TypeOK, WorldTypeOK
<1>2. TimeInv'
  BY <1>1 DEF GroupInv, TimeInv, Lead
<1> QED BY <1>1, <1>2, NothingPersistedKeepsGroup

(* Persisting starts with no member and with what the last poll added up    *)
(* to.                                                                      *)
LEMMA StartKeepsGroup ==
    ASSUME TypeOK, TruthInv, GroupInv, NEW names, StartPersisting(names)
    PROVE  GroupInv'
<1>1. /\ pc = "fetching" /\ pc' = "members" /\ members' = {} /\ members = {}
      /\ UNCHANGED <<mono, wall, baselines, samples, polledAt>>
      /\ sampleTime # None /\ sampleTime' = None /\ obs' = Observation
  BY DEF StartPersisting, Answered, ForgetAnswers, worldVars, dbVars, GroupInv, TimeInv
<1>2. obs'.wall = sampleTime.wall /\ obs'.mono = sampleTime.mono
  BY <1>1 DEF Observation
<1>3. polledAt # None => polledAt < obs'.mono
  <2>1. /\ asked <= sampleTime.mono
        /\ asked \in Int /\ sampleTime.mono \in Int
        /\ polledAt # None => polledAt \in Int
    BY <1>1 DEF TruthInv, FetchIsTrue, Fetched, TypeOK, PollTypeOK, SampleTimeType
  <2> QED BY <1>1, <1>2, <2>1 DEF GroupInv, TimeInv
<1>4. TimeInv'
  BY <1>1, <1>2, <1>3 DEF GroupInv, TimeInv, Lead
<1>5. StoredBy([w \in Wans |-> 0])'
  BY <1>1 DEF StoredBy
<1> QED BY <1>1, <1>4, <1>5, NothingPersistedKeepsGroup

(* Steps that forget every baseline.                                        *)
LEMMA ForgettingKeepsGroup ==
    ASSUME TypeOK, GroupInv, LoseScope \/ Restart PROVE GroupInv'
<1>1. /\ pc' = "idle" /\ members' = {} /\ samples' = samples /\ sampleTime' = None
      /\ \A i \in Interfaces : baselines'[i] = None
      /\ mono' = mono /\ polledAt' \in {mono, None}
  BY DEF LoseScope, Answered, Restart, EndPoll, ForgetAnswers, worldVars, loopVars, dbVars,
     GroupInv, TimeInv
<1>2. group' = None
  BY <1>1, WansAreInterfaces DEF group
<1>3. TimeInv' /\ MembersInStep'
  <2>1. mono <= mono
    BY DEF TypeOK, WorldTypeOK
  <2> QED BY <1>1, <1>2, <2>1 DEF TimeInv, MembersInStep
<1>4. OneSamplePerEnd' /\ AggregateBackedByMembers'
  BY <1>1 DEF GroupInv, OneSamplePerEnd, AggregateBackedByMembers
<1> QED BY <1>1, <1>2, <1>3, <1>4, NoGroupAddsUp DEF GroupInv

(* Steps after which the poll cannot close with an aggregate. *)
LEMMA LosingKeepsGroup ==
    ASSUME TypeOK, GroupInv, NEW w \in Wans, SkipMember(w) \/ DropMember(w)
    PROVE  GroupInv'
<1>1. /\ pc = "members" /\ pc' = "members" /\ polledAt' = polledAt /\ obs' = obs
      /\ mono' = mono /\ wall' = wall /\ sampleTime' = sampleTime
      /\ samples' = samples /\ complete' = FALSE
      /\ \/ members' = members /\ baselines' = baselines
         \/ members' = members \cup {w} /\ baselines' = [baselines EXCEPT ![w] = None]
  BY DEF SkipMember, DropMember, worldVars, fetchVars, dbVars
<1>2. /\ baselines \in [Interfaces -> BaselineType \cup {None}]
      /\ w \in Interfaces /\ w # Aggregate /\ members \subseteq Wans
  BY WansAreInterfaces DEF TypeOK, StoreTypeOK, PollTypeOK
<1>3. /\ \A i \in Interfaces : baselines'[i] = baselines[i] \/ (baselines'[i] = None /\ i \in members')
      /\ baselines'[Aggregate] = baselines[Aggregate]
      /\ members \subseteq members'
      /\ \A v \in members' \ members : baselines'[v] = None
  BY <1>1, <1>2, WansAreInterfaces
<1>4. TimeInv'
  BY <1>1, <1>3 DEF GroupInv, TimeInv
<1>5. MembersInStep'
  <2>1. group' = group
    BY <1>3 DEF group
  <2>2. ASSUME NEW v \in members', baselines'[v] # None
        PROVE  baselines'[v].observed = obs.wall /\ baselines'[v].counter = obs.counter[v]
    <3>1. v \in members
      BY <1>3, <2>2
    <3>2. baselines'[v] = baselines[v]
      BY <1>2, <1>3, <2>2, <3>1, WansAreInterfaces
    <3> QED BY <1>1, <2>2, <3>1, <3>2 DEF GroupInv, MembersInStep
  <2>3. ASSUME group # None, NEW v \in group.signature \ members', baselines'[v] # None
        PROVE  baselines'[v].observed = group.observed
    <3>1. v \in Interfaces /\ v \in group.signature \ members
      BY <1>3, <2>3, BaselineFields, WansAreInterfaces DEF group
    <3>2. baselines'[v] = baselines[v]
      BY <1>3, <2>3, <3>1
    <3> QED BY <2>3, <3>1, <3>2 DEF GroupInv, MembersInStep
  <2> QED BY <1>1, <2>1, <2>2, <2>3 DEF MembersInStep
<1>6. GroupAddsUp'
  BY <1>1 DEF GroupAddsUp
<1>7. OneSamplePerEnd' /\ AggregateBackedByMembers'
  BY <1>1 DEF GroupInv, OneSamplePerEnd, AggregateBackedByMembers
<1> QED BY <1>4, <1>5, <1>6, <1>7 DEF GroupInv

(* A poll that lost a member forgets the aggregate's baseline.              *)
LEMMA DropAggregateKeepsGroup ==
    ASSUME TypeOK, GroupInv, DropAggregate PROVE GroupInv'
<1>1. /\ pc = "members" /\ pc' = "idle" /\ members' = {} /\ polledAt' = mono
      /\ mono' = mono /\ wall' = wall /\ samples' = samples /\ sampleTime' = None
      /\ baselines' = Retain(members) /\ members \subseteq Wans
      /\ mono \in Int /\ mono # None
  BY CounterConstants DEF DropAggregate, EndPoll, ForgetAnswers, worldVars, dbVars, TypeOK,
     PollTypeOK, WorldTypeOK
<1>2. /\ \A i \in Interfaces : baselines'[i] \in {baselines[i], None}
      /\ group' = None
  BY <1>1, WansAreInterfaces DEF Retain, group
<1>3. TimeInv' /\ MembersInStep'
  BY <1>1, <1>2 DEF GroupInv, TimeInv, MembersInStep
<1>4. OneSamplePerEnd' /\ AggregateBackedByMembers'
  BY <1>1 DEF GroupInv, OneSamplePerEnd, AggregateBackedByMembers
<1> QED BY <1>1, <1>2, <1>3, <1>4, NoGroupAddsUp DEF GroupInv

(* Closing a poll stores an aggregate its members add up to.                *)
LEMMA AggregateKeepsGroup ==
    ASSUME SteadyHost, TypeOK, BaselineIsCheckpoint, SamplesAndGapsTile, TruthInv, BytesInv,
           GroupInv, PersistAggregate
    PROVE  GroupInv'
<1> DEFINE keep == members \cup {Aggregate}
<1>1. /\ pc = "members" /\ pc' = "idle" /\ members' = {} /\ polledAt' = mono
      /\ mono' = mono /\ wall' = wall /\ sampleTime' = None /\ complete
  BY DEF PersistAggregate, EndPoll, ForgetAnswers, worldVars
<1>2. PICK outcome \in Outcomes :
        PersistCounterObservation(Aggregate, sum, members, ~continuous, keep, outcome)
  BY DEF PersistAggregate
<1>3. /\ sum \in 0..U64Max
      /\ members \in SUBSET Wans
      /\ Aggregate \in Interfaces /\ Aggregate \notin members
      /\ obs # None /\ obs.wall \in Int /\ obs.mono \in Int /\ obs.mono <= mono
      /\ mono \in Int /\ wall \in Int /\ mono # None
      /\ obs.counter \in [Wans -> 0..U64Max]
  BY <1>1, WansAreInterfaces, CounterConstants DEF TypeOK, PollTypeOK, WorldTypeOK,
     ObservationType, TruthInv, ObservationIsPast, IsPast
<1>4. (~continuous) \in BOOLEAN /\ TimeInv
  BY DEF GroupInv
<1>5. /\ \/ baselines' = Retain(keep) /\ baselines[Aggregate] = None
         \/ \E m : BaselineStep(Aggregate, sum, members, m, keep)
      /\ \/ samples' = samples
         \/ /\ group # None
            /\ MayRecordExactSample(group, sum, members, ~continuous)
            /\ samples' = samples \cup {SampleSince(Aggregate, group, sum, members)}
            /\ \A s \in samples : s.iface = Aggregate => s.end < obs.wall
  <2> HIDE DEF keep
  <2> QED BY <1>1, <1>2, <1>3, <1>4, SteadyPersist DEF group
<1>6. /\ \A i \in Interfaces : i # Aggregate => baselines'[i] \in {baselines[i], None}
      /\ \/ group' = None
         \/ /\ group' # None
            /\ group'.observed = obs.wall
            /\ group'.counter = sum
            /\ group'.mono = obs.mono
            /\ group'.signature = members
  <2>1. CASE baselines' = Retain(keep) /\ baselines[Aggregate] = None
    BY <1>3, <2>1 DEF Retain, group
  <2>2. ASSUME NEW m, BaselineStep(Aggregate, sum, members, m, keep)
        PROVE  <1>6!:
    <3> DEFINE b == BaselineFromObservation(sum, members, m)
    <3>1. b.observed = obs.wall /\ b.counter = sum /\ b.mono = obs.mono /\ b.signature = members
      BY <1>3 DEF BaselineFromObservation
    <3>2. baselines' = [Retain(keep) EXCEPT ![Aggregate] = b]
      BY <2>2 DEF BaselineStep, InsertBaseline
    <3> HIDE DEF b, keep
    <3> QED BY <1>3, <3>1, <3>2 DEF Retain, group
  <2> QED BY <1>5, <2>1, <2>2
<1>7. TimeInv'
  <2>1. ASSUME NEW i \in Interfaces, baselines'[i] # None
        PROVE  /\ baselines'[i].mono <= mono
               /\ Lead(baselines'[i].observed, baselines'[i].mono) <= Lead(wall, mono)
    <3>1. CASE i = Aggregate
      BY <1>1, <1>3, <1>4, <1>6, <2>1, <3>1 DEF group, TimeInv, Lead
    <3>2. CASE i # Aggregate
      BY <1>4, <1>6, <2>1, <3>2 DEF TimeInv
    <3> QED BY <3>1, <3>2
  <2> QED BY <1>1, <1>3, <2>1 DEF TimeInv
<1>8. MembersInStep'
  <2>1. ASSUME group' # None, NEW w \in members, baselines'[w] # None
        PROVE  baselines'[w].observed = group'.observed
    <3>1. w \in Interfaces /\ w # Aggregate
      BY <1>3, WansAreInterfaces
    <3>2. baselines'[w] = baselines[w]
      BY <1>6, <2>1, <3>1
    <3> QED BY <1>1, <1>6, <2>1, <3>2 DEF GroupInv, MembersInStep
  <2> QED BY <1>1, <1>6, <2>1 DEF MembersInStep
<1>9. GroupAddsUp'
  <2>1. PICK d : d = [w \in Wans |-> 0]
    OBVIOUS
  <2>2. d \in [Wans -> Nat]
    BY <2>1
  <2>3. ASSUME group' # None, \A w \in members : baselines'[w] # None
        PROVE  Congruent(SumFunctionOnSet(Prior(d)', members), sum)
    <3>1. \A w \in members : Prior(d)'[w] = obs.counter[w] /\ obs.counter[w] \in Int
      <4> SUFFICES ASSUME NEW w \in members PROVE Prior(d)'[w] = obs.counter[w] /\ obs.counter[w] \in Int
        OBVIOUS
      <4>1. w \in Wans /\ w \in Interfaces /\ w # Aggregate
        BY <1>3, WansAreInterfaces
      <4>2. baselines'[w] = baselines[w] /\ baselines[w] # None
        BY <1>6, <2>3, <4>1
      <4>3. baselines'[w].counter = obs.counter[w]
        BY <1>1, <4>2 DEF GroupInv, MembersInStep
      <4> QED BY <1>1, <1>3, <2>3, <4>1, <4>3 DEF Prior
    <3> DEFINE f == Prior(d)'
    <3>2. SumFunctionOnSet(f, members) = SumFunctionOnSet(obs.counter, members)
      <4> HIDE DEF f
      <4>1. IsFiniteSet(members)
        BY <1>3, CounterConstants, FS_Subset
      <4> QED BY <3>1, <4>1, SumSame DEF f
    <3>3. sum = SumFunctionOnSet(obs.counter, members)
      BY <1>1 DEF BytesInv, SumIsOfMembers
    <3>4. sum \in Int
      BY <1>3
    <3> HIDE DEF f
    <3>5. Congruent(SumFunctionOnSet(f, members), sum)
      BY <3>2, <3>3, <3>4, CongruentSame
    <3> QED BY <3>5 DEF f
  <2>4. AddsUp(d)'
    BY <1>1, <1>6, <2>3 DEF AddsUp, Congruent
  <2> QED BY <1>1, <2>2, <2>4 DEF GroupAddsUp
<1>10. OneSamplePerEnd' /\ AggregateBackedByMembers'
  <2>1. CASE samples' = samples
    BY <2>1 DEF GroupInv, OneSamplePerEnd, AggregateBackedByMembers
  <2>2. CASE /\ group # None
             /\ MayRecordExactSample(group, sum, members, ~continuous)
             /\ samples' = samples \cup {SampleSince(Aggregate, group, sum, members)}
             /\ \A s \in samples : s.iface = Aggregate => s.end < obs.wall
    <3> DEFINE new == SampleSince(Aggregate, group, sum, members)
    <3>1. /\ new.iface = Aggregate /\ new.end = obs.wall /\ new.start = group.observed
          /\ new.signature = members /\ new.bytes = CounterDelta(group.counter, sum)
      BY DEF SampleSince
    <3>2. continuous /\ MayRecordExactSample(group, sum, members, FALSE)
      BY <2>2 DEF MayRecordExactSample
    <3> HIDE DEF new
    <3>3. \A parts : parts = {s \in samples : /\ s.iface \in members
                                              /\ s.start = group.observed
                                              /\ s.end = obs.wall} =>
             /\ {s.iface : s \in parts} = members
             /\ CounterDelta(group.counter, sum) = SumFunction([s \in parts |-> s.bytes]) % (U64Max + 1)
      BY <1>1, <2>2, <3>2, GroupSampleAddsUp
    <3>4. new.end \in Int /\ members \subseteq Wans
      BY <1>3, <3>1
    <3>5. LET parts == {s \in samples : /\ s.iface \in new.signature
                                         /\ s.start = new.start
                                         /\ s.end = new.end} IN
             /\ {s.iface : s \in parts} = new.signature
             /\ new.bytes = SumFunction([s \in parts |-> s.bytes]) % (U64Max + 1)
             /\ new.signature \subseteq Wans
      BY <3>1, <3>3, <3>4
    <3>6. /\ samples' = samples \cup {new}
          /\ \A s \in samples : s.iface = new.iface => s.end < new.end
      BY <2>2, <3>1 DEF new
    <3> QED BY <3>4, <3>5, <3>6, BackingStays DEF GroupInv
  <2> QED BY <1>5, <2>1, <2>2
<1> QED BY <1>7, <1>8, <1>9, <1>10 DEF GroupInv

(* Every step of the poller keeps the aggregate backed.                     *)
LEMMA PollerKeepsGroup ==
    ASSUME SteadyHost, TypeOK, BaselineIsCheckpoint, SamplesAndGapsTile, TruthInv, BytesInv,
           GroupInv, PollerNext
    PROVE  GroupInv'
<1> QED
  BY FetchKeepsGroup, FailKeepsGroup, StartKeepsGroup, ForgettingKeepsGroup, LosingKeepsGroup, MemberKeepsGroup,
     AggregateKeepsGroup, DropAggregateKeepsGroup DEF PollerNext, FetchNext

(* So does a step that changes nothing.                                     *)
LEMMA StutterKeepsGroup == ASSUME GroupInv, UNCHANGED vars PROVE GroupInv'
<1>1. /\ UNCHANGED <<mono, wall, baselines, samples, asked, sampleTime>>
      /\ UNCHANGED <<polledAt, pc, obs, complete, continuous, members>>
  BY DEF vars, worldVars, pollVars, fetchVars, loopVars, dbVars
<1>2. TimeInv' /\ MembersInStep' /\ OneSamplePerEnd' /\ AggregateBackedByMembers'
  BY <1>1 DEF GroupInv, TimeInv, MembersInStep, OneSamplePerEnd, AggregateBackedByMembers, group
<1>3. GroupAddsUp'
  <2>1. \A d : (StoredBy(d)' <=> StoredBy(d)) /\ (AddsUp(d)' <=> AddsUp(d))
    BY <1>1 DEF StoredBy, AddsUp, Prior, group, Congruent
  <2> QED BY <1>1, <2>1 DEF GroupInv, GroupAddsUp
<1> QED BY <1>2, <1>3 DEF GroupInv

(* Before the first poll there is nothing to add up.                        *)
LEMMA InitGroup == ASSUME Init PROVE GroupInv
<1>1. /\ pc = "idle" /\ members = {} /\ samples = {} /\ polledAt = None
      /\ sampleTime = None
      /\ \A i \in Interfaces : baselines[i] = None
  BY DEF Init, PollerInit, DatabaseInit
<1>2. group = None
  BY <1>1, WansAreInterfaces DEF group
<1>3. GroupAddsUp
  <2>1. [w \in Wans |-> 0] \in [Wans -> Nat]
    OBVIOUS
  <2>2. \A d : AddsUp(d)
    BY <1>2 DEF AddsUp
  <2> QED BY <1>1, <2>1, <2>2 DEF GroupAddsUp
<1> QED BY <1>1, <1>2, <1>3 DEF GroupInv, TimeInv, MembersInStep, OneSamplePerEnd, AggregateBackedByMembers

(* On a steady host an exact aggregate sample is the sum of exact samples   *)
(* of its members over the same interval, whatever a poll skipped or        *)
(* dropped and however often counters were reset or the router or the       *)
(* process restarted.                                                       *)
THEOREM AggregatesAddUp == SteadyHost => (Spec => []AggregateBackedByMembers)
<1>1. Init => GroupInv
  BY InitGroup
<1>2. ASSUME SteadyHost, TypeOK, BaselineIsCheckpoint, SamplesAndGapsTile,
             TruthInv, BytesInv, GroupInv, [Next]_vars
      PROVE  GroupInv'
  <2>1. CASE WorldNext
    BY <1>2, <2>1, WorldKeepsGroup
  <2>2. CASE PollerNext
    BY <1>2, <2>2, PollerKeepsGroup
  <2>3. CASE UNCHANGED vars
    BY <1>2, <2>3, StutterKeepsGroup
  <2> QED BY <1>2, <2>1, <2>2, <2>3 DEF Next
<1>3. GroupInv => AggregateBackedByMembers
  BY DEF GroupInv
<1>4. CASE SteadyHost
  <2>1. (/\ TypeOK /\ BaselineIsCheckpoint /\ SamplesAndGapsTile
         /\ TruthInv /\ BytesInv /\ GroupInv /\ [Next]_vars) => GroupInv'
    BY <1>2, <1>4
  <2> QED BY <1>1, <1>3, <2>1, TypeCorrect, BaselineMatchesCheckpoint, TablesTile, TruthInductive,
          BytesInductive, PTL DEF Spec
<1>5. CASE ~SteadyHost
  BY <1>5
<1> QED BY <1>4, <1>5

=============================================================================
