--------------------------- MODULE TrafficHistory ---------------------------
(****************************************************************************)
(* What becomes of recorded traffic: rollup into buckets, retention, and    *)
(* the history query (backend/src/db/traffic_v4.rs), driven by the periodic *)
(* maintenance of the poll engine (backend/src/poller/engine.rs).           *)
(*                                                                          *)
(* Recording is what CounterPersistence implements: each interface only     *)
(* ever extends its ledger from its frontier, with a sample or a gap.       *)
(* Rollup and retention are one transaction each.  Queries read a snapshot  *)
(* on a connection of their own, so they may see any state in between;      *)
(* they are operators that the properties evaluate in every state.          *)
(*                                                                          *)
(* Abstractions.  One router.  Download and upload always travel together.  *)
(* Rates and sample counts are for display.  Totals stay below 2^63.  The   *)
(* row budget of a query refuses it and changes nothing.  maintenance_error *)
(* only reports that a transaction failed.                                  *)
(****************************************************************************)
EXTENDS Integers, FiniteSetsExt, Functions

CONSTANTS
    Interfaces,         \* router_interfaces, by id
    Bytes,              \* what one sample may have counted
    BucketSize,         \* bucket_size_ms of the maintenance
    BatchSize,          \* ROLLUP_SAMPLE_BATCH_SIZE
    PruneBatch,         \* RETENTION_DELETE_BATCH_SIZE
    Retentions,         \* configurations <<raw, total>> of the retention times
    MaxPoints,          \* max_points of a query
    PollTimes,          \* time between polls
    MaxTime             \* bound on the clock

ASSUME HistoryConstants ==
    /\ Interfaces \subseteq Nat /\ IsFiniteSet(Interfaces)
    /\ PollTimes \subseteq Nat \ {0}
    /\ Bytes \subseteq Nat
    /\ {BucketSize, BatchSize, PruneBatch, MaxPoints} \subseteq Nat \ {0}
    /\ \A k \in Retentions : k[1] \in Nat /\ k[2] \in Nat /\ k[1] <= k[2]
    /\ MaxTime \in Nat

VARIABLES
    now,                \* wall clock
    retention,          \* db_raw_retention_days and db_total_retention_days
    frontier,           \* [Interfaces -> time]: observed_at_ms of the checkpoint
    samples,            \* traffic_samples
    rollups,            \* traffic_rollups
    gaps,               \* traffic_gaps
    prune,              \* total_cutoff of the running maintenance, -1 outside it
    recorded,           \* history: every sample and gap as it was recorded
    forgotten           \* history: the latest retention boundary ever applied

stored == <<samples, rollups, gaps>>
vars   == <<now, retention, frontier, stored, prune, recorded, forgotten>>

Times == 0 .. MaxTime

Lesser(a, b)  == IF a <= b THEN a ELSE b
Greater(a, b) == IF a <= b THEN b ELSE a

(* Rows.  The id of a sample only decides between rows that start together; *)
(* rows are inserted in the order of their end and then of the interfaces.  *)
Samples == [iface: Interfaces, start: Times, end: Times, bytes: Nat, exact: BOOLEAN]
Gaps    == [iface: Interfaces, start: Times, end: Times]
Rollups == [iface: Interfaces, start: Times, end: Times, exact: Nat, estimated: Nat,
            exact_ms: Nat, estimated_ms: Nat, source: {"rollup"}]

TypeOK ==
    /\ now \in Times
    /\ retention \in Retentions
    /\ frontier \in [Interfaces -> Times]
    /\ samples \subseteq Samples
    /\ rollups \subseteq Rollups
    /\ gaps \subseteq Gaps
    /\ prune \in Int
    /\ recorded.samples \subseteq Samples /\ recorded.gaps \subseteq Gaps
    /\ forgotten \in Int

Init ==
    /\ now = 0
    /\ retention \in Retentions
    /\ frontier = [i \in Interfaces |-> 0]
    /\ samples = {}
    /\ rollups = {}
    /\ gaps = {}
    /\ prune = -1
    /\ recorded = [samples |-> {}, gaps |-> {}]
    /\ forgotten = -1

-----------------------------------------------------------------------------
(* Recording (commit_sample_and_checkpoint, commit_gap_and_checkpoint).     *)

(* One poll persists what it saw of each interface: a sample, a gap, or     *)
(* nothing when the interface is missing or its commit fails.               *)
Poll(elapsed) ==
    /\ prune = -1
    /\ now + elapsed <= MaxTime
    /\ now' = now + elapsed
    /\ \E seen \in SUBSET Interfaces : \E lost \in SUBSET seen :
       \E count \in [seen \ lost -> Bytes] :
        LET new  == {[iface |-> i, start |-> frontier[i], end |-> now',
                      bytes |-> count[i], exact |-> TRUE] : i \in seen \ lost}
            none == {[iface |-> i, start |-> frontier[i], end |-> now'] : i \in lost} IN
        /\ frontier' = [i \in Interfaces |-> IF i \in seen THEN now' ELSE frontier[i]]
        /\ samples' = samples \union new
        /\ gaps' = gaps \union none
        /\ recorded' = [samples |-> recorded.samples \union new,
                        gaps |-> recorded.gaps \union none]
    /\ UNCHANGED <<retention, rollups, prune, forgotten>>

(* An administrator saves other retention times. *)
Configure(k) ==
    /\ retention # k
    /\ retention' = k
    /\ UNCHANGED <<now, frontier, stored, prune, recorded, forgotten>>

-----------------------------------------------------------------------------
(* Bytes and durations of a part of a row.                                  *)

(* Mutant: each part is rounded on its own. *)
SliceRounded(value, duration, from, to) == (value * (to - from)) \div duration

(* proportional_slice *)
Slice(value, duration, from, to) ==
    (value * to) \div duration - (value * from) \div duration

-----------------------------------------------------------------------------
(* rollup_exact_samples_batch, with everything before the cutoff.           *)

(* ORDER BY started_at_ms, id *)
Before(s, t) ==
    \/ s.start < t.start
    \/ s.start = t.start /\ s.end < t.end
    \/ s.start = t.start /\ s.end = t.end /\ s.iface < t.iface

Batch(cutoff) ==
    LET due == {s \in samples : s.start < cutoff} IN
    {s \in due : Cardinality({t \in due : Before(t, s)}) < BatchSize}

BucketOf(t) == t \div BucketSize
Buckets == 0 .. BucketOf(MaxTime)

PlannedEnd(s, cutoff) == Lesser(s.end, cutoff)

(* Pieces the sample falls into, one for each bucket it reaches *)
Pieces(s, cutoff) == BucketOf(PlannedEnd(s, cutoff) - 1) - BucketOf(s.start) + 1

SegmentBudget == 2 * BatchSize

(* What samples before it leave of the budget *)
BudgetLeft(s, cutoff) ==
    LET earlier == {t \in Batch(cutoff) : Before(t, s)} IN
    SegmentBudget - SumFunction([t \in earlier |-> Pieces(t, cutoff)])

(* Mutant: a sample is rolled up as a whole or not at all. *)
ReachedWhole(s, cutoff) ==
    IF Pieces(s, cutoff) <= BudgetLeft(s, cutoff) THEN PlannedEnd(s, cutoff) ELSE s.start

(* How far a sample is consumed: to the planned end, or to the boundary at  *)
(* which the budget is used up.                                             *)
Reached(s, cutoff) ==
    LET left == BudgetLeft(s, cutoff) IN
    CASE left >= Pieces(s, cutoff) -> PlannedEnd(s, cutoff)
      [] left <= 0 -> s.start
      [] OTHER -> (BucketOf(s.start) + left) * BucketSize

(* The plan of a batch: [consumed sample -> where its remainder starts] *)
Plan(cutoff) ==
    LET batch == Batch(cutoff) IN
    [s \in {t \in batch : Reached(t, cutoff) > t.start} |-> Reached(s, cutoff)]

(* Mutant: a part counts as exact like the whole. *)
NeverSplit(s, cutoff) == FALSE

Split(s, cutoff) == Pieces(s, cutoff) > 1 \/ PlannedEnd(s, cutoff) # s.end

(* The samples with a piece in bucket k of interface i, and the piece *)
Reaching(plan, i, k) ==
    {s \in DOMAIN plan : s.iface = i /\ BucketOf(s.start) <= k /\ plan[s] > k * BucketSize}
PieceStart(s, k) == Greater(s.start, k * BucketSize)
PieceEnd(plan, s, k) == Lesser(plan[s], (k + 1) * BucketSize)

(* Mutant: the bucket ends where it would end when full. *)
CoveredToTheEnd(plan, from, k) == (k + 1) * BucketSize

(* bucket_end_ms: how far the bucket is covered *)
CoveredTo(plan, from, k) == Max({PieceEnd(plan, s, k) : s \in from})

(* What one batch adds to bucket k *)
Bucket(plan, cutoff, i, k) ==
    LET from  == Reaching(plan, i, k)
        exact == {s \in from : s.exact /\ ~Split(s, cutoff)}
        bytes(s) == Slice(s.bytes, s.end - s.start,
                          PieceStart(s, k) - s.start, PieceEnd(plan, s, k) - s.start)
        ms(s) == PieceEnd(plan, s, k) - PieceStart(s, k) IN
    [iface |-> i, start |-> k * BucketSize, end |-> CoveredTo(plan, from, k),
     exact |-> SumFunction([s \in exact |-> bytes(s)]),
     estimated |-> SumFunction([s \in from \ exact |-> bytes(s)]),
     exact_ms |-> SumFunction([s \in exact |-> ms(s)]),
     estimated_ms |-> SumFunction([s \in from \ exact |-> ms(s)]),
     source |-> "rollup"]

Filled(plan, cutoff) ==
    {Bucket(plan, cutoff, key[1], key[2]) :
        key \in {ik \in Interfaces \X Buckets : Reaching(plan, ik[1], ik[2]) # {}}}

CoveredMs(row) == row.exact_ms + row.estimated_ms

(* ON CONFLICT DO UPDATE *)
Same(old, new) == old.iface = new.iface /\ old.start = new.start
Merged(old, new) ==
    [new EXCEPT !.end = Greater(old.end, new.end),
                !.exact = old.exact + new.exact,
                !.estimated = old.estimated + new.estimated,
                !.exact_ms = old.exact_ms + new.exact_ms,
                !.estimated_ms = old.estimated_ms + new.estimated_ms]

(* The Verification errors: pieces overlap, a bucket is covered more than   *)
(* once, or an update comes before what the bucket already holds.           *)
Refused(plan, filled) ==
    \/ \E s, t \in DOMAIN plan :
        s.iface = t.iface /\ Before(s, t) /\ t.start < plan[s]
    \/ \E new \in filled :
        \/ CoveredMs(new) \notin 1 .. BucketSize
        \/ \E old \in rollups :
            /\ Same(old, new)
            /\ \/ CoveredMs(old) + CoveredMs(new) > BucketSize
               \/ \E s \in Reaching(plan, new.iface, BucketOf(new.start)) :
                    PieceStart(s, BucketOf(new.start)) < old.end

(* Mutant: the rest of a sample keeps the bytes of the whole. *)
RemainderWithAll(s, reached) == [s EXCEPT !.start = reached, !.exact = FALSE]

(* What is left of a sample stays, as an estimate. *)
Remainder(s, reached) ==
    [s EXCEPT !.start = reached, !.exact = FALSE,
              !.bytes = @ - Slice(@, s.end - s.start, 0, reached - s.start)]

RolledUp(plan, filled) ==
    /\ samples' = (samples \ DOMAIN plan) \union
           {Remainder(s, plan[s]) : s \in {t \in DOMAIN plan : plan[t] < t.end}}
    /\ rollups' = {old \in rollups : \A new \in filled : ~Same(old, new)} \union
           {IF \E old \in rollups : Same(old, new)
            THEN Merged(CHOOSE old \in rollups : Same(old, new), new)
            ELSE new : new \in filled}

(* Before the first retention time has passed there is nothing to do. *)
RawCutoff   == Greater(0, now - retention[1])
TotalCutoff == Greater(0, now - retention[2])

(* The maintenance of the poll engine: rollup first.  Both cutoffs are      *)
(* computed before it.                                                      *)
Rollup ==
    /\ prune = -1
    /\ prune' = TotalCutoff
    /\ LET plan == Plan(RawCutoff)
           filled == Filled(plan, RawCutoff) IN
       IF Refused(plan, filled)
       THEN UNCHANGED <<samples, rollups>>
       ELSE RolledUp(plan, filled)
    /\ UNCHANGED <<now, retention, frontier, gaps, recorded, forgotten>>

(* The database reports an error: the transaction changes nothing, and the  *)
(* maintenance goes on.                                                     *)
FailRollup ==
    /\ prune = -1
    /\ prune' = TotalCutoff
    /\ UNCHANGED <<now, retention, frontier, stored, recorded, forgotten>>

Due(rows, cutoff) == {r \in rows : r.end <= cutoff}

(* A table keeps all but a batch of the oldest rows that are due. *)
Kept(rows, cutoff) ==
    LET due == Due(rows, cutoff) IN
    {rows \ gone : gone \in
        {d \in SUBSET due :
            /\ Cardinality(d) = Lesser(PruneBatch, Cardinality(due))
            /\ \A r \in d, q \in due \ d : r.end <= q.end}}

(* prune_exact_history *)
Prune ==
    /\ prune # -1
    /\ samples' \in Kept(samples, prune)
    /\ rollups' \in Kept(rollups, prune)
    /\ gaps' \in Kept(gaps, prune)
    /\ forgotten' = Greater(forgotten, prune)
    /\ prune' = -1
    /\ UNCHANGED <<now, retention, frontier, recorded>>

(* The database reports an error, or the process dies between the two       *)
(* transactions.                                                            *)
SkipPrune ==
    /\ prune # -1
    /\ prune' = -1
    /\ UNCHANGED <<now, retention, frontier, stored, recorded, forgotten>>

Next ==
    \/ \E elapsed \in PollTimes : Poll(elapsed)
    \/ \E k \in Retentions : Configure(k)
    \/ Rollup
    \/ FailRollup
    \/ Prune
    \/ SkipPrune

-----------------------------------------------------------------------------
(* query_traffic_v4_on_connection                                           *)

(* Samples in the form of buckets. *)
Contribution(s) ==
    [iface |-> s.iface, start |-> s.start, end |-> s.end,
     exact |-> IF s.exact THEN s.bytes ELSE 0, estimated |-> IF s.exact THEN 0 ELSE s.bytes,
     exact_ms |-> IF s.exact THEN s.end - s.start ELSE 0,
     estimated_ms |-> IF s.exact THEN 0 ELSE s.end - s.start,
     source |-> "sample"]

Rows(i) == {c \in rollups \union {Contribution(s) : s \in samples} : c.iface = i}
Overlapping(rows, from, to) == {c \in rows : c.end > from /\ c.start < to}

(* add_segment: a part of a row is an estimate. *)
Segment(c, from, to) ==
    LET a == Greater(c.start, from)
        b == Lesser(c.end, to)
        part(value) == Slice(value, c.end - c.start, a - c.start, b - c.start) IN
    IF a = c.start /\ b = c.end
    THEN [exact |-> c.exact, estimated |-> c.estimated,
          exact_ms |-> c.exact_ms, estimated_ms |-> c.estimated_ms]
    ELSE [exact |-> 0, estimated |-> part(c.exact + c.estimated),
          exact_ms |-> 0, estimated_ms |-> Lesser(part(CoveredMs(c)), b - a)]

(* The totals of a range of time *)
Totals(rows, from, to) ==
    LET parts == [c \in Overlapping(rows, from, to) |-> Segment(c, from, to)] IN
    [bytes |-> SumFunction([c \in DOMAIN parts |-> parts[c].exact + parts[c].estimated]),
     covered_ms |-> SumFunction([c \in DOMAIN parts |-> CoveredMs(parts[c])])]

(* No finer than the limit on points and the rows allow *)
PointSize(rows, from, to) ==
    Max({1, (to - from + MaxPoints - 1) \div MaxPoints} \union
        {c.end - c.start : c \in Overlapping(rows, from, to)})

(* The points that have something to show *)
Points(rows, from, to) ==
    LET size == PointSize(rows, from, to) IN
    {k \in 0 .. (to - from - 1) \div size :
        Overlapping(rows, from + k * size, Lesser(from + (k + 1) * size, to)) # {}}

(* The Verification errors of a query *)
QueryFails(rows, from, to) ==
    LET chosen == Overlapping(rows, from, to) IN
    \/ \E c \in chosen :
        \/ c.end <= c.start
        \/ CoveredMs(c) > c.end - c.start
        \/ CoveredMs(c) = 0 /\ c.exact + c.estimated > 0
    \/ \E c, d \in chosen : c # d /\ c.end <= d.end /\ d.start < c.end
    \/ Cardinality(Points(rows, from, to)) > MaxPoints
    \/ Totals(rows, from, to).covered_ms > to - from

-----------------------------------------------------------------------------
(* Properties.                                                              *)

Spec == Init /\ [][Next]_vars

Ranges == {r \in Times \X Times : r[1] < r[2]}

(* None of the errors with which rollup_exact_samples_batch refuses a whole *)
(* batch, and would do so in every later maintenance, can occur: batches,   *)
(* budgets, moving cutoffs and retention never lead to a piece that         *)
(* overlaps its bucket.                                                     *)
RollupIsNeverRefused ==
    LET plan == Plan(RawCutoff) IN ~Refused(plan, Filled(plan, RawCutoff))

(* Between, during and after maintenance every query is answered: stored    *)
(* rows of an interface never overlap and the points never exceed the limit *)
(* (fold_traffic_contributions, query_traffic_v4_on_connection).            *)
QueriesAreAnswered ==
    \A i \in Interfaces :
        LET rows == Rows(i) IN \A r \in Ranges : ~QueryFails(rows, r[1], r[2])

(* The variables have their types, and no sequence of records, maintenance  *)
(* steps and cutoffs leads to a store that refuses its next maintenance or  *)
(* a query.                                                                 *)
StoreIsSound == TypeOK /\ RollupIsNeverRefused /\ QueriesAreAnswered

(* Nothing younger than the retention boundary is lost or counted twice.    *)
(* Whatever was split, merged and pruned, a query from a bucket boundary    *)
(* that cuts through no recorded sample returns the recorded bytes, time    *)
(* and gaps to the unit.                                                    *)
HistoryIsComplete ==
    \A i \in Interfaces, k \in Buckets :
        LET from == k * BucketSize
            mine == {s \in recorded.samples : s.iface = i /\ s.end > from}
            answer == Totals(Rows(i), from, MaxTime) IN
        from >= forgotten /\ (\A s \in mine : s.start >= from) =>
            /\ answer.bytes = SumFunction([s \in mine |-> s.bytes])
            /\ answer.covered_ms = SumFunction([s \in mine |-> s.end - s.start])
            /\ {g \in gaps : g.iface = i /\ g.end > from} =
               {g \in recorded.gaps : g.iface = i /\ g.end > from}

(* What a bucket calls exact was measured: it is the sum of samples that    *)
(* were recorded entirely inside the bucket, never of parts.                *)
ExactWasMeasured ==
    \A row \in rollups :
        LET inside == {s \in recorded.samples :
                          /\ s.iface = row.iface
                          /\ s.start >= row.start
                          /\ s.end <= row.start + BucketSize} IN
        \E whole \in SUBSET inside :
            /\ row.exact = SumFunction([s \in whole |-> s.bytes])
            /\ row.exact_ms = SumFunction([s \in whole |-> s.end - s.start])

(* Rolling up does not rewrite history: in any range of whole buckets the   *)
(* covered time stays the same, and the bytes move by at most the rounding  *)
(* of the one sample that is cut at each end of the range.                  *)
RollupKeepsTotals ==
    [][Rollup => \A i \in Interfaces :
          LET old == Rows(i)
              new == Rows(i)' IN
          \A r \in {q \in Ranges : q[1] % BucketSize = 0 /\ q[2] % BucketSize = 0} :
              LET before == Totals(old, r[1], r[2])
                  after  == Totals(new, r[1], r[2]) IN
              /\ after.covered_ms = before.covered_ms
              /\ after.bytes - before.bytes \in -2 .. 2]_vars

(* Raw traffic before the cutoff, in time *)
Backlog == SumFunction([s \in {t \in samples : t.start < RawCutoff} |->
                           PlannedEnd(s, RawCutoff) - s.start])

(* A backlog is worked off however long its samples are: every rollup that  *)
(* finds raw traffic before its cutoff leaves less of it, though it may     *)
(* remove no row (the return value counts only those).                      *)
RollupMakesProgress == [][Rollup /\ Backlog > 0 => Backlog' < Backlog]_vars
=============================================================================
