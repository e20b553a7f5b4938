----------------------- MODULE TrafficHistory_proofs -----------------------
(****************************************************************************)
(* What rollup, retention and queries guarantee for every bucket size,      *)
(* batch, budget, retention time and sequence of polls: the store never     *)
(* refuses a maintenance or a query, exact bytes were measured, rolling up  *)
(* keeps totals and works off the backlog, and nothing younger than the     *)
(* retention boundary is lost.                                              *)
(*                                                                          *)
(* A batch is treated as a plan that consumes, of every interface, its      *)
(* oldest samples (Consumes); that the code's batch is one is shown once    *)
(* (PlanConsumes).  Sums over rows are taken apart by the module Sums.      *)
(****************************************************************************)
EXTENDS TrafficHistory, Sums, TLAPS

-----------------------------------------------------------------------------
(* Numbers, and sets of them.                                               *)

(* A quotient is the number of times the divisor fits. *)
LEMMA QuotientFits ==
    ASSUME NEW a \in Int, NEW d \in Nat \ {0}
    PROVE  /\ a \div d \in Int
           /\ d * (a \div d) <= a
           /\ a < d * (a \div d) + d
           /\ a \in Nat => a \div d \in Nat
<1>1. a = d * (a \div d) + (a % d) /\ a \div d \in Int /\ a % d \in 0 .. d - 1
  OBVIOUS
<1>2. a \in Nat => a \div d \in Nat
  OBVIOUS
<1> QED BY <1>1, <1>2

(* A product with a positive factor keeps order. *)
LEMMA ProductKeepsOrder ==
    ASSUME NEW c \in Nat, NEW a \in Int, NEW b \in Int
    PROVE  /\ a <= b => c * a <= c * b
           /\ c > 0 /\ c * a <= c * b => a <= b
           /\ c > 0 /\ a < b => c * a < c * b
           /\ c > 0 /\ c * a < c * b => a < b
<1>1. c * (b - a) = c * b - c * a
  OBVIOUS
<1>2. b - a >= 0 => c * (b - a) >= 0
  OBVIOUS
<1>3. c > 0 /\ b - a > 0 => c * (b - a) > 0
  OBVIOUS
<1>4. c > 0 /\ b - a < 0 => c * (b - a) < 0
  OBVIOUS
<1>5. c * a \in Int /\ c * b \in Int
  OBVIOUS
<1> QED BY <1>1, <1>2, <1>3, <1>4, <1>5

(* It is the only such number.                                              *)
LEMMA QuotientIs ==
    ASSUME NEW a \in Int, NEW d \in Nat \ {0}, NEW q \in Int
    PROVE  /\ d * q <= a => q <= a \div d
           /\ a < d * q => a \div d < q
           /\ d * q <= a /\ a < d * q + d => a \div d = q
<1> DEFINE p == a \div d
<1>1. p \in Int /\ d * p <= a /\ a < d * p + d /\ d \in Nat /\ d > 0
  BY QuotientFits
<1> HIDE DEF p
<1>2. d * (p + 1) = d * p + d /\ d * (q + 1) = d * q + d
  BY <1>1
<1>3. d * q \in Int /\ d * p \in Int /\ d * (p + 1) \in Int /\ d * (q + 1) \in Int /\ p + 1 \in Int /\ q + 1 \in Int
  BY <1>1
<1>4. d * q <= a => q < p + 1
  <2>1. d * q <= a => d * q < d * (p + 1)
    BY <1>1, <1>2, <1>3
  <2> QED BY <1>1, <1>3, <2>1, ProductKeepsOrder
<1>5. a < d * q => p < q
  <2>1. a < d * q => d * p < d * q
    BY <1>1, <1>3
  <2> QED BY <1>1, <2>1, ProductKeepsOrder
<1>6. a < d * q + d => p < q + 1
  <2>1. a < d * q + d => d * p < d * (q + 1)
    BY <1>1, <1>2, <1>3
  <2> QED BY <1>1, <1>3, <2>1, ProductKeepsOrder
<1>7. (d * q <= a => q <= p) /\ (a < d * q => p < q) /\ (d * q <= a /\ a < d * q + d => p = q)
  BY <1>1, <1>3, <1>4, <1>5, <1>6
<1> QED BY <1>7 DEF p

(* A larger number has no smaller quotient.                                 *)
LEMMA QuotientKeepsOrder ==
    ASSUME NEW d \in Nat \ {0}, NEW a \in Int, NEW b \in Int, a <= b
    PROVE  a \div d <= b \div d
<1> DEFINE p == a \div d
<1>1. p \in Int /\ d * p <= a /\ d * p \in Int
  BY QuotientFits
<1> HIDE DEF p
<1>2. d * p <= b
  BY <1>1
<1>3. p <= b \div d
  BY <1>1, <1>2, QuotientIs
<1> QED BY <1>3 DEF p

(* A multiple has the quotient it is a multiple by.                         *)
LEMMA QuotientOfMultiple ==
    ASSUME NEW d \in Nat \ {0}, NEW q \in Int
    PROVE  (d * q) \div d = q /\ (q * d) \div d = q
<1>1. d * q \in Int /\ d * q < d * q + d /\ q * d = d * q
  OBVIOUS
<1> QED BY <1>1, QuotientIs

(* Slices of a value: never negative, never more than the value, and the    *)
(* whole value when nothing is cut off.                                     *)
LEMMA SliceBounds ==
    ASSUME NEW v \in Nat, NEW d \in Nat \ {0}, NEW f \in Nat, NEW t \in Nat, f <= t, t <= d
    PROVE  /\ Slice(v, d, f, t) \in Nat
           /\ Slice(v, d, 0, t) <= v
           /\ Slice(v, d, 0, d) = v
<1>1. v * f \in Nat /\ v * t \in Nat /\ v * d \in Nat /\ v * f <= v * t /\ v * t <= v * d
  BY ProductKeepsOrder
<1>2. /\ (v * f) \div d \in Nat /\ (v * t) \div d \in Nat /\ (v * d) \div d = v
      /\ (v * f) \div d <= (v * t) \div d /\ (v * t) \div d <= (v * d) \div d
  BY <1>1, QuotientFits, QuotientKeepsOrder, QuotientOfMultiple
<1>3. (v * 0) \div d = 0
  <2>1. v * 0 = d * 0
    OBVIOUS
  <2> QED BY <2>1, QuotientOfMultiple
<1> HIDE DEF Slice
<1>4. /\ Slice(v, d, f, t) = (v * t) \div d - (v * f) \div d
      /\ Slice(v, d, 0, t) = (v * t) \div d
      /\ Slice(v, d, 0, d) = v
  BY <1>2, <1>3 DEF Slice
<1> QED BY <1>2, <1>4

(* Cutting a row at A and counting its rest up to X further on rounds at    *)
(* most once more than counting it in one piece.                            *)
CutAt(b, d, A, X, p, r, t) ==
    /\ p = (b * A) \div d
    /\ r = ((b - p) * X) \div (d - A)
    /\ t = (b * (A + X)) \div d

(* The bytes of both parts, and of the whole, up to X past the cut.         *)
LEMMA CuttingRoundsOnce ==
    ASSUME NEW b \in Nat, NEW d \in Nat, NEW A \in Nat, NEW X \in Nat, A < d, X < d - A,
           NEW p, NEW r, NEW t, CutAt(b, d, A, X, p, r, t)
    PROVE  p + r \in Int /\ t \in Int /\ t - 1 <= p + r /\ p + r <= t
<1>0. p = (b * A) \div d /\ r = ((b - p) * X) \div (d - A) /\ t = (b * (A + X)) \div d
  BY DEF CutAt
<1> DEFINE e == d - A
<1>1. d \in Nat \ {0} /\ e \in Nat \ {0} /\ e \in Int /\ X < e /\ d = e + A /\ e > 0 /\ d > 0
  OBVIOUS
<1>2. b * A \in Int /\ p \in Int /\ d * p <= b * A /\ b * A < d * p + d /\ d * p \in Int
  BY <1>0, <1>1, QuotientFits
<1>3. (b - p) * X \in Int /\ r \in Int /\ e * r <= (b - p) * X /\ (b - p) * X < e * r + e
  <2>1. b - p \in Int
    BY <1>2
  <2>2. (b - p) * X \in Int
    BY <2>1
  <2> QED BY <1>0, <1>1, <2>2, QuotientFits
<1>4. b * (A + X) \in Int /\ t \in Int
  BY <1>0, <1>1, QuotientFits
<1> DEFINE u == b * A - d * p
           w == e - X
           y == (b - p) * X
<1>5. u \in Int /\ 0 <= u /\ u < d /\ w \in Int /\ 0 < w /\ w <= e /\ y \in Int
      /\ e * r <= y /\ y < e * r + e /\ e * r \in Int
  BY <1>1, <1>2, <1>3
<1>6. e * (b * (A + X)) = u * w + e * (d * p) + d * y
  <2> HIDE DEF e
  <2>1. d = e + A
    BY <1>1
  <2> QED BY <1>1, <1>2, <2>1
<1> HIDE DEF e, u, w, y
<1>7. 0 <= u * w /\ u * w <= d * w - w /\ d * w <= d * e /\ u * w \in Int /\ d * w \in Int /\ d * e \in Int
  <2>1. u \in Nat /\ w \in Nat /\ u <= d - 1
    BY <1>1, <1>5
  <2>2. w * u <= w * (d - 1)
    BY <1>1, <2>1, ProductKeepsOrder
  <2>3. d * w <= d * e
    BY <1>1, <1>5, ProductKeepsOrder
  <2>4. w * (d - 1) = d * w - w /\ w * u = u * w
    BY <1>1, <2>1
  <2>5. 0 <= u * w
    BY <2>1
  <2> QED BY <1>1, <1>5, <2>2, <2>3, <2>4, <2>5
<1>8. d * (e * r) <= d * y /\ d * y < d * (e * r) + d * e
  <2>1. d * (e * r) <= d * y
    BY <1>1, <1>5, ProductKeepsOrder
  <2>2. d * y < d * (e * r + e)
    BY <1>1, <1>5, ProductKeepsOrder
  <2>3. d * (e * r + e) = d * (e * r) + d * e
    BY <1>1, <1>5
  <2> QED BY <2>1, <2>2, <2>3
<1>9. e * (d * (p + r)) = e * (d * p) + d * (e * r)
  BY <1>1, <1>2, <1>3
<1>10. e * (d * (p + r)) <= e * (b * (A + X))
  <2>1. e * (d * p) \in Int /\ d * (e * r) \in Int /\ d * y \in Int
    BY <1>1, <1>2, <1>5
  <2> QED BY <1>6, <1>7, <1>8, <1>9, <2>1
<1>11. e * (b * (A + X)) < e * (d * (p + r) + 2 * d)
  <2>1. e * (d * (p + r) + 2 * d) = e * (d * (p + r)) + 2 * (d * e)
    BY <1>1, <1>2, <1>3
  <2>2. e * (d * p) \in Int /\ d * (e * r) \in Int /\ d * y \in Int /\ e * (d * (p + r)) \in Int
    BY <1>1, <1>2, <1>3, <1>5
  <2>3. u * w < d * e
    BY <1>5, <1>7
  <2> QED BY <1>6, <1>7, <1>8, <1>9, <2>1, <2>2, <2>3
<1>12. d * (p + r) \in Int /\ d * (p + r) + 2 * d \in Int /\ p + r \in Int /\ p + r + 2 \in Int
  BY <1>1, <1>2, <1>3
<1>13. d * (p + r) <= b * (A + X) /\ b * (A + X) < d * (p + r) + 2 * d
  BY <1>1, <1>4, <1>10, <1>11, <1>12, ProductKeepsOrder
<1>14. p + r <= t
  BY <1>0, <1>1, <1>4, <1>12, <1>13, QuotientIs
<1>15. d * (p + r) + 2 * d = d * (p + r + 2)
  BY <1>1, <1>2, <1>3
<1>16. t < p + r + 2
  <2> DEFINE n == p + r + 2
             a == b * (A + X)
  <2>1. n \in Int /\ a \in Int /\ a < d * n /\ d \in Nat \ {0}
    BY <1>1, <1>4, <1>12, <1>13, <1>15
  <2>2. a \div d < n
    <3> HIDE DEF n, a
    <3> QED BY <2>1, QuotientIs
  <2> QED BY <1>0, <2>2
<1> QED BY <1>4, <1>12, <1>14, <1>16

(* The largest element of a finite set of numbers. *)
LEMMA MaxOfFinite ==
    ASSUME NEW S \in SUBSET Int, IsFiniteSet(S), S # {}
    PROVE  Max(S) \in S /\ \A y \in S : y <= Max(S)
<1> DEFINE G == {T \in SUBSET S : T # {} => \E x \in T : \A y \in T : y <= x}
<1>1. {} \in G
  OBVIOUS
<1>2. ASSUME NEW T \in SUBSET S, NEW z \in S, T \in G, z \notin T PROVE T \cup {z} \in G
  <2>1. CASE T = {}
    <3>1. z <= z
      OBVIOUS
    <3> QED BY <2>1, <3>1
  <2>2. CASE T # {}
    <3>1. PICK x \in T : \A y \in T : y <= x
      BY <1>2, <2>2
    <3>2. x \in Int /\ z \in Int /\ T \subseteq Int
      OBVIOUS
    <3>3. CASE z <= x
      BY <3>1, <3>3
    <3>4. CASE ~(z <= x)
      <4>1. \A y \in T \cup {z} : y <= z
        BY <3>1, <3>2, <3>4
      <4> QED BY <4>1
    <3> QED BY <3>3, <3>4
  <2> QED BY <2>1, <2>2
<1> HIDE DEF G
<1>3. S \in G
  BY <1>1, <1>2, FiniteIsGenerated
<1>4. \E x \in S : \A y \in S : x >= y
  BY <1>3 DEF G
<1> QED BY <1>4 DEF Max

(* Intervals that do not overlap are together no longer than the interval   *)
(* they lie in.                                                             *)
LEMMA DisjointLengths ==
    ASSUME NEW S, IsFiniteSet(S), NEW lo, NEW hi, NEW len, NEW a \in Int, NEW b \in Int, a <= b,
           \A s \in S : /\ lo[s] \in Int /\ hi[s] \in Int /\ len[s] = hi[s] - lo[s]
                        /\ a <= lo[s] /\ lo[s] <= hi[s] /\ hi[s] <= b,
           \A s, t \in S : s = t \/ hi[s] <= lo[t] \/ hi[t] <= lo[s]
    PROVE  SumFunctionOnSet(len, S) \in Nat /\ SumFunctionOnSet(len, S) <= b - a
<1> DEFINE In(s) == lo[s] .. hi[s] - 1
           Covered(T) == {x \in a .. b - 1 : \E s \in T : x \in In(s)}
           G == {T \in SUBSET S : SumFunctionOnSet(len, T) = Cardinality(Covered(T))}
<1>1. IsFiniteSet(a .. b - 1) /\ Cardinality(a .. b - 1) = b - a
  <2>1. b - 1 \in Int
    OBVIOUS
  <2>2. IsFiniteSet(a .. b - 1) /\ Cardinality(a .. b - 1) = IF a > b - 1 THEN 0 ELSE (b - 1) - a + 1
    BY <2>1, FS_Interval
  <2> QED BY <2>2
<1>2. \A T : /\ IsFiniteSet(Covered(T)) /\ Cardinality(Covered(T)) \in Nat
             /\ Cardinality(Covered(T)) <= b - a
  <2>1. \A T : Covered(T) \in SUBSET (a .. b - 1)
    OBVIOUS
  <2> HIDE DEF Covered
  <2> QED BY <1>1, <2>1, FS_Subset, FS_CardinalityType
<1>3. {} \in G
  <2>1. Covered({}) = {}
    OBVIOUS
  <2> HIDE DEF Covered
  <2> QED BY <2>1, SumEmpty, FS_EmptySet
<1>4. ASSUME NEW T \in SUBSET S, NEW z \in S, T \in G, z \notin T PROVE T \cup {z} \in G
  <2>1. IsFiniteSet(T) /\ \A s \in T \cup {z} : len[s] \in Int
    BY FS_Subset
  <2>2. SumFunctionOnSet(len, T \cup {z}) = len[z] + SumFunctionOnSet(len, T)
    BY <1>4, <2>1, SumInsert
  <2>3. In(z) \subseteq a .. b - 1
    OBVIOUS
  <2>4. Covered(T \cup {z}) = Covered(T) \cup In(z)
    BY <2>3
  <2>5. Covered(T) \cap In(z) = {}
    <3> SUFFICES ASSUME NEW x \in Int, NEW s \in T, x \in In(s), x \in In(z) PROVE FALSE
      OBVIOUS
    <3>1. s # z /\ s \in S
      BY <1>4
    <3>2. hi[s] <= lo[z] \/ hi[z] <= lo[s]
      BY <3>1
    <3>3. lo[s] <= x /\ x <= hi[s] - 1 /\ lo[z] <= x /\ x <= hi[z] - 1
      OBVIOUS
    <3>4. lo[s] \in Int /\ hi[s] \in Int /\ lo[z] \in Int /\ hi[z] \in Int
      BY <3>1
    <3> QED BY <3>2, <3>3, <3>4
  <2>6. IsFiniteSet(In(z)) /\ Cardinality(In(z)) = len[z]
    <3>1. lo[z] \in Int /\ hi[z] - 1 \in Int
      OBVIOUS
    <3>2. /\ IsFiniteSet(In(z))
          /\ Cardinality(In(z)) = IF lo[z] > hi[z] - 1 THEN 0 ELSE (hi[z] - 1) - lo[z] + 1
      BY <3>1, FS_Interval
    <3> QED BY <3>2
  <2>0. SumFunctionOnSet(len, T) = Cardinality(Covered(T))
    BY <1>4
  <2> HIDE DEF In, Covered
  <2>7. Cardinality(Covered(T) \cup In(z)) = Cardinality(Covered(T)) + len[z] - 0
    BY <1>2, <2>5, <2>6, FS_Union, FS_EmptySet
  <2>8. Cardinality(Covered(T)) \in Nat /\ len[z] \in Int
    BY <1>2
  <2>9. Cardinality(Covered(T \cup {z})) = Cardinality(Covered(T) \cup In(z))
    BY <2>4
  <2>10. Cardinality(Covered(T)) + len[z] - 0 = len[z] + Cardinality(Covered(T))
    BY <2>8
  <2>11. SumFunctionOnSet(len, T \cup {z}) = Cardinality(Covered(T \cup {z}))
    BY <2>0, <2>2, <2>7, <2>9, <2>10
  <2> QED BY <2>11
<1>5. S \in G
  <2> HIDE DEF G
  <2> QED BY <1>3, <1>4, FiniteIsGenerated
<1>6. SumFunctionOnSet(len, S) = Cardinality(Covered(S))
  BY <1>5
<1> HIDE DEF Covered
<1> QED BY <1>2, <1>6

-----------------------------------------------------------------------------
(* The samples, and what a batch consumes of them.                          *)

(* Stored samples have a length and lie apart, behind the frontier. *)
SamplesApart ==
    /\ IsFiniteSet(samples)
    /\ \A s \in samples : s.start < s.end
    /\ \A s, t \in samples : s.iface = t.iface => s = t \/ s.end <= t.start \/ t.end <= s.start

(* The columns of a stored sample.                                          *)
LEMMA SampleFields ==
    ASSUME TypeOK, NEW s \in samples
    PROVE  /\ s \in Samples /\ s.iface \in Interfaces /\ s.iface \in Nat
           /\ s.start \in Nat /\ s.end \in Nat /\ s.start <= MaxTime /\ s.end <= MaxTime
           /\ s.start \in Times /\ s.end \in Times
           /\ s.bytes \in Nat /\ s.exact \in BOOLEAN
<1>1. s \in Samples /\ MaxTime \in Nat /\ Interfaces \subseteq Nat
  BY HistoryConstants DEF TypeOK
<1>2. /\ s.iface \in Interfaces /\ s.start \in Times /\ s.end \in Times
      /\ s.bytes \in Nat /\ s.exact \in BOOLEAN
  BY <1>1 DEF Samples
<1>3. \A t \in Times : t \in Nat /\ t <= MaxTime
  BY <1>1 DEF Times
<1> QED BY <1>1, <1>2, <1>3

(* ORDER BY started_at_ms, id orders the samples totally. *)
LEMMA BeforeIsOrder ==
    ASSUME TypeOK, SamplesApart
    PROVE  /\ \A s, t, u \in samples : Before(s, t) /\ Before(t, u) => Before(s, u)
           /\ \A s \in samples : ~Before(s, s)
           /\ \A s, t \in samples : s # t => Before(s, t) \/ Before(t, s)
           /\ \A s, t \in samples : Before(s, t) /\ s.iface = t.iface => s.end <= t.start
<1>1. \A s \in samples : s.start \in Int /\ s.end \in Int /\ s.iface \in Int /\ s.start < s.end
  BY SampleFields DEF SamplesApart
<1>2. \A s, t, u \in samples : Before(s, t) /\ Before(t, u) => Before(s, u)
  BY <1>1 DEF Before
<1>3. \A s \in samples : ~Before(s, s)
  BY <1>1 DEF Before
<1>4. \A s, t \in samples : s.iface = t.iface /\ ~(s.end <= t.start) /\ ~(t.end <= s.start) => s = t
  BY DEF SamplesApart
<1>5. ASSUME NEW s \in samples, NEW t \in samples, s # t PROVE Before(s, t) \/ Before(t, s)
  BY <1>1, <1>4, <1>5 DEF Before
<1>6. ASSUME NEW s \in samples, NEW t \in samples, Before(s, t), s.iface = t.iface
      PROVE  s.end <= t.start
  BY <1>1, <1>3, <1>4, <1>6 DEF Before
<1> QED BY <1>2, <1>3, <1>5, <1>6

(* A batch (ORDER BY started_at_ms, id LIMIT) holds the first of the        *)
(* samples that are due.                                                    *)
LEMMA BatchIsFirst ==
    ASSUME TypeOK, SamplesApart, NEW cutoff
    PROVE  /\ Batch(cutoff) \subseteq samples /\ IsFiniteSet(Batch(cutoff))
           /\ \A s \in Batch(cutoff) : s.start < cutoff
           /\ \A s \in Batch(cutoff), t \in samples \ Batch(cutoff) :
                t.start < cutoff => Before(s, t)
<1> DEFINE due == {s \in samples : s.start < cutoff}
           Earlier(s) == {t \in due : Before(t, s)}
<1>1. IsFiniteSet(due) /\ \A s : IsFiniteSet(Earlier(s)) /\ Cardinality(Earlier(s)) \in Nat
  <2>1. due \in SUBSET samples /\ \A s : Earlier(s) \in SUBSET samples
    OBVIOUS
  <2> HIDE DEF due, Earlier
  <2> QED BY <2>1, FS_Subset, FS_CardinalityType DEF SamplesApart
<1>2. Batch(cutoff) = {s \in due : Cardinality(Earlier(s)) < BatchSize}
  BY DEF Batch
<1>3. IsFiniteSet(Batch(cutoff))
  <2>1. Batch(cutoff) \in SUBSET due
    BY <1>2
  <2> HIDE DEF due
  <2> QED BY <1>1, <2>1, FS_Subset
<1>4. ASSUME NEW s \in Batch(cutoff), NEW t \in samples \ Batch(cutoff), t.start < cutoff
      PROVE  Before(s, t)
  <2> SUFFICES ASSUME Before(t, s) PROVE FALSE
    BY <1>2, BeforeIsOrder
  <2>1. s \in samples /\ t \in due /\ Cardinality(Earlier(s)) < BatchSize /\ BatchSize \in Nat
    BY <1>2, <1>4, HistoryConstants
  <2>2. Earlier(t) \in SUBSET Earlier(s)
    BY <2>1, BeforeIsOrder
  <2> HIDE DEF due, Earlier
  <2>3. Cardinality(Earlier(t)) <= Cardinality(Earlier(s))
    BY <1>1, <2>2, FS_Subset
  <2>4. Cardinality(Earlier(t)) < BatchSize
    BY <1>1, <2>1, <2>3
  <2>5. t \in Batch(cutoff)
    BY <1>2, <2>1, <2>4
  <2> QED BY <2>5
<1> QED BY <1>2, <1>3, <1>4

(* Times and buckets. *)
LEMMA BucketBounds ==
    ASSUME NEW t \in Int
    PROVE  /\ BucketOf(t) \in Int
           /\ BucketSize * BucketOf(t) <= t
           /\ t < BucketSize * BucketOf(t) + BucketSize
           /\ t \in Nat => BucketOf(t) \in Nat
           /\ BucketSize \in Nat \ {0}
<1>1. BucketSize \in Nat \ {0}
  BY HistoryConstants
<1> QED BY <1>1, QuotientFits DEF BucketOf

(* A time lies before the start of a bucket when its own bucket is an       *)
(* earlier one.                                                             *)
LEMMA BucketOrder ==
    ASSUME NEW t \in Int, NEW k \in Int
    PROVE  /\ BucketOf(t) < k <=> t < BucketSize * k
           /\ k * BucketSize = BucketSize * k /\ (k + 1) * BucketSize = BucketSize * k + BucketSize
           /\ BucketSize * k \in Int
<1>1. BucketSize \in Nat \ {0} /\ BucketSize * k \in Int
  BY HistoryConstants
<1>2. t < BucketSize * k => BucketOf(t) < k
  BY <1>1, QuotientIs DEF BucketOf
<1>3. BucketSize * k <= t => k <= BucketOf(t)
  BY <1>1, QuotientIs DEF BucketOf
<1>4. k * BucketSize = BucketSize * k /\ (k + 1) * BucketSize = BucketSize * k + BucketSize
  BY <1>1
<1> QED BY <1>1, <1>2, <1>3, <1>4, BucketBounds

(* A sample that is due has a planned end behind its start, and a piece.    *)
LEMMA PieceCount ==
    ASSUME TypeOK, SamplesApart, NEW cutoff \in Nat, NEW s \in samples, s.start < cutoff
    PROVE  /\ PlannedEnd(s, cutoff) \in Nat
           /\ s.start < PlannedEnd(s, cutoff)
           /\ PlannedEnd(s, cutoff) <= s.end /\ PlannedEnd(s, cutoff) <= cutoff
           /\ s.end <= cutoff => PlannedEnd(s, cutoff) = s.end
           /\ Pieces(s, cutoff) \in Nat \ {0}
           /\ BucketOf(s.start) \in Nat
<1>1. s.start \in Nat /\ s.end \in Nat /\ s.start < s.end
  BY SampleFields DEF SamplesApart
<1> DEFINE e == PlannedEnd(s, cutoff)
<1>2. /\ e \in Nat /\ s.start < e /\ e <= s.end /\ e <= cutoff
      /\ s.end <= cutoff => e = s.end
  BY <1>1 DEF PlannedEnd, Lesser
<1> HIDE DEF e
<1>3. BucketOf(e - 1) \in Nat /\ BucketOf(s.start) \in Nat
  <2>1. e - 1 \in Nat /\ s.start \in Int
    BY <1>1, <1>2
  <2> QED BY <1>1, <2>1, BucketBounds
<1>4. BucketOf(s.start) <= BucketOf(e - 1)
  <2>1. s.start <= e - 1 /\ e - 1 \in Int /\ s.start \in Int /\ BucketSize \in Nat \ {0}
    BY <1>1, <1>2, HistoryConstants
  <2> QED BY <2>1, QuotientKeepsOrder DEF BucketOf
<1> QED BY <1>2, <1>3, <1>4 DEF Pieces, e

(* The budget shrinks by the pieces of every sample before. *)
LEMMA BudgetShrinks ==
    ASSUME TypeOK, SamplesApart, NEW cutoff \in Nat, NEW s \in Batch(cutoff)
    PROVE  /\ BudgetLeft(s, cutoff) \in Int
           /\ BudgetLeft(s, cutoff) <= SegmentBudget
           /\ (\A t \in Batch(cutoff) : ~Before(t, s)) => BudgetLeft(s, cutoff) = SegmentBudget
           /\ \A t \in Batch(cutoff) :
                Before(s, t) => BudgetLeft(t, cutoff) + Pieces(s, cutoff) <= BudgetLeft(s, cutoff)
<1> DEFINE B == Batch(cutoff)
           P == [u \in B |-> Pieces(u, cutoff)]
           E(u) == {t \in B : Before(t, u)}
<1>1. IsFiniteSet(B) /\ B \subseteq samples /\ \A u \in B : P[u] \in Nat /\ P[u] \in Int /\ P[u] = Pieces(u, cutoff)
  BY BatchIsFirst, PieceCount
<1>2. SegmentBudget \in Int
  BY HistoryConstants DEF SegmentBudget
<1> HIDE DEF P
<1>3. ASSUME NEW u \in B
      PROVE  /\ IsFiniteSet(E(u)) /\ E(u) \in SUBSET B
             /\ BudgetLeft(u, cutoff) = SegmentBudget - SumFunctionOnSet(P, E(u))
             /\ SumFunctionOnSet(P, E(u)) \in Nat
  <2> DEFINE f == [t \in E(u) |-> Pieces(t, cutoff)]
  <2>1. BudgetLeft(u, cutoff) = SegmentBudget - SumFunction(f)
    BY DEF BudgetLeft
  <2>2. DOMAIN f = E(u) /\ \A t \in E(u) : t \in B /\ f[t] = Pieces(t, cutoff)
    OBVIOUS
  <2>3. E(u) \in SUBSET B
    OBVIOUS
  <2> HIDE DEF f, E, B
  <2>4. IsFiniteSet(E(u))
    BY <1>1, <2>3, FS_Subset
  <2>5. \A t \in E(u) : f[t] \in Int /\ f[t] = P[t] /\ P[t] \in Nat
    BY <1>1, <2>2
  <2>6. SumFunctionOnSet(f, E(u)) = SumFunctionOnSet(P, E(u))
    BY <2>4, <2>5, SumSame
  <2>7. SumFunction(f) = SumFunctionOnSet(P, E(u))
    BY <2>2, <2>6 DEF SumFunction
  <2>8. SumFunctionOnSet(P, E(u)) \in Nat
    BY <2>4, <2>5, SumIsNat
  <2> QED BY <2>1, <2>3, <2>4, <2>7, <2>8
<1>4. ASSUME NEW t \in B, Before(s, t)
      PROVE  BudgetLeft(t, cutoff) + Pieces(s, cutoff) <= BudgetLeft(s, cutoff)
  <2>1. E(s) \cup {s} \in SUBSET E(t) /\ s \notin E(s) /\ s \in B
    BY <1>1, <1>4, BeforeIsOrder
  <2> HIDE DEF E, B
  <2>2. SumFunctionOnSet(P, E(s) \cup {s}) = P[s] + SumFunctionOnSet(P, E(s))
    <3>1. \A u \in E(s) \cup {s} : P[u] \in Int
      BY <1>1, <1>3, <2>1
    <3> QED BY <1>3, <2>1, <3>1, SumInsert
  <2>3. SumFunctionOnSet(P, E(s) \cup {s}) <= SumFunctionOnSet(P, E(t))
    <3>1. \A u \in E(t) : P[u] \in Nat
      BY <1>1, <1>3, <1>4
    <3> QED BY <1>3, <1>4, <2>1, <3>1, SumOfFewer
  <2>4. P[s] = Pieces(s, cutoff) /\ P[s] \in Nat
    BY <1>1, <2>1
  <2> QED BY <1>2, <1>3, <1>4, <2>1, <2>2, <2>3, <2>4
<1>5. (\A t \in B : ~Before(t, s)) => BudgetLeft(s, cutoff) = SegmentBudget
  <2> SUFFICES ASSUME \A t \in B : ~Before(t, s) PROVE BudgetLeft(s, cutoff) = SegmentBudget
    OBVIOUS
  <2>1. E(s) = {}
    OBVIOUS
  <2> HIDE DEF E
  <2> QED BY <1>2, <1>3, <2>1, SumEmpty
<1>6. BudgetLeft(s, cutoff) \in Int /\ BudgetLeft(s, cutoff) <= SegmentBudget
  <2> HIDE DEF E
  <2> QED BY <1>2, <1>3
<1> QED BY <1>4, <1>5, <1>6

(* A sample is consumed when some budget is left for it, and then as far as *)
(* the budget goes: to its planned end or to the end of a bucket.           *)
LEMMA ReachedBounds ==
    ASSUME TypeOK, SamplesApart, NEW cutoff \in Nat, NEW s \in Batch(cutoff)
    PROVE  /\ Reached(s, cutoff) \in Nat
           /\ s.start < Reached(s, cutoff) <=> BudgetLeft(s, cutoff) > 0
           /\ Reached(s, cutoff) <= PlannedEnd(s, cutoff)
           /\ BudgetLeft(s, cutoff) >= Pieces(s, cutoff) => Reached(s, cutoff) = PlannedEnd(s, cutoff)
<1> DEFINE L == BudgetLeft(s, cutoff)
           P == Pieces(s, cutoff)
           e == PlannedEnd(s, cutoff)
           a == BucketOf(s.start)
           z == BucketOf(e - 1)
           r == Reached(s, cutoff)
<1>1. /\ s \in samples /\ s.start < cutoff /\ s.start \in Nat
      /\ L \in Int /\ P \in Nat \ {0} /\ e \in Nat /\ s.start < e /\ a \in Nat
  BY BatchIsFirst, PieceCount, BudgetShrinks, SampleFields
<1>2. /\ z \in Int /\ P = z - a + 1 /\ BucketSize * z <= e - 1
      /\ BucketSize \in Nat \ {0}
      /\ s.start < BucketSize * a + BucketSize
  <2>1. e - 1 \in Int /\ s.start \in Int
    BY <1>1
  <2> QED BY <2>1, BucketBounds DEF Pieces
<1>3. r = IF L >= P THEN e ELSE IF L <= 0 THEN s.start ELSE (a + L) * BucketSize
  <2> HIDE DEF P, L, e
  <2>1. CASE L >= P
    BY <1>1, <2>1 DEF Reached, P, L, e
  <2>2. CASE ~(L >= P) /\ L <= 0
    BY <1>1, <2>2 DEF Reached, P, L, e
  <2>3. CASE ~(L >= P) /\ ~(L <= 0)
    BY <1>1, <2>3 DEF Reached, P, L, e
  <2> QED BY <2>1, <2>2, <2>3
<1> HIDE DEF L, P, e, a, z, r
<1>4. /\ r \in Nat
      /\ s.start < r <=> L > 0
      /\ r <= e
      /\ L >= P => r = e
  <2>1. CASE L >= P
    BY <1>1, <1>3, <2>1
  <2>2. CASE ~(L >= P) /\ L <= 0
    BY <1>1, <1>3, <2>2
  <2>3. CASE ~(L >= P) /\ ~(L <= 0)
    <3>1. a + L <= z /\ a + 1 <= a + L /\ a + L \in Nat /\ BucketSize \in Nat
      BY <1>1, <1>2, <2>3
    <3>2. BucketSize * (a + L) <= BucketSize * z /\ BucketSize * (a + 1) <= BucketSize * (a + L)
      BY <1>1, <1>2, <3>1, ProductKeepsOrder
    <3>3. BucketSize * (a + 1) = BucketSize * a + BucketSize /\ (a + L) * BucketSize = BucketSize * (a + L)
      BY <1>1, <1>2, <3>1
    <3>4. BucketSize * (a + L) \in Nat /\ BucketSize * z \in Int /\ BucketSize * a \in Int
      BY <1>1, <1>2, <3>1
    <3>5. r = BucketSize * (a + L)
      BY <1>3, <2>3, <3>3
    <3> QED BY <1>1, <1>2, <2>3, <3>2, <3>3, <3>4, <3>5
  <2> QED BY <2>1, <2>2, <2>3
<1> QED BY <1>4 DEF L, P, e, r

(* What every plan of a batch does: of an interface it consumes the oldest  *)
(* samples, all but the last one of them to their ends.                     *)
Consumes(plan) ==
    /\ DOMAIN plan \subseteq samples
    /\ \A s \in DOMAIN plan : plan[s] \in Nat /\ s.start < plan[s] /\ plan[s] <= s.end
    /\ \A s, t \in DOMAIN plan :
         s.iface = t.iface /\ s # t => \/ s.end <= t.start /\ plan[s] = s.end
                                       \/ t.end <= s.start /\ plan[t] = t.end
    /\ \A s \in DOMAIN plan, t \in samples \ DOMAIN plan :
         s.iface = t.iface => s.end <= t.start

(* A sample of the batch is in the plan when some budget is left for it.    *)
LEMMA PlanMembers ==
    ASSUME TypeOK, SamplesApart, NEW cutoff \in Nat
    PROVE  /\ DOMAIN Plan(cutoff) = {s \in Batch(cutoff) : BudgetLeft(s, cutoff) > 0}
           /\ \A s \in DOMAIN Plan(cutoff) :
                /\ s \in Batch(cutoff) /\ s \in samples
                /\ BudgetLeft(s, cutoff) > 0
                /\ Plan(cutoff)[s] = Reached(s, cutoff)
<1>1. Batch(cutoff) \subseteq samples
  BY BatchIsFirst
<1>2. \A s \in Batch(cutoff) : Reached(s, cutoff) > s.start <=> BudgetLeft(s, cutoff) > 0
  <2> SUFFICES ASSUME NEW s \in Batch(cutoff)
               PROVE  Reached(s, cutoff) > s.start <=> BudgetLeft(s, cutoff) > 0
    OBVIOUS
  <2>1. s.start \in Nat /\ Reached(s, cutoff) \in Nat
    BY <1>1, ReachedBounds, SampleFields
  <2> QED BY <2>1, ReachedBounds
<1>3. DOMAIN Plan(cutoff) = {s \in Batch(cutoff) : Reached(s, cutoff) > s.start}
  BY DEF Plan
<1>4. \A s \in DOMAIN Plan(cutoff) : Plan(cutoff)[s] = Reached(s, cutoff)
  BY DEF Plan
<1> QED BY <1>1, <1>2, <1>3, <1>4

(* The plan of a batch consumes the oldest samples: one that comes later    *)
(* gets what the earlier leave of the budget.                               *)
LEMMA PlanConsumes ==
    ASSUME TypeOK, SamplesApart, NEW cutoff \in Nat
    PROVE  Consumes(Plan(cutoff))
<1> DEFINE plan == Plan(cutoff)
<1>1. /\ DOMAIN plan = {s \in Batch(cutoff) : BudgetLeft(s, cutoff) > 0}
      /\ \A s \in DOMAIN plan : /\ s \in Batch(cutoff) /\ s \in samples
                                /\ BudgetLeft(s, cutoff) > 0
                                /\ plan[s] = Reached(s, cutoff)
  BY PlanMembers
<1>2. Batch(cutoff) \subseteq samples /\ \A s \in Batch(cutoff) : s.start < cutoff
  BY BatchIsFirst
<1> HIDE DEF plan
<1>3. ASSUME NEW s \in Batch(cutoff)
      PROVE  /\ s.start \in Nat /\ s.end \in Nat /\ s.start < s.end
             /\ PlannedEnd(s, cutoff) \in Nat /\ PlannedEnd(s, cutoff) <= s.end
             /\ s.end <= cutoff => PlannedEnd(s, cutoff) = s.end
             /\ Pieces(s, cutoff) \in Nat \ {0} /\ BudgetLeft(s, cutoff) \in Int
             /\ Reached(s, cutoff) \in Nat
  BY <1>2, PieceCount, SampleFields, BudgetShrinks, ReachedBounds DEF SamplesApart
<1>4. ASSUME NEW s \in DOMAIN plan PROVE plan[s] \in Nat /\ s.start < plan[s] /\ plan[s] <= s.end
  <2>1. s \in Batch(cutoff) /\ BudgetLeft(s, cutoff) > 0 /\ plan[s] = Reached(s, cutoff)
    BY <1>1
  <2> QED BY <1>3, <2>1, ReachedBounds
<1>5. ASSUME NEW s \in DOMAIN plan, NEW t \in DOMAIN plan, s.iface = t.iface, Before(s, t)
      PROVE  s.end <= t.start /\ plan[s] = s.end
  <2>1. s \in Batch(cutoff) /\ t \in Batch(cutoff) /\ s \in samples /\ t \in samples
        /\ BudgetLeft(t, cutoff) > 0 /\ plan[s] = Reached(s, cutoff)
    BY <1>1
  <2>2. s.end <= t.start
    BY <1>5, <2>1, BeforeIsOrder
  <2>3. BudgetLeft(t, cutoff) + Pieces(s, cutoff) <= BudgetLeft(s, cutoff)
    BY <1>5, <2>1, BudgetShrinks
  <2>4. BudgetLeft(s, cutoff) >= Pieces(s, cutoff)
    BY <1>3, <2>1, <2>3
  <2>5. Reached(s, cutoff) = PlannedEnd(s, cutoff)
    BY <2>1, <2>4, ReachedBounds
  <2>6. s.end <= cutoff
    <3>1. t.start < cutoff /\ t.start \in Nat /\ s.end \in Nat
      BY <1>2, <1>3, <2>1
    <3> QED BY <2>2, <3>1
  <2> QED BY <1>3, <2>1, <2>2, <2>5, <2>6
<1>6. ASSUME NEW s \in DOMAIN plan, NEW t \in DOMAIN plan, s.iface = t.iface, s # t
      PROVE  \/ s.end <= t.start /\ plan[s] = s.end
             \/ t.end <= s.start /\ plan[t] = t.end
  <2>1. s \in samples /\ t \in samples
    BY <1>1
  <2>2. Before(s, t) \/ Before(t, s)
    BY <1>6, <2>1, BeforeIsOrder
  <2> QED BY <1>5, <1>6, <2>2
<1>7. ASSUME NEW s \in DOMAIN plan, NEW t \in samples \ DOMAIN plan, s.iface = t.iface
      PROVE  s.end <= t.start
  <2>1. s \in Batch(cutoff) /\ s \in samples /\ BudgetLeft(s, cutoff) > 0
    BY <1>1
  <2>2. Before(s, t)
    <3>1. CASE t \in Batch(cutoff)
      <4>1. ~(BudgetLeft(t, cutoff) > 0)
        BY <1>1, <1>7, <3>1
      <4>2. ~Before(t, s)
        <5> SUFFICES ASSUME Before(t, s) PROVE FALSE
          OBVIOUS
        <5>1. BudgetLeft(s, cutoff) + Pieces(t, cutoff) <= BudgetLeft(t, cutoff)
          BY <2>1, <3>1, BudgetShrinks
        <5>2. /\ BudgetLeft(s, cutoff) \in Int /\ BudgetLeft(t, cutoff) \in Int
              /\ Pieces(t, cutoff) \in Nat
          BY <1>3, <2>1, <3>1
        <5> QED BY <2>1, <4>1, <5>1, <5>2
      <4> QED BY <1>7, <2>1, <4>2, BeforeIsOrder
    <3>2. CASE t \notin Batch(cutoff) /\ t.start < cutoff
      BY <2>1, <3>2, BatchIsFirst
    <3>3. CASE ~(t.start < cutoff)
      <4>1. s.start \in Nat /\ t.start \in Nat /\ s.start < cutoff
        BY <1>2, <2>1, SampleFields
      <4>2. s.start < t.start
        BY <3>3, <4>1
      <4> QED BY <4>2 DEF Before
    <3> QED BY <3>1, <3>2, <3>3
  <2> QED BY <1>7, <2>1, <2>2, BeforeIsOrder
<1>8. DOMAIN plan \subseteq samples
  BY <1>1
<1>9. Consumes(plan)
  BY <1>4, <1>6, <1>7, <1>8 DEF Consumes
<1> QED BY <1>9 DEF plan

(* A sample that is not split lies in one bucket and is consumed whole.     *)
LEMMA WholeIsWhole ==
    ASSUME TypeOK, SamplesApart, NEW cutoff \in Nat, NEW s \in DOMAIN Plan(cutoff), ~Split(s, cutoff)
    PROVE  Plan(cutoff)[s] = s.end /\ BucketOf(s.end - 1) = BucketOf(s.start)
<1>1. s \in Batch(cutoff) /\ s \in samples /\ BudgetLeft(s, cutoff) > 0
      /\ Plan(cutoff)[s] = Reached(s, cutoff) /\ s.start < cutoff
  BY PlanMembers, BatchIsFirst
<1>2. /\ Pieces(s, cutoff) \in Nat \ {0} /\ Pieces(s, cutoff) <= 1 /\ PlannedEnd(s, cutoff) = s.end
      /\ BudgetLeft(s, cutoff) \in Int /\ s.end \in Nat /\ s.start \in Nat
  <2>1. Pieces(s, cutoff) \in Nat \ {0}
    BY <1>1, PieceCount
  <2>2. ~(Pieces(s, cutoff) > 1) /\ PlannedEnd(s, cutoff) = s.end
    BY DEF Split
  <2>3. BudgetLeft(s, cutoff) \in Int /\ s.end \in Nat /\ s.start \in Nat
    BY <1>1, BudgetShrinks, SampleFields
  <2> QED BY <2>1, <2>2, <2>3
<1>3. Reached(s, cutoff) = s.end
  BY <1>1, <1>2, ReachedBounds
<1>4. BucketOf(s.end - 1) \in Int /\ BucketOf(s.start) \in Int
  <2>1. s.end - 1 \in Int /\ s.start \in Int
    BY <1>2
  <2> QED BY <2>1, BucketBounds
<1>5. BucketOf(s.end - 1) - BucketOf(s.start) + 1 = 1
  BY <1>2 DEF Pieces
<1> QED BY <1>1, <1>3, <1>4, <1>5

-----------------------------------------------------------------------------
(* The pieces of a bucket.                                                  *)

(* A sample that reaches a bucket has a piece in it, with a length. *)
LEMMA PieceBounds ==
    ASSUME TypeOK, SamplesApart, NEW plan, Consumes(plan), NEW i, NEW k \in Nat,
           NEW s \in Reaching(plan, i, k)
    PROVE  /\ s \in DOMAIN plan /\ s \in samples /\ s.iface = i
           /\ s.start \in Nat /\ s.end \in Nat /\ plan[s] \in Nat
           /\ s.start < plan[s] /\ plan[s] <= s.end
           /\ PieceStart(s, k) \in Nat /\ PieceEnd(plan, s, k) \in Nat
           /\ BucketSize * k <= PieceStart(s, k) /\ s.start <= PieceStart(s, k)
           /\ PieceStart(s, k) < PieceEnd(plan, s, k)
           /\ PieceEnd(plan, s, k) <= BucketSize * k + BucketSize
           /\ PieceEnd(plan, s, k) <= plan[s]
<1>1. s \in DOMAIN plan /\ s \in samples /\ s.iface = i /\ BucketOf(s.start) <= k /\ plan[s] > k * BucketSize
  BY DEF Reaching, Consumes
<1>2. s.start \in Nat /\ s.end \in Nat /\ plan[s] \in Nat /\ s.start < plan[s] /\ plan[s] <= s.end
  BY <1>1, SampleFields DEF Consumes
<1>3. /\ k * BucketSize = BucketSize * k /\ (k + 1) * BucketSize = BucketSize * k + BucketSize
      /\ BucketSize * k \in Nat /\ BucketSize \in Nat \ {0}
  <2>1. BucketSize \in Nat \ {0}
    BY HistoryConstants
  <2> QED BY <2>1
<1>4. s.start < BucketSize * k + BucketSize
  <2>1. BucketOf(s.start) \in Nat /\ k + 1 \in Nat
    BY <1>2, BucketBounds
  <2>2. BucketOf(s.start) < k + 1
    BY <1>1, <2>1
  <2>3. s.start < BucketSize * (k + 1)
    <3> DEFINE K == k + 1
    <3>1. s.start \in Int /\ K \in Int /\ BucketOf(s.start) < K
      BY <1>2, <2>1, <2>2
    <3> HIDE DEF K
    <3>2. s.start < BucketSize * K
      BY <3>1, BucketOrder
    <3> QED BY <3>2 DEF K
  <2>4. BucketSize * (k + 1) = BucketSize * k + BucketSize
    BY <1>3
  <2> QED BY <2>3, <2>4
<1>5. /\ PieceStart(s, k) = IF s.start <= BucketSize * k THEN BucketSize * k ELSE s.start
      /\ PieceEnd(plan, s, k) = IF plan[s] <= BucketSize * k + BucketSize THEN plan[s]
                                ELSE BucketSize * k + BucketSize
  BY <1>3 DEF PieceStart, PieceEnd, Greater, Lesser
<1> QED BY <1>1, <1>2, <1>3, <1>4, <1>5

(* The pieces of a bucket do not overlap. *)
LEMMA PiecesApart ==
    ASSUME TypeOK, SamplesApart, NEW plan, Consumes(plan), NEW i, NEW k \in Nat,
           NEW s \in Reaching(plan, i, k), NEW t \in Reaching(plan, i, k), s # t
    PROVE  \/ PieceEnd(plan, s, k) <= PieceStart(t, k)
           \/ PieceEnd(plan, t, k) <= PieceStart(s, k)
<1>1. s \in DOMAIN plan /\ t \in DOMAIN plan /\ s.iface = t.iface
  BY PieceBounds
<1>2. s.end <= t.start \/ t.end <= s.start
  BY <1>1 DEF Consumes
<1>3. /\ PieceEnd(plan, s, k) \in Nat /\ PieceStart(t, k) \in Nat /\ plan[s] \in Nat /\ s.end \in Nat
      /\ PieceEnd(plan, s, k) <= plan[s] /\ plan[s] <= s.end /\ t.start \in Nat /\ t.start <= PieceStart(t, k)
  BY PieceBounds
<1>4. /\ PieceEnd(plan, t, k) \in Nat /\ PieceStart(s, k) \in Nat /\ plan[t] \in Nat /\ t.end \in Nat
      /\ PieceEnd(plan, t, k) <= plan[t] /\ plan[t] <= t.end /\ s.start \in Nat /\ s.start <= PieceStart(s, k)
  BY PieceBounds
<1> QED BY <1>2, <1>3, <1>4

(* Bytes and length of the pieces in bucket k. *)
PieceBytes(plan, k) ==
    [s \in DOMAIN plan |-> Slice(s.bytes, s.end - s.start,
                                 PieceStart(s, k) - s.start, PieceEnd(plan, s, k) - s.start)]
PieceMs(plan, k) == [s \in DOMAIN plan |-> PieceEnd(plan, s, k) - PieceStart(s, k)]

(* A piece has a length, and no negative number of bytes.                   *)
LEMMA PieceCounts ==
    ASSUME TypeOK, SamplesApart, NEW plan, Consumes(plan), NEW i, NEW k \in Nat,
           NEW s \in Reaching(plan, i, k)
    PROVE  /\ PieceBytes(plan, k)[s] \in Nat
           /\ PieceMs(plan, k)[s] \in Nat \ {0}
<1> DEFINE v == s.bytes
           d == s.end - s.start
           f == PieceStart(s, k) - s.start
           t == PieceEnd(plan, s, k) - s.start
<1>1. /\ s \in DOMAIN plan /\ s \in samples
      /\ s.start \in Nat /\ s.end \in Nat /\ plan[s] \in Nat
      /\ s.start < plan[s] /\ plan[s] <= s.end
      /\ PieceStart(s, k) \in Nat /\ PieceEnd(plan, s, k) \in Nat
      /\ s.start <= PieceStart(s, k)
      /\ PieceStart(s, k) < PieceEnd(plan, s, k)
      /\ PieceEnd(plan, s, k) <= plan[s]
  BY PieceBounds
<1>2. v \in Nat /\ d \in Nat \ {0} /\ f \in Nat /\ t \in Nat /\ f <= t /\ t <= d
  BY <1>1, SampleFields
<1>3. PieceBytes(plan, k)[s] = Slice(v, d, f, t) /\ PieceMs(plan, k)[s] = PieceEnd(plan, s, k) - PieceStart(s, k)
  BY <1>1 DEF PieceBytes, PieceMs
<1> HIDE DEF v, d, f, t
<1>4. Slice(v, d, f, t) \in Nat
  BY <1>2, SliceBounds
<1> QED BY <1>1, <1>3, <1>4

(* Finitely many samples have a piece in a bucket.                          *)
LEMMA ReachingIsFinite ==
    ASSUME SamplesApart, NEW plan, Consumes(plan), NEW i, NEW k
    PROVE  IsFiniteSet(Reaching(plan, i, k)) /\ IsFiniteSet(DOMAIN plan)
           /\ Reaching(plan, i, k) \subseteq DOMAIN plan
<1>1. Reaching(plan, i, k) \in SUBSET samples /\ DOMAIN plan \in SUBSET samples
      /\ Reaching(plan, i, k) \subseteq DOMAIN plan
  BY DEF Reaching, Consumes
<1> QED BY <1>1, FS_Subset DEF SamplesApart

(* The pieces whose bytes count as exact *)
Unsplit(from, cutoff) == {s \in from : s.exact /\ ~Split(s, cutoff)}

Estimates(from, cutoff) == from \ Unsplit(from, cutoff)

(* The fields of the row that a batch adds to a bucket. *)
LEMMA BucketFields ==
    ASSUME TypeOK, SamplesApart, NEW plan, Consumes(plan), NEW cutoff, NEW i, NEW k \in Nat
    PROVE  LET row   == Bucket(plan, cutoff, i, k)
               from  == Reaching(plan, i, k)
               exact == Unsplit(from, cutoff)
               rest  == Estimates(from, cutoff) IN
           /\ row.iface = i /\ row.start = BucketSize * k /\ row.source = "rollup"
           /\ row.end = CoveredTo(plan, from, k)
           /\ row.exact = SumFunctionOnSet(PieceBytes(plan, k), exact)
           /\ row.estimated = SumFunctionOnSet(PieceBytes(plan, k), rest)
           /\ row.exact_ms = SumFunctionOnSet(PieceMs(plan, k), exact)
           /\ row.estimated_ms = SumFunctionOnSet(PieceMs(plan, k), rest)
           /\ row.exact \in Nat /\ row.estimated \in Nat /\ row.exact_ms \in Nat /\ row.estimated_ms \in Nat
           /\ row.exact + row.estimated = SumFunctionOnSet(PieceBytes(plan, k), from)
           /\ CoveredMs(row) = SumFunctionOnSet(PieceMs(plan, k), from)
<1> DEFINE row == Bucket(plan, cutoff, i, k)
           from == Reaching(plan, i, k)
           exact == Unsplit(from, cutoff)
           B == PieceBytes(plan, k)
           M == PieceMs(plan, k)
           bytes(s) == Slice(s.bytes, s.end - s.start,
                             PieceStart(s, k) - s.start, PieceEnd(plan, s, k) - s.start)
           ms(s) == PieceEnd(plan, s, k) - PieceStart(s, k)
           rest == from \ exact
           b1 == [s \in exact |-> bytes(s)]
           b2 == [s \in rest |-> bytes(s)]
           m1 == [s \in exact |-> ms(s)]
           m2 == [s \in rest |-> ms(s)]
<1>1. /\ row = [iface |-> i, start |-> k * BucketSize, end |-> CoveredTo(plan, from, k),
                exact |-> SumFunction(b1), estimated |-> SumFunction(b2),
                exact_ms |-> SumFunction(m1), estimated_ms |-> SumFunction(m2),
                source |-> "rollup"]
  BY DEF Bucket, Unsplit, row, from, exact
<1>2. /\ IsFiniteSet(from) /\ IsFiniteSet(exact) /\ IsFiniteSet(rest)
      /\ exact \cap rest = {} /\ exact \cup rest = from /\ from \subseteq DOMAIN plan
  <2>1. IsFiniteSet(from) /\ from \subseteq DOMAIN plan /\ exact \in SUBSET from /\ rest \in SUBSET from
    BY ReachingIsFinite DEF Unsplit
  <2> QED BY <2>1, FS_Subset
<1>3. /\ \A s \in from : B[s] = bytes(s) /\ M[s] = ms(s)
      /\ \A s \in exact : b1[s] = bytes(s) /\ m1[s] = ms(s)
      /\ \A s \in rest : b2[s] = bytes(s) /\ m2[s] = ms(s)
      /\ DOMAIN b1 = exact /\ DOMAIN m1 = exact /\ DOMAIN b2 = rest /\ DOMAIN m2 = rest
  BY <1>2 DEF PieceBytes, PieceMs
<1>4. \A s \in from : B[s] \in Nat /\ B[s] \in Int /\ M[s] \in Nat /\ M[s] \in Int
  BY PieceCounts
<1>5. exact \subseteq from /\ rest \subseteq from
  BY DEF Unsplit
<1> HIDE DEF row, from, exact, B, M, b1, b2, m1, m2, bytes, ms, rest
<1>6. /\ SumFunction(b1) = SumFunctionOnSet(B, exact) /\ SumFunction(m1) = SumFunctionOnSet(M, exact)
      /\ SumFunction(b2) = SumFunctionOnSet(B, rest) /\ SumFunction(m2) = SumFunctionOnSet(M, rest)
  <2>1. \A s \in exact : b1[s] \in Int /\ b1[s] = B[s] /\ m1[s] \in Int /\ m1[s] = M[s]
    BY <1>3, <1>4, <1>5
  <2>2. \A s \in rest : b2[s] \in Int /\ b2[s] = B[s] /\ m2[s] \in Int /\ m2[s] = M[s]
    BY <1>3, <1>4, <1>5
  <2>3. SumFunctionOnSet(b1, exact) = SumFunctionOnSet(B, exact)
    BY <1>2, <2>1, SumSame
  <2>4. SumFunctionOnSet(m1, exact) = SumFunctionOnSet(M, exact)
    BY <1>2, <2>1, SumSame
  <2>5. SumFunctionOnSet(b2, rest) = SumFunctionOnSet(B, rest)
    BY <1>2, <2>2, SumSame
  <2>6. SumFunctionOnSet(m2, rest) = SumFunctionOnSet(M, rest)
    BY <1>2, <2>2, SumSame
  <2> QED BY <1>3, <2>3, <2>4, <2>5, <2>6 DEF SumFunction
<1>7. /\ SumFunctionOnSet(B, exact) \in Nat /\ SumFunctionOnSet(B, rest) \in Nat
      /\ SumFunctionOnSet(M, exact) \in Nat /\ SumFunctionOnSet(M, rest) \in Nat
  <2>1. \A s \in exact : B[s] \in Nat /\ M[s] \in Nat
    BY <1>4, <1>5
  <2>2. \A s \in rest : B[s] \in Nat /\ M[s] \in Nat
    BY <1>4, <1>5
  <2> QED BY <1>2, <2>1, <2>2, SumIsNat
<1>8. /\ SumFunctionOnSet(B, from) = SumFunctionOnSet(B, exact) + SumFunctionOnSet(B, rest)
      /\ SumFunctionOnSet(M, from) = SumFunctionOnSet(M, exact) + SumFunctionOnSet(M, rest)
  <2>1. \A s \in exact \cup rest : B[s] \in Int /\ M[s] \in Int
    BY <1>2, <1>4
  <2>2. SumFunctionOnSet(B, exact \cup rest) = SumFunctionOnSet(B, exact) + SumFunctionOnSet(B, rest)
    BY <1>2, <2>1, SumOfUnion
  <2>3. SumFunctionOnSet(M, exact \cup rest) = SumFunctionOnSet(M, exact) + SumFunctionOnSet(M, rest)
    BY <1>2, <2>1, SumOfUnion
  <2> QED BY <1>2, <2>2, <2>3
<1>9. k * BucketSize = BucketSize * k
  BY HistoryConstants
<1>10. /\ row.iface = i /\ row.start = BucketSize * k /\ row.source = "rollup"
       /\ row.end = CoveredTo(plan, from, k)
       /\ row.exact = SumFunction(b1) /\ row.estimated = SumFunction(b2)
       /\ row.exact_ms = SumFunction(m1) /\ row.estimated_ms = SumFunction(m2)
  BY <1>1, <1>9
<1>11. CoveredMs(row) = row.exact_ms + row.estimated_ms
  BY DEF CoveredMs
<1> QED BY <1>6, <1>7, <1>8, <1>10, <1>11 DEF row, from, exact, B, M, rest, Estimates

(* A bucket is covered from its pieces: no more than once, and never        *)
(* nothing.                                                                 *)
LEMMA BucketCovers ==
    ASSUME TypeOK, SamplesApart, NEW plan, Consumes(plan), NEW cutoff, NEW i, NEW k \in Nat,
           NEW from, from = Reaching(plan, i, k), from # {},
           NEW row, row = Bucket(plan, cutoff, i, k)
    PROVE  /\ row.end \in Nat /\ BucketSize * k < row.end /\ row.end <= BucketSize * k + BucketSize
           /\ \E s \in from : row.end = PieceEnd(plan, s, k)
           /\ \A s \in from : PieceEnd(plan, s, k) <= row.end
           /\ CoveredMs(row) \in Nat \ {0}
           /\ \A a \in Nat : (\A s \in from : a <= PieceStart(s, k)) => CoveredMs(row) <= row.end - a
<1> DEFINE ends == {PieceEnd(plan, s, k) : s \in from}
           M == PieceMs(plan, k)
<1>1. row.end = Max(ends) /\ CoveredMs(row) = SumFunctionOnSet(M, from)
  <2>1. row.end = CoveredTo(plan, from, k) /\ CoveredMs(row) = SumFunctionOnSet(PieceMs(plan, k), from)
    BY BucketFields
  <2> QED BY <2>1 DEF CoveredTo
<1>2. IsFiniteSet(from) /\ from \subseteq DOMAIN plan
  BY ReachingIsFinite
<1>3. \A s \in from : /\ PieceEnd(plan, s, k) \in Nat /\ PieceStart(s, k) \in Nat
                      /\ BucketSize * k <= PieceStart(s, k)
                      /\ PieceStart(s, k) < PieceEnd(plan, s, k)
                      /\ PieceEnd(plan, s, k) <= BucketSize * k + BucketSize
  BY PieceBounds
<1>4. ends \in SUBSET Int /\ IsFiniteSet(ends) /\ ends # {}
  <2>1. ends \in SUBSET Int /\ ends # {}
    BY <1>3
  <2>2. BucketSize * k + BucketSize \in Nat /\ ends \in SUBSET Nat
    BY <1>3, HistoryConstants
  <2>3. \A e \in ends : e <= BucketSize * k + BucketSize
    BY <1>3
  <2> HIDE DEF ends
  <2> QED BY <2>1, <2>2, <2>3, FS_BoundedSetOfNaturals
<1>5. Max(ends) \in ends /\ \A e \in ends : e <= Max(ends)
  <2> HIDE DEF ends
  <2> QED BY <1>4, MaxOfFinite
<1>6. PICK last \in from : row.end = PieceEnd(plan, last, k)
  BY <1>1, <1>5
<1>7. \A s \in from : PieceEnd(plan, s, k) <= row.end
  BY <1>1, <1>5
<1>8. row.end \in Nat /\ BucketSize * k < row.end /\ row.end <= BucketSize * k + BucketSize
  <2>1. BucketSize * k \in Nat
    BY HistoryConstants
  <2> QED BY <1>3, <1>6, <2>1
<1>9. \A s \in from : M[s] \in Nat /\ M[s] > 0
  BY PieceCounts
<1> HIDE DEF M, ends
<1>10. CoveredMs(row) \in Nat \ {0}
  <2>1. SumFunctionOnSet(M, from) \in Nat /\ M[last] <= SumFunctionOnSet(M, from)
    BY <1>2, <1>9, SumIsNat
  <2> QED BY <1>1, <1>9, <2>1
<1>11. ASSUME NEW a \in Nat, \A s \in from : a <= PieceStart(s, k)
       PROVE  CoveredMs(row) <= row.end - a
  <2> DEFINE lo == [s \in from |-> PieceStart(s, k)]
             hi == [s \in from |-> PieceEnd(plan, s, k)]
  <2>1. /\ \A s \in from : /\ lo[s] \in Int /\ hi[s] \in Int /\ M[s] = hi[s] - lo[s]
                           /\ a <= lo[s] /\ lo[s] <= hi[s] /\ hi[s] <= row.end
    BY <1>2, <1>3, <1>7, <1>11 DEF PieceMs, M
  <2>2. \A s, t \in from : s = t \/ hi[s] <= lo[t] \/ hi[t] <= lo[s]
    BY PiecesApart
  <2>3. a \in Int /\ row.end \in Int /\ a <= row.end
    BY <1>3, <1>6, <1>8, <1>11
  <2> HIDE DEF lo, hi
  <2>4. SumFunctionOnSet(M, from) <= row.end - a
    BY <1>2, <2>1, <2>2, <2>3, DisjointLengths
  <2> QED BY <1>1, <2>4
<1> QED BY <1>6, <1>7, <1>8, <1>10, <1>11

-----------------------------------------------------------------------------
(* What a batch leaves.                                                     *)

(* What a batch leaves of the samples, and the row it leaves for a bucket. *)
Cut(plan) == {s \in DOMAIN plan : plan[s] < s.end}
Left(plan) == (samples \ DOMAIN plan) \cup {Remainder(s, plan[s]) : s \in Cut(plan)}
Had(new) == \E old \in rollups : Same(old, new)
Old(new) == CHOOSE old \in rollups : Same(old, new)
Row(new) == IF Had(new) THEN Merged(Old(new), new) ELSE new
Rest(filled) == {old \in rollups : \A new \in filled : ~Same(old, new)}
Updated(filled) == Rest(filled) \cup {Row(new) : new \in filled}

(* RolledUp by the names above.                                             *)
LEMMA RolledUpIs ==
    ASSUME NEW plan, NEW filled, RolledUp(plan, filled)
    PROVE  samples' = Left(plan) /\ rollups' = Updated(filled)
BY DEF RolledUp, Left, Cut, Updated, Rest, Row, Had, Old

Apart(ss) ==
    /\ IsFiniteSet(ss)
    /\ \A s \in ss : s.start < s.end
    /\ \A s, t \in ss : s.iface = t.iface => s = t \/ s.end <= t.start \/ t.end <= s.start

(* A row of traffic_rollups covers a part of one bucket, once. *)
IsBucketRow(row) ==
    /\ \E k \in Nat : row.start = BucketSize * k
    /\ row.start < row.end /\ row.end <= row.start + BucketSize
    /\ CoveredMs(row) \in Nat /\ 1 <= CoveredMs(row) /\ CoveredMs(row) <= row.end - row.start

Rolled(rr) ==
    /\ IsFiniteSet(rr)
    /\ \A row \in rr : IsBucketRow(row)
    /\ \A r, q \in rr : Same(r, q) => r = q

(* Everything rolled up is older than everything that is not. *)
Follows(ss, rr) == \A s \in ss, r \in rr : s.iface = r.iface => r.end <= s.start

(* The remainder of a sample *)
LEMMA RemainderFields ==
    ASSUME TypeOK, SamplesApart, NEW plan, Consumes(plan), NEW s \in Cut(plan),
           NEW r, r = Remainder(s, plan[s])
    PROVE  /\ s \in DOMAIN plan /\ s \in samples /\ plan[s] \in Nat /\ plan[s] < s.end
           /\ r \in Samples
           /\ r.iface = s.iface /\ r.start = plan[s] /\ r.end = s.end
           /\ r.bytes = s.bytes - Slice(s.bytes, s.end - s.start, 0, plan[s] - s.start)
           /\ r.exact = FALSE
<1>1. /\ s \in DOMAIN plan /\ s \in samples /\ plan[s] \in Nat /\ plan[s] < s.end
      /\ s.start < plan[s]
  BY DEF Cut, Consumes
<1>2. /\ s \in Samples /\ s.start \in Nat /\ s.end \in Nat /\ s.end <= MaxTime /\ s.bytes \in Nat
      /\ s.iface \in Interfaces /\ s.end \in Times
  BY <1>1, SampleFields
<1>3. r = [iface |-> s.iface, start |-> plan[s], end |-> s.end,
           bytes |-> s.bytes - Slice(s.bytes, s.end - s.start, 0, plan[s] - s.start), exact |-> FALSE]
  BY <1>2 DEF Remainder, Samples
<1>4. s.bytes - Slice(s.bytes, s.end - s.start, 0, plan[s] - s.start) \in Nat
  <2> DEFINE v == s.bytes
             d == s.end - s.start
             t == plan[s] - s.start
  <2>1. v \in Nat /\ d \in Nat \ {0} /\ t \in Nat /\ 0 <= t /\ t <= d
    BY <1>1, <1>2
  <2> HIDE DEF v, d, t
  <2>2. Slice(v, d, 0, t) \in Nat /\ Slice(v, d, 0, t) <= v
    BY <2>1, SliceBounds
  <2>3. v - Slice(v, d, 0, t) \in Nat
    BY <2>1, <2>2
  <2> QED BY <2>3 DEF v, d, t
<1>5. plan[s] \in Times
  BY <1>1, <1>2, HistoryConstants DEF Times
<1>6. r \in Samples
  BY <1>2, <1>3, <1>4, <1>5 DEF Samples
<1> QED BY <1>1, <1>3, <1>6

(* Every sample after the batch is one from before it, or the end of one. *)
LEMMA OriginOf ==
    ASSUME TypeOK, SamplesApart, NEW plan, Consumes(plan), NEW r \in Left(plan)
    PROVE  \E s \in samples :
             /\ r \in Samples
             /\ r.iface = s.iface /\ r.end = s.end /\ s.start <= r.start /\ r.start < r.end
             /\ \/ s \notin DOMAIN plan /\ r = s
                \/ s \in Cut(plan) /\ r = Remainder(s, plan[s]) /\ r.start = plan[s]
<1>1. CASE r \in samples \ DOMAIN plan
  <2>1. r \in samples /\ r \in Samples /\ r.start \in Nat /\ r.start <= r.start /\ r.start < r.end
    BY <1>1, SampleFields DEF SamplesApart
  <2> QED BY <1>1, <2>1
<1>2. CASE r \in {Remainder(s, plan[s]) : s \in Cut(plan)}
  <2>1. PICK s \in Cut(plan) : r = Remainder(s, plan[s])
    BY <1>2
  <2>2. /\ s \in DOMAIN plan /\ s \in samples /\ plan[s] \in Nat /\ plan[s] < s.end /\ r \in Samples
        /\ r.iface = s.iface /\ r.start = plan[s] /\ r.end = s.end
    BY <2>1, RemainderFields
  <2>3. s.start <= plan[s]
    BY <2>2, SampleFields DEF Consumes
  <2> QED BY <2>1, <2>2, <2>3
<1> QED BY <1>1, <1>2 DEF Left

(* The samples that a batch leaves lie apart and end no later than before.  *)
LEMMA LeftApart ==
    ASSUME TypeOK, SamplesApart, NEW plan, Consumes(plan)
    PROVE  /\ Apart(Left(plan)) /\ Left(plan) \subseteq Samples
           /\ \A f \in [Interfaces -> Times] :
                (\A s \in samples : s.end <= f[s.iface]) => \A s \in Left(plan) : s.end <= f[s.iface]
<1>1. Left(plan) \subseteq Samples /\ \A r \in Left(plan) : r.start < r.end
  BY OriginOf
<1>2. ASSUME NEW r \in Left(plan), NEW q \in Left(plan), r.iface = q.iface
      PROVE  r = q \/ r.end <= q.start \/ q.end <= r.start
  <2>1. PICK s \in samples :
          /\ r.iface = s.iface /\ r.end = s.end /\ s.start <= r.start
          /\ \/ s \notin DOMAIN plan /\ r = s
             \/ s \in Cut(plan) /\ r = Remainder(s, plan[s])
    BY OriginOf
  <2>2. PICK t \in samples :
          /\ q.iface = t.iface /\ q.end = t.end /\ t.start <= q.start
          /\ \/ t \notin DOMAIN plan /\ q = t
             \/ t \in Cut(plan) /\ q = Remainder(t, plan[t])
    BY OriginOf
  <2>3. CASE s = t
    BY <2>1, <2>2, <2>3 DEF Cut
  <2>4. CASE s # t
    <3>1. s.end <= t.start \/ t.end <= s.start
      BY <1>2, <2>1, <2>2, <2>4 DEF SamplesApart
    <3>2. /\ r.start \in Nat /\ r.end \in Nat /\ q.start \in Nat /\ q.end \in Nat
          /\ s.start \in Nat /\ s.end \in Nat /\ t.start \in Nat /\ t.end \in Nat
      <4>1. r \in Samples /\ q \in Samples
        BY <1>1
      <4>2. \A z \in Samples : z.start \in Nat /\ z.end \in Nat
        BY DEF Samples, Times
      <4> QED BY <4>1, <4>2, SampleFields
    <3> QED BY <2>1, <2>2, <3>1, <3>2
  <2> QED BY <2>3, <2>4
<1>3. IsFiniteSet(Left(plan))
  <2> DEFINE b == [s \in Cut(plan) |-> Remainder(s, plan[s])]
  <2>1. IsFiniteSet(samples) /\ DOMAIN plan \in SUBSET samples
    BY DEF SamplesApart, Consumes
  <2>2. Cut(plan) \in SUBSET samples
    BY <2>1 DEF Cut
  <2>3. IsFiniteSet(Cut(plan)) /\ IsFiniteSet(samples \ DOMAIN plan)
    BY <2>1, <2>2, FS_Subset
  <2>4. IsFiniteSet({b[s] : s \in Cut(plan)})
    <3> HIDE DEF b
    <3> QED BY <2>3, FiniteImage
  <2>5. {Remainder(s, plan[s]) : s \in Cut(plan)} = {b[s] : s \in Cut(plan)}
    OBVIOUS
  <2>6. IsFiniteSet((samples \ DOMAIN plan) \cup {b[s] : s \in Cut(plan)})
    BY <2>3, <2>4, FS_Union
  <2> QED BY <2>5, <2>6 DEF Left
<1>4. ASSUME NEW f \in [Interfaces -> Times], \A s \in samples : s.end <= f[s.iface]
      PROVE  \A s \in Left(plan) : s.end <= f[s.iface]
  BY <1>4, OriginOf
<1> QED BY <1>1, <1>2, <1>3, <1>4 DEF Apart

(* What is stored of an interface ends at its checkpoint. *)
WithinFrontier ==
    /\ \A i \in Interfaces : frontier[i] <= now
    /\ \A s \in samples : s.end <= frontier[s.iface]
    /\ \A r \in rollups : r.end <= frontier[r.iface]

(* The store: samples and rollups of an interface lie apart, in this order  *)
(* and behind its checkpoint. It is inductive as it stands.                 *)
StoreInv ==
    /\ TypeOK
    /\ SamplesApart
    /\ Rolled(rollups)
    /\ Follows(samples, rollups)
    /\ WithinFrontier

(* A row that a batch adds is one of a bucket it reaches.                   *)
LEMMA FilledRow ==
    ASSUME NEW plan, NEW cutoff, NEW new \in Filled(plan, cutoff)
    PROVE  \E i \in Interfaces, k \in Nat :
             k \in Buckets /\ Reaching(plan, i, k) # {} /\ new = Bucket(plan, cutoff, i, k)
<1>1. PICK key \in {ik \in Interfaces \X Buckets : Reaching(plan, ik[1], ik[2]) # {}} :
        new = Bucket(plan, cutoff, key[1], key[2])
  BY DEF Filled
<1>2. key[1] \in Interfaces /\ key[2] \in Buckets /\ Reaching(plan, key[1], key[2]) # {}
  OBVIOUS
<1>3. key[2] \in Nat
  BY <1>2, BucketBounds, HistoryConstants DEF Buckets
<1> QED BY <1>1, <1>2, <1>3

(* A batch adds finitely many rows.                                         *)
LEMMA FilledIsFinite ==
    ASSUME NEW plan, NEW cutoff
    PROVE  IsFiniteSet(Filled(plan, cutoff))
<1> DEFINE K == {ik \in Interfaces \X Buckets : Reaching(plan, ik[1], ik[2]) # {}}
           b == [ik \in K |-> Bucket(plan, cutoff, ik[1], ik[2])]
<1>1. BucketOf(MaxTime) \in Int /\ 0 \in Int
  BY BucketBounds, HistoryConstants
<1>2. IsFiniteSet(Interfaces) /\ IsFiniteSet(Buckets)
  BY <1>1, FS_Interval, HistoryConstants DEF Buckets
<1>3. IsFiniteSet(Interfaces \X Buckets)
  BY <1>2, FS_Product
<1>4. IsFiniteSet(K)
  <2>1. K \in SUBSET (Interfaces \X Buckets)
    OBVIOUS
  <2> HIDE DEF K
  <2> QED BY <1>3, <2>1, FS_Subset
<1>5. Filled(plan, cutoff) = {b[ik] : ik \in K}
  BY DEF Filled
<1>6. IsFiniteSet({b[ik] : ik \in K})
  <2> HIDE DEF b, K
  <2> QED BY <1>4, FiniteImage
<1> QED BY <1>5, <1>6

(* What a batch adds to a bucket is a row of the table. *)
LEMMA BucketIsRow ==
    ASSUME TypeOK, SamplesApart, NEW plan, Consumes(plan), NEW cutoff, NEW i \in Interfaces, NEW k \in Nat,
           Reaching(plan, i, k) # {},
           NEW row, row = Bucket(plan, cutoff, i, k)
    PROVE  /\ row \in Rollups /\ IsBucketRow(row)
           /\ row.iface = i /\ row.start = BucketSize * k /\ BucketOf(row.start) = k
           /\ row.start \in Nat /\ row.end \in Nat
<1>1. /\ row.iface = i /\ row.start = BucketSize * k
      /\ row.exact \in Nat /\ row.estimated \in Nat /\ row.exact_ms \in Nat /\ row.estimated_ms \in Nat
  BY BucketFields
<1>2. /\ row.end \in Nat /\ BucketSize * k < row.end /\ row.end <= BucketSize * k + BucketSize
      /\ \E s \in Reaching(plan, i, k) : row.end = PieceEnd(plan, s, k)
      /\ CoveredMs(row) \in Nat \ {0}
      /\ \A a \in Nat : (\A s \in Reaching(plan, i, k) : a <= PieceStart(s, k)) => CoveredMs(row) <= row.end - a
  BY BucketCovers
<1>3. BucketSize * k \in Nat /\ BucketSize \in Nat \ {0}
  BY HistoryConstants
<1>4. CoveredMs(row) <= row.end - BucketSize * k
  <2>1. \A s \in Reaching(plan, i, k) : BucketSize * k <= PieceStart(s, k)
    BY PieceBounds
  <2> QED BY <1>2, <1>3, <2>1
<1>5. row.end <= MaxTime
  <2>1. PICK s \in Reaching(plan, i, k) : row.end = PieceEnd(plan, s, k)
    BY <1>2
  <2>2. s \in samples /\ PieceEnd(plan, s, k) <= plan[s] /\ plan[s] <= s.end /\ plan[s] \in Nat /\ s.end \in Nat
    BY PieceBounds
  <2>3. s.end <= MaxTime
    BY <2>2, SampleFields
  <2> QED BY <1>2, <2>1, <2>2, <2>3, HistoryConstants
<1>6. row.start \in Times /\ row.end \in Times
  BY <1>1, <1>2, <1>3, <1>5, HistoryConstants DEF Times
<1>7. row \in Rollups
  <2>1. \E a, b, c, d, e, f, g :
          row = [iface |-> a, start |-> b, end |-> c, exact |-> d, estimated |-> e,
                 exact_ms |-> f, estimated_ms |-> g, source |-> "rollup"]
    BY DEF Bucket
  <2>2. PICK a, b, c, d, e, f, g :
          row = [iface |-> a, start |-> b, end |-> c, exact |-> d, estimated |-> e,
                 exact_ms |-> f, estimated_ms |-> g, source |-> "rollup"]
    BY <2>1
  <2>3. /\ a = row.iface /\ b = row.start /\ c = row.end /\ d = row.exact /\ e = row.estimated
        /\ f = row.exact_ms /\ g = row.estimated_ms
    BY <2>2
  <2>4. /\ a \in Interfaces /\ b \in Times /\ c \in Times /\ d \in Nat /\ e \in Nat /\ f \in Nat /\ g \in Nat
    BY <1>1, <1>6, <2>3
  <2> QED BY <2>2, <2>4 DEF Rollups
<1>8. IsBucketRow(row)
  BY <1>1, <1>2, <1>3, <1>4 DEF IsBucketRow
<1>9. BucketOf(row.start) = k
  BY <1>1, QuotientOfMultiple, HistoryConstants DEF BucketOf
<1> QED BY <1>1, <1>2, <1>3, <1>7, <1>8, <1>9

(* A row that is there already ends before the pieces that are added to it. *)
LEMMA AddedAfter ==
    ASSUME StoreInv, NEW plan, Consumes(plan), NEW cutoff, NEW i \in Interfaces, NEW k \in Nat,
           Reaching(plan, i, k) # {},
           NEW new, new = Bucket(plan, cutoff, i, k),
           NEW old \in rollups, Same(old, new)
    PROVE  /\ old.start = new.start /\ old.iface = i
           /\ old.start \in Nat /\ old.end \in Nat /\ new.end \in Nat /\ new.start \in Nat
           /\ CoveredMs(old) \in Nat /\ CoveredMs(new) \in Nat
           /\ \A s \in Reaching(plan, i, k) : old.end <= PieceStart(s, k)
           /\ old.end < new.end
           /\ CoveredMs(old) + CoveredMs(new) <= new.end - new.start
<1>1. TypeOK /\ SamplesApart /\ IsBucketRow(old) /\ Follows(samples, rollups)
  BY DEF StoreInv, Rolled
<1>2. /\ new.iface = i /\ new.start = BucketSize * k /\ IsBucketRow(new)
      /\ new.start \in Nat /\ new.end \in Nat
  BY <1>1, BucketIsRow
<1>3. old.iface = i /\ old.start = new.start
  BY <1>2 DEF Same
<1>4. /\ old.end \in Nat /\ old.start \in Nat
  <2>1. old \in Rollups
    BY <1>1 DEF TypeOK
  <2>2. \A r \in Rollups : r.start \in Nat /\ r.end \in Nat
    BY DEF Rollups, Times
  <2> QED BY <2>1, <2>2
<1>5. \A s \in Reaching(plan, i, k) : old.end <= PieceStart(s, k)
  <2> SUFFICES ASSUME NEW s \in Reaching(plan, i, k) PROVE old.end <= PieceStart(s, k)
    OBVIOUS
  <2>1. s \in samples /\ s.iface = i /\ s.start \in Nat /\ PieceStart(s, k) \in Nat /\ s.start <= PieceStart(s, k)
    BY <1>1, PieceBounds
  <2>2. old.end <= s.start
    BY <1>1, <1>3, <2>1 DEF Follows
  <2> QED BY <1>4, <2>1, <2>2
<1>6. /\ CoveredMs(new) \in Nat \ {0} /\ CoveredMs(new) <= new.end - old.end
  BY <1>1, <1>4, <1>5, BucketCovers
<1>7. CoveredMs(old) \in Nat /\ CoveredMs(old) <= old.end - old.start
  BY <1>1 DEF IsBucketRow
<1> QED BY <1>2, <1>3, <1>4, <1>5, <1>6, <1>7

(* None of the errors with which rollup_exact_samples_batch refuses a batch *)
(* occurs.                                                                  *)
LEMMA NotRefused ==
    ASSUME StoreInv, NEW plan, Consumes(plan), NEW cutoff
    PROVE  ~Refused(plan, Filled(plan, cutoff))
<1>1. TypeOK /\ SamplesApart
  BY DEF StoreInv
<1>2. ~(\E s, t \in DOMAIN plan : s.iface = t.iface /\ Before(s, t) /\ t.start < plan[s])
  <2> SUFFICES ASSUME NEW s \in DOMAIN plan, NEW t \in DOMAIN plan,
                      s.iface = t.iface, Before(s, t), t.start < plan[s]
               PROVE  FALSE
    OBVIOUS
  <2>1. s \in samples /\ t \in samples /\ plan[s] \in Nat /\ plan[s] <= s.end
    BY DEF Consumes
  <2>2. s.end <= t.start
    BY <1>1, <2>1, BeforeIsOrder
  <2>3. s.end \in Nat /\ t.start \in Nat
    BY <1>1, <2>1, SampleFields
  <2> QED BY <2>1, <2>2, <2>3
<1>3. ASSUME NEW new \in Filled(plan, cutoff)
      PROVE  /\ CoveredMs(new) \in 1 .. BucketSize
             /\ \A old \in rollups : Same(old, new) =>
                  /\ ~(CoveredMs(old) + CoveredMs(new) > BucketSize)
                  /\ ~(\E s \in Reaching(plan, new.iface, BucketOf(new.start)) :
                         PieceStart(s, BucketOf(new.start)) < old.end)
  <2>1. PICK i \in Interfaces, k \in Nat :
          k \in Buckets /\ Reaching(plan, i, k) # {} /\ new = Bucket(plan, cutoff, i, k)
    BY FilledRow
  <2>2. /\ new.iface = i /\ BucketOf(new.start) = k /\ IsBucketRow(new)
        /\ new.start \in Nat /\ new.end \in Nat
    BY <1>1, <2>1, BucketIsRow
  <2>3. BucketSize \in Nat
    BY HistoryConstants
  <2>4. CoveredMs(new) \in 1 .. BucketSize
    BY <2>2, <2>3 DEF IsBucketRow
  <2>5. ASSUME NEW old \in rollups, Same(old, new)
        PROVE  /\ ~(CoveredMs(old) + CoveredMs(new) > BucketSize)
               /\ ~(\E s \in Reaching(plan, i, k) : PieceStart(s, k) < old.end)
    <3>1. /\ old.end \in Nat /\ new.end \in Nat /\ new.start \in Nat
          /\ CoveredMs(old) \in Nat /\ CoveredMs(new) \in Nat
          /\ \A s \in Reaching(plan, i, k) : old.end <= PieceStart(s, k)
          /\ CoveredMs(old) + CoveredMs(new) <= new.end - new.start
      BY <2>1, <2>5, AddedAfter
    <3>2. new.end <= new.start + BucketSize
      BY <2>2 DEF IsBucketRow
    <3>3. \A s \in Reaching(plan, i, k) : PieceStart(s, k) \in Nat
      BY <1>1, PieceBounds
    <3> QED BY <2>3, <3>1, <3>2, <3>3
  <2> QED BY <2>2, <2>4, <2>5
<1> QED BY <1>2, <1>3 DEF Refused

(* The row of a bucket after a batch that reaches it. *)
LEMMA RowFields ==
    ASSUME StoreInv, NEW plan, Consumes(plan), NEW cutoff, NEW i \in Interfaces, NEW k \in Nat,
           Reaching(plan, i, k) # {},
           NEW new, new = Bucket(plan, cutoff, i, k),
           NEW row, row = Row(new)
    PROVE  /\ row \in Rollups /\ IsBucketRow(row)
           /\ row.iface = i /\ row.start = BucketSize * k /\ BucketOf(row.start) = k
           /\ row.start \in Nat /\ row.end = new.end /\ row.end \in Nat
<1>1. TypeOK /\ SamplesApart
  BY DEF StoreInv
<1>2. /\ new \in Rollups /\ IsBucketRow(new)
      /\ new.iface = i /\ new.start = BucketSize * k /\ BucketOf(new.start) = k
      /\ new.start \in Nat /\ new.end \in Nat
  BY <1>1, BucketIsRow
<1>3. CASE ~Had(new)
  BY <1>2, <1>3 DEF Row
<1>4. CASE Had(new)
  <2> DEFINE old == Old(new)
  <2>1. old \in rollups /\ Same(old, new)
    BY <1>4 DEF Had, Old
  <2>2. row = Merged(old, new)
    BY <1>4 DEF Row
  <2> HIDE DEF old
  <2>3. /\ old.start = new.start /\ old.end \in Nat /\ old.end < new.end
        /\ CoveredMs(old) \in Nat /\ CoveredMs(new) \in Nat
        /\ CoveredMs(old) + CoveredMs(new) <= new.end - new.start
    BY <2>1, AddedAfter
  <2>4. old \in Rollups
    BY <1>1, <2>1 DEF TypeOK
  <2>5. \A r \in Rollups : r.exact \in Nat /\ r.estimated \in Nat /\ r.exact_ms \in Nat /\ r.estimated_ms \in Nat
    BY DEF Rollups
  <2>6. /\ old.exact \in Nat /\ old.estimated \in Nat /\ old.exact_ms \in Nat /\ old.estimated_ms \in Nat
        /\ new.exact \in Nat /\ new.estimated \in Nat /\ new.exact_ms \in Nat /\ new.estimated_ms \in Nat
    BY <1>2, <2>4, <2>5
  <2>7. Greater(old.end, new.end) = new.end
    BY <1>2, <2>3 DEF Greater
  <2>8. row = [iface |-> new.iface, start |-> new.start, end |-> new.end,
               exact |-> old.exact + new.exact, estimated |-> old.estimated + new.estimated,
               exact_ms |-> old.exact_ms + new.exact_ms,
               estimated_ms |-> old.estimated_ms + new.estimated_ms, source |-> "rollup"]
    BY <1>2, <2>2, <2>7 DEF Merged, Rollups
  <2>9. row \in Rollups
    <3>1. /\ old.exact + new.exact \in Nat /\ old.estimated + new.estimated \in Nat
          /\ old.exact_ms + new.exact_ms \in Nat /\ old.estimated_ms + new.estimated_ms \in Nat
      BY <2>6
    <3>2. new.iface \in Interfaces /\ new.start \in Times /\ new.end \in Times
      BY <1>2 DEF Rollups
    <3> QED BY <2>8, <3>1, <3>2 DEF Rollups
  <2>10. /\ row.iface = i /\ row.start = new.start /\ row.end = new.end
         /\ row.exact_ms = old.exact_ms + new.exact_ms
         /\ row.estimated_ms = old.estimated_ms + new.estimated_ms
    BY <1>2, <2>8
  <2>11. CoveredMs(row) = CoveredMs(old) + CoveredMs(new)
    BY <2>6, <2>10 DEF CoveredMs
  <2>12. IsBucketRow(row)
    BY <1>2, <2>3, <2>10, <2>11 DEF IsBucketRow
  <2> QED BY <1>2, <2>9, <2>10, <2>12
<1> QED BY <1>3, <1>4

(* Every row after a batch *)
LEMMA RowAfter ==
    ASSUME StoreInv, NEW plan, Consumes(plan), NEW cutoff,
           NEW row \in Updated(Filled(plan, cutoff))
    PROVE  \/ row \in rollups /\ row \in Rest(Filled(plan, cutoff))
           \/ \E i \in Interfaces, k \in Nat :
                /\ k \in Buckets /\ Reaching(plan, i, k) # {}
                /\ Bucket(plan, cutoff, i, k) \in Filled(plan, cutoff)
                /\ row = Row(Bucket(plan, cutoff, i, k))
                /\ row.iface = i /\ row.start = BucketSize * k
                /\ row.end = Bucket(plan, cutoff, i, k).end
                /\ row \in Rollups /\ IsBucketRow(row)
<1>1. CASE row \in Rest(Filled(plan, cutoff))
  BY <1>1 DEF Rest
<1>2. CASE row \in {Row(new) : new \in Filled(plan, cutoff)}
  <2>1. PICK new \in Filled(plan, cutoff) : row = Row(new)
    BY <1>2
  <2>2. PICK i \in Interfaces, k \in Nat :
          k \in Buckets /\ Reaching(plan, i, k) # {} /\ new = Bucket(plan, cutoff, i, k)
    BY FilledRow
  <2>3. /\ row.iface = i /\ row.start = BucketSize * k /\ row.end = new.end
        /\ row \in Rollups /\ IsBucketRow(row)
    BY <2>1, <2>2, RowFields
  <2> QED BY <2>1, <2>2, <2>3
<1> QED BY <1>1, <1>2 DEF Updated

(* The rows after a batch have a bucket each, and end before what is left.  *)
LEMMA UpdatedRows ==
    ASSUME StoreInv, NEW plan, Consumes(plan), NEW cutoff
    PROVE  /\ Updated(Filled(plan, cutoff)) \subseteq Rollups
           /\ Rolled(Updated(Filled(plan, cutoff)))
           /\ Follows(Left(plan), Updated(Filled(plan, cutoff)))
<1> DEFINE filled == Filled(plan, cutoff)
           rr == Updated(filled)
<1>1. TypeOK /\ SamplesApart /\ Rolled(rollups) /\ Follows(samples, rollups)
  BY DEF StoreInv
<1>2. rr \subseteq Rollups /\ \A row \in rr : IsBucketRow(row)
  BY <1>1, RowAfter DEF Rolled, TypeOK
<1>3. IsFiniteSet(rr)
  <2> DEFINE b == [new \in filled |-> Row(new)]
  <2>1. IsFiniteSet(filled) /\ IsFiniteSet(rollups) /\ Rest(filled) \in SUBSET rollups
    BY <1>1, FilledIsFinite DEF Rolled, Rest
  <2>2. IsFiniteSet({b[new] : new \in filled})
    <3> HIDE DEF b, filled
    <3> QED BY <2>1, FiniteImage
  <2>3. {b[new] : new \in filled} = {Row(new) : new \in filled}
    OBVIOUS
  <2>4. IsFiniteSet(Rest(filled))
    <3> HIDE DEF b, filled
    <3> QED BY <2>1, FS_Subset
  <2>5. IsFiniteSet(Rest(filled) \cup {b[new] : new \in filled})
    <3> HIDE DEF b, filled
    <3> QED BY <2>2, <2>4, FS_Union
  <2> QED BY <2>3, <2>5 DEF Updated
<1>4. ASSUME NEW r \in rr, NEW q \in rr, Same(r, q) PROVE r = q
  <2>1. CASE r \in rollups /\ q \in rollups
    BY <1>1, <1>4, <2>1 DEF Rolled
  <2>2. ASSUME NEW a \in rr, NEW b \in Rest(filled), NEW i \in Interfaces, NEW k \in Nat,
               Reaching(plan, i, k) # {},
               Bucket(plan, cutoff, i, k) \in filled,
               a.iface = i, a.start = BucketSize * k, Same(a, b) \/ Same(b, a)
        PROVE  FALSE
    <3>1. Bucket(plan, cutoff, i, k).iface = i /\ Bucket(plan, cutoff, i, k).start = BucketSize * k
      BY <1>1, <2>2, BucketIsRow
    <3>2. Same(b, Bucket(plan, cutoff, i, k))
      BY <2>2, <3>1 DEF Same
    <3> QED BY <2>2, <3>2 DEF Rest
  <2>3. ASSUME NEW i \in Interfaces, NEW k \in Nat, NEW j \in Interfaces, NEW l \in Nat,
               r = Row(Bucket(plan, cutoff, i, k)), r.iface = i, r.start = BucketSize * k,
               q = Row(Bucket(plan, cutoff, j, l)), q.iface = j, q.start = BucketSize * l
        PROVE  r = q
    <3>1. i = j /\ BucketSize * k = BucketSize * l
      BY <1>4, <2>3 DEF Same
    <3>2. k = l
      <4>1. BucketSize \in Nat /\ BucketSize > 0
        BY HistoryConstants
      <4>2. (k < l => BucketSize * k < BucketSize * l) /\ (l < k => BucketSize * l < BucketSize * k)
        BY <4>1, ProductKeepsOrder
      <4>3. BucketSize * k \in Nat /\ BucketSize * l \in Nat
        BY <4>1
      <4> QED BY <3>1, <4>2, <4>3
    <3> QED BY <2>3, <3>1, <3>2
  <2> HIDE DEF rr
  <2>4. /\ r \in rollups /\ r \in Rest(filled)
        \/ \E i \in Interfaces, k \in Nat :
             /\ Reaching(plan, i, k) # {} /\ Bucket(plan, cutoff, i, k) \in filled
             /\ r = Row(Bucket(plan, cutoff, i, k)) /\ r.iface = i /\ r.start = BucketSize * k
    BY RowAfter DEF rr
  <2>5. /\ q \in rollups /\ q \in Rest(filled)
        \/ \E i \in Interfaces, k \in Nat :
             /\ Reaching(plan, i, k) # {} /\ Bucket(plan, cutoff, i, k) \in filled
             /\ q = Row(Bucket(plan, cutoff, i, k)) /\ q.iface = i /\ q.start = BucketSize * k
    BY RowAfter DEF rr
  <2> HIDE DEF filled
  <2> QED BY <1>4, <2>1, <2>2, <2>3, <2>4, <2>5
<1>5. ASSUME NEW s \in Left(plan), NEW r \in rr, s.iface = r.iface PROVE r.end <= s.start
  <2>1. PICK o \in samples :
             /\ s \in Samples
             /\ s.iface = o.iface /\ s.end = o.end /\ o.start <= s.start /\ s.start < s.end
             /\ \/ o \notin DOMAIN plan /\ s = o
                \/ o \in Cut(plan) /\ s = Remainder(o, plan[o]) /\ s.start = plan[o]
    BY <1>1, OriginOf
  <2>2. o.start \in Nat /\ s.start \in Nat /\ s.end \in Nat /\ o.end \in Nat
    <3>1. \A z \in Samples : z.start \in Nat /\ z.end \in Nat
      BY DEF Samples, Times
    <3> QED BY <1>1, <2>1, <3>1, SampleFields
  <2>3. r.end \in Nat
    <3>1. \A z \in Rollups : z.end \in Nat
      BY DEF Rollups, Times
    <3> QED BY <1>2, <3>1
  <2>4. CASE r \in rollups
    <3>1. r.end <= o.start
      BY <1>1, <1>5, <2>1, <2>4 DEF Follows
    <3> QED BY <2>1, <2>2, <2>3, <3>1
  <2>5. CASE \E i \in Interfaces, k \in Nat :
                /\ Reaching(plan, i, k) # {} /\ r.iface = i
                /\ r.end = Bucket(plan, cutoff, i, k).end
    <3>1. PICK i \in Interfaces, k \in Nat :
                /\ Reaching(plan, i, k) # {} /\ r.iface = i
                /\ r.end = Bucket(plan, cutoff, i, k).end
      BY <2>5
    <3>2. PICK t \in Reaching(plan, i, k) : r.end = PieceEnd(plan, t, k)
      BY <1>1, <3>1, BucketCovers
    <3>3. /\ t \in DOMAIN plan /\ t \in samples /\ t.iface = i /\ plan[t] \in Nat /\ t.end \in Nat
          /\ r.end <= plan[t] /\ plan[t] <= t.end /\ t.start \in Nat /\ t.start < plan[t]
      BY <1>1, <3>2, PieceBounds
    <3>4. CASE o \notin DOMAIN plan /\ s = o
      <4>1. t.end <= o.start
        BY <1>5, <3>1, <3>3, <3>4 DEF Consumes
      <4> QED BY <2>1, <2>2, <2>3, <3>3, <4>1
    <3>5. CASE o \in Cut(plan) /\ s.start = plan[o]
      <4>1. o \in DOMAIN plan /\ plan[o] < o.end /\ plan[o] \in Nat
        BY <3>5 DEF Cut, Consumes
      <4>2. CASE o = t
        BY <2>2, <2>3, <3>3, <3>5, <4>2
      <4>3. CASE o # t
        <5>1. \/ o.end <= t.start /\ plan[o] = o.end
              \/ t.end <= o.start /\ plan[t] = t.end
          BY <1>5, <2>1, <3>1, <3>3, <4>1, <4>3 DEF Consumes
        <5>2. t.end <= o.start
          BY <2>2, <4>1, <5>1
        <5> QED BY <2>1, <2>2, <2>3, <3>3, <5>2
      <4> QED BY <4>2, <4>3
    <3> QED BY <2>1, <3>4, <3>5
  <2> HIDE DEF rr, filled
  <2>6. \/ r \in rollups
        \/ \E i \in Interfaces, k \in Nat :
                /\ Reaching(plan, i, k) # {} /\ r.iface = i
                /\ r.end = Bucket(plan, cutoff, i, k).end
    BY RowAfter DEF rr, filled
  <2> QED BY <2>4, <2>5, <2>6
<1> QED BY <1>2, <1>3, <1>4, <1>5 DEF Rolled, Follows

-----------------------------------------------------------------------------
(* The steps of the store.                                                  *)

Fields == \A z \in Samples \cup Rollups : z.iface \in Interfaces /\ z.start \in Nat /\ z.end \in Nat

(* Samples and rows are of an interface and have times.                     *)
LEMMA RowTimes == Fields
BY DEF Fields, Samples, Rollups, Times

(* The cutoffs of a maintenance are times of the past.                      *)
LEMMA CutoffsAreTimes ==
    ASSUME TypeOK
    PROVE  RawCutoff \in Nat /\ TotalCutoff \in Nat /\ RawCutoff <= now /\ TotalCutoff <= RawCutoff
<1>1. now \in Nat /\ retention[1] \in Nat /\ retention[2] \in Nat /\ retention[1] <= retention[2]
  BY HistoryConstants DEF TypeOK, Times
<1> QED BY <1>1 DEF RawCutoff, TotalCutoff, Greater

(* Retention adds nothing.                                                  *)
LEMMA KeepsSome == ASSUME NEW rows, NEW cutoff, NEW left \in Kept(rows, cutoff)
                   PROVE  left \subseteq rows
BY DEF Kept

(* An empty store is sound.                                                 *)
LEMMA StoreStarts == Init => StoreInv
<1> SUFFICES ASSUME Init PROVE StoreInv
  OBVIOUS
<1>1. 0 \in Times
  BY HistoryConstants DEF Times
<1>2. TypeOK
  BY <1>1 DEF Init, TypeOK
<1>3. SamplesApart /\ Rolled(rollups) /\ Follows(samples, rollups)
  BY FS_EmptySet DEF Init, SamplesApart, Rolled, Follows
<1>4. WithinFrontier
  BY DEF Init, WithinFrontier
<1> QED BY <1>2, <1>3, <1>4 DEF StoreInv

(* A store from which rows were deleted *)
LEMMA FewerRows ==
    ASSUME StoreInv, TypeOK', samples' \subseteq samples, rollups' \subseteq rollups,
           UNCHANGED <<frontier, now>>
    PROVE  StoreInv'
<1>1. IsFiniteSet(samples') /\ IsFiniteSet(rollups')
  BY FS_Subset DEF StoreInv, SamplesApart, Rolled
<1>2. \A row \in rollups' : IsBucketRow(row)
  BY DEF StoreInv, Rolled
<1>3. SamplesApart'
  BY <1>1 DEF StoreInv, SamplesApart
<1>4. Rolled(rollups')
  BY <1>1, <1>2 DEF StoreInv, Rolled
<1>5. Follows(samples', rollups')
  BY DEF StoreInv, Follows
<1>6. WithinFrontier'
  BY DEF StoreInv, WithinFrontier
<1> QED BY <1>3, <1>4, <1>5, <1>6 DEF StoreInv

(* The sample that a poll records of interface i *)
Measured(i, t, bytes) == [iface |-> i, start |-> frontier[i], end |-> t, bytes |-> bytes, exact |-> TRUE]

(* What a poll records: at most one sample of an interface, from its       *)
(* checkpoint on.                                                           *)
LEMMA PollIs ==
    ASSUME StoreInv, NEW elapsed \in PollTimes, Poll(elapsed)
    PROVE  \E new, none :
             /\ now' \in Times /\ now < now'
             /\ none \subseteq Gaps /\ IsFiniteSet(new)
             /\ \A s \in new : /\ s \in Samples /\ s.iface \in Interfaces
                               /\ s.start = frontier[s.iface] /\ s.end = now' /\ s.start < s.end
                               /\ frontier'[s.iface] = now'
             /\ \A s, t \in new : s.iface = t.iface => s = t
             /\ samples' = samples \cup new /\ gaps' = gaps \cup none
             /\ recorded' = [samples |-> recorded.samples \cup new, gaps |-> recorded.gaps \cup none]
             /\ rollups' = rollups /\ retention' = retention /\ prune' = prune /\ forgotten' = forgotten
             /\ frontier' \in [Interfaces -> Times]
             /\ \A i \in Interfaces : frontier'[i] = now' \/ frontier'[i] = frontier[i]
<1>a. PICK seen \in SUBSET Interfaces : \E lost \in SUBSET seen : \E count \in [seen \ lost -> Bytes] :
        /\ frontier' = [i \in Interfaces |-> IF i \in seen THEN now' ELSE frontier[i]]
        /\ samples' = samples \cup {Measured(i, now', count[i]) : i \in seen \ lost}
        /\ gaps' = gaps \cup {[iface |-> i, start |-> frontier[i], end |-> now'] : i \in lost}
        /\ recorded' = [samples |-> recorded.samples \cup {Measured(i, now', count[i]) : i \in seen \ lost},
                        gaps |-> recorded.gaps \cup
                                 {[iface |-> i, start |-> frontier[i], end |-> now'] : i \in lost}]
  BY DEF Poll, Measured
<1>b. PICK lost \in SUBSET seen : \E count \in [seen \ lost -> Bytes] :
        /\ frontier' = [i \in Interfaces |-> IF i \in seen THEN now' ELSE frontier[i]]
        /\ samples' = samples \cup {Measured(i, now', count[i]) : i \in seen \ lost}
        /\ gaps' = gaps \cup {[iface |-> i, start |-> frontier[i], end |-> now'] : i \in lost}
        /\ recorded' = [samples |-> recorded.samples \cup {Measured(i, now', count[i]) : i \in seen \ lost},
                        gaps |-> recorded.gaps \cup
                                 {[iface |-> i, start |-> frontier[i], end |-> now'] : i \in lost}]
  BY <1>a
<1>1. PICK count \in [seen \ lost -> Bytes] :
        /\ frontier' = [i \in Interfaces |-> IF i \in seen THEN now' ELSE frontier[i]]
        /\ samples' = samples \cup {Measured(i, now', count[i]) : i \in seen \ lost}
        /\ gaps' = gaps \cup {[iface |-> i, start |-> frontier[i], end |-> now'] : i \in lost}
        /\ recorded' = [samples |-> recorded.samples \cup {Measured(i, now', count[i]) : i \in seen \ lost},
                        gaps |-> recorded.gaps \cup
                                 {[iface |-> i, start |-> frontier[i], end |-> now'] : i \in lost}]
  BY <1>b
<1> DEFINE new == {Measured(i, now', count[i]) : i \in seen \ lost}
           none == {[iface |-> i, start |-> frontier[i], end |-> now'] : i \in lost}
<1>2. /\ now \in Nat /\ elapsed \in Nat /\ elapsed > 0 /\ now' = now + elapsed /\ now' <= MaxTime
      /\ now' \in Nat /\ now < now' /\ now' \in Times
  BY HistoryConstants DEF Poll, StoreInv, TypeOK, Times
<1>3. \A i \in Interfaces : frontier[i] \in Nat /\ frontier[i] \in Times /\ frontier[i] <= now
  BY DEF StoreInv, WithinFrontier, TypeOK, Times
<1>4. \A i \in seen \ lost : count[i] \in Nat /\ i \in Interfaces
  BY HistoryConstants
<1>5. \A s \in new : /\ s \in Samples /\ s.iface \in seen /\ s.iface \in Interfaces
                     /\ s.start = frontier[s.iface] /\ s.end = now' /\ s.start < s.end
  <2> SUFFICES ASSUME NEW i \in seen \ lost
               PROVE  LET s == Measured(i, now', count[i]) IN
                      /\ s \in Samples /\ s.iface \in seen /\ s.iface \in Interfaces
                      /\ s.start = frontier[s.iface] /\ s.end = now' /\ s.start < s.end
    OBVIOUS
  <2> QED BY <1>2, <1>3, <1>4 DEF Measured, Samples
<1>6. \A s, t \in new : s.iface = t.iface => s = t
  <2>1. \A i \in seen \ lost : Measured(i, now', count[i]).iface = i
    BY DEF Measured
  <2> QED BY <2>1
<1>7. none \subseteq Gaps
  BY <1>2, <1>3 DEF Gaps
<1>8. IsFiniteSet(new)
  <2> DEFINE b == [i \in seen \ lost |-> Measured(i, now', count[i])]
  <2>1. seen \ lost \in SUBSET Interfaces
    OBVIOUS
  <2>2. IsFiniteSet(seen \ lost)
    BY <2>1, FS_Subset, HistoryConstants
  <2>3. IsFiniteSet({b[i] : i \in seen \ lost})
    <3> HIDE DEF b
    <3> QED BY <2>2, FiniteImage
  <2>4. {b[i] : i \in seen \ lost} = new
    OBVIOUS
  <2> QED BY <2>3, <2>4
<1>9. /\ samples' = samples \cup new /\ gaps' = gaps \cup none
      /\ recorded' = [samples |-> recorded.samples \cup new, gaps |-> recorded.gaps \cup none]
      /\ rollups' = rollups /\ retention' = retention /\ prune' = prune /\ forgotten' = forgotten
  BY <1>1 DEF Poll
<1>10. /\ \A i \in Interfaces : frontier'[i] = IF i \in seen THEN now' ELSE frontier[i]
       /\ frontier' \in [Interfaces -> Times]
  BY <1>1, <1>2, <1>3
<1> HIDE DEF new, none
<1>11. \A s \in new : frontier'[s.iface] = now'
  BY <1>5, <1>10
<1>12. \A i \in Interfaces : frontier'[i] = now' \/ frontier'[i] = frontier[i]
  BY <1>10
<1> QED BY <1>2, <1>5, <1>6, <1>7, <1>8, <1>9, <1>10, <1>11, <1>12

(* What a poll records begins where everything stored of its interface      *)
(* ends.                                                                    *)
LEMMA PollKeepsStore ==
    ASSUME StoreInv, NEW elapsed \in PollTimes, Poll(elapsed)
    PROVE  StoreInv'
<1>1. PICK new, none :
             /\ now' \in Times /\ now < now'
             /\ none \subseteq Gaps /\ IsFiniteSet(new)
             /\ \A s \in new : /\ s \in Samples /\ s.iface \in Interfaces
                               /\ s.start = frontier[s.iface] /\ s.end = now' /\ s.start < s.end
                               /\ frontier'[s.iface] = now'
             /\ \A s, t \in new : s.iface = t.iface => s = t
             /\ samples' = samples \cup new /\ gaps' = gaps \cup none
             /\ recorded' = [samples |-> recorded.samples \cup new, gaps |-> recorded.gaps \cup none]
             /\ rollups' = rollups /\ retention' = retention /\ prune' = prune /\ forgotten' = forgotten
             /\ frontier' \in [Interfaces -> Times]
             /\ \A i \in Interfaces : frontier'[i] = now' \/ frontier'[i] = frontier[i]
  BY PollIs
<1>2. /\ now \in Nat /\ now' \in Nat /\ now < now' /\ now' \in Times
  BY <1>1 DEF StoreInv, TypeOK, Times
<1>3. \A i \in Interfaces : frontier[i] \in Nat /\ frontier[i] \in Times /\ frontier[i] <= now
  BY DEF StoreInv, WithinFrontier, TypeOK, Times
<1>5. \A s \in new : /\ s \in Samples /\ s.iface \in Interfaces /\ frontier'[s.iface] = now'
                     /\ s.start = frontier[s.iface] /\ s.end = now' /\ s.start < s.end
  BY <1>1
<1>6. \A s, t \in new : s.iface = t.iface => s = t
  BY <1>1
<1>7. none \subseteq Gaps
  BY <1>1
<1>8. IsFiniteSet(new)
  BY <1>1
<1>9. /\ samples' = samples \cup new /\ gaps' = gaps \cup none
      /\ recorded' = [samples |-> recorded.samples \cup new, gaps |-> recorded.gaps \cup none]
      /\ rollups' = rollups /\ retention' = retention /\ prune' = prune /\ forgotten' = forgotten
  BY <1>1
<1>10. /\ \A i \in Interfaces : frontier'[i] = now' \/ frontier'[i] = frontier[i]
       /\ frontier' \in [Interfaces -> Times]
  BY <1>1
<1>11. TypeOK'
  BY <1>2, <1>5, <1>7, <1>9, <1>10 DEF StoreInv, TypeOK
<1>12. \A s \in samples : /\ s.iface \in Interfaces /\ s.start \in Nat /\ s.end \in Nat
                          /\ s.end <= frontier[s.iface]
  BY SampleFields DEF StoreInv, WithinFrontier
<1>13. SamplesApart'
  <2>1. IsFiniteSet(samples')
    <3>1. IsFiniteSet(samples \cup new)
      BY <1>8, FS_Union DEF StoreInv, SamplesApart
    <3> QED BY <1>9, <3>1
  <2>2. \A s \in samples' : s.start < s.end
    BY <1>5, <1>9 DEF StoreInv, SamplesApart
  <2>3. \A s \in samples, t \in new : s.iface = t.iface => s.end <= t.start
    BY <1>5, <1>12
  <2>4. \A s, t \in samples' : s.iface = t.iface => s = t \/ s.end <= t.start \/ t.end <= s.start
    BY <1>6, <1>9, <2>3 DEF StoreInv, SamplesApart
  <2> QED BY <2>1, <2>2, <2>4 DEF SamplesApart
<1>14. Rolled(rollups')
  BY <1>9 DEF StoreInv
<1>15. \A r \in rollups : r.end <= frontier[r.iface] /\ r.iface \in Interfaces /\ r.end \in Nat
  <2>1. \A r \in rollups : r \in Rollups
    BY DEF StoreInv, TypeOK
  <2> QED BY <2>1, RowTimes DEF StoreInv, WithinFrontier, Fields
<1>16. Follows(samples', rollups')
  BY <1>5, <1>9, <1>15 DEF StoreInv, Follows
<1>17. WithinFrontier'
  <2>1. \A i \in Interfaces : frontier'[i] <= now' /\ frontier[i] <= frontier'[i]
    BY <1>2, <1>3, <1>10
  <2>2. \A s \in new : s.end <= frontier'[s.iface]
    BY <1>2, <1>5, <1>10
  <2>3. \A i \in Interfaces : frontier'[i] \in Nat
    BY <1>2, <1>3, <1>10
  <2>4. \A s \in samples : s.end <= frontier'[s.iface]
    BY <1>3, <1>12, <2>1, <2>3
  <2>5. \A r \in rollups : r.end <= frontier'[r.iface]
    BY <1>3, <1>15, <2>1, <2>3
  <2> QED BY <1>9, <2>1, <2>2, <2>4, <2>5 DEF WithinFrontier
<1> QED BY <1>11, <1>13, <1>14, <1>16, <1>17 DEF StoreInv

(* A maintenance leaves a sound store, whether its batch is refused or not. *)
LEMMA RollupKeepsStore ==
    ASSUME StoreInv, Rollup
    PROVE  StoreInv'
<1>1. RawCutoff \in Nat /\ TotalCutoff \in Nat /\ TypeOK /\ SamplesApart
  BY CutoffsAreTimes DEF StoreInv
<1>2. PICK cutoff : cutoff = RawCutoff
  OBVIOUS
<1>3. PICK plan : plan = Plan(cutoff)
  OBVIOUS
<1>4. Consumes(plan)
  BY <1>1, <1>2, <1>3, PlanConsumes
<1>5. ~Refused(plan, Filled(plan, cutoff))
  BY <1>4, NotRefused
<1>6. RolledUp(plan, Filled(plan, cutoff))
  BY <1>2, <1>3, <1>5 DEF Rollup
<1>7. samples' = Left(plan) /\ rollups' = Updated(Filled(plan, cutoff))
  BY <1>6, RolledUpIs
<1>8. /\ prune' = TotalCutoff
      /\ UNCHANGED <<now, retention, frontier, gaps, recorded, forgotten>>
  BY DEF Rollup
<1>9. /\ Apart(samples') /\ samples' \subseteq Samples /\ \A s \in samples' : s.end <= frontier[s.iface]
  BY <1>1, <1>4, <1>7, LeftApart DEF StoreInv, WithinFrontier, TypeOK
<1>10. rollups' \subseteq Rollups /\ Rolled(rollups') /\ Follows(samples', rollups')
  BY <1>4, <1>7, UpdatedRows
<1>11. TypeOK'
  BY <1>1, <1>8, <1>9, <1>10 DEF TypeOK
<1>12. SamplesApart'
  BY <1>9 DEF Apart, SamplesApart
<1>13. \A row \in rollups' : row.end <= frontier[row.iface]
  <2> SUFFICES ASSUME NEW row \in Updated(Filled(plan, cutoff)) PROVE row.end <= frontier[row.iface]
    BY <1>7
  <2>1. CASE row \in rollups
    BY <2>1 DEF StoreInv, WithinFrontier
  <2>2. CASE \E i \in Interfaces, k \in Nat :
                /\ Reaching(plan, i, k) # {} /\ row.iface = i
                /\ row.end = Bucket(plan, cutoff, i, k).end
    <3>1. PICK i \in Interfaces, k \in Nat :
                /\ Reaching(plan, i, k) # {} /\ row.iface = i
                /\ row.end = Bucket(plan, cutoff, i, k).end
      BY <2>2
    <3>2. PICK t \in Reaching(plan, i, k) : row.end = PieceEnd(plan, t, k)
      BY <1>1, <1>4, <3>1, BucketCovers
    <3>3. /\ t \in samples /\ t.iface = i /\ plan[t] \in Nat /\ t.end \in Nat
          /\ PieceEnd(plan, t, k) \in Nat
          /\ row.end <= plan[t] /\ plan[t] <= t.end
      BY <1>1, <1>4, <3>2, PieceBounds
    <3>4. t.end <= frontier[i] /\ frontier[i] \in Nat
      BY <3>3 DEF StoreInv, WithinFrontier, TypeOK, Times
    <3> QED BY <3>1, <3>2, <3>3, <3>4
  <2> QED BY <1>4, <2>1, <2>2, RowAfter
<1>14. WithinFrontier'
  BY <1>8, <1>9, <1>13 DEF StoreInv, WithinFrontier
<1> QED BY <1>10, <1>11, <1>12, <1>14 DEF StoreInv

(* The soundness of the store is inductive.                                 *)
LEMMA StoreStep == StoreInv /\ [Next]_vars => StoreInv'
<1> SUFFICES ASSUME StoreInv, [Next]_vars PROVE StoreInv'
  OBVIOUS
<1>1. ASSUME NEW elapsed \in PollTimes, Poll(elapsed) PROVE StoreInv'
  BY <1>1, PollKeepsStore
<1>2. ASSUME NEW k \in Retentions, Configure(k) PROVE StoreInv'
  <2>1. TypeOK'
    BY <1>2 DEF Configure, StoreInv, TypeOK, stored
  <2> QED BY <1>2, <2>1, FewerRows DEF Configure, stored
<1>3. CASE Rollup
  BY <1>3, RollupKeepsStore
<1>4. CASE FailRollup
  <2>1. TypeOK'
    BY <1>4, CutoffsAreTimes DEF FailRollup, StoreInv, TypeOK, stored
  <2> QED BY <1>4, <2>1, FewerRows DEF FailRollup, stored
<1>5. CASE Prune
  <2>1. samples' \subseteq samples /\ rollups' \subseteq rollups /\ gaps' \subseteq gaps
    BY <1>5, KeepsSome DEF Prune
  <2>2. TypeOK'
    <3>1. prune' \in Int /\ forgotten' \in Int
      BY <1>5 DEF Prune, StoreInv, TypeOK, Greater
    <3> QED BY <1>5, <2>1, <3>1 DEF Prune, StoreInv, TypeOK
  <2> QED BY <1>5, <2>1, <2>2, FewerRows DEF Prune
<1>6. CASE SkipPrune
  <2>1. TypeOK'
    BY <1>6 DEF SkipPrune, StoreInv, TypeOK, stored
  <2> QED BY <1>6, <2>1, FewerRows DEF SkipPrune, stored
<1>7. CASE UNCHANGED vars
  <2>1. TypeOK'
    BY <1>7 DEF vars, StoreInv, TypeOK, stored
  <2> QED BY <1>7, <2>1, FewerRows DEF vars, stored
<1> QED BY <1>1, <1>2, <1>3, <1>4, <1>5, <1>6, <1>7 DEF Next

-----------------------------------------------------------------------------
(* Queries.                                                                 *)

(* What a query may rely on of the rows of one interface *)
GoodRow(c) ==
    /\ c.start \in Nat /\ c.end \in Nat /\ c.start < c.end
    /\ c.exact \in Nat /\ c.estimated \in Nat /\ c.exact_ms \in Nat /\ c.estimated_ms \in Nat
    /\ CoveredMs(c) \in Nat /\ 1 <= CoveredMs(c) /\ CoveredMs(c) <= c.end - c.start

GoodRows(rows) ==
    /\ IsFiniteSet(rows)
    /\ \A c \in rows : GoodRow(c)
    /\ \A c, d \in rows : c = d \/ c.end <= d.start \/ d.end <= c.start

(* A sample in the form of a row is a good row.                             *)
LEMMA ContributionFields ==
    ASSUME TypeOK, SamplesApart, NEW s \in samples, NEW c, c = Contribution(s)
    PROVE  /\ c.iface = s.iface /\ c.start = s.start /\ c.end = s.end
           /\ c.source = "sample"
           /\ c.exact + c.estimated = s.bytes
           /\ CoveredMs(c) = s.end - s.start
           /\ GoodRow(c)
<1>1. /\ s.start \in Nat /\ s.end \in Nat /\ s.bytes \in Nat /\ s.exact \in BOOLEAN /\ s.start < s.end
  BY SampleFields DEF SamplesApart
<1>2. s.end - s.start \in Nat /\ 1 <= s.end - s.start
  BY <1>1
<1>3. /\ c.iface = s.iface /\ c.start = s.start /\ c.end = s.end /\ c.source = "sample"
      /\ c.exact = (IF s.exact THEN s.bytes ELSE 0) /\ c.estimated = (IF s.exact THEN 0 ELSE s.bytes)
      /\ c.exact_ms = (IF s.exact THEN s.end - s.start ELSE 0)
      /\ c.estimated_ms = (IF s.exact THEN 0 ELSE s.end - s.start)
  BY DEF Contribution
<1>4. /\ c.exact \in Nat /\ c.estimated \in Nat /\ c.exact_ms \in Nat /\ c.estimated_ms \in Nat
      /\ c.exact + c.estimated = s.bytes /\ c.exact_ms + c.estimated_ms = s.end - s.start
  BY <1>1, <1>2, <1>3
<1>5. CoveredMs(c) = s.end - s.start
  BY <1>4 DEF CoveredMs
<1> QED BY <1>1, <1>2, <1>3, <1>4, <1>5 DEF GoodRow

(* A row of traffic_rollups is a good row.                                  *)
LEMMA RollupFields ==
    ASSUME StoreInv, NEW c \in rollups
    PROVE  GoodRow(c) /\ c.source = "rollup" /\ c.iface \in Interfaces
           /\ \E k \in Nat : c.start = BucketSize * k /\ c.end <= BucketSize * k + BucketSize
<1>1. c \in Rollups /\ IsBucketRow(c)
  BY DEF StoreInv, TypeOK, Rolled
<1>2. /\ c.start \in Nat /\ c.end \in Nat /\ c.iface \in Interfaces /\ c.source = "rollup"
      /\ c.exact \in Nat /\ c.estimated \in Nat /\ c.exact_ms \in Nat /\ c.estimated_ms \in Nat
  <2>1. \A r \in Rollups :
          /\ r.start \in Nat /\ r.end \in Nat /\ r.iface \in Interfaces /\ r.source = "rollup"
          /\ r.exact \in Nat /\ r.estimated \in Nat /\ r.exact_ms \in Nat /\ r.estimated_ms \in Nat
    BY DEF Rollups, Times
  <2> QED BY <1>1, <2>1
<1> QED BY <1>1, <1>2 DEF IsBucketRow, GoodRow

(* The rows of an interface come from the two tables.                       *)
LEMMA RowKinds ==
    ASSUME NEW i, NEW c \in Rows(i)
    PROVE  c.iface = i /\ (c \in rollups \/ \E s \in samples : s.iface = i /\ c = Contribution(s))
<1>1. c.iface = i /\ (c \in rollups \/ \E s \in samples : c = Contribution(s))
  BY DEF Rows
<1>2. \A s : Contribution(s).iface = s.iface
  BY DEF Contribution
<1> QED BY <1>1, <1>2

(* Rollups of an interface do not overlap, as each lies in its own bucket.  *)
LEMMA RollupsApart ==
    ASSUME StoreInv, NEW c \in rollups, NEW d \in rollups, c.iface = d.iface
    PROVE  c = d \/ c.end <= d.start \/ d.end <= c.start
<1>1. PICK k \in Nat : c.start = BucketSize * k /\ c.end <= BucketSize * k + BucketSize
  BY RollupFields
<1>2. PICK l \in Nat : d.start = BucketSize * l /\ d.end <= BucketSize * l + BucketSize
  BY RollupFields
<1>3. c.end \in Nat /\ d.end \in Nat
  BY RollupFields DEF GoodRow
<1>4. BucketSize \in Nat /\ BucketSize * k \in Nat /\ BucketSize * l \in Nat
  BY HistoryConstants
<1>5. CASE k = l
  BY <1>1, <1>2, <1>5 DEF StoreInv, Rolled, Same
<1>6. CASE k < l
  <2>1. BucketSize * (k + 1) <= BucketSize * l
    BY <1>4, <1>6, ProductKeepsOrder
  <2>2. BucketSize * (k + 1) = BucketSize * k + BucketSize
    BY <1>4
  <2> QED BY <1>1, <1>2, <1>3, <1>4, <2>1, <2>2
<1>7. CASE l < k
  <2>1. BucketSize * (l + 1) <= BucketSize * k
    BY <1>4, <1>7, ProductKeepsOrder
  <2>2. BucketSize * (l + 1) = BucketSize * l + BucketSize
    BY <1>4
  <2> QED BY <1>1, <1>2, <1>3, <1>4, <2>1, <2>2
<1> QED BY <1>5, <1>6, <1>7

(* The rows of an interface do not overlap. *)
LEMMA RowsAreGood ==
    ASSUME StoreInv, NEW i \in Interfaces
    PROVE  GoodRows(Rows(i))
<1>1. TypeOK /\ SamplesApart /\ Rolled(rollups) /\ Follows(samples, rollups)
  BY DEF StoreInv
<1>2. \A c \in Rows(i) : GoodRow(c)
  BY <1>1, RowKinds, RollupFields, ContributionFields
<1>3. ASSUME NEW c \in Rows(i), NEW d \in Rows(i)
      PROVE  c = d \/ c.end <= d.start \/ d.end <= c.start
  <2>1. ASSUME NEW r \in rollups, NEW s \in samples, r.iface = s.iface
        PROVE  r.end <= Contribution(s).start
    BY <1>1, <2>1, ContributionFields DEF Follows
  <2>2. ASSUME NEW s \in samples, NEW t \in samples, s.iface = t.iface
        PROVE  \/ Contribution(s) = Contribution(t)
               \/ Contribution(s).end <= Contribution(t).start
               \/ Contribution(t).end <= Contribution(s).start
    BY <1>1, <2>2, ContributionFields DEF SamplesApart
  <2>3. c.iface = i /\ (c \in rollups \/ \E s \in samples : s.iface = i /\ c = Contribution(s))
    BY RowKinds
  <2>4. d.iface = i /\ (d \in rollups \/ \E s \in samples : s.iface = i /\ d = Contribution(s))
    BY RowKinds
  <2> QED BY <2>1, <2>2, <2>3, <2>4, RollupsApart
<1>4. IsFiniteSet(Rows(i))
  <2> DEFINE b == [s \in samples |-> Contribution(s)]
             all == rollups \cup {b[s] : s \in samples}
  <2>1. IsFiniteSet({b[s] : s \in samples})
    <3> HIDE DEF b
    <3> QED BY <1>1, FiniteImage DEF SamplesApart
  <2>2. IsFiniteSet(all)
    <3> HIDE DEF b
    <3> QED BY <1>1, <2>1, FS_Union DEF Rolled
  <2>3. Rows(i) \in SUBSET all
    BY DEF Rows
  <2> HIDE DEF all
  <2> QED BY <2>2, <2>3, FS_Subset
<1> QED BY <1>2, <1>3, <1>4 DEF GoodRows

SegMs(rows, from, to)    == [c \in Overlapping(rows, from, to) |-> CoveredMs(Segment(c, from, to))]
SegBytes(rows, from, to) ==
    [c \in Overlapping(rows, from, to) |-> Segment(c, from, to).exact + Segment(c, from, to).estimated]

(* Totals as sums over the rows that overlap the range.                     *)
LEMMA TotalsAre ==
    ASSUME NEW rows, NEW from, NEW to
    PROVE  /\ Totals(rows, from, to).bytes =
                SumFunctionOnSet(SegBytes(rows, from, to), Overlapping(rows, from, to))
           /\ Totals(rows, from, to).covered_ms =
                SumFunctionOnSet(SegMs(rows, from, to), Overlapping(rows, from, to))
<1> DEFINE o == Overlapping(rows, from, to)
           parts == [c \in o |-> Segment(c, from, to)]
           bytes == [c \in DOMAIN parts |-> parts[c].exact + parts[c].estimated]
           ms == [c \in DOMAIN parts |-> CoveredMs(parts[c])]
<1>1. /\ Totals(rows, from, to).bytes = SumFunction(bytes)
      /\ Totals(rows, from, to).covered_ms = SumFunction(ms)
  BY DEF Totals
<1>2. bytes = SegBytes(rows, from, to) /\ ms = SegMs(rows, from, to)
  BY DEF SegBytes, SegMs
<1>3. DOMAIN SegBytes(rows, from, to) = o /\ DOMAIN SegMs(rows, from, to) = o
  BY DEF SegBytes, SegMs
<1> HIDE DEF bytes, ms, parts
<1> QED BY <1>1, <1>2, <1>3 DEF SumFunction

(* What a query counts of a row lies in the range and is no longer than it. *)
LEMMA SegmentBounds ==
    ASSUME NEW c, GoodRow(c), NEW from \in Nat, NEW to \in Nat, from < to, c.end > from, c.start < to
    PROVE  LET a == Greater(c.start, from)
               b == Lesser(c.end, to) IN
           /\ a \in Nat /\ b \in Nat /\ from <= a /\ a < b /\ b <= to
           /\ c.start <= a /\ b <= c.end
           /\ CoveredMs(Segment(c, from, to)) \in Int
           /\ CoveredMs(Segment(c, from, to)) <= b - a
<1> DEFINE a == Greater(c.start, from)
           b == Lesser(c.end, to)
           part(value) == Slice(value, c.end - c.start, a - c.start, b - c.start)
<1>1. /\ c.start \in Nat /\ c.end \in Nat /\ c.start < c.end
      /\ CoveredMs(c) \in Nat /\ CoveredMs(c) <= c.end - c.start
  BY DEF GoodRow
<1>2. /\ a \in Nat /\ b \in Nat /\ from <= a /\ a < b /\ b <= to /\ c.start <= a /\ b <= c.end
  BY <1>1 DEF Greater, Lesser
<1>3. CASE a = c.start /\ b = c.end
  <2>1. /\ Segment(c, from, to).exact_ms = c.exact_ms
        /\ Segment(c, from, to).estimated_ms = c.estimated_ms
    BY <1>3 DEF Segment
  <2>2. CoveredMs(Segment(c, from, to)) = CoveredMs(c)
    BY <2>1 DEF CoveredMs
  <2> QED BY <1>1, <1>2, <1>3, <2>2
<1>4. CASE ~(a = c.start /\ b = c.end)
  <2>1. /\ Segment(c, from, to).exact_ms = 0
        /\ Segment(c, from, to).estimated_ms = Lesser(part(CoveredMs(c)), b - a)
    BY <1>4 DEF Segment
  <2>2. part(CoveredMs(c)) \in Int
    <3> DEFINE d == c.end - c.start
               f == a - c.start
               t == b - c.start
    <3>1. CoveredMs(c) \in Nat /\ d \in Nat \ {0} /\ f \in Nat /\ t \in Nat /\ f <= t /\ t <= d
      BY <1>1, <1>2
    <3> HIDE DEF d, f, t
    <3>2. Slice(CoveredMs(c), d, f, t) \in Nat
      BY <3>1, SliceBounds
    <3> QED BY <3>2 DEF d, f, t
  <2> HIDE DEF part
  <2>3. Lesser(part(CoveredMs(c)), b - a) \in Int /\ Lesser(part(CoveredMs(c)), b - a) <= b - a
    BY <1>2, <2>2 DEF Lesser
  <2>4. CoveredMs(Segment(c, from, to)) = Lesser(part(CoveredMs(c)), b - a)
    <3> HIDE DEF a, b
    <3> QED BY <2>1, <2>3 DEF CoveredMs
  <2> QED BY <1>2, <2>3, <2>4
<1> HIDE DEF part
<1> QED BY <1>2, <1>3, <1>4

(* The rows of a query cover no more time than it asks for. *)
LEMMA QueryCovers ==
    ASSUME NEW rows, GoodRows(rows), NEW from \in Nat, NEW to \in Nat, from < to
    PROVE  /\ Totals(rows, from, to).covered_ms \in Int
           /\ Totals(rows, from, to).covered_ms <= to - from
<1> DEFINE o == Overlapping(rows, from, to)
           lo == [c \in o |-> Greater(c.start, from)]
           hi == [c \in o |-> Lesser(c.end, to)]
           len == [c \in o |-> hi[c] - lo[c]]
           ms == SegMs(rows, from, to)
<1>1. o \in SUBSET rows /\ IsFiniteSet(o) /\ \A c \in o : c.end > from /\ c.start < to /\ GoodRow(c)
  <2>1. o \in SUBSET rows /\ IsFiniteSet(rows)
    BY DEF GoodRows, Overlapping
  <2>2. \A c \in o : c.end > from /\ c.start < to /\ GoodRow(c)
    BY DEF GoodRows, Overlapping
  <2> HIDE DEF o
  <2> QED BY <2>1, <2>2, FS_Subset
<1>2. \A c \in o : /\ lo[c] \in Nat /\ hi[c] \in Nat /\ len[c] = hi[c] - lo[c]
                   /\ from <= lo[c] /\ lo[c] <= hi[c] /\ hi[c] <= to
                   /\ c.start <= lo[c] /\ hi[c] <= c.end
                   /\ ms[c] \in Int /\ ms[c] <= len[c]
  <2> SUFFICES ASSUME NEW c \in o
               PROVE  /\ lo[c] \in Nat /\ hi[c] \in Nat /\ len[c] = hi[c] - lo[c]
                      /\ from <= lo[c] /\ lo[c] <= hi[c] /\ hi[c] <= to
                      /\ c.start <= lo[c] /\ hi[c] <= c.end
                      /\ ms[c] \in Int /\ ms[c] <= len[c]
    OBVIOUS
  <2>1. ms[c] = CoveredMs(Segment(c, from, to)) /\ lo[c] = Greater(c.start, from)
        /\ hi[c] = Lesser(c.end, to) /\ len[c] = hi[c] - lo[c]
    BY DEF SegMs
  <2>2. /\ Greater(c.start, from) \in Nat /\ Lesser(c.end, to) \in Nat
        /\ from <= Greater(c.start, from) /\ Greater(c.start, from) < Lesser(c.end, to)
        /\ Lesser(c.end, to) <= to
        /\ c.start <= Greater(c.start, from) /\ Lesser(c.end, to) <= c.end
        /\ CoveredMs(Segment(c, from, to)) \in Int
        /\ CoveredMs(Segment(c, from, to)) <= Lesser(c.end, to) - Greater(c.start, from)
    <3>1. GoodRow(c) /\ c.end > from /\ c.start < to
      BY <1>1
    <3> HIDE DEF o, lo, hi, len, ms
    <3> QED BY <3>1, SegmentBounds
  <2> HIDE DEF o, lo, hi, len, ms
  <2> QED BY <2>1, <2>2
<1>3. \A c, d \in o : c = d \/ hi[c] <= lo[d] \/ hi[d] <= lo[c]
  <2> HIDE DEF lo, hi, len, ms
  <2> SUFFICES ASSUME NEW c \in o, NEW d \in o PROVE c = d \/ hi[c] <= lo[d] \/ hi[d] <= lo[c]
    OBVIOUS
  <2>1. c = d \/ c.end <= d.start \/ d.end <= c.start
    BY <1>1 DEF GoodRows
  <2>2. c.start \in Nat /\ c.end \in Nat /\ d.start \in Nat /\ d.end \in Nat
    BY <1>1 DEF GoodRow
  <2> QED BY <1>2, <2>1, <2>2
<1> HIDE DEF o, lo, hi, len, ms
<1>4. SumFunctionOnSet(len, o) \in Nat /\ SumFunctionOnSet(len, o) <= to - from
  <2>1. \A c \in o : /\ lo[c] \in Int /\ hi[c] \in Int /\ len[c] = hi[c] - lo[c]
                     /\ from <= lo[c] /\ lo[c] <= hi[c] /\ hi[c] <= to
    BY <1>2
  <2>2. from \in Int /\ to \in Int /\ from <= to
    OBVIOUS
  <2> QED BY <1>1, <1>3, <2>1, <2>2, DisjointLengths
<1>5. SumFunctionOnSet(ms, o) \in Int /\ SumFunctionOnSet(ms, o) <= SumFunctionOnSet(len, o)
  <2>1. \A c \in o : ms[c] \in Int /\ len[c] \in Int /\ ms[c] <= len[c]
    BY <1>2
  <2> QED BY <1>1, <2>1, SumCompare, SumRemove
<1>6. Totals(rows, from, to).covered_ms = SumFunctionOnSet(ms, o)
  BY TotalsAre DEF o, ms
<1> QED BY <1>4, <1>5, <1>6

(* A query never returns more points than it may. *)
LEMMA PointsFit ==
    ASSUME NEW rows, GoodRows(rows), NEW from \in Nat, NEW to \in Nat, from < to
    PROVE  /\ Cardinality(Points(rows, from, to)) \in Nat
           /\ Cardinality(Points(rows, from, to)) <= MaxPoints
<1> DEFINE o == Overlapping(rows, from, to)
           L == to - from
           M == MaxPoints
           q == (L + M - 1) \div M
           lens == {c.end - c.start : c \in o}
           sizes == {1, q} \cup lens
           size == PointSize(rows, from, to)
<1>1. M \in Nat /\ M > 0 /\ L \in Nat /\ L > 0
  BY HistoryConstants
<1>2. q \in Int /\ L + M - 1 < M * q + M
  <2>1. M \in Nat \ {0} /\ L + M - 1 \in Int
    BY <1>1
  <2> HIDE DEF M, L
  <2> QED BY <2>1, QuotientFits
<1>3. sizes \in SUBSET Int /\ IsFiniteSet(sizes) /\ sizes # {} /\ 1 \in sizes /\ q \in sizes
  <2> DEFINE b == [c \in o |-> c.end - c.start]
  <2>1. o \in SUBSET rows /\ IsFiniteSet(rows)
    BY DEF GoodRows, Overlapping
  <2>2. IsFiniteSet(o)
    <3> HIDE DEF o
    <3> QED BY <2>1, FS_Subset
  <2>3. IsFiniteSet({b[c] : c \in o})
    <3> HIDE DEF b, o
    <3> QED BY <2>2, FiniteImage
  <2>4. {b[c] : c \in o} = lens
    OBVIOUS
  <2>5. IsFiniteSet({1, q})
    <3>1. {1, q} = {1} \cup {q}
      OBVIOUS
    <3>2. IsFiniteSet({1}) /\ IsFiniteSet({q})
      BY FS_Singleton
    <3>3. IsFiniteSet({1} \cup {q})
      BY <3>2, FS_Union
    <3> QED BY <3>1, <3>3
  <2>6. IsFiniteSet(sizes)
    <3> HIDE DEF lens, b, o, q
    <3> QED BY <2>3, <2>4, <2>5, FS_Union
  <2>7. \A c \in rows : c.end - c.start \in Int
    BY DEF GoodRows, GoodRow
  <2>8. sizes \in SUBSET Int
    <3>1. \A c \in o : c.end - c.start \in Int
      BY <2>1, <2>7
    <3> HIDE DEF o, q
    <3> QED BY <1>2, <3>1
  <2> QED BY <2>6, <2>8
<1>4. size = Max(sizes)
  BY DEF PointSize
<1>5. size \in Int /\ 1 <= size /\ q <= size
  <2> HIDE DEF size, sizes, q
  <2>1. Max(sizes) \in sizes /\ \A y \in sizes : y <= Max(sizes)
    BY <1>3, MaxOfFinite
  <2> QED BY <1>3, <1>4, <2>1
<1>6. L <= M * size
  <2> HIDE DEF size, q, M, L
  <2>1. M * q <= M * size
    BY <1>1, <1>2, <1>5, ProductKeepsOrder
  <2>2. M * q \in Int /\ M * size \in Int
    BY <1>1, <1>2, <1>5
  <2> QED BY <1>1, <1>2, <2>1, <2>2
<1>7. (L - 1) \div size < M /\ (L - 1) \div size \in Nat
  <2> HIDE DEF size, M, L
  <2>1. L - 1 < size * M
    <3>1. size * M = M * size /\ M * size \in Int
      BY <1>1, <1>5
    <3> QED BY <1>1, <1>6, <3>1
  <2>2. size \in Nat \ {0} /\ L - 1 \in Nat /\ L - 1 \in Int /\ M \in Int
    BY <1>1, <1>5
  <2> QED BY <2>1, <2>2, QuotientIs, QuotientFits
<1>8. Points(rows, from, to) \subseteq 0 .. ((L - 1) \div size)
  BY DEF Points
<1> HIDE DEF size, M, L
<1>9. IsFiniteSet(0 .. ((L - 1) \div size)) /\ Cardinality(0 .. ((L - 1) \div size)) = ((L - 1) \div size) + 1
  <2> DEFINE n == (L - 1) \div size
  <2>1. n \in Int /\ n >= 0 /\ 0 \in Int
    BY <1>7
  <2> HIDE DEF n
  <2>2. IsFiniteSet(0 .. n) /\ Cardinality(0 .. n) = n + 1
    BY <2>1, FS_Interval
  <2> QED BY <2>2 DEF n
<1>10. Cardinality(Points(rows, from, to)) <= Cardinality(0 .. ((L - 1) \div size))
       /\ Cardinality(Points(rows, from, to)) \in Nat
  BY <1>8, <1>9, FS_Subset, FS_CardinalityType
<1> QED BY <1>1, <1>7, <1>9, <1>10 DEF M

(* None of the errors of query_traffic_v4_on_connection occurs.             *)
LEMMA QueryNeverFails ==
    ASSUME NEW rows, GoodRows(rows), NEW from \in Nat, NEW to \in Nat, from < to
    PROVE  ~QueryFails(rows, from, to)
<1> DEFINE chosen == Overlapping(rows, from, to)
<1>1. chosen \subseteq rows
  BY DEF Overlapping
<1>2. \A c \in chosen : /\ ~(c.end <= c.start) /\ ~(CoveredMs(c) > c.end - c.start)
                        /\ ~(CoveredMs(c) = 0 /\ c.exact + c.estimated > 0)
  BY <1>1 DEF GoodRows, GoodRow
<1>3. \A c, d \in chosen : ~(c # d /\ c.end <= d.end /\ d.start < c.end)
  <2> SUFFICES ASSUME NEW c \in chosen, NEW d \in chosen, c # d, c.end <= d.end, d.start < c.end
               PROVE  FALSE
    OBVIOUS
  <2>1. c.end <= d.start \/ d.end <= c.start
    BY <1>1 DEF GoodRows
  <2>2. /\ c.start \in Nat /\ c.end \in Nat /\ c.start < c.end
        /\ d.start \in Nat /\ d.end \in Nat /\ d.start < d.end
    BY <1>1 DEF GoodRows, GoodRow
  <2> QED BY <2>1, <2>2
<1>4. ~(Totals(rows, from, to).covered_ms > to - from)
  BY QueryCovers
<1>5. ~(Cardinality(Points(rows, from, to)) > MaxPoints)
  BY PointsFit, HistoryConstants
<1> QED BY <1>2, <1>3, <1>4, <1>5 DEF QueryFails

(* The invariant gives the property.                                        *)
LEMMA SoundStore == StoreInv => StoreIsSound
<1> SUFFICES ASSUME StoreInv PROVE StoreIsSound
  OBVIOUS
<1>1. TypeOK /\ SamplesApart /\ RawCutoff \in Nat
  BY CutoffsAreTimes DEF StoreInv
<1>2. RollupIsNeverRefused
  <2>1. Consumes(Plan(RawCutoff))
    BY <1>1, PlanConsumes
  <2> QED BY <2>1, NotRefused DEF RollupIsNeverRefused
<1>3. QueriesAreAnswered
  <2> SUFFICES ASSUME NEW i \in Interfaces, NEW r \in Ranges
               PROVE  ~QueryFails(Rows(i), r[1], r[2])
    BY DEF QueriesAreAnswered
  <2>1. r[1] \in Nat /\ r[2] \in Nat /\ r[1] < r[2]
    BY DEF Ranges, Times
  <2>2. GoodRows(Rows(i))
    BY RowsAreGood
  <2> QED BY <2>1, <2>2, QueryNeverFails
<1> QED BY <1>1, <1>2, <1>3 DEF StoreIsSound

(* No sequence of polls, maintenance steps, changed retention times, errors *)
(* and clocks leads to a store whose next batch is refused by               *)
(* rollup_exact_samples_batch or that refuses a query                       *)
(* (fold_traffic_contributions, query_traffic_v4_on_connection), for every  *)
(* bucket and batch size.                                                   *)
THEOREM HistoryStoreIsSound == Spec => []StoreIsSound
<1>1. StoreInv /\ [Next]_vars => StoreInv'
  BY StoreStep
<1> QED BY <1>1, StoreStarts, SoundStore, PTL DEF Spec

-----------------------------------------------------------------------------
(* The backlog.                                                             *)

(* A remainder ends with the sample it is cut from.                         *)
LEMMA RemainderEnds ==
    ASSUME TypeOK, SamplesApart, NEW plan, Consumes(plan), NEW s \in Cut(plan)
    PROVE  /\ Remainder(s, plan[s]).iface = s.iface
           /\ Remainder(s, plan[s]).start = plan[s]
           /\ Remainder(s, plan[s]).end = s.end
<1>1. PICK r : r = Remainder(s, plan[s])
  OBVIOUS
<1>2. r.iface = s.iface /\ r.start = plan[s] /\ r.end = s.end
  BY <1>1, RemainderFields
<1> QED BY <1>1, <1>2

(* A sum is that of a part and that of the rest.                            *)
LEMMA SumOfRest ==
    ASSUME NEW S, IsFiniteSet(S), NEW T \in SUBSET S, NEW f, \A s \in S : f[s] \in Int
    PROVE  /\ SumFunctionOnSet(f, S) = SumFunctionOnSet(f, T) + SumFunctionOnSet(f, S \ T)
           /\ SumFunctionOnSet(f, T) \in Int /\ SumFunctionOnSet(f, S \ T) \in Int
<1> DEFINE R == S \ T
<1>1. IsFiniteSet(T) /\ IsFiniteSet(R) /\ T \cap R = {} /\ T \cup R = S
  <2>1. T \in SUBSET S /\ R \in SUBSET S
    OBVIOUS
  <2> QED BY <2>1, FS_Subset
<1>2. (\A s \in T \cup R : f[s] \in Int) /\ (\A s \in T : f[s] \in Int) /\ (\A s \in R : f[s] \in Int)
  OBVIOUS
<1> HIDE DEF R
<1>3. SumFunctionOnSet(f, T \cup R) = SumFunctionOnSet(f, T) + SumFunctionOnSet(f, R)
  BY <1>1, <1>2, SumOfUnion
<1>4. SumFunctionOnSet(f, S) = SumFunctionOnSet(f, T \cup R)
  BY <1>1
<1>5. SumFunctionOnSet(f, T) \in Int /\ SumFunctionOnSet(f, R) \in Int
  BY <1>1, <1>2, SumRemove
<1> QED BY <1>3, <1>4, <1>5 DEF R

(* What is summed over the samples after a batch, in terms of those before. *)
LEMMA LeftSum ==
    ASSUME TypeOK, SamplesApart, NEW plan, Consumes(plan), NEW f, NEW g,
           \A s \in samples \ DOMAIN plan : f[s] \in Int /\ g[s] = f[s],
           \A s \in Cut(plan) : f[Remainder(s, plan[s])] \in Int /\ g[s] = f[Remainder(s, plan[s])],
           \A s \in DOMAIN plan \ Cut(plan) : g[s] = 0
    PROVE  /\ SumFunctionOnSet(f, Left(plan)) = SumFunctionOnSet(g, samples)
           /\ \A s \in samples : g[s] \in Int
<1> DEFINE D == DOMAIN plan
           C == Cut(plan)
           K == samples \ D
           b == [s \in C |-> Remainder(s, plan[s])]
           R == {b[s] : s \in C}
<1>1. /\ IsFiniteSet(samples) /\ D \in SUBSET samples /\ C \in SUBSET D /\ C \in SUBSET samples
      /\ K \in SUBSET samples /\ samples \ K = D
  BY DEF SamplesApart, Consumes, Cut
<1>2. IsFiniteSet(D) /\ IsFiniteSet(C) /\ IsFiniteSet(K)
  <2> HIDE DEF D, C, K
  <2> QED BY <1>1, FS_Subset
<1>3. \A s \in C : /\ b[s].iface = s.iface /\ b[s].end = s.end /\ b[s] = Remainder(s, plan[s])
  <2> SUFFICES ASSUME NEW s \in C PROVE b[s].iface = s.iface /\ b[s].end = s.end /\ b[s] = Remainder(s, plan[s])
    OBVIOUS
  <2>1. b[s] = Remainder(s, plan[s])
    OBVIOUS
  <2> HIDE DEF b
  <2>2. b[s].iface = s.iface /\ b[s].end = s.end
    BY <2>1, RemainderEnds
  <2> QED BY <2>1, <2>2
<1>4. \A s, t \in samples : s.iface = t.iface /\ s.end = t.end => s = t
  <2> SUFFICES ASSUME NEW s \in samples, NEW t \in samples, s.iface = t.iface, s.end = t.end PROVE s = t
    OBVIOUS
  <2>1. s.start \in Nat /\ s.end \in Nat /\ t.start \in Nat /\ t.end \in Nat /\ s.start < s.end /\ t.start < t.end
    BY SampleFields DEF SamplesApart
  <2>2. s = t \/ s.end <= t.start \/ t.end <= s.start
    BY DEF SamplesApart
  <2> QED BY <2>1, <2>2
<1>5. K \cap R = {}
  BY <1>1, <1>3, <1>4
<1>6. \A s, t \in C : b[s] = b[t] => s = t
  <2> SUFFICES ASSUME NEW s \in C, NEW t \in C, b[s] = b[t] PROVE s = t
    OBVIOUS
  <2>1. s \in samples /\ t \in samples /\ s.iface = t.iface /\ s.end = t.end
    <3>1. b[s].iface = s.iface /\ b[s].end = s.end /\ b[t].iface = t.iface /\ b[t].end = t.end
      BY <1>3
    <3> HIDE DEF b, C
    <3> QED BY <1>1, <3>1
  <2> QED BY <1>4, <2>1
<1>7. Left(plan) = K \cup R
  BY DEF Left
<1>8. /\ \A s \in K : f[s] \in Int /\ g[s] = f[s]
      /\ \A s \in C : f[b[s]] \in Int /\ g[s] = f[b[s]]
      /\ \A s \in D \ C : g[s] = 0
  BY <1>3
<1> HIDE DEF D, C, K, b, R
<1>9. IsFiniteSet(R) /\ SumFunctionOnSet(f, R) = SumFunctionOnSet(g, C)
  <2>1. \A s \in C : g[s] \in Int /\ f[b[s]] = g[s]
    BY <1>8
  <2>2. IsFiniteSet({b[s] : s \in C}) /\ SumFunctionOnSet(f, {b[s] : s \in C}) = SumFunctionOnSet(g, C)
    BY <1>2, <1>6, <2>1, SumRenamed
  <2> QED BY <2>2 DEF R
<1>10. SumFunctionOnSet(f, K \cup R) = SumFunctionOnSet(f, K) + SumFunctionOnSet(f, R)
  <2>1. \A s \in K \cup R : f[s] \in Int
    BY <1>8 DEF R
  <2> QED BY <1>2, <1>5, <1>9, <2>1, SumOfUnion
<1>11. \A s \in samples : g[s] \in Int
  <2>1. \A s \in samples : s \in K \/ s \in C \/ s \in D \ C
    BY <1>1
  <2> QED BY <1>8, <2>1
<1>12. SumFunctionOnSet(g, samples) = SumFunctionOnSet(g, K) + SumFunctionOnSet(g, D)
  BY <1>1, <1>11, SumOfRest
<1>13. SumFunctionOnSet(g, D) = SumFunctionOnSet(g, C)
  <2>1. \A s \in D : g[s] \in Int
    BY <1>1, <1>11
  <2> QED BY <1>1, <1>2, <1>8, <2>1, SumOfPart
<1>14. SumFunctionOnSet(g, K) = SumFunctionOnSet(f, K)
  <2>1. \A s \in K : f[s] \in Int /\ f[s] = g[s]
    BY <1>8
  <2> QED BY <1>2, <2>1, SumSame
<1>15. SumFunctionOnSet(f, Left(plan)) = SumFunctionOnSet(f, K \cup R)
  BY <1>7
<1> QED BY <1>9, <1>10, <1>11, <1>12, <1>13, <1>14, <1>15

(* A finite set has a first element. *)
LEMMA FirstOfFinite ==
    ASSUME NEW S, IsFiniteSet(S), S # {}, NEW R,
           \A a, b, c \in S : <<a, b>> \in R /\ <<b, c>> \in R => <<a, c>> \in R,
           \A a \in S : <<a, a>> \notin R
    PROVE  \E m \in S : \A t \in S : <<t, m>> \notin R
<1> DEFINE Good(T) == \E m \in T : \A t \in T : <<t, m>> \notin R
           G == {T \in SUBSET S : T = {} \/ Good(T)}
<1>1. {} \in G
  OBVIOUS
<1>2. ASSUME NEW T \in SUBSET S, NEW x \in S, T \in G, x \notin T PROVE T \cup {x} \in G
  <2>1. CASE T = {}
    BY <2>1
  <2>2. CASE Good(T)
    <3>1. PICK m \in T : \A t \in T : <<t, m>> \notin R
      BY <2>2
    <3>2. CASE <<x, m>> \in R
      <4>1. \A t \in T \cup {x} : <<t, x>> \notin R
        BY <3>1, <3>2
      <4> QED BY <4>1
    <3>3. CASE <<x, m>> \notin R
      <4>1. \A t \in T \cup {x} : <<t, m>> \notin R
        BY <3>1, <3>3
      <4> QED BY <3>1, <4>1
    <3> QED BY <3>2, <3>3
  <2> QED BY <1>2, <2>1, <2>2
<1>3. S \in G
  <2> HIDE DEF G
  <2> QED BY <1>1, <1>2, FiniteIsGenerated
<1> QED BY <1>3

(* The oldest sample that is due is in every batch and has all the budget. *)
LEMMA PlanIsNotEmpty ==
    ASSUME TypeOK, SamplesApart, NEW cutoff \in Nat, \E s \in samples : s.start < cutoff
    PROVE  DOMAIN Plan(cutoff) # {}
<1> DEFINE due == {s \in samples : s.start < cutoff}
           R == {p \in due \X due : Before(p[1], p[2])}
<1>1. due \in SUBSET samples /\ IsFiniteSet(samples) /\ due # {}
  BY DEF SamplesApart
<1>2. IsFiniteSet(due)
  <2> HIDE DEF due
  <2> QED BY <1>1, FS_Subset
<1>3. \A a, b \in due : <<a, b>> \in R <=> Before(a, b)
  OBVIOUS
<1>4. /\ \A a, b, c \in due : <<a, b>> \in R /\ <<b, c>> \in R => <<a, c>> \in R
      /\ \A a \in due : <<a, a>> \notin R
  <2> HIDE DEF due, R
  <2> QED BY <1>1, <1>3, BeforeIsOrder
<1>5. PICK m \in due : \A t \in due : <<t, m>> \notin R
  <2> HIDE DEF due, R
  <2> QED BY <1>1, <1>2, <1>4, FirstOfFinite
<1>6. \A t \in due : ~Before(t, m)
  BY <1>3, <1>5
<1>7. m \in Batch(cutoff)
  <2>1. {t \in due : Before(t, m)} = {}
    BY <1>6
  <2>2. Cardinality({t \in due : Before(t, m)}) = 0
    BY <2>1, FS_EmptySet
  <2>3. 0 < BatchSize
    BY HistoryConstants
  <2>4. Cardinality({t \in due : Before(t, m)}) < BatchSize
    BY <2>2, <2>3
  <2> QED BY <2>4 DEF Batch
<1>8. \A t \in Batch(cutoff) : ~Before(t, m)
  BY <1>6 DEF Batch
<1>9. BudgetLeft(m, cutoff) = SegmentBudget /\ SegmentBudget > 0
  <2>1. BudgetLeft(m, cutoff) = SegmentBudget
    BY <1>7, <1>8, BudgetShrinks
  <2>2. SegmentBudget > 0
    BY HistoryConstants DEF SegmentBudget
  <2> QED BY <2>1, <2>2
<1>10. m \in DOMAIN Plan(cutoff)
  BY <1>7, <1>9, PlanMembers
<1> QED BY <1>10

BacklogOf(ss, cutoff) ==
    SumFunction([s \in {t \in ss : t.start < cutoff} |-> PlannedEnd(s, cutoff) - s.start])

Waiting(ss, cutoff) == [s \in ss |-> IF s.start < cutoff THEN PlannedEnd(s, cutoff) - s.start ELSE 0]

(* The backlog as a sum over all samples.                                   *)
LEMMA BacklogIsWaiting ==
    ASSUME NEW ss, IsFiniteSet(ss), ss \subseteq Samples, NEW cutoff \in Nat
    PROVE  /\ \A s \in ss : Waiting(ss, cutoff)[s] \in Int
           /\ BacklogOf(ss, cutoff) = SumFunctionOnSet(Waiting(ss, cutoff), ss)
<1> DEFINE w == Waiting(ss, cutoff)
           due == {t \in ss : t.start < cutoff}
           f == [s \in due |-> PlannedEnd(s, cutoff) - s.start]
<1>1. \A s \in ss : w[s] \in Int /\ PlannedEnd(s, cutoff) - s.start \in Int
  <2>1. \A s \in ss : s.start \in Nat /\ s.end \in Nat
    BY RowTimes DEF Fields
  <2> QED BY <2>1 DEF PlannedEnd, Lesser, Waiting
<1>2. \A s \in due : f[s] \in Int /\ f[s] = w[s]
  BY <1>1 DEF Waiting
<1>3. due \in SUBSET ss /\ \A s \in ss \ due : w[s] = 0
  BY DEF Waiting
<1>4. DOMAIN f = due /\ BacklogOf(ss, cutoff) = SumFunction(f)
  BY DEF BacklogOf
<1> HIDE DEF due, f, w
<1>5. IsFiniteSet(due)
  BY <1>3, FS_Subset
<1>6. SumFunctionOnSet(f, due) = SumFunctionOnSet(w, due)
  BY <1>2, <1>5, SumSame
<1>7. SumFunctionOnSet(w, ss) = SumFunctionOnSet(w, due)
  BY <1>1, <1>3, SumOfPart
<1> QED BY <1>1, <1>4, <1>6, <1>7 DEF SumFunction, w

(* A batch consumes some of the first sample that is due, and adds to no    *)
(* other.                                                                   *)
LEMMA RollupShrinksBacklog ==
    ASSUME StoreInv, NEW cutoff \in Nat, NEW plan, plan = Plan(cutoff),
           \E s \in samples : s.start < cutoff
    PROVE  BacklogOf(Left(plan), cutoff) < BacklogOf(samples, cutoff)
<1>1. TypeOK /\ SamplesApart /\ Consumes(plan) /\ DOMAIN plan # {} /\ samples \subseteq Samples
      /\ IsFiniteSet(samples) /\ DOMAIN plan \subseteq samples
  BY PlanConsumes, PlanIsNotEmpty DEF StoreInv, TypeOK, SamplesApart, Consumes
<1>2. IsFiniteSet(Left(plan)) /\ Left(plan) \subseteq Samples
  BY <1>1, LeftApart DEF Apart
<1> DEFINE w == Waiting(samples, cutoff)
           f == Waiting(Left(plan), cutoff)
           g == [s \in samples |-> IF s \in DOMAIN plan
                                   THEN IF s \in Cut(plan) THEN f[Remainder(s, plan[s])] ELSE 0
                                   ELSE f[s]]
<1>3. /\ \A s \in Left(plan) : f[s] \in Int
      /\ BacklogOf(Left(plan), cutoff) = SumFunctionOnSet(f, Left(plan))
  BY <1>2, BacklogIsWaiting
<1>4. /\ \A s \in samples : w[s] \in Int
      /\ BacklogOf(samples, cutoff) = SumFunctionOnSet(w, samples)
  BY <1>1, BacklogIsWaiting
<1>5. /\ \A s \in samples \ DOMAIN plan : s \in Left(plan)
      /\ \A s \in Cut(plan) : Remainder(s, plan[s]) \in Left(plan) /\ s \in DOMAIN plan
  BY DEF Left, Cut
<1>6. /\ \A s \in samples \ DOMAIN plan : f[s] \in Int /\ g[s] = f[s]
      /\ \A s \in Cut(plan) : f[Remainder(s, plan[s])] \in Int /\ g[s] = f[Remainder(s, plan[s])]
      /\ \A s \in DOMAIN plan \ Cut(plan) : g[s] = 0
  <2> HIDE DEF f
  <2> QED BY <1>1, <1>3, <1>5
<1>7. /\ SumFunctionOnSet(f, Left(plan)) = SumFunctionOnSet(g, samples)
      /\ \A s \in samples : g[s] \in Int
  <2> HIDE DEF f, g
  <2> QED BY <1>1, <1>6, LeftSum
<1>8. ASSUME NEW s \in samples \ DOMAIN plan PROVE g[s] = w[s]
  <2>1. f[s] = w[s]
    BY <1>5 DEF Waiting
  <2> QED BY <1>6, <2>1
<1>9. ASSUME NEW s \in DOMAIN plan PROVE g[s] < w[s]
  <2>1. /\ s \in Batch(cutoff) /\ s \in samples /\ plan[s] = Reached(s, cutoff)
        /\ s.start \in Nat /\ plan[s] \in Nat /\ s.start < plan[s]
    BY <1>1, PlanMembers, SampleFields DEF Consumes
  <2>2. s.start < cutoff /\ plan[s] <= PlannedEnd(s, cutoff)
    BY <1>1, <2>1, BatchIsFirst, ReachedBounds
  <2>3. PlannedEnd(s, cutoff) \in Nat /\ PlannedEnd(s, cutoff) <= cutoff
    BY <1>1, <2>1, <2>2, PieceCount
  <2>4. w[s] = PlannedEnd(s, cutoff) - s.start
    BY <2>1, <2>2 DEF Waiting
  <2>5. CASE s \notin Cut(plan)
    <3>1. g[s] = 0
      BY <1>6, <2>5
    <3> HIDE DEF g, w
    <3> QED BY <2>1, <2>2, <2>3, <2>4, <3>1
  <2>6. CASE s \in Cut(plan)
    <3> DEFINE r == Remainder(s, plan[s])
    <3>1. r.start = plan[s] /\ r.end = s.end /\ r \in Left(plan)
      <4>1. r.start = plan[s] /\ r.end = s.end
        BY <1>1, <2>6, RemainderEnds
      <4> QED BY <1>5, <2>6, <4>1
    <3>2. g[s] = f[r]
      BY <1>6, <2>6
    <3> HIDE DEF r
    <3>3. PlannedEnd(r, cutoff) = PlannedEnd(s, cutoff)
      BY <3>1 DEF PlannedEnd
    <3>4. f[r] = IF plan[s] < cutoff THEN PlannedEnd(s, cutoff) - plan[s] ELSE 0
      BY <3>1, <3>3 DEF Waiting
    <3> HIDE DEF g, w, f
    <3> QED BY <2>1, <2>2, <2>3, <2>4, <3>2, <3>4
  <2> QED BY <2>5, <2>6
<1> HIDE DEF g, w, f
<1>10. PICK x \in DOMAIN plan : TRUE
  BY <1>1
<1>11. /\ SumFunctionOnSet(g, samples) = g[x] + SumFunctionOnSet(g, samples \ {x})
       /\ SumFunctionOnSet(w, samples) = w[x] + SumFunctionOnSet(w, samples \ {x})
       /\ x \in samples
  <2>1. x \in samples
    BY <1>1, <1>10
  <2>2. SumFunctionOnSet(g, samples) = g[x] + SumFunctionOnSet(g, samples \ {x})
    <3>1. IsFiniteSet(samples) /\ \A s \in samples : g[s] \in Int
      BY <1>1, <1>7
    <3> QED BY <2>1, <3>1, SumRemove
  <2>3. SumFunctionOnSet(w, samples) = w[x] + SumFunctionOnSet(w, samples \ {x})
    BY <1>1, <1>4, <2>1, SumRemove
  <2> QED BY <2>1, <2>2, <2>3
<1>12. /\ SumFunctionOnSet(g, samples \ {x}) <= SumFunctionOnSet(w, samples \ {x})
       /\ SumFunctionOnSet(g, samples \ {x}) \in Int /\ SumFunctionOnSet(w, samples \ {x}) \in Int
  <2>1. samples \ {x} \in SUBSET samples
    OBVIOUS
  <2>2. IsFiniteSet(samples \ {x})
    BY <1>1, <2>1, FS_Subset
  <2>3. \A s \in samples \ {x} : g[s] \in Int /\ w[s] \in Int /\ g[s] <= w[s]
    <3> SUFFICES ASSUME NEW s \in samples PROVE g[s] \in Int /\ w[s] \in Int /\ g[s] <= w[s]
      OBVIOUS
    <3>1. g[s] \in Int /\ w[s] \in Int
      BY <1>4, <1>7
    <3>2. g[s] = w[s] \/ g[s] < w[s]
      BY <1>8, <1>9
    <3> QED BY <3>1, <3>2
  <2> QED BY <2>2, <2>3, SumCompare, SumRemove
<1>13. g[x] < w[x] /\ g[x] \in Int /\ w[x] \in Int
  BY <1>4, <1>7, <1>9, <1>10, <1>11
<1> QED BY <1>3, <1>4, <1>7, <1>11, <1>12, <1>13

(* Every maintenance that is not an error works on the backlog.             *)
LEMMA ProgressStep == StoreInv /\ [Next]_vars => [Rollup /\ Backlog > 0 => Backlog' < Backlog]_vars
<1> SUFFICES ASSUME StoreInv, Rollup, Backlog > 0 PROVE Backlog' < Backlog
  OBVIOUS
<1>1. RawCutoff \in Nat /\ RawCutoff' = RawCutoff /\ TypeOK /\ SamplesApart
  BY CutoffsAreTimes DEF StoreInv, Rollup, RawCutoff
<1>2. PICK cutoff \in Nat : cutoff = RawCutoff
  BY <1>1
<1>3. PICK plan : plan = Plan(cutoff)
  OBVIOUS
<1>4. Consumes(plan)
  BY <1>1, <1>3, PlanConsumes
<1>5. ~Refused(plan, Filled(plan, cutoff))
  BY <1>4, NotRefused
<1>6. RolledUp(plan, Filled(plan, cutoff))
  BY <1>2, <1>3, <1>5 DEF Rollup
<1>7. samples' = Left(plan)
  BY <1>6, RolledUpIs
<1>8. Backlog = BacklogOf(samples, cutoff) /\ Backlog' = BacklogOf(samples', cutoff)
  <2>1. Backlog = BacklogOf(samples, cutoff)
    BY <1>2 DEF Backlog, BacklogOf
  <2>2. Backlog' = BacklogOf(samples', cutoff)
    BY <1>1, <1>2 DEF Backlog, BacklogOf
  <2> QED BY <2>1, <2>2
<1>9. \E s \in samples : s.start < cutoff
  <2> SUFFICES ASSUME \A s \in samples : ~(s.start < cutoff) PROVE FALSE
    OBVIOUS
  <2> DEFINE f == [s \in {t \in samples : t.start < cutoff} |-> PlannedEnd(s, cutoff) - s.start]
  <2>1. DOMAIN f = {}
    OBVIOUS
  <2>2. BacklogOf(samples, cutoff) = SumFunction(f)
    BY DEF BacklogOf
  <2> HIDE DEF f
  <2>3. SumFunction(f) = 0
    BY <2>1, SumEmpty DEF SumFunction
  <2> QED BY <1>8, <2>2, <2>3
<1>10. BacklogOf(Left(plan), cutoff) < BacklogOf(samples, cutoff)
  BY <1>3, <1>9, RollupShrinksBacklog
<1> QED BY <1>7, <1>8, <1>10

(* A maintenance that finds raw traffic before its cutoff leaves less of    *)
(* it, however long the samples and small the budget of segments            *)
(* (rollup_exact_samples_batch, the planned end of a sample).               *)
THEOREM BacklogIsWorkedOff == Spec => RollupMakesProgress
<1>1. StoreInv /\ [Next]_vars => StoreInv'
  BY StoreStep
<1> QED BY <1>1, StoreStarts, ProgressStep, PTL DEF Spec, RollupMakesProgress

-----------------------------------------------------------------------------
(* Exact bytes. They are inductive only together with the samples that are  *)
(* still stored: an exact sample is as it was recorded.                     *)

(* The fields that a merge adds up *)
LEMMA RowAdds ==
    ASSUME StoreInv, NEW plan, Consumes(plan), NEW cutoff, NEW i \in Interfaces, NEW k \in Nat,
           Reaching(plan, i, k) # {},
           NEW new, new = Bucket(plan, cutoff, i, k), Had(new)
    PROVE  /\ Old(new) \in rollups /\ Same(Old(new), new)
           /\ Row(new).exact = Old(new).exact + new.exact
           /\ Row(new).estimated = Old(new).estimated + new.estimated
           /\ Row(new).exact_ms = Old(new).exact_ms + new.exact_ms
           /\ Row(new).estimated_ms = Old(new).estimated_ms + new.estimated_ms
<1>1. new \in Rollups
  BY BucketIsRow DEF StoreInv
<1>2. Old(new) \in rollups /\ Same(Old(new), new)
  BY DEF Had, Old
<1>3. Row(new) = Merged(Old(new), new)
  BY DEF Row
<1> QED BY <1>1, <1>2, <1>3 DEF Merged, Rollups

BytesOf(S)   == [s \in S |-> s.bytes]
LengthsOf(S) == [s \in S |-> s.end - s.start]

(* These samples are what the row calls exact. *)
Measures(row, whole) ==
    /\ \A s \in whole : /\ s \in Samples /\ s.iface = row.iface
                        /\ row.start <= s.start /\ s.start < s.end /\ s.end <= row.end
    /\ IsFiniteSet(whole)
    /\ row.exact = SumFunction(BytesOf(whole))
    /\ row.exact_ms = SumFunction(LengthsOf(whole))

(* Exact samples are as they were recorded, and the exact bytes of a row    *)
(* are those of recorded samples inside it.                                 *)
ExactInv ==
    /\ \A s \in samples : s.exact => s \in recorded.samples
    /\ \A row \in rollups : \E whole \in SUBSET recorded.samples : Measures(row, whole)

(* Samples may be counted in two parts.                                     *)
LEMMA SumsOfSamples ==
    ASSUME NEW S, IsFiniteSet(S), S \subseteq Samples, NEW T, IsFiniteSet(T), T \subseteq Samples, S \cap T = {}
    PROVE  /\ SumFunction(BytesOf(S \cup T)) = SumFunction(BytesOf(S)) + SumFunction(BytesOf(T))
           /\ SumFunction(LengthsOf(S \cup T)) = SumFunction(LengthsOf(S)) + SumFunction(LengthsOf(T))
<1> DEFINE U == S \cup T
           b == BytesOf(U)
           l == LengthsOf(U)
<1>1. \A s \in U : b[s] = s.bytes /\ b[s] \in Int /\ l[s] = s.end - s.start /\ l[s] \in Int
  <2>1. \A s \in Samples : s.bytes \in Nat /\ s.start \in Nat /\ s.end \in Nat
    BY DEF Samples, Times
  <2> QED BY <2>1 DEF BytesOf, LengthsOf
<1>2. /\ DOMAIN b = U /\ DOMAIN l = U
      /\ DOMAIN BytesOf(S) = S /\ DOMAIN LengthsOf(S) = S
      /\ DOMAIN BytesOf(T) = T /\ DOMAIN LengthsOf(T) = T
  BY DEF BytesOf, LengthsOf
<1>3. /\ \A s \in S : BytesOf(S)[s] \in Int /\ BytesOf(S)[s] = b[s]
                      /\ LengthsOf(S)[s] \in Int /\ LengthsOf(S)[s] = l[s]
      /\ \A s \in T : BytesOf(T)[s] \in Int /\ BytesOf(T)[s] = b[s]
                      /\ LengthsOf(T)[s] \in Int /\ LengthsOf(T)[s] = l[s]
  BY <1>1 DEF BytesOf, LengthsOf
<1> HIDE DEF b, l
<1>4. /\ SumFunctionOnSet(b, S \cup T) = SumFunctionOnSet(b, S) + SumFunctionOnSet(b, T)
      /\ SumFunctionOnSet(l, S \cup T) = SumFunctionOnSet(l, S) + SumFunctionOnSet(l, T)
  <2>1. \A s \in S \cup T : b[s] \in Int /\ l[s] \in Int
    BY <1>1
  <2> QED BY <2>1, SumOfUnion
<1>5. /\ SumFunctionOnSet(BytesOf(S), S) = SumFunctionOnSet(b, S)
      /\ SumFunctionOnSet(LengthsOf(S), S) = SumFunctionOnSet(l, S)
  BY <1>3, SumSame
<1>6. /\ SumFunctionOnSet(BytesOf(T), T) = SumFunctionOnSet(b, T)
      /\ SumFunctionOnSet(LengthsOf(T), T) = SumFunctionOnSet(l, T)
  BY <1>3, SumSame
<1>7. /\ SumFunction(BytesOf(S)) = SumFunctionOnSet(BytesOf(S), S)
      /\ SumFunction(LengthsOf(S)) = SumFunctionOnSet(LengthsOf(S), S)
      /\ SumFunction(BytesOf(T)) = SumFunctionOnSet(BytesOf(T), T)
      /\ SumFunction(LengthsOf(T)) = SumFunctionOnSet(LengthsOf(T), T)
      /\ SumFunction(b) = SumFunctionOnSet(b, S \cup T)
      /\ SumFunction(l) = SumFunctionOnSet(l, S \cup T)
  BY <1>2 DEF SumFunction
<1> QED BY <1>4, <1>5, <1>6, <1>7 DEF b, l

(* A sample that lies in the bucket as a whole counts with all its bytes. *)
LEMMA WholePiece ==
    ASSUME TypeOK, SamplesApart, NEW cutoff \in Nat, NEW plan, plan = Plan(cutoff),
           NEW i, NEW k \in Nat,
           NEW s \in Unsplit(Reaching(plan, i, k), cutoff)
    PROVE  /\ s \in samples /\ s.exact /\ s.iface = i /\ s \in Reaching(plan, i, k)
           /\ PieceStart(s, k) = s.start /\ PieceEnd(plan, s, k) = s.end
           /\ PieceBytes(plan, k)[s] = s.bytes /\ PieceMs(plan, k)[s] = s.end - s.start
<1>1. Consumes(plan)
  BY PlanConsumes
<1>2. s \in Reaching(plan, i, k) /\ s.exact /\ ~Split(s, cutoff)
  BY DEF Unsplit
<1>3. /\ s \in DOMAIN plan /\ s \in samples /\ s.iface = i
      /\ s.start \in Nat /\ s.end \in Nat /\ s.start < s.end /\ s.bytes \in Nat
      /\ PieceStart(s, k) \in Nat /\ PieceEnd(plan, s, k) \in Nat
      /\ BucketSize * k <= PieceStart(s, k)
      /\ PieceStart(s, k) < PieceEnd(plan, s, k)
      /\ PieceEnd(plan, s, k) <= BucketSize * k + BucketSize
  BY <1>1, <1>2, PieceBounds, SampleFields DEF SamplesApart
<1>4. plan[s] = s.end /\ BucketOf(s.end - 1) = BucketOf(s.start)
  BY <1>2, <1>3, WholeIsWhole
<1>5. BucketOf(s.start) <= k /\ s.end > k * BucketSize
  BY <1>2, <1>4 DEF Reaching
<1>6. BucketSize \in Nat \ {0} /\ BucketSize * k \in Nat /\ k * BucketSize = BucketSize * k
      /\ (k + 1) * BucketSize = BucketSize * k + BucketSize
  <2>1. BucketSize \in Nat \ {0}
    BY HistoryConstants
  <2> QED BY <2>1
<1>7. BucketOf(s.end - 1) \in Int /\ ~(BucketOf(s.end - 1) < k)
  <2>1. s.end - 1 \in Int /\ k \in Int /\ ~(s.end - 1 < BucketSize * k)
    BY <1>3, <1>5, <1>6
  <2> QED BY <2>1, BucketOrder, BucketBounds
<1>8. BucketOf(s.start) = k /\ BucketOf(s.end - 1) = k
  <2>1. BucketOf(s.start) \in Int
    BY <1>3, BucketBounds
  <2> QED BY <1>4, <1>5, <1>7, <2>1
<1>9. BucketSize * k <= s.start
  BY <1>3, <1>8, BucketBounds
<1>10. s.end - 1 < BucketSize * k + BucketSize
  <2>1. s.end - 1 \in Int
    BY <1>3
  <2>2. s.end - 1 < BucketSize * BucketOf(s.end - 1) + BucketSize
    BY <2>1, BucketBounds
  <2> QED BY <1>8, <2>2
<1>11. PieceStart(s, k) = s.start
  BY <1>3, <1>6, <1>9 DEF PieceStart, Greater
<1>12. PieceEnd(plan, s, k) = s.end
  BY <1>3, <1>4, <1>6, <1>10 DEF PieceEnd, Lesser
<1>13. PieceMs(plan, k)[s] = s.end - s.start
  BY <1>3, <1>11, <1>12 DEF PieceMs
<1>14. PieceBytes(plan, k)[s] = s.bytes
  <2> DEFINE d == s.end - s.start
  <2>1. PieceBytes(plan, k)[s] = Slice(s.bytes, d, s.start - s.start, s.end - s.start)
    BY <1>3, <1>11, <1>12 DEF PieceBytes
  <2>2. s.start - s.start = 0 /\ s.end - s.start = d /\ d \in Nat \ {0} /\ 0 <= d
    BY <1>3
  <2> HIDE DEF d
  <2>3. Slice(s.bytes, d, 0, d) = s.bytes
    <3>1. PICK v \in Nat : v = s.bytes
      BY <1>3
    <3>2. d \in Nat \ {0} /\ 0 \in Nat /\ d \in Nat /\ 0 <= d /\ d <= d
      BY <2>2
    <3>3. Slice(v, d, 0, d) = v
      BY <3>2, SliceBounds
    <3> QED BY <3>1, <3>3
  <2> QED BY <2>1, <2>2, <2>3
<1> QED BY <1>2, <1>3, <1>11, <1>12, <1>13, <1>14

(* What a batch adds to a bucket as exact are the samples it did not split. *)
LEMMA BucketMeasures ==
    ASSUME TypeOK, SamplesApart, NEW cutoff \in Nat, NEW plan, plan = Plan(cutoff),
           NEW i \in Interfaces, NEW k \in Nat, Reaching(plan, i, k) # {},
           NEW new, new = Bucket(plan, cutoff, i, k),
           NEW whole, whole = Unsplit(Reaching(plan, i, k), cutoff)
    PROVE  Measures(new, whole)
<1>1. Consumes(plan)
  BY PlanConsumes
<1> DEFINE B == PieceBytes(plan, k)
           M == PieceMs(plan, k)
<1>2. /\ new.iface = i /\ new.start = BucketSize * k
      /\ new.exact = SumFunctionOnSet(B, whole) /\ new.exact_ms = SumFunctionOnSet(M, whole)
  BY <1>1, BucketFields
<1>3. \A s \in Reaching(plan, i, k) : PieceEnd(plan, s, k) <= new.end
  BY <1>1, BucketCovers
<1>4. \A s \in whole : /\ s \in samples /\ s.iface = i /\ s \in Reaching(plan, i, k)
                       /\ PieceStart(s, k) = s.start /\ PieceEnd(plan, s, k) = s.end
                       /\ B[s] = s.bytes /\ M[s] = s.end - s.start
  BY WholePiece
<1> HIDE DEF B, M
<1>5. \A s \in whole : /\ s \in Samples /\ s.iface = new.iface
                       /\ new.start <= s.start /\ s.start < s.end /\ s.end <= new.end
                       /\ B[s] \in Int /\ M[s] \in Int
  <2> SUFFICES ASSUME NEW s \in whole
               PROVE  /\ s \in Samples /\ s.iface = new.iface
                       /\ new.start <= s.start /\ s.start < s.end /\ s.end <= new.end
                       /\ B[s] \in Int /\ M[s] \in Int
    OBVIOUS
  <2>1. s \in Samples /\ s.start \in Nat /\ s.end \in Nat /\ s.bytes \in Nat /\ s.start < s.end
    BY <1>4, SampleFields DEF SamplesApart
  <2>2. BucketSize * k <= PieceStart(s, k)
    BY <1>1, <1>4, PieceBounds
  <2> QED BY <1>2, <1>3, <1>4, <2>1, <2>2
<1>6. IsFiniteSet(whole)
  <2>1. IsFiniteSet(Reaching(plan, i, k)) /\ whole \in SUBSET Reaching(plan, i, k)
    BY <1>1, ReachingIsFinite DEF Unsplit
  <2> QED BY <2>1, FS_Subset
<1>7. /\ SumFunction(BytesOf(whole)) = SumFunctionOnSet(B, whole)
      /\ SumFunction(LengthsOf(whole)) = SumFunctionOnSet(M, whole)
  <2>1. DOMAIN BytesOf(whole) = whole /\ DOMAIN LengthsOf(whole) = whole
    BY DEF BytesOf, LengthsOf
  <2>2. \A s \in whole : /\ B[s] \in Int /\ B[s] = BytesOf(whole)[s]
                         /\ M[s] \in Int /\ M[s] = LengthsOf(whole)[s]
    BY <1>4, <1>5 DEF BytesOf, LengthsOf
  <2>3. /\ SumFunctionOnSet(B, whole) = SumFunctionOnSet(BytesOf(whole), whole)
        /\ SumFunctionOnSet(M, whole) = SumFunctionOnSet(LengthsOf(whole), whole)
    BY <1>6, <2>2, SumSame
  <2> QED BY <2>1, <2>3 DEF SumFunction
<1> QED BY <1>2, <1>5, <1>6, <1>7 DEF Measures

(* Merging a bucket merges the samples its exact bytes stand for: those it  *)
(* already counted are no longer stored.                                    *)
LEMMA RollupKeepsExact ==
    ASSUME StoreInv, ExactInv, NEW cutoff \in Nat, NEW plan, plan = Plan(cutoff),
           NEW row \in Updated(Filled(plan, cutoff))
    PROVE  \E whole \in SUBSET recorded.samples : Measures(row, whole)
<1>1. TypeOK /\ SamplesApart /\ Consumes(plan)
  BY PlanConsumes DEF StoreInv
<1>2. CASE row \in rollups
  BY <1>2 DEF ExactInv
<1>3. CASE \E i \in Interfaces, k \in Nat : Reaching(plan, i, k) # {} /\ row = Row(Bucket(plan, cutoff, i, k))
  <2>1. PICK i \in Interfaces, k \in Nat : Reaching(plan, i, k) # {} /\ row = Row(Bucket(plan, cutoff, i, k))
    BY <1>3
  <2>2. PICK new : new = Bucket(plan, cutoff, i, k)
    OBVIOUS
  <2>3. PICK part : part = Unsplit(Reaching(plan, i, k), cutoff)
    OBVIOUS
  <2>4. Measures(new, part)
    BY <1>1, <2>1, <2>2, <2>3, BucketMeasures
  <2>5. part \subseteq recorded.samples
    <3>1. \A s \in part : s \in samples /\ s.exact
      BY <1>1, <2>3, WholePiece
    <3> QED BY <3>1 DEF ExactInv
  <2>6. CASE ~Had(new)
    BY <2>1, <2>2, <2>4, <2>5, <2>6 DEF Row
  <2>7. CASE Had(new)
    <3>1. PICK old : old = Old(new)
      OBVIOUS
    <3>2. /\ old \in rollups /\ Same(old, new)
          /\ row.exact = old.exact + new.exact
          /\ row.exact_ms = old.exact_ms + new.exact_ms
      <4>1. row = Row(new)
        BY <2>1, <2>2
      <4>2. /\ Old(new) \in rollups /\ Same(Old(new), new)
            /\ Row(new).exact = Old(new).exact + new.exact
            /\ Row(new).exact_ms = Old(new).exact_ms + new.exact_ms
        BY <1>1, <2>1, <2>2, <2>7, RowAdds
      <4> QED BY <3>1, <4>1, <4>2
    <3>3. /\ row.iface = i /\ row.start = BucketSize * k /\ row.end = new.end /\ row.end \in Nat
      <4>1. row = Row(new)
        BY <2>1, <2>2
      <4> QED BY <1>1, <2>1, <2>2, <4>1, RowFields
    <3>4. /\ old.start = new.start /\ old.iface = i /\ old.end \in Nat /\ old.end < new.end
          /\ \A s \in Reaching(plan, i, k) : old.end <= PieceStart(s, k)
      BY <1>1, <2>1, <2>2, <3>2, AddedAfter
    <3>5. new.iface = i /\ new.start = BucketSize * k
      BY <1>1, <2>1, <2>2, BucketIsRow
    <3>6. PICK was \in SUBSET recorded.samples : Measures(old, was)
      BY <3>2 DEF ExactInv
    <3>7. \A z \in Samples : z.start \in Nat /\ z.end \in Nat
      BY RowTimes DEF Fields
    <3>8. \A s \in part : old.end <= s.start
      <4> SUFFICES ASSUME NEW s \in part PROVE old.end <= s.start
        OBVIOUS
      <4>1. s \in Reaching(plan, i, k) /\ PieceStart(s, k) = s.start
        BY <1>1, <2>3, WholePiece
      <4> QED BY <3>4, <4>1
    <3>9. was \cap part = {}
      <4> SUFFICES ASSUME NEW s \in was, s \in part PROVE FALSE
        OBVIOUS
      <4>1. s \in Samples /\ s.start < s.end /\ s.end <= old.end
        BY <3>6 DEF Measures
      <4> QED BY <3>4, <3>7, <3>8, <4>1
    <3> DEFINE whole == was \cup part
    <3>10. \A s \in whole : /\ s \in Samples /\ s.iface = row.iface
                            /\ row.start <= s.start /\ s.start < s.end /\ s.end <= row.end
      <4>1. \A s \in part : /\ s \in Samples /\ s.iface = row.iface
                            /\ row.start <= s.start /\ s.start < s.end /\ s.end <= row.end
        BY <2>4, <3>3, <3>5 DEF Measures
      <4>2. \A s \in was : /\ s \in Samples /\ s.iface = row.iface
                           /\ row.start <= s.start /\ s.start < s.end /\ s.end <= row.end
        <5> SUFFICES ASSUME NEW s \in was
                     PROVE  /\ s \in Samples /\ s.iface = row.iface
                            /\ row.start <= s.start /\ s.start < s.end /\ s.end <= row.end
          OBVIOUS
        <5>1. /\ s \in Samples /\ s.iface = old.iface
              /\ old.start <= s.start /\ s.start < s.end /\ s.end <= old.end
          BY <3>6 DEF Measures
        <5>2. s.start \in Nat /\ s.end \in Nat
          BY <3>7, <5>1
        <5> QED BY <3>3, <3>4, <3>5, <5>1, <5>2
      <4> QED BY <4>1, <4>2
    <3>11. /\ IsFiniteSet(was) /\ IsFiniteSet(part) /\ was \subseteq Samples /\ part \subseteq Samples
           /\ old.exact = SumFunction(BytesOf(was)) /\ old.exact_ms = SumFunction(LengthsOf(was))
           /\ new.exact = SumFunction(BytesOf(part)) /\ new.exact_ms = SumFunction(LengthsOf(part))
      BY <2>4, <3>6 DEF Measures
    <3>12. /\ IsFiniteSet(whole)
           /\ SumFunction(BytesOf(whole)) = SumFunction(BytesOf(was)) + SumFunction(BytesOf(part))
           /\ SumFunction(LengthsOf(whole)) = SumFunction(LengthsOf(was)) + SumFunction(LengthsOf(part))
      BY <3>9, <3>11, SumsOfSamples, FS_Union
    <3>13. whole \in SUBSET recorded.samples
      BY <2>5, <3>6
    <3> HIDE DEF whole
    <3>14. Measures(row, whole)
      BY <3>2, <3>10, <3>11, <3>12 DEF Measures
    <3> QED BY <3>13, <3>14
  <2> QED BY <2>6, <2>7
<1> QED BY <1>1, <1>2, <1>3, RowAfter

(* That exact bytes are recorded samples is inductive.                      *)
LEMMA ExactStep == StoreInv /\ ExactInv /\ [Next]_vars => ExactInv'
<1> SUFFICES ASSUME StoreInv, ExactInv, [Next]_vars PROVE ExactInv'
  OBVIOUS
<1>1. ASSUME NEW elapsed \in PollTimes, Poll(elapsed) PROVE ExactInv'
  <2>1. /\ rollups' = rollups
        /\ recorded.samples \subseteq recorded'.samples
        /\ \A s \in samples' : s \in samples \/ s \in recorded'.samples
    BY <1>1 DEF Poll
  <2> QED BY <2>1 DEF ExactInv
<1>2. CASE Rollup
  <2>1. RawCutoff \in Nat /\ TypeOK /\ SamplesApart /\ recorded' = recorded
    BY <1>2, CutoffsAreTimes DEF StoreInv, Rollup
  <2>2. PICK cutoff \in Nat : cutoff = RawCutoff
    BY <2>1
  <2>3. PICK plan : plan = Plan(cutoff)
    OBVIOUS
  <2>4. Consumes(plan)
    BY <2>1, <2>3, PlanConsumes
  <2>5. ~Refused(plan, Filled(plan, cutoff))
    BY <2>4, NotRefused
  <2>6. RolledUp(plan, Filled(plan, cutoff))
    BY <1>2, <2>2, <2>3, <2>5 DEF Rollup
  <2>7. samples' = Left(plan) /\ rollups' = Updated(Filled(plan, cutoff))
    BY <2>6, RolledUpIs
  <2>8. \A s \in samples' : s.exact => s \in recorded'.samples
    <3> SUFFICES ASSUME NEW r \in Left(plan), r.exact PROVE r \in recorded.samples
      BY <2>1, <2>7
    <3>1. r \in samples \/ \E s \in Cut(plan) : r = Remainder(s, plan[s])
      BY DEF Left
    <3>2. r \in samples
      BY <2>1, <2>4, <3>1, RemainderFields
    <3> QED BY <3>2 DEF ExactInv
  <2>9. \A row \in rollups' : \E whole \in SUBSET recorded.samples : Measures(row, whole)
    BY <2>3, <2>7, RollupKeepsExact
  <2> QED BY <2>1, <2>8, <2>9 DEF ExactInv
<1>3. ASSUME samples' \subseteq samples, rollups' \subseteq rollups, recorded' = recorded
      PROVE  ExactInv'
  BY <1>3 DEF ExactInv
<1>4. ASSUME NEW k \in Retentions, Configure(k) PROVE ExactInv'
  BY <1>3, <1>4 DEF Configure, stored
<1>5. CASE FailRollup
  BY <1>3, <1>5 DEF FailRollup, stored
<1>6. CASE Prune
  BY <1>3, <1>6, KeepsSome DEF Prune
<1>7. CASE SkipPrune
  BY <1>3, <1>7 DEF SkipPrune, stored
<1>8. CASE UNCHANGED vars
  BY <1>3, <1>8 DEF vars, stored
<1> QED BY <1>1, <1>2, <1>4, <1>5, <1>6, <1>7, <1>8 DEF Next

(* The invariant gives the property.                                        *)
LEMMA MeasuredExact == StoreInv /\ ExactInv => ExactWasMeasured
<1> SUFFICES ASSUME StoreInv, ExactInv, NEW row \in rollups
             PROVE  \E whole \in SUBSET {s \in recorded.samples :
                          /\ s.iface = row.iface
                          /\ s.start >= row.start
                          /\ s.end <= row.start + BucketSize} :
                      /\ row.exact = SumFunction([s \in whole |-> s.bytes])
                      /\ row.exact_ms = SumFunction([s \in whole |-> s.end - s.start])
  BY DEF ExactWasMeasured
<1>1. PICK whole \in SUBSET recorded.samples : Measures(row, whole)
  BY DEF ExactInv
<1>2. row.start \in Nat /\ row.end \in Nat /\ row.end <= row.start + BucketSize /\ BucketSize \in Nat
  <2>1. row \in Rollups /\ IsBucketRow(row)
    BY DEF StoreInv, TypeOK, Rolled
  <2> QED BY <2>1, RowTimes, HistoryConstants DEF Fields, IsBucketRow
<1>3. \A s \in whole : s.iface = row.iface /\ s.start >= row.start /\ s.end <= row.start + BucketSize
  <2>1. \A s \in whole : s \in Samples /\ s.iface = row.iface /\ row.start <= s.start /\ s.end <= row.end
    BY <1>1 DEF Measures
  <2>2. \A s \in Samples : s.start \in Nat /\ s.end \in Nat
    BY RowTimes DEF Fields
  <2> QED BY <1>2, <2>1, <2>2
<1>4. /\ row.exact = SumFunction([s \in whole |-> s.bytes])
      /\ row.exact_ms = SumFunction([s \in whole |-> s.end - s.start])
  BY <1>1 DEF Measures, BytesOf, LengthsOf
<1> QED BY <1>3, <1>4

(* What a bucket calls exact is the sum of samples that were recorded as a  *)
(* whole inside it, whatever was split and merged since                     *)
(* (rollup_exact_samples_batch, its ON CONFLICT clause).                    *)
THEOREM ExactIsMeasured == Spec => []ExactWasMeasured
<1>1. Init => ExactInv
  BY DEF Init, ExactInv
<1>2. (StoreInv /\ ExactInv) /\ [Next]_vars => (StoreInv /\ ExactInv)'
  BY StoreStep, ExactStep
<1> QED BY <1>1, <1>2, StoreStarts, MeasuredExact, PTL DEF Spec

-----------------------------------------------------------------------------
(* Totals. What a query counts between two boundaries is what the rows hold *)
(* before the one and not before the other, so a rollup is compared         *)
(* boundary by boundary: bucket by bucket for the rows, and sample by       *)
(* sample for what is consumed.                                             *)

(* Sums are subtracted element by element.                                  *)
LEMMA SumSubtracts ==
    ASSUME NEW S, IsFiniteSet(S), NEW f, NEW g, NEW h,
           \A s \in S : f[s] \in Int /\ g[s] \in Int /\ h[s] = f[s] - g[s]
    PROVE  /\ SumFunctionOnSet(h, S) = SumFunctionOnSet(f, S) - SumFunctionOnSet(g, S)
           /\ SumFunctionOnSet(f, S) \in Int /\ SumFunctionOnSet(g, S) \in Int
<1>1. \A s \in S : h[s] \in Int /\ g[s] \in Int /\ f[s] = h[s] + g[s]
  OBVIOUS
<1>2. SumFunctionOnSet(f, S) = SumFunctionOnSet(h, S) + SumFunctionOnSet(g, S)
  BY <1>1, SumAdds
<1>3. SumFunctionOnSet(f, S) \in Int /\ SumFunctionOnSet(g, S) \in Int /\ SumFunctionOnSet(h, S) \in Int
  BY <1>1, SumRemove
<1> QED BY <1>2, <1>3

(* A slice of a duration is no longer than the range it is cut from. *)
LEMMA SliceFits ==
    ASSUME NEW v \in Nat, NEW d \in Nat \ {0}, NEW f \in Nat, NEW t \in Nat, f <= t, v <= d
    PROVE  Slice(v, d, f, t) <= t - f
<1> DEFINE q == (v * f) \div d
           z == t - f
<1>1. v * f \in Nat /\ v * t \in Nat /\ z \in Nat
  OBVIOUS
<1>2. q \in Int /\ v * f < d * q + d
  BY <1>1, QuotientFits
<1>3. v * t = v * f + v * z
  OBVIOUS
<1>4. v * z <= d * z
  <2>1. z * v <= z * d
    BY <1>1, ProductKeepsOrder
  <2>2. z * v = v * z /\ z * d = d * z
    BY <1>1
  <2> QED BY <2>1, <2>2
<1>5. v * t < d * q + d + d * z
  <2>1. v * z \in Int /\ d * z \in Int /\ d * q \in Int
    BY <1>1, <1>2
  <2> HIDE DEF q, z
  <2> QED BY <1>1, <1>2, <1>3, <1>4, <2>1
<1> DEFINE n == q + z + 1
<1>6. n \in Int /\ d * n = d * q + d + d * z
  <2> HIDE DEF q, z
  <2> QED BY <1>1, <1>2 DEF n
<1>7. (v * t) \div d < n
  <2> HIDE DEF n, q, z
  <2> QED BY <1>1, <1>5, <1>6, QuotientIs
<1>8. (v * t) \div d \in Int
  BY <1>1, QuotientFits
<1> HIDE DEF q, z
<1>9. (v * t) \div d - q <= z
  BY <1>1, <1>2, <1>7, <1>8 DEF n
<1>10. Slice(v, d, f, t) = (v * t) \div d - q
  BY DEF Slice, q
<1> QED BY <1>9, <1>10 DEF z

(* How much of v, spread over a to b, comes before x. *)
Clamp(x, a, b) == IF x <= a THEN a ELSE IF x <= b THEN x ELSE b
Part(v, a, b, d, x) == (v * (Clamp(x, a, b) - a)) \div d

(* Nothing comes before the start.                                          *)
LEMMA PartStarts ==
    ASSUME NEW v \in Nat, NEW a \in Nat, NEW b \in Nat, NEW d \in Nat \ {0}, a <= b, NEW x \in Nat
    PROVE  Part(v, a, b, d, x) \in Nat /\ (x <= a => Part(v, a, b, d, x) = 0)
<1> DEFINE y == Clamp(x, a, b) - a
<1>1. y \in Nat /\ (x <= a => y = 0)
  BY DEF Clamp
<1>2. Part(v, a, b, d, x) = (v * y) \div d
  BY DEF Part
<1> HIDE DEF y
<1>3. v * y \in Nat
  BY <1>1
<1>4. (v * y) \div d \in Nat
  BY <1>3, QuotientFits
<1>5. x <= a => (v * y) \div d = 0
  <2> SUFFICES ASSUME x <= a PROVE (v * y) \div d = 0
    OBVIOUS
  <2>1. v * y = d * 0
    BY <1>1
  <2>2. (d * 0) \div d = 0
    BY QuotientOfMultiple
  <2> QED BY <2>1, <2>2
<1> QED BY <1>2, <1>4, <1>5

(* Between start and end the part is proportional.                          *)
LEMMA PartInside ==
    ASSUME NEW v \in Nat, NEW a \in Nat, NEW b \in Nat, NEW d \in Nat \ {0}, NEW x \in Nat, a <= x, x <= b
    PROVE  Part(v, a, b, d, x) = (v * (x - a)) \div d
<1>1. Clamp(x, a, b) = x
  BY DEF Clamp
<1> QED BY <1>1 DEF Part

(* Everything comes before the end.                                         *)
LEMMA PartOfAll ==
    ASSUME NEW v \in Nat, NEW a \in Nat, NEW b \in Nat, NEW d \in Nat \ {0}, d = b - a,
           NEW x \in Nat, b <= x
    PROVE  Part(v, a, b, d, x) = v
<1>1. Clamp(x, a, b) = b
  BY DEF Clamp
<1>2. Part(v, a, b, d, x) = (v * d) \div d
  BY <1>1 DEF Part
<1>3. (v * d) \div d = v
  BY QuotientOfMultiple
<1> QED BY <1>2, <1>3

BytesUpto(c, x) == Part(c.exact + c.estimated, c.start, c.end, c.end - c.start, x)
MsUpto(c, x)    == Part(CoveredMs(c), c.start, c.end, c.end - c.start, x)

(* The parts of a good row.                                                 *)
LEMMA UptoValues ==
    ASSUME NEW c, GoodRow(c), NEW x \in Nat
    PROVE  /\ BytesUpto(c, x) \in Nat /\ MsUpto(c, x) \in Nat
           /\ x <= c.start => BytesUpto(c, x) = 0 /\ MsUpto(c, x) = 0
           /\ c.end <= x => BytesUpto(c, x) = c.exact + c.estimated /\ MsUpto(c, x) = CoveredMs(c)
           /\ c.start <= x /\ x <= c.end =>
                /\ BytesUpto(c, x) = ((c.exact + c.estimated) * (x - c.start)) \div (c.end - c.start)
                /\ MsUpto(c, x) = (CoveredMs(c) * (x - c.start)) \div (c.end - c.start)
<1> DEFINE v == c.exact + c.estimated
           m == CoveredMs(c)
           a == c.start
           b == c.end
           d == c.end - c.start
<1>1. v \in Nat /\ m \in Nat /\ a \in Nat /\ b \in Nat /\ d \in Nat \ {0} /\ a <= b /\ d = b - a
  BY DEF GoodRow
<1>2. BytesUpto(c, x) = Part(v, a, b, d, x) /\ MsUpto(c, x) = Part(m, a, b, d, x)
  BY DEF BytesUpto, MsUpto
<1>3. v = c.exact + c.estimated /\ m = CoveredMs(c) /\ a = c.start /\ b = c.end /\ d = c.end - c.start
  OBVIOUS
<1> HIDE DEF v, m, a, b, d
<1>4. /\ Part(v, a, b, d, x) \in Nat
      /\ x <= a => Part(v, a, b, d, x) = 0
      /\ a <= x /\ x <= b => Part(v, a, b, d, x) = (v * (x - a)) \div d
      /\ b <= x => Part(v, a, b, d, x) = v
  <2>1. v \in Nat /\ m \in Nat /\ a \in Nat /\ b \in Nat /\ d \in Nat \ {0} /\ a <= b
    BY <1>1
  <2>2. Part(v, a, b, d, x) \in Nat /\ (x <= a => Part(v, a, b, d, x) = 0)
    BY <2>1, PartStarts
  <2>3. a <= x /\ x <= b => Part(v, a, b, d, x) = (v * (x - a)) \div d
    BY <2>1, PartInside
  <2>4. b <= x => Part(v, a, b, d, x) = v
    BY <1>1, PartOfAll
  <2> QED BY <2>2, <2>3, <2>4
<1>5. /\ Part(m, a, b, d, x) \in Nat
      /\ x <= a => Part(m, a, b, d, x) = 0
      /\ a <= x /\ x <= b => Part(m, a, b, d, x) = (m * (x - a)) \div d
      /\ b <= x => Part(m, a, b, d, x) = m
  <2>1. v \in Nat /\ m \in Nat /\ a \in Nat /\ b \in Nat /\ d \in Nat \ {0} /\ a <= b
    BY <1>1
  <2>2. Part(m, a, b, d, x) \in Nat /\ (x <= a => Part(m, a, b, d, x) = 0)
    BY <2>1, PartStarts
  <2>3. a <= x /\ x <= b => Part(m, a, b, d, x) = (m * (x - a)) \div d
    BY <2>1, PartInside
  <2>4. b <= x => Part(m, a, b, d, x) = m
    BY <1>1, PartOfAll
  <2> QED BY <2>2, <2>3, <2>4
<1> QED BY <1>2, <1>3, <1>4, <1>5

(* What a query counts of a row is the difference of its parts. *)
LEMMA SegmentIsDifference ==
    ASSUME NEW c, GoodRow(c), NEW from \in Nat, NEW to \in Nat, from <= to, c.end > from, c.start < to
    PROVE  /\ Segment(c, from, to).exact + Segment(c, from, to).estimated =
                BytesUpto(c, to) - BytesUpto(c, from)
           /\ CoveredMs(Segment(c, from, to)) = MsUpto(c, to) - MsUpto(c, from)
<1> DEFINE a == Greater(c.start, from)
           b == Lesser(c.end, to)
           v == c.exact + c.estimated
           m == CoveredMs(c)
           d == c.end - c.start
           f == a - c.start
           t == b - c.start
           part(value) == Slice(value, d, f, t)
<1>1. /\ c.start \in Nat /\ c.end \in Nat /\ c.start < c.end /\ v \in Nat /\ m \in Nat /\ m <= d
      /\ c.exact \in Nat /\ c.estimated \in Nat /\ c.exact_ms \in Nat /\ c.estimated_ms \in Nat
      /\ m = c.exact_ms + c.estimated_ms /\ d \in Nat \ {0}
  BY DEF GoodRow, CoveredMs
<1>2. /\ a = (IF c.start <= from THEN from ELSE c.start)
      /\ b = (IF c.end <= to THEN c.end ELSE to)
  BY DEF Greater, Lesser
<1>3. /\ a \in Nat /\ b \in Nat /\ f \in Nat /\ t \in Nat /\ f <= t /\ t <= d
      /\ b - a = t - f
  BY <1>1, <1>2
<1>4. /\ BytesUpto(c, from) = (v * f) \div d /\ MsUpto(c, from) = (m * f) \div d
  <2>1. CASE c.start <= from
    <3>1. f = from - c.start /\ c.start <= from /\ from <= c.end
      BY <1>1, <1>2, <2>1
    <3>2. /\ BytesUpto(c, from) = (v * (from - c.start)) \div d
          /\ MsUpto(c, from) = (m * (from - c.start)) \div d
      BY <3>1, UptoValues
    <3> QED BY <3>1, <3>2
  <2>2. CASE ~(c.start <= from)
    <3>1. f = 0 /\ from <= c.start
      BY <1>1, <1>2, <2>2
    <3>2. BytesUpto(c, from) = 0 /\ MsUpto(c, from) = 0
      BY <3>1, UptoValues
    <3>3. v * f = d * 0 /\ m * f = d * 0 /\ (d * 0) \div d = 0
      <4> HIDE DEF v, m, d, f
      <4> QED BY <1>1, <3>1, QuotientOfMultiple
    <3> QED BY <3>2, <3>3
  <2> QED BY <2>1, <2>2
<1>5. /\ BytesUpto(c, to) = (v * t) \div d /\ MsUpto(c, to) = (m * t) \div d
  <2>1. CASE to <= c.end
    <3>1. t = to - c.start /\ c.start <= to /\ to <= c.end
      BY <1>1, <1>2, <2>1
    <3>2. /\ BytesUpto(c, to) = (v * (to - c.start)) \div d
          /\ MsUpto(c, to) = (m * (to - c.start)) \div d
      BY <3>1, UptoValues
    <3> QED BY <3>1, <3>2
  <2>2. CASE ~(to <= c.end)
    <3>1. t = d /\ c.end <= to
      BY <1>1, <1>2, <2>2
    <3>2. BytesUpto(c, to) = v /\ MsUpto(c, to) = m
      BY <3>1, UptoValues
    <3>3. (v * d) \div d = v /\ (m * d) \div d = m
      <4> HIDE DEF v, m, d, f
      <4> QED BY <1>1, QuotientOfMultiple
    <3> QED BY <3>1, <3>2, <3>3
  <2> QED BY <2>1, <2>2
<1>6. /\ part(v) = BytesUpto(c, to) - BytesUpto(c, from)
      /\ part(m) = MsUpto(c, to) - MsUpto(c, from)
  BY <1>4, <1>5 DEF Slice
<1>7. /\ part(m) \in Nat /\ part(v) \in Nat /\ part(m) <= t - f
      /\ (f = 0 /\ t = d => part(m) = m /\ part(v) = v)
  <2> HIDE DEF v, m, d, f, t
  <2>1. Slice(m, d, f, t) \in Nat /\ Slice(v, d, f, t) \in Nat
    BY <1>1, <1>3, SliceBounds
  <2>2. Slice(m, d, f, t) <= t - f
    BY <1>1, <1>3, SliceFits
  <2>3. Slice(m, d, 0, d) = m /\ Slice(v, d, 0, d) = v
    <3>1. 0 \in Nat /\ d \in Nat /\ d \in Nat \ {0} /\ 0 <= d /\ d <= d
      BY <1>1
    <3> QED BY <1>1, <3>1, SliceBounds
  <2> QED BY <2>1, <2>2, <2>3
<1>8. CASE a = c.start /\ b = c.end
  <2>1. /\ Segment(c, from, to).exact_ms = c.exact_ms
        /\ Segment(c, from, to).estimated_ms = c.estimated_ms
        /\ Segment(c, from, to).exact = c.exact
        /\ Segment(c, from, to).estimated = c.estimated
    BY <1>8 DEF Segment
  <2>2. f = 0 /\ t = d
    BY <1>1, <1>8
  <2>3. /\ Segment(c, from, to).exact + Segment(c, from, to).estimated = v
        /\ CoveredMs(Segment(c, from, to)) = m
    BY <1>1, <2>1 DEF CoveredMs
  <2> HIDE DEF part, v, m, d, f, t
  <2> QED BY <1>6, <1>7, <2>2, <2>3
<1>9. CASE ~(a = c.start /\ b = c.end)
  <2>1. /\ Segment(c, from, to).exact_ms = 0
        /\ Segment(c, from, to).estimated_ms = Lesser(part(m), b - a)
        /\ Segment(c, from, to).exact = 0
        /\ Segment(c, from, to).estimated = part(v)
    BY <1>9 DEF Segment
  <2> HIDE DEF part, v, m, d, f, t, a, b
  <2>2. Lesser(part(m), b - a) = part(m)
    BY <1>3, <1>7 DEF Lesser
  <2>3. /\ Segment(c, from, to).exact + Segment(c, from, to).estimated = part(v)
        /\ CoveredMs(Segment(c, from, to)) = part(m)
    BY <1>7, <2>1, <2>2 DEF CoveredMs
  <2> QED BY <1>6, <2>3
<1> QED BY <1>8, <1>9

BytesBefore(rows, x) == SumFunctionOnSet([c \in rows |-> BytesUpto(c, x)], rows)
MsBefore(rows, x)    == SumFunctionOnSet([c \in rows |-> MsUpto(c, x)], rows)

(* The totals of a range are what comes before its end and not before its   *)
(* start.                                                                   *)
LEMMA TotalsAreDifferences ==
    ASSUME NEW rows, GoodRows(rows), NEW from \in Nat, NEW to \in Nat, from <= to
    PROVE  /\ Totals(rows, from, to).bytes = BytesBefore(rows, to) - BytesBefore(rows, from)
           /\ Totals(rows, from, to).covered_ms = MsBefore(rows, to) - MsBefore(rows, from)
           /\ BytesBefore(rows, to) \in Int /\ BytesBefore(rows, from) \in Int
           /\ MsBefore(rows, to) \in Int /\ MsBefore(rows, from) \in Int
<1> DEFINE o == Overlapping(rows, from, to)
           sb == SegBytes(rows, from, to)
           sm == SegMs(rows, from, to)
           bt == [c \in rows |-> BytesUpto(c, to)]
           bf == [c \in rows |-> BytesUpto(c, from)]
           mt == [c \in rows |-> MsUpto(c, to)]
           mf == [c \in rows |-> MsUpto(c, from)]
           db == [c \in rows |-> BytesUpto(c, to) - BytesUpto(c, from)]
           dm == [c \in rows |-> MsUpto(c, to) - MsUpto(c, from)]
<1>1. IsFiniteSet(rows) /\ o \in SUBSET rows /\ \A c \in rows : GoodRow(c)
  BY DEF GoodRows, Overlapping
<1>2. /\ \A c \in rows : /\ bt[c] \in Int /\ bf[c] \in Int /\ db[c] = bt[c] - bf[c] /\ db[c] \in Int
      /\ \A c \in rows : /\ mt[c] \in Int /\ mf[c] \in Int /\ dm[c] = mt[c] - mf[c] /\ dm[c] \in Int
  <2>1. \A c \in rows : BytesUpto(c, to) \in Nat /\ BytesUpto(c, from) \in Nat
                        /\ MsUpto(c, to) \in Nat /\ MsUpto(c, from) \in Nat
    BY <1>1, UptoValues
  <2> QED BY <2>1
<1>3. \A c \in o : sb[c] \in Int /\ sb[c] = db[c] /\ sm[c] \in Int /\ sm[c] = dm[c]
  <2> SUFFICES ASSUME NEW c \in o PROVE sb[c] = db[c] /\ sm[c] = dm[c]
    BY <1>1, <1>2
  <2>1. GoodRow(c) /\ c.end > from /\ c.start < to /\ c \in rows
    BY <1>1 DEF Overlapping
  <2>2. /\ Segment(c, from, to).exact + Segment(c, from, to).estimated =
             BytesUpto(c, to) - BytesUpto(c, from)
        /\ CoveredMs(Segment(c, from, to)) = MsUpto(c, to) - MsUpto(c, from)
    <3> HIDE DEF o
    <3> QED BY <2>1, SegmentIsDifference
  <2> QED BY <2>1, <2>2 DEF SegBytes, SegMs
<1>4. \A c \in rows \ o : db[c] = 0 /\ dm[c] = 0
  <2> SUFFICES ASSUME NEW c \in rows, c \notin o PROVE db[c] = 0 /\ dm[c] = 0
    OBVIOUS
  <2>1. GoodRow(c) /\ c.start \in Nat /\ c.end \in Nat /\ c.start < c.end
    BY <1>1 DEF GoodRow
  <2>2. c.end <= from \/ to <= c.start
    BY <2>1 DEF Overlapping
  <2>3. /\ BytesUpto(c, to) = BytesUpto(c, from) /\ MsUpto(c, to) = MsUpto(c, from)
        /\ BytesUpto(c, to) \in Nat /\ MsUpto(c, to) \in Nat
    <3>1. CASE c.end <= from
      <4>1. c.end <= to
        BY <2>1, <3>1
      <4> QED BY <2>1, <3>1, <4>1, UptoValues
    <3>2. CASE to <= c.start
      <4>1. from <= c.start
        BY <2>1, <3>2
      <4> QED BY <2>1, <3>2, <4>1, UptoValues
    <3> QED BY <2>2, <3>1, <3>2
  <2> QED BY <2>3
<1>5. /\ Totals(rows, from, to).bytes = SumFunctionOnSet(sb, o)
      /\ Totals(rows, from, to).covered_ms = SumFunctionOnSet(sm, o)
  BY TotalsAre
<1>6. /\ BytesBefore(rows, to) = SumFunctionOnSet(bt, rows) /\ BytesBefore(rows, from) = SumFunctionOnSet(bf, rows)
      /\ MsBefore(rows, to) = SumFunctionOnSet(mt, rows) /\ MsBefore(rows, from) = SumFunctionOnSet(mf, rows)
  BY DEF BytesBefore, MsBefore
<1> HIDE DEF o, sb, sm, bt, bf, mt, mf, db, dm
<1>7. IsFiniteSet(o)
  BY <1>1, FS_Subset
<1>8. SumFunctionOnSet(sb, o) = SumFunctionOnSet(db, o) /\ SumFunctionOnSet(sm, o) = SumFunctionOnSet(dm, o)
  BY <1>3, <1>7, SumSame
<1>9. /\ SumFunctionOnSet(db, rows) = SumFunctionOnSet(db, o)
      /\ SumFunctionOnSet(dm, rows) = SumFunctionOnSet(dm, o)
  <2>1. (\A c \in rows : db[c] \in Int) /\ (\A c \in rows : dm[c] \in Int)
    BY <1>2
  <2>2. (\A c \in rows \ o : db[c] = 0) /\ (\A c \in rows \ o : dm[c] = 0)
    BY <1>4
  <2> QED BY <1>1, <2>1, <2>2, SumOfPart
<1>10. /\ SumFunctionOnSet(db, rows) = SumFunctionOnSet(bt, rows) - SumFunctionOnSet(bf, rows)
       /\ SumFunctionOnSet(bt, rows) \in Int /\ SumFunctionOnSet(bf, rows) \in Int
  <2>1. \A c \in rows : bt[c] \in Int /\ bf[c] \in Int /\ db[c] = bt[c] - bf[c]
    BY <1>2
  <2> QED BY <1>1, <2>1, SumSubtracts
<1>11. /\ SumFunctionOnSet(dm, rows) = SumFunctionOnSet(mt, rows) - SumFunctionOnSet(mf, rows)
       /\ SumFunctionOnSet(mt, rows) \in Int /\ SumFunctionOnSet(mf, rows) \in Int
  <2>1. \A c \in rows : mt[c] \in Int /\ mf[c] \in Int /\ dm[c] = mt[c] - mf[c]
    BY <1>2
  <2> QED BY <1>1, <2>1, SumSubtracts
<1> QED BY <1>5, <1>6, <1>8, <1>9, <1>10, <1>11

RollupsOf(rr, i) == {r \in rr : r.iface = i}
RowsOf(ss, rr, i) == {c \in rr \cup {Contribution(s) : s \in ss} : c.iface = i}

(* The columns of a sample in the form of a row.                            *)
LEMMA ContributionOf ==
    ASSUME NEW s \in Samples
    PROVE  /\ Contribution(s).iface = s.iface /\ Contribution(s).start = s.start
           /\ Contribution(s).end = s.end /\ Contribution(s).source = "sample"
           /\ Contribution(s).exact + Contribution(s).estimated = s.bytes
           /\ CoveredMs(Contribution(s)) = s.end - s.start
<1>1. s.bytes \in Nat /\ s.exact \in BOOLEAN /\ s.start \in Nat /\ s.end \in Nat
  BY DEF Samples, Times
<1>2. /\ Contribution(s).exact_ms = (IF s.exact THEN s.end - s.start ELSE 0)
      /\ Contribution(s).estimated_ms = (IF s.exact THEN 0 ELSE s.end - s.start)
      /\ Contribution(s).exact = (IF s.exact THEN s.bytes ELSE 0)
      /\ Contribution(s).estimated = (IF s.exact THEN 0 ELSE s.bytes)
  BY DEF Contribution
<1>3. /\ Contribution(s).iface = s.iface /\ Contribution(s).start = s.start
      /\ Contribution(s).end = s.end /\ Contribution(s).source = "sample"
  BY DEF Contribution
<1>4. /\ Contribution(s).exact + Contribution(s).estimated = s.bytes
      /\ Contribution(s).exact_ms + Contribution(s).estimated_ms = s.end - s.start
  BY <1>1, <1>2
<1> QED BY <1>3, <1>4 DEF CoveredMs

(* A sum over the rows of a query, by the tables they come from. *)
LEMMA RowsSplit ==
    ASSUME NEW ss, Apart(ss), ss \subseteq Samples,
           NEW rr, IsFiniteSet(rr), rr \subseteq Rollups, NEW i,
           NEW w, \A c \in RowsOf(ss, rr, i) : w[c] \in Int,
           NEW f, \A s \in ss : f[s] = IF s.iface = i THEN w[Contribution(s)] ELSE 0
    PROVE  /\ SumFunctionOnSet(w, RowsOf(ss, rr, i)) =
                SumFunctionOnSet(w, RollupsOf(rr, i)) + SumFunctionOnSet(f, ss)
           /\ SumFunctionOnSet(w, RollupsOf(rr, i)) \in Int
           /\ \A s \in ss : f[s] \in Int
<1> DEFINE mine == {s \in ss : s.iface = i}
           R == RollupsOf(rr, i)
           b == [s \in mine |-> Contribution(s)]
           C == {b[s] : s \in mine}
<1>1. /\ mine \in SUBSET ss /\ IsFiniteSet(ss) /\ R \in SUBSET rr
      /\ \A s, t \in mine : s.start < s.end /\ (s = t \/ s.end <= t.start \/ t.end <= s.start)
  BY DEF Apart, RollupsOf
<1>2. /\ \A s \in mine : b[s] = Contribution(s) /\ Contribution(s).start = s.start
                         /\ Contribution(s).iface = i /\ Contribution(s).source = "sample"
      /\ \A r \in R : r.source = "rollup" /\ r.iface = i /\ r \in rr
  <2>1. \A s \in mine : s \in Samples /\ s.iface = i
    OBVIOUS
  <2>2. \A r \in Rollups : r.source = "rollup"
    BY DEF Rollups
  <2> QED BY <2>1, <2>2, ContributionOf DEF RollupsOf
<1>3. RowsOf(ss, rr, i) = R \cup C
  <2>1. RowsOf(ss, rr, i) \subseteq R \cup C
    <3> SUFFICES ASSUME NEW c \in RowsOf(ss, rr, i) PROVE c \in R \cup C
      OBVIOUS
    <3>1. c.iface = i /\ (c \in rr \/ \E s \in ss : c = Contribution(s))
      BY DEF RowsOf
    <3>2. CASE c \in rr
      BY <3>1, <3>2 DEF RollupsOf
    <3>3. CASE \E s \in ss : c = Contribution(s)
      <4>1. PICK s \in ss : c = Contribution(s)
        BY <3>3
      <4>2. s \in mine
        BY <3>1, <4>1, ContributionOf
      <4>3. c = b[s]
        BY <4>1, <4>2
      <4> QED BY <4>2, <4>3
    <3> QED BY <3>1, <3>2, <3>3
  <2>2. R \subseteq RowsOf(ss, rr, i)
    BY DEF RowsOf, RollupsOf
  <2>3. C \subseteq RowsOf(ss, rr, i)
    <3> SUFFICES ASSUME NEW s \in mine PROVE b[s] \in RowsOf(ss, rr, i)
      OBVIOUS
    <3>1. b[s] = Contribution(s) /\ Contribution(s).iface = i
      BY <1>2
    <3>2. Contribution(s) \in {Contribution(t) : t \in ss}
      OBVIOUS
    <3> HIDE DEF b
    <3> QED BY <3>1, <3>2 DEF RowsOf
  <2> QED BY <2>1, <2>2, <2>3
<1>4. R \cap C = {}
  BY <1>2
<1>5. \A s, t \in mine : b[s] = b[t] => s = t
  <2> SUFFICES ASSUME NEW s \in mine, NEW t \in mine, b[s] = b[t] PROVE s = t
    OBVIOUS
  <2>1. s.start = t.start
    <3>1. Contribution(s) = Contribution(t)
      BY <1>2
    <3>2. Contribution(s).start = s.start /\ Contribution(t).start = t.start
      BY <1>2
    <3> QED BY <3>1, <3>2
  <2>2. s.start \in Nat /\ t.start \in Nat /\ s.end \in Nat /\ t.end \in Nat
    BY RowTimes DEF Fields
  <2>3. s.start < s.end /\ t.start < t.end /\ (s = t \/ s.end <= t.start \/ t.end <= s.start)
    BY <1>1
  <2> QED BY <2>1, <2>2, <2>3
<1>6. /\ \A s \in mine : f[s] \in Int /\ w[b[s]] = f[s]
      /\ \A s \in ss \ mine : f[s] = 0
      /\ \A s \in ss : f[s] \in Int
  <2>1. \A s \in mine : b[s] \in RowsOf(ss, rr, i)
    BY <1>3
  <2>2. \A s \in mine : w[b[s]] \in Int /\ f[s] = w[b[s]]
    BY <1>2, <2>1
  <2>3. \A s \in ss \ mine : f[s] = 0
    OBVIOUS
  <2>4. \A s \in ss : s \in mine \/ s \in ss \ mine
    OBVIOUS
  <2> HIDE DEF mine, b
  <2> QED BY <2>2, <2>3, <2>4
<1> HIDE DEF mine, R, b, C
<1>7. IsFiniteSet(mine) /\ IsFiniteSet(R)
  BY <1>1, FS_Subset
<1>8. IsFiniteSet(C) /\ SumFunctionOnSet(w, C) = SumFunctionOnSet(f, mine)
  <2>1. IsFiniteSet({b[s] : s \in mine}) /\ SumFunctionOnSet(w, {b[s] : s \in mine}) = SumFunctionOnSet(f, mine)
    BY <1>5, <1>6, <1>7, SumRenamed
  <2> QED BY <2>1 DEF C
<1>9. SumFunctionOnSet(f, ss) = SumFunctionOnSet(f, mine)
  BY <1>1, <1>6, SumOfPart
<1>10. \A c \in R \cup C : w[c] \in Int
  BY <1>3
<1>11. SumFunctionOnSet(w, R \cup C) = SumFunctionOnSet(w, R) + SumFunctionOnSet(w, C)
  BY <1>4, <1>7, <1>8, <1>10, SumOfUnion
<1>12. SumFunctionOnSet(w, R) \in Int
  <2>1. \A c \in R : w[c] \in Int
    BY <1>10
  <2> QED BY <1>7, <2>1, SumRemove
<1>13. SumFunctionOnSet(w, RowsOf(ss, rr, i)) = SumFunctionOnSet(w, R \cup C)
  BY <1>3
<1> QED BY <1>6, <1>8, <1>9, <1>11, <1>12, <1>13 DEF R

(* The rows of the buckets before bucket K, and that of bucket K. *)
Below(rr, i, K) == {r \in rr : r.iface = i /\ r.start < BucketSize * K}
AtBucket(rr, i, K) == {r \in rr : r.iface = i /\ r.start = BucketSize * K}

(* The rows before the next bucket are those before this one and its own.   *)
LEMMA BelowNext ==
    ASSUME NEW rr, Rolled(rr), rr \subseteq Rollups, NEW i, NEW K \in Nat,
           NEW w, \A r \in rr : w[r] \in Int
    PROVE  /\ SumFunctionOnSet(w, Below(rr, i, K + 1)) =
                SumFunctionOnSet(w, Below(rr, i, K)) + SumFunctionOnSet(w, AtBucket(rr, i, K))
           /\ SumFunctionOnSet(w, Below(rr, i, K)) \in Int
           /\ SumFunctionOnSet(w, AtBucket(rr, i, K)) \in Int
<1> DEFINE B == Below(rr, i, K)
           A == AtBucket(rr, i, K)
<1>1. IsFiniteSet(rr) /\ B \in SUBSET rr /\ A \in SUBSET rr
  BY DEF Rolled, Below, AtBucket
<1>2. BucketSize \in Nat \ {0} /\ BucketSize * K \in Nat /\ BucketSize * (K + 1) = BucketSize * K + BucketSize
  <2>1. BucketSize \in Nat \ {0}
    BY HistoryConstants
  <2> QED BY <2>1
<1>3. \A r \in rr : r.start < BucketSize * (K + 1) <=> r.start < BucketSize * K \/ r.start = BucketSize * K
  <2> SUFFICES ASSUME NEW r \in rr
               PROVE  r.start < BucketSize * (K + 1) <=> r.start < BucketSize * K \/ r.start = BucketSize * K
    OBVIOUS
  <2>1. PICK k \in Nat : r.start = BucketSize * k
    BY DEF Rolled, IsBucketRow
  <2>2. CASE k <= K
    <3>1. BucketSize * k <= BucketSize * K /\ BucketSize * k \in Nat
      BY <1>2, <2>2, ProductKeepsOrder
    <3> QED BY <1>2, <2>1, <3>1
  <2>3. CASE K + 1 <= k
    <3>1. BucketSize * (K + 1) <= BucketSize * k /\ BucketSize * k \in Nat
      BY <1>2, <2>3, ProductKeepsOrder
    <3> QED BY <1>2, <2>1, <3>1
  <2> QED BY <2>2, <2>3
<1>4. Below(rr, i, K + 1) = B \cup A
  BY <1>3 DEF Below, AtBucket
<1>5. B \cap A = {}
  <2> SUFFICES ASSUME NEW r \in B, r \in A PROVE FALSE
    OBVIOUS
  <2>1. r.start < BucketSize * K /\ r.start = BucketSize * K
    BY DEF Below, AtBucket
  <2> QED BY <1>2, <2>1
<1> HIDE DEF A, B
<1>6. IsFiniteSet(A) /\ IsFiniteSet(B)
  BY <1>1, FS_Subset
<1>7. (\A r \in B \cup A : w[r] \in Int) /\ (\A r \in B : w[r] \in Int) /\ (\A r \in A : w[r] \in Int)
  BY <1>1
<1>8. SumFunctionOnSet(w, B \cup A) = SumFunctionOnSet(w, B) + SumFunctionOnSet(w, A)
  BY <1>5, <1>6, <1>7, SumOfUnion
<1>9. SumFunctionOnSet(w, B) \in Int /\ SumFunctionOnSet(w, A) \in Int
  BY <1>6, <1>7, SumRemove
<1>10. SumFunctionOnSet(w, Below(rr, i, K + 1)) = SumFunctionOnSet(w, B \cup A)
  BY <1>4
<1> QED BY <1>8, <1>9, <1>10 DEF A, B

(* A bucket has one start.                                                  *)
LEMMA SameBucket ==
    ASSUME NEW k \in Nat, NEW l \in Nat, BucketSize * k = BucketSize * l
    PROVE  k = l
<1>1. BucketSize \in Nat /\ BucketSize > 0
  BY HistoryConstants
<1>2. (k < l => BucketSize * k < BucketSize * l) /\ (l < k => BucketSize * l < BucketSize * k)
  BY <1>1, ProductKeepsOrder
<1>3. BucketSize * k \in Nat /\ BucketSize * l \in Nat
  BY <1>1
<1> QED BY <1>2, <1>3

(* Every bucket that is reached is filled. *)
LEMMA ReachedIsFilled ==
    ASSUME TypeOK, SamplesApart, NEW plan, Consumes(plan), NEW cutoff, NEW i \in Interfaces, NEW k \in Nat,
           Reaching(plan, i, k) # {}
    PROVE  Bucket(plan, cutoff, i, k) \in Filled(plan, cutoff)
<1>1. PICK s \in Reaching(plan, i, k) : TRUE
  OBVIOUS
<1>2. s \in samples /\ plan[s] \in Nat /\ plan[s] <= s.end /\ s.end \in Nat /\ plan[s] > k * BucketSize
  BY <1>1, PieceBounds DEF Reaching
<1>3. s.end <= MaxTime /\ MaxTime \in Nat
  BY <1>2, SampleFields, HistoryConstants
<1>4. k * BucketSize = BucketSize * k /\ BucketSize * k \in Nat
  BY HistoryConstants
<1>5. BucketOf(MaxTime) \in Int /\ ~(BucketOf(MaxTime) < k)
  <2>1. MaxTime \in Int /\ k \in Int /\ ~(MaxTime < BucketSize * k)
    BY <1>2, <1>3, <1>4
  <2> QED BY <2>1, BucketOrder, BucketBounds
<1>6. k \in Buckets
  BY <1>5 DEF Buckets
<1>7. <<i, k>> \in {ik \in Interfaces \X Buckets : Reaching(plan, ik[1], ik[2]) # {}}
  BY <1>6
<1>8. Bucket(plan, cutoff, i, k) = Bucket(plan, cutoff, <<i, k>>[1], <<i, k>>[2])
  OBVIOUS
<1> QED BY <1>7, <1>8 DEF Filled

(* A batch changes the row of one bucket by what it adds to that bucket. *)
LEMMA BucketChange ==
    ASSUME StoreInv, NEW plan, Consumes(plan), NEW cutoff, NEW i \in Interfaces, NEW K \in Nat,
           NEW w, \A r \in rollups \cup Updated(Filled(plan, cutoff)) : w[r] \in Int,
           NEW n \in Int,
           Reaching(plan, i, K) = {} => n = 0,
           Reaching(plan, i, K) # {} =>
             w[Row(Bucket(plan, cutoff, i, K))] =
               (IF Had(Bucket(plan, cutoff, i, K)) THEN w[Old(Bucket(plan, cutoff, i, K))] ELSE 0) + n
    PROVE  SumFunctionOnSet(w, AtBucket(Updated(Filled(plan, cutoff)), i, K)) =
             SumFunctionOnSet(w, AtBucket(rollups, i, K)) + n
<1> DEFINE filled == Filled(plan, cutoff)
           rr == Updated(filled)
           new == Bucket(plan, cutoff, i, K)
<1>1. TypeOK /\ SamplesApart /\ Rolled(rollups) /\ Rolled(rr)
  BY UpdatedRows DEF StoreInv
<1>2. \A r \in rr : \/ r \in rollups /\ r \in Rest(filled)
                    \/ \E j \in Interfaces, k \in Nat :
                         /\ Reaching(plan, j, k) # {}
                         /\ r = Row(Bucket(plan, cutoff, j, k))
                         /\ r.iface = j /\ r.start = BucketSize * k
  <2> SUFFICES ASSUME NEW r \in rr
               PROVE  \/ r \in rollups /\ r \in Rest(filled)
                      \/ \E j \in Interfaces, k \in Nat :
                         /\ Reaching(plan, j, k) # {}
                         /\ r = Row(Bucket(plan, cutoff, j, k))
                         /\ r.iface = j /\ r.start = BucketSize * k
    OBVIOUS
  <2> QED BY RowAfter
<1>3. CASE Reaching(plan, i, K) = {}
  <2>1. ASSUME NEW r \in AtBucket(rr, i, K) PROVE r \in AtBucket(rollups, i, K)
    <3>1. r \in rr /\ r.iface = i /\ r.start = BucketSize * K
      BY <2>1 DEF AtBucket
    <3>2. ASSUME NEW j \in Interfaces, NEW k \in Nat, Reaching(plan, j, k) # {},
                 r.iface = j, r.start = BucketSize * k
          PROVE  FALSE
      <4>1. k = K
        BY <3>1, <3>2, SameBucket
      <4> QED BY <1>3, <3>1, <3>2, <4>1
    <3> HIDE DEF rr, filled
    <3>3. r \in rollups
      BY <1>2, <3>1, <3>2
    <3> QED BY <3>1, <3>3 DEF AtBucket
  <2>2. ASSUME NEW r \in AtBucket(rollups, i, K) PROVE r \in AtBucket(rr, i, K)
    <3>1. r \in rollups /\ r.iface = i /\ r.start = BucketSize * K
      BY <2>2 DEF AtBucket
    <3>2. ASSUME NEW q \in filled, Same(r, q) PROVE FALSE
      <4>1. PICK j \in Interfaces, k \in Nat :
              k \in Buckets /\ Reaching(plan, j, k) # {} /\ q = Bucket(plan, cutoff, j, k)
        BY <3>2, FilledRow
      <4>2. q.iface = j /\ q.start = BucketSize * k
        BY <1>1, <4>1, BucketIsRow
      <4>3. i = j /\ BucketSize * k = BucketSize * K
        BY <3>1, <3>2, <4>2 DEF Same
      <4>4. k = K
        BY <4>3, SameBucket
      <4> QED BY <1>3, <4>1, <4>3, <4>4
    <3>3. r \in Rest(filled)
      <4> HIDE DEF filled
      <4> QED BY <3>1, <3>2 DEF Rest
    <3> QED BY <3>1, <3>3 DEF AtBucket, Updated
  <2>3. AtBucket(rr, i, K) = AtBucket(rollups, i, K)
    BY <2>1, <2>2
  <2>4. SumFunctionOnSet(w, AtBucket(rr, i, K)) = SumFunctionOnSet(w, AtBucket(rollups, i, K))
    BY <2>3
  <2>5. SumFunctionOnSet(w, AtBucket(rollups, i, K)) \in Int
    BY <1>1, BelowNext DEF TypeOK
  <2> HIDE DEF rr
  <2>6. n = 0
    BY <1>3
  <2> QED BY <2>4, <2>5, <2>6 DEF rr
<1>4. CASE Reaching(plan, i, K) # {}
  <2>1. new \in filled
    BY <1>1, <1>4, ReachedIsFilled
  <2>2. PICK row : row = Row(new)
    OBVIOUS
  <2>3. row.iface = i /\ row.start = BucketSize * K
    BY <1>1, <1>4, <2>2, RowFields
  <2>4. row \in rr
    BY <2>1, <2>2 DEF Updated
  <2>5. AtBucket(rr, i, K) = {row}
    <3>1. row \in AtBucket(rr, i, K)
      BY <2>3, <2>4 DEF AtBucket
    <3>2. ASSUME NEW r \in AtBucket(rr, i, K) PROVE r = row
      <4>1. r \in rr /\ Same(r, row)
        BY <2>3, <3>2 DEF AtBucket, Same
      <4> HIDE DEF rr
      <4> QED BY <1>1, <2>4, <4>1 DEF Rolled
    <3> QED BY <3>1, <3>2
  <2>6. w[row] \in Int /\ w[row] = (IF Had(new) THEN w[Old(new)] ELSE 0) + n
    <3>1. w[row] \in Int
      BY <2>4
    <3> QED BY <1>4, <2>2, <3>1
  <2>7. SumFunctionOnSet(w, AtBucket(rr, i, K)) = w[row]
    <3>1. SumFunctionOnSet(w, {row}) = w[row]
      BY <2>6, SumOfOne
    <3> HIDE DEF rr
    <3> QED BY <2>5, <3>1
  <2>8. new.iface = i /\ new.start = BucketSize * K
    <3>1. PICK q : q = new
      OBVIOUS
    <3>2. q.iface = i /\ q.start = BucketSize * K
      BY <1>1, <1>4, <3>1, BucketIsRow
    <3> QED BY <3>1, <3>2
  <2> HIDE DEF rr, filled, new
  <2>9. SumFunctionOnSet(w, AtBucket(rollups, i, K)) = IF Had(new) THEN w[Old(new)] ELSE 0
    <3>1. CASE Had(new)
      <4>1. PICK old : old = Old(new)
        OBVIOUS
      <4>2. old \in rollups /\ Same(old, new)
        BY <3>1, <4>1 DEF Had, Old
      <4>3. AtBucket(rollups, i, K) = {old}
        <5>1. old \in AtBucket(rollups, i, K)
          BY <2>8, <4>2 DEF AtBucket, Same
        <5>2. ASSUME NEW r \in AtBucket(rollups, i, K) PROVE r = old
          <6>1. r \in rollups /\ Same(r, old)
            BY <2>8, <4>2, <5>2 DEF AtBucket, Same
          <6> QED BY <1>1, <4>2, <6>1 DEF Rolled
        <5> QED BY <5>1, <5>2
      <4>4. SumFunctionOnSet(w, {old}) = w[old]
        BY <4>2, SumOfOne
      <4>5. SumFunctionOnSet(w, AtBucket(rollups, i, K)) = SumFunctionOnSet(w, {old})
        BY <4>3
      <4> QED BY <3>1, <4>1, <4>4, <4>5
    <3>2. CASE ~Had(new)
      <4>1. AtBucket(rollups, i, K) = {}
        BY <2>8, <3>2 DEF AtBucket, Had, Same
      <4>2. SumFunctionOnSet(w, AtBucket(rollups, i, K)) = SumFunctionOnSet(w, {})
        BY <4>1
      <4>3. SumFunctionOnSet(w, {}) = 0
        BY SumEmpty
      <4> QED BY <3>2, <4>2, <4>3
    <3> QED BY <3>1, <3>2
  <2> QED BY <2>6, <2>7, <2>9 DEF rr, filled
<1> QED BY <1>3, <1>4

(* What a batch adds to the rows before bucket K, when c sums up what it    *)
(* adds to the first buckets.                                               *)
AddsUp(w, c, plan, cutoff, i) ==
    /\ \A r \in rollups \cup Updated(Filled(plan, cutoff)) : w[r] \in Int
    /\ c[0] = 0 /\ \A k \in Nat : c[k] \in Int
    /\ \A k \in Nat : Reaching(plan, i, k) = {} => c[k + 1] = c[k]
    /\ \A k \in Nat : Reaching(plan, i, k) # {} =>
         w[Row(Bucket(plan, cutoff, i, k))] =
           (IF Had(Bucket(plan, cutoff, i, k)) THEN w[Old(Bucket(plan, cutoff, i, k))] ELSE 0)
           + (c[k + 1] - c[k])

(* Bucket by bucket, the rows before K change by what the batch adds there: *)
(* an induction on K.                                                       *)
LEMMA RolledSums ==
    ASSUME StoreInv, NEW plan, Consumes(plan), NEW cutoff, NEW i \in Interfaces,
           NEW w, NEW c, AddsUp(w, c, plan, cutoff, i)
    PROVE  \A K \in Nat :
             SumFunctionOnSet(w, Below(Updated(Filled(plan, cutoff)), i, K)) =
               SumFunctionOnSet(w, Below(rollups, i, K)) + c[K]
<1> DEFINE rr == Updated(Filled(plan, cutoff))
           G == {K \in Nat : SumFunctionOnSet(w, Below(rr, i, K)) =
                               SumFunctionOnSet(w, Below(rollups, i, K)) + c[K]}
<1>0. /\ \A r \in rollups \cup Updated(Filled(plan, cutoff)) : w[r] \in Int
      /\ c[0] = 0 /\ \A k \in Nat : c[k] \in Int
      /\ \A k \in Nat : Reaching(plan, i, k) = {} => c[k + 1] = c[k]
      /\ \A k \in Nat : Reaching(plan, i, k) # {} =>
           w[Row(Bucket(plan, cutoff, i, k))] =
             (IF Had(Bucket(plan, cutoff, i, k)) THEN w[Old(Bucket(plan, cutoff, i, k))] ELSE 0)
             + (c[k + 1] - c[k])
  BY DEF AddsUp
<1>1. /\ Rolled(rollups) /\ Rolled(rr) /\ rollups \subseteq Rollups /\ rr \subseteq Rollups
      /\ \A r \in rollups : w[r] \in Int
      /\ \A r \in rr : w[r] \in Int
  BY <1>0, UpdatedRows DEF StoreInv, TypeOK
<1>2. 0 \in G
  <2>1. ASSUME NEW S, S \subseteq Rollups PROVE Below(S, i, 0) = {}
    <3>1. BucketSize * 0 = 0
      BY HistoryConstants
    <3>2. \A r \in Rollups : ~(r.start < 0)
      BY DEF Rollups, Times
    <3> QED BY <2>1, <3>1, <3>2 DEF Below
  <2>2. Below(rr, i, 0) = {} /\ Below(rollups, i, 0) = {}
    BY <1>1, <2>1
  <2> HIDE DEF rr
  <2>3. SumFunctionOnSet(w, {}) = 0
    BY SumEmpty
  <2>4. SumFunctionOnSet(w, Below(rr, i, 0)) = 0 /\ SumFunctionOnSet(w, Below(rollups, i, 0)) = 0
    BY <2>2, <2>3
  <2> QED BY <1>0, <2>4
<1>3. ASSUME NEW K \in Nat, K \in G PROVE K + 1 \in G
  <2> DEFINE n == c[K + 1] - c[K]
  <2>1. n \in Int /\ c[K] \in Int /\ c[K + 1] \in Int
    BY <1>0
  <2>2. SumFunctionOnSet(w, AtBucket(rr, i, K)) = SumFunctionOnSet(w, AtBucket(rollups, i, K)) + n
    <3>1. Reaching(plan, i, K) = {} => n = 0
      BY <1>0, <2>1
    <3>2. Reaching(plan, i, K) # {} =>
             w[Row(Bucket(plan, cutoff, i, K))] =
               (IF Had(Bucket(plan, cutoff, i, K)) THEN w[Old(Bucket(plan, cutoff, i, K))] ELSE 0) + n
      BY <1>0
    <3>3. \A r \in rollups \cup Updated(Filled(plan, cutoff)) : w[r] \in Int
      BY <1>0
    <3> HIDE DEF n
    <3> QED BY <2>1, <3>1, <3>2, <3>3, BucketChange
  <2>3. /\ SumFunctionOnSet(w, Below(rr, i, K + 1)) =
             SumFunctionOnSet(w, Below(rr, i, K)) + SumFunctionOnSet(w, AtBucket(rr, i, K))
        /\ SumFunctionOnSet(w, Below(rr, i, K)) \in Int
        /\ SumFunctionOnSet(w, AtBucket(rr, i, K)) \in Int
    <3> HIDE DEF rr, n
    <3> QED BY <1>1, BelowNext
  <2>4. /\ SumFunctionOnSet(w, Below(rollups, i, K + 1)) =
             SumFunctionOnSet(w, Below(rollups, i, K)) + SumFunctionOnSet(w, AtBucket(rollups, i, K))
        /\ SumFunctionOnSet(w, Below(rollups, i, K)) \in Int
        /\ SumFunctionOnSet(w, AtBucket(rollups, i, K)) \in Int
    <3> HIDE DEF rr, n
    <3> QED BY <1>1, BelowNext
  <2>5. SumFunctionOnSet(w, Below(rr, i, K)) = SumFunctionOnSet(w, Below(rollups, i, K)) + c[K]
    BY <1>3
  <2> HIDE DEF rr
  <2>6. SumFunctionOnSet(w, Below(rr, i, K + 1)) = SumFunctionOnSet(w, Below(rollups, i, K + 1)) + c[K + 1]
    BY <2>1, <2>2, <2>3, <2>4, <2>5
  <2> QED BY <2>6
<1> HIDE DEF G
<1>4. Nat \subseteq G
  BY <1>2, <1>3, NatIsGenerated
<1> QED BY <1>4 DEF G

(* A row and a sample count bytes, and with ms the time they cover. *)
Val(ms, c)       == IF ms THEN CoveredMs(c) ELSE c.exact + c.estimated
SampleVal(ms, s) == IF ms THEN s.end - s.start ELSE s.bytes
Upto(ms, c, x)   == Part(Val(ms, c), c.start, c.end, c.end - c.start, x)

Vals(ms, rows)     == [c \in rows |-> Val(ms, c)]
Uptos(ms, rows, x) == [c \in rows |-> Upto(ms, c, x)]
SumBefore(ms, rows, x) == SumFunctionOnSet(Uptos(ms, rows, x), rows)

(* The part of a row before x, for bytes and for time alike.                *)
LEMMA UptoIs ==
    ASSUME NEW ms \in BOOLEAN, NEW c, GoodRow(c), NEW x \in Nat
    PROVE  /\ Val(ms, c) \in Nat
           /\ Upto(ms, c, x) \in Nat
           /\ x <= c.start => Upto(ms, c, x) = 0
           /\ c.end <= x => Upto(ms, c, x) = Val(ms, c)
           /\ c.start <= x /\ x <= c.end =>
                Upto(ms, c, x) = (Val(ms, c) * (x - c.start)) \div (c.end - c.start)
<1>1. CASE ms
  <2>1. Val(ms, c) = CoveredMs(c) /\ Val(ms, c) \in Nat
    BY <1>1 DEF Val, GoodRow
  <2>2. Upto(ms, c, x) = MsUpto(c, x)
    BY <2>1 DEF Upto, MsUpto
  <2> QED BY <2>1, <2>2, UptoValues
<1>2. CASE ~ms
  <2>1. Val(ms, c) = c.exact + c.estimated /\ Val(ms, c) \in Nat
    BY <1>2 DEF Val, GoodRow
  <2>2. Upto(ms, c, x) = BytesUpto(c, x)
    BY <2>1 DEF Upto, BytesUpto
  <2> QED BY <2>1, <2>2, UptoValues
<1> QED BY <1>1, <1>2

(* The rows of a well-formed table of rollups *)
LEMMA RolledRow ==
    ASSUME NEW rr, Rolled(rr), rr \subseteq Rollups, NEW c \in rr
    PROVE  /\ GoodRow(c) /\ c.source = "rollup" /\ c.iface \in Interfaces
           /\ \E k \in Nat : c.start = BucketSize * k /\ c.end <= BucketSize * k + BucketSize
<1>1. c \in Rollups /\ IsBucketRow(c)
  BY DEF Rolled
<1>2. /\ c.start \in Nat /\ c.end \in Nat /\ c.iface \in Interfaces /\ c.source = "rollup"
      /\ c.exact \in Nat /\ c.estimated \in Nat /\ c.exact_ms \in Nat /\ c.estimated_ms \in Nat
  <2>1. \A r \in Rollups :
          /\ r.start \in Nat /\ r.end \in Nat /\ r.iface \in Interfaces /\ r.source = "rollup"
          /\ r.exact \in Nat /\ r.estimated \in Nat /\ r.exact_ms \in Nat /\ r.estimated_ms \in Nat
    BY DEF Rollups, Times
  <2> QED BY <1>1, <2>1
<1> QED BY <1>1, <1>2 DEF IsBucketRow, GoodRow

(* A row is never cut by the boundary between two buckets. *)
LEMMA RowMissesBoundary ==
    ASSUME NEW rr, Rolled(rr), rr \subseteq Rollups, NEW c \in rr, NEW K \in Nat
    PROVE  c.start < BucketSize * K => c.end <= BucketSize * K
<1>1. PICK k \in Nat : c.start = BucketSize * k /\ c.end <= BucketSize * k + BucketSize
  BY RolledRow
<1>2. c.end \in Nat
  BY RolledRow DEF GoodRow
<1>3. BucketSize \in Nat \ {0} /\ BucketSize * k \in Nat /\ BucketSize * K \in Nat
  <2>1. BucketSize \in Nat \ {0}
    BY HistoryConstants
  <2> QED BY <2>1
<1>4. CASE K <= k
  <2>1. BucketSize * K <= BucketSize * k
    BY <1>3, <1>4, ProductKeepsOrder
  <2> QED BY <1>1, <1>3, <2>1
<1>5. CASE k + 1 <= K
  <2>1. BucketSize * (k + 1) <= BucketSize * K
    BY <1>3, <1>5, ProductKeepsOrder
  <2>2. BucketSize * (k + 1) = BucketSize * k + BucketSize
    BY <1>3
  <2> QED BY <1>1, <1>2, <1>3, <2>1, <2>2
<1> QED BY <1>4, <1>5

(* What the rollups hold before a boundary is what the rows of the earlier  *)
(* buckets hold.                                                            *)
LEMMA RollupsUpto ==
    ASSUME NEW ms \in BOOLEAN, NEW rr, Rolled(rr), rr \subseteq Rollups, NEW i, NEW K \in Nat,
           NEW x, x = BucketSize * K,
           NEW u, \A c \in rr : u[c] = Upto(ms, c, x),
           NEW v, \A c \in rr : v[c] = Val(ms, c)
    PROVE  /\ SumFunctionOnSet(u, RollupsOf(rr, i)) = SumFunctionOnSet(v, Below(rr, i, K))
           /\ SumFunctionOnSet(v, Below(rr, i, K)) \in Int
<1>1. x \in Nat
  BY HistoryConstants
<1>2. /\ IsFiniteSet(rr) /\ RollupsOf(rr, i) \in SUBSET rr /\ Below(rr, i, K) \in SUBSET RollupsOf(rr, i)
      /\ Below(rr, i, K) \in SUBSET rr
  BY DEF Rolled, RollupsOf, Below
<1>3. \A c \in rr : GoodRow(c) /\ c.start \in Nat /\ (c.start < x => c.end <= x)
  <2> SUFFICES ASSUME NEW c \in rr PROVE GoodRow(c) /\ (c.start < x => c.end <= x)
    BY DEF GoodRow
  <2> QED BY RolledRow, RowMissesBoundary
<1>4. \A c \in rr : u[c] \in Int /\ v[c] \in Int
  BY <1>1, <1>3, UptoIs
<1>5. \A c \in Below(rr, i, K) : u[c] = v[c]
  <2> SUFFICES ASSUME NEW c \in Below(rr, i, K) PROVE u[c] = v[c]
    OBVIOUS
  <2>1. c \in rr /\ c.start < x
    BY <1>2 DEF Below
  <2>2. GoodRow(c) /\ c.end <= x
    BY <1>3, <2>1
  <2>3. Upto(ms, c, x) = Val(ms, c)
    BY <1>1, <2>2, UptoIs
  <2> QED BY <2>1, <2>3
<1>6. \A c \in RollupsOf(rr, i) \ Below(rr, i, K) : u[c] = 0
  <2> SUFFICES ASSUME NEW c \in RollupsOf(rr, i), c \notin Below(rr, i, K) PROVE u[c] = 0
    OBVIOUS
  <2>1. c \in rr /\ ~(c.start < x)
    BY DEF Below, RollupsOf
  <2>2. GoodRow(c) /\ x <= c.start
    BY <1>1, <1>3, <2>1
  <2>3. Upto(ms, c, x) = 0
    BY <1>1, <2>2, UptoIs
  <2> QED BY <2>1, <2>3
<1>7. IsFiniteSet(RollupsOf(rr, i)) /\ IsFiniteSet(Below(rr, i, K))
  BY <1>2, FS_Subset
<1>8. SumFunctionOnSet(u, RollupsOf(rr, i)) = SumFunctionOnSet(u, Below(rr, i, K))
  <2>1. \A c \in RollupsOf(rr, i) : u[c] \in Int
    BY <1>2, <1>4
  <2> QED BY <1>2, <1>6, <1>7, <2>1, SumOfPart
<1>9. SumFunctionOnSet(u, Below(rr, i, K)) = SumFunctionOnSet(v, Below(rr, i, K))
  <2>1. \A c \in Below(rr, i, K) : u[c] \in Int /\ u[c] = v[c]
    BY <1>2, <1>4, <1>5
  <2> QED BY <1>7, <2>1, SumSame
<1>10. SumFunctionOnSet(v, Below(rr, i, K)) \in Int
  <2>1. \A c \in Below(rr, i, K) : v[c] \in Int
    BY <1>2, <1>4
  <2> QED BY <1>7, <2>1, SumRemove
<1> QED BY <1>8, <1>9, <1>10

(* What of a sample a batch rolls up before x *)
SampleUpto(ms, plan, s, x) == Part(SampleVal(ms, s), s.start, plan[s], s.end - s.start, x)
PieceVals(ms, plan, k) == IF ms THEN PieceMs(plan, k) ELSE PieceBytes(plan, k)
Mine(plan, i) == {s \in DOMAIN plan : s.iface = i}
Added(ms, plan, i, x) == SumFunctionOnSet([s \in DOMAIN plan |-> SampleUpto(ms, plan, s, x)], Mine(plan, i))

(* A consumed sample is consumed up to a time in it.                        *)
LEMMA PlannedFields ==
    ASSUME TypeOK, SamplesApart, NEW plan, Consumes(plan), NEW s \in DOMAIN plan, NEW ms \in BOOLEAN
    PROVE  /\ s \in samples /\ s.start \in Nat /\ s.end \in Nat /\ plan[s] \in Nat
           /\ s.start < plan[s] /\ plan[s] <= s.end
           /\ s.end - s.start \in Nat \ {0}
           /\ SampleVal(ms, s) \in Nat
<1>1. /\ s \in samples /\ plan[s] \in Nat /\ s.start < plan[s] /\ plan[s] <= s.end
  BY DEF Consumes
<1>2. s.start \in Nat /\ s.end \in Nat /\ s.bytes \in Nat
  BY <1>1, SampleFields
<1>3. s.end - s.start \in Nat \ {0}
  BY <1>1, <1>2
<1> QED BY <1>1, <1>2, <1>3 DEF SampleVal

(* What is rolled up of a sample is not negative.                           *)
LEMMA SampleUptoIsNat ==
    ASSUME TypeOK, SamplesApart, NEW plan, Consumes(plan), NEW s \in DOMAIN plan, NEW ms \in BOOLEAN,
           NEW x \in Nat
    PROVE  SampleUpto(ms, plan, s, x) \in Nat /\ (x <= s.start => SampleUpto(ms, plan, s, x) = 0)
<1> DEFINE v == SampleVal(ms, s)
           a == s.start
           b == plan[s]
           d == s.end - s.start
<1>1. v \in Nat /\ a \in Nat /\ b \in Nat /\ d \in Nat \ {0} /\ a <= b
  BY PlannedFields
<1>2. SampleUpto(ms, plan, s, x) = Part(v, a, b, d, x)
  BY DEF SampleUpto
<1> HIDE DEF v, a, b, d
<1>3. Part(v, a, b, d, x) \in Nat /\ (x <= a => Part(v, a, b, d, x) = 0)
  BY <1>1, PartStarts
<1> QED BY <1>2, <1>3 DEF a

(* What a piece holds is what of the sample comes before its end and not    *)
(* before its start.                                                        *)
LEMMA PieceIsDifference ==
    ASSUME TypeOK, SamplesApart, NEW plan, Consumes(plan), NEW i, NEW k \in Nat,
           NEW s \in Reaching(plan, i, k), NEW ms \in BOOLEAN,
           NEW x, x = BucketSize * k, NEW y, y = BucketSize * k + BucketSize
    PROVE  PieceVals(ms, plan, k)[s] = SampleUpto(ms, plan, s, y) - SampleUpto(ms, plan, s, x)
<1> DEFINE v == SampleVal(ms, s)
           a == s.start
           b == plan[s]
           d == s.end - s.start
           p == PieceStart(s, k)
           q == PieceEnd(plan, s, k)
<1>1. /\ s \in DOMAIN plan /\ s \in samples
      /\ p \in Nat /\ q \in Nat /\ a <= p /\ p < q /\ q <= b /\ x <= p /\ q <= y
  BY PieceBounds
<1>2. v \in Nat /\ a \in Nat /\ b \in Nat /\ d \in Nat \ {0} /\ a < b
  BY <1>1, PlannedFields
<1>3. BucketSize \in Nat \ {0} /\ x \in Nat /\ y \in Nat /\ k * BucketSize = x /\ (k + 1) * BucketSize = y
  <2>1. BucketSize \in Nat \ {0}
    BY HistoryConstants
  <2> QED BY <2>1
<1>4. p = (IF a <= x THEN x ELSE a) /\ q = (IF b <= y THEN b ELSE y)
  BY <1>3 DEF PieceStart, PieceEnd, Greater, Lesser
<1>5. Clamp(x, a, b) = p /\ Clamp(y, a, b) = q
  <2> HIDE DEF p, q, b
  <2> QED BY <1>1, <1>2, <1>3, <1>4 DEF Clamp
<1>6. /\ SampleUpto(ms, plan, s, x) = (v * (p - a)) \div d
      /\ SampleUpto(ms, plan, s, y) = (v * (q - a)) \div d
  BY <1>5 DEF SampleUpto, Part
<1>7. CASE ~ms
  <2>1. PieceVals(ms, plan, k)[s] = Slice(s.bytes, d, p - a, q - a)
    BY <1>1, <1>7 DEF PieceVals, PieceBytes
  <2>2. v = s.bytes
    BY <1>7 DEF SampleVal
  <2> QED BY <1>6, <2>1, <2>2 DEF Slice
<1>8. CASE ms
  <2>1. PieceVals(ms, plan, k)[s] = q - p
    BY <1>1, <1>8 DEF PieceVals, PieceMs
  <2>2. v = d
    BY <1>8 DEF SampleVal
  <2>3. (v * (p - a)) \div d = p - a /\ (v * (q - a)) \div d = q - a
    <3>1. p - a \in Int /\ q - a \in Int
      BY <1>1, <1>2
    <3> HIDE DEF p, q, v, d, a
    <3> QED BY <1>2, <2>2, <3>1, QuotientOfMultiple
  <2> HIDE DEF p, q, v, d
  <2> QED BY <1>1, <1>2, <1>6, <2>1, <2>3
<1> QED BY <1>7, <1>8

(* A sample with no piece in a bucket has none of it there. *)
LEMMA NoPieceNoDifference ==
    ASSUME TypeOK, SamplesApart, NEW plan, Consumes(plan), NEW i, NEW k \in Nat,
           NEW s \in Mine(plan, i), s \notin Reaching(plan, i, k), NEW ms \in BOOLEAN,
           NEW x, x = BucketSize * k, NEW y, y = BucketSize * k + BucketSize
    PROVE  SampleUpto(ms, plan, s, y) = SampleUpto(ms, plan, s, x)
<1>1. s \in DOMAIN plan /\ s.iface = i
  BY DEF Mine
<1>2. s.start \in Nat /\ plan[s] \in Nat /\ s.start < plan[s]
  BY <1>1, PlannedFields
<1>3. BucketSize \in Nat \ {0} /\ x \in Nat /\ y \in Nat /\ k * BucketSize = x /\ BucketSize * (k + 1) = y
      /\ x <= y
  <2>1. BucketSize \in Nat \ {0}
    BY HistoryConstants
  <2> QED BY <2>1
<1>4. Clamp(x, s.start, plan[s]) = Clamp(y, s.start, plan[s])
  <2>1. ~(BucketOf(s.start) <= k) \/ plan[s] <= x
    BY <1>1, <1>2, <1>3 DEF Reaching
  <2>2. CASE ~(BucketOf(s.start) <= k)
    <3> DEFINE K == k + 1
    <3>1. s.start \in Int /\ K \in Int /\ ~(BucketOf(s.start) < K)
      BY <1>2, <2>2, BucketBounds
    <3>2. ~(s.start < BucketSize * K)
      <4> HIDE DEF K
      <4> QED BY <3>1, BucketOrder
    <3>3. y <= s.start
      BY <1>2, <1>3, <3>2
    <3> QED BY <1>2, <1>3, <3>3 DEF Clamp
  <2>3. CASE plan[s] <= x
    BY <1>2, <1>3, <2>3 DEF Clamp
  <2> QED BY <2>1, <2>2, <2>3
<1> QED BY <1>4 DEF SampleUpto, Part

(* What a batch rolls up before the end of a bucket and not before its      *)
(* start is in its pieces.                                                  *)
LEMMA AddedNext ==
    ASSUME TypeOK, SamplesApart, NEW plan, Consumes(plan), NEW i, NEW k \in Nat, NEW ms \in BOOLEAN,
           NEW x, x = BucketSize * k, NEW y, y = BucketSize * k + BucketSize
    PROVE  /\ Added(ms, plan, i, y) - Added(ms, plan, i, x)
                = SumFunctionOnSet(PieceVals(ms, plan, k), Reaching(plan, i, k))
           /\ Added(ms, plan, i, x) \in Int /\ Added(ms, plan, i, y) \in Int
<1> DEFINE M == Mine(plan, i)
           R == Reaching(plan, i, k)
           f == [s \in DOMAIN plan |-> SampleUpto(ms, plan, s, y)]
           g == [s \in DOMAIN plan |-> SampleUpto(ms, plan, s, x)]
           h == [s \in DOMAIN plan |-> f[s] - g[s]]
           P == PieceVals(ms, plan, k)
<1>1. x \in Nat /\ y \in Nat
  BY HistoryConstants
<1>2. M \in SUBSET DOMAIN plan /\ R \in SUBSET M /\ IsFiniteSet(M) /\ IsFiniteSet(R)
  <2>1. M \in SUBSET DOMAIN plan /\ R \in SUBSET M
    BY DEF Mine, Reaching
  <2>2. IsFiniteSet(DOMAIN plan) /\ IsFiniteSet(R)
    BY ReachingIsFinite
  <2> HIDE DEF M
  <2> QED BY <2>1, <2>2, FS_Subset
<1>3. \A s \in M : f[s] \in Int /\ g[s] \in Int /\ h[s] = f[s] - g[s] /\ h[s] \in Int
  <2>1. \A s \in DOMAIN plan : SampleUpto(ms, plan, s, y) \in Nat /\ SampleUpto(ms, plan, s, x) \in Nat
    BY <1>1, SampleUptoIsNat
  <2> QED BY <1>2, <2>1
<1>4. \A s \in M \ R : h[s] = 0
  <2> SUFFICES ASSUME NEW s \in M, s \notin R PROVE h[s] = 0
    OBVIOUS
  <2>1. SampleUpto(ms, plan, s, y) = SampleUpto(ms, plan, s, x)
    BY NoPieceNoDifference
  <2>2. s \in DOMAIN plan
    BY <1>2
  <2>3. f[s] = g[s]
    BY <2>1, <2>2
  <2> HIDE DEF M, f, g, h
  <2> QED BY <1>3, <2>3
<1>5. \A s \in R : h[s] = P[s]
  <2> SUFFICES ASSUME NEW s \in R PROVE h[s] = P[s]
    OBVIOUS
  <2>1. PieceVals(ms, plan, k)[s] = SampleUpto(ms, plan, s, y) - SampleUpto(ms, plan, s, x)
    BY PieceIsDifference
  <2>2. s \in DOMAIN plan
    BY <1>2
  <2> QED BY <2>1, <2>2
<1>6. Added(ms, plan, i, y) = SumFunctionOnSet(f, M) /\ Added(ms, plan, i, x) = SumFunctionOnSet(g, M)
  BY DEF Added
<1> HIDE DEF M, R, f, g, h, P
<1>7. /\ SumFunctionOnSet(h, M) = SumFunctionOnSet(f, M) - SumFunctionOnSet(g, M)
      /\ SumFunctionOnSet(f, M) \in Int /\ SumFunctionOnSet(g, M) \in Int
  <2>1. \A s \in M : f[s] \in Int /\ g[s] \in Int /\ h[s] = f[s] - g[s]
    BY <1>3
  <2> QED BY <1>2, <2>1, SumSubtracts
<1>8. SumFunctionOnSet(h, M) = SumFunctionOnSet(h, R)
  <2>1. \A s \in M : h[s] \in Int
    BY <1>3
  <2> QED BY <1>2, <1>4, <2>1, SumOfPart
<1>9. SumFunctionOnSet(h, R) = SumFunctionOnSet(P, R)
  <2>1. \A s \in R : h[s] \in Int /\ h[s] = P[s]
    BY <1>2, <1>3, <1>5
  <2> QED BY <1>2, <2>1, SumSame
<1> QED BY <1>6, <1>7, <1>8, <1>9 DEF R, P

(* What a batch adds to the row of a bucket *)
LEMMA BucketVal ==
    ASSUME TypeOK, SamplesApart, NEW plan, Consumes(plan), NEW cutoff, NEW i, NEW k \in Nat, NEW ms \in BOOLEAN
    PROVE  Val(ms, Bucket(plan, cutoff, i, k)) = SumFunctionOnSet(PieceVals(ms, plan, k), Reaching(plan, i, k))
<1>1. PICK row : row = Bucket(plan, cutoff, i, k)
  OBVIOUS
<1>2. /\ row.exact + row.estimated = SumFunctionOnSet(PieceBytes(plan, k), Reaching(plan, i, k))
      /\ CoveredMs(row) = SumFunctionOnSet(PieceMs(plan, k), Reaching(plan, i, k))
  BY <1>1, BucketFields
<1>3. CASE ms
  BY <1>1, <1>2, <1>3 DEF Val, PieceVals
<1>4. CASE ~ms
  BY <1>1, <1>2, <1>4 DEF Val, PieceVals
<1> QED BY <1>3, <1>4

(* A merged row holds what it held and what is added.                       *)
LEMMA RowVal ==
    ASSUME StoreInv, NEW plan, Consumes(plan), NEW cutoff, NEW i \in Interfaces, NEW k \in Nat,
           Reaching(plan, i, k) # {}, NEW ms \in BOOLEAN,
           NEW new, new = Bucket(plan, cutoff, i, k)
    PROVE  Val(ms, Row(new)) = (IF Had(new) THEN Val(ms, Old(new)) ELSE 0) + Val(ms, new)
<1>1. /\ new \in Rollups
  BY BucketIsRow DEF StoreInv
<1>2. \A r \in Rollups : r.exact \in Nat /\ r.estimated \in Nat /\ r.exact_ms \in Nat /\ r.estimated_ms \in Nat
  BY DEF Rollups
<1>3. \A r \in Rollups : Val(ms, r) \in Int
  BY <1>2 DEF Val, CoveredMs
<1>4. CASE ~Had(new)
  <2>1. Row(new) = new
    BY <1>4 DEF Row
  <2>2. Val(ms, new) \in Int
    BY <1>1, <1>3
  <2> QED BY <1>4, <2>1, <2>2
<1>5. CASE Had(new)
  <2>1. PICK old, row : old = Old(new) /\ row = Row(new)
    OBVIOUS
  <2>2. /\ old \in rollups
        /\ row.exact = old.exact + new.exact /\ row.estimated = old.estimated + new.estimated
        /\ row.exact_ms = old.exact_ms + new.exact_ms
        /\ row.estimated_ms = old.estimated_ms + new.estimated_ms
    BY <1>5, <2>1, RowAdds
  <2>3. old \in Rollups
    BY <2>2 DEF StoreInv, TypeOK
  <2>4. /\ old.exact \in Nat /\ old.estimated \in Nat /\ old.exact_ms \in Nat /\ old.estimated_ms \in Nat
        /\ new.exact \in Nat /\ new.estimated \in Nat /\ new.exact_ms \in Nat /\ new.estimated_ms \in Nat
    BY <1>1, <1>2, <2>3
  <2>5. Val(ms, row) = Val(ms, old) + Val(ms, new)
    <3>1. CASE ms
      BY <2>2, <2>4, <3>1 DEF Val, CoveredMs
    <3>2. CASE ~ms
      BY <2>2, <2>4, <3>2 DEF Val
    <3> QED BY <3>1, <3>2
  <2> QED BY <1>5, <2>1, <2>5
<1> QED BY <1>4, <1>5

(* What the rows before a bucket hold more after a batch is what it rolls   *)
(* up before that bucket.                                                   *)
LEMMA RollupsAfter ==
    ASSUME StoreInv, NEW plan, Consumes(plan), NEW cutoff, NEW i \in Interfaces, NEW ms \in BOOLEAN,
           NEW rr, rr = Updated(Filled(plan, cutoff)),
           NEW v, \A r \in rollups \cup rr : v[r] = Val(ms, r),
           NEW K \in Nat
    PROVE  /\ SumFunctionOnSet(v, Below(rr, i, K)) =
                SumFunctionOnSet(v, Below(rollups, i, K)) + Added(ms, plan, i, BucketSize * K)
           /\ Added(ms, plan, i, BucketSize * K) \in Int
<1> DEFINE c == [k \in Nat |-> Added(ms, plan, i, BucketSize * k)]
<1>1. TypeOK /\ SamplesApart
  BY DEF StoreInv
<1>2. \A r \in rollups \cup rr : v[r] \in Int
  <2>1. rollups \subseteq Rollups /\ rr \subseteq Rollups
    BY <1>1, UpdatedRows DEF TypeOK
  <2>2. \A r \in Rollups : r.exact \in Nat /\ r.estimated \in Nat /\ r.exact_ms \in Nat /\ r.estimated_ms \in Nat
    BY DEF Rollups
  <2>3. \A r \in Rollups : Val(ms, r) \in Int
    BY <2>2 DEF Val, CoveredMs
  <2> QED BY <2>1, <2>3
<1>3. ASSUME NEW k \in Nat
      PROVE  /\ c[k] \in Int /\ c[k + 1] \in Int
             /\ c[k + 1] - c[k] = SumFunctionOnSet(PieceVals(ms, plan, k), Reaching(plan, i, k))
  <2>1. PICK x, y : x = BucketSize * k /\ y = BucketSize * k + BucketSize
    OBVIOUS
  <2>2. BucketSize * (k + 1) = y
    <3>1. BucketSize \in Nat
      BY HistoryConstants
    <3> QED BY <2>1, <3>1
  <2>3. c[k] = Added(ms, plan, i, x) /\ c[k + 1] = Added(ms, plan, i, y)
    BY <2>1, <2>2
  <2>4. /\ Added(ms, plan, i, y) - Added(ms, plan, i, x)
             = SumFunctionOnSet(PieceVals(ms, plan, k), Reaching(plan, i, k))
        /\ Added(ms, plan, i, x) \in Int /\ Added(ms, plan, i, y) \in Int
    BY <1>1, <2>1, AddedNext
  <2> HIDE DEF c
  <2> QED BY <2>3, <2>4
<1>4. c[0] = 0
  <2> DEFINE f == [s \in DOMAIN plan |-> SampleUpto(ms, plan, s, 0)]
             M == Mine(plan, i)
  <2>1. BucketSize * 0 = 0
    BY HistoryConstants
  <2>2. c[0] = SumFunctionOnSet(f, M)
    BY <2>1 DEF Added
  <2>3. \A s \in M : f[s] = 0
    <3> SUFFICES ASSUME NEW s \in M PROVE f[s] = 0
      OBVIOUS
    <3>1. s \in DOMAIN plan
      BY DEF Mine
    <3>2. 0 <= s.start
      BY <1>1, <3>1, PlannedFields
    <3>3. 0 \in Nat
      OBVIOUS
    <3>4. SampleUpto(ms, plan, s, 0) = 0
      BY <1>1, <3>1, <3>2, <3>3, SampleUptoIsNat
    <3> QED BY <3>1, <3>4
  <2>4. IsFiniteSet(M)
    <3>1. IsFiniteSet(DOMAIN plan) /\ M \in SUBSET DOMAIN plan
      BY <1>1, ReachingIsFinite DEF Mine
    <3> QED BY <3>1, FS_Subset
  <2> HIDE DEF f, M
  <2>5. SumFunctionOnSet(f, M) = SumFunctionOnSet(f, {})
    <3>1. (\A s \in M : f[s] \in Int) /\ (\A s \in M \ {} : f[s] = 0) /\ {} \in SUBSET M
      BY <2>3
    <3> QED BY <2>4, <3>1, SumOfPart
  <2> QED BY <2>2, <2>5, SumEmpty
<1> HIDE DEF c
<1>5. \A k \in Nat : Reaching(plan, i, k) = {} => c[k + 1] = c[k]
  <2> SUFFICES ASSUME NEW k \in Nat, Reaching(plan, i, k) = {} PROVE c[k + 1] = c[k]
    OBVIOUS
  <2>1. SumFunctionOnSet(PieceVals(ms, plan, k), Reaching(plan, i, k)) = SumFunctionOnSet(PieceVals(ms, plan, k), {})
    OBVIOUS
  <2>2. SumFunctionOnSet(PieceVals(ms, plan, k), {}) = 0
    BY SumEmpty
  <2>3. c[k] \in Int /\ c[k + 1] \in Int /\ c[k + 1] - c[k] = 0
    BY <1>3, <2>1, <2>2
  <2> QED BY <2>3
<1>6. \A k \in Nat : Reaching(plan, i, k) # {} =>
             v[Row(Bucket(plan, cutoff, i, k))] =
               (IF Had(Bucket(plan, cutoff, i, k)) THEN v[Old(Bucket(plan, cutoff, i, k))] ELSE 0)
               + (c[k + 1] - c[k])
  <2> SUFFICES ASSUME NEW k \in Nat, Reaching(plan, i, k) # {},
                      NEW new, new = Bucket(plan, cutoff, i, k)
               PROVE  v[Row(new)] = (IF Had(new) THEN v[Old(new)] ELSE 0) + (c[k + 1] - c[k])
    OBVIOUS
  <2>1. new \in Filled(plan, cutoff)
    BY <1>1, ReachedIsFilled
  <2>2. Row(new) \in rr
    BY <2>1 DEF Updated
  <2>3. Had(new) => Old(new) \in rollups
    BY DEF Had, Old
  <2>4. Val(ms, Row(new)) = (IF Had(new) THEN Val(ms, Old(new)) ELSE 0) + Val(ms, new)
    BY RowVal
  <2>5. Val(ms, new) = c[k + 1] - c[k]
    <3>1. Val(ms, new) = SumFunctionOnSet(PieceVals(ms, plan, k), Reaching(plan, i, k))
      BY <1>1, BucketVal
    <3> QED BY <1>3, <3>1
  <2>6. v[Row(new)] = Val(ms, Row(new)) /\ (Had(new) => v[Old(new)] = Val(ms, Old(new)))
    BY <2>2, <2>3
  <2> QED BY <2>4, <2>5, <2>6
<1>7. \A k \in Nat : c[k] \in Int
  BY <1>3
<1>8. SumFunctionOnSet(v, Below(rr, i, K)) = SumFunctionOnSet(v, Below(rollups, i, K)) + c[K]
  <2>1. \A r \in rollups \cup Updated(Filled(plan, cutoff)) : v[r] \in Int
    BY <1>2
  <2>2. \A k \in Nat :
          SumFunctionOnSet(v, Below(Updated(Filled(plan, cutoff)), i, k)) =
            SumFunctionOnSet(v, Below(rollups, i, k)) + c[k]
    <3>1. AddsUp(v, c, plan, cutoff, i)
      BY <2>1, <1>4, <1>5, <1>6, <1>7 DEF AddsUp
    <3> QED BY <3>1, RolledSums
  <2> QED BY <2>2
<1>9. c[K] = Added(ms, plan, i, BucketSize * K)
  BY DEF c
<1> QED BY <1>7, <1>8, <1>9

(* Past its end the part stays what it is.                                  *)
LEMMA PartPast ==
    ASSUME NEW v \in Nat, NEW a \in Nat, NEW b \in Nat, NEW d \in Nat \ {0}, a <= b, NEW x \in Nat, b <= x
    PROVE  Part(v, a, b, d, x) = (v * (b - a)) \div d
<1>1. Clamp(x, a, b) = b
  BY DEF Clamp
<1> QED BY <1>1 DEF Part

(* Cut at p, the two parts of v before x are the part of the whole, or one  *)
(* less.                                                                    *)
Pieced(v, a, p, b, x) ==
    Part(v, a, p, b - a, x)
    + (IF p < b THEN Part(v - (v * (p - a)) \div (b - a), p, b, b - p, x) ELSE 0)

(* Cutting moves a rounding and nothing else, and no time.                  *)
LEMMA CutInTwo ==
    ASSUME NEW v \in Nat, NEW a \in Nat, NEW p \in Nat, NEW b \in Nat, a < p, p <= b, NEW x \in Nat
    PROVE  /\ Pieced(v, a, p, b, x) - Part(v, a, b, b - a, x) \in -1 .. 0
           /\ x <= a \/ b <= x => Pieced(v, a, p, b, x) = Part(v, a, b, b - a, x)
           /\ v = b - a => Pieced(v, a, p, b, x) = Part(v, a, b, b - a, x)
           /\ Pieced(v, a, p, b, x) \in Int
<1> DEFINE d == b - a
           A == p - a
           q == (v * A) \div d
           w == v - q
           e == b - p
           one == Part(v, a, p, d, x)
           two == Part(w, p, b, e, x)
           all == Part(v, a, b, d, x)
<1>1. d \in Nat \ {0} /\ A \in Nat \ {0} /\ A <= d /\ e \in Nat /\ d = b - a /\ e = b - p /\ A = p - a /\ e = d - A
  OBVIOUS
<1>2. q \in Nat /\ q <= v /\ w \in Nat
  <2> HIDE DEF A, d
  <2>1. v * A \in Nat /\ v * d \in Nat
    BY <1>1
  <2>2. v * A <= v * d
    BY <1>1, ProductKeepsOrder
  <2>3. q \in Nat /\ q <= (v * d) \div d /\ (v * d) \div d = v
    BY <1>1, <2>1, <2>2, QuotientFits, QuotientKeepsOrder, QuotientOfMultiple
  <2> HIDE DEF q
  <2> QED BY <2>3
<1>3. Pieced(v, a, p, b, x) = one + (IF p < b THEN two ELSE 0)
  BY DEF Pieced
<1>4. Part(v, a, b, b - a, x) = all
  OBVIOUS
<1>5. one \in Nat /\ all \in Nat /\ (x <= a => one = 0 /\ all = 0)
  <2> HIDE DEF d
  <2>1. a <= p /\ a <= b
    OBVIOUS
  <2>2. Part(v, a, p, d, x) \in Nat /\ (x <= a => Part(v, a, p, d, x) = 0)
    BY <1>1, <2>1, PartStarts
  <2>3. Part(v, a, b, d, x) \in Nat /\ (x <= a => Part(v, a, b, d, x) = 0)
    BY <1>1, <2>1, PartStarts
  <2> QED BY <2>2, <2>3
<1>6. p < b => two \in Nat /\ (x <= p => two = 0)
  <2> SUFFICES ASSUME p < b PROVE two \in Nat /\ (x <= p => two = 0)
    OBVIOUS
  <2>1. e \in Nat \ {0} /\ p <= b
    BY <1>1
  <2> HIDE DEF w, e
  <2>2. Part(w, p, b, e, x) \in Nat /\ (x <= p => Part(w, p, b, e, x) = 0)
    BY <1>2, <2>1, PartStarts
  <2> QED BY <2>2
<1> DEFINE sum == one + (IF p < b THEN two ELSE 0)
<1>7. sum \in Nat
  <2> HIDE DEF one, two
  <2> QED BY <1>5, <1>6
<1> SUFFICES /\ sum - all \in -1 .. 0
             /\ x <= a \/ b <= x => sum = all
             /\ v = d => sum = all
  BY <1>3, <1>7
<1>8. CASE x <= a
  <2>1. x <= p
    BY <1>8
  <2> HIDE DEF one, two, all, d, w, e
  <2> QED BY <1>5, <1>6, <1>8, <2>1
<1>9. CASE a < x /\ x <= p
  <2> HIDE DEF d
  <2>1. one = (v * (x - a)) \div d
    BY <1>1, <1>9, PartInside
  <2>2. all = (v * (x - a)) \div d
    BY <1>1, <1>9, PartInside
  <2> HIDE DEF one, two, all, w, e
  <2> QED BY <1>5, <1>6, <1>9, <2>1, <2>2
<1>10. CASE p < x /\ b <= x
  <2>1. all = v
    <3> HIDE DEF d
    <3>1. a <= b
      OBVIOUS
    <3> QED BY <1>1, <1>10, PartOfAll
  <2>2. one = q
    <3> HIDE DEF d
    <3>1. Part(v, a, p, d, x) = (v * (p - a)) \div d
      BY <1>1, <1>10, PartPast
    <3> QED BY <3>1
  <2>3. p < b => two = w
    <3> HIDE DEF w, e
    <3> SUFFICES ASSUME p < b PROVE two = w
      OBVIOUS
    <3>1. e \in Nat \ {0}
      BY <1>1
    <3> QED BY <1>1, <1>2, <1>10, <3>1, PartOfAll
  <2>4. ~(p < b) => q = v
    <3> SUFFICES ASSUME ~(p < b) PROVE (v * A) \div d = v
      OBVIOUS
    <3>1. A = d
      OBVIOUS
    <3> HIDE DEF A, d
    <3> QED BY <1>1, <3>1, QuotientOfMultiple
  <2> HIDE DEF one, two, all, d, e, q
  <2>5. sum = all
    BY <1>2, <2>1, <2>2, <2>3, <2>4
  <2> HIDE DEF sum
  <2> QED BY <1>5, <2>5
<1>11. CASE p < x /\ x < b
  <2> DEFINE X == x - p
             r == (w * X) \div e
             t == (v * (A + X)) \div d
  <2>0. X \in Nat /\ A < d /\ X < d - A /\ A + X = x - a /\ e \in Nat \ {0}
    BY <1>1, <1>11
  <2>1. all = t
    <3> HIDE DEF d
    <3>1. Part(v, a, b, d, x) = (v * (x - a)) \div d
      BY <1>1, <1>11, PartInside
    <3> QED BY <2>0, <3>1
  <2>2. one = q
    <3> HIDE DEF d
    <3>1. Part(v, a, p, d, x) = (v * (p - a)) \div d
      BY <1>1, <1>11, PartPast
    <3> QED BY <3>1
  <2>3. two = r
    <3> HIDE DEF w, e
    <3>1. Part(w, p, b, e, x) = (w * (x - p)) \div e
      BY <1>2, <1>11, <2>0, PartInside
    <3> QED BY <3>1
  <2>4. r = ((v - q) * X) \div (d - A)
    BY <1>1
  <2>5. q + r \in Int /\ t \in Int /\ t - 1 <= q + r /\ q + r <= t
    <3> HIDE DEF r, X, d, A
    <3>1. d \in Nat /\ A \in Nat
      BY <1>1
    <3>2. q = (v * A) \div d /\ t = (v * (A + X)) \div d
      OBVIOUS
    <3>3. CutAt(v, d, A, X, q, r, t)
      BY <2>4, <3>2 DEF CutAt
    <3> HIDE DEF q, t
    <3> QED BY <2>0, <3>1, <3>3, CuttingRoundsOnce
  <2>6. v = d => q + r = t
    <3> SUFFICES ASSUME v = d PROVE q + r = t
      OBVIOUS
    <3> HIDE DEF d, A, X, e
    <3>1. q = A /\ t = A + X
      BY <1>1, <2>0, QuotientOfMultiple
    <3>2. w = e
      BY <1>1, <3>1
    <3>3. r = X
      BY <2>0, <3>2, QuotientOfMultiple
    <3> QED BY <3>1, <3>3
  <2>7. sum = q + r /\ all = t
    BY <1>11, <2>1, <2>2, <2>3
  <2> HIDE DEF sum, all, q, r, t, d
  <2> QED BY <1>5, <1>7, <1>11, <2>5, <2>6, <2>7
<1> QED BY <1>8, <1>9, <1>10, <1>11

(* How the part of a consumed sample before x changes *)
Change(ms, plan, s, x) ==
    (SampleUpto(ms, plan, s, x)
     + (IF s \in Cut(plan) THEN Upto(ms, Contribution(Remainder(s, plan[s])), x) ELSE 0))
    - Upto(ms, Contribution(s), x)

(* The part of a stored sample before x.                                    *)
LEMMA ContributionUpto ==
    ASSUME NEW s \in Samples, NEW ms \in BOOLEAN, NEW x
    PROVE  /\ Val(ms, Contribution(s)) = SampleVal(ms, s)
           /\ Upto(ms, Contribution(s), x) = Part(SampleVal(ms, s), s.start, s.end, s.end - s.start, x)
<1>1. /\ Contribution(s).start = s.start /\ Contribution(s).end = s.end
      /\ Contribution(s).exact + Contribution(s).estimated = s.bytes
      /\ CoveredMs(Contribution(s)) = s.end - s.start
  BY ContributionOf
<1>2. Val(ms, Contribution(s)) = SampleVal(ms, s)
  BY <1>1 DEF Val, SampleVal
<1> QED BY <1>1, <1>2 DEF Upto

(* A remainder holds what the pieces leave.                                 *)
LEMMA RemainderVal ==
    ASSUME TypeOK, SamplesApart, NEW plan, Consumes(plan), NEW s \in Cut(plan), NEW ms \in BOOLEAN,
           NEW r, r = Remainder(s, plan[s])
    PROVE  SampleVal(ms, r) =
             SampleVal(ms, s) - (SampleVal(ms, s) * (plan[s] - s.start)) \div (s.end - s.start)
<1> DEFINE v == SampleVal(ms, s)
           d == s.end - s.start
           A == plan[s] - s.start
<1>1. /\ s \in DOMAIN plan /\ plan[s] < s.end
      /\ r.start = plan[s] /\ r.end = s.end
      /\ r.bytes = s.bytes - Slice(s.bytes, d, 0, A)
  <2>1. /\ s \in DOMAIN plan /\ plan[s] < s.end
        /\ r.start = plan[s] /\ r.end = s.end
    BY RemainderFields
  <2>2. r.bytes = s.bytes - Slice(s.bytes, s.end - s.start, 0, plan[s] - s.start)
    BY RemainderFields
  <2> QED BY <2>1, <2>2
<1>2. /\ s.start \in Nat /\ s.end \in Nat /\ plan[s] \in Nat /\ s.start < plan[s]
      /\ d \in Nat \ {0} /\ v \in Nat /\ A \in Nat
  BY <1>1, PlannedFields
<1>3. CASE ms
  <2>1. v = d /\ SampleVal(ms, r) = s.end - plan[s]
    BY <1>1, <1>3 DEF SampleVal
  <2>2. (v * A) \div d = A
    <3> HIDE DEF v, d, A
    <3> QED BY <1>2, <2>1, QuotientOfMultiple
  <2>3. v - A = s.end - plan[s]
    BY <1>2, <2>1
  <2> QED BY <2>1, <2>2, <2>3
<1>4. CASE ~ms
  <2>1. v = s.bytes /\ SampleVal(ms, r) = v - Slice(v, d, 0, A)
    BY <1>1, <1>4 DEF SampleVal
  <2>2. Slice(v, d, 0, A) = (v * A) \div d
    <3> HIDE DEF v, d, A
    <3>1. (v * 0) \div d = 0
      <4>1. v * 0 = d * 0
        BY <1>2
      <4> QED BY <1>2, <4>1, QuotientOfMultiple
    <3>2. (v * A) \div d \in Int
      <4>1. v * A \in Int
        BY <1>2
      <4> QED BY <1>2, <4>1, QuotientFits
    <3> QED BY <3>1, <3>2 DEF Slice
  <2> QED BY <2>1, <2>2
<1> QED BY <1>3, <1>4

(* Rolling up a part of a sample changes what comes before x only when x    *)
(* cuts the sample, and then by a rounding of its bytes.                    *)
LEMMA SampleChange ==
    ASSUME TypeOK, SamplesApart, NEW plan, Consumes(plan), NEW s \in DOMAIN plan, NEW ms \in BOOLEAN,
           NEW x \in Nat
    PROVE  /\ Change(ms, plan, s, x) \in -1 .. 0
           /\ x <= s.start \/ s.end <= x \/ ms => Change(ms, plan, s, x) = 0
<1> DEFINE v == SampleVal(ms, s)
           a == s.start
           p == plan[s]
           b == s.end
<1>1. /\ s \in samples /\ a \in Nat /\ b \in Nat /\ p \in Nat /\ a < p /\ p <= b
      /\ b - a \in Nat \ {0} /\ v \in Nat
  BY PlannedFields
<1>2. Upto(ms, Contribution(s), x) = Part(v, a, b, b - a, x)
  BY <1>1, SampleFields, ContributionUpto
<1>3. s \in Cut(plan) <=> p < b
  BY DEF Cut
<1>4. p < b => Upto(ms, Contribution(Remainder(s, p)), x)
                 = Part(v - (v * (p - a)) \div (b - a), p, b, b - p, x)
  <2> SUFFICES ASSUME s \in Cut(plan), NEW r, r = Remainder(s, plan[s])
               PROVE  Upto(ms, Contribution(r), x)
                        = Part(v - (v * (p - a)) \div (b - a), p, b, b - p, x)
    BY <1>3
  <2>1. r \in Samples /\ r.start = p /\ r.end = b
    BY RemainderFields
  <2>2. SampleVal(ms, r) = v - (v * (p - a)) \div (b - a)
    BY RemainderVal
  <2>3. Upto(ms, Contribution(r), x) = Part(SampleVal(ms, r), r.start, r.end, r.end - r.start, x)
    BY <2>1, ContributionUpto
  <2> QED BY <2>1, <2>2, <2>3
<1>5. SampleUpto(ms, plan, s, x) = Part(v, a, p, b - a, x)
  BY DEF SampleUpto
<1>6. Change(ms, plan, s, x) = Pieced(v, a, p, b, x) - Part(v, a, b, b - a, x)
  <2> DEFINE one == Part(v, a, p, b - a, x)
             two == Part(v - (v * (p - a)) \div (b - a), p, b, b - p, x)
             all == Part(v, a, b, b - a, x)
  <2>1. Pieced(v, a, p, b, x) = one + (IF p < b THEN two ELSE 0)
    BY DEF Pieced
  <2>2. Change(ms, plan, s, x) = (one + (IF p < b THEN two ELSE 0)) - all
    <3>1. Change(ms, plan, s, x) =
            (SampleUpto(ms, plan, s, x)
             + (IF p < b THEN Upto(ms, Contribution(Remainder(s, p)), x) ELSE 0))
            - Upto(ms, Contribution(s), x)
      BY <1>3 DEF Change
    <3>2. SampleUpto(ms, plan, s, x) = one /\ Upto(ms, Contribution(s), x) = all
      BY <1>2, <1>5
    <3>3. p < b => Upto(ms, Contribution(Remainder(s, p)), x) = two
      BY <1>4
    <3> HIDE DEF one, two, all, v, b, p
    <3> QED BY <3>1, <3>2, <3>3
  <2>3. Part(v, a, b, b - a, x) = all
    OBVIOUS
  <2> HIDE DEF one, two, all, v, a, p, b
  <2> QED BY <2>1, <2>2, <2>3
<1>7. ms => v = b - a
  BY DEF SampleVal
<1>8. Part(v, a, b, b - a, x) \in Int
  <2> DEFINE d == b - a
  <2>1. d \in Nat \ {0} /\ a <= b
    BY <1>1
  <2> HIDE DEF d, v, a, b
  <2>2. Part(v, a, b, d, x) \in Nat
    BY <1>1, <2>1, PartStarts
  <2> QED BY <2>2 DEF d
<1> HIDE DEF v, a, p, b
<1>9. /\ Pieced(v, a, p, b, x) - Part(v, a, b, b - a, x) \in -1 .. 0
      /\ x <= a \/ b <= x => Pieced(v, a, p, b, x) = Part(v, a, b, b - a, x)
      /\ v = b - a => Pieced(v, a, p, b, x) = Part(v, a, b, b - a, x)
  BY <1>1, CutInTwo
<1> QED BY <1>6, <1>7, <1>8, <1>9 DEF a, b

(* A sum to which only one element contributes *)
LEMMA SumOfAtMostOne ==
    ASSUME NEW S, IsFiniteSet(S), NEW f, \A s \in S : f[s] \in -1 .. 0,
           \A s, t \in S : f[s] # 0 /\ f[t] # 0 => s = t
    PROVE  /\ SumFunctionOnSet(f, S) \in -1 .. 0
           /\ (\A s \in S : f[s] = 0) => SumFunctionOnSet(f, S) = 0
<1>1. CASE \A s \in S : f[s] = 0
  <2>1. (\A s \in S : f[s] \in Int) /\ (\A s \in S \ {} : f[s] = 0) /\ {} \in SUBSET S
    BY <1>1
  <2>2. SumFunctionOnSet(f, S) = SumFunctionOnSet(f, {})
    BY <2>1, SumOfPart
  <2> QED BY <2>2, SumEmpty
<1>2. CASE ~(\A s \in S : f[s] = 0)
  <2>1. PICK s \in S : f[s] # 0
    BY <1>2
  <2>2. (\A t \in S : f[t] \in Int) /\ (\A t \in S \ {s} : f[t] = 0) /\ {s} \in SUBSET S /\ f[s] \in Int
    BY <2>1
  <2>3. SumFunctionOnSet(f, S) = SumFunctionOnSet(f, {s})
    BY <2>2, SumOfPart
  <2>4. SumFunctionOnSet(f, {s}) = f[s]
    BY <2>2, SumOfOne
  <2> QED BY <1>2, <2>1, <2>3, <2>4
<1> QED BY <1>1, <1>2

SamplePart(ms, i, s, x) == IF s.iface = i THEN Upto(ms, Contribution(s), x) ELSE 0

(* The part of a sample is a number.                                        *)
LEMMA SamplePartIsInt ==
    ASSUME NEW s \in Samples, s.start < s.end, NEW ms \in BOOLEAN, NEW i, NEW x \in Nat
    PROVE  /\ SamplePart(ms, i, s, x) \in Nat
           /\ s.iface = i => Upto(ms, Contribution(s), x) \in Nat
<1> DEFINE v == SampleVal(ms, s)
           a == s.start
           b == s.end
           d == b - a
<1>1. a \in Nat /\ b \in Nat /\ s.bytes \in Nat
  BY DEF Samples, Times
<1>2. a <= b /\ d \in Nat \ {0}
  BY <1>1
<1>3. v \in Nat
  BY <1>1, <1>2 DEF SampleVal
<1>4. Upto(ms, Contribution(s), x) = Part(v, a, b, d, x)
  BY ContributionUpto
<1> HIDE DEF v, a, b, d
<1>5. Part(v, a, b, d, x) \in Nat
  BY <1>1, <1>2, <1>3, PartStarts
<1> QED BY <1>4, <1>5 DEF SamplePart

(* A table of samples and one of rollups *)
Tables(ss, rr) == Apart(ss) /\ ss \subseteq Samples /\ Rolled(rr) /\ rr \subseteq Rollups

(* g holds the parts of the samples before x, and v the values of the rows. *)
Shares(ms, ss, rr, i, x, g, v) ==
    /\ \A s \in ss : g[s] = SamplePart(ms, i, s, x)
    /\ \A c \in rr : v[c] = Val(ms, c)

(* What the rows of an interface hold before a bucket *)
LEMMA RowsBefore ==
    ASSUME NEW ss, NEW rr, Tables(ss, rr),
           NEW i, NEW K \in Nat, NEW x, x = BucketSize * K, NEW ms \in BOOLEAN,
           NEW g, NEW v, Shares(ms, ss, rr, i, x, g, v)
    PROVE  /\ SumBefore(ms, RowsOf(ss, rr, i), x) =
                SumFunctionOnSet(v, Below(rr, i, K)) + SumFunctionOnSet(g, ss)
           /\ SumFunctionOnSet(v, Below(rr, i, K)) \in Int
           /\ SumFunctionOnSet(g, ss) \in Int
           /\ \A s \in ss : g[s] \in Int
<1> DEFINE rows == RowsOf(ss, rr, i)
           w == Uptos(ms, rows, x)
           u == [c \in rr |-> Upto(ms, c, x)]
           f == [s \in ss |-> IF s.iface = i THEN w[Contribution(s)] ELSE 0]
<1>0. /\ Apart(ss) /\ ss \subseteq Samples /\ Rolled(rr) /\ rr \subseteq Rollups
      /\ \A s \in ss : g[s] = SamplePart(ms, i, s, x)
      /\ \A c \in rr : v[c] = Val(ms, c)
  BY DEF Tables, Shares
<1>1. x \in Nat /\ IsFiniteSet(ss) /\ IsFiniteSet(rr) /\ \A s \in ss : s \in Samples /\ s.start < s.end
  BY <1>0, HistoryConstants DEF Apart, Rolled
<1>2. \A s \in ss : s.iface = i => Contribution(s) \in rows /\ w[Contribution(s)] = Upto(ms, Contribution(s), x)
  <2> SUFFICES ASSUME NEW s \in ss, s.iface = i
               PROVE  Contribution(s) \in rows /\ w[Contribution(s)] = Upto(ms, Contribution(s), x)
    OBVIOUS
  <2>1. Contribution(s).iface = i
    BY <1>1, ContributionOf
  <2>2. Contribution(s) \in {Contribution(t) : t \in ss}
    OBVIOUS
  <2>3. Contribution(s) \in rows
    <3> HIDE DEF w, u, f
    <3> QED BY <2>1, <2>2 DEF RowsOf
  <2> HIDE DEF rows
  <2> QED BY <2>3 DEF Uptos
<1>3. \A c \in rr : u[c] = Upto(ms, c, x) /\ Upto(ms, c, x) \in Nat
  BY <1>0, <1>1, RolledRow, UptoIs
<1>4. \A s \in ss : f[s] = SamplePart(ms, i, s, x) /\ f[s] = g[s] /\ g[s] \in Int
  <2> SUFFICES ASSUME NEW s \in ss PROVE f[s] = SamplePart(ms, i, s, x) /\ f[s] = g[s] /\ g[s] \in Int
    OBVIOUS
  <2>1. SamplePart(ms, i, s, x) \in Nat
    BY <1>1, SamplePartIsInt
  <2>2. f[s] = IF s.iface = i THEN w[Contribution(s)] ELSE 0
    OBVIOUS
  <2> HIDE DEF f, w, rows
  <2> QED BY <1>0, <1>2, <2>1, <2>2 DEF SamplePart
<1>5. \A c \in rows : w[c] \in Int
  <2> SUFFICES ASSUME NEW c \in rows PROVE w[c] \in Int
    OBVIOUS
  <2>1. w[c] = Upto(ms, c, x)
    <3> HIDE DEF rows
    <3> QED BY DEF Uptos
  <2>2. c.iface = i /\ (c \in rr \/ \E s \in ss : c = Contribution(s))
    BY DEF RowsOf
  <2> HIDE DEF w, rows, u, f
  <2>3. CASE c \in rr
    BY <1>3, <2>1, <2>3
  <2>4. CASE \E s \in ss : c = Contribution(s)
    <3>1. PICK s \in ss : c = Contribution(s)
      BY <2>4
    <3>2. s.iface = i
      BY <1>1, <2>2, <3>1, ContributionOf
    <3> QED BY <1>1, <2>1, <3>1, <3>2, SamplePartIsInt
  <2> QED BY <2>2, <2>3, <2>4
<1>6. \A c \in RollupsOf(rr, i) : u[c] = w[c] /\ c \in rr /\ u[c] \in Int
  <2>1. RollupsOf(rr, i) \subseteq rows /\ RollupsOf(rr, i) \subseteq rr
    BY DEF RollupsOf, RowsOf
  <2>2. \A c \in rows : w[c] = Upto(ms, c, x)
    <3> HIDE DEF rows
    <3> QED BY DEF Uptos
  <2> HIDE DEF rows, w, u
  <2> QED BY <1>3, <2>1, <2>2
<1>7. SumBefore(ms, rows, x) = SumFunctionOnSet(w, rows)
  BY DEF SumBefore
<1>8. \A s \in ss : f[s] = IF s.iface = i THEN w[Contribution(s)] ELSE 0
  OBVIOUS
<1> HIDE DEF w, u, f
<1>9. /\ SumFunctionOnSet(w, rows) = SumFunctionOnSet(w, RollupsOf(rr, i)) + SumFunctionOnSet(f, ss)
  BY <1>0, <1>1, <1>5, <1>8, RowsSplit
<1>10. SumFunctionOnSet(u, RollupsOf(rr, i)) = SumFunctionOnSet(w, RollupsOf(rr, i))
  <2>1. IsFiniteSet(RollupsOf(rr, i))
    <3>1. RollupsOf(rr, i) \in SUBSET rr
      BY DEF RollupsOf
    <3> QED BY <1>1, <3>1, FS_Subset
  <2> QED BY <1>6, <2>1, SumSame
<1>11. /\ SumFunctionOnSet(u, RollupsOf(rr, i)) = SumFunctionOnSet(v, Below(rr, i, K))
       /\ SumFunctionOnSet(v, Below(rr, i, K)) \in Int
  <2>1. \A c \in rr : u[c] = Upto(ms, c, x)
    BY <1>3
  <2> QED BY <1>0, <2>1, RollupsUpto
<1>12. SumFunctionOnSet(f, ss) = SumFunctionOnSet(g, ss) /\ SumFunctionOnSet(g, ss) \in Int
  <2>1. \A s \in ss : g[s] \in Int /\ f[s] \in Int /\ f[s] = g[s]
    BY <1>4
  <2> QED BY <1>1, <2>1, SumSame, SumRemove
<1> QED BY <1>4, <1>7, <1>9, <1>10, <1>11, <1>12

Moved(ms, plan, i, s, x) == IF s \in Mine(plan, i) THEN Change(ms, plan, s, x) ELSE 0
RolledPart(ms, plan, i, s, x) == IF s \in Mine(plan, i) THEN SampleUpto(ms, plan, s, x) ELSE 0
LeftPart(ms, plan, i, s, x) ==
    IF s \notin DOMAIN plan THEN SamplePart(ms, i, s, x)
    ELSE IF s \in Cut(plan) THEN SamplePart(ms, i, Remainder(s, plan[s]), x) ELSE 0

(* What a batch takes from the samples before x it adds to the rows, but    *)
(* for the rounding.                                                        *)
LEMMA MovedIs ==
    ASSUME TypeOK, SamplesApart, NEW plan, Consumes(plan), NEW i, NEW s \in samples, NEW ms \in BOOLEAN,
           NEW x \in Nat
    PROVE  /\ RolledPart(ms, plan, i, s, x) \in Int
           /\ LeftPart(ms, plan, i, s, x) \in Int
           /\ SamplePart(ms, i, s, x) \in Int
           /\ Moved(ms, plan, i, s, x) \in -1 .. 0
           /\ RolledPart(ms, plan, i, s, x) + LeftPart(ms, plan, i, s, x)
                = Moved(ms, plan, i, s, x) + SamplePart(ms, i, s, x)
           /\ Moved(ms, plan, i, s, x) # 0 =>
                ~ms /\ s.iface = i /\ s.start < x /\ x < s.end
<1>1. SamplePart(ms, i, s, x) \in Nat /\ (s.iface = i => Upto(ms, Contribution(s), x) \in Nat)
      /\ s.start \in Nat /\ s.end \in Nat
  BY SamplePartIsInt, SampleFields DEF SamplesApart
<1>2. CASE s \notin DOMAIN plan
  <2>1. s \notin Mine(plan, i)
    BY <1>2 DEF Mine
  <2> QED BY <1>1, <1>2, <2>1 DEF RolledPart, LeftPart, Moved
<1>3. CASE s \in DOMAIN plan
  <2>1. s \in Cut(plan) =>
          /\ SamplePart(ms, i, Remainder(s, plan[s]), x) \in Nat
          /\ Remainder(s, plan[s]).iface = s.iface
          /\ s.iface = i => Upto(ms, Contribution(Remainder(s, plan[s])), x) \in Nat
    <3> SUFFICES ASSUME s \in Cut(plan), NEW r, r = Remainder(s, plan[s])
                 PROVE  SamplePart(ms, i, r, x) \in Nat /\ r.iface = s.iface
                        /\ (s.iface = i => Upto(ms, Contribution(r), x) \in Nat)
      OBVIOUS
    <3>1. r \in Samples /\ r.iface = s.iface /\ r.start = plan[s] /\ r.end = s.end /\ plan[s] < s.end
      BY RemainderFields
    <3>2. r.start < r.end
      BY <3>1
    <3> QED BY <3>1, <3>2, SamplePartIsInt
  <2>2. CASE s.iface # i
    <3>1. s \notin Mine(plan, i)
      BY <2>2 DEF Mine
    <3>2. LeftPart(ms, plan, i, s, x) = 0 /\ SamplePart(ms, i, s, x) = 0
      BY <1>3, <2>1, <2>2 DEF LeftPart, SamplePart
    <3> QED BY <3>1, <3>2 DEF RolledPart, Moved
  <2>3. CASE s.iface = i
    <3>1. s \in Mine(plan, i)
      BY <1>3, <2>3 DEF Mine
    <3>2. /\ RolledPart(ms, plan, i, s, x) = SampleUpto(ms, plan, s, x)
          /\ Moved(ms, plan, i, s, x) = Change(ms, plan, s, x)
          /\ SamplePart(ms, i, s, x) = Upto(ms, Contribution(s), x)
      BY <2>3, <3>1 DEF RolledPart, Moved, SamplePart
    <3>3. LeftPart(ms, plan, i, s, x)
            = IF s \in Cut(plan) THEN Upto(ms, Contribution(Remainder(s, plan[s])), x) ELSE 0
      BY <1>3, <2>1, <2>3 DEF LeftPart, SamplePart
    <3>4. SampleUpto(ms, plan, s, x) \in Nat
      BY <1>3, SampleUptoIsNat
    <3>5. LeftPart(ms, plan, i, s, x) \in Nat
      BY <2>1, <2>3, <3>3
    <3>6. Change(ms, plan, s, x) =
            (SampleUpto(ms, plan, s, x) + LeftPart(ms, plan, i, s, x)) - Upto(ms, Contribution(s), x)
      BY <3>3 DEF Change
    <3>7. /\ Change(ms, plan, s, x) \in -1 .. 0
          /\ x <= s.start \/ s.end <= x \/ ms => Change(ms, plan, s, x) = 0
      BY <1>3, SampleChange
    <3>8. RolledPart(ms, plan, i, s, x) + LeftPart(ms, plan, i, s, x)
                = Moved(ms, plan, i, s, x) + SamplePart(ms, i, s, x)
      BY <1>1, <2>3, <3>2, <3>4, <3>5, <3>6
    <3> QED BY <1>1, <2>3, <3>2, <3>4, <3>5, <3>7, <3>8
  <2> QED BY <2>2, <2>3
<1> QED BY <1>2, <1>3

(* What a batch changes before a bucket: at most the rounding of the one    *)
(* sample that the boundary cuts.                                           *)
LEMMA RollupMoves ==
    ASSUME StoreInv, NEW plan, Consumes(plan), NEW cutoff, NEW i \in Interfaces, NEW K \in Nat,
           NEW x, x = BucketSize * K, NEW ms \in BOOLEAN,
           NEW old, old = SumBefore(ms, RowsOf(samples, rollups, i), x),
           NEW new, new = SumBefore(ms, RowsOf(Left(plan), Updated(Filled(plan, cutoff)), i), x)
    PROVE  /\ old \in Int /\ new \in Int
           /\ new - old \in -1 .. 0
           /\ ms => new = old
           /\ (\A s \in samples : s.iface = i => x <= s.start \/ s.end <= x) => new = old
<1> DEFINE rr == Updated(Filled(plan, cutoff))
           v == Vals(ms, rollups \cup rr)
           g == [s \in samples |-> SamplePart(ms, i, s, x)]
           l == [s \in Left(plan) |-> SamplePart(ms, i, s, x)]
           G == [s \in samples |-> LeftPart(ms, plan, i, s, x)]
           e == [s \in samples |-> RolledPart(ms, plan, i, s, x)]
           m == [s \in samples |-> Moved(ms, plan, i, s, x)]
           h == [s \in samples |-> e[s] + G[s]]
           a == [s \in DOMAIN plan |-> SampleUpto(ms, plan, s, x)]
<1>1. /\ TypeOK /\ SamplesApart /\ Apart(samples) /\ samples \subseteq Samples /\ IsFiniteSet(samples)
      /\ Rolled(rollups) /\ rollups \subseteq Rollups
      /\ x \in Nat
  BY HistoryConstants DEF StoreInv, SamplesApart, Apart, TypeOK
<1>2. Apart(Left(plan)) /\ Left(plan) \subseteq Samples /\ Rolled(rr) /\ rr \subseteq Rollups
  BY <1>1, LeftApart, UpdatedRows
<1>3. \A s \in samples :
        /\ g[s] \in Int /\ G[s] \in Int /\ e[s] \in Int /\ m[s] \in -1 .. 0 /\ m[s] \in Int
        /\ h[s] = e[s] + G[s] /\ h[s] = m[s] + g[s] /\ h[s] \in Int
        /\ m[s] # 0 => ~ms /\ s.iface = i /\ s.start < x /\ x < s.end
  <2> SUFFICES ASSUME NEW s \in samples
        PROVE
        /\ g[s] \in Int /\ G[s] \in Int /\ e[s] \in Int /\ m[s] \in -1 .. 0 /\ m[s] \in Int
        /\ h[s] = e[s] + G[s] /\ h[s] = m[s] + g[s] /\ h[s] \in Int
        /\ m[s] # 0 => ~ms /\ s.iface = i /\ s.start < x /\ x < s.end
    OBVIOUS
  <2>1. /\ e[s] = RolledPart(ms, plan, i, s, x) /\ G[s] = LeftPart(ms, plan, i, s, x)
        /\ g[s] = SamplePart(ms, i, s, x) /\ m[s] = Moved(ms, plan, i, s, x) /\ h[s] = e[s] + G[s]
    OBVIOUS
  <2>2. /\ RolledPart(ms, plan, i, s, x) \in Int
        /\ LeftPart(ms, plan, i, s, x) \in Int
        /\ SamplePart(ms, i, s, x) \in Int
        /\ Moved(ms, plan, i, s, x) \in -1 .. 0
        /\ RolledPart(ms, plan, i, s, x) + LeftPart(ms, plan, i, s, x)
             = Moved(ms, plan, i, s, x) + SamplePart(ms, i, s, x)
        /\ Moved(ms, plan, i, s, x) # 0 => ~ms /\ s.iface = i /\ s.start < x /\ x < s.end
    BY <1>1, MovedIs
  <2> HIDE DEF e, G, g, m, h
  <2> QED BY <2>1, <2>2
<1>4. \A r \in rollups \cup rr : v[r] = Val(ms, r)
  BY DEF Vals
<1>5. \A s \in Left(plan) : l[s] = SamplePart(ms, i, s, x)
  OBVIOUS
<1>6. \A s \in samples : g[s] = SamplePart(ms, i, s, x)
  OBVIOUS
<1>7. SumFunctionOnSet(l, Left(plan)) = SumFunctionOnSet(G, samples)
  <2>1. \A s \in Left(plan) : l[s] \in Int
    <3>1. \A s \in Left(plan) : s \in Samples /\ s.start < s.end
      BY <1>2 DEF Apart
    <3>2. \A s \in Left(plan) : SamplePart(ms, i, s, x) \in Nat
      BY <1>1, <3>1, SamplePartIsInt
    <3> QED BY <3>2
  <2>2. \A s \in samples \ DOMAIN plan : l[s] \in Int /\ G[s] = l[s]
    <3> SUFFICES ASSUME NEW s \in samples, s \notin DOMAIN plan PROVE l[s] \in Int /\ G[s] = l[s]
      OBVIOUS
    <3>1. s \in Left(plan)
      BY DEF Left
    <3>2. l[s] = SamplePart(ms, i, s, x) /\ G[s] = LeftPart(ms, plan, i, s, x)
      BY <3>1
    <3> HIDE DEF l, G
    <3> QED BY <2>1, <3>1, <3>2 DEF LeftPart
  <2>3. \A s \in Cut(plan) : l[Remainder(s, plan[s])] \in Int /\ G[s] = l[Remainder(s, plan[s])]
    <3> SUFFICES ASSUME NEW s \in Cut(plan), NEW r, r = Remainder(s, plan[s])
                 PROVE  l[r] \in Int /\ G[s] = l[r]
      OBVIOUS
    <3>1. s \in samples /\ s \in DOMAIN plan
      BY DEF Cut, Consumes
    <3>2. r \in Left(plan)
      BY DEF Left
    <3>3. l[r] = SamplePart(ms, i, r, x) /\ G[s] = LeftPart(ms, plan, i, s, x)
      BY <3>1, <3>2
    <3> HIDE DEF l, G
    <3> QED BY <2>1, <3>1, <3>2, <3>3 DEF LeftPart
  <2>4. \A s \in DOMAIN plan \ Cut(plan) : G[s] = 0
    <3> SUFFICES ASSUME NEW s \in DOMAIN plan, s \notin Cut(plan) PROVE G[s] = 0
      OBVIOUS
    <3>1. s \in samples
      BY DEF Consumes
    <3>2. G[s] = LeftPart(ms, plan, i, s, x)
      BY <3>1
    <3> HIDE DEF G
    <3> QED BY <3>2 DEF LeftPart
  <2> HIDE DEF l, G
  <2> QED BY <1>1, <2>2, <2>3, <2>4, LeftSum
<1>8. SumFunctionOnSet(e, samples) = Added(ms, plan, i, x)
  <2> DEFINE M == Mine(plan, i)
  <2>1. M \in SUBSET samples /\ M \subseteq DOMAIN plan
    BY DEF Mine, Consumes
  <2>2. \A s \in samples \ M : e[s] = 0
    BY DEF RolledPart
  <2>3. \A s \in M : e[s] = a[s] /\ e[s] \in Int
    <3> SUFFICES ASSUME NEW s \in M PROVE e[s] = a[s]
      BY <1>3, <2>1
    <3>1. s \in samples /\ s \in DOMAIN plan
      BY <2>1
    <3>2. e[s] = RolledPart(ms, plan, i, s, x) /\ a[s] = SampleUpto(ms, plan, s, x)
      BY <3>1
    <3> HIDE DEF e, a
    <3> QED BY <3>2 DEF RolledPart
  <2>4. Added(ms, plan, i, x) = SumFunctionOnSet(a, M)
    BY DEF Added
  <2> HIDE DEF e, a, M
  <2>5. IsFiniteSet(M)
    BY <1>1, <2>1, FS_Subset
  <2>6. SumFunctionOnSet(e, samples) = SumFunctionOnSet(e, M)
    <3>1. \A s \in samples : e[s] \in Int
      BY <1>3
    <3> QED BY <1>1, <2>1, <2>2, <3>1, SumOfPart
  <2>7. SumFunctionOnSet(e, M) = SumFunctionOnSet(a, M)
    BY <2>3, <2>5, SumSame
  <2> QED BY <2>4, <2>6, <2>7
<1> HIDE DEF v, g, l, G, e, m, h, a
<1>9. /\ old = SumFunctionOnSet(v, Below(rollups, i, K)) + SumFunctionOnSet(g, samples)
      /\ SumFunctionOnSet(v, Below(rollups, i, K)) \in Int /\ SumFunctionOnSet(g, samples) \in Int
  <2>1. Tables(samples, rollups) /\ Shares(ms, samples, rollups, i, x, g, v)
    BY <1>1, <1>4, <1>6 DEF Tables, Shares
  <2> QED BY <2>1, RowsBefore
<1>10. /\ new = SumFunctionOnSet(v, Below(rr, i, K)) + SumFunctionOnSet(l, Left(plan))
       /\ SumFunctionOnSet(v, Below(rr, i, K)) \in Int /\ SumFunctionOnSet(l, Left(plan)) \in Int
  <2>1. PICK q, ss : q = rr /\ ss = Left(plan)
    OBVIOUS
  <2>2. Tables(ss, q) /\ Shares(ms, ss, q, i, x, l, v)
    BY <1>2, <1>4, <1>5, <2>1 DEF Tables, Shares
  <2>5. /\ SumBefore(ms, RowsOf(ss, q, i), x) =
             SumFunctionOnSet(v, Below(q, i, K)) + SumFunctionOnSet(l, ss)
        /\ SumFunctionOnSet(v, Below(q, i, K)) \in Int /\ SumFunctionOnSet(l, ss) \in Int
    BY <2>2, RowsBefore
  <2>6. new = SumBefore(ms, RowsOf(ss, q, i), x)
    BY <2>1
  <2> HIDE DEF rr
  <2> QED BY <2>1, <2>5, <2>6
<1>11. /\ SumFunctionOnSet(v, Below(rr, i, K)) =
            SumFunctionOnSet(v, Below(rollups, i, K)) + Added(ms, plan, i, x)
       /\ Added(ms, plan, i, x) \in Int
  <2>1. PICK q : q = rr
    OBVIOUS
  <2>2. q = Updated(Filled(plan, cutoff)) /\ \A r \in rollups \cup q : v[r] = Val(ms, r)
    BY <1>4, <2>1
  <2>3. /\ SumFunctionOnSet(v, Below(q, i, K)) =
            SumFunctionOnSet(v, Below(rollups, i, K)) + Added(ms, plan, i, BucketSize * K)
        /\ Added(ms, plan, i, BucketSize * K) \in Int
    BY <2>2, RollupsAfter
  <2> HIDE DEF rr
  <2> QED BY <2>1, <2>3
<1>12. /\ SumFunctionOnSet(h, samples) = SumFunctionOnSet(e, samples) + SumFunctionOnSet(G, samples)
       /\ SumFunctionOnSet(h, samples) = SumFunctionOnSet(m, samples) + SumFunctionOnSet(g, samples)
  <2>1. \A s \in samples : e[s] \in Int /\ G[s] \in Int /\ h[s] = e[s] + G[s]
    BY <1>3
  <2>2. \A s \in samples : m[s] \in Int /\ g[s] \in Int /\ h[s] = m[s] + g[s]
    BY <1>3
  <2> QED BY <1>1, <2>1, <2>2, SumAdds
<1>13. /\ SumFunctionOnSet(m, samples) \in -1 .. 0
       /\ (\A s \in samples : m[s] = 0) => SumFunctionOnSet(m, samples) = 0
  <2>1. \A s, t \in samples : m[s] # 0 /\ m[t] # 0 => s = t
    <3> SUFFICES ASSUME NEW s \in samples, NEW t \in samples, m[s] # 0, m[t] # 0 PROVE s = t
      OBVIOUS
    <3>1. s.iface = i /\ s.start < x /\ x < s.end /\ t.iface = i /\ t.start < x /\ x < t.end
      BY <1>3
    <3>2. s = t \/ s.end <= t.start \/ t.end <= s.start
      BY <1>1, <3>1 DEF SamplesApart
    <3>3. s.start \in Nat /\ s.end \in Nat /\ t.start \in Nat /\ t.end \in Nat
      BY <1>1, SampleFields
    <3> QED BY <1>1, <3>1, <3>2, <3>3
  <2>2. \A s \in samples : m[s] \in -1 .. 0
    BY <1>3
  <2> QED BY <1>1, <2>1, <2>2, SumOfAtMostOne
<1> HIDE DEF rr
<1>14. new = old + SumFunctionOnSet(m, samples) /\ SumFunctionOnSet(m, samples) \in Int /\ old \in Int
  BY <1>7, <1>8, <1>9, <1>10, <1>11, <1>12, <1>13
<1>15. ms => \A s \in samples : m[s] = 0
  BY <1>3
<1>16. (\A s \in samples : s.iface = i => x <= s.start \/ s.end <= x) => \A s \in samples : m[s] = 0
  <2> SUFFICES ASSUME \A s \in samples : s.iface = i => x <= s.start \/ s.end <= x, NEW s \in samples, m[s] # 0
               PROVE  FALSE
    OBVIOUS
  <2>1. s.iface = i /\ s.start < x /\ x < s.end
    BY <1>3
  <2>2. s.start \in Nat /\ s.end \in Nat
    BY <1>1, SampleFields
  <2> QED BY <1>1, <2>1, <2>2
<1> QED BY <1>13, <1>14, <1>15, <1>16

(* A time that is a multiple of the bucket size starts a bucket.            *)
LEMMA MultipleOf ==
    ASSUME NEW x \in Nat, NEW d \in Nat \ {0}, x % d = 0
    PROVE  x = d * (x \div d) /\ x \div d \in Nat
<1>1. x % d = x - d * (x \div d)
  OBVIOUS
<1>2. x \div d \in Nat /\ d * (x \div d) \in Nat
  <2>1. x \div d \in Nat
    BY QuotientFits
  <2> QED BY <2>1
<1> QED BY <1>1, <1>2

(* What comes before x, in bytes and in time.                               *)
LEMMA SumBeforeIs ==
    ASSUME NEW rows, NEW x
    PROVE  /\ SumBefore(FALSE, rows, x) = BytesBefore(rows, x)
           /\ SumBefore(TRUE, rows, x) = MsBefore(rows, x)
<1>1. Uptos(FALSE, rows, x) = [c \in rows |-> BytesUpto(c, x)]
  BY DEF Uptos, Upto, Val, BytesUpto
<1>2. Uptos(TRUE, rows, x) = [c \in rows |-> MsUpto(c, x)]
  BY DEF Uptos, Upto, Val, MsUpto
<1> QED BY <1>1, <1>2 DEF SumBefore, BytesBefore, MsBefore

GoodTables == \A i \in Interfaces : GoodRows(Rows(i))

(* In a sound store the rows of every interface are good.                   *)
LEMMA TablesAreGood == StoreInv => GoodTables
BY RowsAreGood DEF GoodTables

(* The rows of an interface by the tables they come from.                   *)
LEMMA RowsAre == ASSUME NEW i PROVE Rows(i) = RowsOf(samples, rollups, i)
BY DEF Rows, RowsOf

(* What a maintenance without error does *)
LEMMA RollupIs ==
    ASSUME StoreInv, Rollup
    PROVE  \E plan, cutoff :
             /\ Consumes(plan)
             /\ samples' = Left(plan) /\ rollups' = Updated(Filled(plan, cutoff))
<1>1. RawCutoff \in Nat /\ TypeOK /\ SamplesApart
  BY CutoffsAreTimes DEF StoreInv
<1>2. PICK cutoff : cutoff = RawCutoff
  OBVIOUS
<1>3. PICK plan : plan = Plan(cutoff)
  OBVIOUS
<1>4. Consumes(plan)
  BY <1>1, <1>2, <1>3, PlanConsumes
<1>5. ~Refused(plan, Filled(plan, cutoff))
  BY <1>4, NotRefused
<1>6. RolledUp(plan, Filled(plan, cutoff))
  BY <1>2, <1>3, <1>5 DEF Rollup
<1> QED BY <1>4, <1>6, RolledUpIs

(* The totals of a range of buckets, before and after a rollup *)
TotalsKept(i) ==
    LET old == Rows(i)
        new == Rows(i)' IN
    \A r \in {q \in Ranges : q[1] % BucketSize = 0 /\ q[2] % BucketSize = 0} :
        LET before == Totals(old, r[1], r[2])
            after  == Totals(new, r[1], r[2]) IN
        /\ after.covered_ms = before.covered_ms
        /\ after.bytes - before.bytes \in -2 .. 2

(* Both ends of the range cut one sample at most, and each rounds once.     *)
LEMMA RollupTotals ==
    ASSUME StoreInv, GoodTables', Rollup, NEW i \in Interfaces
    PROVE  TotalsKept(i)
<1>1. PICK plan, cutoff :
        /\ Consumes(plan)
        /\ samples' = Left(plan) /\ rollups' = Updated(Filled(plan, cutoff))
  BY RollupIs
<1>2. PICK old : old = Rows(i)
  OBVIOUS
<1>3. PICK new : new = Rows(i)'
  OBVIOUS
<1>4. GoodRows(old) /\ GoodRows(new)
  BY <1>2, <1>3, RowsAreGood DEF GoodTables
<1>5. old = RowsOf(samples, rollups, i)
  BY <1>2, RowsAre
<1>6. new = RowsOf(Left(plan), Updated(Filled(plan, cutoff)), i)
  <2>1. Rows(i)' = RowsOf(samples', rollups', i)
    BY DEF Rows, RowsOf
  <2> QED BY <1>1, <1>3, <2>1
<1>6a. ASSUME NEW x \in Nat, x % BucketSize = 0, NEW ms \in BOOLEAN
      PROVE  /\ SumBefore(ms, old, x) \in Int /\ SumBefore(ms, new, x) \in Int
             /\ SumBefore(ms, new, x) - SumBefore(ms, old, x) \in -1 .. 0
             /\ ms => SumBefore(ms, new, x) = SumBefore(ms, old, x)
  <2>1. PICK K \in Nat : x = BucketSize * K
    BY <1>6a, MultipleOf, HistoryConstants
  <2>2. PICK a, b : a = SumBefore(ms, old, x) /\ b = SumBefore(ms, new, x)
    OBVIOUS
  <2>3. a = SumBefore(ms, RowsOf(samples, rollups, i), x)
    BY <1>5, <2>2
  <2>4. b = SumBefore(ms, RowsOf(Left(plan), Updated(Filled(plan, cutoff)), i), x)
    BY <1>6, <2>2
  <2>5. Consumes(plan)
    BY <1>1
  <2>6. a \in Int /\ b \in Int /\ b - a \in -1 .. 0 /\ (ms => b = a)
    BY <2>1, <2>3, <2>4, <2>5, RollupMoves
  <2> QED BY <2>2, <2>6
<1>7. ASSUME NEW x \in Nat, x % BucketSize = 0
      PROVE  /\ BytesBefore(old, x) \in Int /\ BytesBefore(new, x) \in Int
             /\ BytesBefore(new, x) - BytesBefore(old, x) \in -1 .. 0
             /\ MsBefore(new, x) = MsBefore(old, x)
  <2>1. /\ SumBefore(FALSE, old, x) \in Int /\ SumBefore(FALSE, new, x) \in Int
        /\ SumBefore(FALSE, new, x) - SumBefore(FALSE, old, x) \in -1 .. 0
    BY <1>6a, <1>7
  <2>2. SumBefore(TRUE, new, x) = SumBefore(TRUE, old, x)
    BY <1>6a, <1>7
  <2> QED BY <2>1, <2>2, SumBeforeIs
<1>8. ASSUME NEW from \in Nat, NEW to \in Nat, from < to, from % BucketSize = 0, to % BucketSize = 0
      PROVE  /\ Totals(new, from, to).covered_ms = Totals(old, from, to).covered_ms
             /\ Totals(new, from, to).bytes - Totals(old, from, to).bytes \in -2 .. 2
  <2>1. from <= to
    BY <1>8
  <2>2. /\ Totals(old, from, to).bytes = BytesBefore(old, to) - BytesBefore(old, from)
        /\ Totals(old, from, to).covered_ms = MsBefore(old, to) - MsBefore(old, from)
    BY <1>4, <2>1, TotalsAreDifferences
  <2>3. /\ Totals(new, from, to).bytes = BytesBefore(new, to) - BytesBefore(new, from)
        /\ Totals(new, from, to).covered_ms = MsBefore(new, to) - MsBefore(new, from)
    BY <1>4, <2>1, TotalsAreDifferences
  <2>4. /\ BytesBefore(old, from) \in Int /\ BytesBefore(new, from) \in Int
        /\ BytesBefore(new, from) - BytesBefore(old, from) \in -1 .. 0
        /\ MsBefore(new, from) = MsBefore(old, from)
    BY <1>7, <1>8
  <2>5. /\ BytesBefore(old, to) \in Int /\ BytesBefore(new, to) \in Int
        /\ BytesBefore(new, to) - BytesBefore(old, to) \in -1 .. 0
        /\ MsBefore(new, to) = MsBefore(old, to)
    BY <1>7, <1>8
  <2> QED BY <2>2, <2>3, <2>4, <2>5
<1>9. \A r \in Ranges : r[1] \in Nat /\ r[2] \in Nat /\ r[1] < r[2]
  BY DEF Ranges, Times
<1> QED BY <1>2, <1>3, <1>8, <1>9 DEF TotalsKept

(* Rolling up moves the bytes of a range of buckets by the rounding of one  *)
(* sample at each of its ends, and no covered time (proportional_slice,     *)
(* add_segment).                                                            *)
THEOREM RollupKeepsTheTotals == Spec => RollupKeepsTotals
<1>1. StoreInv /\ [Next]_vars => StoreInv'
  BY StoreStep
<1>2. StoreInv' => GoodTables'
  BY TablesAreGood, PTL
<1>3. StoreInv /\ GoodTables' /\ Rollup => \A i \in Interfaces : TotalsKept(i)
  BY RollupTotals
<1>4. StoreInv /\ StoreInv' /\ [Next]_vars =>
        [Rollup => \A i \in Interfaces :
          LET old == Rows(i)
              new == Rows(i)' IN
          \A r \in {q \in Ranges : q[1] % BucketSize = 0 /\ q[2] % BucketSize = 0} :
              LET before == Totals(old, r[1], r[2])
                  after  == Totals(new, r[1], r[2]) IN
              /\ after.covered_ms = before.covered_ms
              /\ after.bytes - before.bytes \in -2 .. 2]_vars
  BY <1>2, <1>3 DEF TotalsKept
<1> QED BY <1>1, <1>4, StoreStarts, PTL DEF Spec, RollupKeepsTotals

-----------------------------------------------------------------------------
(* Completeness. What was recorded and reaches beyond a boundary is what    *)
(* the rows hold beyond it. To be inductive this is said of every boundary  *)
(* between buckets that cuts no recorded sample, for bytes and for time,    *)
(* and with the origin of every stored sample.                              *)

(* What reaches beyond x *)
After(rows, x) == {c \in rows : c.end > x}
Of(ss, i)      == {s \in ss : s.iface = i}
Theirs(ms, ss) == [s \in ss |-> SampleVal(ms, s)]
Settled(rows, x) == \A c \in rows : c.end <= x \/ x <= c.start

(* When x cuts no row, what comes after x is what does not come before it.  *)
LEMMA AfterIsDifference ==
    ASSUME NEW rows, GoodRows(rows), NEW x \in Nat, NEW y \in Nat, Settled(rows, x),
           \A c \in rows : c.end <= y, NEW ms \in BOOLEAN
    PROVE  /\ SumBefore(ms, rows, y) - SumBefore(ms, rows, x) =
                SumFunctionOnSet(Vals(ms, rows), After(rows, x))
           /\ SumBefore(ms, rows, y) \in Int /\ SumBefore(ms, rows, x) \in Int
           /\ SumFunctionOnSet(Vals(ms, rows), After(rows, x)) \in Int
<1> DEFINE fy == Uptos(ms, rows, y)
           fx == Uptos(ms, rows, x)
           v  == Vals(ms, rows)
           d  == [c \in rows |-> fy[c] - fx[c]]
           A  == After(rows, x)
<1>1. IsFiniteSet(rows) /\ \A c \in rows : GoodRow(c)
  BY DEF GoodRows
<1>2. \A c \in rows : fy[c] = Upto(ms, c, y) /\ fx[c] = Upto(ms, c, x) /\ v[c] = Val(ms, c)
  BY DEF Uptos, Vals
<1>3. \A c \in rows : d[c] = fy[c] - fx[c]
  OBVIOUS
<1>4. A \in SUBSET rows /\ \A c \in rows : c \in A <=> c.end > x
  BY DEF After
<1>5. SumBefore(ms, rows, y) = SumFunctionOnSet(fy, rows) /\ SumBefore(ms, rows, x) = SumFunctionOnSet(fx, rows)
  BY DEF SumBefore
<1> HIDE DEF fy, fx, v, d, A
<1>6. \A c \in rows : /\ fy[c] \in Int /\ fx[c] \in Int /\ v[c] \in Int /\ d[c] \in Int
                      /\ c \in A => d[c] = v[c]
                      /\ c \notin A => d[c] = 0
  <2> SUFFICES ASSUME NEW c \in rows
        PROVE /\ fy[c] \in Int /\ fx[c] \in Int /\ v[c] \in Int /\ d[c] \in Int
              /\ c \in A => d[c] = v[c]
              /\ c \notin A => d[c] = 0
    OBVIOUS
  <2>1. GoodRow(c) /\ c.end <= y /\ (c.end <= x \/ x <= c.start)
        /\ c.start \in Nat /\ c.end \in Nat /\ c.start < c.end
    BY <1>1 DEF Settled, GoodRow
  <2>2. /\ Val(ms, c) \in Nat
        /\ Upto(ms, c, y) \in Nat
        /\ c.end <= y => Upto(ms, c, y) = Val(ms, c)
    BY <2>1, UptoIs
  <2>3. /\ Upto(ms, c, x) \in Nat
        /\ x <= c.start => Upto(ms, c, x) = 0
        /\ c.end <= x => Upto(ms, c, x) = Val(ms, c)
    BY <2>1, UptoIs
  <2> QED BY <1>2, <1>3, <1>4, <2>1, <2>2, <2>3
<1>7. IsFiniteSet(A)
  BY <1>1, <1>4, FS_Subset
<1>8. /\ SumFunctionOnSet(d, rows) = SumFunctionOnSet(fy, rows) - SumFunctionOnSet(fx, rows)
      /\ SumFunctionOnSet(fy, rows) \in Int /\ SumFunctionOnSet(fx, rows) \in Int
  <2>1. \A c \in rows : fy[c] \in Int /\ fx[c] \in Int /\ d[c] = fy[c] - fx[c]
    BY <1>3, <1>6
  <2> QED BY <1>1, <2>1, SumSubtracts
<1>9. SumFunctionOnSet(d, rows) = SumFunctionOnSet(d, A)
  <2>1. (\A c \in rows : d[c] \in Int) /\ (\A c \in rows \ A : d[c] = 0)
    BY <1>6
  <2> QED BY <1>1, <1>4, <2>1, SumOfPart
<1>10. SumFunctionOnSet(d, A) = SumFunctionOnSet(v, A)
  <2>1. \A c \in A : d[c] \in Int /\ d[c] = v[c]
    BY <1>4, <1>6
  <2> QED BY <1>7, <2>1, SumSame
<1>11. SumFunctionOnSet(v, A) \in Int
  <2>1. \A c \in A : v[c] \in Int
    BY <1>4, <1>6
  <2> QED BY <1>7, <2>1, SumRemove
<1> QED BY <1>5, <1>8, <1>9, <1>10, <1>11 DEF v, A

(* The rows hold, from x on, what was recorded of their interface. *)
Holds(ms, rows, mine, x) ==
    Settled(mine, x) =>
        SumFunctionOnSet(Vals(ms, rows), After(rows, x)) =
        SumFunctionOnSet(Theirs(ms, mine), After(mine, x))

(* A history of samples *)
Measurements(rs) == IsFiniteSet(rs) /\ rs \subseteq Samples /\ \A s \in rs : s.start < s.end

Recorded ==
    /\ Measurements(recorded.samples)
    /\ \A s \in recorded.samples : s.end <= frontier[s.iface]
    /\ \A s \in samples : \E r \in recorded.samples :
          r.iface = s.iface /\ r.start <= s.start /\ r.end = s.end

NoGapLost ==
    /\ gaps \subseteq recorded.gaps
    /\ \A g \in recorded.gaps : g.end > forgotten => g \in gaps

AllHeld ==
    \A ms \in BOOLEAN, i \in Interfaces, k \in Nat :
        BucketSize * k >= forgotten =>
            Holds(ms, RowsOf(samples, rollups, i), Of(recorded.samples, i), BucketSize * k)

CompleteInv == Recorded /\ NoGapLost /\ AllHeld

(* What a row is worth does not depend on the others. *)
LEMMA ValsOnly ==
    ASSUME NEW rows, GoodRows(rows), NEW more, NEW A \in SUBSET rows, A \subseteq more, NEW ms \in BOOLEAN
    PROVE  /\ SumFunctionOnSet(Vals(ms, rows), A) = SumFunctionOnSet(Vals(ms, more), A)
           /\ \A c \in A : Vals(ms, more)[c] = Val(ms, c) /\ Val(ms, c) \in Int
<1> DEFINE v == Vals(ms, rows)
           w == Vals(ms, more)
<1>1. IsFiniteSet(rows) /\ \A c \in rows : GoodRow(c)
  BY DEF GoodRows
<1>2. \A c \in A : v[c] = Val(ms, c) /\ w[c] = Val(ms, c)
  BY DEF Vals
<1>3. \A c \in A : Val(ms, c) \in Nat
  BY <1>1, UptoIs
<1>4. SumFunctionOnSet(v, A) = SumFunctionOnSet(w, A)
  <2>1. \A c \in A : v[c] \in Int /\ v[c] = w[c]
    BY <1>2, <1>3
  <2>2. IsFiniteSet(A)
    BY <1>1, FS_Subset
  <2> HIDE DEF v, w
  <2> QED BY <2>1, <2>2, SumSame
<1> QED BY <1>2, <1>3, <1>4

(* A recorded sample has a number of bytes and a length.                    *)
LEMMA SampleValIsInt ==
    ASSUME NEW rs, Measurements(rs), NEW s \in rs, NEW ms \in BOOLEAN
    PROVE  SampleVal(ms, s) \in Int
<1>1. s \in Samples
  BY DEF Measurements
<1>2. s.start \in Nat /\ s.end \in Nat /\ s.bytes \in Nat
  BY <1>1 DEF Samples, Times
<1> QED BY <1>2 DEF SampleVal

(* What a recorded sample is worth does not depend on the others.           *)
LEMMA TheirsOnly ==
    ASSUME NEW rs, Measurements(rs), NEW more, NEW A \in SUBSET rs, A \subseteq more, NEW ms \in BOOLEAN
    PROVE  SumFunctionOnSet(Theirs(ms, rs), A) = SumFunctionOnSet(Theirs(ms, more), A)
<1> DEFINE v == Theirs(ms, rs)
           w == Theirs(ms, more)
<1>1. IsFiniteSet(rs) /\ \A s \in rs : s \in Samples
  BY DEF Measurements
<1>2. \A s \in A : v[s] = SampleVal(ms, s) /\ w[s] = SampleVal(ms, s)
  BY DEF Theirs
<1>3. \A s \in A : SampleVal(ms, s) \in Int
  BY SampleValIsInt
<1>4. SumFunctionOnSet(v, A) = SumFunctionOnSet(w, A)
  <2>1. \A s \in A : v[s] \in Int /\ v[s] = w[s]
    BY <1>2, <1>3
  <2>2. IsFiniteSet(A)
    BY <1>1, FS_Subset
  <2> HIDE DEF v, w
  <2> QED BY <2>1, <2>2, SumSame
<1> QED BY <1>4

(* A recorded sample is held. *)
LEMMA HoldsMore ==
    ASSUME NEW rows, GoodRows(rows), NEW rs, Measurements(rs), NEW x \in Nat, NEW ms \in BOOLEAN,
           NEW s \in Samples, s.start < s.end, s \notin rs, Contribution(s) \notin rows,
           Holds(ms, rows, rs, x)
    PROVE  Holds(ms, rows \cup {Contribution(s)}, rs \cup {s}, x)
<1> DEFINE c == Contribution(s)
           more == rows \cup {c}
           all == rs \cup {s}
           A == After(rows, x)
           B == After(rs, x)
           w == Vals(ms, more)
           t == Theirs(ms, all)
<1> SUFFICES ASSUME Settled(all, x)
             PROVE  SumFunctionOnSet(w, After(more, x)) = SumFunctionOnSet(t, After(all, x))
  BY DEF Holds
<1>1. c.start = s.start /\ c.end = s.end /\ s.start \in Nat /\ s.end \in Nat /\ s.bytes \in Nat
  BY DEF Contribution, Samples, Times
<1>2. IsFiniteSet(rows) /\ IsFiniteSet(rs)
  BY DEF GoodRows, Measurements
<1>3. A \in SUBSET rows /\ A \subseteq more /\ B \in SUBSET rs /\ B \subseteq all /\ c \notin A /\ s \notin B
  BY DEF After
<1>4. IsFiniteSet(A) /\ IsFiniteSet(B)
  BY <1>2, <1>3, FS_Subset
<1>5. /\ SumFunctionOnSet(Vals(ms, rows), A) = SumFunctionOnSet(w, A)
      /\ \A d \in A : w[d] = Val(ms, d) /\ Val(ms, d) \in Int
  <2> HIDE DEF A, more
  <2> QED BY <1>3, ValsOnly
<1>6. /\ SumFunctionOnSet(Theirs(ms, rs), B) = SumFunctionOnSet(t, B)
      /\ \A d \in B : t[d] = SampleVal(ms, d) /\ SampleVal(ms, d) \in Int
  <2> HIDE DEF B, all, t
  <2>1. SumFunctionOnSet(Theirs(ms, rs), B) = SumFunctionOnSet(Theirs(ms, all), B)
    BY <1>3, TheirsOnly
  <2>2. \A d \in B : d \in rs /\ d \in all
    BY <1>3
  <2>3. \A d \in B : Theirs(ms, all)[d] = SampleVal(ms, d)
    BY <2>2 DEF Theirs
  <2>4. \A d \in B : SampleVal(ms, d) \in Int
    BY <2>2, SampleValIsInt
  <2> QED BY <2>1, <2>3, <2>4 DEF t
<1>6a. SumFunctionOnSet(w, A) = SumFunctionOnSet(t, B)
  <2>1. Settled(rs, x)
    BY DEF Settled
  <2>2. SumFunctionOnSet(Vals(ms, rows), A) = SumFunctionOnSet(Theirs(ms, rs), B)
    BY <2>1 DEF Holds
  <2> QED BY <1>5, <1>6, <2>2
<1>6b. (\A d \in A : w[d] \in Int) /\ (\A d \in B : t[d] \in Int)
  <2> HIDE DEF A, B, w, t
  <2> QED BY <1>5, <1>6
<1>7. w[c] = Val(ms, c) /\ t[s] = SampleVal(ms, s)
  BY DEF Vals, Theirs
<1>8. w[c] = t[s] /\ w[c] \in Int
  <2>1. Val(ms, c) = SampleVal(ms, s) /\ SampleVal(ms, s) \in Int
    BY <1>1 DEF Val, SampleVal, CoveredMs, Contribution, Samples
  <2> QED BY <1>7, <2>1
<1>9. CASE s.end <= x
  <2>1. After(more, x) = A /\ After(all, x) = B
    BY <1>1, <1>9 DEF After
  <2> QED BY <1>6a, <2>1
<1>10. CASE ~(s.end <= x)
  <2>1. After(more, x) = A \cup {c} /\ After(all, x) = B \cup {s}
    BY <1>1, <1>10 DEF After
  <2> HIDE DEF A, B, more, all, w, t, c
  <2>2. SumFunctionOnSet(w, A \cup {c}) = w[c] + SumFunctionOnSet(w, A)
    BY <1>3, <1>4, <1>6b, <1>8, SumInsert
  <2>3. SumFunctionOnSet(t, B \cup {s}) = t[s] + SumFunctionOnSet(t, B)
    BY <1>3, <1>4, <1>6b, <1>8, SumInsert
  <2> QED BY <1>6a, <1>8, <2>1, <2>2, <2>3
<1> QED BY <1>9, <1>10

(* Rows that end before x do not matter.                                    *)
LEMMA HoldsFewer ==
    ASSUME NEW rows, GoodRows(rows), NEW more, NEW x, After(rows, x) = After(more, x),
           NEW mine, NEW ms \in BOOLEAN, Holds(ms, rows, mine, x)
    PROVE  Holds(ms, more, mine, x)
<1> DEFINE A == After(rows, x)
<1>1. A \in SUBSET rows /\ A \subseteq more
  BY DEF After
<1>2. SumFunctionOnSet(Vals(ms, rows), A) = SumFunctionOnSet(Vals(ms, more), A)
  <2> HIDE DEF A
  <2> QED BY <1>1, ValsOnly
<1> QED BY <1>2 DEF Holds

(* The boundary x cuts no sample of interface i. *)
Uncut(ss, i, x) == \A s \in ss : s.iface = i => x <= s.start \/ s.end <= x

(* A boundary between buckets cuts no row when it cuts no sample. *)
LEMMA RowsSettle ==
    ASSUME NEW ss, NEW rr, Tables(ss, rr), NEW i, NEW K \in Nat, NEW x, x = BucketSize * K, Uncut(ss, i, x)
    PROVE  Settled(RowsOf(ss, rr, i), x)
<1> SUFFICES ASSUME NEW c \in RowsOf(ss, rr, i) PROVE c.end <= x \/ x <= c.start
  BY DEF Settled
<1>1. c.iface = i /\ (c \in rr \/ \E s \in ss : c = Contribution(s))
  BY DEF RowsOf
<1>2. x \in Nat
  BY HistoryConstants
<1>3. CASE c \in rr
  <2>1. Rolled(rr) /\ rr \subseteq Rollups
    BY DEF Tables
  <2>2. c.start < BucketSize * K => c.end <= BucketSize * K
    BY <1>3, <2>1, RowMissesBoundary
  <2>3. c.start \in Nat
    BY <1>3, <2>1, RolledRow DEF GoodRow
  <2> QED BY <1>2, <2>2, <2>3
<1>4. CASE \E s \in ss : c = Contribution(s)
  <2>1. PICK s \in ss : c = Contribution(s)
    BY <1>4
  <2>2. s \in Samples
    BY DEF Tables
  <2>3. s.iface = i /\ c.start = s.start /\ c.end = s.end
    BY <1>1, <2>1, <2>2, ContributionOf
  <2> QED BY <2>3 DEF Uncut
<1> QED BY <1>1, <1>3, <1>4

(* Every row ends by the last time there is.                                *)
LEMMA RowsEnd ==
    ASSUME NEW ss, NEW rr, Tables(ss, rr), NEW i, NEW c \in RowsOf(ss, rr, i)
    PROVE  c.end <= MaxTime /\ c.end \in Nat
<1>1. c \in rr \/ \E s \in ss : c = Contribution(s)
  BY DEF RowsOf
<1>2. CASE c \in rr
  <2>1. c \in Rollups
    BY <1>2 DEF Tables
  <2> QED BY <2>1 DEF Rollups, Times
<1>3. CASE \E s \in ss : c = Contribution(s)
  <2>1. PICK s \in ss : c = Contribution(s)
    BY <1>3
  <2>2. s \in Samples
    BY DEF Tables
  <2>3. c.end = s.end
    BY <2>1, <2>2, ContributionOf
  <2> QED BY <2>2, <2>3 DEF Samples, Times
<1> QED BY <1>1, <1>2, <1>3

(* The stored samples are ends of recorded ones. *)
LEMMA StoredUncut ==
    ASSUME TypeOK, Recorded, NEW i, NEW x \in Nat, Settled(Of(recorded.samples, i), x)
    PROVE  Uncut(samples, i, x)
<1> SUFFICES ASSUME NEW s \in samples, s.iface = i PROVE x <= s.start \/ s.end <= x
  BY DEF Uncut
<1>1. PICK r \in recorded.samples : r.iface = s.iface /\ r.start <= s.start /\ r.end = s.end
  BY DEF Recorded
<1>2. r.end <= x \/ x <= r.start
  BY <1>1 DEF Settled, Of
<1>3. r \in Samples /\ s \in Samples
  BY DEF TypeOK
<1>4. r.start \in Nat /\ s.start \in Nat
  BY <1>3 DEF Samples, Times
<1> QED BY <1>1, <1>2, <1>4

(* Where no stored sample is cut, a batch leaves none that is.              *)
LEMMA LeftUncut ==
    ASSUME TypeOK, SamplesApart, NEW plan, Consumes(plan), NEW i, NEW x \in Nat, Uncut(samples, i, x)
    PROVE  Uncut(Left(plan), i, x)
<1> SUFFICES ASSUME NEW r \in Left(plan), r.iface = i PROVE x <= r.start \/ r.end <= x
  BY DEF Uncut
<1>1. PICK s \in samples : r \in Samples /\ r.iface = s.iface /\ r.end = s.end /\ s.start <= r.start
  BY OriginOf
<1>2. x <= s.start \/ s.end <= x
  BY <1>1 DEF Uncut
<1>3. s \in Samples
  BY DEF TypeOK
<1>4. r.start \in Nat /\ s.start \in Nat
  BY <1>1, <1>3 DEF Samples, Times
<1> QED BY <1>1, <1>2, <1>4

(* A batch moves what is held from the samples to the rows, to the unit     *)
(* when no sample is cut.                                                   *)
LEMMA RollupHolds ==
    ASSUME StoreInv, Recorded, NEW plan, Consumes(plan), NEW cutoff, NEW i \in Interfaces, NEW K \in Nat,
           NEW x, x = BucketSize * K, NEW ms \in BOOLEAN,
           NEW old, old = RowsOf(samples, rollups, i), GoodRows(old),
           NEW new, new = RowsOf(Left(plan), Updated(Filled(plan, cutoff)), i), GoodRows(new),
           Holds(ms, old, Of(recorded.samples, i), x)
    PROVE  Holds(ms, new, Of(recorded.samples, i), x)
<1> DEFINE mine == Of(recorded.samples, i)
           J == BucketOf(MaxTime) + 1
<1> SUFFICES ASSUME Settled(mine, x)
             PROVE  SumFunctionOnSet(Vals(ms, new), After(new, x)) =
                    SumFunctionOnSet(Theirs(ms, mine), After(mine, x))
  BY DEF Holds
<1>1. SumFunctionOnSet(Vals(ms, old), After(old, x)) = SumFunctionOnSet(Theirs(ms, mine), After(mine, x))
  BY DEF Holds
<1>2. /\ TypeOK /\ SamplesApart /\ x \in Nat /\ Tables(samples, rollups)
      /\ samples \subseteq Samples
  BY HistoryConstants DEF StoreInv, SamplesApart, Apart, TypeOK, Tables
<1>3. Tables(Left(plan), Updated(Filled(plan, cutoff)))
  BY <1>2, LeftApart, UpdatedRows DEF Tables
<1>4. PICK y : y = BucketSize * J
  OBVIOUS
<1>5. J \in Nat /\ y \in Nat /\ MaxTime < y /\ MaxTime \in Nat
  <2>1. MaxTime \in Nat /\ MaxTime \in Int /\ BucketSize \in Nat
    BY HistoryConstants
  <2>2. BucketOf(MaxTime) \in Nat /\ MaxTime < BucketSize * BucketOf(MaxTime) + BucketSize
    BY <2>1, BucketBounds
  <2>3. BucketSize * (BucketOf(MaxTime) + 1) = BucketSize * BucketOf(MaxTime) + BucketSize
    BY <2>1, <2>2
  <2>4. BucketSize * (BucketOf(MaxTime) + 1) \in Nat
    BY <2>1, <2>2
  <2> QED BY <1>4, <2>1, <2>2, <2>3, <2>4
<1> HIDE DEF J
<1>6. Uncut(samples, i, x)
  BY <1>2, StoredUncut
<1>7. Uncut(samples, i, y)
  <2>1. \A s \in samples : s.end \in Nat /\ s.end <= MaxTime
    BY <1>2 DEF Samples, Times
  <2>2. \A s \in samples : s.end <= y
    BY <1>5, <2>1
  <2> QED BY <2>2 DEF Uncut
<1>8. SumBefore(ms, new, x) = SumBefore(ms, old, x)
  <2>1. PICK a, b : a = SumBefore(ms, old, x) /\ b = SumBefore(ms, new, x)
    OBVIOUS
  <2>2. \A s \in samples : s.iface = i => x <= s.start \/ s.end <= x
    BY <1>6 DEF Uncut
  <2>3. a = SumBefore(ms, RowsOf(samples, rollups, i), x)
        /\ b = SumBefore(ms, RowsOf(Left(plan), Updated(Filled(plan, cutoff)), i), x)
    BY <2>1
  <2>4. b = a
    BY <2>2, <2>3, RollupMoves
  <2> QED BY <2>1, <2>4
<1>9. SumBefore(ms, new, y) = SumBefore(ms, old, y)
  <2>1. PICK a, b : a = SumBefore(ms, old, y) /\ b = SumBefore(ms, new, y)
    OBVIOUS
  <2>2. \A s \in samples : s.iface = i => y <= s.start \/ s.end <= y
    BY <1>7 DEF Uncut
  <2>3. a = SumBefore(ms, RowsOf(samples, rollups, i), y)
        /\ b = SumBefore(ms, RowsOf(Left(plan), Updated(Filled(plan, cutoff)), i), y)
    BY <2>1
  <2>4. b = a
    BY <1>4, <1>5, <2>2, <2>3, RollupMoves
  <2> QED BY <2>1, <2>4
<1>10. Settled(old, x) /\ Settled(new, x)
  <2>1. Uncut(Left(plan), i, x)
    BY <1>2, <1>6, LeftUncut
  <2> QED BY <1>2, <1>3, <1>6, <2>1, RowsSettle
<1>11. (\A c \in old : c.end <= y) /\ (\A c \in new : c.end <= y)
  <2>1. \A c \in old : c.end <= MaxTime /\ c.end \in Nat
    BY <1>2, RowsEnd
  <2>2. \A c \in new : c.end <= MaxTime /\ c.end \in Nat
    BY <1>3, RowsEnd
  <2> QED BY <1>5, <2>1, <2>2
<1>12. SumBefore(ms, old, y) - SumBefore(ms, old, x) = SumFunctionOnSet(Vals(ms, old), After(old, x))
  BY <1>2, <1>5, <1>10, <1>11, AfterIsDifference
<1>13. SumBefore(ms, new, y) - SumBefore(ms, new, x) = SumFunctionOnSet(Vals(ms, new), After(new, x))
  BY <1>2, <1>5, <1>10, <1>11, AfterIsDifference
<1> QED BY <1>1, <1>8, <1>9, <1>12, <1>13

(* Samples that a poll adds: one of an interface, and not seen before. *)
Fresh(ss, rr, rs, new) ==
    /\ new \subseteq Samples
    /\ \A s \in new : /\ s.start < s.end /\ s \notin rs
                      /\ Contribution(s) \notin RowsOf(ss, rr, s.iface)
    /\ \A s, t \in new : s.iface = t.iface => s = t

(* Adding at most one sample to an interface adds at most one row. *)
LEMMA PollHolds ==
    ASSUME NEW ss, NEW rr, Tables(ss, rr), NEW rs, Measurements(rs), NEW new, Fresh(ss, rr, rs, new),
           NEW i, GoodRows(RowsOf(ss, rr, i)), NEW x \in Nat, NEW ms \in BOOLEAN,
           Holds(ms, RowsOf(ss, rr, i), Of(rs, i), x)
    PROVE  Holds(ms, RowsOf(ss \cup new, rr, i), Of(rs \cup new, i), x)
<1> DEFINE rows == RowsOf(ss, rr, i)
           more == RowsOf(ss \cup new, rr, i)
<1>0. /\ new \subseteq Samples
      /\ \A s \in new : s.start < s.end /\ s \notin rs /\ Contribution(s) \notin RowsOf(ss, rr, s.iface)
      /\ \A s, t \in new : s.iface = t.iface => s = t
  BY DEF Fresh
<1>1. \A s \in new : Contribution(s).iface = s.iface
  BY <1>0, ContributionOf
<1>2. more = rows \cup {Contribution(s) : s \in Of(new, i)} /\ Of(rs \cup new, i) = Of(rs, i) \cup Of(new, i)
  <2>1. Of(rs \cup new, i) = Of(rs, i) \cup Of(new, i)
    BY DEF Of
  <2>2. {c \in {Contribution(s) : s \in new} : c.iface = i} = {Contribution(s) : s \in Of(new, i)}
    BY <1>1 DEF Of
  <2>3. more = rows \cup {c \in {Contribution(s) : s \in new} : c.iface = i}
    BY DEF RowsOf
  <2> QED BY <2>1, <2>2, <2>3
<1> HIDE DEF rows, more
<1>3. CASE Of(new, i) = {}
  <2>1. more = rows /\ Of(rs \cup new, i) = Of(rs, i)
    BY <1>2, <1>3
  <2> QED BY <2>1 DEF rows, more
<1>4. CASE Of(new, i) # {}
  <2>1. PICK s \in Of(new, i) : TRUE
    BY <1>4
  <2>2. s \in new /\ s.iface = i /\ s \in Samples /\ s.start < s.end /\ Of(new, i) = {s}
    BY <1>0, <2>1 DEF Of
  <2>2a. {Contribution(t) : t \in Of(new, i)} = {Contribution(s)}
    BY <2>2
  <2>3. more = rows \cup {Contribution(s)} /\ Of(rs \cup new, i) = Of(rs, i) \cup {s}
    BY <1>2, <2>2, <2>2a
  <2>4. s \notin Of(rs, i) /\ Contribution(s) \notin rows
    BY <1>0, <2>2 DEF Of, rows
  <2>5. Measurements(Of(rs, i))
    <3>1. Of(rs, i) \in SUBSET rs
      BY DEF Of
    <3> QED BY <3>1, FS_Subset DEF Measurements
  <2>6. GoodRows(rows) /\ Holds(ms, rows, Of(rs, i), x)
    BY DEF rows
  <2>7. Holds(ms, rows \cup {Contribution(s)}, Of(rs, i) \cup {s}, x)
    BY <2>2, <2>4, <2>5, <2>6, HoldsMore
  <2> QED BY <2>3, <2>7 DEF more
<1> QED BY <1>3, <1>4

(* A poll stores what it records.                                           *)
LEMMA PollKeepsComplete ==
    ASSUME StoreInv, CompleteInv, NEW elapsed \in PollTimes, Poll(elapsed)
    PROVE  CompleteInv'
<1>1. PICK new, none :
             /\ now' \in Times /\ now < now'
             /\ none \subseteq Gaps /\ IsFiniteSet(new)
             /\ \A s \in new : /\ s \in Samples /\ s.iface \in Interfaces
                               /\ s.start = frontier[s.iface] /\ s.end = now' /\ s.start < s.end
                               /\ frontier'[s.iface] = now'
             /\ \A s, t \in new : s.iface = t.iface => s = t
             /\ samples' = samples \cup new /\ gaps' = gaps \cup none
             /\ recorded' = [samples |-> recorded.samples \cup new, gaps |-> recorded.gaps \cup none]
             /\ rollups' = rollups /\ retention' = retention /\ prune' = prune /\ forgotten' = forgotten
             /\ frontier' \in [Interfaces -> Times]
             /\ \A i \in Interfaces : frontier'[i] = now' \/ frontier'[i] = frontier[i]
  BY PollIs
<1> DEFINE rs == recorded.samples
<1>2. /\ TypeOK /\ SamplesApart /\ Tables(samples, rollups) /\ Recorded /\ NoGapLost /\ AllHeld
      /\ Measurements(rs) /\ samples \subseteq Samples /\ rollups \subseteq Rollups
  BY DEF StoreInv, SamplesApart, Apart, TypeOK, Tables, CompleteInv, Recorded
<1>3. /\ now \in Nat /\ now' \in Nat /\ now < now'
      /\ \A i \in Interfaces : frontier[i] \in Nat /\ frontier'[i] \in Nat /\ frontier[i] <= frontier'[i]
  BY <1>1, <1>2 DEF TypeOK, Times, StoreInv, WithinFrontier
<1>4. recorded'.samples = rs \cup new /\ recorded'.gaps = recorded.gaps \cup none
  BY <1>1
<1>5. \A s \in rs : s \in Samples /\ s.end \in Nat /\ s.iface \in Interfaces /\ s.end <= frontier[s.iface]
  BY <1>2 DEF Recorded, Measurements, Samples, Times
<1>6. \A s \in new : s \notin rs
  <2> SUFFICES ASSUME NEW s \in new, s \in rs PROVE FALSE
    OBVIOUS
  <2>1. s.end <= frontier[s.iface] /\ s.end \in Nat /\ s.iface \in Interfaces
    BY <1>5
  <2>2. s.start = frontier[s.iface] /\ s.start < s.end
    BY <1>1
  <2>3. frontier[s.iface] \in Nat
    BY <1>3, <2>1
  <2> QED BY <2>1, <2>2, <2>3
<1>7. \A s \in new : Contribution(s) \notin RowsOf(samples, rollups, s.iface)
  <2> SUFFICES ASSUME NEW s \in new, Contribution(s) \in RowsOf(samples, rollups, s.iface) PROVE FALSE
    OBVIOUS
  <2>1. /\ s \in Samples /\ s.iface \in Interfaces
        /\ s.start = frontier[s.iface] /\ s.start < s.end /\ frontier[s.iface] \in Nat
    BY <1>1, <1>3
  <2>2. Contribution(s).iface = s.iface /\ Contribution(s).end = s.end /\ Contribution(s).source = "sample"
    BY <2>1, ContributionOf
  <2>3. \A r \in rollups : r.source = "rollup"
    BY <1>2, RolledRow DEF Tables
  <2>4. Contribution(s) \notin rollups
    BY <2>2, <2>3
  <2>5. PICK t \in samples : Contribution(s) = Contribution(t)
    BY <2>4 DEF RowsOf
  <2>6. t \in Samples
    BY <1>2
  <2>7. t.iface = s.iface /\ t.end = s.end
    BY <2>2, <2>5, <2>6, ContributionOf
  <2>8. t.end <= frontier[t.iface] /\ t.end \in Nat
    BY <2>6, SampleFields DEF StoreInv, WithinFrontier, Samples, Times
  <2> QED BY <2>1, <2>7, <2>8
<1>8. Measurements(rs \cup new)
  <2>1. IsFiniteSet(rs \cup new)
    BY <1>1, <1>2, FS_Union DEF Measurements
  <2> QED BY <1>1, <1>2, <2>1 DEF Measurements
<1>9. Recorded'
  <2>1. \A s \in rs \cup new : s.end <= frontier'[s.iface]
    <3>1. \A s \in rs : s.end <= frontier'[s.iface]
      BY <1>3, <1>5
    <3>2. \A s \in new : s.end <= frontier'[s.iface]
      BY <1>1, <1>3
    <3> QED BY <3>1, <3>2
  <2>2. \A s \in samples : \E r \in rs : r.iface = s.iface /\ r.start <= s.start /\ r.end = s.end
    BY <1>2 DEF Recorded
  <2>3. \A s \in new : s.start <= s.start
    BY <1>1, <1>3
  <2>4. \A s \in samples \cup new : \E r \in rs \cup new :
            r.iface = s.iface /\ r.start <= s.start /\ r.end = s.end
    BY <2>2, <2>3
  <2> QED BY <1>1, <1>4, <1>8, <2>1, <2>4 DEF Recorded
<1>10. NoGapLost'
  BY <1>1, <1>2, <1>4 DEF NoGapLost
<1>11. AllHeld'
  <2> SUFFICES ASSUME NEW ms \in BOOLEAN, NEW i \in Interfaces, NEW k \in Nat, BucketSize * k >= forgotten
               PROVE  Holds(ms, RowsOf(samples \cup new, rollups, i), Of(rs \cup new, i), BucketSize * k)
    BY <1>1, <1>4 DEF AllHeld
  <2>1. Holds(ms, RowsOf(samples, rollups, i), Of(rs, i), BucketSize * k)
    BY <1>2 DEF AllHeld
  <2>2. GoodRows(RowsOf(samples, rollups, i))
    BY RowsAreGood, RowsAre
  <2>3. BucketSize * k \in Nat
    BY HistoryConstants
  <2>4. new \subseteq Samples /\ \A s \in new : s.start < s.end
    BY <1>1
  <2>5. \A s, t \in new : s.iface = t.iface => s = t
    BY <1>1
  <2>6. \A s \in new : s.start < s.end /\ s \notin rs /\ Contribution(s) \notin RowsOf(samples, rollups, s.iface)
    BY <1>6, <1>7, <2>4
  <2> HIDE DEF rs
  <2>7. PICK x \in Nat : x = BucketSize * k
    BY <2>3
  <2>8. Holds(ms, RowsOf(samples, rollups, i), Of(rs, i), x)
    BY <2>1, <2>7
  <2>8a. Fresh(samples, rollups, rs, new)
    BY <2>4, <2>5, <2>6 DEF Fresh
  <2>9. Holds(ms, RowsOf(samples \cup new, rollups, i), Of(rs \cup new, i), x)
    BY <1>2, <2>2, <2>8, <2>8a, PollHolds
  <2> QED BY <2>7, <2>9
<1> QED BY <1>9, <1>10, <1>11 DEF CompleteInv

(* A maintenance loses nothing.                                             *)
LEMMA RollupKeepsComplete ==
    ASSUME StoreInv, CompleteInv, GoodTables', Rollup
    PROVE  CompleteInv'
<1>1. PICK plan, cutoff :
        /\ Consumes(plan)
        /\ samples' = Left(plan) /\ rollups' = Updated(Filled(plan, cutoff))
  BY RollupIs
<1>2. UNCHANGED <<now, retention, frontier, gaps, recorded, forgotten>>
  BY DEF Rollup
<1>3. TypeOK /\ SamplesApart /\ Recorded /\ NoGapLost /\ AllHeld
  BY DEF StoreInv, CompleteInv
<1>4. Recorded'
  <2>1. \A r \in samples' : \E q \in recorded.samples : q.iface = r.iface /\ q.start <= r.start /\ q.end = r.end
    <3> SUFFICES ASSUME NEW r \in Left(plan)
          PROVE  \E q \in recorded.samples : q.iface = r.iface /\ q.start <= r.start /\ q.end = r.end
      BY <1>1
    <3>1. PICK s \in samples : r \in Samples /\ r.iface = s.iface /\ r.end = s.end /\ s.start <= r.start
      BY <1>1, <1>3, OriginOf
    <3>2. PICK q \in recorded.samples : q.iface = s.iface /\ q.start <= s.start /\ q.end = s.end
      BY <1>3 DEF Recorded
    <3>3. q \in Samples /\ s \in Samples
      BY <1>3 DEF Recorded, Measurements, TypeOK
    <3>4. q.start \in Nat /\ s.start \in Nat /\ r.start \in Nat
      BY <3>1, <3>3 DEF Samples, Times
    <3> QED BY <3>1, <3>2, <3>4
  <2> QED BY <1>2, <1>3, <2>1 DEF Recorded
<1>5. NoGapLost'
  BY <1>2, <1>3 DEF NoGapLost
<1>6. AllHeld'
  <2> SUFFICES ASSUME NEW ms \in BOOLEAN, NEW i \in Interfaces, NEW k \in Nat, BucketSize * k >= forgotten
               PROVE  Holds(ms, RowsOf(samples', rollups', i), Of(recorded.samples, i), BucketSize * k)
    BY <1>2 DEF AllHeld
  <2>1. PICK x : x = BucketSize * k
    OBVIOUS
  <2>2. PICK old : old = RowsOf(samples, rollups, i)
    OBVIOUS
  <2>3. PICK new : new = RowsOf(Left(plan), Updated(Filled(plan, cutoff)), i)
    OBVIOUS
  <2>4. Holds(ms, old, Of(recorded.samples, i), x)
    BY <1>3, <2>1, <2>2 DEF AllHeld
  <2>5. GoodRows(old)
    BY <2>2, RowsAreGood, RowsAre
  <2>6. GoodRows(new)
    <3>1. GoodRows(Rows(i)')
      BY DEF GoodTables
    <3>2. Rows(i)' = RowsOf(samples', rollups', i)
      BY DEF Rows, RowsOf
    <3> QED BY <1>1, <2>3, <3>1, <3>2
  <2>7. Holds(ms, new, Of(recorded.samples, i), x)
    BY <1>1, <1>3, <2>1, <2>2, <2>3, <2>4, <2>5, <2>6, RollupHolds
  <2> QED BY <1>1, <2>1, <2>3, <2>7
<1> QED BY <1>4, <1>5, <1>6 DEF CompleteInv

(* Retention deletes nothing that ends after its cutoff.                    *)
LEMMA KeepsYoung ==
    ASSUME NEW rows, NEW cutoff, NEW left \in Kept(rows, cutoff), NEW r \in rows, ~(r.end <= cutoff)
    PROVE  r \in left
BY DEF Kept, Due

(* What retention deletes is older than the boundary it leaves.             *)
LEMMA PruneKeepsComplete ==
    ASSUME StoreInv, CompleteInv, Prune
    PROVE  CompleteInv'
<1>1. /\ samples' \in Kept(samples, prune) /\ rollups' \in Kept(rollups, prune) /\ gaps' \in Kept(gaps, prune)
      /\ forgotten' = Greater(forgotten, prune) /\ UNCHANGED <<frontier, recorded>>
  BY DEF Prune
<1>2. samples' \subseteq samples /\ rollups' \subseteq rollups /\ gaps' \subseteq gaps
  BY <1>1, KeepsSome
<1>3. /\ TypeOK /\ SamplesApart /\ Recorded /\ NoGapLost /\ AllHeld
      /\ samples \subseteq Samples /\ rollups \subseteq Rollups
  BY DEF StoreInv, CompleteInv, TypeOK
<1>4. forgotten \in Int /\ prune \in Int /\ forgotten' \in Int /\ forgotten <= forgotten' /\ prune <= forgotten'
  BY <1>1, <1>3 DEF TypeOK, Greater
<1>5. Recorded'
  BY <1>1, <1>2, <1>3 DEF Recorded
<1>6. NoGapLost'
  <2>1. gaps' \subseteq recorded'.gaps
    BY <1>1, <1>2, <1>3 DEF NoGapLost
  <2>2. ASSUME NEW g \in recorded.gaps, g.end > forgotten' PROVE g \in gaps'
    <3>1. g \in Gaps
      BY <1>3 DEF TypeOK
    <3>2. g.end \in Nat
      BY <3>1 DEF Gaps, Times
    <3>3. g.end > forgotten /\ ~(g.end <= prune)
      BY <1>4, <2>2, <3>2
    <3>4. g \in gaps
      BY <1>3, <3>3 DEF NoGapLost
    <3> QED BY <1>1, <3>3, <3>4, KeepsYoung
  <2> QED BY <1>1, <2>1, <2>2 DEF NoGapLost
<1>7. AllHeld'
  <2> SUFFICES ASSUME NEW ms \in BOOLEAN, NEW i \in Interfaces, NEW k \in Nat, BucketSize * k >= forgotten'
               PROVE  Holds(ms, RowsOf(samples', rollups', i), Of(recorded.samples, i), BucketSize * k)
    BY <1>1 DEF AllHeld
  <2>1. PICK x \in Nat : x = BucketSize * k
    BY HistoryConstants
  <2>2. x >= forgotten /\ x >= prune
    BY <1>4, <2>1
  <2>3. PICK rows : rows = RowsOf(samples, rollups, i)
    OBVIOUS
  <2>4. PICK more : more = RowsOf(samples', rollups', i)
    OBVIOUS
  <2>5. Holds(ms, rows, Of(recorded.samples, i), x)
    BY <1>3, <2>1, <2>2, <2>3 DEF AllHeld
  <2>6. GoodRows(rows)
    BY <2>3, RowsAreGood, RowsAre
  <2>7. After(rows, x) = After(more, x)
    <3>1. After(more, x) \subseteq After(rows, x)
      BY <1>2, <2>3, <2>4 DEF After, RowsOf
    <3>2. ASSUME NEW c \in rows, c.end > x PROVE c \in more
      <4>1. c.iface = i /\ (c \in rollups \/ \E s \in samples : c = Contribution(s))
        BY <2>3 DEF RowsOf
      <4>2. CASE c \in rollups
        <5>1. c.end \in Nat
          BY <1>3, <4>2 DEF Rollups, Times
        <5>2. ~(c.end <= prune)
          BY <1>4, <2>2, <3>2, <5>1
        <5>3. c \in rollups'
          BY <1>1, <4>2, <5>2, KeepsYoung
        <5> QED BY <2>4, <4>1, <5>3 DEF RowsOf
      <4>3. CASE \E s \in samples : c = Contribution(s)
        <5>1. PICK s \in samples : c = Contribution(s)
          BY <4>3
        <5>2. s \in Samples
          BY <1>3
        <5>3. c.end = s.end /\ s.end \in Nat
          BY <5>1, <5>2, ContributionOf DEF Samples, Times
        <5>4. ~(s.end <= prune)
          BY <1>4, <2>2, <3>2, <5>3
        <5>5. s \in samples'
          BY <1>1, <5>4, KeepsYoung
        <5> QED BY <2>4, <4>1, <5>1, <5>5 DEF RowsOf
      <4> QED BY <4>1, <4>2, <4>3
    <3> QED BY <3>1, <3>2 DEF After
  <2>8. Holds(ms, more, Of(recorded.samples, i), x)
    BY <2>5, <2>6, <2>7, HoldsFewer
  <2> QED BY <2>1, <2>4, <2>8
<1> QED BY <1>5, <1>6, <1>7 DEF CompleteInv

(* The completeness is inductive.                                           *)
LEMMA CompleteStep == StoreInv /\ CompleteInv /\ GoodTables' /\ [Next]_vars => CompleteInv'
<1> SUFFICES ASSUME StoreInv, CompleteInv, GoodTables', [Next]_vars PROVE CompleteInv'
  OBVIOUS
<1>1. ASSUME UNCHANGED <<frontier, stored, recorded, forgotten>> PROVE CompleteInv'
  BY <1>1 DEF CompleteInv, Recorded, NoGapLost, AllHeld, stored
<1>2. ASSUME NEW elapsed \in PollTimes, Poll(elapsed) PROVE CompleteInv'
  BY <1>2, PollKeepsComplete
<1>3. ASSUME NEW k \in Retentions, Configure(k) PROVE CompleteInv'
  BY <1>1, <1>3 DEF Configure
<1>4. CASE Rollup
  BY <1>4, RollupKeepsComplete
<1>5. CASE FailRollup
  BY <1>1, <1>5 DEF FailRollup
<1>6. CASE Prune
  BY <1>6, PruneKeepsComplete
<1>7. CASE SkipPrune
  BY <1>1, <1>7 DEF SkipPrune
<1>8. CASE UNCHANGED vars
  BY <1>1, <1>8 DEF vars
<1> QED BY <1>2, <1>3, <1>4, <1>5, <1>6, <1>7, <1>8 DEF Next

(* Nothing was recorded at the start.                                       *)
LEMMA CompleteStarts == Init => CompleteInv
<1> SUFFICES ASSUME Init PROVE CompleteInv
  OBVIOUS
<1>1. samples = {} /\ rollups = {} /\ gaps = {} /\ recorded.samples = {} /\ recorded.gaps = {}
  BY DEF Init
<1>2. Recorded /\ NoGapLost
  BY <1>1, FS_EmptySet DEF Recorded, NoGapLost, Measurements
<1>3. AllHeld
  <2> SUFFICES ASSUME NEW ms, NEW i, NEW x PROVE Holds(ms, RowsOf({}, {}, i), Of({}, i), x)
    BY <1>1 DEF AllHeld
  <2>1. After(RowsOf({}, {}, i), x) = {} /\ After(Of({}, i), x) = {}
    BY DEF After, RowsOf, Of
  <2> QED BY <2>1, SumEmpty DEF Holds
<1> QED BY <1>2, <1>3 DEF CompleteInv

(* What a query from a bucket boundary on returns *)
LEMMA AnswersAre ==
    ASSUME StoreInv, CompleteInv, NEW i \in Interfaces, NEW k \in Nat, NEW x, x = BucketSize * k,
           x <= MaxTime, x >= forgotten,
           NEW mine, mine = Of(recorded.samples, i), Settled(mine, x)
    PROVE  /\ Totals(Rows(i), x, MaxTime).bytes = SumFunctionOnSet(Theirs(FALSE, mine), After(mine, x))
           /\ Totals(Rows(i), x, MaxTime).covered_ms = SumFunctionOnSet(Theirs(TRUE, mine), After(mine, x))
<1>1. PICK rows : rows = Rows(i)
  OBVIOUS
<1>2. rows = RowsOf(samples, rollups, i)
  BY <1>1, RowsAre
<1>3. GoodRows(rows)
  BY <1>1, RowsAreGood
<1>4. x \in Nat /\ MaxTime \in Nat
  BY HistoryConstants
<1>5. /\ TypeOK /\ Tables(samples, rollups) /\ Recorded /\ AllHeld
  BY DEF StoreInv, SamplesApart, Apart, TypeOK, Tables, CompleteInv
<1>6. Settled(rows, x)
  <2>1. Uncut(samples, i, x)
    BY <1>4, <1>5, StoredUncut
  <2> QED BY <1>2, <1>5, <2>1, RowsSettle
<1>7. \A c \in rows : c.end <= MaxTime
  BY <1>2, <1>5, RowsEnd
<1>8. ASSUME NEW ms \in BOOLEAN
      PROVE  SumBefore(ms, rows, MaxTime) - SumBefore(ms, rows, x) =
                SumFunctionOnSet(Theirs(ms, mine), After(mine, x))
  <2>1. SumBefore(ms, rows, MaxTime) - SumBefore(ms, rows, x) = SumFunctionOnSet(Vals(ms, rows), After(rows, x))
    BY <1>3, <1>4, <1>6, <1>7, AfterIsDifference
  <2>2. Holds(ms, rows, mine, x)
    BY <1>2, <1>5 DEF AllHeld
  <2> QED BY <2>1, <2>2 DEF Holds
<1>9. /\ Totals(rows, x, MaxTime).bytes = BytesBefore(rows, MaxTime) - BytesBefore(rows, x)
      /\ Totals(rows, x, MaxTime).covered_ms = MsBefore(rows, MaxTime) - MsBefore(rows, x)
  BY <1>3, <1>4, TotalsAreDifferences
<1>10. BytesBefore(rows, MaxTime) - BytesBefore(rows, x) = SumFunctionOnSet(Theirs(FALSE, mine), After(mine, x))
  <2>1. SumBefore(FALSE, rows, MaxTime) - SumBefore(FALSE, rows, x) =
                SumFunctionOnSet(Theirs(FALSE, mine), After(mine, x))
    BY <1>8
  <2> QED BY <2>1, SumBeforeIs
<1>11. MsBefore(rows, MaxTime) - MsBefore(rows, x) = SumFunctionOnSet(Theirs(TRUE, mine), After(mine, x))
  <2>1. SumBefore(TRUE, rows, MaxTime) - SumBefore(TRUE, rows, x) =
                SumFunctionOnSet(Theirs(TRUE, mine), After(mine, x))
    BY <1>8
  <2> QED BY <2>1, SumBeforeIs
<1> QED BY <1>1, <1>9, <1>10, <1>11

(* The invariant gives the property.                                        *)
LEMMA CompleteHistory == StoreInv /\ CompleteInv => HistoryIsComplete
<1> SUFFICES ASSUME StoreInv, CompleteInv, NEW i \in Interfaces, NEW k \in Buckets,
                    NEW x, x = k * BucketSize,
                    NEW mine, mine = {s \in recorded.samples : s.iface = i /\ s.end > x},
                    x >= forgotten, \A s \in mine : s.start >= x
             PROVE  /\ Totals(Rows(i), x, MaxTime).bytes = SumFunction([s \in mine |-> s.bytes])
                    /\ Totals(Rows(i), x, MaxTime).covered_ms = SumFunction([s \in mine |-> s.end - s.start])
                    /\ {g \in gaps : g.iface = i /\ g.end > x} =
                       {g \in recorded.gaps : g.iface = i /\ g.end > x}
  BY DEF HistoryIsComplete
<1>1. /\ TypeOK /\ Recorded /\ NoGapLost /\ AllHeld /\ forgotten \in Int
  BY DEF StoreInv, CompleteInv, TypeOK
<1>2. k \in Nat /\ x \in Nat /\ x = BucketSize * k /\ x <= MaxTime /\ MaxTime \in Nat
  <2>1. MaxTime \in Nat /\ BucketSize \in Nat
    BY HistoryConstants
  <2>2. BucketOf(MaxTime) \in Nat /\ BucketSize * BucketOf(MaxTime) <= MaxTime
    BY <2>1, BucketBounds
  <2>3. k \in Nat /\ k <= BucketOf(MaxTime)
    BY <2>2 DEF Buckets
  <2>4. BucketSize * k <= BucketSize * BucketOf(MaxTime)
    BY <2>1, <2>2, <2>3, ProductKeepsOrder
  <2>5. x = BucketSize * k /\ BucketSize * k \in Nat /\ BucketSize * BucketOf(MaxTime) \in Nat
    BY <2>1, <2>2, <2>3
  <2> QED BY <2>1, <2>2, <2>3, <2>4, <2>5
<1>3. PICK all : all = Of(recorded.samples, i)
  OBVIOUS
<1>4. mine = After(all, x) /\ mine \in SUBSET all
  BY <1>3 DEF After, Of
<1>5. \A s \in all : s \in Samples /\ s.start \in Nat /\ s.end \in Nat
  BY <1>1, <1>3 DEF Recorded, Measurements, Of, Samples, Times
<1>6. Settled(all, x)
  <2> SUFFICES ASSUME NEW s \in all PROVE s.end <= x \/ x <= s.start
    BY DEF Settled
  <2>1. s.end > x => s \in mine
    BY <1>4 DEF After
  <2> QED BY <1>2, <1>5, <2>1
<1>7. /\ Totals(Rows(i), x, MaxTime).bytes = SumFunctionOnSet(Theirs(FALSE, all), mine)
      /\ Totals(Rows(i), x, MaxTime).covered_ms = SumFunctionOnSet(Theirs(TRUE, all), mine)
  <2>1. /\ Totals(Rows(i), x, MaxTime).bytes = SumFunctionOnSet(Theirs(FALSE, all), After(all, x))
        /\ Totals(Rows(i), x, MaxTime).covered_ms = SumFunctionOnSet(Theirs(TRUE, all), After(all, x))
    <3>1. StoreInv /\ CompleteInv /\ i \in Interfaces /\ x >= forgotten
      OBVIOUS
    <3>2. k \in Nat /\ x = BucketSize * k /\ x <= MaxTime /\ all = Of(recorded.samples, i) /\ Settled(all, x)
      BY <1>2, <1>3, <1>6
    <3> QED BY <3>1, <3>2, AnswersAre
  <2> QED BY <1>4, <2>1
<1>8. Measurements(all)
  <2>1. Of(recorded.samples, i) \in SUBSET recorded.samples
    BY DEF Of
  <2> QED BY <1>1, <1>3, <2>1, FS_Subset DEF Recorded, Measurements
<1>9. /\ SumFunctionOnSet(Theirs(FALSE, all), mine) = SumFunctionOnSet(Theirs(FALSE, mine), mine)
      /\ SumFunctionOnSet(Theirs(TRUE, all), mine) = SumFunctionOnSet(Theirs(TRUE, mine), mine)
  <2>1. ASSUME NEW ms \in BOOLEAN
        PROVE  SumFunctionOnSet(Theirs(ms, all), mine) = SumFunctionOnSet(Theirs(ms, mine), mine)
    BY <1>4, <1>8, TheirsOnly
  <2> QED BY <2>1
<1>10. /\ Theirs(FALSE, mine) = [s \in mine |-> s.bytes]
       /\ Theirs(TRUE, mine) = [s \in mine |-> s.end - s.start]
  BY DEF Theirs, SampleVal
<1>11. /\ SumFunction([s \in mine |-> s.bytes]) = SumFunctionOnSet(Theirs(FALSE, mine), mine)
       /\ SumFunction([s \in mine |-> s.end - s.start]) = SumFunctionOnSet(Theirs(TRUE, mine), mine)
  BY <1>10 DEF SumFunction, FoldFunction, SumFunctionOnSet
<1>12. {g \in gaps : g.iface = i /\ g.end > x} = {g \in recorded.gaps : g.iface = i /\ g.end > x}
  <2>1. \A g \in recorded.gaps : g.end \in Nat
    BY <1>1 DEF TypeOK, Gaps, Times
  <2>2. \A g \in recorded.gaps : g.end > x => g.end > forgotten
    BY <1>1, <1>2, <2>1
  <2> QED BY <1>1, <2>2 DEF NoGapLost
<1> QED BY <1>7, <1>9, <1>11, <1>12

(* Nothing younger than the retention boundary is lost or counted twice: a  *)
(* query from the start of a bucket that cuts no recorded sample returns    *)
(* all that was recorded since, and the gaps (rollup_exact_samples_batch,   *)
(* prune_exact_history, query_traffic_v4_on_connection).                    *)
THEOREM HistoryKeepsAll == Spec => []HistoryIsComplete
<1>1. StoreInv' => GoodTables'
  BY TablesAreGood, PTL
<1>2. (StoreInv /\ CompleteInv) /\ [Next]_vars => (StoreInv /\ CompleteInv)'
  BY <1>1, StoreStep, CompleteStep
<1> QED BY <1>2, StoreStarts, CompleteStarts, CompleteHistory, PTL DEF Spec

=============================================================================
