---------------------------- MODULE LegacyImport ----------------------------
(* The part of the schema migration that rewrites rows (db/schema.rs): the  *)
(* legacy rate tables traffic_points and traffic_1m get their composite key *)
(* (v2) and are imported as estimated samples and rollups (v4).  A legacy   *)
(* row is the interface it belongs to and its time in seconds; the rates do *)
(* not decide anything and are left out.                                    *)
EXTENDS Integers, FiniteSets, FiniteSetsExt

CONSTANTS Unnamed,     \* a NULL wan_name
          Aggregate    \* the empty wan_name, the row of all WANs together

MinuteLength == 60     \* the width of a traffic_1m row, and of the widest point
FirstLength == 5       \* the width of a point without predecessor

(* COALESCE(wan_name, ''): the row as the composite key has it. *)
Coalesced(row) == IF row.wan = Unnamed THEN [row EXCEPT !.wan = Aggregate] ELSE row

NormalizedTable(table) == {Coalesced(row) : row \in table}

(* INSERT INTO ... SELECT fails on the primary key, or the row counts differ *)
(* afterwards: two rows have become one.                                     *)
NormalizeRefused(table) == Cardinality(NormalizedTable(table)) # Cardinality(table)

(* LAG(ts) OVER (PARTITION BY wan_name ORDER BY ts) and the measured width. *)
PreviousTimes(points, p) == {q.at : q \in {r \in points : r.wan = p.wan /\ r.at < p.at}}

MeasuredLength(points, p) ==
    LET before == PreviousTimes(points, p)
        previous == IF before = {} THEN p.at - FirstLength ELSE Max(before)
    IN  Min({MinuteLength, Max({1, p.at - previous})})

ImportedSamples(points) ==
    {[wan |-> p.wan, from |-> p.at - MeasuredLength(points, p), to |-> p.at] : p \in points}

(* Mutant: only a point that ends in the minute counts. *)
CoveredByItsEnd(samples, minute) ==
    \E s \in samples : /\ s.wan = minute.wan
                       /\ s.to > minute.at
                       /\ s.to <= minute.at + MinuteLength

(* The NOT EXISTS clause: a minute some imported point reaches into is left out. *)
Covered(samples, minute) ==
    \E s \in samples : /\ s.wan = minute.wan
                       /\ s.to > minute.at
                       /\ s.from < minute.at + MinuteLength

ImportedRollups(points, minutes) ==
    {[wan |-> m.wan, from |-> m.at, to |-> m.at + MinuteLength] :
        m \in {n \in minutes : ~Covered(ImportedSamples(points), n)}}

(* imported_points = legacy.traffic_points: no point was ignored as a duplicate. *)
ImportRefused(points) == Cardinality(ImportedSamples(points)) # Cardinality(points)
=============================================================================
