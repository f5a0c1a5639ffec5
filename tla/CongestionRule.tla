--------------------------- MODULE CongestionRule ---------------------------
(***************************************************************************)
(* The congestion rule of database/procedures.sql: how the fixes that a    *)
(* segment received in the window become LOW, MEDIUM or HIGH.              *)
(*                                                                         *)
(* Averages and densities are fractions; every comparison is made here by  *)
(* multiplying out, so no division is needed.  Density thresholds are in   *)
(* percent of the capacity (0.75 is 75).                                   *)
(***************************************************************************)
EXTENDS Integers, FiniteSetsExt

Levels == {"LOW", "MEDIUM", "HIGH"}

\* LOW < MEDIUM < HIGH, to compare levels.
Rank == [LOW |-> 0, MEDIUM |-> 1, HIGH |-> 2]

\* The singleton row of traffic_thresholds; the table's CHECKs keep every
\* column at zero or more.
RulebookType ==
    [high_speed : Nat, high_density : Nat, med_speed : Nat, med_density : Nat]

\* AVG(speed_kmh) < v over n fixes whose speeds add up to total; COALESCE
\* makes the average of no fix the speed limit.
SlowerThan(total, n, limit, v) ==
    IF n = 0 THEN limit < v ELSE total < v * n

\* count / capacity > percent / 100; the density of a segment without
\* capacity is 0, which no threshold is below.
DenserThan(count, capacity, percent) ==
    capacity > 0 /\ 100 * count > percent * capacity

\* The level of n fixes with speeds adding up to total, sent by `count'
\* distinct vehicles, under rulebook r.
Classify(total, n, count, limit, capacity, r) ==
    IF SlowerThan(total, n, limit, r.high_speed)
       /\ DenserThan(count, capacity, r.high_density)
    THEN "HIGH"
    ELSE IF SlowerThan(total, n, limit, r.med_speed)
            \/ DenserThan(count, capacity, r.med_density)
         THEN "MEDIUM"
         ELSE "LOW"

\* The aggregates the procedure selects from a set of fixes.
SpeedTotal(fixes) == MapThenSumSet(LAMBDA f : f.speed, fixes)
VehiclesOf(fixes) == {f.vehicle : f \in fixes}

LevelOfFixes(fixes, limit, capacity, r) ==
    Classify(SpeedTotal(fixes), Cardinality(fixes),
             Cardinality(VehiclesOf(fixes)), limit, capacity, r)
=============================================================================
