----------------------------- MODULE AnalyzerMC -----------------------------
(***************************************************************************)
(* Small instances of Analyzer for TLC.  Two slow vehicles fill a segment  *)
(* of capacity 2, so every level occurs under the default thresholds.      *)
(***************************************************************************)
EXTENDS Analyzer

CONSTANTS w1, w2, s1, s2, v1, v2

MCScanOrder == <<s1, s2>>

\* schema.sql:120-128 and what an operator might set instead.
DefaultRules ==
    [high_speed |-> 15, high_density |-> 75,
     med_speed |-> 30, med_density |-> 50]
LenientRules == [DefaultRules EXCEPT !.high_speed = 5, !.med_speed = 8]

MCRulebooks == {DefaultRules, LenientRules}
OneRulebook == {DefaultRules}

\* A bound: the vehicle that no reset deletes drives on the first segment.
OneRoad == \A f \in positions : f.vehicle = v1 => f.segment = s1

WorkerSymmetry == Permutations({w1, w2})
=============================================================================
