------------------------------ MODULE IngestMC ------------------------------
(***************************************************************************)
(* Small instances of Ingest for TLC: a plate of a normal vehicle, sent    *)
(* with two types, and a plate of a scenario vehicle.                      *)
(***************************************************************************)
EXTENDS Ingest, TLC

CONSTANTS w1, w2

P(n, t, s, age) == [number |-> n, type |-> t, segment |-> s, age |-> age]

MCNumbers == {"TN01", "SCN1"}
MCScenario == {"SCN1"}
MCSegments == {1}

\* A late fix; one for a segment that does not exist; one from the future.
MCSingles == {P("TN01", "car", 1, 1), P("TN01", "bus", 9, 0),
              P("SCN1", "car", 1, -1)}

\* A plate with two types, in a batch that lacks the third, which the INSERTs
\* of the details refuse; all three types, which they accept.
ThreeNumbers == {"TN01", "TN02", "SCN1"}
MCBatches == {<<P("TN01", "car", 1, 0), P("TN01", "bus", 1, 0)>>,
              <<P("TN01", "car", 1, 0), P("TN02", "bus", 1, 0),
                P("SCN1", "emergency", NoSegment, 0)>>}
CarBatches == {<<P("TN01", "car", 1, 0)>>}

MCCrawls == {<<P("SCN1", "car", 1, 0)>>}

MCRegistered == {P("TN01", "emergency", NoSegment, 0)}

WorkerSymmetry == Permutations({w1, w2})
=============================================================================
