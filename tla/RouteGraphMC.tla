---------------------------- MODULE RouteGraphMC ----------------------------
(***************************************************************************)
(* Small instances of RouteGraph for TLC: a short road of four segments    *)
(* that may be jammed, and a detour of one.                                *)
(***************************************************************************)
EXTENDS RouteGraph, TLC

CONSTANTS w1, w2

MCRoutes == {"direct", "detour"}
MCKm == [r \in MCRoutes |-> IF r = "direct" THEN 3 ELSE 4]
MCLegs == [r \in MCRoutes |-> IF r = "direct" THEN 4 ELSE 1]

Times(each, detour) ==
    [r \in MCRoutes |-> IF r = "direct" THEN <<each, each, each, each>>
                                         ELSE <<detour>>]

\* Whole hundredths, and far apart: rounding changes nothing.
FarApart == {Times(900, 1500), Times(300, 1500)}

\* The detour wins by a little, and the rounded figures by even less; the
\* direct road wins, and a truncation would lose more than half a hundredth
\* for each segment.
NearTies == {Times(904, 3614), Times(309, 1500)}

WorkerSymmetry == Permutations({w1, w2})
=============================================================================
