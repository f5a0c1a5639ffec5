----------------------------- MODULE DijkstraMC -----------------------------
(***************************************************************************)
(* Small networks for TLC.                                                 *)
(***************************************************************************)
EXTENDS Dijkstra

MCSegments == 11..15

Network(a, b, c, d, e) ==
    [s \in MCSegments |-> <<a, b, c, d, e>>[s - 10]]

\* A square with a diagonal; parallel roads and a far node; two components.
MCNetworks ==
    {Network(<<1, 2>>, <<2, 4>>, <<1, 3>>, <<3, 4>>, <<3, 2>>),
     Network(<<2, 1>>, <<1, 2>>, <<2, 3>>, <<4, 3>>, <<1, 3>>),
     Network(<<1, 2>>, <<2, 1>>, <<3, 4>>, <<3, 5>>, <<4, 5>>)}

MCTrips == {<<1, 4>>, <<3, 1>>}
=============================================================================
