----------------------------- MODULE VehicleMC -----------------------------
(***************************************************************************)
(* A small network for TLC: a triangle with a parallel road, and a road to *)
(* a dead end.                                                             *)
(***************************************************************************)
EXTENDS Vehicle

MCEnds == <<<<1, 2>>, <<3, 2>>, <<1, 3>>, <<3, 4>>, <<2, 1>>>>
MCLength == <<1, 2, 3, 2, 3>>
=============================================================================
