------------------------------ MODULE FleetMC ------------------------------
(***************************************************************************)
(* Small instances of Fleet for TLC.                                       *)
(***************************************************************************)
EXTENDS Fleet, TLC

CONSTANTS c1, c2

\* Retire all, one vehicle, more than the cap.
MCCounts == {-1, 1, 3}
=============================================================================
