---------------------------- MODULE DashboardMC ----------------------------
(***************************************************************************)
(* A request thread and the tick, one fault, a ring of three entries and a *)
(* browser that has one log reply at a time under way.                     *)
(***************************************************************************)
EXTENDS Dashboard
=============================================================================
