----------------------------- MODULE SettledMC -----------------------------
(***************************************************************************)
(* Settled over the constants of AnalyzerMC.                               *)
(***************************************************************************)
EXTENDS AnalyzerMC, Settled
=============================================================================
