----------------------------- MODULE RowLocksMC -----------------------------
(***************************************************************************)
(* Three requests over two vehicles, which a reset may delete, and one     *)
(* segment (that refreshes never wait for each other in a circle is        *)
(* NoWaitCycle of Analyzer): batches in both orders, and fixes.            *)
(***************************************************************************)
EXTENDS RowLocks

CONSTANTS v1, v2

MCOrder == <<1>>
MCOrders == {<<v1, v2>>, <<v2, v1>>}
MCTrips == {<<v1>>}
=============================================================================
