------------------------------ MODULE Settled ------------------------------
(***************************************************************************)
(* What a row of the snapshot is worth when requests overlap, fail and are *)
(* cut off by restarts: module Analyzer with two history variables, which  *)
(* leave its behaviours as they are and say which rows can be relied on.   *)
(*                                                                         *)
(* Overlapping requests may overwrite each other's results, and one that   *)
(* fails leaves what its first statement stored uncomputed.  The row is    *)
(* repaired by the next request that computes it and that no other request *)
(* touching the segment overlaps.  The row is then settled, and stays so   *)
(* until a request on the segment overlaps another or fails, until the     *)
(* operator changes the window, or until the API restarts.                 *)
(***************************************************************************)
EXTENDS Analyzer

VARIABLES
    clean,    \* the segments each request has had to itself so far
    settled   \* the segments whose row such a request computed last

settling == <<clean, settled>>
-----------------------------------------------------------------------------
Active == Range(ScanOrder)

\* The segments whose rows w's request is going to write: those of its plan,
\* and all the active ones while it is still storing thresholds.
Touches(w) == Range(plan[w]) \cup {s \in Active : pc[w] = "rules"}

SettledInit ==
    /\ Init
    /\ clean = [w \in Workers |-> {}]
    /\ settled = {}

\* w is accepted: what it touches is no longer another's alone, and what
\* another touches is not w's alone.  A new window concerns every row.
Enter(w) ==
    LET others == UNION {Touches(v) : v \in Workers \ {w}}
        shared == IF window' = window THEN Touches(w)' ELSE Active
    IN /\ clean' = [v \in Workers |->
             IF v = w THEN (Active \cap Touches(w)') \ others
                      ELSE clean[v] \ shared]
       /\ settled' = IF window' = window THEN settled ELSE {}

\* w is over: of the rows it touches those of the segments in S are settled.
Leave(w, S) ==
    /\ clean' = [clean EXCEPT ![w] = {}]
    /\ settled' = (settled \ Touches(w)) \cup S

SettledRequest(w) == Request(w) /\ Enter(w)
SettledCommit(w) == Commit(w) /\ Leave(w, clean[w])
SettledAbort(w) == Abort(w) /\ Leave(w, {})

\* Nothing was stored but, before, the window.
SettledReject(w) == RulesRejected(w) /\ Leave(w, settled \cap Touches(w))

SettledStep(w) ==
    /\ UpdateRules(w) \/ Begin(w) \/ ReadRules(w) \/ Scan(w) \/ Upsert(w)
    /\ UNCHANGED settling

SettledRestart ==
    /\ Restart
    /\ clean' = [w \in Workers |-> {}]
    /\ settled' = {}

SettledTick == Tick /\ UNCHANGED settling
SettledRest == Rest /\ UNCHANGED settling

SettledNext ==
    \/ \E w \in Workers :
          \/ SettledRequest(w) \/ SettledStep(w)
          \/ SettledCommit(w) \/ SettledReject(w) \/ SettledAbort(w)
    \/ SettledRestart
    \/ SettledTick
    \/ SettledRest

SettledSpec == SettledInit /\ [][SettledNext]_<<vars, settling>>
-----------------------------------------------------------------------------
(* Properties.                                                             *)

\* The settled rows that no request under way is going to write.
Reliable == {s \in settled : \A w \in Workers : s \notin Touches(w)}

\* A reliable row counts every fix in the window in force: whichever requests
\* overlapped, failed or changed the window before, one undisturbed request
\* repairs what they left (gps_processor.py:100-115, ingest_bulk.py:81-84,
\* procedures.sql:36-47).
SettledCountsAll ==
    \A s \in Reliable :
        InWindow(s, now, window) \subseteq condition[s].seen

\* A reliable row counts no fix that a reset has deleted or a boot has wiped
\* (scenarios.py:105-108, procedures.sql:36-47): the snapshot is kept over
\* both, so only a new computation takes a fix out of it.
SettledHasNoGhost ==
    \A s \in Reliable : condition[s].seen \subseteq positions

\* A reliable row has the level that the thresholds in force give to the
\* fixes it counts, also while other requests store thresholds, are refused
\* or fail before they have refreshed (routes/config.py:36-48,
\* procedures.sql:31-61).
SettledFollowsRules ==
    \A s \in Reliable :
        condition[s].level =
            LevelOfFixes(condition[s].seen, Limit, Capacity, rules)
=============================================================================
