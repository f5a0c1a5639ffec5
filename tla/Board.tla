------------------------------- MODULE Board -------------------------------
(***************************************************************************)
(* What the analyzer promises to whoever reads its tables or listens on    *)
(* congestion_change: a board with one row per segment.  Rows are          *)
(* published one at a time or all active ones together, always with their  *)
(* history row and the notification of a changed level, and no reader sees *)
(* one without the others.  Requests, locks, transactions, windows of      *)
(* positions and failures are the business of Analyzer, which implements   *)
(* this specification.                                                     *)
(***************************************************************************)
EXTENDS Integers, Sequences

CONSTANTS
    Segments,     \* road_segment ids
    Active,       \* the active ones, which a refresh computes
    Rulebooks, Windows,
    LevelOf(_, _) \* the level that a rulebook gives to a set of fixes

VARIABLES
    condition,    \* traffic_condition, one row per segment
    history,      \* traffic_history, per segment in insertion order
    heard         \* the last level a listener was told

board == <<condition, history, heard>>

FreeFlow == [seen |-> {}, level |-> "LOW", at |-> 0]

Init ==
    /\ condition = [s \in Segments |-> FreeFlow]
    /\ history = [s \in Segments |-> <<>>]
    /\ heard = [s \in Segments |-> "NONE"]

\* A row of segment s that the rule yields: it counts fixes of s alone, all
\* younger than some window, and some rulebook gives them its level.
Lawful(row, s) ==
    /\ \A f \in row.seen : f.segment = s
    /\ \E n \in Windows : \A f \in row.seen : f.at > row.at - n
    /\ \E r \in Rulebooks : row.level = LevelOf(row.seen, r)

\* New rows for the segments of S, all of one calculated_at.
Publish(S) ==
    /\ condition' = [s \in Segments |->
          IF s \in S THEN condition'[s] ELSE condition[s]]
    /\ history' = [s \in Segments |->
          IF s \in S THEN Append(history[s], condition'[s])
                     ELSE history[s]]
    /\ heard' = [s \in Segments |->
          IF condition'[s].level # condition[s].level
          THEN condition'[s].level ELSE heard[s]]
    /\ \A s \in S : Lawful(condition'[s], s)
    /\ \A s, t \in S : condition'[s].at = condition'[t].at

\* A boot empties the history.
Wipe ==
    /\ history' = [s \in Segments |-> <<>>]
    /\ UNCHANGED <<condition, heard>>

Next ==
    \/ \E s \in Segments : Publish({s})
    \/ Publish(Active)
    \/ Wipe

Spec == Init /\ [][Next]_board
=============================================================================
