------------------------------ MODULE Analyzer ------------------------------
(***************************************************************************)
(* The traffic analyzer: calculate_segment_traffic and refresh_all_traffic *)
(* (database/procedures.sql) run by concurrent API requests.               *)
(*                                                                         *)
(* Every request runs in a thread of its own with a connection of its own, *)
(* in autocommit mode and under READ COMMITTED: each SELECT of a           *)
(* transaction sees what is committed when it starts, NOW() is the start   *)
(* of the transaction, and the row that an upsert touches stays locked to  *)
(* the others until the transaction ends.  The steps of a request are      *)
(*                                                                         *)
(*    first statement (insert fixes, delete vehicles, update thresholds)   *)
(*    Begin   the analyzer's transaction starts                            *)
(*    then, for each segment of the request's plan,                        *)
(*       ReadRules, Scan (the window of positions), Upsert                 *)
(*    Commit                                                               *)
(*                                                                         *)
(* Vehicles, raw fixes and rejected rows are the subject of Ingest.        *)
(***************************************************************************)
EXTENDS CongestionRule, Sequences, FiniteSets, SequencesExt

CONSTANTS
    Workers,      \* request threads
    Segments,     \* road_segment ids
    ScanOrder,    \* the active segments, in the order a scan returns them
    Vehicles,
    Scenario,     \* the vehicles whose number starts with SCN
    Speeds,       \* speeds a fix may report
    Limit,        \* speed_limit_kmh of every segment
    Capacity,     \* capacity of every segment
    Ages,         \* how old recorded_at is when a fix arrives
    Rulebooks,    \* threshold rows an operator may write
    BootRules,    \* the thresholds in force when the model starts
    Windows,      \* window lengths an operator may set
    BootWindow,   \* traffic_window_minutes from the environment
    MaxTime, MaxFixes, MaxRequests, MaxBoots,  \* bounds of the model
    CanFail,      \* may a connection or a statement fail midway?
    NoRow, NoFix

ASSUME SegmentsAssumption ==
    /\ ScanOrder \in Seq(Segments)
    /\ ScanOrder # <<>>
    /\ \A i, j \in 1..Len(ScanOrder) : ScanOrder[i] = ScanOrder[j] => i = j

ASSUME DataAssumption ==
    /\ Scenario \subseteq Vehicles
    /\ Speeds \subseteq Nat
    /\ Ages \subseteq Int
    /\ Limit \in Nat
    /\ Capacity \in Nat
    /\ BootRules \in Rulebooks
    /\ Rulebooks \subseteq RulebookType
    /\ BootWindow \in Windows
    /\ Windows \subseteq Int

ASSUME BoundsAssumption ==
    /\ MaxTime \in Nat /\ MaxFixes \in Nat
    /\ MaxRequests \in Nat /\ MaxBoots \in Nat
    /\ CanFail \in BOOLEAN

Fix == [id : Nat, vehicle : Vehicles, segment : Segments,
        speed : Speeds, at : Int]

\* A computed row: the fixes it aggregates, the level and calculated_at.
\* The average, the count and the density are functions of `seen'.
Row == [seen : SUBSET Fix, level : Levels, at : Int]

ASSUME NoRowAssumption == NoRow \notin Row

VARIABLES
    now,        \* the database's clock, in minutes
    positions,  \* committed rows of vehicle_position
    rules,      \* the row of traffic_thresholds
    window,     \* runtime._state["traffic_window_minutes"]
    condition,  \* traffic_condition, one row per segment
    history,    \* traffic_history, per segment in insertion order
    heard,      \* the last level a pg_notify listener was told
    pc,         \* what each worker does next
    plan,       \* the segments its transaction computes, in order
    place,      \* index into the plan of the segment being computed
    reads,      \* what it read: p_window_minutes, NOW(), thresholds, fixes
    pend,       \* rows it wrote and has not committed; each is locked
    notes,      \* did it change a segment's level? pg_notify at its commit
    own,        \* the fix a single-fix request stored
    fixes, requests, boots     \* counters for the bounds

world == <<now, positions, rules, window>>
tables == <<condition, history, heard>>
job == <<pc, plan, place, reads, pend, notes, own>>
counters == <<fixes, requests, boots>>
vars == <<world, tables, job, counters>>
-----------------------------------------------------------------------------
(* Initial state: a fresh database after the first boot.                   *)

\* Mutant: a default that the CHECK of the table does not list.
FreeFlowUnlisted == [seen |-> {}, level |-> "FREE", at |-> 0]

FreeFlow == [seen |-> {}, level |-> "LOW", at |-> 0]

NothingRead == [win |-> 0, start |-> 0, book |-> BootRules, seen |-> {}]

NothingPending == [s \in Segments |-> NoRow]
NothingNoted == [s \in Segments |-> FALSE]

Init ==
    /\ now = 0
    /\ positions = {}
    /\ rules = BootRules
    /\ window = BootWindow
    /\ condition = [s \in Segments |-> FreeFlow]
    /\ history = [s \in Segments |-> <<>>]
    /\ heard = [s \in Segments |-> "NONE"]
    /\ pc = [w \in Workers |-> "idle"]
    /\ plan = [w \in Workers |-> <<>>]
    /\ place = [w \in Workers |-> 1]
    /\ reads = [w \in Workers |-> NothingRead]
    /\ pend = [w \in Workers |-> NothingPending]
    /\ notes = [w \in Workers |-> NothingNoted]
    /\ own = [w \in Workers |-> NoFix]
    /\ fixes = 0 /\ requests = 0 /\ boots = 0
-----------------------------------------------------------------------------
(* The first statement of each request.                                    *)

Accept(w) ==
    /\ pc[w] = "idle"
    /\ requests < MaxRequests
    /\ requests' = requests + 1

\* The worker will compute the segments of p with a window of n minutes.
Launch(w, p, n) ==
    /\ pc' = [pc EXCEPT ![w] = "begin"]
    /\ plan' = [plan EXCEPT ![w] = p]
    /\ place' = [place EXCEPT ![w] = 1]
    /\ reads' = [reads EXCEPT ![w].win = n]

\* Mutants: a scan in either direction, and one that stops early.
ScansEitherWay == {ScanOrder, Reverse(ScanOrder)}
ScansFirstOnly == {<<ScanOrder[1]>>}

\* The orders in which a scan of the active segments returns them.
Scans == {ScanOrder}

\* Mutant: the refresh uses the environment's window.
LaunchScanBootWindow(w, n) == \E p \in Scans : Launch(w, p, BootWindow)

LaunchScan(w, n) == \E p \in Scans : Launch(w, p, n)

\* ingest_point: the position is committed, then the window is read for the
\* call of calculate_segment_traffic on the fix's segment.
IngestPoint(w) ==
    /\ Accept(w)
    /\ fixes < MaxFixes
    /\ \E v \in Vehicles, s \in Segments, sp \in Speeds, age \in Ages :
          LET f == [id |-> fixes, vehicle |-> v, segment |-> s,
                    speed |-> sp, at |-> now - age]
          IN /\ positions' = positions \cup {f}
             /\ own' = [own EXCEPT ![w] = f]
             /\ Launch(w, <<s>>, window)
    /\ fixes' = fixes + 1
    /\ UNCHANGED <<now, rules, window, tables, pend, notes, boots>>

\* bulk_ingest: the whole batch is committed, then everything is refreshed.
BulkIngest(w) ==
    /\ Accept(w)
    /\ fixes + 1 < MaxFixes
    /\ \E v1, v2 \in Vehicles, s1, s2 \in Segments, sp \in Speeds :
          positions' = positions \cup
             {[id |-> fixes, vehicle |-> v1, segment |-> s1,
               speed |-> sp, at |-> now],
              [id |-> fixes + 1, vehicle |-> v2, segment |-> s2,
               speed |-> sp, at |-> now]}
    /\ LaunchScan(w, window)
    /\ fixes' = fixes + 2
    /\ UNCHANGED <<now, rules, window, tables, pend, notes, own, boots>>

\* POST /api/traffic/refresh.
Refresh(w) ==
    /\ Accept(w)
    /\ LaunchScan(w, window)
    /\ UNCHANGED <<world, tables, pend, notes, own, fixes, boots>>

\* POST /api/scenarios/reset: the scenario vehicles go, and with them, by
\* cascade, their positions.
Reset(w) ==
    /\ Accept(w)
    /\ positions' = {f \in positions : f.vehicle \notin Scenario}
    /\ LaunchScan(w, window)
    /\ UNCHANGED <<now, rules, window, tables, pend, notes, own, fixes, boots>>

\* PUT /api/config with a window, with thresholds, or with both.  The window
\* changes at once; only a patch with thresholds goes on to the database.
PutConfig(w) ==
    /\ Accept(w)
    /\ \E n \in Windows, patched \in BOOLEAN :
          /\ window' = n
          /\ IF patched
             THEN /\ pc' = [pc EXCEPT ![w] = "rules"]
                  /\ reads' = [reads EXCEPT ![w].win = n]
             ELSE UNCHANGED <<pc, reads>>
    /\ UNCHANGED <<now, positions, rules, tables, plan, place, pend, notes,
                   own, fixes, boots>>

\* Its UPDATE of traffic_thresholds, then refresh_all_traffic with the
\* window the request set.
UpdateRules(w) ==
    /\ pc[w] = "rules"
    /\ rules' \in Rulebooks
    /\ LaunchScan(w, reads[w].win)
    /\ UNCHANGED <<now, positions, window, tables, pend, notes, own, counters>>

\* A CHECK of the table rejects the UPDATE: the request ends with an error,
\* and the window it set stays.
RulesRejected(w) ==
    /\ pc[w] = "rules"
    /\ pc' = [pc EXCEPT ![w] = "idle"]
    /\ reads' = [reads EXCEPT ![w] = NothingRead]
    /\ UNCHANGED <<world, tables, plan, place, pend, notes, own, counters>>
-----------------------------------------------------------------------------
(* The analyzer's transaction.                                             *)

Target(w) == plan[w][place[w]]

Locked(w) == {s \in Segments : pend[w][s] # NoRow}

Begin(w) ==
    /\ pc[w] = "begin"
    /\ reads' = [reads EXCEPT ![w].start = now]
    /\ pc' = [pc EXCEPT ![w] = "read"]
    /\ UNCHANGED <<world, tables, plan, place, pend, notes, own, counters>>

\* Mutant: thresholds read once, at boot.
RulesAtBoot == BootRules

\* The row that a SELECT of the thresholds returns now.
RulesNow == rules

ReadRules(w) ==
    /\ pc[w] = "read"
    /\ reads' = [reads EXCEPT ![w].book = RulesNow]
    /\ pc' = [pc EXCEPT ![w] = "scan"]
    /\ UNCHANGED <<world, tables, plan, place, pend, notes, own, counters>>

\* Mutant: the window's boundary is off by one minute.
InShorterWindow(s, t, n) ==
    {f \in positions : f.segment = s /\ f.at > t - n + 1}

\* The fixes of segment s younger than n minutes at time t.
InWindow(s, t, n) == {f \in positions : f.segment = s /\ f.at > t - n}

Scan(w) ==
    /\ pc[w] = "scan"
    /\ reads' = [reads EXCEPT ![w].seen =
                    InWindow(Target(w), reads[w].start, reads[w].win)]
    /\ pc' = [pc EXCEPT ![w] = "upsert"]
    /\ UNCHANGED <<world, tables, plan, place, pend, notes, own, counters>>

\* NOW() of the transaction.
Stamp(w) == reads[w].start

\* The row that a worker's reads amount to.
Computed(w) ==
    [seen |-> reads[w].seen,
     level |-> LevelOfFixes(reads[w].seen, Limit, Capacity, reads[w].book),
     at |-> Stamp(w)]

\* Mutant: the write does not wait for the row.
RowAlwaysFree(w, s) == TRUE

RowFree(w, s) == \A v \in Workers \ {w} : s \notin Locked(v)

\* INSERT ... ON CONFLICT DO UPDATE waits for whoever holds the row, and
\* then writes the values computed before the wait.  The trigger compares
\* the level with the row's committed one.
Upsert(w) ==
    /\ pc[w] = "upsert"
    /\ RowFree(w, Target(w))
    /\ pend' = [pend EXCEPT ![w][Target(w)] = Computed(w)]
    /\ notes' = [notes EXCEPT ![w][Target(w)] =
                    Computed(w).level # condition[Target(w)].level]
    /\ IF place[w] = Len(plan[w])
       THEN /\ pc' = [pc EXCEPT ![w] = "commit"]
            /\ UNCHANGED place
       ELSE /\ pc' = [pc EXCEPT ![w] = "read"]
            /\ place' = [place EXCEPT ![w] = @ + 1]
    /\ UNCHANGED <<world, tables, plan, reads, own, counters>>

\* The worker's request is over.
Finish(w) ==
    /\ pc' = [pc EXCEPT ![w] = "idle"]
    /\ plan' = [plan EXCEPT ![w] = <<>>]
    /\ place' = [place EXCEPT ![w] = 1]
    /\ reads' = [reads EXCEPT ![w] = NothingRead]
    /\ pend' = [pend EXCEPT ![w] = NothingPending]
    /\ notes' = [notes EXCEPT ![w] = NothingNoted]
    /\ own' = [own EXCEPT ![w] = NoFix]

\* The written rows, their history rows and the notifications of changed
\* levels become visible together.
Commit(w) ==
    /\ pc[w] = "commit"
    /\ condition' = [s \in Segments |->
          IF s \in Locked(w) THEN pend[w][s] ELSE condition[s]]
    /\ history' = [s \in Segments |->
          IF s \in Locked(w) THEN Append(history[s], pend[w][s])
                             ELSE history[s]]
    /\ heard' = [s \in Segments |->
          IF s \in Locked(w) /\ notes[w][s] THEN pend[w][s].level
                                        ELSE heard[s]]
    /\ Finish(w)
    /\ UNCHANGED <<world, counters>>
-----------------------------------------------------------------------------
(* Failures and the environment.                                           *)

\* The statement or the connection fails: what earlier statements committed
\* stays, the open transaction is rolled back.
Abort(w) ==
    /\ CanFail
    /\ pc[w] # "idle"
    /\ Finish(w)
    /\ UNCHANGED <<world, tables, counters>>

\* The API restarts: requests are lost, the environment's window is back,
\* and the migrations wipe the traffic but keep the snapshot.
Restart ==
    /\ boots < MaxBoots
    /\ boots' = boots + 1
    /\ positions' = {}
    /\ history' = [s \in Segments |-> <<>>]
    /\ window' = BootWindow
    /\ pc' = [w \in Workers |-> "idle"]
    /\ plan' = [w \in Workers |-> <<>>]
    /\ place' = [w \in Workers |-> 1]
    /\ reads' = [w \in Workers |-> NothingRead]
    /\ pend' = [w \in Workers |-> NothingPending]
    /\ notes' = [w \in Workers |-> NothingNoted]
    /\ own' = [w \in Workers |-> NoFix]
    /\ UNCHANGED <<now, rules, condition, heard, fixes, requests>>

Tick ==
    /\ now < MaxTime
    /\ now' = now + 1
    /\ UNCHANGED <<positions, rules, window, tables, job, counters>>

\* Every bound of the model is used up and nothing is under way.  Any other
\* state without a successor is a deadlock of the transactions.
Rest ==
    /\ requests = MaxRequests /\ boots = MaxBoots /\ now = MaxTime
    /\ \A w \in Workers : pc[w] = "idle"
    /\ UNCHANGED vars

Request(w) ==
    \/ IngestPoint(w) \/ BulkIngest(w) \/ Refresh(w)
    \/ Reset(w) \/ PutConfig(w)

\* What a worker that has accepted a request does by itself.
Step(w) ==
    \/ UpdateRules(w) \/ RulesRejected(w)
    \/ Begin(w) \/ ReadRules(w) \/ Scan(w) \/ Upsert(w) \/ Commit(w)

Next ==
    \/ \E w \in Workers : Request(w) \/ Step(w) \/ Abort(w)
    \/ Restart
    \/ Tick
    \/ Rest

Spec == Init /\ [][Next]_vars

-----------------------------------------------------------------------------
(* Properties.                                                             *)

TypeOK ==
    /\ now \in Nat
    /\ positions \in SUBSET Fix
    /\ rules \in Rulebooks
    /\ window \in Windows
    /\ condition \in [Segments -> Row]
    /\ history \in [Segments -> Seq(Row)]
    /\ heard \in [Segments -> Levels \cup {"NONE"}]
    /\ pc \in [Workers -> {"idle", "rules", "begin", "read", "scan",
                           "upsert", "commit"}]
    /\ plan \in [Workers -> Seq(Segments)]
    /\ place \in [Workers -> Nat \ {0}]
    /\ reads \in [Workers -> [win : Int, start : Int, book : Rulebooks,
                              seen : SUBSET Fix]]
    /\ pend \in [Workers -> [Segments -> Row \cup {NoRow}]]
    /\ notes \in [Workers -> [Segments -> BOOLEAN]]
    /\ own \in [Workers -> Fix \cup {NoFix}]
    /\ fixes \in Nat /\ requests \in Nat /\ boots \in Nat

\* Two transactions never hold the same snapshot row: the wait of the upsert
\* (procedures.sql:63-71) is what keeps snapshot, history and notifications
\* of a segment in one order.
OneWriterPerRow ==
    \A v, w \in Workers : v # w => Locked(v) \cap Locked(w) = {}

\* The snapshot row of a segment is the row its history ends with: neither
\* table runs ahead of the other whatever the requests' interleaving, their
\* failures and restarts (procedures.sql:63-75).
SnapshotEndsHistory ==
    \A s \in Segments :
        history[s] # <<>> => condition[s] = Last(history[s])

\* A listener that keeps the last "new" level of the congestion_change
\* channel agrees with the snapshot (triggers.sql:70-90).
ListenerInSync ==
    \A s \in Segments : heard[s] \in {"NONE", condition[s].level}

\* w waits for a row that v has locked.
WaitsFor(w, v) ==
    pc[w] = "upsert" /\ v # w /\ Target(w) \in Locked(v)

\* No set of transactions waits in a circle: refreshes lock the rows in one
\* order (procedures.sql:88-90) and the other calls lock a single row.
NoWaitCycle ==
    \A waiting \in SUBSET Workers : waiting # {} =>
        \E w \in waiting : \A v \in waiting : ~WaitsFor(w, v)

Quiet == \A w \in Workers : pc[w] = "idle"

\* A request that stored one fix and ends well leaves a history row that
\* counts that fix, unless it came too late for the window or a reset
\* deleted its vehicle (gps_processor.py:100-115).
OwnFixCounted ==
    [][\A w \in Workers :
          LET f == own[w] IN
          (/\ Commit(w)
           /\ f # NoFix
           /\ f \in positions
           /\ f.at > reads[w].start - reads[w].win)
          => f \in Last(history'[f.segment]).seen]_vars

\* What the clients see is the board of module Board: whole publications in
\* one order, each with its history row and its notifications, whatever
\* requests overlap, fail or are cut off by a restart
\* (procedures.sql:17-93, triggers.sql:70-90).
LevelUnder(F, r) == LevelOfFixes(F, Limit, Capacity, r)
B == INSTANCE Board WITH
        Active <- Range(ScanOrder), LevelOf <- LevelUnder
BoardSpec == B!Spec

\* Between requests the snapshot of an active segment counts every fix in
\* the window, so a fix is never missing from the dashboard.  Overlapping
\* requests break this; module Settled has what they keep.
EveryFixCounted ==
    Quiet => \A i \in 1..Len(ScanOrder) :
        InWindow(ScanOrder[i], now, window)
            \subseteq condition[ScanOrder[i]].seen
=============================================================================
