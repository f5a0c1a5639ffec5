--------------------------- MODULE AnalyzerProofs ---------------------------
(***************************************************************************)
(* Theorems about Analyzer, for every number of workers, segments,         *)
(* vehicles and rulebooks and without the bounds of the model-checked      *)
(* instances.                                                              *)
(***************************************************************************)
EXTENDS Settled, FiniteSetTheorems, SequenceTheorems, WellFoundedInduction,
        TLAPS

ReadsType ==
    [win : Int, start : Int, book : Rulebooks, seen : SUBSET Fix]

PcType == {"idle", "rules", "begin", "read", "scan", "upsert", "commit"}

\* TypeOK in two parts: what a request is doing, and everything else.
JobType ==
    /\ pc \in [Workers -> PcType]
    /\ plan \in [Workers -> Seq(Segments)]
    /\ place \in [Workers -> Nat \ {0}]
    /\ reads \in [Workers -> ReadsType]
    /\ pend \in [Workers -> [Segments -> Row \cup {NoRow}]]
    /\ notes \in [Workers -> [Segments -> BOOLEAN]]
    /\ own \in [Workers -> Fix \cup {NoFix}]

DataType ==
    /\ now \in Nat
    /\ positions \in SUBSET Fix
    /\ rules \in Rulebooks
    /\ window \in Windows
    /\ condition \in [Segments -> Row]
    /\ history \in [Segments -> Seq(Row)]
    /\ heard \in [Segments -> Levels \cup {"NONE"}]
    /\ fixes \in Nat /\ requests \in Nat /\ boots \in Nat

\* The two parts of the type invariant.
LEMMA TypeParts == TypeOK <=> JobType /\ DataType
BY DEF TypeOK, JobType, DataType, ReadsType, PcType

\* Whatever fixes are classified under whatever thresholds, the result is a
\* level (procedures.sql:55-61).
LEMMA LevelIsLevel ==
    ASSUME NEW F, NEW l, NEW c, NEW r
    PROVE  LevelOfFixes(F, l, c, r) \in Levels
BY DEF LevelOfFixes, Classify, Levels

\* What a worker holds between requests is well typed.
LEMMA NothingReadType == NothingRead \in ReadsType
BY DataAssumption DEF NothingRead, ReadsType

\* So is what it has pending, namely nothing.
LEMMA NothingPendingType ==
    /\ NothingPending \in [Segments -> Row \cup {NoRow}]
    /\ NothingNoted \in [Segments -> BOOLEAN]
BY DEF NothingPending, NothingNoted

\* The row of a segment without a fix is a row.
LEMMA FreeFlowType == FreeFlow \in Row
BY DEF FreeFlow, Row, Levels

\* The scan order is a sequence of segments.
LEMMA ScanOrderType == ScanOrder \in Seq(Segments)
BY SegmentsAssumption

\* A scan returns the active segments in one order.
LEMMA OneScan ==
    ASSUME NEW w, NEW n, LaunchScan(w, n)
    PROVE  Launch(w, ScanOrder, n)
BY DEF LaunchScan, Scans

\* A worker that is launched stays well typed.
LEMMA LaunchType ==
    ASSUME JobType, NEW w \in Workers, NEW p \in Seq(Segments), NEW n \in Int,
           Launch(w, p, n), pend' = pend,
           notes' = notes, own' \in [Workers -> Fix \cup {NoFix}]
    PROVE  JobType'
<1>1. [reads[w] EXCEPT !.win = n] \in ReadsType
  BY DEF JobType, ReadsType
<1>2. reads' \in [Workers -> ReadsType]
  BY <1>1 DEF JobType, Launch
<1>3. pc' \in [Workers -> PcType]
  BY DEF JobType, Launch, PcType
<1>. QED
  BY <1>2, <1>3 DEF JobType, Launch

\* A worker that finishes or is cut off stays well typed.
LEMMA FinishType ==
    ASSUME JobType, NEW w \in Workers, Finish(w)
    PROVE  JobType'
<1>1. <<>> \in Seq(Segments)
  BY EmptySeq
<1>. QED
  BY <1>1, NothingReadType, NothingPendingType
  DEF JobType, PcType, Finish

\* The tables and workers begin well typed.
LEMMA TypeInit == Init => TypeOK
<1>1. <<>> \in Seq(Segments) /\ <<>> \in Seq(Row)
  BY EmptySeq
<1>. QED
  BY <1>1, DataAssumption, NothingReadType, NothingPendingType, FreeFlowType,
     TypeParts
  DEF Init, JobType, PcType, DataType

\* The first statement of a request keeps the types.
LEMMA TypeRequest ==
    ASSUME TypeOK, NEW w \in Workers, Request(w)
    PROVE  TypeOK'
<1>. USE ScanOrderType
<1>1. /\ JobType /\ DataType /\ window \in Int
      /\ own \in [Workers -> Fix \cup {NoFix}]
  BY DataAssumption, TypeParts DEF TypeOK
<1>. SUFFICES JobType' /\ DataType'
  BY TypeParts DEF TypeOK, JobType, DataType, PcType, ReadsType
<1>2. CASE IngestPoint(w)
  <2>1. PICK v \in Vehicles, s \in Segments, sp \in Speeds, age \in Ages :
          LET f == [id |-> fixes, vehicle |-> v, segment |-> s,
                    speed |-> sp, at |-> now - age]
          IN /\ positions' = positions \cup {f}
             /\ own' = [own EXCEPT ![w] = f]
             /\ Launch(w, <<s>>, window)
    BY <1>2 DEF IngestPoint
  <2>. DEFINE f == [id |-> fixes, vehicle |-> v, segment |-> s,
                    speed |-> sp, at |-> now - age]
  <2>2. f \in Fix
    BY <1>1, DataAssumption DEF Fix, DataType
  <2>3. <<s>> \in Seq(Segments) /\ Launch(w, <<s>>, window)
    BY <2>1
  <2>4. /\ positions' \in SUBSET Fix
        /\ own' \in [Workers -> Fix \cup {NoFix}]
    BY <1>1, <2>1, <2>2 DEF DataType
  <2>5. JobType'
    BY <1>1, <1>2, <2>3, <2>4, LaunchType DEF IngestPoint
  <2>. QED
    BY <1>1, <1>2, <2>4, <2>5 DEF IngestPoint, Accept, DataType, tables
<1>3. CASE BulkIngest(w)
  <2>1. PICK v1, v2 \in Vehicles, s1, s2 \in Segments, sp \in Speeds :
          positions' = positions \cup
             {[id |-> fixes, vehicle |-> v1, segment |-> s1,
               speed |-> sp, at |-> now],
              [id |-> fixes + 1, vehicle |-> v2, segment |-> s2,
               speed |-> sp, at |-> now]}
    BY <1>3 DEF BulkIngest
  <2>2. positions' \in SUBSET Fix
    BY <1>1, <2>1 DEF Fix, DataType
  <2>3. JobType'
    BY <1>1, <1>3, OneScan, LaunchType DEF BulkIngest
  <2>. QED
    BY <1>1, <1>3, <2>2, <2>3 DEF BulkIngest, Accept, DataType, tables
<1>4. CASE Refresh(w)
  <2>1. JobType'
    BY <1>1, <1>4, OneScan, LaunchType DEF Refresh
  <2>. QED
    BY <1>1, <1>4, <2>1 DEF Refresh, Accept, DataType, world, tables
<1>5. CASE Reset(w)
  <2>1. JobType'
    BY <1>1, <1>5, OneScan, LaunchType DEF Reset
  <2>. QED
    BY <1>1, <1>5, <2>1 DEF Reset, Accept, DataType, tables
<1>6. CASE PutConfig(w)
  <2>1. PICK n \in Windows, patched \in BOOLEAN :
          /\ window' = n
          /\ IF patched
             THEN /\ pc' = [pc EXCEPT ![w] = "rules"]
                  /\ reads' = [reads EXCEPT ![w].win = n]
             ELSE UNCHANGED <<pc, reads>>
    BY <1>6 DEF PutConfig
  <2>2. [reads[w] EXCEPT !.win = n] \in ReadsType
    <3>1. reads[w] \in ReadsType /\ n \in Int
      BY <1>1, DataAssumption DEF JobType
    <3>. DEFINE r == reads[w]
    <3>. HIDE DEF r
    <3>2. [r EXCEPT !.win = n] \in ReadsType
      BY <3>1 DEF ReadsType, r
    <3>. QED
      BY <3>2 DEF r
  <2>3. pc' \in [Workers -> PcType]
    BY <1>1, <2>1 DEF JobType, PcType
  <2>4. reads' \in [Workers -> ReadsType]
    BY <1>1, <2>1, <2>2 DEF JobType
  <2>5. JobType'
    BY <1>1, <1>6, <2>3, <2>4 DEF PutConfig, Accept, JobType
  <2>6. DataType'
    BY <1>1, <1>6, <2>1 DEF PutConfig, Accept, DataType, tables
  <2>. QED
    BY <2>5, <2>6
<1>. QED
  BY <1>2, <1>3, <1>4, <1>5, <1>6 DEF Request

\* So does each statement of a computation.
LEMMA TypeStep ==
    ASSUME TypeOK, NEW w \in Workers, Step(w)
    PROVE  TypeOK'
<1>1. JobType /\ DataType
  BY TypeParts
<1>. SUFFICES JobType' /\ DataType'
  BY TypeParts DEF TypeOK, JobType, DataType, PcType, ReadsType
<1>2. ReadsType = [win : Int, start : Int, book : Rulebooks, seen : SUBSET Fix]
  BY DEF ReadsType
<1>3. CASE UpdateRules(w)
  <2>1. reads[w].win \in Int /\ own' \in [Workers -> Fix \cup {NoFix}]
    BY <1>1, <1>3 DEF JobType, ReadsType, UpdateRules
  <2>2. JobType'
    BY <1>1, <1>3, <2>1, OneScan, LaunchType, ScanOrderType DEF UpdateRules
  <2>. QED
    BY <1>1, <1>3, <2>2 DEF UpdateRules, DataType, tables, counters
<1>4. CASE RulesRejected(w)
  BY <1>1, <1>4, NothingReadType
  DEF RulesRejected, JobType, PcType, DataType, world, tables, counters
<1>5. CASE Begin(w)
  <2>1. now \in Int /\ reads[w] \in ReadsType
    BY <1>1 DEF JobType, DataType
  <2>2. [reads[w] EXCEPT !.start = now] \in ReadsType
    BY <2>1 DEF ReadsType
  <2>. QED
    BY <1>1, <1>5, <2>2
    DEF Begin, JobType, PcType, DataType, world, tables, counters
<1>6. CASE ReadRules(w)
  <2>1. reads[w] \in ReadsType /\ RulesNow \in Rulebooks
    BY <1>1 DEF JobType, DataType, RulesNow
  <2>2. [reads[w] EXCEPT !.book = RulesNow] \in ReadsType
    <3>. DEFINE book == RulesNow
                r == reads[w]
    <3>. HIDE DEF book, r
    <3>1. [r EXCEPT !.book = book] \in ReadsType
      BY <2>1 DEF ReadsType, book, r
    <3>. QED
      BY <3>1 DEF book, r
  <2>. QED
    BY <1>1, <1>6, <2>2
    DEF ReadRules, RulesNow, JobType, PcType, DataType, world, tables, counters
<1>7. CASE Scan(w)
  <2>. DEFINE F == InWindow(Target(w), reads[w].start, reads[w].win)
  <2>1. F \in SUBSET Fix
    BY <1>1 DEF InWindow, DataType
  <2>. HIDE DEF F
  <2>2. [reads[w] EXCEPT !.seen = F] \in ReadsType
    BY <1>1, <2>1 DEF JobType, ReadsType
  <2>3. reads' \in [Workers -> ReadsType]
    BY <1>1, <1>7, <2>2 DEF Scan, JobType, F
  <2>. QED
    BY <1>1, <1>7, <2>3
    DEF Scan, JobType, PcType, DataType, world, tables, counters
<1>8. CASE Upsert(w)
  <2>1. Computed(w) \in Row
    BY <1>1, LevelIsLevel DEF Computed, Stamp, Row, JobType, ReadsType
  <2>2. pend' \in [Workers -> [Segments -> Row \cup {NoRow}]]
    BY <1>1, <1>8, <2>1 DEF Upsert, JobType
  <2>3. notes' \in [Workers -> [Segments -> BOOLEAN]]
    BY <1>1, <1>8 DEF Upsert, JobType
  <2>4. place[w] + 1 \in Nat \ {0}
    BY <1>1 DEF JobType
  <2>5. pc' \in [Workers -> PcType]
    BY <1>1, <1>8 DEF Upsert, JobType, PcType
  <2>6. place' \in [Workers -> Nat \ {0}]
    BY <1>1, <1>8, <2>4 DEF Upsert, JobType
  <2>7. /\ pc' \in [Workers -> PcType]
        /\ place' \in [Workers -> Nat \ {0}]
    BY <2>5, <2>6
  <2>8. plan' = plan /\ reads' = reads /\ own' = own
    BY <1>8 DEF Upsert
  <2>9. JobType'
    BY <1>1, <2>2, <2>3, <2>7, <2>8 DEF JobType
  <2>10. DataType'
    BY <1>1, <1>8 DEF Upsert, DataType, world, tables, counters
  <2>. QED
    BY <2>9, <2>10
<1>9. CASE Commit(w)
  <2>1. \A s \in Segments : s \in Locked(w) => pend[w][s] \in Row
    BY <1>1 DEF Locked, JobType
  <2>2. condition' \in [Segments -> Row]
    BY <1>1, <1>9, <2>1 DEF Commit, DataType
  <2>3. \A s \in Segments : s \in Locked(w) =>
            Append(history[s], pend[w][s]) \in Seq(Row)
    BY <1>1, <2>1, AppendProperties DEF DataType
  <2>4. history' \in [Segments -> Seq(Row)]
    BY <1>1, <1>9, <2>3 DEF Commit, DataType
  <2>5. heard' \in [Segments -> Levels \cup {"NONE"}]
    BY <1>1, <1>9, <2>1 DEF Commit, DataType, Row
  <2>6. JobType'
    BY <1>1, <1>9, FinishType DEF Commit
  <2>. QED
    BY <1>1, <1>9, <2>2, <2>4, <2>5, <2>6 DEF Commit, DataType, world, counters
<1>. QED
  BY <1>3, <1>4, <1>5, <1>6, <1>7, <1>8, <1>9 DEF Step

\* So does every step.
LEMMA TypeNext == TypeOK /\ [Next]_vars => TypeOK'
<1>. SUFFICES ASSUME TypeOK, [Next]_vars PROVE TypeOK'
  OBVIOUS
<1>1. JobType /\ DataType
  BY TypeParts
<1>2. JobType' /\ DataType' => TypeOK'
  BY DEF TypeOK, JobType, DataType, PcType, ReadsType
<1>3. ASSUME NEW w \in Workers, Request(w) PROVE TypeOK'
  BY <1>3, TypeRequest
<1>4. ASSUME NEW w \in Workers, Step(w) PROVE TypeOK'
  BY <1>4, TypeStep
<1>5. ASSUME NEW w \in Workers, Abort(w) PROVE TypeOK'
  <2>1. JobType'
    BY <1>1, <1>5, FinishType DEF Abort
  <2>. QED
    BY <1>1, <1>2, <1>5, <2>1 DEF Abort, DataType, world, tables, counters
<1>6. CASE Restart
  <2>1. <<>> \in Seq(Segments) /\ <<>> \in Seq(Row)
    BY EmptySeq
  <2>2. JobType'
    BY <1>6, <2>1, NothingReadType, NothingPendingType
    DEF Restart, JobType, PcType
  <2>. QED
    BY <1>1, <1>2, <1>6, <2>1, <2>2, DataAssumption DEF Restart, DataType
<1>7. CASE Tick
  BY <1>1, <1>2, <1>7 DEF Tick, JobType, DataType, tables, job, counters
<1>8. CASE UNCHANGED vars
  BY <1>8 DEF vars, world, tables, job, counters, TypeOK
<1>. QED
  BY <1>3, <1>4, <1>5, <1>6, <1>7, <1>8 DEF Next, Rest

\* The variables keep their types in every behaviour: the tables hold only
\* rows that the schema's CHECKs admit (schema.sql:122-154).
THEOREM TypeCorrect == Spec => []TypeOK
<1>. QED
  BY TypeInit, TypeNext, PTL DEF Spec
-----------------------------------------------------------------------------
(* Row locks, the snapshot and its history.                                *)

\* Only four actions touch the tables or the pending rows.
LEMMA Effects ==
    ASSUME [Next]_vars
    PROVE  \/ condition' = condition /\ history' = history /\ heard' = heard
              /\ pend' = pend /\ notes' = notes
           \/ \E w \in Workers : Upsert(w)
           \/ \E w \in Workers : Commit(w)
           \/ \E w \in Workers : Abort(w)
           \/ Restart
<1>1. ASSUME NEW w \in Workers, Request(w)
      PROVE  condition' = condition /\ history' = history /\ heard' = heard
             /\ pend' = pend /\ notes' = notes
  BY <1>1 DEF Request, IngestPoint, BulkIngest, Refresh, Reset, PutConfig,
              tables
<1>2. ASSUME NEW w \in Workers, Step(w), ~Upsert(w), ~Commit(w)
      PROVE  condition' = condition /\ history' = history /\ heard' = heard
             /\ pend' = pend /\ notes' = notes
  BY <1>2 DEF Step, UpdateRules, RulesRejected, Begin, ReadRules, Scan, tables
<1>3. CASE Tick \/ UNCHANGED vars
  BY <1>3 DEF Tick, vars, tables, job
<1>. QED
  BY <1>1, <1>2, <1>3 DEF Next, Rest

\* An upsert adds its target to the rows that the worker holds.
LEMMA UpsertLocks ==
    ASSUME TypeOK, NEW w \in Workers, Upsert(w)
    PROVE  /\ Locked(w)' \subseteq Locked(w) \cup {Target(w)}
           /\ \A v \in Workers \ {w} : Locked(v)' = Locked(v)
<1>1. /\ \A v \in Workers \ {w} : pend'[v] = pend[v]
      /\ \A s \in Segments \ {Target(w)} : pend'[w][s] = pend[w][s]
  BY DEF TypeOK, Upsert
<1>. QED
  BY <1>1 DEF Locked

\* A worker that finishes holds nothing and takes no row from the others.
LEMMA FinishUnlocks ==
    ASSUME TypeOK, NEW w \in Workers, Finish(w)
    PROVE  /\ Locked(w)' = {}
           /\ \A v \in Workers \ {w} : Locked(v)' = Locked(v)
BY DEF TypeOK, Finish, Locked, NothingPending

\* A restart releases all row locks.
LEMMA RestartUnlocks ==
    ASSUME Restart, NEW w \in Workers
    PROVE  Locked(w)' = {}
BY DEF Restart, Locked, NothingPending

\* Only Upsert adds a lock, and it waits while another has the row.
LEMMA OneWriterNext ==
    TypeOK /\ OneWriterPerRow /\ [Next]_vars => OneWriterPerRow'
<1>. SUFFICES ASSUME TypeOK, OneWriterPerRow, [Next]_vars,
                     NEW v \in Workers, NEW w \in Workers, v # w
              PROVE  Locked(v)' \cap Locked(w)' = {}
  BY DEF OneWriterPerRow
<1>1. Locked(v) \cap Locked(w) = {}
  BY DEF OneWriterPerRow
<1>2. CASE pend' = pend
  BY <1>1, <1>2 DEF Locked
<1>3. ASSUME NEW u \in Workers, Upsert(u)
      PROVE  Locked(v)' \cap Locked(w)' = {}
  <2>1. \A x \in Workers \ {u} : Target(u) \notin Locked(x)
    BY <1>3 DEF Upsert, RowFree
  <2>. QED
    BY <1>1, <1>3, <2>1, UpsertLocks
<1>4. ASSUME NEW u \in Workers, Finish(u)
      PROVE  Locked(v)' \cap Locked(w)' = {}
  BY <1>1, <1>4, FinishUnlocks
<1>5. CASE Restart
  BY <1>5, RestartUnlocks
<1>. QED
  BY <1>2, <1>3, <1>4, <1>5, Effects DEF Commit, Abort

\* No two transactions ever hold the same snapshot row.
THEOREM RowsHaveOneWriter == Spec => []OneWriterPerRow
<1>1. Init => OneWriterPerRow
  BY DEF Init, OneWriterPerRow, Locked, NothingPending
<1>. QED
  BY <1>1, TypeCorrect, OneWriterNext, PTL DEF Spec

\* What a commit does to the tables, segment by segment.
LEMMA CommitRows ==
    ASSUME TypeOK, NEW w \in Workers, Commit(w), NEW s \in Segments
    PROVE  \/ /\ s \in Locked(w)
              /\ condition'[s] = pend[w][s]
              /\ history'[s] # <<>>
              /\ Last(history'[s]) = pend[w][s]
              /\ history'[s] = Append(history[s], pend[w][s])
           \/ /\ s \notin Locked(w)
              /\ condition'[s] = condition[s]
              /\ history'[s] = history[s]
<1>1. CASE s \notin Locked(w)
  BY <1>1 DEF Commit
<1>2. CASE s \in Locked(w)
  <2>1. pend[w][s] \in Row /\ history[s] \in Seq(Row)
    BY <1>2 DEF TypeOK, Locked
  <2>2. history'[s] = Append(history[s], pend[w][s])
    BY <1>2 DEF Commit
  <2>3. history'[s] # <<>> /\ Last(history'[s]) = pend[w][s]
    BY <2>1, <2>2, AppendProperties DEF Last
  <2>. QED
    BY <1>2, <2>2, <2>3 DEF Commit
<1>. QED
  BY <1>1, <1>2

\* Commit writes a row and appends the same row to its history.
LEMMA SnapshotNext ==
    TypeOK /\ SnapshotEndsHistory /\ [Next]_vars => SnapshotEndsHistory'
<1>. SUFFICES ASSUME TypeOK, SnapshotEndsHistory, [Next]_vars,
                     NEW s \in Segments, history'[s] # <<>>
              PROVE  condition'[s] = Last(history'[s])
  BY DEF SnapshotEndsHistory
<1>1. CASE condition' = condition /\ history' = history
  BY <1>1 DEF SnapshotEndsHistory
<1>2. ASSUME NEW w \in Workers, Commit(w)
      PROVE  condition'[s] = Last(history'[s])
  BY <1>2, CommitRows DEF SnapshotEndsHistory
<1>3. CASE Restart
  BY <1>3 DEF Restart
<1>. QED
  BY <1>1, <1>2, <1>3, Effects DEF Upsert, Abort, tables

\* The snapshot of a segment is always the newest row of its history.
THEOREM SnapshotIsNewest == Spec => []SnapshotEndsHistory
<1>1. Init => SnapshotEndsHistory
  BY DEF Init, SnapshotEndsHistory
<1>. QED
  BY <1>1, TypeCorrect, SnapshotNext, PTL DEF Spec

\* A pending row was noted for a notification just when its level differs
\* from that of the row it will replace, which nobody else can change.
NotesOf(w) ==
    \A s \in Segments :
        notes[w][s] <=> s \in Locked(w)
                        /\ pend[w][s].level # condition[s].level

NotesInv == \A w \in Workers : NotesOf(w)

\* Nobody else changes the rows that a transaction holds.
LEMMA NotesNext ==
    TypeOK /\ OneWriterPerRow /\ NotesInv /\ [Next]_vars => NotesInv'
<1>. SUFFICES ASSUME TypeOK, OneWriterPerRow, NotesInv, [Next]_vars,
                     NEW v \in Workers
              PROVE  NotesOf(v)'
  BY DEF NotesInv
<1>1. NotesOf(v)
  BY DEF NotesInv
<1>2. CASE condition' = condition /\ pend' = pend /\ notes' = notes
  BY <1>1, <1>2 DEF NotesOf, Locked
<1>3. ASSUME NEW w \in Workers, Upsert(w)
      PROVE  NotesOf(v)'
  <2>1. condition' = condition
    BY <1>3 DEF Upsert, tables
  <2>2. CASE v # w
    <3>1. pend'[v] = pend[v] /\ notes'[v] = notes[v]
      BY <1>3, <2>2 DEF Upsert, TypeOK
    <3>. QED
      BY <1>1, <2>1, <3>1 DEF NotesOf, Locked
  <2>3. CASE v = w
    <3>1. Computed(w) \in Row
      BY LevelIsLevel DEF Computed, Stamp, Row, TypeOK
    <3>2. ASSUME NEW s \in Segments, s # Target(w)
          PROVE  pend'[w][s] = pend[w][s] /\ notes'[w][s] = notes[w][s]
      BY <1>3, <3>2 DEF Upsert, TypeOK
    <3>3. ASSUME NEW s \in Segments, s = Target(w)
          PROVE  /\ pend'[w][s] = Computed(w)
                 /\ notes'[w][s] <=> Computed(w).level # condition[s].level
      BY <1>3, <3>3 DEF Upsert, TypeOK
    <3>. QED
      BY <1>1, <2>1, <2>3, <3>1, <3>2, <3>3, NoRowAssumption
      DEF NotesOf, Locked
  <2>. QED
    BY <2>2, <2>3
<1>4. ASSUME NEW w \in Workers, Commit(w) \/ Abort(w)
      PROVE  NotesOf(v)'
  <2>1. Finish(w)
    BY <1>4 DEF Commit, Abort
  <2>2. CASE v = w
    BY <2>1, <2>2, FinishUnlocks
    DEF NotesOf, Finish, NothingNoted, TypeOK
  <2>3. CASE v # w
    <3>1. pend'[v] = pend[v] /\ notes'[v] = notes[v]
      BY <2>1, <2>3 DEF Finish, TypeOK
    <3>2. \A s \in Locked(v) : condition'[s] = condition[s]
      BY <1>4, <2>3 DEF OneWriterPerRow, Commit, Abort, Locked, tables
    <3>. QED
      BY <1>1, <3>1, <3>2 DEF NotesOf, Locked
  <2>. QED
    BY <2>2, <2>3
<1>5. CASE Restart
  BY <1>5, RestartUnlocks DEF Restart, NotesOf, NothingNoted
<1>. QED
  BY <1>2, <1>3, <1>4, <1>5, Effects

\* What is noted is what the pending rows change.
LEMMA NotesInvariant == Spec => [](TypeOK /\ OneWriterPerRow /\ NotesInv)
<1>1. Init => OneWriterPerRow /\ NotesInv
  BY DEF Init, OneWriterPerRow, NotesInv, NotesOf, Locked, NothingPending,
         NothingNoted
<1>. QED
  BY <1>1, TypeInit, TypeNext, OneWriterNext, NotesNext, PTL DEF Spec

\* Exactly the changed levels are told.
LEMMA ListenerNext ==
    TypeOK /\ NotesInv /\ ListenerInSync /\ [Next]_vars => ListenerInSync'
<1>. SUFFICES ASSUME TypeOK, NotesInv, ListenerInSync, [Next]_vars,
                     NEW s \in Segments
              PROVE  heard'[s] \in {"NONE", condition'[s].level}
  BY DEF ListenerInSync
<1>1. heard[s] \in {"NONE", condition[s].level}
  BY DEF ListenerInSync
<1>2. CASE condition' = condition /\ heard' = heard
  BY <1>1, <1>2
<1>3. ASSUME NEW w \in Workers, Commit(w)
      PROVE  heard'[s] \in {"NONE", condition'[s].level}
  BY <1>1, <1>3 DEF Commit, NotesInv, NotesOf
<1>. QED
  BY <1>2, <1>3, Effects DEF Upsert, Abort, Restart, tables

\* A listener on congestion_change never disagrees with the snapshot about
\* a segment it was told of: a level is noted while its row is locked, so
\* it is still a change when it is told.
THEOREM ListenersAgree == Spec => []ListenerInSync
<1>1. Init => ListenerInSync
  BY DEF Init, ListenerInSync
<1>. QED
  BY <1>1, NotesInvariant, ListenerNext, PTL DEF Spec
-----------------------------------------------------------------------------
(* The order in which rows are locked.                                     *)

\* A worker's plan is one segment or the whole scan, its place lies in the
\* plan, and it has locked nothing but rows before its place.
PlanOf(w) ==
    /\ pc[w] \in {"idle", "rules"} => plan[w] = <<>>
    /\ pc[w] \notin {"idle", "rules"} =>
          /\ plan[w] = ScanOrder \/ Len(plan[w]) < 2
          /\ place[w] \in 1..Len(plan[w])
    /\ \A s \in Locked(w) : \E i \in 1..Len(plan[w]) :
          s = plan[w][i] /\ (i < place[w] \/ pc[w] = "commit")

PlanInv == \A w \in Workers : PlanOf(w)

\* Launching an idle worker, with rows of nobody.
LEMMA LaunchPlan ==
    ASSUME TypeOK, NEW w \in Workers, PlanOf(w),
           NEW p \in Seq(Segments), NEW n, Launch(w, p, n), pend' = pend,
           pc[w] \in {"idle", "rules"},
           (p = ScanOrder \/ Len(p) < 2) /\ p # <<>>
    PROVE  PlanOf(w)'
<1>1. plan[w] = <<>> /\ Len(plan[w]) = 0
  BY DEF PlanOf
<1>2. Locked(w)' = {}
  BY <1>1 DEF PlanOf, Locked
<1>3. pc'[w] = "begin" /\ plan'[w] = p /\ place'[w] = 1
  BY DEF Launch, TypeOK
<1>4. Len(p) \in Nat \ {0}
  BY EmptySeq
<1>. QED
  BY <1>2, <1>3, <1>4 DEF PlanOf

\* A request begins at the first segment of its plan.
LEMMA PlanRequest ==
    ASSUME TypeOK, NEW w \in Workers, PlanOf(w), Request(w)
    PROVE  PlanOf(w)'
<1>1. pc[w] = "idle"
  BY DEF Request, IngestPoint, BulkIngest, Refresh, Reset, PutConfig, Accept
<1>2. CASE PutConfig(w)
  <2>1. pc'[w] \in {"idle", "rules"} /\ plan' = plan /\ pend' = pend
    BY <1>1, <1>2 DEF PutConfig, TypeOK
  <2>2. plan[w] = <<>> /\ Len(plan[w]) = 0
    BY <1>1 DEF PlanOf
  <2>. QED
    BY <2>1, <2>2 DEF PlanOf, Locked
<1>3. CASE IngestPoint(w)
  <2>1. PICK s \in Segments : Launch(w, <<s>>, window)
    BY <1>3 DEF IngestPoint
  <2>2. <<s>> \in Seq(Segments) /\ Len(<<s>>) < 2 /\ <<s>> # <<>>
    OBVIOUS
  <2>. QED
    BY <1>1, <1>3, <2>1, <2>2, LaunchPlan DEF IngestPoint
<1>4. CASE BulkIngest(w) \/ Refresh(w) \/ Reset(w)
  <2>1. Launch(w, ScanOrder, window) /\ pend' = pend
    BY <1>4, OneScan DEF BulkIngest, Refresh, Reset
  <2>. QED
    BY <1>1, <2>1, SegmentsAssumption, LaunchPlan
<1>. QED
  BY <1>2, <1>3, <1>4 DEF Request

\* A computation goes through its plan in order.
LEMMA PlanStep ==
    ASSUME TypeOK, NEW w \in Workers, PlanOf(w), Step(w)
    PROVE  PlanOf(w)'
<1>1. CASE UpdateRules(w)
  <2>1. Launch(w, ScanOrder, reads[w].win) /\ pend' = pend /\ pc[w] = "rules"
    BY <1>1, OneScan DEF UpdateRules
  <2>. QED
    BY <2>1, SegmentsAssumption, LaunchPlan
<1>2. CASE RulesRejected(w)
  <2>1. /\ pc[w] = "rules" /\ pc'[w] = "idle"
        /\ plan' = plan /\ pend' = pend
    BY <1>2 DEF RulesRejected, TypeOK
  <2>2. plan[w] = <<>> /\ Len(plan[w]) = 0
    BY <2>1 DEF PlanOf
  <2>. QED
    BY <2>1, <2>2 DEF PlanOf, Locked
<1>3. CASE Begin(w) \/ ReadRules(w) \/ Scan(w)
  <2>1. /\ pc[w] \in {"begin", "read", "scan"}
        /\ pc'[w] \in {"read", "scan", "upsert"}
        /\ plan' = plan /\ place' = place /\ pend' = pend
    BY <1>3 DEF Begin, ReadRules, Scan, TypeOK
  <2>. QED
    BY <2>1 DEF PlanOf, Locked
<1>4. CASE Upsert(w)
  <2>1. pc[w] = "upsert" /\ plan' = plan
    BY <1>4 DEF Upsert
  <2>2. /\ plan[w] \in Seq(Segments) /\ Len(plan[w]) \in Nat
        /\ place[w] \in 1..Len(plan[w])
        /\ plan[w] = ScanOrder \/ Len(plan[w]) < 2
    BY <2>1 DEF TypeOK, PlanOf
  <2>3. \/ /\ place[w] = Len(plan[w])
           /\ pc'[w] = "commit" /\ place'[w] = place[w]
        \/ /\ place[w] < Len(plan[w])
           /\ pc'[w] = "read" /\ place'[w] = place[w] + 1
    BY <1>4, <2>2 DEF Upsert, TypeOK
  <2>4. ASSUME NEW s \in Locked(w)'
        PROVE  \E i \in 1..Len(plan[w]) :
                  s = plan[w][i] /\ (i < place'[w] \/ pc'[w] = "commit")
    <3>1. CASE s = Target(w)
      BY <2>2, <2>3, <3>1 DEF Target
    <3>2. CASE s \in Locked(w)
      <4>1. PICK i \in 1..Len(plan[w]) : s = plan[w][i] /\ i < place[w]
        BY <2>1, <3>2 DEF PlanOf
      <4>. QED
        BY <2>2, <2>3, <4>1
    <3>. QED
      BY <1>4, <3>1, <3>2, UpsertLocks
  <2>. QED
    BY <2>1, <2>2, <2>3, <2>4 DEF PlanOf
<1>5. CASE Commit(w)
  <2>1. Locked(w)' = {} /\ pc'[w] = "idle" /\ plan'[w] = <<>>
    BY <1>5, FinishUnlocks DEF Commit, Finish, TypeOK
  <2>. QED
    BY <2>1 DEF PlanOf
<1>. QED
  BY <1>1, <1>2, <1>3, <1>4, <1>5 DEF Step

\* The actions of a worker leave the jobs of the others alone.
LEMMA OthersKept ==
    ASSUME TypeOK, NEW w \in Workers, Request(w) \/ Step(w) \/ Abort(w),
           NEW v \in Workers, v # w
    PROVE  /\ pc'[v] = pc[v] /\ plan'[v] = plan[v] /\ place'[v] = place[v]
           /\ reads'[v] = reads[v] /\ own'[v] = own[v] /\ pend'[v] = pend[v]
<1>1. CASE Request(w)
  BY <1>1 DEF TypeOK, Request, IngestPoint, BulkIngest, Refresh, Reset,
              PutConfig, LaunchScan, Launch
<1>2. CASE Step(w)
  BY <1>2 DEF TypeOK, Step, UpdateRules, RulesRejected, Begin, ReadRules,
              Scan, Upsert, Commit, LaunchScan, Launch, Finish
<1>3. CASE Abort(w)
  BY <1>3 DEF TypeOK, Abort, Finish
<1>. QED
  BY <1>1, <1>2, <1>3

\* Workers do not touch each other's plans.
LEMMA PlanNext == TypeOK /\ PlanInv /\ [Next]_vars => PlanInv'
<1>. SUFFICES ASSUME TypeOK, PlanInv, [Next]_vars, NEW v \in Workers
              PROVE  PlanOf(v)'
  BY DEF PlanInv
<1>1. PlanOf(v)
  BY DEF PlanInv
<1>2. ASSUME NEW w \in Workers, Request(w) \/ Step(w) \/ Abort(w)
      PROVE  PlanOf(v)'
  <2>1. CASE v # w
    BY <1>1, <1>2, <2>1, OthersKept DEF PlanOf, Locked
  <2>2. CASE v = w /\ (Request(w) \/ Step(w))
    BY <1>1, <2>2, PlanRequest, PlanStep
  <2>3. CASE v = w /\ Abort(w)
    <3>1. Locked(w)' = {} /\ pc'[w] = "idle" /\ plan'[w] = <<>>
      BY <2>3, FinishUnlocks DEF Abort, Finish, TypeOK
    <3>. QED
      BY <2>3, <3>1 DEF PlanOf
  <2>. QED
    BY <1>2, <2>1, <2>2, <2>3
<1>3. CASE Restart
  <2>1. Locked(v)' = {} /\ pc'[v] = "idle" /\ plan'[v] = <<>>
    BY <1>3, RestartUnlocks DEF Restart
  <2>. QED
    BY <2>1 DEF PlanOf
<1>4. CASE Tick \/ UNCHANGED vars
  <2>1. pc' = pc /\ plan' = plan /\ place' = place /\ pend' = pend
    BY <1>4 DEF Tick, vars, job
  <2>. QED
    BY <1>1, <2>1 DEF PlanOf, Locked
<1>. QED
  BY <1>2, <1>3, <1>4 DEF Next, Rest

\* Plans are followed in every reachable state.
LEMMA PlanInvariant == Spec => [](TypeOK /\ PlanInv)
<1>1. Init => PlanInv
  BY DEF Init, PlanInv, PlanOf, Locked, NothingPending
<1>. QED
  BY <1>1, TypeInit, TypeNext, PlanNext, PTL DEF Spec

\* Whoever is waited for in the middle of an upsert is scanning, and stands
\* behind the row that is waited for.
LEMMA WaitsForward ==
    ASSUME TypeOK, PlanInv, NEW w \in Workers, NEW v \in Workers,
           WaitsFor(w, v), pc[v] = "upsert"
    PROVE  /\ plan[v] = ScanOrder
           /\ place[v] \in 1..Len(ScanOrder)
           /\ plan[w] = ScanOrder => place[w] < place[v]
<1>1. PlanOf(w) /\ PlanOf(v) /\ pc[w] = "upsert" /\ Target(w) \in Locked(v)
  BY DEF PlanInv, WaitsFor
<1>2. PICK i \in 1..Len(plan[v]) : Target(w) = plan[v][i] /\ i < place[v]
  BY <1>1 DEF PlanOf
<1>3. place[v] \in 1..Len(plan[v]) /\ place[w] \in 1..Len(plan[w])
      /\ Len(plan[v]) \in Nat /\ Len(plan[w]) \in Nat
  <2>1. pc[v] \notin {"idle", "rules"} /\ pc[w] \notin {"idle", "rules"}
    BY <1>1, <1>2, EmptySeq DEF PlanOf
  <2>2. plan[v] \in Seq(Segments) /\ plan[w] \in Seq(Segments)
    BY DEF TypeOK
  <2>3. Len(plan[v]) \in Nat /\ Len(plan[w]) \in Nat
    BY <2>2
  <2>. QED
    BY <1>1, <2>1, <2>3, Zenon DEF PlanOf
<1>4. plan[v] = ScanOrder
  <2>1. plan[v] = ScanOrder \/ Len(plan[v]) < 2
    BY <1>1 DEF PlanOf
  <2>2. i \in Nat /\ 1 <= i /\ place[v] \in Nat /\ place[v] <= Len(plan[v])
    BY <1>3
  <2>3. 1 < Len(plan[v])
    BY <1>2, <1>3, <2>2
  <2>. QED
    BY <1>3, <2>1, <2>3
<1>5. ASSUME plan[w] = ScanOrder
      PROVE  place[w] < place[v]
  BY <1>2, <1>3, <1>4, <1>5, SegmentsAssumption DEF Target
<1>. QED
  BY <1>3, <1>4, <1>5

\* Every non-empty set of naturals has a least element.
LEMMA LeastNatural ==
    ASSUME NEW T \in SUBSET Nat, T # {}
    PROVE  \E n \in T : \A m \in T : n <= m
<1>1. PICK n \in T : \A m \in T : ~(<<m, n>> \in OpToRel(<, Nat))
  BY NatLessThanWellFounded, WFMin
<1>2. \A m \in T : ~(m < n)
  BY <1>1 DEF OpToRel
<1>. QED
  BY <1>2

\* A wait never closes a circle: the furthest of the waiting scans waits
\* for somebody who is not waiting.
LEMMA NoCircle == TypeOK /\ PlanInv => NoWaitCycle
<1>. SUFFICES ASSUME TypeOK, PlanInv,
                     NEW waiting \in SUBSET Workers, waiting # {},
                     \A w \in waiting : \E v \in waiting : WaitsFor(w, v)
              PROVE  FALSE
  BY DEF NoWaitCycle
<1>1. \A w \in waiting : pc[w] = "upsert"
  BY DEF WaitsFor
<1>. DEFINE N == Len(ScanOrder)
            scans == {w \in waiting : plan[w] = ScanOrder /\ place[w] \in 1..N}
            left == {N - place[w] : w \in scans}
<1>2. N \in Nat
  BY SegmentsAssumption, LenProperties
<1>3. \A w \in waiting : \E v \in scans : WaitsFor(w, v)
  BY <1>1, WaitsForward
<1>4. PICK u : u \in waiting
  OBVIOUS
<1>5. scans # {}
  BY <1>3, <1>4
<1>6. \A w \in scans : N - place[w] \in Nat
  BY <1>2
<1>7. left \in SUBSET Nat /\ left # {}
  BY <1>5, <1>6
<1>8. PICK n \in left : \A m \in left : n <= m
  BY <1>7, LeastNatural
<1>9. PICK w \in scans : n = N - place[w]
  BY <1>8
<1>10. PICK v \in scans : WaitsFor(w, v)
  BY <1>3, <1>9
<1>11. place[w] < place[v]
  BY <1>1, <1>10, WaitsForward
<1>12. n <= N - place[v]
  BY <1>8, <1>10
<1>13. place[w] \in 1..N /\ place[v] \in 1..N
  BY <1>9, <1>10
<1>. QED
  BY <1>2, <1>9, <1>11, <1>12, <1>13

\* The analyzer's transactions never deadlock on each other.
THEOREM NeverWaitInCircle == Spec => []NoWaitCycle
<1>. QED
  BY PlanInvariant, NoCircle, PTL
-----------------------------------------------------------------------------
(***************************************************************************)
(* Requests go on.  Some request under way can always take its next step,  *)
(* each step leaves less of its request and all of the others', and there  *)
(* is a bound to what a request has left: so none of them can keep the     *)
(* others waiting for ever, once PostgreSQL lets every statement run.      *)
(***************************************************************************)
\* Can the request of w take its next step?
CanStep(w) ==
    pc[w] # "idle" /\ (pc[w] = "upsert" => RowFree(w, Target(w)))

\* While requests are under way, one of them can take its next step.
SomebodyCanStep ==
    (\E w \in Workers : pc[w] # "idle") => \E w \in Workers : CanStep(w)

\* The statements left at step c of a request, at index i of its plan q:
\* three for each segment, and a few more.
LeftAt(c, q, i) ==
    CASE c = "rules"  -> 3 * Len(ScanOrder) + 3
      [] c = "begin"  -> 3 * (Len(q) - i) + 5
      [] c = "read"   -> 3 * (Len(q) - i) + 4
      [] c = "scan"   -> 3 * (Len(q) - i) + 3
      [] c = "upsert" -> 3 * (Len(q) - i) + 2
      [] c = "commit" -> 1
      [] c = "idle"   -> 0

\* The statements that w has left.
WorkLeft(w) == LeftAt(pc[w], plan[w], place[w])

WorkIsBounded ==
    \A w \in Workers : WorkLeft(w) \in 0..(3 * Len(ScanOrder) + 3)

StepsShrinkWork ==
    [][\A w \in Workers : Step(w) =>
          /\ WorkLeft(w)' < WorkLeft(w)
          /\ \A v \in Workers \ {w} : WorkLeft(v)' = WorkLeft(v)]_vars

\* Who holds a row has a request under way.
LEMMA HoldersAreBusy ==
    ASSUME TypeOK, PlanInv, NEW v \in Workers, pc[v] = "idle"
    PROVE  Locked(v) = {}
<1>1. plan[v] = <<>> /\ Len(plan[v]) = 0
  BY DEF PlanInv, PlanOf
<1>. QED
  BY <1>1 DEF PlanInv, PlanOf

\* Some request can take its next step, whatever the others hold
\* (procedures.sql:63-90).
THEOREM RequestsGoOn == Spec => []SomebodyCanStep
<1>1. TypeOK /\ PlanInv /\ NoWaitCycle => SomebodyCanStep
  <2>. SUFFICES ASSUME TypeOK, PlanInv, NoWaitCycle,
                       NEW u \in Workers, pc[u] # "idle",
                       \A w \in Workers : ~CanStep(w)
                PROVE  FALSE
    BY DEF SomebodyCanStep
  <2>. DEFINE busy == {w \in Workers : pc[w] # "idle"}
  <2>1. \A w \in busy : \E v \in busy : WaitsFor(w, v)
    <3>. TAKE w \in busy
    <3>1. pc[w] = "upsert" /\ ~RowFree(w, Target(w))
      BY DEF CanStep
    <3>2. PICK v \in Workers \ {w} : Target(w) \in Locked(v)
      BY <3>1 DEF RowFree
    <3>3. pc[v] # "idle"
      BY <3>2, HoldersAreBusy
    <3>. QED
      BY <3>1, <3>2, <3>3 DEF WaitsFor
  <2>2. busy \in SUBSET Workers /\ busy # {}
    OBVIOUS
  <2>. HIDE DEF busy
  <2>. QED
    BY <2>1, <2>2 DEF NoWaitCycle
<1>. QED
  BY <1>1, PlanInvariant, NeverWaitInCircle, PTL

\* What is ahead of a worker in its plan.
LEMMA AheadIsBounded ==
    ASSUME TypeOK, PlanInv, NEW w \in Workers, pc[w] \notin {"idle", "rules"}
    PROVE  /\ Len(ScanOrder) \in Nat \ {0}
           /\ Len(plan[w]) \in Nat /\ place[w] \in Nat
           /\ place[w] <= Len(plan[w])
           /\ Len(plan[w]) - place[w] <= Len(ScanOrder) - 1
<1>1. Len(ScanOrder) \in Nat \ {0}
  BY SegmentsAssumption, EmptySeq, LenProperties
<1>2. /\ plan[w] = ScanOrder \/ Len(plan[w]) < 2
      /\ place[w] \in 1..Len(plan[w]) /\ Len(plan[w]) \in Nat
  BY DEF PlanInv, PlanOf, TypeOK
<1>. QED
  BY <1>1, <1>2

\* A request never has more than three statements for each active segment
\* left, and three more.
THEOREM RequestsAreBounded == Spec => []WorkIsBounded
<1>1. TypeOK /\ PlanInv => WorkIsBounded
  <2>. SUFFICES ASSUME TypeOK, PlanInv, NEW w \in Workers
                PROVE  WorkLeft(w) \in 0..(3 * Len(ScanOrder) + 3)
    BY DEF WorkIsBounded
  <2>1. Len(ScanOrder) \in Nat
    BY SegmentsAssumption, LenProperties
  <2>2. CASE pc[w] \in {"idle", "rules"}
    BY <2>1, <2>2 DEF WorkLeft, LeftAt
  <2>3. CASE pc[w] \notin {"idle", "rules"}
    <3>. DEFINE d == Len(plan[w]) - place[w]
                n == Len(ScanOrder)
    <3>1. d \in Nat /\ n \in Nat /\ d <= n - 1
      BY <2>3, AheadIsBounded
    <3>2. WorkLeft(w) \in {3 * d + 5, 3 * d + 4, 3 * d + 3, 3 * d + 2, 1}
      BY <2>3 DEF WorkLeft, LeftAt, TypeOK
    <3>. HIDE DEF d, n
    <3>3. WorkLeft(w) \in 0..(3 * n + 3)
      BY <3>1, <3>2
    <3>. QED
      BY <3>3 DEF n
  <2>. QED
    BY <2>2, <2>3
<1>. QED
  BY <1>1, PlanInvariant, PTL

\* A step of a request leaves it less to do, and the others what they had:
\* the loop of refresh_all_traffic goes through the segments once
\* (procedures.sql:88-91).
THEOREM RequestsComeToAnEnd == Spec => StepsShrinkWork
<1>1. TypeOK /\ PlanInv /\ [Next]_vars =>
         [\A w \in Workers : Step(w) =>
             /\ WorkLeft(w)' < WorkLeft(w)
             /\ \A v \in Workers \ {w} : WorkLeft(v)' = WorkLeft(v)]_vars
  <2>. SUFFICES ASSUME TypeOK, PlanInv, NEW w \in Workers, Step(w)
                PROVE  /\ WorkLeft(w)' < WorkLeft(w)
                       /\ \A v \in Workers \ {w} : WorkLeft(v)' = WorkLeft(v)
    OBVIOUS
  <2>1. \A v \in Workers \ {w} : WorkLeft(v)' = WorkLeft(v)
    BY OthersKept DEF WorkLeft
  <2>2. Len(ScanOrder) \in Nat \ {0}
    BY SegmentsAssumption, EmptySeq, LenProperties
  <2>3. pc[w] \notin {"idle", "rules"} =>
           Len(plan[w]) \in Nat /\ place[w] \in Nat /\ place[w] <= Len(plan[w])
    BY AheadIsBounded
  <2>. DEFINE newly == LeftAt(pc'[w], plan'[w], place'[w])
              before == LeftAt(pc[w], plan[w], place[w])
  <2>. SUFFICES newly < before
    BY <2>1 DEF WorkLeft
  <2>4. CASE UpdateRules(w)
    <3>1. Launch(w, ScanOrder, reads[w].win) /\ pc[w] = "rules"
      BY <2>4, OneScan DEF UpdateRules
    <3>2. pc'[w] = "begin" /\ plan'[w] = ScanOrder /\ place'[w] = 1
      BY <3>1 DEF Launch, TypeOK
    <3>3. before = 3 * Len(ScanOrder) + 3
      BY <3>1 DEF LeftAt
    <3>4. newly = 3 * (Len(ScanOrder) - 1) + 5
      BY <3>2 DEF LeftAt
    <3>. QED
      BY <2>2, <3>3, <3>4
  <2>5. CASE RulesRejected(w)
    <3>1. pc[w] = "rules" /\ pc'[w] = "idle"
      BY <2>5 DEF RulesRejected, TypeOK
    <3>2. before = 3 * Len(ScanOrder) + 3
      BY <3>1 DEF LeftAt
    <3>3. newly = 0
      BY <3>1 DEF LeftAt
    <3>. QED
      BY <2>2, <3>2, <3>3
  <2>6. CASE Begin(w) \/ ReadRules(w) \/ Scan(w)
    <3>1. plan'[w] = plan[w] /\ place'[w] = place[w]
      BY <2>6 DEF Begin, ReadRules, Scan
    <3>2. \/ pc[w] = "begin" /\ pc'[w] = "read"
          \/ pc[w] = "read" /\ pc'[w] = "scan"
          \/ pc[w] = "scan" /\ pc'[w] = "upsert"
      BY <2>6 DEF Begin, ReadRules, Scan, TypeOK
    <3>3. Len(plan[w]) \in Nat /\ place[w] \in Nat
      BY <2>3, <3>2
    <3>4. newly = LeftAt(pc'[w], plan[w], place[w])
      BY <3>1
    <3>5. CASE pc[w] = "begin" /\ pc'[w] = "read"
      <4>1. before = 3 * (Len(plan[w]) - place[w]) + 5
        BY <3>5 DEF LeftAt
      <4>2. newly = 3 * (Len(plan[w]) - place[w]) + 4
        BY <3>4, <3>5 DEF LeftAt
      <4>. QED
        BY <3>3, <4>1, <4>2
    <3>6. CASE pc[w] = "read" /\ pc'[w] = "scan"
      <4>1. before = 3 * (Len(plan[w]) - place[w]) + 4
        BY <3>6 DEF LeftAt
      <4>2. newly = 3 * (Len(plan[w]) - place[w]) + 3
        BY <3>4, <3>6 DEF LeftAt
      <4>. QED
        BY <3>3, <4>1, <4>2
    <3>7. CASE pc[w] = "scan" /\ pc'[w] = "upsert"
      <4>1. before = 3 * (Len(plan[w]) - place[w]) + 3
        BY <3>7 DEF LeftAt
      <4>2. newly = 3 * (Len(plan[w]) - place[w]) + 2
        BY <3>4, <3>7 DEF LeftAt
      <4>. QED
        BY <3>3, <4>1, <4>2
    <3>. QED
      BY <3>2, <3>5, <3>6, <3>7
  <2>7. CASE Upsert(w)
    <3>1. pc[w] = "upsert" /\ plan'[w] = plan[w]
      BY <2>7 DEF Upsert
    <3>2. Len(plan[w]) \in Nat /\ place[w] \in Nat /\ place[w] <= Len(plan[w])
      BY <2>3, <3>1
    <3>3. before = 3 * (Len(plan[w]) - place[w]) + 2
      BY <3>1 DEF LeftAt
    <3>4. CASE place[w] = Len(plan[w])
      <4>1. pc'[w] = "commit"
        BY <2>7, <3>4 DEF Upsert, TypeOK
      <4>2. newly = 1
        BY <4>1 DEF LeftAt
      <4>. QED
        BY <3>2, <3>3, <4>2
    <3>5. CASE place[w] # Len(plan[w])
      <4>1. pc'[w] = "read" /\ place'[w] = place[w] + 1
        BY <2>7, <3>5 DEF Upsert, TypeOK
      <4>2. newly = 3 * (Len(plan[w]) - (place[w] + 1)) + 4
        BY <3>1, <4>1 DEF LeftAt
      <4>. QED
        BY <3>2, <3>3, <4>2
    <3>. QED
      BY <3>4, <3>5
  <2>8. CASE Commit(w)
    <3>1. pc[w] = "commit" /\ pc'[w] = "idle"
      BY <2>8 DEF Commit, Finish, TypeOK
    <3>2. before = 1 /\ newly = 0
      BY <3>1 DEF LeftAt
    <3>. QED
      BY <3>2
  <2>. QED
    BY <2>4, <2>5, <2>6, <2>7, <2>8 DEF Step
<1>. QED
  BY <1>1, PlanInvariant, PTL DEF Spec, StepsShrinkWork
-----------------------------------------------------------------------------
(* What becomes of the fix that a request stores.                          *)

\* The fix of w was given an id of its own, its segment is w's plan, it is
\* among the fixes read once it was in the window of the scan, and the row
\* to be committed aggregates the fixes read.
OwnOf(w) ==
    own[w] # NoFix =>
        /\ own[w].id < fixes
        /\ pc[w] \notin {"idle", "rules"}
        /\ plan[w] = <<own[w].segment>>
        /\ place[w] = 1
        /\ (/\ pc[w] \in {"upsert", "commit"}
            /\ own[w] \in positions
            /\ own[w].at > reads[w].start - reads[w].win)
           => own[w] \in reads[w].seen
        /\ pc[w] = "commit" =>
              /\ pend[w][own[w].segment] # NoRow
              /\ pend[w][own[w].segment].seen = reads[w].seen

IdsUsed == \A f \in positions : f.id < fixes

OwnInv == IdsUsed /\ \A w \in Workers : OwnOf(w)

\* No step reuses an id, and a stored fix that is there after a step was
\* there before it.
LEMMA PositionsKept ==
    ASSUME TypeOK, IdsUsed, [Next]_vars
    PROVE  /\ IdsUsed'
           /\ fixes <= fixes' /\ fixes' \in Nat
           /\ \A f \in positions' : f.id < fixes => f \in positions
<1>1. fixes \in Nat /\ positions \subseteq Fix /\ \A f \in Fix : f.id \in Nat
  BY DEF TypeOK, Fix
<1>2. ASSUME NEW w \in Workers, IngestPoint(w)
      PROVE  /\ fixes' = fixes + 1
             /\ \A f \in positions' : f \in positions \/ f.id = fixes
  BY <1>2 DEF IngestPoint
<1>3. ASSUME NEW w \in Workers, BulkIngest(w)
      PROVE  /\ fixes' = fixes + 2
             /\ \A f \in positions' :
                   f \in positions \/ f.id = fixes \/ f.id = fixes + 1
  BY <1>3 DEF BulkIngest
<1>4. CASE fixes' = fixes /\ positions' \subseteq positions
  BY <1>1, <1>4 DEF IdsUsed
<1>5. ASSUME NEW w \in Workers, Request(w), ~IngestPoint(w), ~BulkIngest(w)
      PROVE  fixes' = fixes /\ positions' \subseteq positions
  BY <1>5 DEF Request, Refresh, Reset, PutConfig, world
<1>6. ASSUME NEW w \in Workers, Step(w) \/ Abort(w)
      PROVE  fixes' = fixes /\ positions' \subseteq positions
  BY <1>6 DEF Step, UpdateRules, RulesRejected, Begin, ReadRules, Scan, Upsert,
              Commit, Abort, world, counters
<1>7. CASE Restart \/ Tick \/ UNCHANGED vars
  <2>1. fixes' = fixes /\ positions' \subseteq positions
    BY <1>7 DEF Restart, Tick, vars, world, counters
  <2>. QED
    BY <1>4, <2>1
<1>8. ASSUME NEW w \in Workers, IngestPoint(w) \/ BulkIngest(w)
      PROVE  /\ IdsUsed'
             /\ fixes <= fixes' /\ fixes' \in Nat
             /\ \A f \in positions' : f.id < fixes => f \in positions
  BY <1>1, <1>2, <1>3, <1>8 DEF IdsUsed
<1>. QED
  BY <1>4, <1>5, <1>6, <1>7, <1>8 DEF Next, Rest

\* A step that keeps w's job keeps what is known of its fix.
LEMMA OwnKept ==
    ASSUME TypeOK, OwnInv, [Next]_vars, NEW w \in Workers,
           pc'[w] = pc[w], plan'[w] = plan[w], place'[w] = place[w],
           reads'[w] = reads[w], own'[w] = own[w], pend'[w] = pend[w]
    PROVE  OwnOf(w)'
<1>1. own[w] # NoFix => own[w].id \in Nat
  BY DEF TypeOK, Fix
<1>. QED
  BY <1>1, PositionsKept DEF OwnInv, OwnOf, TypeOK

\* What w itself does keeps its fix among what it has read.
LEMMA OwnOfWorker ==
    ASSUME TypeOK, PlanInv, OwnInv, [Next]_vars, NEW w \in Workers,
           Request(w) \/ Step(w) \/ Abort(w)
    PROVE  OwnOf(w)'
<1>1. OwnOf(w) /\ PlanOf(w)
  BY DEF OwnInv, PlanInv
<1>2. /\ fixes <= fixes' /\ fixes' \in Nat /\ fixes \in Nat
      /\ \A f \in positions' : f.id < fixes => f \in positions
      /\ own[w] # NoFix => own[w].id \in Nat
  BY PositionsKept DEF OwnInv, TypeOK, Fix
<1>3. CASE IngestPoint(w)
  <2>1. PICK v \in Vehicles, s \in Segments, sp \in Speeds, age \in Ages :
          LET f == [id |-> fixes, vehicle |-> v, segment |-> s,
                    speed |-> sp, at |-> now - age]
          IN own' = [own EXCEPT ![w] = f] /\ Launch(w, <<s>>, window)
    BY <1>3 DEF IngestPoint
  <2>2. /\ own'[w].id = fixes /\ own'[w].segment = s
        /\ pc'[w] = "begin" /\ plan'[w] = <<s>> /\ place'[w] = 1
    BY <2>1 DEF Launch, TypeOK
  <2>3. fixes' = fixes + 1
    BY <1>3 DEF IngestPoint
  <2>. QED
    BY <1>2, <2>2, <2>3 DEF OwnOf
<1>4. CASE Request(w) /\ ~IngestPoint(w)
  <2>1. pc[w] = "idle" /\ own' = own
    BY <1>4 DEF Request, BulkIngest, Refresh, Reset, PutConfig, Accept
  <2>. QED
    BY <1>1, <2>1 DEF OwnOf
<1>5. CASE UpdateRules(w) \/ RulesRejected(w)
  <2>1. pc[w] = "rules" /\ own' = own
    BY <1>5 DEF UpdateRules, RulesRejected
  <2>. QED
    BY <1>1, <2>1 DEF OwnOf
<1>6. CASE Begin(w) \/ ReadRules(w)
  <2>1. /\ pc[w] \in {"begin", "read"} /\ pc'[w] \in {"read", "scan"}
        /\ plan' = plan /\ place' = place /\ own' = own
    BY <1>6 DEF Begin, ReadRules, TypeOK
  <2>. QED
    BY <1>1, <1>2, <2>1 DEF OwnOf
<1>7. CASE Scan(w)
  <2>1. /\ pc'[w] = "upsert" /\ pc[w] = "scan"
        /\ plan' = plan /\ place' = place /\ own' = own
        /\ positions' = positions
    BY <1>7 DEF Scan, TypeOK, world
  <2>2. /\ reads'[w].start = reads[w].start /\ reads'[w].win = reads[w].win
        /\ reads'[w].seen =
              InWindow(Target(w), reads[w].start, reads[w].win)
    BY <1>7 DEF Scan, TypeOK
  <2>3. own[w] # NoFix => Target(w) = own[w].segment
    BY <1>1 DEF OwnOf, Target
  <2>. QED
    BY <1>1, <1>2, <2>1, <2>2, <2>3 DEF OwnOf, InWindow
<1>8. CASE Upsert(w)
  <2>1. /\ pc[w] = "upsert" /\ plan' = plan /\ own' = own /\ reads' = reads
        /\ positions' = positions
    BY <1>8 DEF Upsert, world
  <2>2. CASE own[w] = NoFix
    BY <2>1, <2>2 DEF OwnOf
  <2>3. CASE own[w] # NoFix
    <3>1. /\ plan[w] = <<own[w].segment>> /\ place[w] = 1
          /\ own[w].segment \in Segments
      BY <1>1, <2>3 DEF OwnOf, TypeOK, Fix
    <3>2. /\ pc'[w] = "commit" /\ place' = place
          /\ Target(w) = own[w].segment
      BY <1>8, <3>1 DEF Upsert, TypeOK, Target
    <3>3. pend'[w][own[w].segment] = Computed(w)
      BY <1>8, <3>1, <3>2 DEF Upsert, TypeOK
    <3>4. Computed(w) \in Row /\ Computed(w).seen = reads[w].seen
      BY LevelIsLevel DEF Computed, Stamp, Row, TypeOK
    <3>. QED
      BY <1>1, <1>2, <2>1, <2>3, <3>1, <3>2, <3>3, <3>4, NoRowAssumption
      DEF OwnOf
  <2>. QED
    BY <2>2, <2>3
<1>9. CASE Commit(w) \/ Abort(w)
  <2>1. own'[w] = NoFix
    BY <1>9 DEF Commit, Abort, Finish, TypeOK
  <2>. QED
    BY <2>1 DEF OwnOf
<1>. QED
  BY <1>3, <1>4, <1>5, <1>6, <1>7, <1>8, <1>9 DEF Step

\* Nobody else takes the fix away but by deleting it.
LEMMA OwnNext == TypeOK /\ PlanInv /\ OwnInv /\ [Next]_vars => OwnInv'
<1>. SUFFICES ASSUME TypeOK, PlanInv, OwnInv, [Next]_vars,
                     NEW v \in Workers
              PROVE  IdsUsed' /\ OwnOf(v)'
  BY PositionsKept DEF OwnInv
<1>1. IdsUsed'
  BY PositionsKept DEF OwnInv
<1>2. ASSUME NEW w \in Workers, Request(w) \/ Step(w) \/ Abort(w)
      PROVE  OwnOf(v)'
  <2>1. CASE v = w
    BY <1>2, <2>1, OwnOfWorker
  <2>2. CASE v # w
    BY <1>2, <2>2, OthersKept, OwnKept
  <2>. QED
    BY <2>1, <2>2
<1>3. CASE Restart
  BY <1>1, <1>3 DEF Restart, OwnOf
<1>4. CASE Tick \/ UNCHANGED vars
  <2>1. UNCHANGED <<pc, plan, place, reads, own, pend>>
    BY <1>4 DEF Tick, vars, job
  <2>. QED
    BY <1>1, <2>1, OwnKept
<1>. QED
  BY <1>1, <1>2, <1>3, <1>4 DEF Next, Rest

\* A commit appends a history row that counts the fix.
LEMMA CommitCountsOwn ==
    ASSUME TypeOK, OwnInv, NEW w \in Workers, Commit(w),
           own[w] # NoFix, own[w] \in positions,
           own[w].at > reads[w].start - reads[w].win
    PROVE  own[w] \in Last(history'[own[w].segment]).seen
<1>1. pc[w] = "commit" /\ OwnOf(w)
  BY DEF Commit, OwnInv
<1>2. own[w].segment \in Segments
  BY DEF TypeOK, Fix
<1>3. own[w].segment \in Locked(w)
  BY <1>1, <1>2 DEF OwnOf, Locked
<1>4. Last(history'[own[w].segment]) = pend[w][own[w].segment]
  BY <1>2, <1>3, CommitRows
<1>. QED
  BY <1>1, <1>4 DEF OwnOf

\* A fix that is stored in time is counted by the computation its request
\* ends with, whatever runs beside it.
THEOREM FixesAreCounted == Spec => OwnFixCounted
<1>1. Init => OwnInv
  BY DEF Init, OwnInv, IdsUsed, OwnOf
<1>2. TypeOK /\ OwnInv /\ [Next]_vars =>
        [\A w \in Workers :
            LET f == own[w] IN
            (/\ Commit(w)
             /\ f # NoFix
             /\ f \in positions
             /\ f.at > reads[w].start - reads[w].win)
            => f \in Last(history'[f.segment]).seen]_vars
  BY CommitCountsOwn
<1>. QED
  BY <1>1, <1>2, PlanInvariant, OwnNext, PTL DEF Spec, OwnFixCounted
-----------------------------------------------------------------------------
(* Analyzer implements Board.                                              *)

\* A worker has locked every row before its place, its pending rows are
\* lawful and of one calculated_at, and what it read about its target is
\* what a lawful row may count.
PublishOf(w) ==
    /\ pc[w] = "begin" => place[w] = 1
    /\ pc[w] # "idle" => reads[w].win \in Windows
    /\ \A i \in 1..Len(plan[w]) :
          i < place[w] \/ pc[w] = "commit" => plan[w][i] \in Locked(w)
    /\ \A s \in Locked(w) :
          pend[w][s].at = reads[w].start /\ B!Lawful(pend[w][s], s)
    /\ pc[w] = "upsert" => \A f \in reads[w].seen :
          f.segment = Target(w) /\ f.at > reads[w].start - reads[w].win

PublishInv == \A w \in Workers : PublishOf(w)

\* A worker that holds no row and starts a plan, or has none.
LEMMA PublishAtStart ==
    ASSUME NEW w \in Workers, Locked(w)' = {},
           \/ pc'[w] \in {"begin", "rules"} /\ reads'[w].win \in Windows
           \/ pc'[w] = "idle",
           place'[w] = 1
    PROVE  PublishOf(w)'
<1>1. \A i \in 1..Len(plan'[w]) : ~(i < place'[w])
  OBVIOUS
<1>. QED
  BY <1>1 DEF PublishOf

\* A request begins with nothing pending.
LEMMA PublishRequest ==
    ASSUME TypeOK, NEW w \in Workers, PlanOf(w), place[w] = 1, Request(w)
    PROVE  PublishOf(w)'
<1>1. pc[w] = "idle" /\ pend' = pend /\ Len(plan[w]) = 0
  BY DEF Request, IngestPoint, BulkIngest, Refresh, Reset, PutConfig, Accept,
         PlanOf
<1>2. Locked(w)' = {}
  BY <1>1 DEF PlanOf, Locked
<1>3. window \in Windows
  BY DEF TypeOK
<1>4. CASE PutConfig(w)
  <2>1. /\ place' = place
        /\ \/ pc'[w] = "idle"
           \/ pc'[w] = "rules" /\ reads'[w].win \in Windows
    BY <1>1, <1>4 DEF PutConfig, TypeOK
  <2>. QED
    BY <1>2, <2>1, PublishAtStart
<1>5. CASE ~PutConfig(w)
  <2>1. \E p : Launch(w, p, window)
    BY <1>5 DEF Request, IngestPoint, BulkIngest, Refresh, Reset, LaunchScan
  <2>2. pc'[w] = "begin" /\ place'[w] = 1 /\ reads'[w].win = window
    BY <2>1 DEF Launch, TypeOK
  <2>. QED
    BY <1>2, <1>3, <2>2, PublishAtStart
<1>. QED
  BY <1>4, <1>5

\* The row that a worker is about to write is one the rule yields.
LEMMA ComputedIsLawful ==
    ASSUME TypeOK, NEW w \in Workers, PublishOf(w), pc[w] = "upsert"
    PROVE  /\ Computed(w) \in Row
           /\ Computed(w).at = reads[w].start
           /\ B!Lawful(Computed(w), Target(w))
<1>1. Computed(w) \in Row
  BY LevelIsLevel DEF Computed, Stamp, Row, TypeOK
<1>2. /\ Computed(w).seen = reads[w].seen /\ Computed(w).at = reads[w].start
      /\ Computed(w).level =
            LevelOfFixes(reads[w].seen, Limit, Capacity, reads[w].book)
  BY DEF Computed, Stamp
<1>3. reads[w].book \in Rulebooks /\ reads[w].win \in Windows
  BY DEF TypeOK, PublishOf
<1>4. \A f \in reads[w].seen :
         f.segment = Target(w) /\ f.at > reads[w].start - reads[w].win
  BY DEF PublishOf
<1>. QED
  BY <1>1, <1>2, <1>3, <1>4 DEF B!Lawful, LevelUnder

\* Rows become pending one segment of the plan after the other.
LEMMA PublishStep ==
    ASSUME TypeOK, NEW w \in Workers, PlanOf(w), PublishOf(w), Step(w),
           pc[w] = "rules" => place[w] = 1
    PROVE  PublishOf(w)'
<1>1. CASE UpdateRules(w)
  <2>1. /\ Launch(w, ScanOrder, reads[w].win) /\ pend' = pend
        /\ pc[w] = "rules" /\ Len(plan[w]) = 0
    BY <1>1, OneScan DEF UpdateRules, PlanOf
  <2>2. Locked(w)' = {}
    BY <2>1 DEF PlanOf, Locked
  <2>3. /\ pc'[w] = "begin" /\ place'[w] = 1
        /\ reads'[w].win = reads[w].win /\ reads[w].win \in Windows
    BY <2>1 DEF Launch, TypeOK, PublishOf
  <2>. QED
    BY <2>2, <2>3, PublishAtStart
<1>2. CASE RulesRejected(w)
  <2>1. /\ pc[w] = "rules" /\ pc'[w] = "idle" /\ Len(plan[w]) = 0
        /\ place' = place /\ pend' = pend
    BY <1>2 DEF RulesRejected, PlanOf, TypeOK
  <2>2. Locked(w)' = {}
    BY <2>1 DEF PlanOf, Locked
  <2>. QED
    BY <2>1, <2>2, PublishAtStart
<1>3. CASE Begin(w)
  <2>1. /\ pc[w] = "begin" /\ pc'[w] = "read" /\ place[w] = 1
        /\ place' = place /\ plan' = plan /\ pend' = pend
        /\ reads'[w].win = reads[w].win
    BY <1>3 DEF Begin, TypeOK, PublishOf
  <2>2. Locked(w)' = {}
    BY <2>1 DEF PlanOf, Locked
  <2>3. \A i \in 1..Len(plan[w]) : ~(i < place[w])
    BY <2>1
  <2>. QED
    BY <2>1, <2>2, <2>3 DEF PublishOf
<1>4. CASE ReadRules(w)
  <2>1. /\ pc[w] = "read" /\ pc'[w] = "scan"
        /\ place' = place /\ plan' = plan /\ pend' = pend
        /\ reads'[w].win = reads[w].win /\ reads'[w].start = reads[w].start
    BY <1>4 DEF ReadRules, TypeOK
  <2>. QED
    BY <2>1 DEF PublishOf, Locked
<1>5. CASE Scan(w)
  <2>1. /\ pc[w] = "scan" /\ pc'[w] = "upsert"
        /\ place' = place /\ plan' = plan /\ pend' = pend
        /\ reads'[w].win = reads[w].win /\ reads'[w].start = reads[w].start
        /\ reads'[w].seen =
              InWindow(Target(w), reads[w].start, reads[w].win)
    BY <1>5 DEF Scan, TypeOK
  <2>. QED
    BY <2>1 DEF PublishOf, Locked, InWindow, Target
<1>6. CASE Upsert(w)
  <2>1. /\ pc[w] = "upsert" /\ plan' = plan /\ reads' = reads
        /\ place[w] \in 1..Len(plan[w]) /\ plan[w] \in Seq(Segments)
        /\ Len(plan[w]) \in Nat
    BY <1>6 DEF Upsert, PlanOf, TypeOK
  <2>2. Target(w) \in Segments
    BY <2>1 DEF Target
  <2>3. \/ /\ place[w] = Len(plan[w])
           /\ pc'[w] = "commit" /\ place'[w] = place[w]
        \/ /\ place[w] < Len(plan[w])
           /\ pc'[w] = "read" /\ place'[w] = place[w] + 1
    BY <1>6, <2>1 DEF Upsert, TypeOK
  <2>4. /\ pend'[w][Target(w)] = Computed(w)
        /\ \A s \in Segments : s # Target(w) => pend'[w][s] = pend[w][s]
    BY <1>6, <2>2 DEF Upsert, TypeOK
  <2>5. Locked(w)' = Locked(w) \cup {Target(w)}
    BY <2>1, <2>2, <2>4, ComputedIsLawful, NoRowAssumption DEF Locked
  <2>6. \A i \in 1..Len(plan[w]) :
           i < place'[w] \/ pc'[w] = "commit" => i < place[w] \/ i = place[w]
    BY <2>1, <2>3
  <2>7. \A i \in 1..Len(plan[w]) :
           i < place'[w] \/ pc'[w] = "commit" => plan[w][i] \in Locked(w)'
    BY <2>5, <2>6 DEF PublishOf, Target
  <2>8. \A s \in Locked(w)' :
           pend'[w][s].at = reads[w].start /\ B!Lawful(pend'[w][s], s)
    BY <2>1, <2>2, <2>4, <2>5, ComputedIsLawful DEF PublishOf, Locked
  <2>9. (\A s \in Locked(w) :
           pend[w][s].at = reads[w].start /\ B!Lawful(pend[w][s], s))'
    BY <2>1, <2>8 DEF B!Lawful
  <2>. QED
    BY <2>1, <2>3, <2>7, <2>9 DEF PublishOf
<1>7. CASE Commit(w)
  <2>1. Locked(w)' = {} /\ pc'[w] = "idle" /\ place'[w] = 1
    BY <1>7, FinishUnlocks DEF Commit, Finish, TypeOK
  <2>. QED
    BY <2>1, PublishAtStart
<1>. QED
  BY <1>1, <1>2, <1>3, <1>4, <1>5, <1>6, <1>7 DEF Step

\* Before a request and while its rules wait, the place is at the start.
AtStart == \A w \in Workers : pc[w] \in {"idle", "rules"} => place[w] = 1

\* A worker that has not begun its plan is at its first segment.
LEMMA AtStartNext == TypeOK /\ AtStart /\ [Next]_vars => AtStart'
<1>. SUFFICES ASSUME TypeOK, AtStart, [Next]_vars, NEW v \in Workers,
                     pc'[v] \in {"idle", "rules"}
              PROVE  place'[v] = 1
  BY DEF AtStart
<1>1. ASSUME NEW w \in Workers, Request(w) \/ Step(w) \/ Abort(w)
      PROVE  place'[v] = 1
  <2>1. CASE v # w
    BY <1>1, <2>1, OthersKept DEF AtStart
  <2>2. CASE v = w /\ Request(w)
    BY <2>2 DEF AtStart, TypeOK, Request, IngestPoint, BulkIngest, Refresh,
                Reset, PutConfig, Accept, LaunchScan, Launch
  <2>3. CASE v = w /\ Step(w)
    BY <2>3 DEF AtStart, TypeOK, Step, UpdateRules, RulesRejected, Begin,
                ReadRules, Scan, Upsert, Commit, LaunchScan, Launch, Finish
  <2>4. CASE v = w /\ Abort(w)
    BY <2>4 DEF TypeOK, Abort, Finish
  <2>. QED
    BY <1>1, <2>1, <2>2, <2>3, <2>4
<1>2. CASE Restart
  BY <1>2 DEF Restart
<1>3. CASE Tick \/ UNCHANGED vars
  BY <1>3 DEF AtStart, Tick, vars, job
<1>. QED
  BY <1>1, <1>2, <1>3 DEF Next, Rest

\* Pending rows stay lawful until they are committed.
LEMMA PublishNext ==
    TypeOK /\ PlanInv /\ AtStart /\ PublishInv /\ [Next]_vars => PublishInv'
<1>. SUFFICES ASSUME TypeOK, PlanInv, AtStart, PublishInv, [Next]_vars,
                     NEW v \in Workers
              PROVE  PublishOf(v)'
  BY DEF PublishInv
<1>1. PublishOf(v) /\ PlanOf(v)
  BY DEF PublishInv, PlanInv
<1>2. ASSUME NEW w \in Workers, Request(w) \/ Step(w) \/ Abort(w)
      PROVE  PublishOf(v)'
  <2>1. CASE v # w
    BY <1>1, <1>2, <2>1, OthersKept DEF PublishOf, Locked, Target
  <2>2. CASE v = w /\ Request(w)
    <3>1. place[w] = 1
      BY <2>2 DEF AtStart, Request, IngestPoint, BulkIngest, Refresh, Reset,
                  PutConfig, Accept
    <3>. QED
      BY <1>1, <2>2, <3>1, PublishRequest
  <2>3. CASE v = w /\ Step(w)
    BY <1>1, <2>3, PublishStep DEF AtStart
  <2>4. CASE v = w /\ Abort(w)
    <3>1. Locked(w)' = {} /\ pc'[w] = "idle" /\ place'[w] = 1
      BY <2>4, FinishUnlocks DEF Abort, Finish, TypeOK
    <3>. QED
      BY <2>4, <3>1, PublishAtStart
  <2>. QED
    BY <1>2, <2>1, <2>2, <2>3, <2>4
<1>3. CASE Restart
  <2>1. Locked(v)' = {} /\ pc'[v] = "idle" /\ place'[v] = 1
    BY <1>3, RestartUnlocks DEF Restart
  <2>. QED
    BY <2>1, PublishAtStart
<1>4. CASE Tick \/ UNCHANGED vars
  <2>1. UNCHANGED <<pc, plan, place, reads, pend>>
    BY <1>4 DEF Tick, vars, job
  <2>. QED
    BY <1>1, <2>1 DEF PublishOf, Locked, Target
<1>. QED
  BY <1>2, <1>3, <1>4 DEF Next, Rest

\* A commit holds one row or the rows of all active segments.
LEMMA CommitsPlan ==
    ASSUME TypeOK, NEW w \in Workers, PlanOf(w), PublishOf(w),
           pc[w] = "commit"
    PROVE  \/ Locked(w) = Range(ScanOrder)
           \/ \E s \in Segments : Locked(w) = {s}
<1>1. /\ plan[w] \in Seq(Segments) /\ Len(plan[w]) \in Nat
      /\ plan[w] = ScanOrder \/ Len(plan[w]) < 2
      /\ place[w] \in 1..Len(plan[w])
  BY DEF TypeOK, PlanOf
<1>2. Locked(w) = {plan[w][i] : i \in 1..Len(plan[w])}
  <2>1. \A i \in 1..Len(plan[w]) : plan[w][i] \in Locked(w)
    BY DEF PublishOf
  <2>2. \A s \in Locked(w) : \E i \in 1..Len(plan[w]) : s = plan[w][i]
    BY DEF PlanOf
  <2>. QED
    BY <2>1, <2>2
<1>3. CASE plan[w] = ScanOrder
  <2>1. DOMAIN ScanOrder = 1..Len(ScanOrder)
    BY ScanOrderType
  <2>. QED
    BY <1>2, <1>3, <2>1 DEF Range
<1>4. CASE Len(plan[w]) < 2
  <2>1. 1..Len(plan[w]) = {1}
    BY <1>1, <1>4
  <2>2. plan[w][1] \in Segments
    BY <1>1, <2>1
  <2>. QED
    BY <1>2, <2>1, <2>2
<1>. QED
  BY <1>1, <1>3, <1>4

\* A commit publishes the rows it holds.
LEMMA CommitPublishes ==
    ASSUME TypeOK, NotesInv, NEW w \in Workers, PublishOf(w), Commit(w)
    PROVE  B!Publish(Locked(w))
<1>. DEFINE L == Locked(w)
<1>1. /\ condition' = [s \in Segments |->
             IF s \in L THEN pend[w][s] ELSE condition[s]]
      /\ history' = [s \in Segments |->
             IF s \in L THEN Append(history[s], pend[w][s]) ELSE history[s]]
      /\ heard' = [s \in Segments |->
             IF s \in L /\ notes[w][s] THEN pend[w][s].level ELSE heard[s]]
  BY DEF Commit
<1>2. L \subseteq Segments
  BY DEF Locked
<1>. HIDE DEF L
<1>3. \A s \in L : condition'[s] = pend[w][s]
  BY <1>1, <1>2
<1>4. \A s \in Segments :
         s \in L /\ notes[w][s] <=> condition'[s].level # condition[s].level
  <2>1. \A s \in Segments :
           notes[w][s] <=> s \in L /\ pend[w][s].level # condition[s].level
    BY DEF NotesInv, NotesOf, L
  <2>. QED
    BY <1>1, <1>3, <2>1
<1>5. \A s \in L : pend[w][s].at = reads[w].start /\ B!Lawful(pend[w][s], s)
  BY DEF PublishOf, L
<1>6. (\A s \in L : B!Lawful(condition'[s], s))
      /\ \A s, t \in L : condition'[s].at = condition'[t].at
  BY <1>3, <1>5
<1>7. condition' = [s \in Segments |->
         IF s \in L THEN condition'[s] ELSE condition[s]]
  BY <1>1, <1>3
<1>8. history' = [s \in Segments |->
         IF s \in L THEN Append(history[s], condition'[s]) ELSE history[s]]
  BY <1>1, <1>3
<1>9. heard' = [s \in Segments |->
         IF condition'[s].level # condition[s].level
         THEN condition'[s].level ELSE heard[s]]
  BY <1>1, <1>3, <1>4
<1>. QED
  BY <1>6, <1>7, <1>8, <1>9 DEF B!Publish, L

\* A step of the analyzer is a step of the board or none.
LEMMA BoardNext ==
    TypeOK /\ PlanInv /\ NotesInv /\ PublishInv /\ [Next]_vars
        => [B!Next]_(B!board)
<1>. SUFFICES ASSUME TypeOK, PlanInv, NotesInv, PublishInv, [Next]_vars
              PROVE  B!Next \/ UNCHANGED <<condition, history, heard>>
  BY DEF B!board
<1>1. ASSUME NEW w \in Workers, Commit(w)
      PROVE  B!Next
  <2>1. PlanOf(w) /\ PublishOf(w) /\ pc[w] = "commit"
    BY <1>1 DEF PlanInv, PublishInv, Commit
  <2>2. B!Publish(Locked(w))
    BY <1>1, <2>1, CommitPublishes
  <2>. QED
    BY <2>1, <2>2, CommitsPlan DEF B!Next
<1>2. CASE Restart
  BY <1>2 DEF Restart, B!Next, B!Wipe
<1>. QED
  BY <1>1, <1>2, Effects DEF Upsert, Abort, tables

\* The detailed analyzer implements the board: whatever its transactions,
\* locks, failures and restarts do, its clients see whole publications.
THEOREM AnalyzerImplementsBoard == Spec => BoardSpec
<1>1. Init => B!Init /\ AtStart /\ PublishInv
  <2>1. Init => B!Init
    BY DEF Init, B!Init, FreeFlow, B!FreeFlow
  <2>2. Init => \A w \in Workers : Locked(w) = {} /\ Len(plan[w]) = 0
    BY DEF Init, Locked, NothingPending
  <2>. QED
    BY <2>1, <2>2 DEF Init, AtStart, PublishInv, PublishOf
<1>. QED
  BY <1>1, NotesInvariant, PlanInvariant, AtStartNext, PublishNext, BoardNext,
     PTL DEF Spec, BoardSpec, B!Spec
-----------------------------------------------------------------------------
(* Settled rows.                                                           *)

\* The invariants so far, together.
LEMMA PublishInvariant ==
    Spec => [](TypeOK /\ PlanInv /\ AtStart /\ PublishInv)
<1>1. Init => AtStart /\ PublishInv
  <2>1. Init => \A w \in Workers : Locked(w) = {} /\ Len(plan[w]) = 0
    BY DEF Init, Locked, NothingPending
  <2>. QED
    BY <2>1 DEF Init, AtStart, PublishInv, PublishOf
<1>. QED
  BY <1>1, PlanInvariant, AtStartNext, PublishNext, PTL DEF Spec

\* The history variables leave the behaviours of the analyzer as they are.
LEMMA SettledIsAnalyzer == SettledSpec => Spec
<1>1. SettledInit => Init
  BY DEF SettledInit
<1>2. [SettledNext]_<<vars, settling>> => [Next]_vars
  <2>1. SettledNext => Next
    BY DEF SettledNext, Next, SettledRequest, SettledStep, SettledCommit,
           SettledReject, SettledAbort, SettledRestart, SettledTick,
           SettledRest, Step
  <2>. QED
    BY <2>1
<1>. QED
  BY <1>1, <1>2, PTL DEF SettledSpec, Spec

\* A row of segment s that is what a computation from the fixes P at time t
\* with a window of n minutes and the thresholds r would yield.
Exact(s, row, P, t, n, r) ==
    /\ {f \in P : f.segment = s /\ f.at > t - n} \subseteq row.seen
    /\ row.seen \subseteq P
    /\ row.level = LevelOfFixes(row.seen, Limit, Capacity, r)

\* What a worker reads of the segments it has to itself is still so.
CleanOf(w) ==
    /\ clean[w] \subseteq Active \cap Touches(w)
    /\ \A v \in Workers \ {w} : clean[w] \cap Touches(v) = {}
    /\ clean[w] # {} => reads[w].win = window
    /\ pc[w] \in {"read", "scan", "upsert", "commit"} =>
          reads[w].start <= now
    /\ pc[w] \in {"scan", "upsert"} /\ Target(w) \in clean[w] =>
          reads[w].book = rules
    /\ pc[w] = "upsert" /\ Target(w) \in clean[w] =>
          reads[w].seen =
             InWindow(Target(w), reads[w].start, reads[w].win)
    /\ \A s \in clean[w] \cap Locked(w) :
          Exact(s, pend[w][s], positions, now, window, rules)

\* The settled rows that no request but one that is still storing thresholds
\* is going to write.
Kept == {s \in settled :
            \A w \in Workers : s \in Touches(w) => pc[w] = "rules"}

KeptExact ==
    \A s \in Kept :
        Exact(s, condition[s], positions, now, window, rules)

SettledInv ==
    /\ clean \in [Workers -> SUBSET Segments]
    /\ settled \subseteq Active
    /\ \A w \in Workers : CleanOf(w)
    /\ KeptExact

\* What a worker touches, by what it does.
LEMMA TouchesOf ==
    ASSUME TypeOK, NEW w \in Workers, PlanOf(w), PublishOf(w)
    PROVE  /\ Touches(w) \subseteq Segments
           /\ Locked(w) \subseteq Touches(w)
           /\ pc[w] = "idle" => Touches(w) = {}
           /\ pc[w] = "rules" => Touches(w) = Active
           /\ pc[w] \in {"idle", "rules"} => Locked(w) = {}
           /\ pc[w] = "commit" => Touches(w) = Locked(w)
           /\ pc[w] \notin {"idle", "rules"} => Target(w) \in Touches(w)
<1>1. plan[w] \in Seq(Segments) /\ DOMAIN plan[w] = 1..Len(plan[w])
  BY DEF TypeOK
<1>2. Active \subseteq Segments
  BY ScanOrderType DEF Active, Range
<1>3. Range(plan[w]) \subseteq Segments
  BY <1>1 DEF Range
<1>4. \A s \in Locked(w) : \E i \in 1..Len(plan[w]) : s = plan[w][i]
  BY DEF PlanOf
<1>5. Locked(w) \subseteq Range(plan[w])
  BY <1>1, <1>4 DEF Range
<1>6. pc[w] \in {"idle", "rules"} => Range(plan[w]) = {}
  <2>1. pc[w] \in {"idle", "rules"} => plan[w] = <<>>
    BY DEF PlanOf
  <2>. QED
    BY <2>1 DEF Range
<1>7. pc[w] = "commit" => Range(plan[w]) \subseteq Locked(w)
  BY <1>1 DEF PublishOf, Range
<1>8. pc[w] \notin {"idle", "rules"} => Target(w) \in Range(plan[w])
  BY <1>1 DEF PlanOf, Target, Range
<1>. QED
  BY <1>2, <1>3, <1>5, <1>6, <1>7, <1>8 DEF Touches

\* The actions of a worker leave what the others touch alone.
LEMMA OthersTouch ==
    ASSUME TypeOK, NEW w \in Workers, Request(w) \/ Step(w) \/ Abort(w),
           NEW v \in Workers, v # w
    PROVE  /\ Touches(v)' = Touches(v)
           /\ Target(v)' = Target(v)
           /\ Locked(v)' = Locked(v)
<1>1. pc'[v] = pc[v] /\ plan'[v] = plan[v] /\ place'[v] = place[v]
      /\ pend'[v] = pend[v]
  BY OthersKept
<1>. QED
  BY <1>1 DEF Touches, Target, Locked

\* A row stays exact while fixes only come to other segments, and time goes
\* on.
LEMMA ExactKept ==
    ASSUME NEW s, NEW row, NEW P, NEW Q, NEW t, NEW u, NEW n, NEW r,
           Exact(s, row, P, t, n, r), P \subseteq Q,
           {f \in Q : f.segment = s /\ f.at > u - n} \subseteq
              {f \in P : f.segment = s /\ f.at > t - n}
    PROVE  Exact(s, row, Q, u, n, r)
BY DEF Exact

\* The invariant after a step of w, by what it has to say about each worker
\* and each row that stays settled.
LEMMA OtherClean ==
    ASSUME TypeOK, NEW w \in Workers, Request(w) \/ Step(w) \/ Abort(w),
           NEW v \in Workers, v # w, CleanOf(v),
           clean'[v] \subseteq clean[v],
           clean'[v] \cap Touches(w)' = {},
           now' = now,
           clean'[v] # {} => rules' = rules /\ window' = window,
           \A s \in clean'[v] :
              /\ positions \subseteq positions'
              /\ \A f \in positions' : f.segment = s => f \in positions
    PROVE  CleanOf(v)'
<1>1. pc'[v] = pc[v] /\ reads'[v] = reads[v] /\ pend'[v] = pend[v]
  BY OthersKept
<1>2. Touches(v)' = Touches(v) /\ Target(v)' = Target(v)
      /\ Locked(v)' = Locked(v)
  BY OthersTouch
<1>3. \A u \in Workers \ {v} : clean'[v] \cap Touches(u)' = {}
  <2>1. \A u \in Workers \ {v, w} : Touches(u)' = Touches(u)
    BY OthersTouch
  <2>2. \A u \in Workers \ {v} : clean[v] \cap Touches(u) = {}
    BY DEF CleanOf
  <2>. QED
    BY <2>1, <2>2
<1>4. ASSUME pc[v] = "upsert", Target(v) \in clean'[v]
      PROVE  reads[v].seen =
                {f \in positions' : /\ f.segment = Target(v)
                                    /\ f.at > reads[v].start - reads[v].win}
  <2>1. reads[v].seen =
           {f \in positions : /\ f.segment = Target(v)
                              /\ f.at > reads[v].start - reads[v].win}
    BY <1>4 DEF CleanOf, InWindow
  <2>. QED
    BY <1>4, <2>1
<1>5. ASSUME NEW s \in clean'[v] \cap Locked(v)
      PROVE  Exact(s, pend[v][s], positions', now', window', rules')
  <2>1. Exact(s, pend[v][s], positions, now, window, rules)
    BY DEF CleanOf
  <2>2. positions \subseteq positions'
        /\ {f \in positions' : f.segment = s /\ f.at > now - window}
              \subseteq
           {f \in positions : f.segment = s /\ f.at > now - window}
    OBVIOUS
  <2>3. rules' = rules /\ window' = window
    OBVIOUS
  <2>. QED
    BY <2>1, <2>2, <2>3, ExactKept
<1>6. Active' = Active
  BY DEF Active
<1>. QED
  BY <1>1, <1>2, <1>3, <1>4, <1>5, <1>6 DEF CleanOf, InWindow

\* What the first statement of a request changes: beyond what the request
\* touches from then on, nothing but the window.
LEMMA RequestTouches ==
    ASSUME TypeOK, NEW w \in Workers, PlanOf(w), PublishOf(w), Request(w)
    PROVE  /\ pc[w] = "idle" /\ pc'[w] \in {"idle", "rules", "begin"}
           /\ pc'[w] # "idle" => reads'[w].win = window'
           /\ Touches(w)' \subseteq Segments
           /\ pc'[w] = "idle" => Touches(w)' = {}
           /\ UNCHANGED <<now, rules, condition, pend>>
           /\ \A s \in Active \ Touches(w)' :
                 /\ positions \subseteq positions'
                 /\ \A f \in positions' : f.segment = s => f \in positions
<1>1. pc[w] = "idle" /\ UNCHANGED <<now, rules, condition, pend>>
  BY DEF Request, IngestPoint, BulkIngest, Refresh, Reset, PutConfig, Accept,
         world, tables
<1>2. CASE PutConfig(w)
  <2>1. /\ UNCHANGED <<positions, plan>>
        /\ pc'[w] \in {"idle", "rules"}
        /\ pc'[w] # "idle" => reads'[w].win = window'
    <3>1. PICK n \in Windows, patched \in BOOLEAN :
              /\ window' = n
              /\ IF patched
                 THEN /\ pc' = [pc EXCEPT ![w] = "rules"]
                      /\ reads' = [reads EXCEPT ![w].win = n]
                 ELSE UNCHANGED <<pc, reads>>
      BY <1>2 DEF PutConfig
    <3>2. CASE patched
      <4>1. pc'[w] = "rules" /\ reads'[w].win = n
        BY <3>1, <3>2 DEF TypeOK
      <4>. QED
        BY <1>2, <3>1, <4>1 DEF PutConfig
    <3>3. CASE ~patched
      BY <1>1, <1>2, <3>1, <3>3 DEF PutConfig
    <3>. QED
      BY <3>2, <3>3
  <2>2. Range(plan[w]) = {}
    BY <1>1, TouchesOf DEF Touches
  <2>3. Touches(w)' \subseteq Active /\ (pc'[w] = "idle" => Touches(w)' = {})
    BY <2>1, <2>2 DEF Touches, Active
  <2>4. Active \subseteq Segments
    BY ScanOrderType DEF Active, Range
  <2>. QED
    BY <1>1, <2>1, <2>3, <2>4
<1>3. CASE IngestPoint(w)
  <2>1. PICK v \in Vehicles, x \in Segments, sp \in Speeds, age \in Ages :
            LET f == [id |-> fixes, vehicle |-> v, segment |-> x,
                      speed |-> sp, at |-> now - age]
            IN  /\ positions' = positions \cup {f}
                /\ Launch(w, <<x>>, window)
    BY <1>3 DEF IngestPoint
  <2>2. pc'[w] = "begin" /\ plan'[w] = <<x>> /\ reads'[w].win = window
    BY <2>1 DEF Launch, TypeOK
  <2>3. window' = window
    BY <1>3 DEF IngestPoint
  <2>4. Touches(w)' = {x}
    BY <2>2 DEF Touches, Range
  <2>5. \A f \in positions' : f.segment # x => f \in positions
    BY <2>1
  <2>. QED
    BY <1>1, <2>1, <2>2, <2>3, <2>4, <2>5
<1>4. CASE BulkIngest(w) \/ Refresh(w) \/ Reset(w)
  <2>1. Launch(w, ScanOrder, window) /\ window' = window
    BY <1>4, OneScan DEF BulkIngest, Refresh, Reset, world
  <2>2. pc'[w] = "begin" /\ plan'[w] = ScanOrder /\ reads'[w].win = window
    BY <2>1 DEF Launch, TypeOK
  <2>3. Touches(w)' = Active
    BY <2>2 DEF Touches, Active
  <2>4. Active \subseteq Segments
    BY ScanOrderType DEF Active, Range
  <2>. QED
    BY <1>1, <2>1, <2>2, <2>3, <2>4
<1>. QED
  BY <1>2, <1>3, <1>4 DEF Request

\* Accepting a request.
LEMMA SettledOnRequest ==
    ASSUME TypeOK, PlanInv, PublishInv, SettledInv,
           NEW w \in Workers, SettledRequest(w)
    PROVE  SettledInv'
<1>. DEFINE others == UNION {Touches(v) : v \in Workers \ {w}}
            shared == IF window' = window THEN Touches(w)' ELSE Active
<1>1. Request(w) /\ Enter(w) /\ PlanOf(w) /\ PublishOf(w)
  BY DEF SettledRequest, PlanInv, PublishInv
<1>2. /\ pc[w] = "idle" /\ pc'[w] \in {"idle", "rules", "begin"}
      /\ pc'[w] # "idle" => reads'[w].win = window'
      /\ Touches(w)' \subseteq Segments
      /\ pc'[w] = "idle" => Touches(w)' = {}
      /\ UNCHANGED <<now, rules, condition, pend>>
      /\ \A s \in Active \ Touches(w)' :
            /\ positions \subseteq positions'
            /\ \A f \in positions' : f.segment = s => f \in positions
  BY <1>1, RequestTouches
<1>3. /\ clean' = [v \in Workers |->
             IF v = w THEN (Active \cap Touches(w)') \ others
                      ELSE clean[v] \ shared]
      /\ settled' = IF window' = window THEN settled ELSE {}
  BY <1>1 DEF Enter
<1>4. /\ clean \in [Workers -> SUBSET Segments]
      /\ settled \subseteq Active
      /\ \A v \in Workers : CleanOf(v)
      /\ KeptExact
  BY DEF SettledInv
<1>5. Active' = Active
  BY DEF Active
<1>6. \A v \in Workers \ {w} : Touches(v)' = Touches(v)
  BY <1>1, OthersTouch
<1>7. clean' \in [Workers -> SUBSET Segments]
  BY <1>2, <1>3, <1>4
<1>8. settled' \subseteq Active
  BY <1>3, <1>4
<1>9. CleanOf(w)'
  <2>1. clean'[w] = (Active \cap Touches(w)') \ others
    BY <1>3
  <2>2. \A v \in Workers \ {w} : clean'[w] \cap Touches(v)' = {}
    BY <1>6, <2>1
  <2>3. Locked(w)' = {}
    <3>1. Locked(w) = {}
      BY <1>1, <1>2, TouchesOf
    <3>. QED
      BY <1>2, <3>1 DEF Locked
  <2>4. clean'[w] # {} => reads'[w].win = window'
    BY <1>2, <2>1
  <2>. QED
    BY <1>2, <1>5, <2>1, <2>2, <2>3, <2>4 DEF CleanOf
<1>10. ASSUME NEW v \in Workers, v # w
       PROVE  CleanOf(v)'
  <2>1. clean'[v] = clean[v] \ shared
    BY <1>3, <1>10
  <2>2. clean[v] \subseteq Active /\ CleanOf(v)
    BY <1>4 DEF CleanOf
  <2>3. clean'[v] # {} => window' = window
    BY <2>1, <2>2
  <2>4. clean'[v] \cap Touches(w)' = {}
    BY <2>1, <2>3
  <2>5. \A s \in clean'[v] :
           /\ positions \subseteq positions'
           /\ \A f \in positions' : f.segment = s => f \in positions
    BY <1>2, <2>1, <2>2, <2>4
  <2>. QED
    BY <1>1, <1>2, <1>10, <2>1, <2>2, <2>3, <2>4, <2>5, OtherClean
<1>11. ASSUME NEW s \in Kept'
       PROVE  Exact(s, condition'[s], positions', now', window', rules')
  <2>1. s \in settled' /\ \A v \in Workers :
                             s \in Touches(v)' => pc'[v] = "rules"
    BY <1>11 DEF Kept
  <2>2. window' = window /\ s \in settled /\ s \in Active
    BY <1>3, <1>4, <2>1
  <2>3. s \in Kept
    <3>1. s \notin Touches(w)
      BY <1>1, <1>2, TouchesOf
    <3>2. \A v \in Workers \ {w} : pc'[v] = pc[v]
      BY <1>1, OthersKept
    <3>. QED
      BY <1>6, <2>1, <2>2, <3>1, <3>2 DEF Kept
  <2>4. Exact(s, condition[s], positions, now, window, rules)
    BY <1>4, <2>3 DEF KeptExact
  <2>5. positions \subseteq positions'
        /\ \A f \in positions' : f.segment = s => f \in positions
    <3>1. CASE s \notin Touches(w)'
      BY <1>2, <2>2, <3>1
    <3>2. CASE s \in Touches(w)'
      <4>1. pc'[w] = "rules"
        BY <2>1, <3>2
      <4>2. PutConfig(w)
        BY <1>1, <4>1 DEF Request, IngestPoint, BulkIngest, Refresh, Reset,
                          LaunchScan, Launch, TypeOK
      <4>. QED
        BY <4>2 DEF PutConfig
    <3>. QED
      BY <3>1, <3>2
  <2>6. {f \in positions' : f.segment = s /\ f.at > now - window} \subseteq
        {f \in positions : f.segment = s /\ f.at > now - window}
    BY <2>5
  <2>. QED
    BY <1>2, <2>2, <2>4, <2>5, <2>6, ExactKept
<1>. QED
  BY <1>5, <1>7, <1>8, <1>9, <1>10, <1>11 DEF SettledInv, KeptExact

\* A row that a worker is about to write, of a segment it has to itself, is
\* what the tables amount to now.
LEMMA ComputedExact ==
    ASSUME TypeOK, NEW w \in Workers, CleanOf(w), pc[w] = "upsert",
           Target(w) \in clean[w]
    PROVE  Exact(Target(w), Computed(w), positions, now, window, rules)
<1>1. /\ reads[w].book = rules /\ reads[w].win = window
      /\ reads[w].seen = InWindow(Target(w), reads[w].start, reads[w].win)
      /\ reads[w].start <= now
  BY DEF CleanOf
<1>2. Computed(w).seen = reads[w].seen
      /\ Computed(w).level =
            LevelOfFixes(reads[w].seen, Limit, Capacity, reads[w].book)
  BY DEF Computed
<1>3. ASSUME NEW f \in positions, f.segment = Target(w), f.at > now - window
      PROVE  f \in reads[w].seen
  <2>1. f.at \in Int /\ now \in Int
        /\ reads[w].start \in Int /\ reads[w].win \in Int
    BY DEF TypeOK, Fix
  <2>2. f.at > reads[w].start - reads[w].win
    BY <1>1, <1>3, <2>1
  <2>. QED
    BY <1>1, <1>3, <2>2 DEF InWindow
<1>4. reads[w].seen \subseteq positions
  BY <1>1 DEF InWindow
<1>. QED
  BY <1>1, <1>2, <1>3, <1>4 DEF Exact

\* A step that is neither a request's first nor its last: what the worker
\* itself keeps.
LEMMA OwnClean ==
    ASSUME TypeOK, NEW w \in Workers, PlanOf(w), PublishOf(w), CleanOf(w),
           UpdateRules(w) \/ Begin(w) \/ ReadRules(w) \/ Scan(w) \/ Upsert(w),
           UNCHANGED settling
    PROVE  CleanOf(w)' /\ Touches(w)' = Touches(w)
<1>. DEFINE Shared ==
        /\ clean[w] \subseteq Active \cap Touches(w)
        /\ \A v \in Workers \ {w} : clean[w] \cap Touches(v) = {}
<1>1. /\ clean' = clean /\ Active' = Active
      /\ \A v \in Workers \ {w} : Touches(v)' = Touches(v)
  <2>1. Step(w)
    BY DEF Step
  <2>. QED
    BY <2>1, OthersTouch DEF settling, Active
<1>2. /\ Shared
      /\ clean[w] # {} => reads[w].win = window
      /\ \A s \in clean[w] \cap Locked(w) :
            Exact(s, pend[w][s], positions, now, window, rules)
  BY DEF CleanOf
<1>3. Touches(w)' = Touches(w) => Shared'
  BY <1>1, <1>2
<1>4. CASE UpdateRules(w)
  <2>1. /\ Launch(w, ScanOrder, reads[w].win) /\ pc[w] = "rules"
        /\ UNCHANGED <<pend, window>>
    BY <1>4, OneScan DEF UpdateRules
  <2>2. pc'[w] = "begin" /\ plan'[w] = ScanOrder
        /\ reads'[w].win = reads[w].win
    BY <2>1 DEF Launch, TypeOK
  <2>3. Locked(w) = {} /\ Touches(w) = Active
    BY <2>1, TouchesOf
  <2>4. Locked(w)' = {} /\ Touches(w)' = Active
    BY <2>1, <2>2, <2>3 DEF Locked, Touches, Active
  <2>. QED
    BY <1>1, <1>2, <1>3, <2>1, <2>2, <2>3, <2>4 DEF CleanOf
<1>5. CASE Begin(w) \/ ReadRules(w) \/ Scan(w)
  <2>1. /\ UNCHANGED <<now, positions, rules, window, plan, place, pend>>
        /\ pc[w] \in {"begin", "read", "scan"}
        /\ pc'[w] \in {"read", "scan", "upsert"}
        /\ reads'[w].win = reads[w].win
    BY <1>5 DEF Begin, ReadRules, Scan, world, TypeOK
  <2>2. /\ Touches(w)' = Touches(w) /\ Locked(w)' = Locked(w)
        /\ Target(w)' = Target(w)
    BY <2>1 DEF Touches, Locked, Target
  <2>3. reads'[w].start <= now
    <3>1. CASE Begin(w)
      <4>1. reads'[w].start = now /\ now \in Nat
        BY <3>1 DEF Begin, TypeOK
      <4>. QED
        BY <4>1
    <3>2. CASE ReadRules(w) \/ Scan(w)
      <4>1. reads'[w].start = reads[w].start
        BY <3>2 DEF ReadRules, Scan, TypeOK
      <4>2. reads[w].start <= now
        BY <3>2 DEF ReadRules, Scan, CleanOf
      <4>. QED
        BY <4>1, <4>2
    <3>. QED
      BY <1>5, <3>1, <3>2
  <2>4. ASSUME pc'[w] \in {"scan", "upsert"}, Target(w) \in clean[w]
        PROVE  reads'[w].book = rules
    <3>1. CASE Begin(w)
      BY <2>4, <3>1 DEF Begin, TypeOK
    <3>2. CASE ReadRules(w)
      BY <3>2 DEF ReadRules, RulesNow, TypeOK
    <3>3. CASE Scan(w)
      BY <2>4, <3>3 DEF Scan, CleanOf, TypeOK
    <3>. QED
      BY <1>5, <3>1, <3>2, <3>3
  <2>5. ASSUME pc'[w] = "upsert"
        PROVE  reads'[w].seen =
                  {f \in positions : /\ f.segment = Target(w)
                                     /\ f.at > reads'[w].start - reads'[w].win}
    <3>1. Scan(w)
      BY <1>5, <2>5 DEF Begin, ReadRules, TypeOK
    <3>2. /\ reads'[w].start = reads[w].start
          /\ reads'[w].seen =
                InWindow(Target(w), reads[w].start, reads[w].win)
      BY <3>1 DEF Scan, TypeOK
    <3>. QED
      BY <2>1, <3>2 DEF InWindow
  <2>. QED
    BY <1>1, <1>2, <1>3, <2>1, <2>2, <2>3, <2>4, <2>5 DEF CleanOf, InWindow
<1>6. CASE Upsert(w)
  <2>1. /\ UNCHANGED <<now, positions, rules, window, plan, reads>>
        /\ pc[w] = "upsert" /\ pc'[w] \in {"read", "commit"}
        /\ pend' = [pend EXCEPT ![w][Target(w)] = Computed(w)]
    BY <1>6 DEF Upsert, world, TypeOK
  <2>2. Touches(w)' = Touches(w)
    BY <2>1 DEF Touches
  <2>3. reads[w].start <= now
    BY <2>1 DEF CleanOf
  <2>4. ASSUME NEW s \in clean[w] \cap Locked(w)'
        PROVE  Exact(s, pend'[w][s], positions, now, window, rules)
    <3>1. s \in Segments
      BY DEF Locked
    <3>2. CASE s = Target(w)
      <4>1. pend'[w][s] = Computed(w)
        BY <2>1, <3>1, <3>2 DEF TypeOK
      <4>. QED
        BY <2>1, <2>4, <3>2, <4>1, ComputedExact
    <3>3. CASE s # Target(w)
      <4>1. pend'[w][s] = pend[w][s]
        BY <2>1, <3>3 DEF TypeOK
      <4>2. s \in Locked(w)
        BY <1>6, <3>3, UpsertLocks
      <4>. QED
        BY <1>2, <2>4, <4>1, <4>2
    <3>. QED
      BY <3>2, <3>3
  <2>. QED
    BY <1>1, <1>2, <1>3, <2>1, <2>2, <2>3, <2>4 DEF CleanOf
<1>. QED
  BY <1>4, <1>5, <1>6

\* A step in the middle of a request.
LEMMA SettledOnStep ==
    ASSUME TypeOK, PlanInv, PublishInv, SettledInv,
           NEW w \in Workers, SettledStep(w)
    PROVE  SettledInv'
<1>1. /\ UpdateRules(w) \/ Begin(w) \/ ReadRules(w) \/ Scan(w) \/ Upsert(w)
      /\ UNCHANGED settling /\ PlanOf(w) /\ PublishOf(w) /\ CleanOf(w)
  BY DEF SettledStep, PlanInv, PublishInv, SettledInv
<1>2. Step(w) /\ clean' = clean /\ settled' = settled /\ Active' = Active
  BY <1>1 DEF Step, settling, Active
<1>3. CleanOf(w)' /\ Touches(w)' = Touches(w)
  BY <1>1, OwnClean
<1>4. \A v \in Workers \ {w} : Touches(v)' = Touches(v) /\ pc'[v] = pc[v]
  BY <1>2, OthersTouch, OthersKept
<1>5. /\ UNCHANGED <<now, positions, window, condition>>
      /\ ~UpdateRules(w) => rules' = rules
  BY <1>1 DEF UpdateRules, Begin, ReadRules, Scan, Upsert, world, tables
<1>6. UpdateRules(w) => Touches(w) = Active /\ pc'[w] = "begin"
  BY <1>1, OneScan, TouchesOf DEF UpdateRules, Launch, TypeOK
<1>7. ASSUME NEW v \in Workers, v # w
      PROVE  CleanOf(v)'
  <2>1. CleanOf(v) /\ clean[v] \subseteq Active
        /\ clean[v] \cap Touches(w) = {}
    BY <1>7 DEF SettledInv, CleanOf
  <2>2. clean[v] # {} => rules' = rules
    BY <1>5, <1>6, <2>1
  <2>. QED
    BY <1>2, <1>3, <1>5, <1>7, <2>1, <2>2, OtherClean
<1>8. ASSUME NEW s \in Kept'
      PROVE  Exact(s, condition'[s], positions', now', window', rules')
  <2>1. s \in settled /\ s \in Active
        /\ \A v \in Workers : s \in Touches(v) => pc'[v] = "rules"
    BY <1>2, <1>3, <1>4, <1>8 DEF Kept, SettledInv
  <2>2. ~UpdateRules(w)
    BY <1>6, <2>1
  <2>3. s \notin Touches(w)
    <3>1. pc'[w] # "rules"
      BY <1>1, <2>2 DEF Begin, ReadRules, Scan, Upsert, TypeOK
    <3>. QED
      BY <2>1, <3>1
  <2>4. s \in Kept
    BY <1>4, <2>1, <2>3 DEF Kept
  <2>. QED
    BY <1>5, <2>2, <2>4 DEF SettledInv, KeptExact
<1>. QED
  BY <1>2, <1>3, <1>7, <1>8 DEF SettledInv, KeptExact

\* A request that ends, well or not: of the rows it touches those of S are
\* settled, and only they need to be right.
LEMMA SettledOnLeave ==
    ASSUME TypeOK, PlanInv, PublishInv, SettledInv,
           NEW w \in Workers, Step(w) \/ Abort(w), pc'[w] = "idle",
           plan'[w] = <<>>, Locked(w)' = {}, UNCHANGED world,
           NEW S, S \subseteq Active \cap Touches(w), Leave(w, S),
           \A s \in Segments \ Touches(w) : condition'[s] = condition[s],
           \A s \in Kept' \cap S :
              Exact(s, condition'[s], positions, now, window, rules)
    PROVE  SettledInv'
<1>1. /\ clean' = [clean EXCEPT ![w] = {}]
      /\ settled' = (settled \ Touches(w)) \cup S
      /\ Active' = Active
  BY DEF Leave, Active
<1>2. /\ clean \in [Workers -> SUBSET Segments] /\ settled \subseteq Active
      /\ \A v \in Workers : CleanOf(v)
  BY DEF SettledInv
<1>3. Touches(w)' = {}
  BY DEF Touches, Range
<1>4. \A v \in Workers \ {w} : Touches(v)' = Touches(v) /\ pc'[v] = pc[v]
  BY OthersTouch, OthersKept
<1>5. UNCHANGED <<now, positions, rules, window>>
  BY DEF world
<1>6. CleanOf(w)'
  BY <1>1, <1>2, <1>3 DEF CleanOf
<1>7. ASSUME NEW v \in Workers, v # w
      PROVE  CleanOf(v)'
  <2>1. clean'[v] = clean[v]
    BY <1>1, <1>2, <1>7
  <2>. QED
    BY <1>2, <1>3, <1>5, <1>7, <2>1, OtherClean
<1>8. ASSUME NEW s \in Kept'
      PROVE  Exact(s, condition'[s], positions, now, window, rules)
  <2>1. CASE s \in S
    BY <1>8, <2>1
  <2>2. CASE s \notin S
    <3>1. s \in settled /\ s \notin Touches(w)
          /\ \A v \in Workers \ {w} : s \in Touches(v) => pc[v] = "rules"
      BY <1>1, <1>4, <1>8, <2>2 DEF Kept
    <3>2. s \in Kept
      BY <3>1 DEF Kept
    <3>3. s \in Segments
      BY <1>2, <3>1, ScanOrderType DEF Active, Range
    <3>. QED
      BY <3>1, <3>2, <3>3 DEF SettledInv, KeptExact
  <2>. QED
    BY <2>1, <2>2
<1>. QED
  BY <1>1, <1>2, <1>5, <1>6, <1>7, <1>8 DEF SettledInv, KeptExact

\* A commit.  What it writes of the segments it had to itself is exact.
LEMMA SettledOnCommit ==
    ASSUME TypeOK, PlanInv, PublishInv, SettledInv,
           NEW w \in Workers, SettledCommit(w)
    PROVE  SettledInv'
<1>1. Commit(w) /\ Leave(w, clean[w]) /\ Step(w) /\ UNCHANGED world
  BY DEF SettledCommit, Commit, Step
<1>2. PlanOf(w) /\ PublishOf(w) /\ CleanOf(w) /\ pc[w] = "commit"
  BY <1>1 DEF PlanInv, PublishInv, SettledInv, Commit
<1>3. pc'[w] = "idle" /\ plan'[w] = <<>> /\ Locked(w)' = {}
  BY <1>1, FinishUnlocks DEF Commit, Finish, TypeOK
<1>4. Touches(w) = Locked(w)
  BY <1>2, TouchesOf
<1>5. \A s \in Segments :
         condition'[s] = IF s \in Locked(w) THEN pend[w][s] ELSE condition[s]
  BY <1>1 DEF Commit
<1>6. clean[w] \subseteq Active \cap Touches(w)
      /\ \A s \in clean[w] \cap Locked(w) :
            Exact(s, pend[w][s], positions, now, window, rules)
  BY <1>2 DEF CleanOf
<1>7. \A s \in clean[w] :
         Exact(s, condition'[s], positions, now, window, rules)
  <2>1. Locked(w) \subseteq Segments
    BY DEF Locked
  <2>. QED
    BY <1>4, <1>5, <1>6, <2>1
<1>8. \A s \in Segments \ Touches(w) : condition'[s] = condition[s]
  BY <1>4, <1>5
<1>. QED
  BY <1>1, <1>3, <1>6, <1>7, <1>8, SettledOnLeave

\* A request whose thresholds are refused has changed no row.
LEMMA SettledOnReject ==
    ASSUME TypeOK, PlanInv, PublishInv, SettledInv,
           NEW w \in Workers, SettledReject(w)
    PROVE  SettledInv'
<1>1. RulesRejected(w) /\ Leave(w, settled \cap Touches(w)) /\ Step(w)
  BY DEF SettledReject, Step
<1>2. /\ UNCHANGED <<world, condition, plan, pend>>
      /\ pc[w] = "rules" /\ pc'[w] = "idle"
  BY <1>1 DEF RulesRejected, tables, TypeOK
<1>3. plan'[w] = <<>> /\ Locked(w)' = {}
  BY <1>2, TouchesOf DEF PlanInv, PlanOf, PublishInv, Locked
<1>4. settled \subseteq Active
  BY DEF SettledInv
<1>5. ASSUME NEW s \in Kept' \cap settled
      PROVE  Exact(s, condition'[s], positions, now, window, rules)
  <2>1. \A v \in Workers \ {w} : Touches(v)' = Touches(v) /\ pc'[v] = pc[v]
    BY <1>1, OthersTouch, OthersKept
  <2>2. s \in Kept
    BY <1>2, <1>5, <2>1 DEF Kept
  <2>. QED
    BY <1>2, <2>2 DEF SettledInv, KeptExact
<1>6. condition' = condition
  BY <1>2
<1>. QED
  BY <1>1, <1>2, <1>3, <1>4, <1>5, <1>6, SettledOnLeave

\* A request that fails settles nothing.
LEMMA SettledOnAbort ==
    ASSUME TypeOK, PlanInv, PublishInv, SettledInv,
           NEW w \in Workers, SettledAbort(w)
    PROVE  SettledInv'
<1>1. Abort(w) /\ Leave(w, {}) /\ UNCHANGED <<world, condition>>
  BY DEF SettledAbort, Abort, tables
<1>2. pc'[w] = "idle" /\ plan'[w] = <<>> /\ Locked(w)' = {}
  BY <1>1, FinishUnlocks DEF Abort, Finish, TypeOK
<1>. QED
  BY <1>1, <1>2, SettledOnLeave

\* A boot leaves nothing settled.
LEMMA SettledOnRestart ==
    ASSUME SettledInv, SettledRestart
    PROVE  SettledInv'
<1>1. /\ clean' = [w \in Workers |-> {}] /\ settled' = {}
      /\ \A w \in Workers : pc'[w] = "idle"
  BY DEF SettledRestart, Restart
<1>. QED
  BY <1>1 DEF SettledInv, CleanOf, KeptExact, Kept

\* Time only takes fixes out of the window.
LEMMA SettledOnTick ==
    ASSUME TypeOK, SettledInv, SettledTick \/ UNCHANGED <<vars, settling>>
    PROVE  SettledInv'
<1>1. /\ UNCHANGED <<positions, rules, window, condition, pc, plan, place,
                     reads, pend, clean, settled>>
      /\ now' = now \/ now' = now + 1
  BY DEF SettledTick, Tick, vars, world, tables, job, settling
<1>2. /\ now \in Int /\ now' \in Int /\ now <= now' /\ window \in Int
      /\ \A f \in positions : f.at \in Int
  BY <1>1, DataAssumption DEF TypeOK, Fix
<1>3. \A w \in Workers :
         Touches(w)' = Touches(w) /\ Locked(w)' = Locked(w)
         /\ Target(w)' = Target(w)
  BY <1>1 DEF Touches, Locked, Target
<1>4. ASSUME NEW s, NEW row, Exact(s, row, positions, now, window, rules)
      PROVE  Exact(s, row, positions, now', window, rules)
  <2>1. {f \in positions : f.segment = s /\ f.at > now' - window} \subseteq
        {f \in positions : f.segment = s /\ f.at > now - window}
    BY <1>2
  <2>. QED
    BY <1>4, <2>1, ExactKept
<1>5. ASSUME NEW w \in Workers
      PROVE  CleanOf(w)'
  <2>1. CleanOf(w) /\ reads[w].start \in Int
    BY DEF SettledInv, TypeOK
  <2>2. reads[w].start <= now => reads[w].start <= now'
    BY <1>2, <2>1
  <2>3. \A s \in clean[w] \cap Locked(w) :
           Exact(s, pend[w][s], positions, now', window, rules)
    BY <1>4, <2>1 DEF CleanOf
  <2>4. Active' = Active
    BY DEF Active
  <2>. QED
    BY <1>1, <1>3, <2>1, <2>2, <2>3, <2>4 DEF CleanOf, InWindow
<1>6. Kept' = Kept
  BY <1>1, <1>3 DEF Kept
<1>7. KeptExact'
  <2>1. \A s \in Kept :
           Exact(s, condition[s], positions, now', window, rules)
    BY <1>4 DEF SettledInv, KeptExact
  <2>. QED
    BY <1>1, <1>6, <2>1 DEF KeptExact
<1>8. clean' \in [Workers -> SUBSET Segments] /\ settled' \subseteq Active'
  BY <1>1 DEF SettledInv, Active
<1>. QED
  BY <1>5, <1>7, <1>8 DEF SettledInv

\* The invariants hold in every reachable state.
LEMMA SettledInvariant ==
    SettledSpec => []((TypeOK /\ PlanInv /\ AtStart /\ PublishInv)
                        /\ SettledInv)
<1>1. SettledInit => SettledInv
  BY DEF SettledInit, Init, SettledInv, CleanOf, KeptExact, Kept
<1>2. (TypeOK /\ PlanInv /\ AtStart /\ PublishInv) /\ SettledInv
        /\ [SettledNext]_<<vars, settling>> => SettledInv'
  <2>. SUFFICES ASSUME TypeOK, PlanInv, PublishInv, SettledInv,
                       [SettledNext]_<<vars, settling>>
                PROVE  SettledInv'
    OBVIOUS
  <2>1. CASE UNCHANGED <<vars, settling>> \/ SettledTick \/ SettledRest
    <3>1. SettledTick \/ UNCHANGED <<vars, settling>>
      BY <2>1 DEF SettledRest, Rest
    <3>. QED
      BY <3>1, SettledOnTick
  <2>2. CASE SettledRestart
    BY <2>2, SettledOnRestart
  <2>. QED
    BY <2>1, <2>2, SettledOnRequest, SettledOnStep, SettledOnCommit,
       SettledOnReject, SettledOnAbort DEF SettledNext
<1>. QED
  BY <1>1, <1>2, SettledIsAnalyzer, PublishInvariant, PTL DEF SettledSpec

\* A reliable row is exact.
LEMMA ReliableIsExact ==
    ASSUME SettledInv, NEW s \in Reliable
    PROVE  Exact(s, condition[s], positions, now, window, rules)
BY DEF Reliable, Kept, SettledInv, KeptExact

\* A row that no request under way is going to write, and that the last
\* request on its segment computed undisturbed, counts every fix in the
\* window, whatever overlapped, failed or was cut off before
\* (gps_processor.py:100-115, ingest_bulk.py:81-84, procedures.sql:36-47).
THEOREM NoFixIsMissed == SettledSpec => []SettledCountsAll
<1>1. SettledInv => SettledCountsAll
  BY ReliableIsExact DEF SettledCountsAll, Exact, InWindow
<1>. QED
  BY <1>1, SettledInvariant, PTL

\* Such a row counts no fix that a reset has deleted or a boot has wiped
\* (scenarios.py:105-108, procedures.sql:36-47).
THEOREM GhostsVanish == SettledSpec => []SettledHasNoGhost
<1>1. SettledInv => SettledHasNoGhost
  BY ReliableIsExact DEF SettledHasNoGhost, Exact
<1>. QED
  BY <1>1, SettledInvariant, PTL

\* Such a row has the level that the thresholds in force give to its fixes
\* (routes/config.py:36-48, procedures.sql:31-61).
THEOREM LevelsFollowRules == SettledSpec => []SettledFollowsRules
<1>1. SettledInv => SettledFollowsRules
  BY ReliableIsExact DEF SettledFollowsRules, Exact
<1>. QED
  BY <1>1, SettledInvariant, PTL
=============================================================================
