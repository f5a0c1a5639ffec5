------------------------------ MODULE RowLocks ------------------------------
(***************************************************************************)
(* The row locks that requests hold and wait for.  Every statement is a    *)
(* transaction of its own (the pool is in autocommit mode); an executemany *)
(* is one statement here, because psycopg sends its rows as one pipeline,  *)
(* which PostgreSQL runs as one transaction.  PostgreSQL breaks a circle   *)
(* of waiting transactions by failing one of them, and with it the request.*)
(*                                                                         *)
(* What the statements read and write is the subject of Ingest and         *)
(* Analyzer.  Here a vehicle that a request names may have its row or not. *)
(***************************************************************************)
EXTENDS Integers, FiniteSets, Sequences, SequencesExt

CONSTANTS
    Sessions,     \* connections to PostgreSQL, one per request under way
    Vehicles,
    Resettable,   \* those whose number starts with SCN
    SegmentOrder, \* the ids of the segments, as refresh_all_traffic visits them
    Orders,       \* sequences of vehicles: the fixes of a batch
    Trips,        \* sequences of vehicles whose fixes are taken one by one
    MaxArrivals   \* bound of the model

ASSUME LocksAssumption ==
    /\ IsFiniteSet(Vehicles) /\ Resettable \subseteq Vehicles
    /\ SegmentOrder \in Seq(Nat) /\ IsInjective(SegmentOrder)
    /\ Orders \cup Trips \subseteq Seq(Vehicles) \ {<<>>}
    /\ Sessions \subseteq Nat /\ IsFiniteSet(Sessions)
    /\ MaxArrivals \in Nat

VARIABLES
    request,    \* the kind of the session's request, or "idle"
    rest,       \* the statements it has yet to begin
    todo,       \* the locks its statement has yet to take, in order
    holds,      \* the locks its statement has taken
    arrivals    \* counter for the bound

lockVars == <<request, rest, todo, holds, arrivals>>

LocksInit ==
    /\ request = [w \in Sessions |-> "idle"]
    /\ rest = [w \in Sessions |-> <<>>]
    /\ todo = [w \in Sessions |-> <<>>]
    /\ holds = [w \in Sessions |-> {}]
    /\ arrivals = 0
-----------------------------------------------------------------------------
(* Statements.  Each is the set of the lock sequences it may take.         *)

Lock(table, key, mode) == [row |-> <<table, key>>, mode |-> mode]

\* Mutant: the trigger writes a column of a key too.
TouchKey(v) == Lock("vehicle", v, "write")

\* A new vehicle_number, the foreign key on vehicle_id, the last_seen
\* trigger or UPDATE, a DELETE, and the upsert of a traffic_condition.
New(v) == Lock("number", v, "write")
Share(v) == Lock("vehicle", v, "share")
Touch(v) == Lock("vehicle", v, "touch")
Delete(v) == Lock("vehicle", v, "write")
Upsert(s) == Lock("condition", s, "write")

\* A foreign key looks at a row that last_seen is being written to.
Compatible(m, n) == "share" \in {m, n} /\ {m, n} \subseteq {"share", "touch"}

\* A statement over a set of rows meets them in no particular order: the
\* order of a scan changes with every new version of a row.
Sweep(locks) == SetToSeqs(locks)

Refresh == {[i \in DOMAIN SegmentOrder |-> Upsert(SegmentOrder[i])]}

\* ensure_vehicle, when the number is new; then the two INSERTs and the
\* refresh of one segment, if the fix has one.
OnePoint(v) ==
    << {<<>>, <<New(v)>>}, {<<>>, <<Share(v)>>}, {<<Share(v)>>},
       {<<Share(v), Touch(v)>>},
       {<<>>} \cup {<<Upsert(s)>> : s \in ToSet(SegmentOrder)} >>

\* For each row the foreign key, and then the trigger.
SharedAndTouched(points) ==
    [i \in 1..(2 * Len(points)) |->
        IF i % 2 = 1 THEN Share(points[(i + 1) \div 2])
                     ELSE Touch(points[i \div 2])]

\* bulk_ingest: new numbers, subtype rows, gps_data, vehicle_position,
\* refresh_all_traffic, last_seen.  An executemany keeps the client's order.
Bulk(points) ==
    << UNION {Sweep({New(v) : v \in S}) : S \in SUBSET ToSet(points)},
       Sweep({Share(v) : v \in ToSet(points)}),
       {[i \in DOMAIN points |-> Share(points[i])]},
       {SharedAndTouched(points)},
       Refresh,
       Sweep({Touch(v) : v \in ToSet(points)}) >>

\* The five statements of each point, point after point.
Trip(points) ==
    [i \in 1..(5 * Len(points)) |->
        OnePoint(points[1 + (i - 1) \div 5])[1 + ((i - 1) % 5)]]

ResetScenarios == << Sweep({Delete(v) : v \in Resettable}), Refresh >>

Register(v) == << {<<New(v)>>}, {<<Share(v)>>} >>

Plans ==
    {<<"batch", Bulk(points)>> : points \in Orders}
    \cup {<<"trip", Trip(points)>> : points \in Trips}
    \cup {<<"register", Register(v)>> : v \in Vehicles}
    \cup {<<"reset", ResetScenarios>>, <<"refresh", <<Refresh>>>>}
-----------------------------------------------------------------------------
(* Requests.                                                               *)

\* Threads of the pool are alike: the first one that is idle takes it.
Arrive(w) ==
    /\ request[w] = "idle" /\ \A v \in Sessions : v < w => request[v] # "idle"
    /\ arrivals < MaxArrivals
    /\ arrivals' = arrivals + 1
    /\ \E plan \in Plans :
          /\ request' = [request EXCEPT ![w] = plan[1]]
          /\ rest' = [rest EXCEPT ![w] = plan[2]]
    /\ UNCHANGED <<todo, holds>>

\* The statement before commits, and the next one begins.
Execute(w) ==
    /\ todo[w] = <<>> /\ rest[w] # <<>>
    /\ \E locks \in Head(rest[w]) : todo' = [todo EXCEPT ![w] = locks]
    /\ rest' = [rest EXCEPT ![w] = Tail(@)]
    /\ holds' = [holds EXCEPT ![w] = {}]
    /\ UNCHANGED <<request, arrivals>>

Blockers(w) ==
    {v \in Sessions \ {w} : todo[w] # <<>> /\ \E h \in holds[v] :
        h.row = Head(todo[w]).row /\ ~Compatible(h.mode, Head(todo[w]).mode)}

Take(w) ==
    /\ todo[w] # <<>> /\ Blockers(w) = {}
    /\ holds' = [holds EXCEPT ![w] = @ \cup {Head(todo[w])}]
    /\ todo' = [todo EXCEPT ![w] = Tail(@)]
    /\ UNCHANGED <<request, rest, arrivals>>

Finish(w) ==
    /\ request[w] # "idle" /\ todo[w] = <<>> /\ rest[w] = <<>>
    /\ request' = [request EXCEPT ![w] = "idle"]
    /\ holds' = [holds EXCEPT ![w] = {}]
    /\ UNCHANGED <<rest, todo, arrivals>>

\* Nobody in S waits for anybody outside.
Closed(S) == \A v \in S : Blockers(v) \subseteq S

\* Does w, through those it waits for, wait for itself?
InCircle(w) ==
    \A S \in SUBSET Sessions : Blockers(w) \subseteq S /\ Closed(S) => w \in S

\* Mutant: the connection goes back to the pool with its transaction open.
KeptByVictim(w) == holds[w]

\* A transaction that fails gives its locks back.
HeldByVictim(w) == {}

\* PostgreSQL: deadlock detected.  The request ends with 422 (500 for a
\* reset or a refresh).
Abort(w) ==
    /\ InCircle(w)
    /\ request' = [request EXCEPT ![w] = "idle"]
    /\ rest' = [rest EXCEPT ![w] = <<>>]
    /\ todo' = [todo EXCEPT ![w] = <<>>]
    /\ holds' = [holds EXCEPT ![w] = HeldByVictim(w)]
    /\ UNCHANGED arrivals

LocksNext == \E w \in Sessions :
    Arrive(w) \/ Execute(w) \/ Take(w) \/ Finish(w) \/ Abort(w)

\* Threads run, and PostgreSQL looks for circles.
Fairness == \A w \in Sessions :
    /\ WF_lockVars(Execute(w) \/ Take(w) \/ Finish(w))
    /\ WF_lockVars(Abort(w))

LocksSpec == LocksInit /\ [][LocksNext]_lockVars

FairLocks == LocksSpec /\ Fairness
-----------------------------------------------------------------------------
(* Properties.                                                             *)

\* Only requests that write several vehicles in one transaction can start a
\* circle: fixes taken one by one, registrations and refreshes never wait
\* for one another in a circle, and every circle needs two batches, two
\* resets or one of each (gps_processor.py:83-105, ingest_bulk.py:35-97).
CirclesNeedTwoSweeps ==
    \A S \in SUBSET Sessions :
        /\ S # {}
        /\ \A w \in S : Blockers(w) \cap S # {}
        => Cardinality({w \in S : request[w] \in {"batch", "reset"}}) >= 2

\* Can the session's request take its next step?
CanGoOn(w) ==
    \/ request[w] # "idle" /\ todo[w] = <<>>
       /\ (rest[w] # <<>> => Head(rest[w]) # {})
    \/ todo[w] # <<>> /\ Blockers(w) = {}

\* While requests are under way, one of them can take its next step, or one is
\* in a circle and PostgreSQL will fail it: no request waits for a lock that
\* nobody gives back, whatever batches, resets and victims there have been
\* (database.py:25-35, ingest_bulk.py:30-97, scenarios.py:101-109).
NoStandstill ==
    (\E w \in Sessions : request[w] # "idle")
        => \E w \in Sessions : CanGoOn(w) \/ InCircle(w)

\* When no new requests arrive, all have ended sooner or later, with a result
\* or as the victim of a circle: nobody waits for ever (ingest_bulk.py:74-97,
\* routes/gps.py:30-31).
RequestsEnd == <>[](\A w \in Sessions : request[w] = "idle")
=============================================================================
