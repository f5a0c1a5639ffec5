------------------------------- MODULE Ingest -------------------------------
(***************************************************************************)
(* How fixes become rows: ingest_point, bulk_ingest, register_vehicle, the *)
(* crawl of the scenarios and reset, one action per SQL statement.  The    *)
(* pool's connections are in autocommit mode, so every statement commits   *)
(* by itself and other requests run between any two of them; a request     *)
(* that fails keeps what it already committed.                             *)
(*                                                                         *)
(* What the analyzer does with the positions is the subject of Analyzer.   *)
(***************************************************************************)
EXTENDS Integers, FiniteSets, Sequences, SequencesExt

CONSTANTS
    Workers,
    Numbers,      \* vehicle numbers (plates)
    Scenario,     \* those that start with SCN
    Segments,     \* road_segment ids
    Singles,      \* points that clients send one by one
    Batches,      \* sequences of points that clients send as a batch
    Crawls,       \* sequences of points of a jam or a rush hour
    Registered,   \* the vehicles of POST /api/vehicles
    MaxTime, MaxRequests, MaxResets,    \* bounds of the model
    CanFail,      \* may a connection fail between two statements?
    NoSegment     \* segment_id is NULL

Types == {"car", "bus", "emergency"}

\* What a client sends.  The segment is the client's own or the one that the
\* map matcher finds, NoSegment when it finds none; an id outside Segments
\* is a client's mistake.  `age' is how old the timestamp is on arrival, and
\* a negative age is a timestamp more than five minutes ahead.
Point == [number : Numbers, type : Types, segment : Nat \cup {NoSegment},
          age : Int]

ASSUME IngestAssumption ==
    /\ Scenario \subseteq Numbers
    /\ Segments \subseteq Nat
    /\ NoSegment \notin Segments
    /\ Singles \subseteq Point /\ Registered \subseteq Point
    /\ Batches \cup Crawls \subseteq Seq(Point) \ {<<>>}
    /\ MaxTime \in Nat /\ MaxRequests \in Nat /\ MaxResets \in Nat
    /\ CanFail \in BOOLEAN

VARIABLES
    now,
    vehicle,    \* rows of vehicle
    detail,     \* rows of car_detail, bus_detail, emergency_vehicle_detail
    gps,        \* rows of gps_data
    position,   \* rows of vehicle_position
    serial,     \* the next vehicle_id
    pc, kind,   \* each worker's next statement and the kind of its request
    batch,      \* the points of its request
    place,      \* the point it is at, when it takes them one by one
    ids,        \* the rows of vehicle it has read (idmap)
    requests, resets

tables == <<vehicle, detail, gps, position, serial>>
sent == <<kind, batch, place>>
job == <<pc, sent, ids>>
bounds == <<requests, resets>>
vars == <<now, tables, job, bounds>>

Init ==
    /\ now = 1
    /\ vehicle = {} /\ detail = {} /\ gps = {} /\ position = {}
    /\ serial = 1
    /\ pc = [w \in Workers |-> "idle"]
    /\ kind = [w \in Workers |-> "single"]
    /\ batch = [w \in Workers |-> <<>>]
    /\ place = [w \in Workers |-> 1]
    /\ ids = [w \in Workers |-> {}]
    /\ requests = 0 /\ resets = 0
-----------------------------------------------------------------------------
(* What a statement looks at.                                              *)

\* last_seen is NULL: older than any fix of the model.
Never == -1

VehicleIds == {r.id : r \in vehicle}

Named(n) == {r \in vehicle : r.number = n}

\* The point that a request which goes one by one is at.
Here(w) == batch[w][place[w]]

\* The points whose rows an INSERT of this request writes.
Current(w) == IF kind[w] = "bulk" THEN ToSet(batch[w]) ELSE {Here(w)}

\* The rows it writes, each with the vehicle_id read for its number.
Rows(w) ==
    {[id |-> pr[2].id, number |-> pr[1].number, fix |-> pr[1].fix,
      segment |-> pr[1].segment, at |-> pr[1].at] :
        pr \in {x \in Current(w) \X ids[w] : x[1].number = x[2].number}}

\* Every point has a vehicle_id (else idmap raises KeyError), the foreign
\* key finds it, and fn_validate_gps_data accepts the timestamp.
Insertable(w) ==
    /\ \A p \in Current(w) : \E r \in ids[w] : r.number = p.number
    /\ \A row \in Rows(w) : row.id \in VehicleIds /\ row.at <= now

\* The foreign key on segment_id, which may be NULL.
OnNetwork(w) == \A row \in Rows(w) : row.segment \in Segments \cup {NoSegment}

\* The newest of the timestamps stored for vehicle row r, in the order of
\* the batch: what the last_seen trigger leaves behind.
Touched(w, r) ==
    LET mine == {i \in DOMAIN batch[w] : /\ batch[w][i] \in Current(w)
                                         /\ batch[w][i].number = r.number}
    IN IF \E row \in Rows(w) : row.id = r.id
       THEN [r EXCEPT !.last_seen = batch[w][Max(mine)].at] ELSE r
-----------------------------------------------------------------------------
(* Requests begin and end.                                                 *)

Go(w, step) == pc' = [pc EXCEPT ![w] = step]

Accept(w, k, points, step) ==
    /\ pc[w] = "idle"
    /\ requests < MaxRequests
    /\ requests' = requests + 1
    /\ kind' = [kind EXCEPT ![w] = k]
    /\ batch' = [batch EXCEPT ![w] = [i \in DOMAIN points |->
          [number |-> points[i].number, type |-> points[i].type,
           segment |-> points[i].segment, at |-> now - points[i].age,
           fix |-> <<requests, i>>]]]
    /\ place' = [place EXCEPT ![w] = 1]
    /\ ids' = [ids EXCEPT ![w] = {}]
    /\ Go(w, step)
    /\ UNCHANGED <<now, tables, resets>>

\* The request is over, answered or given up.
End(w) ==
    /\ Go(w, "idle")
    /\ kind' = [kind EXCEPT ![w] = "single"]
    /\ batch' = [batch EXCEPT ![w] = <<>>]
    /\ place' = [place EXCEPT ![w] = 1]
    /\ ids' = [ids EXCEPT ![w] = {}]

Reject(w) ==
    /\ End(w)
    /\ UNCHANGED <<now, tables, bounds>>

\* POST /api/gps.
Ingest(w) ==
    \E p \in Singles : Accept(w, "single", <<p>>, "lookup")

\* POST /api/gps/batch, and every tick of the fleet.
BulkIngest(w) ==
    \E points \in Batches : Accept(w, "bulk", points, "upsert")

\* POST /api/scenarios/jam or /rush-hour: ingest_point for each vehicle.
Crawl(w) ==
    \E points \in Crawls : Accept(w, "crawl", points, "lookup")

\* POST /api/vehicles.
RegisterVehicle(w) ==
    \E p \in Registered : Accept(w, "register", <<p>>, "create")
-----------------------------------------------------------------------------
(* One by one: ensure_vehicle and ingest_point; register_vehicle joins at  *)
(* the creation.                                                           *)

Lookup(w) ==
    /\ pc[w] = "lookup"
    /\ ids' = [ids EXCEPT ![w] = Named(Here(w).number)]
    /\ Go(w, IF Named(Here(w).number) = {} THEN "create" ELSE "gps")
    /\ UNCHANGED <<now, tables, sent, bounds>>

\* Mutant: one more than the largest id in the table.
NextFreeId == Max({0} \cup VehicleIds) + 1

\* SERIAL: an id is never given out twice.
NextId == serial

\* INSERT INTO vehicle: someone else may have taken the number since.
Create(w) ==
    LET p == Here(w)
        row == [id |-> NextId, number |-> p.number, type |-> p.type,
                last_seen |-> Never]
    IN /\ pc[w] = "create"
       /\ Named(p.number) = {}
       /\ vehicle' = vehicle \cup {row}
       /\ serial' = serial + 1
       /\ ids' = [ids EXCEPT ![w] = {row}]
       /\ Go(w, "detail")
       /\ UNCHANGED <<now, detail, gps, position, sent, bounds>>

NumberTaken(w) ==
    /\ pc[w] = "create"
    /\ Named(Here(w).number) # {}
    /\ Reject(w)

\* The subtype row of a vehicle just created.
CreateDetail(w) ==
    /\ pc[w] = "detail"
    /\ \A r \in ids[w] : r.id \in VehicleIds
    /\ detail' = detail \cup {[id |-> r.id, table |-> r.type] : r \in ids[w]}
    /\ IF kind[w] = "register"
       THEN End(w)
       ELSE /\ Go(w, "gps")
            /\ UNCHANGED <<sent, ids>>
    /\ UNCHANGED <<now, vehicle, gps, position, serial, bounds>>

\* A reset deleted the vehicle, or a CHECK refuses the seating capacity or
\* the emergency type that a registration asks for.
DetailRefused(w) ==
    /\ pc[w] = "detail"
    /\ \/ \E r \in ids[w] : r.id \notin VehicleIds
       \/ kind[w] = "register"
    /\ Reject(w)
-----------------------------------------------------------------------------
(* bulk_ingest: vehicles and subtypes of the whole batch.                  *)

\* INSERT INTO vehicle ... ON CONFLICT DO NOTHING.  The new numbers get ids
\* in some order; of two types for one number either may win.
UpsertVehicles(w) ==
    LET new == {p.number : p \in ToSet(batch[w])}
                  \ {r.number : r \in vehicle}
    IN /\ pc[w] = "upsert"
       /\ \E order \in [new -> serial..(serial + Cardinality(new) - 1)],
             type \in [new -> Types] :
             /\ \A m, n \in new : order[m] = order[n] => m = n
             /\ \A n \in new : \E p \in ToSet(batch[w]) :
                   p.number = n /\ p.type = type[n]
             /\ vehicle' = vehicle \cup
                   {[id |-> order[n], number |-> n, type |-> type[n],
                     last_seen |-> Never] : n \in new}
       /\ serial' = serial + Cardinality(new)
       /\ Go(w, "select")
       /\ UNCHANGED <<now, detail, gps, position, sent, ids, bounds>>

\* Mutant: the type is the one the client sent with the number.
RowsAsSent(w) ==
    {[pr[1] EXCEPT !.type = pr[2].type] : pr \in
        {x \in vehicle \X ToSet(batch[w]) : x[1].number = x[2].number}}

\* The rows of the batch's numbers.
RowsOfBatch(w) ==
    {r \in vehicle : \E p \in ToSet(batch[w]) : p.number = r.number}

SelectIds(w) ==
    /\ pc[w] = "select"
    /\ ids' = [ids EXCEPT ![w] = RowsOfBatch(w)]
    /\ Go(w, "car")
    /\ UNCHANGED <<now, tables, sent, bounds>>

AfterDetail == [car |-> "bus", bus |-> "emergency", emergency |-> "gps"]

\* The vehicle_ids of one type, or the literal [-1] when there is none.
IdsOfType(w, t) ==
    LET mine == {r.id : r \in {q \in ids[w] : q.type = t}}
    IN IF mine = {} THEN {-1} ELSE mine

\* Mutant: the subtype tables have no foreign key.
NoReference(S) == TRUE

\* The foreign key on vehicle_id.
Referenced(S) == S \subseteq VehicleIds

\* The INSERTs into the three subtype tables, car first.
BulkDetail(w) ==
    /\ pc[w] \in Types
    /\ Referenced(IdsOfType(w, pc[w]))
    /\ detail' = detail \cup
          {[id |-> i, table |-> pc[w]] : i \in IdsOfType(w, pc[w])}
    /\ Go(w, AfterDetail[pc[w]])
    /\ UNCHANGED <<now, vehicle, gps, position, serial, sent, ids, bounds>>

\* The foreign key refuses a vehicle_id that is not there.
BulkDetailRefused(w) ==
    /\ pc[w] \in Types
    /\ ~Referenced(IdsOfType(w, pc[w]))
    /\ Reject(w)
-----------------------------------------------------------------------------
(* The raw and the matched fixes, common to both paths.  The executemany   *)
(* of a batch is one implicit transaction.                                 *)

\* Mutant: the raw fix is skipped.
RawRowsOfNone(w) == {}

\* The rows that gps_data gets.
RawRows(w) == Rows(w)

InsertGps(w) ==
    /\ pc[w] = "gps"
    /\ Insertable(w)
    /\ gps' = gps \cup RawRows(w)
    /\ Go(w, "position")
    /\ UNCHANGED <<now, vehicle, detail, position, serial, sent, ids, bounds>>

GpsRefused(w) ==
    /\ pc[w] = "gps"
    /\ ~Insertable(w)
    /\ Reject(w)

\* With the trigger that sets last_seen of each row's vehicle.
InsertPosition(w) ==
    /\ pc[w] = "position"
    /\ Insertable(w) /\ OnNetwork(w)
    /\ position' = position \cup Rows(w)
    /\ vehicle' = {Touched(w, r) : r \in vehicle}
    /\ Go(w, "calculate")
    /\ UNCHANGED <<now, detail, gps, serial, sent, ids, bounds>>

\* Mutant: a refused row is skipped and the request goes on.
PositionSkipped(w) ==
    /\ pc[w] = "position"
    /\ ~(Insertable(w) /\ OnNetwork(w))
    /\ Go(w, "calculate")
    /\ UNCHANGED <<now, tables, sent, ids, bounds>>

PositionRefused(w) ==
    /\ pc[w] = "position"
    /\ ~(Insertable(w) /\ OnNetwork(w))
    /\ Reject(w)

\* calculate_segment_traffic for a single fix, then the answer or the next
\* vehicle of the crawl.
Calculate(w) ==
    /\ pc[w] = "calculate" /\ kind[w] # "bulk"
    /\ IF place[w] = Len(batch[w])
       THEN End(w)
       ELSE /\ Go(w, "lookup")
            /\ place' = [place EXCEPT ![w] = @ + 1]
            /\ ids' = [ids EXCEPT ![w] = {}]
            /\ UNCHANGED <<kind, batch>>
    /\ UNCHANGED <<now, tables, bounds>>

\* refresh_all_traffic and the UPDATE of last_seen that ends a batch.
TouchLastSeen(w) ==
    /\ pc[w] = "calculate" /\ kind[w] = "bulk"
    /\ vehicle' = {IF \E q \in ids[w] : q.id = r.id
                   THEN [r EXCEPT !.last_seen = now] ELSE r : r \in vehicle}
    /\ End(w)
    /\ UNCHANGED <<now, detail, gps, position, serial, bounds>>
-----------------------------------------------------------------------------
(* Reset, failures and time.                                               *)

\* DELETE FROM vehicle WHERE vehicle_number LIKE 'SCN%', with its cascades.
\* The refresh that follows belongs to Analyzer.
Reset ==
    LET gone == {r.id : r \in {q \in vehicle : q.number \in Scenario}}
    IN /\ resets < MaxResets
       /\ resets' = resets + 1
       /\ vehicle' = {r \in vehicle : r.id \notin gone}
       /\ detail' = {d \in detail : d.id \notin gone}
       /\ gps' = {row \in gps : row.id \notin gone}
       /\ position' = {row \in position : row.id \notin gone}
       /\ UNCHANGED <<now, serial, job, requests>>

\* The connection is lost or the server stops between two statements.
Fail(w) ==
    /\ CanFail
    /\ pc[w] # "idle"
    /\ Reject(w)

Tick ==
    /\ now < MaxTime
    /\ now' = now + 1
    /\ UNCHANGED <<tables, job, bounds>>

\* Every bound is used up and nothing is under way.
Rest ==
    /\ requests = MaxRequests /\ resets = MaxResets /\ now = MaxTime
    /\ \A w \in Workers : pc[w] = "idle"
    /\ UNCHANGED vars

Request(w) == Ingest(w) \/ BulkIngest(w) \/ Crawl(w) \/ RegisterVehicle(w)

Step(w) ==
    \/ Lookup(w) \/ Create(w) \/ NumberTaken(w)
    \/ CreateDetail(w) \/ DetailRefused(w)
    \/ UpsertVehicles(w) \/ SelectIds(w)
    \/ BulkDetail(w) \/ BulkDetailRefused(w)
    \/ InsertGps(w) \/ GpsRefused(w)
    \/ InsertPosition(w) \/ PositionRefused(w)
    \/ Calculate(w) \/ TouchLastSeen(w)

Next ==
    \/ \E w \in Workers : Request(w) \/ Step(w) \/ Fail(w)
    \/ Reset
    \/ Tick
    \/ Rest

Spec == Init /\ [][Next]_vars
-----------------------------------------------------------------------------
(* Properties.                                                             *)

FixIds == Nat \X Nat

StoredRow == [id : Nat, number : Numbers, fix : FixIds,
              segment : Nat \cup {NoSegment}, at : Int]

VehicleRow == [id : Nat, number : Numbers, type : Types, last_seen : Int]

TypeOK ==
    /\ now \in Nat /\ serial \in Nat
    /\ vehicle \in SUBSET VehicleRow
    /\ detail \in SUBSET [id : Nat, table : Types]
    /\ gps \in SUBSET StoredRow /\ position \in SUBSET StoredRow
    /\ pc \in [Workers -> Types \cup
                 {"idle", "lookup", "create", "detail", "upsert", "select",
                  "gps", "position", "calculate"}]
    /\ kind \in [Workers -> {"single", "bulk", "crawl", "register"}]
    /\ \A w \in Workers : \A p \in ToSet(batch[w]) :
          p \in [number : Numbers, type : Types, at : Int, fix : FixIds,
                 segment : Nat \cup {NoSegment}]
    /\ place \in [Workers -> Nat \ {0}]
    /\ ids \in [Workers -> SUBSET VehicleRow]

\* A vehicle's subtype row is in the table of its type and in no other, even
\* when requests give its number different types (schema.sql:35,
\* ingest_bulk.py:46-61, gps_processor.py:43-66).
DetailMatchesType ==
    \A d \in detail : \E r \in vehicle : r.id = d.id /\ r.type = d.table

\* Every matched position has the raw fix it was matched from, whatever
\* fails between the two INSERTs and whatever a reset deletes
\* (schema.sql:109: "every raw fix resolved to a road_segment").
PositionHasRawFix == position \subseteq gps

\* A stored fix belongs to the vehicle whose number the client sent, although
\* requests keep vehicle_ids across statements and resets delete vehicles
\* (gps_processor.py:44, ingest_bulk.py:46).
FixBelongsToSender ==
    \A row \in gps \cup position :
        \E r \in vehicle : r.id = row.id /\ r.number = row.number

\* A request goes on to the traffic, and so to its answer, only when all its
\* fixes are stored, raw and matched, except those of vehicles that a reset
\* has deleted (gps_processor.py:91-116, ingest_bulk.py:63-99).
OkMeansStored ==
    \A w \in Workers : pc[w] = "calculate" =>
        \A p \in Current(w) : \E r \in ids[w] :
            /\ r.number = p.number
            /\ r.id \in VehicleIds =>
                  \E row \in gps \cap position :
                      row.id = r.id /\ row.fix = p.fix

\* A batch of valid points, whose vehicles nobody deletes, comes to no INSERT
\* that a foreign key refuses (ingest_bulk.py:47-61).
ValidBatchAccepted ==
    \A w \in Workers :
        (/\ pc[w] \in Types
         /\ \A p \in ToSet(batch[w]) :
               p.segment \in Segments \cup {NoSegment} /\ p.at <= now)
        => IdsOfType(w, pc[w]) \subseteq VehicleIds
=============================================================================
