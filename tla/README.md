# Verification of TrafficFlowDB

TLA+ modules that model the parts of TrafficFlowDB where requests, threads and
the database interact, TLC configurations that check them on small instances,
and proofs that TLAPS checks for every value of the constants. Paths such as
`ingest_bulk.py:50` are below `src/`.

## 1. The system

TrafficFlowDB is a FastAPI process (threads for the endpoints, one event loop)
in front of PostgreSQL. Vehicles send GPS fixes; the database keeps them,
computes a congestion level per road segment, and a Dijkstra search routes
around congestion. All pool connections are in autocommit mode
(`database.py:25-35`), so **every SQL statement is a transaction of its own**
and other requests run between any two statements of a request. Nearly all of
the hard behaviour comes from that.

| Part | State | Operations | Interacts through | Must hold |
|---|---|---|---|---|
| Traffic analyzer (`procedures.sql`, `triggers.sql:70-90`, `routes/traffic.py`, `routes/config.py`, `runtime.py`) | `traffic_condition`, `traffic_history`, `traffic_thresholds`, the live window | `calculate_segment_traffic`, `refresh_all_traffic`, `PUT /api/config` | row locks; positions; `pg_notify` | snapshot = end of history; an undisturbed request repairs a row; no deadlock |
| GPS ingest (`gps_processor.py`, `ingest_bulk.py`, `routes/gps.py`) | `vehicle`, subtype tables, `gps_data`, `vehicle_position` | `ingest_point`, `bulk_ingest` | calls the analyzer; shares tables | rows belong to the right vehicle; success means stored |
| Vehicle registry (`routes/vehicles.py`) | `vehicle`, subtype tables | `register_vehicle` | shares tables with ingest | one subtype row, of the right type |
| Scenarios (`services/scenarios.py`) | none of its own | jam, rush hour, reset | `ingest_point`; DELETE with cascades; refresh | a reset removes only scenario traffic |
| Server fleet (`simulator/fleet.py`, `routes/fleet.py`) | list of vehicles, `enabled`, `target` | `configure`, `_tick`, `stop` | two threads, one list, no lock; `bulk_ingest` | cap, target reached, retired for good |
| Route optimizer (`route_optimizer.py:66-144`) | local to a call | `dijkstra` | reads the graph | shortest route, termination |
| Routing endpoint (`routes/routing.py`, `route_optimizer.py:20-63`) | `_graph_cache`, `route*` tables | `refresh_graph`, `request_route` | one dict shared by all threads | young graphs, complete rows, a comparison with the right sign |
| Service: boot, stop, pools (`main.py:25-36`, `database.py`, `docker-compose.yml`) | lifespan, two lazy pool globals, the role `traffic_ro` in the database | `wait_for_db`, `init_db`, `ensure_readonly_role`, `get_pool`, `get_ro_pool`, `close_pool` | truncates the transactional tables; all threads | serves again after anything; one main pool; SQL Lab keeps its privileges |
| Vehicle motion, CLI simulator (`vehicle_simulator.py`) | position on a segment, trip | `step`, `_arrive` | `dijkstra`, HTTP | every leg is entered, from the node it begins at |
| Query log (`querylog.py`, `routes/logs.py`) | ring of 400 entries, a counter | `log`, `snapshot` | all endpoints; dies with the process | entries of later ids may come first, none is lost to the readers |
| Dashboard, live feed (`app.js:178-235,452-478`, `main.py:71-94`) | loaded or not, seen log ids, what is drawn | `boot`, poll and push | two sources of the same entries and rows | each entry once; catches up |
| Command console, SQL Lab, geometry, statistics | none | parse text, read | call the handlers above | – |

The behaviours that are hard to test: overlapping computations of one segment;
requests that keep a `vehicle_id` or a graph across statements while others
delete or replace it; statements that fail between two commits; `configure`
and `_tick` on one list; restarts that wipe some tables and keep others; locks
taken in a loop; a boot that fails half-way; replies and frames that overtake
each other. `PROJECT.json` lists each one at its line under `hazards`.

## 2. Modules

| Module | Models | State and actions |
|---|---|---|
| `CongestionRule` | the rule of `procedures.sql:45-61` | pure operators, fractions multiplied out |
| `Board` | what clients see of the analyzer: the abstract specification | a row, a refresh or nothing is published at once |
| `Analyzer` | the analyzer under concurrent requests; implements `Board` | below |
| `Settled` | `Analyzer` with two history variables: which rows can be relied on | below |
| `AnalyzerProofs` | ten theorems about `Analyzer`, three about `Settled` | |
| `Ingest` | both ingest paths, registration, crawl, reset | below |
| `IngestProofs` | five theorems about `Ingest`, two about `RowLocks` | |
| `RowLocks` | the same requests, lock by lock | below |
| `Fleet` | the server fleet | below |
| `FleetProofs` | three theorems about `Fleet` | |
| `Vehicle` | the motion of one vehicle | below |
| `VehicleProofs` | four theorems about `Vehicle` | |
| `Walks` | a network and a request; what a shortest route is | the reference of the search, by the number of segments |
| `Search` | what `dijkstra` promises: the abstract specification | one step: a shortest route, or none |
| `Dijkstra` | one call of `dijkstra`; implements `Search` | heap as a set of pairs; one action per pop, relaxation, step of the walk back |
| `DijkstraProofs` | seven theorems about `Dijkstra` | |
| `RouteGraph` | the cache, both searches, their figures, the stored rows | one action per statement of `request_route` and `refresh_graph` |
| `RouteGraphProofs` | four theorems about `RouteGraph` | |
| `Selection` | a list comprehension with a condition | `Selected`, used by `QueryLog`, `Dashboard` and `Vehicle` |
| `QueryLog` | the ring and its counter | `Draw` (outside the lock), `Store`, `Snapshot` |
| `Service` | the API process around `QueryLog` | below |
| `ServiceProofs` | four theorems about `Service` and `Dashboard` | |
| `Lemmas` | induction, recursive functions and `Selected`, for the proofs | |
| `Dashboard` | a browser and both feeds, composed with `Service` | below |
| `*MC` | constants for TLC | |

**Analyzer.** A worker is a request thread. `IngestPoint`, `BulkIngest`,
`Refresh`, `Reset` and `PutConfig` are a request's first statement; then
`Begin` fixes `NOW()`, and for each segment of the request's plan `ReadRules`,
`Scan` and `Upsert` follow the three statements of
`calculate_segment_traffic`; `Commit` makes rows, history and notifications
visible together. Under READ COMMITTED each SELECT sees what is committed when
it starts, hence `Scan` reads `positions` as they are; an upsert waits while
another transaction holds the row (`pend` holds uncommitted rows, a non-empty
entry is the lock) and then writes values computed *before* the wait. A row is
kept as the set of fixes it aggregates, from which average, count and density
follow. `Abort` rolls back; `Restart` is the boot's TRUNCATE
(`migrate_all_india.sql:9`). `ScanOrder` is the order in which a scan of
`road_segment` returns the active rows. The code has no ORDER BY
(`procedures.sql:88`); that all scans agree is an assumption about PostgreSQL
on a table that the running application never writes. Three steps join a commit
and the read of the live window that follows it: `IngestPoint`
(`gps_processor.py:111-114`), `BulkIngest` (`ingest_bulk.py:81-82`) and `Reset`
(`scenarios.py:105-108`); a window that changes between the two is the same as
one that changes before the request.

**Settled.** Requests that overlap, fail or are cut off may leave rows that miss
fixes, count removed ones or have an old level; section 3 shows it. What the code
relies on is that such a row does not last: `clean` has the segments whose row a
request has had to itself from its first statement on, and `settled` those whose
row such a request computed last. A row leaves `settled` when a request on its
segment overlaps another or fails, when the window changes, and at a boot;
nothing else is excluded. The
variables only watch: each step is one of `Analyzer`, and `SettledIsAnalyzer`
in `AnalyzerProofs` says so. A settled row that no request under way is going to
write is `Reliable`, and the three properties speak of those.

**Board.** The variables are the three that a client can see: the rows of
`traffic_condition`, the history and the last level a listener was told. The
refinement mapping is the identity on them; workers, locks, positions, clocks
and configuration are hidden. `Publish(S)` demands that the new rows count
fixes of their own segment only, all younger than some window, that some
rulebook gives their level, that rows of one publication carry one time, that
each comes with its history row, and that exactly the changed levels are told.
`BoardSpec` in `Analyzer` is `INSTANCE Board WITH ...`: it replaces separate
invariants about the order of snapshot, history and notifications.

**Ingest.** One action per SQL statement: `Lookup`, `Create`, `CreateDetail`
for a single fix, `UpsertVehicles`, `SelectIds`, three `BulkDetail` for a
batch, `InsertGps` and `InsertPosition` for both. Each insert has a twin
(`NumberTaken`, `DetailRefused`, `BulkDetailRefused`, `GpsRefused`,
`PositionRefused`) for what a constraint or trigger refuses. Points carry
their age on arrival; a negative age stands for a timestamp beyond the
trigger's five minutes. `Fail` loses the connection between two statements.
Map matching is reduced to the segment it returns, positions to who, where and
when. The request of a worker that is idle is reset to its initial value, so
states differ only in what matters.

**RowLocks.** A session is a connection with the request under way on it.
`Ingest` and `Analyzer` treat a statement, or an upsert, as one
step. Here a statement is the set of sequences in which it may take its row
locks; `Execute` commits the one before and picks one, `Take` takes the next
lock if no other transaction holds a conflicting one, `Abort` is PostgreSQL's
choice of a victim, any member of a circle. `InCircle` says so without following
edges: whoever waits for nobody outside a set that contains all those w waits
for has w in it. An executemany keeps the client's
order, because psycopg sends its rows as one pipeline that ends in one commit;
a scan meets the rows in any order. A foreign key takes a share lock on the
vehicle and the trigger of `triggers.sql:39-51` then writes its `last_seen`;
these two are compatible with each other, two writes are not. The sequences of an
executemany and of a crawl are functions of the index, without a fold, so that
the theorem about them can be proved.

**Service.** `phase` is where `lifespan` is, `at` the file of `init_db` or
statement of `ensure_readonly_role` that comes next. A file is applied whole or
not at all (one simple query is one transaction); a statement for the role
commits by itself. `privs` is what `traffic_ro` has been given; it survives the
process, and dropping the views takes the privilege on them unless default
privileges have been set. `CheckPool` and `OpenPool` are the two halves of
`get_pool` and `get_ro_pool`; `global` says what the globals refer to and
`open` how many pools are open. `Work` is all that happens between the pool and
the entry, `StoreEntry` the append under the lock. A failing file, an
exhausted `wait_for_db`, `Exit` and `Kill` end the process, its threads and
its log, and `Start` is docker's `restart: unless-stopped`. The environment has
one password that `_lit` accepts, which may be replaced by one it refuses
between two lives.

**Dashboard.** `boot()` is `LoadPage`, or `AbandonPage` when one of its first
requests fails, after which no timer and no socket is ever started
(`app.js:464-467`) until somebody opens the page again (`OpenAgain`, which is not
fair). `live()` is `ReadTables` and `SendFrame`, because the log is read
after the tables; frames stay in order and are lost with their socket. The 5 s
timer does not wait for its last reply (`Slots` bounds how many are under way, one
in the run), the other one does (`app.js:469-471`). `shown` is what `appendLogs` has let through;
an entry is told from one of the same id by the life it was logged in, which
the browser cannot see. `map` is the version of the tables that is drawn. The
forms call `pollOnce` as well (`app.js:362,420,429,436,443`), so two polls may
overlap; the model has one at a time, and lets the frames of the socket race it.

**Fleet.** `self.vehicles = []` (`fleet.py:87`) makes a new list while a thread
that is appending to, or iterating over, the old one goes on with it; `lists`
keeps all of them and `held` is the one the tick holds. Callers run
`configure` as `SetEnabled`, `SetTarget`, `CallerChecks` and then
`CallerClears` or `CallerTrims`; the tick runs `Snapshot`, `TickChecks`, ...,
`Grow`, `Spawn`, `Walk`, `Drive`, `Post`. `Stop` cancels the loop but not the
thread of a running tick, as `asyncio.to_thread` behaves. A vehicle is its
number of birth.

**Vehicle.** Vehicles write nothing that they share, so one is enough. `Creep`,
`Stand` and `Move` are the three branches of `step`; a call of `_arrive` is
taken apart into `TakeLeg`, `DropLeg`, `Plan` (which may call `_arrive` again)
and `Wander`. `plan_trip` returns any simple path, because the traffic, and so
the weights, may be anything, or none (`vehicle_simulator.py:83-87`). `depth`
counts the calls of `_arrive` within itself; a RecursionError leaves the vehicle as
it is, and the fleet's next tick goes on with it. The command-line simulator ends
with it instead (line 239), which the model leaves out.

**Dijkstra.** Weights are positive naturals, which covers both modes (minutes
or kilometres in some unit; `distance_km > 0` by `schema.sql:86`). Rows, and
so adjacency lists, come in any order, as the SELECT has no ORDER BY.

**Search.** The caller of `dijkstra` sees one answer: `ReturnRoute`, with a route
of the least total weight that uses no segment twice, or `RefuseRoute`, where
nothing leads. `Answer` in `Dijkstra` is the refinement mapping: pending until the
walk back has ended, then `path` and `dist[target]`; the heap, the nodes visited
and the way back are hidden. Both modules extend `Walks`, whose `Within` counts
the segments of walks instead of ordering nodes by their distance.

**RouteGraph.** Routes between two places are taken as wholes. A search reads
the shared dict when it begins: `Found` remembers the graph it ran on. `cache`
has both the time the code stamps on it (`at`, taken before the query) and the
time its rows were really read (`read`). A graph has the times of the segments of
each route in thousandths of a minute, so the two ways in which the code rounds to
hundredths differ as they do there: the first search rounds its total (`Eta`), the
second adds rounded legs (`EtaByLegs`, `route_optimizer.py:134-135`).

Where else two steps of the code are one here: `Walk` of `Fleet` checks `enabled`
and begins the iteration (`fleet.py:115`, 135). `Relax` of `Dijkstra` takes
`dist[here]` for the distance popped, which are equal for a node that was not
visited. `New` of `RowLocks` does not wait for a transaction that deletes the same
`vehicle_number`.

A few comparisons of definitions and code that are easy to get wrong: a row
with no fix has the speed limit as its average (COALESCE); the window is open
at its old end (`recorded_at > NOW() - window`); two distinct fixes of one
vehicle count once for the density but twice for the average; a batch with one
number and two types keeps one of them, PostgreSQL decides which.

## 3. What the runs check

Each run takes about three minutes at most on two cores.

| Run | Checks | Instance |
|---|---|---|
| `AnalyzerConcurrent` | `TypeOK`, `NoWaitCycle`, `OwnFixCounted`, `BoardSpec` (the refinement), `SettledCountsAll`, `SettledHasNoGhost`, `SettledFollowsRules`; deadlock | 2 workers, 3 requests, 2 segments, 2 windows, 2 rulebooks, failures, 1 restart, 1 minute |
| `IngestConcurrent` | `TypeOK`, `DetailMatchesType`, `PositionHasRawFix`, `FixBelongsToSender`, `OkMeansStored`; deadlock | 2 workers, 3 requests of any kind, 1 reset, failures |
| `RowLocks` | `CirclesNeedTwoSweeps`, `NoStandstill`, `RequestsEnd` | 3 requests of any kind, 2 vehicles, 1 segment, batches in both orders |
| `Dashboard` | `TypeOK`, `OnePool`, `LabKeepsReading`, `CountedOnce`, `ServesAgain`, `LogCatchesUp`, `MapCatchesUp`; deadlock | a request thread and the tick, 2 requests, 1 fault, ring of 3, replies of 2 |
| `Fleet` | `TypeOK`, `FleetCapped`, `RetiredForGood`, `FollowsTarget`, `DisabledFallsSilent` | 2 callers, 3 requests, cap 2 |
| `Vehicle` | `TypeOK`, `TripLeadsOn`, `NoUTurn`, `LegsAreEntered` | 4 nodes, 5 segments of 1 to 3 units, steps of up to 2 |
| `Dijkstra` | `VisitedAreFinal`, `SearchSpec` (the refinement), `SearchEnds` | 3 networks of 5 nodes and 5 segments, all weights in {1, 2, 4} |
| `RouteGraphShared` | `TypeOK`, `AnsweredIsStored`, `SavedMinIsClose`, `HitsAreYoung` | 2 workers, routes of 4 and 1 segments, traffic with near ties, 3 time units |
| `AnalyzerLostUpdate` | finds `EveryFixCounted` violated | 2 workers, 2 requests |
| `IngestBatch` | finds `ValidBatchAccepted` violated | 1 batch of one car |
| `RouteGraphSwapped` | finds `SavedMinNotNegative` violated | as `RouteGraphShared`, with whole hundredths |
| `VehicleBackwards` | finds `LegsStartAtNode` violated | the network of `Vehicle` |

Why the bounds are enough. The analyzer's properties relate two transactions
and a row; two workers with a third request show a second transaction after
the first, and two segments are the least that can be locked crosswise. Two
requests disturb each other and the third repairs, or two repair one after the
other and a third comes between. A fix is stored at its own time, and the clock
then moves by a minute: it comes to lie inside a window of 2 and on the open end
of a window of 1. With limit 50, capacity 2 and speed 10 no, one or two vehicles
make LOW, MEDIUM and HIGH by the default thresholds, and LOW, LOW and MEDIUM by
the second rulebook. The vehicle that no reset deletes drives on the first segment
only (`OneRoad`); the scenario's vehicle drives on both. In `Ingest`, one
plate is sent with three types and one plate belongs to scenarios, so a reset
can delete a vehicle at each point of another request, and three requests let
the number come back under a new id. The fleet's cap of 2 stands for 2000:
lists of length 0, 1 and 2 tell clearing, trimming, growing and a full fleet
apart, and the counts -1, 1 and 3 lie on both sides of the clamp. A route of four segments is the
shortest on which truncating the legs would cost more than rounding may. Dijkstra's
networks have a diagonal, parallel segments and unreachable targets; with
weights 1, 2, 4 a detour beats, ties with or loses to a direct segment. The
vehicle's network has a triangle, two parallel roads and a dead end; two calls of
`_arrive` within itself reach both the recursion and its limit (about 1000 in
Python).

Three requests are the least in which one can be caught by a circle of two
others without having started it; with two vehicles and both orders, a batch
meets another batch, a reset, a fix and a registration crosswise. One fault is
a failed statement, a stop, a crash, an outage or a lost socket; each comes at
every point of the first life, and the second life then finds what it left. A
ring of 3 and replies of 2 make both ends of `snapshot` matter: the boot alone
logs one entry, two with a failed role.

Bounds of the models are constants named `Max...`, which appear only in guards,
and the constraint `OneRoad`.
Deadlock checking is on wherever a stop would mean transactions or threads
waiting for each other: `Rest` is the only way to stop. `RowLocks` turns it
off: it lacks clients that must send, and a circle that nobody breaks shows as
a violation of `NoStandstill` or `RequestsEnd`. `Dashboard` needs no `Rest`: its timers never
stop.

### Fairness

`RowLocks!Fairness`: a thread whose next lock is free goes on, and PostgreSQL
looks for circles (`deadlock_timeout`). Clients owe nothing, here or elsewhere:
no request is fair. `Dashboard!Fairness`: `lifespan` goes on and docker restarts
what ended, threads run, an outage ends and lasts (`DbReturns`; outages are
faults, and bounded), timers fire, and what was sent arrives unless its socket
closes. The socket itself owes nothing: neither its connection nor a frame is
fair, so both `...CatchesUp` rest on the timers alone.
`Fleet!Fairness`: callers and
the tick's thread run, the event loop wakes up, and of the snapshots tried for
ever one succeeds (strong fairness of `Snapshot`), because `_loop` survives
each failed one (`fleet.py:104-108`). `Vehicle!FairSpec`: the fleet goes on
ticking. `Dijkstra`: the loop runs.

### Where the code and what is said about it disagree

* **A lost update** (`AnalyzerLostUpdate`). Two computations of a segment
  overlap: the one that scanned first upserts last, and the fix of the other
  is missing from the snapshot (`procedures.sql:45-71`) until the next refresh,
  although its history row had counted it.
* **A negative saving** (`RouteGraphSwapped`). Another request reloads the shared
  graph between the two searches of a request (`routing.py:21-24`,
  `route_optimizer.py:59`): the fastest route of the old traffic is compared with
  the shortest one of the new, and the dashboard says "Fastest saves" a negative
  time (`app.js:275`).
* **Small batches fail** (`IngestBatch`). With no bus in the batch, the id -1
  goes to `bus_detail` (`ingest_bulk.py:55`), and the foreign key refuses it.
* **Legs that nobody drives** (`VehicleBackwards`). A segment entered at its end
  b puts the vehicle at the end a (`vehicle_simulator.py:160` against 141-143),
  and its next step arrives there.

The models also reach these states, which no run singles out:

* the migration of a boot wipes positions and history but keeps
  `traffic_condition`, which goes on counting them (`migrate_all_india.sql:9`);
  for this a boot leaves no row settled;
* a quiet segment keeps its level, as no code calls `refresh_all_traffic` on the
  timer that `procedures.sql:81` speaks of;
* a window changed without thresholds leaves all rows computed with the old one
  (`config.py:40`); for this a new window leaves no row settled;
* a registration refused for its seating capacity leaves a vehicle without
  subtype row, and `ensure_vehicle` never adds it (`vehicles.py:40-57`,
  `gps_processor.py:43`);
* a late fix sets `last_seen` back (`triggers.sql:42`);
* a tick past its check refills the list that `configure` has cleared, and no
  tick clears it again while the fleet is disabled (`fleet.py:94`), although
  `app.js:360` says "Fleet stopped and retired."; they send nothing, which is
  `DisabledFallsSilent`;
* a single fix may be the victim of a circle of two sweeps and be answered 422
  (`routes/gps.py:15` has trigger rejections in mind); for this
  `CirclesNeedTwoSweeps` says who starts a circle, not who pays for it;
* after a restart of the API, entries with an id the browser has seen are not
  shown (`app.js:217`); for this `LogCatchesUp` admits the older entry of that
  id;
* two first queries of the SQL Lab may open two read-only pools, of which
  `close_pool` closes one (`database.py:121`; line 3 speaks of a "small
  thread-safe pool"); for this `OnePool` is about the main pool;
* a reset during a crawl leaves the vehicles inserted after it
  (`scenarios.py:57-68`);
* on one graph `saved_min` may be -0.01 or, with more segments, less, also when
  both searches find the same route (`route_optimizer.py:134-135`); for this
  `SavedMinIsClose` bounds it;
* a page opened while the API boots gives up (`app.js:464-467`); for this
  `LogCatchesUp` and `MapCatchesUp` speak of pages that have loaded;
* a vehicle at a dead end (Ludhiana, Kochi and Guwahati are) goes on from a
  random segment of the network (`vehicle_simulator.py:183`); for this
  `NoUTurn` excepts dead ends.

Two more, about code that is not modelled: `live()` pushes `latest_positions`
without the 60 seconds of `routes/network.py:50-55` ("retired vehicles vanish
from the map instead of haunting it forever"), so they come back with each
frame (`main.py:83`); and the console offers "Rush hour" as an example
(`routes/command.py:28`) that `interpret` has no branch for.

## 4. What is proved

TLAPS checks these for all constants that satisfy the modules' assumptions:
any number of workers, segments, vehicles and callers, any bounds. Every invariant
and every action property of a passing run is stated by one of these theorems,
and so are both refinements; what is left to TLC is liveness. Of three liveness
properties, and of the end of the analyzer's requests, the part that does not
depend on fairness is proved: somebody can always go on, or what is left to do is
a natural number that each step lowers.

| Theorem | Property |
|---|---|
| `AnalyzerProofs!TypeCorrect` | `TypeOK` |
| `AnalyzerProofs!RowsHaveOneWriter` | `OneWriterPerRow` |
| `AnalyzerProofs!SnapshotIsNewest` | `SnapshotEndsHistory` |
| `AnalyzerProofs!ListenersAgree` | `ListenerInSync` |
| `AnalyzerProofs!NeverWaitInCircle` | `NoWaitCycle` |
| `AnalyzerProofs!RequestsGoOn` | `SomebodyCanStep`: some request can take its next step |
| `AnalyzerProofs!RequestsAreBounded` | `WorkIsBounded`: three statements for each active segment, and three |
| `AnalyzerProofs!RequestsComeToAnEnd` | `StepsShrinkWork`: a step leaves its request less, and the others the same |
| `AnalyzerProofs!FixesAreCounted` | `OwnFixCounted` |
| `AnalyzerProofs!AnalyzerImplementsBoard` | `BoardSpec`, the refinement |
| `AnalyzerProofs!NoFixIsMissed` | `SettledCountsAll` |
| `AnalyzerProofs!GhostsVanish` | `SettledHasNoGhost` |
| `AnalyzerProofs!LevelsFollowRules` | `SettledFollowsRules` |
| `FleetProofs!TypeCorrect` | `TypeOK` |
| `FleetProofs!NeverOverCap` | `FleetCapped` |
| `FleetProofs!RetiredStayRetired` | `RetiredForGood` |
| `VehicleProofs!TypeCorrect` | `TypeOK` |
| `VehicleProofs!TripsLeadOn` | `TripLeadsOn` |
| `VehicleProofs!NeverTurnsBack` | `NoUTurn` |
| `VehicleProofs!RidesAreShort` | `RidesAreBounded`: each step brings a trip nearer to its end |
| `RouteGraphProofs!TypeCorrect` | `TypeOK` |
| `RouteGraphProofs!CachedIsYoung` | `HitsAreYoung` |
| `RouteGraphProofs!RoundingsBoundTheLoss` | `SavedMinIsClose` |
| `RouteGraphProofs!AnswersAreStored` | `AnsweredIsStored` |
| `DijkstraProofs!TakenAreFinal` | `VisitedAreFinal` |
| `DijkstraProofs!DijkstraImplementsSearch` | `SearchSpec`, the refinement |
| `DijkstraProofs!SearchIsShort` | `SearchIsBounded`: each step brings the search nearer to its end |
| `DijkstraProofs!RouteFoundIsShortest` | `RouteIsShortest` |
| `DijkstraProofs!NoneIsNoRoute` | `NoneMeansNoRoute` |
| `DijkstraProofs!FoundRouteIsShortest` | `FoundIsShortest`: `RouteIsShortest` in terms of walks |
| `DijkstraProofs!NoneMeansNoWalk` | `NoneIsRight`: `NoneMeansNoRoute` in terms of walks |
| `IngestProofs!IngestTypes` | `TypeOK` |
| `IngestProofs!SubtypesMatch` | `DetailMatchesType` |
| `IngestProofs!PositionsHaveRawFixes` | `PositionHasRawFix` |
| `IngestProofs!FixesKeepTheirSender` | `FixBelongsToSender` |
| `IngestProofs!AnsweredFixesAreStored` | `OkMeansStored` |
| `IngestProofs!CirclesNeedBatchesOrResets` | `CirclesNeedTwoSweeps` of `RowLocks` |
| `IngestProofs!SomeRequestGoesOn` | `NoStandstill` of `RowLocks` |
| `ServiceProofs!NeverTwoPools` | `OnePool` |
| `ServiceProofs!LabStaysProvisioned` | `LabKeepsReading` |
| `ServiceProofs!TypeCorrect` | `TypeOK` of `Dashboard` |
| `ServiceProofs!EntriesCountedOnce` | `CountedOnce` |

The argument for the analyzer. `OneWriterPerRow` is inductive with the types:
only `Upsert` adds a lock, and its guard is that nobody else has it.
`SnapshotEndsHistory` and `ListenerInSync` are inductive too, as `Commit`
writes snapshot, history and notification from the same pending rows, and a
restart empties the history. The absence of circles needs a strengthening:
each plan is either the whole scan order or a single segment, and what a
worker has locked is a part of its plan before the place it is at. Then a
worker of the set that waits for the segment latest in the scan order waits
for a holder that has locked it and therefore waits, if it waits, for a later
segment; a finite order has a last one. A worker with a single-segment plan
holds nothing while it waits. `RequestsGoOn` follows: if every request under way
waited, each would wait for one under way (who is idle holds nothing), and they
would form a circle. `WorkLeft` counts the statements a request has left, from its
place in the plan. `OwnFixCounted` needs that the reads of a worker
contain its own fix from `Scan` on, if the fix is still stored and young
enough when it commits. `OneWriterPerRow`, `SnapshotEndsHistory` and
`ListenerInSync` are proved only: in a run, `BoardSpec` covers them.

The refinement of `Board` rests on three facts. `NotesInv`: what a transaction will notify
is what its pending rows change in the snapshot as it is *now*, since nobody
else can write a row it holds. `PublishInv`: each pending row carries the start
of its transaction and is lawful for its segment, and at "commit" all of its
plan is pending. `PlanInv`: the plan is the scan order or one segment. So
`Commit` is `Publish` of one segment or of the active ones, `Restart` is
`Wipe`, and every other step stutters.

The argument for settled rows. `SettledInv` follows a request from its first
statement to its commit, with any number of others beside it. `Exact(s, row, P, t,
n, r)` says that a row is what a computation of s from the fixes P at time t with a
window of n minutes and the thresholds r would yield. `CleanOf(w)` holds of what w
has to itself: nobody else touches these segments (`OthersTouch`), so what w has read
of them is still so, and each row that is pending is `Exact` by the tables as they
are *now*, although other requests store fixes and thresholds meanwhile: a fix
belongs to a segment that its request touches, and a request with new thresholds
or a DELETE touches every segment, first while it stores them (`Touches`). A failure
unsettles what the request touches and keeps the rest (`ExactKept`). So the rows that
`Commit` adds to `settled` are `Exact`, and `KeptExact` carries that on: time only
makes fixes fall out of the window, and everything else that could change a row, or
what it should be, goes through a request that touches it. The rows are kept also
while a request is storing thresholds, because a refused one (`RulesRejected`)
leaves them as they were. The three theorems are the three parts of `Exact`.

The argument for the fleet. `FleetCapped` is not inductive, because `Spawn`
appends without a test. The invariant `Room` says that while the tick is
between test and append, the list it holds has room below the cap: only the
tick appends, so the other threads can only shorten lists. `RetiredForGood` needs
nothing more: a number is given out once, and every step empties, cuts or keeps
the current list, or appends the next number.

The argument for a vehicle. While it drives, its trip is one that `plan_trip`
could return from the node it is heading for, or empty, and never contains its own
segment (`WhileDriving`). While it arrives (`WhileArriving`), the same holds of
the node, or no leg of the trip touches the node at all: a new plan that begins
with the segment the vehicle came on loses it, and as a path visits a node once,
no other leg touches the node. Such a trip is dropped leg by leg and never driven.
`NoUTurn` follows: the next segment is the first leg, which is not the
segment the vehicle came on, or one of the `Options`, which exclude it unless there
is no other. `RidesAreShort` counts: more than the steps of the longest leg for each
leg that is left, and what is left on the segment. A vehicle with a trip is not
jammed, and pauses only while it drives (`RideInv`), so it either comes nearer to
the end of its segment or takes a leg off; there is a longest segment because
there are finitely many. The network is assumed to be finite and its segments to have two
different ends.

The argument for the routing endpoint. `Stamped` says that the time on a graph
is taken before its rows are read, which loads in any order preserve; a graph
that is young by its stamp was then read even later. `Best` says that what a
search leaves is the best on the graph it ran on, until the request ends. For
`SavedMinIsClose` that is not enough, as the two figures are rounded in different
ways: by `RoundedIsNear` a rounding moves a time by at most half a hundredth, and by
`RoundedLegsAreNear`, an induction over the segments, n rounded legs lose at most n
halves; the total of the fastest route gains at most one. `AnsweredIsStored` rests on `RowsInv`: ids grow
with their tables (`IdsFollowRows`), so the id that an INSERT returns belongs to
no other row and no other request (`OwnRoutes`), and what others store meanwhile
cannot be taken for a request's own rows (`StoredSoFar`). In PostgreSQL the ids
come from sequences, which skip some after a rollback but never repeat one; the
model counts rows.

The argument for the search is Dijkstra's own, for every finite network and all
positive weights. It speaks of walks: a walk is given by its stops, its segments and
the partial sums of their weights, and may have any length. `HeapOK`: the heap has
an entry for every node reached and not taken, and no entry of it is below the
node's distance (stale ones stay). `Ordered`: what was taken is no farther than
the node at hand, and what is left no nearer; with positive weights a relaxation
therefore never changes a node that was taken. `Closed`: the segments of a node
taken are relaxed, but for those to do. When the loop ends (`Settled`), a walk can
only leave the nodes taken where its sum has reached the distance returned;
`OnTheWay` keeps, for each step back along `prev`, the walk from there to the
target whose weight is what remains; its sums grow, so no segment
occurs twice. The runs compare with `Within`, a table of the least totals
of the walks of up to k segments. Two more lemmas connect them: every total in
`Within[k]` is that of a walk, and every walk of k segments is matched by a total
that is no larger. A walk along `prev` visits no node twice, so it has fewer segments
than there are nodes, and `Shortest` is large enough. With these,
`DijkstraImplementsSearch` maps the last step of the loop, to "none" or to
"found", to a step of `Search` and every other step to a stutter; the reference of
`Search` is the same, as the graph does not change (`CallersReference`).
`RouteIsShortest` and `NoneMeansNoRoute` are proved only: in a run, `SearchSpec`
covers them.
`SearchIsShort` counts what is left: an entry of the heap is popped for good, a
segment is looked at once for each node taken and adds an entry at most, and a
node is taken once. On the way back the nodes passed are distinct, so there are at
most as many as the network has.

The argument for the ingest. None of its four invariants is inductive, since a
request holds vehicle_ids across statements. `Owners` is: ids are below the
serial, rows of one id are one vehicle, and an id a request holds is that of
the vehicle it read or of none. Each action is shown to keep it by two facts,
`IdsGivenOnce` and `ReadsRows`. `Stored` then adds `RawStored` to the four: a
request between the two INSERTs has its raw fixes stored, unless a reset took
the vehicle, and a vehicle that was taken cannot come back under its id. The
assumption that no batch is empty is `schemas.py:20`; a tick whose fleet was
just cleared calls `bulk_ingest` with no point, which fails at its first
statement and leaves nothing.

The argument for the service. `PoolInv` says that `_pool` is set while the API
boots, serves and drains, so nobody is about to open one, and that after
`close_pool` the tick is the only thread left. `LabInv` says that a complete
boot leaves the default privileges behind, under which the views of a later
boot stay readable, and counts what a boot under way has granted so far
(`GrantedSoFar`), because only then may it be called complete.

The argument for the readers. An id is drawn by one thread in one life of the
process, so `LogInv` has the ids in the ring distinct from each other, from those
that threads have drawn and not yet stored, and below the counter. A reply or a
frame is cut from the ring and keeps distinct ids (`Reply`), and `appendLogs`
drops the ids it has seen; so `logTotal`, which it raises by the length of what is
left, is the number of entries shown. For the type invariant `LabPools` counts
the SQL Lab's pools: each thread opens at most one, by calling `get_ro_pool` while
`_ro_pool` is None, so there are no more than threads. `Threads` is finite.

The argument for the row locks. Every session is somewhere in the lock sequence of
a statement of its kind (`LocksInv`). Who waits for a row of `traffic_condition`
holds earlier segments only, so whoever blocks it waits for a later one, and a
finite set of workers that wait for each other contains nobody who waits for such
a row. Of the others, a single fix or a registration holds at most the shared lock
of the vehicle it waits for; only a reset can wait for what it holds, and only
a batch or a reset can hold what it waits for. One such
request alone cannot be on both sides, as it would wait for a row it holds. For
`SomeRequestGoesOn`, suppose that nobody can go on. Then every request under way is
blocked, and by requests under way, because a request that is over has given its
locks back. The smallest non-empty set of requests that wait for nobody outside it
is then a circle: of two closed sets that contain what one of its members waits
for, the intersection is closed too, and cannot be smaller. The proofs are in
`IngestProofs`, which extends both modules; `RowLocks` has names and variables of
its own. Sessions, vehicles and the sequences are finite, everything else is
arbitrary.

Selections and sums need induction. The library's induction theorems take a
predicate as a parameter, which the installed provers cannot instantiate; `Lemmas`
states induction for sets of natural numbers (`Induct`, from the well-foundedness
of <), and derives from it that a function defined by recursion exists and is
unique (`Recursion`), in a form without such parameters. What `Within` and
`Selected` compute is proved with these.

Checked by TLC only: all liveness properties (`RequestsEnd`, `FollowsTarget`,
`DisabledFallsSilent`, `LegsAreEntered`, `SearchEnds`, `ServesAgain`,
`LogCatchesUp`, `MapCatchesUp`), as proofs under fairness and about ENABLED are
beyond the prover here. What such a proof would start from is proved for
`RequestsEnd` (`NoStandstill`), `SearchEnds` (`SearchIsBounded`), `LegsAreEntered`
(`RidesAreBounded`) and the end of the analyzer's requests (`SomebodyCanStep`,
`StepsShrinkWork`). The four properties that a run finds violated have
no theorem; what holds in the place of `EveryFixCounted` and
`SavedMinNotNegative` is `SettledCountsAll` and `SavedMinIsClose`.

## 5. What is not modelled

Map matching and the other geometry of `services/geo.py`: floating-point
functions without state; `Ingest` takes the segment they return as an input.
The command parser and the SQL Lab's check of a query's text: regular
expressions and string tests without state, which the repository's unit tests
reach well; what they call or guard is modelled. Floating-point
arithmetic: averages and weights are exact, and only the two times that
`routing.py:67` compares are rounded, as `round` does. Formatting, rendering and the filters of the
dashboard. Statistics and lists, which change nothing. Connection limits: a
request that waits for one of the 20 connections is a request that starts
later. The text of the schema and the migrations beyond constraints, triggers
and what they wipe.

## 6. Plan

Written, in this order: `CongestionRule`, `Analyzer`, `AnalyzerProofs`,
`Ingest`, `Fleet`, `FleetProofs`, `Dijkstra`, `RouteGraph`, `Vehicle`,
`RouteGraphProofs`; then `Board` and the refinement, `QueryLog`, `Service`,
`Dashboard`, `RowLocks`, `ServiceProofs`, `IngestProofs`, `DijkstraProofs`;
then `Lemmas`, `Selection`, `VehicleProofs` and the theorems about every
safety property that only runs had checked; then `Walks`, `Search` and the second
refinement, and the theorems behind the liveness properties; then `Settled`, in the
place of properties of requests that do not overlap, and the roundings.

Next:

1. The safety facts behind the other liveness properties, such as what the ring
   keeps of the entries that `LogCatchesUp` waits for.
2. Shorter proofs in `AnalyzerProofs` and `IngestProofs`, by sharing what a step
   leaves alone.
