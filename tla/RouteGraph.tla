----------------------------- MODULE RouteGraph -----------------------------
(***************************************************************************)
(* POST /api/routes/request: the graph that all requests share for         *)
(* GRAPH_TTL_SEC, the two searches on it, and the rows a request stores,   *)
(* one autocommitted INSERT after the other.                               *)
(*                                                                         *)
(* A route between the two places is taken as a whole; that a search finds *)
(* the best one is the subject of Dijkstra.                                *)
(***************************************************************************)
EXTENDS Integers, FiniteSets, Sequences

CONSTANTS
    Workers,
    Routes,        \* the routes between the two places of the requests
    Km,            \* the length of each
    Legs,          \* the number of its segments
    Traffic,       \* the travel times that live traffic may give the
                   \* segments of each route, in thousandths of a minute
    TTL,           \* GRAPH_TTL_SEC
    MaxTime, MaxRequests,    \* bounds of the model
    None           \* nothing loaded or found yet

ASSUME RouteAssumption ==
    /\ Routes # {}
    /\ Km \in [Routes -> Nat] /\ Legs \in [Routes -> Nat \ {0}]
    /\ Traffic \subseteq [Routes -> Seq(Nat)]
    /\ \A times \in Traffic, r \in Routes : Len(times[r]) = Legs[r]
    /\ TTL \in Nat /\ MaxTime \in Nat /\ MaxRequests \in Nat

VARIABLES
    now,
    live,       \* travel times by traffic_condition and limits
    served,     \* counter for the bound
    cache,      \* _graph_cache, with the time its rows were really read
    pc,
    looked,     \* time.time() when each worker looked at the cache
    rows,       \* what it loaded
    fastest, shortest,     \* its two results
    request, route,        \* the ids its INSERTs returned
    leg,                   \* the sequence_number it inserts next
    requests,   \* rows of route_request
    routes,     \* rows of route
    legs        \* rows of route_segment

world == <<now, live, served>>
answers == <<fastest, shortest>>
keys == <<request, route, leg>>
tables == <<requests, routes, legs>>
vars == <<world, cache, pc, looked, rows, answers, keys, tables>>

Graph == [at : Int, read : Int, times : Traffic]

\* A route and the graph on which a search found it.
Result == [route : Routes, graph : Graph]

Init ==
    /\ now = TTL
    /\ live \in Traffic
    /\ served = 0
    /\ cache = [at |-> 0, read |-> 0, times |-> live]
    /\ pc = [w \in Workers |-> "idle"]
    /\ looked = [w \in Workers |-> 0]
    /\ rows = [w \in Workers |-> None]
    /\ fastest = [w \in Workers |-> None]
    /\ shortest = [w \in Workers |-> None]
    /\ request = [w \in Workers |-> 0] /\ route = [w \in Workers |-> 0]
    /\ leg = [w \in Workers |-> 1]
    /\ requests = {} /\ routes = {} /\ legs = {}

Go(w, from, to) == pc[w] = from /\ pc' = [pc EXCEPT ![w] = to]
-----------------------------------------------------------------------------
(* refresh_graph.                                                          *)

\* The cache starts empty, and as old as a graph that nobody may use.
Look(w) ==
    /\ served < MaxRequests
    /\ served' = served + 1
    /\ looked' = [looked EXCEPT ![w] = now]
    /\ \/ now - cache.at < TTL /\ Go(w, "idle", "fastest")
       \/ now - cache.at >= TTL /\ Go(w, "idle", "load")
    /\ UNCHANGED <<now, live, cache, rows, answers, keys, tables>>

Load(w) ==
    /\ Go(w, "load", "store")
    /\ rows' = [rows EXCEPT ![w] =
          [at |-> looked[w], read |-> now, times |-> live]]
    /\ UNCHANGED <<world, cache, looked, answers, keys, tables>>

\* Mutant: the cache is as old as its update.
StoreLate(w) ==
    /\ Go(w, "store", "fastest")
    /\ cache' = [rows[w] EXCEPT !.at = now]
    /\ UNCHANGED <<world, looked, rows, answers, keys, tables>>

\* One dict for all: whoever loads last overwrites it.
Store(w) ==
    /\ Go(w, "store", "fastest")
    /\ cache' = rows[w]
    /\ UNCHANGED <<world, looked, rows, answers, keys, tables>>
-----------------------------------------------------------------------------
(* The searches, on what the shared dict holds when each begins.           *)

Least(f, r) == \A q \in Routes : f[r] <= f[q]

Total(q) ==
    LET sum[i \in 0..Len(q)] == IF i = 0 THEN 0 ELSE sum[i - 1] + q[i]
    IN  sum[Len(q)]

\* The weight of each route in mode "time".
Minutes(times) == [r \in Routes |-> Total(times[r])]

Found(r) == [route |-> r, graph |-> cache]

\* Mutant: what is less than a hundredth is cut off.
Truncated(x) == x \div 10

\* round(_, 2): to hundredths, and half-way to the even one.
Rounded(x) ==
    LET h == x \div 10
    IN  IF x % 10 > 5 \/ (x % 10 = 5 /\ h % 2 = 1) THEN h + 1 ELSE h

TimesOf(result) == result.graph.times[result.route]

\* estimated_time_min: the first search rounds its total, the second adds the
\* rounded times of the segments.
Eta(result) == Rounded(Total(TimesOf(result)))
EtaByLegs(result) ==
    LET times == TimesOf(result)
    IN  Total([i \in DOMAIN times |-> Rounded(times[i])])

SavedMin(w) == EtaByLegs(shortest[w]) - Eta(fastest[w])

FindFastest(w) ==
    /\ Go(w, "fastest", "shortest")
    /\ \E r \in Routes : /\ Least(Minutes(cache.times), r)
                         /\ fastest' = [fastest EXCEPT ![w] = Found(r)]
    /\ UNCHANGED <<world, cache, looked, rows, shortest, keys, tables>>

FindShortest(w) ==
    /\ Go(w, "shortest", "request")
    /\ \E r \in Routes : /\ Least(Km, r)
                         /\ shortest' = [shortest EXCEPT ![w] = Found(r)]
    /\ UNCHANGED <<world, cache, looked, rows, fastest, keys, tables>>
-----------------------------------------------------------------------------
(* The rows of the request.                                                *)

InsertRequest(w) ==
    LET id == Cardinality(requests) + 1 IN
    /\ Go(w, "request", "route")
    /\ requests' = requests \cup {id}
    /\ request' = [request EXCEPT ![w] = id]
    /\ UNCHANGED <<world, cache, looked, rows, answers, route, leg, routes,
                   legs>>

InsertRoute(w) ==
    LET id == Cardinality(routes) + 1 IN
    /\ Go(w, "route", "legs")
    /\ routes' = routes \cup
          {[id |-> id, request |-> request[w], via |-> fastest[w].route]}
    /\ route' = [route EXCEPT ![w] = id]
    /\ leg' = [leg EXCEPT ![w] = 1]
    /\ UNCHANGED <<world, cache, looked, rows, answers, request, requests,
                   legs>>

\* Mutants: the numbers start at zero; the last segment is left out.
InsertLegFromZero(w) ==
    /\ pc[w] = "legs"
    /\ IF leg[w] = Legs[fastest[w].route]
       THEN pc' = [pc EXCEPT ![w] = "answer"] ELSE UNCHANGED pc
    /\ legs' = legs \cup {<<route[w], leg[w] - 1>>}
    /\ leg' = [leg EXCEPT ![w] = @ + 1]
    /\ UNCHANGED <<world, cache, looked, rows, answers, request, route,
                   requests, routes>>
InsertLegButLast(w) ==
    /\ pc[w] = "legs"
    /\ IF leg[w] + 1 >= Legs[fastest[w].route]
       THEN pc' = [pc EXCEPT ![w] = "answer"] ELSE UNCHANGED pc
    /\ legs' = legs \cup {<<route[w], leg[w]>>}
    /\ leg' = [leg EXCEPT ![w] = @ + 1]
    /\ UNCHANGED <<world, cache, looked, rows, answers, request, route,
                   requests, routes>>

InsertLeg(w) ==
    /\ pc[w] = "legs"
    /\ IF leg[w] = Legs[fastest[w].route]
       THEN pc' = [pc EXCEPT ![w] = "answer"] ELSE UNCHANGED pc
    /\ legs' = legs \cup {<<route[w], leg[w]>>}
    /\ leg' = [leg EXCEPT ![w] = @ + 1]
    /\ UNCHANGED <<world, cache, looked, rows, answers, request, route,
                   requests, routes>>

\* The thread is free again.
Finish(w) ==
    /\ pc' = [pc EXCEPT ![w] = "idle"]
    /\ looked' = [looked EXCEPT ![w] = 0]
    /\ rows' = [rows EXCEPT ![w] = None]
    /\ fastest' = [fastest EXCEPT ![w] = None]
    /\ shortest' = [shortest EXCEPT ![w] = None]
    /\ request' = [request EXCEPT ![w] = 0]
    /\ route' = [route EXCEPT ![w] = 0]
    /\ leg' = [leg EXCEPT ![w] = 1]
    /\ UNCHANGED <<world, cache, tables>>

Answered(w) == pc[w] = "answer" /\ Finish(w)

\* No route, an unknown place, or a lost connection.  Rows stay.
Fail(w) == pc[w] \notin {"idle", "answer"} /\ Finish(w)
-----------------------------------------------------------------------------

\* The analyzer has new averages.
TrafficChanges ==
    /\ live' \in Traffic
    /\ UNCHANGED <<now, served, cache, pc, looked, rows, answers, keys,
                   tables>>

Tick ==
    /\ now < MaxTime
    /\ now' = now + 1
    /\ UNCHANGED <<live, served, cache, pc, looked, rows, answers, keys,
                   tables>>

Step(w) ==
    \/ Look(w) \/ Load(w) \/ Store(w) \/ FindFastest(w) \/ FindShortest(w)
    \/ InsertRequest(w) \/ InsertRoute(w) \/ InsertLeg(w) \/ Answered(w)
    \/ Fail(w)

Next == (\E w \in Workers : Step(w)) \/ TrafficChanges \/ Tick

Spec == Init /\ [][Next]_vars
-----------------------------------------------------------------------------
(* Properties.                                                             *)

TypeOK ==
    /\ now \in Nat
    /\ served \in Nat
    /\ live \in Traffic
    /\ cache \in Graph
    /\ pc \in [Workers -> {"idle", "load", "store", "fastest", "shortest",
                           "request", "route", "legs", "answer"}]
    /\ looked \in [Workers -> Nat]
    /\ rows \in [Workers -> Graph \cup {None}]
    /\ fastest \in [Workers -> Result \cup {None}]
    /\ shortest \in [Workers -> Result \cup {None}]
    /\ request \in [Workers -> Nat] /\ route \in [Workers -> Nat]
    /\ leg \in [Workers -> Nat \ {0}]
    /\ requests \subseteq Nat
    /\ routes \subseteq [id : Nat, request : Nat, via : Routes]
    /\ legs \subseteq Nat \X (Nat \ {0})

\* A request that takes the cached graph takes rows read less than the TTL
\* ago, although loads may be slow and finish in any order
\* (route_optimizer.py:26-28, 59-60).
HitsAreYoung ==
    [][\A w \in Workers :
          (pc[w] = "idle" /\ pc'[w] = "fastest") => now - cache.read < TTL]_vars

\* A request that was answered has stored its route completely: the request's
\* row, the route's row and every segment in its place (routing.py:28-52).
AnsweredIsStored ==
    \A w \in Workers : pc[w] = "answer" =>
        /\ \E row \in routes : /\ row.id = route[w]
                               /\ row.request \in requests
                               /\ row.via = fastest[w].route
        /\ {l[2] : l \in {x \in legs : x[1] = route[w]}}
              = 1..Legs[fastest[w].route]

\* The comparison of an answer proves "choose the fastest, not the shortest"
\* in one number, and the dashboard says that the fastest route saves so many
\* minutes (README.md:126-130, app.js:275, routing.py:67).
SavedMinNotNegative ==
    \A w \in Workers : pc[w] = "answer" => SavedMin(w) >= 0

\* When both searches of an answer ran on one graph, the time it claims to save
\* is below zero by no more than the roundings: half a hundredth for the total
\* of the one and for each segment of the other (route_optimizer.py:134-135).
SavedMinIsClose ==
    \A w \in Workers :
        (pc[w] = "answer" /\ fastest[w].graph = shortest[w].graph)
            => 2 * SavedMin(w) >= -(Legs[shortest[w].route] + 1)
=============================================================================
