-------------------------- MODULE RouteGraphProofs --------------------------
(***************************************************************************)
(* Proofs about RouteGraph: types, the age of a cached graph, what the     *)
(* roundings do to the comparison of the routes, the rows of an answer.    *)
(***************************************************************************)
EXTENDS RouteGraph, Lemmas, FiniteSetTheorems

\* The types without those of the rows that a request stores.
SearchTypes ==
    /\ now \in Nat /\ served \in Nat
    /\ live \in Traffic
    /\ cache \in Graph
    /\ pc \in [Workers -> {"idle", "load", "store", "fastest", "shortest",
                           "request", "route", "legs", "answer"}]
    /\ looked \in [Workers -> Nat]
    /\ rows \in [Workers -> Graph \cup {None}]
    /\ fastest \in [Workers -> Result \cup {None}]
    /\ shortest \in [Workers -> Result \cup {None}]

\* Those types; ids are given out by counting rows.
StoreTypes ==
    /\ request \in [Workers -> Nat] /\ route \in [Workers -> Nat]
    /\ leg \in [Workers -> Nat \ {0}]
    /\ requests \subseteq Nat /\ IsFiniteSet(requests)
    /\ routes \subseteq [id : Nat, request : Nat, via : Routes]
    /\ IsFiniteSet(routes)
    /\ legs \subseteq Nat \X (Nat \ {0})

\* A graph is stamped with a time before its rows are read, and a worker that
\* is to store one has it.
Stamped ==
    /\ cache.at <= cache.read
    /\ \A w \in Workers :
          /\ looked[w] <= now
          /\ pc[w] = "store" =>
                rows[w] \in Graph /\ rows[w].at <= rows[w].read

HasFastest == {"shortest", "request", "route", "legs", "answer"}
HasShortest == HasFastest \ {"shortest"}

\* What a search leaves behind is the best on the graph it ran on.
Best ==
    \A w \in Workers :
        /\ pc[w] \in HasFastest =>
              /\ fastest[w] \in Result
              /\ Least(Minutes(fastest[w].graph.times), fastest[w].route)
        /\ pc[w] \in HasShortest =>
              /\ shortest[w] \in Result
              /\ Least(Km, shortest[w].route)

Inv == SearchTypes /\ StoreTypes /\ Stamped /\ Best

\* The cache begins empty, with no request under way.
LEMMA InitInv == Init => Inv
<1> SUFFICES ASSUME Init PROVE Inv
  OBVIOUS
<1> USE RouteAssumption
<1>1. SearchTypes
  BY DEF Init, SearchTypes, Graph
<1>2. Stamped
  BY DEF Init, Stamped
<1>4. StoreTypes
  BY FS_EmptySet DEF Init, StoreTypes
<1>3. Best
  BY DEF Init, Best, HasFastest, HasShortest
<1>. QED
  BY <1>1, <1>2, <1>3, <1>4 DEF Inv

\* The steps of a request that leave graphs, searches and time alone.
LEMMA StoringInv ==
    ASSUME Inv, NEW w \in Workers,
           InsertRequest(w) \/ InsertRoute(w) \/ InsertLeg(w)
    PROVE  Inv'
<1> USE DEF Inv
<1>1. /\ UNCHANGED <<world, cache, looked, rows, answers>>
      /\ \E to \in {"route", "legs", "answer"} :
            \/ pc' = [pc EXCEPT ![w] = to]
            \/ UNCHANGED pc
      /\ pc[w] \in HasShortest
  BY DEF InsertRequest, InsertRoute, InsertLeg, Go, HasShortest, HasFastest
<1>2. StoreTypes'
  <2>1. CASE InsertRequest(w)
    <3>1. Cardinality(requests) \in Nat
      BY FS_CardinalityType DEF StoreTypes
    <3>2. IsFiniteSet(requests')
      BY <2>1, FS_AddElement DEF InsertRequest, StoreTypes
    <3>3. /\ requests' \subseteq Nat
          /\ request' \in [Workers -> Nat]
          /\ UNCHANGED <<route, leg, routes, legs>>
      <4>1. Cardinality(requests) + 1 \in Nat
        BY <3>1
      <4>2. requests' \subseteq Nat
        BY <2>1, <4>1 DEF InsertRequest, StoreTypes
      <4>3. request' \in [Workers -> Nat]
        BY <2>1, <4>1 DEF InsertRequest, StoreTypes
      <4>4. UNCHANGED <<route, leg, routes, legs>>
        BY <2>1 DEF InsertRequest
      <4>. QED
        BY <4>2, <4>3, <4>4
    <3>. QED
      BY <3>2, <3>3 DEF StoreTypes
  <2>2. CASE InsertRoute(w)
    <3>1. Cardinality(routes) \in Nat
      BY FS_CardinalityType DEF StoreTypes
    <3>2. IsFiniteSet(routes')
      BY <2>2, FS_AddElement DEF InsertRoute, StoreTypes
    <3>3. fastest[w].route \in Routes
      BY <2>2 DEF InsertRoute, Go, Best, HasFastest, Result
    <3>. QED
      BY <2>2, <3>1, <3>2, <3>3 DEF InsertRoute, StoreTypes
  <2>3. CASE InsertLeg(w)
    BY <2>3 DEF InsertLeg, StoreTypes
  <2>. QED
    BY <2>1, <2>2, <2>3
<1>3. /\ pc'[w] \in {"route", "legs", "answer"}
      /\ \A v \in Workers \ {w} : pc'[v] = pc[v]
      /\ UNCHANGED <<now, live, served, cache, looked, rows, fastest, shortest>>
  BY <1>1 DEF SearchTypes, world, answers, InsertRequest, InsertRoute,
              InsertLeg, Go
<1>4. SearchTypes'
  BY <1>1, <1>3 DEF SearchTypes
<1>5. Stamped'
  BY <1>3 DEF Stamped
<1>6. Best'
  BY <1>1, <1>3 DEF Best, HasShortest, HasFastest
<1>. QED
  BY <1>2, <1>4, <1>5, <1>6

\* Each statement of a request keeps the invariant.
LEMMA StepInv ==
    ASSUME Inv, NEW w \in Workers, Step(w)
    PROVE  Inv'
<1> USE DEF Inv
<1>0. ASSUME UNCHANGED <<keys, tables>> PROVE StoreTypes'
  BY <1>0 DEF StoreTypes, keys, tables
<1>1. CASE Look(w)
  BY <1>0, <1>1 DEF Look, Go, SearchTypes, Stamped, Best, HasShortest,
                    HasFastest, answers
<1>2. CASE Load(w)
  <2>1. rows'[w] \in Graph /\ rows'[w].at <= rows'[w].read
    BY <1>2 DEF Load, SearchTypes, Stamped, Graph
  <2>2. SearchTypes'
    BY <1>2, <2>1 DEF Load, Go, SearchTypes, world, answers
  <2>3. Stamped'
    BY <1>2, <2>1 DEF Load, Go, SearchTypes, Stamped, world
  <2>4. Best'
    BY <1>2 DEF Load, Go, SearchTypes, Best, HasShortest, HasFastest, answers
  <2>. QED
    BY <1>0, <1>2, <2>2, <2>3, <2>4 DEF Load
<1>3. CASE Store(w)
  BY <1>0, <1>3 DEF Store, Go, SearchTypes, Stamped, Best, HasShortest,
                    HasFastest, world, answers
<1>4. CASE FindFastest(w)
  <2>1. PICK r \in Routes : /\ Least(Minutes(cache.times), r)
                            /\ fastest' = [fastest EXCEPT ![w] = Found(r)]
    BY <1>4 DEF FindFastest
  <2>2. Found(r) \in Result /\ Found(r).route = r /\ Found(r).graph = cache
    BY DEF Found, Result, SearchTypes
  <2>3. SearchTypes'
    BY <1>4, <2>1, <2>2 DEF FindFastest, Go, SearchTypes, world
  <2>4. Stamped'
    BY <1>4 DEF FindFastest, Go, SearchTypes, Stamped, world
  <2>5. Best'
    BY <1>4, <2>1, <2>2 DEF FindFastest, Go, SearchTypes, Best, HasShortest,
                            HasFastest
  <2>. QED
    BY <1>0, <1>4, <2>3, <2>4, <2>5 DEF FindFastest
<1>5. CASE FindShortest(w)
  <2>1. PICK r \in Routes : /\ Least(Km, r)
                            /\ shortest' = [shortest EXCEPT ![w] = Found(r)]
    BY <1>5 DEF FindShortest
  <2>2. Found(r) \in Result /\ Found(r).route = r
    BY DEF Found, Result, SearchTypes
  <2>3. SearchTypes'
    BY <1>5, <2>1, <2>2 DEF FindShortest, Go, SearchTypes, world
  <2>4. Stamped'
    BY <1>5 DEF FindShortest, Go, SearchTypes, Stamped, world
  <2>5. Best'
    BY <1>5, <2>1, <2>2 DEF FindShortest, Go, SearchTypes, Best, HasShortest,
                            HasFastest
  <2>. QED
    BY <1>0, <1>5, <2>3, <2>4, <2>5 DEF FindShortest
<1>6. CASE InsertRequest(w) \/ InsertRoute(w) \/ InsertLeg(w)
  BY <1>6, StoringInv
<1>7. CASE Answered(w) \/ Fail(w)
  <2>1. Finish(w)
    BY <1>7 DEF Answered, Fail
  <2>2. StoreTypes'
    BY <2>1 DEF Finish, StoreTypes, tables
  <2>. QED
    BY <2>1, <2>2 DEF Finish, SearchTypes, Stamped, Best, HasShortest,
                      HasFastest, world
<1>. QED
  BY <1>1, <1>2, <1>3, <1>4, <1>5, <1>6, <1>7 DEF Step

\* So does every step.
LEMMA NextInv == Inv /\ [Next]_vars => Inv'
<1> SUFFICES ASSUME Inv, [Next]_vars PROVE Inv'
  OBVIOUS
<1>0. ASSUME UNCHANGED <<keys, tables>> PROVE StoreTypes'
  BY <1>0 DEF Inv, StoreTypes, keys, tables
<1>1. CASE \E w \in Workers : Step(w)
  BY <1>1, StepInv
<1>2. CASE TrafficChanges
  BY <1>0, <1>2 DEF TrafficChanges, Inv, SearchTypes, Stamped, Best, answers
<1>3. CASE Tick
  BY <1>0, <1>3 DEF Tick, Inv, SearchTypes, Stamped, Best, answers
<1>4. CASE UNCHANGED vars
  BY <1>0, <1>4 DEF vars, Inv, SearchTypes, Stamped, Best, world, answers
<1>. QED
  BY <1>1, <1>2, <1>3, <1>4 DEF Next

\* It holds in every reachable state.
LEMMA AlwaysInv == Spec => []Inv
PROOF BY InitInv, NextInv, PTL DEF Spec

\* The types hold in every reachable state.
THEOREM TypeCorrect == Spec => []TypeOK
<1>1. Inv => TypeOK
  BY DEF Inv, SearchTypes, StoreTypes, TypeOK
<1>. QED
  BY <1>1, AlwaysInv, PTL

\* A request that takes the cached graph takes rows read less than the TTL
\* ago, however slow and in whatever order the loads of other requests finish
\* (route_optimizer.py:26-28, 59-60).
THEOREM CachedIsYoung == Spec => HitsAreYoung
<1>1. ASSUME Inv, [Next]_vars, NEW w \in Workers,
             pc[w] = "idle", pc'[w] = "fastest"
      PROVE  now - cache.read < TTL
  <2>1. CASE \E v \in Workers : Step(v)
    <3>1. PICK v \in Workers : Step(v)
      BY <2>1
    <3>2. pc[v] = "idle"
      BY <1>1, <3>1 DEF Inv, SearchTypes, Step, Look, Load, Store, FindFastest,
        FindShortest, InsertRequest, InsertRoute, InsertLeg, Answered, Fail,
        Finish, Go
    <3>3. Look(v) /\ now - cache.at < TTL
      BY <1>1, <3>1, <3>2 DEF Inv, SearchTypes, Step, Look, Load, Store,
        FindFastest, FindShortest, InsertRequest, InsertRoute, InsertLeg,
        Answered, Fail, Finish, Go
    <3>. QED
      BY <1>1, <3>3, RouteAssumption DEF Inv, SearchTypes, Stamped, Graph
  <2>2. CASE TrafficChanges \/ Tick \/ UNCHANGED vars
    BY <1>1, <2>2 DEF TrafficChanges, Tick, vars
  <2>. QED
    BY <1>1, <2>1, <2>2 DEF Next
<1>2. Inv /\ [Next]_vars =>
        [\A w \in Workers :
            (pc[w] = "idle" /\ pc'[w] = "fastest")
                => now - cache.read < TTL]_vars
  BY <1>1
<1>. QED
  BY <1>2, AlwaysInv, PTL DEF Spec, HitsAreYoung

-----------------------------------------------------------------------------
(* The roundings.                                                          *)

\* The sum of the first i elements of q is sum[i].
Sums(q, sum) ==
    /\ sum \in [0..Len(q) -> Nat] /\ sum[0] = 0
    /\ \A i \in 1..Len(q) : sum[i] = sum[i - 1] + q[i]

\* Total adds up.
LEMMA TotalSums ==
    ASSUME NEW q \in Seq(Nat)
    PROVE  \E sum : Sums(q, sum) /\ Total(q) = sum[Len(q)]
<1>. DEFINE n == Len(q)
            step == [x \in (1..n) \X Nat |-> x[2] + q[x[1]]]
            def(f) == f = [i \in 0..n |->
                              IF i = 0 THEN 0 ELSE f[i - 1] + q[i]]
<1>1. n \in Nat /\ \A i \in 1..n : q[i] \in Nat
  OBVIOUS
<1>2. \A i \in 1..n : \A d \in Nat : step[<<i, d>>] = d + q[i]
  OBVIOUS
<1>. HIDE DEF step
<1>3. StaysIn(n, step, Nat)
  <2>1. ASSUME NEW i \in 1..n, NEW d \in Nat PROVE step[<<i, d>>] \in Nat
    BY <1>1, <1>2
  <2>. QED
    BY <2>1 DEF StaysIn
<1>4. PICK g : Run(n, 0, step, Nat, g)
  BY <1>1, <1>3, RunExists
<1>. HIDE DEF n
<1>5. /\ g \in [0..n -> Nat] /\ g[0] = 0
      /\ \A i \in 1..n : g[i] = g[i - 1] + q[i]
  <2>1. \A i \in 1..n : i - 1 \in 0..n
    BY <1>1
  <2>. QED
    BY <1>2, <1>4, <2>1 DEF Run
<1>6. def(g)
  <2>1. \A i \in 0..n : i = 0 \/ i \in 1..n
    BY <1>1
  <2>. QED
    BY <1>5, <2>1
<1>7. ASSUME NEW f, def(f) PROVE f = g
  <2>. DEFINE T == {i \in 0..n : f[i] = g[i]}
  <2>1. 0 \in 0..n /\ \A i \in 1..n : i \in 0..n /\ i - 1 \in 0..n /\ i # 0
    BY <1>1
  <2>2. f[0] = 0 /\ \A i \in 1..n : f[i] = f[i - 1] + q[i]
    BY <1>7, <2>1
  <2>3. 0 \in T /\ \A i \in 1..n : i - 1 \in T => i \in T
    BY <1>5, <2>1, <2>2
  <2>4. \A i \in 0..n : i \in T
    <3>. HIDE DEF T
    <3>. QED
      BY <1>1, <2>3, InductTo
  <2>5. \A i \in 0..n : f[i] = g[i]
    BY <2>4
  <2>. QED
    BY <1>5, <1>7, <2>5
<1>8. Total(q) = g[n]
  <2>. DEFINE sum == CHOOSE f : def(f)
  <2>1. Total(q) = sum[n]
    BY DEF Total, n
  <2>2. def(sum)
    <3>. HIDE DEF def
    <3>. QED
      BY <1>6
  <2>. HIDE DEF sum, def
  <2>3. sum = g
    BY <1>7, <2>2
  <2>. QED
    BY <2>1, <2>3
<1>. QED
  BY <1>5, <1>8 DEF Sums, n

\* A rounding changes a time by half a hundredth of a minute at most.
LEMMA RoundedIsNear ==
    ASSUME NEW x \in Nat
    PROVE  /\ Rounded(x) \in Nat
           /\ x - 5 <= 10 * Rounded(x) /\ 10 * Rounded(x) <= x + 5
BY DEF Rounded

\* So the sum of n rounded times is at most n halves below their sum.
LEMMA RoundedLegsAreNear ==
    ASSUME NEW q \in Seq(Nat)
    PROVE  LET each == Total([i \in DOMAIN q |-> Rounded(q[i])])
           IN  /\ Total(q) \in Nat /\ each \in Nat
               /\ Total(q) - 5 * Len(q) <= 10 * each
<1>. DEFINE r == [i \in DOMAIN q |-> Rounded(q[i])]
            n == Len(q)
<1>1. n \in Nat /\ \A i \in 1..n : q[i] \in Nat
  OBVIOUS
<1>2. r \in Seq(Nat) /\ Len(r) = n
      /\ \A i \in 1..n : r[i] = Rounded(q[i])
  <2>1. DOMAIN q = 1..n
    OBVIOUS
  <2>2. \A i \in 1..n : r[i] = Rounded(q[i]) /\ Rounded(q[i]) \in Nat
    BY <1>1, <2>1, RoundedIsNear
  <2>3. r \in [1..n -> Nat]
    <3>. HIDE DEF n
    <3>. QED
      BY <2>1, <2>2
  <2>. HIDE DEF r, n
  <2>. QED
    BY <1>1, <2>2, <2>3
<1>3. \A i \in 1..n : r[i] \in Nat /\ q[i] - 5 <= 10 * r[i]
  BY <1>1, <1>2, RoundedIsNear
<1>. HIDE DEF r, n
<1>4. PICK f : Sums(q, f) /\ Total(q) = f[n]
  BY TotalSums DEF n
<1>5. PICK g : Sums(r, g) /\ Total(r) = g[n]
  BY <1>2, TotalSums
<1>6. /\ f \in [0..n -> Nat] /\ f[0] = 0 /\ g \in [0..n -> Nat] /\ g[0] = 0
      /\ \A i \in 1..n : f[i] = f[i - 1] + q[i] /\ g[i] = g[i - 1] + r[i]
  BY <1>2, <1>4, <1>5 DEF Sums, n
<1>. DEFINE T == {i \in 0..n : f[i] - 5 * i <= 10 * g[i]}
<1>7. 0 \in T
  BY <1>1, <1>6
<1>8. \A i \in 1..n : i - 1 \in T => i \in T
  <2>. SUFFICES ASSUME NEW i \in 1..n, i - 1 \in T PROVE i \in T
    OBVIOUS
  <2>1. i \in 0..n /\ i - 1 \in 0..n
    BY <1>1
  <2>. DEFINE a == f[i - 1]
              b == g[i - 1]
  <2>2. /\ a \in Nat /\ b \in Nat /\ a - 5 * (i - 1) <= 10 * b
        /\ f[i] = a + q[i] /\ g[i] = b + r[i]
    BY <1>6, <2>1
  <2>3. q[i] \in Nat /\ r[i] \in Nat /\ q[i] - 5 <= 10 * r[i]
    BY <1>1, <1>3
  <2>. DEFINE c == q[i]
              d == r[i]
  <2>4. c \in Nat /\ d \in Nat /\ c - 5 <= 10 * d /\ i \in Nat
    BY <1>1, <2>3
  <2>. HIDE DEF a, b, c, d
  <2>5. (a + c) - 5 * i <= 10 * (b + d)
    BY <2>2, <2>4
  <2>6. f[i] - 5 * i <= 10 * g[i]
    BY <2>2, <2>5 DEF c, d
  <2>. QED
    BY <2>1, <2>6
<1>9. \A i \in 0..n : i \in T
  <2>. HIDE DEF T
  <2>. QED
    BY <1>1, <1>7, <1>8, InductTo
<1>10. n \in 0..n /\ f[n] \in Nat /\ g[n] \in Nat
  BY <1>1, <1>6
<1>11. f[n] - 5 * n <= 10 * g[n]
  BY <1>9, <1>10
<1>. QED
  BY <1>4, <1>5, <1>10, <1>11 DEF r, n

\* When both searches of an answer ran on one graph, the minutes that it claims
\* to save are below zero by no more than the roundings of both figures, half a
\* hundredth each, on every network (route_optimizer.py:134-135).
THEOREM RoundingsBoundTheLoss == Spec => []SavedMinIsClose
<1>1. ASSUME Inv PROVE SavedMinIsClose
  <2>. SUFFICES ASSUME NEW w \in Workers, pc[w] = "answer",
                       fastest[w].graph = shortest[w].graph
                PROVE  2 * SavedMin(w) >= -(Legs[shortest[w].route] + 1)
    BY DEF SavedMinIsClose
  <2>. DEFINE times == shortest[w].graph.times
              one == times[fastest[w].route]
              other == times[shortest[w].route]
              n == Legs[shortest[w].route]
  <2>1. /\ fastest[w] \in Result /\ shortest[w] \in Result
        /\ Least(Minutes(times), fastest[w].route)
    BY <1>1 DEF Inv, Best, HasFastest, HasShortest
  <2>2. /\ fastest[w].route \in Routes /\ shortest[w].route \in Routes
        /\ times \in Traffic
    BY <2>1 DEF Result, Graph
  <2>3. /\ one \in Seq(Nat) /\ other \in Seq(Nat) /\ Len(other) = n
        /\ n \in Nat
    BY <2>2, RouteAssumption
  <2>4. Total(one) <= Total(other)
    BY <2>1, <2>2 DEF Least, Minutes
  <2>. DEFINE eta == Eta(fastest[w])
              byLegs == EtaByLegs(shortest[w])
  <2>5. /\ eta = Rounded(Total(one))
        /\ byLegs = Total([i \in DOMAIN other |-> Rounded(other[i])])
    BY DEF Eta, EtaByLegs, TimesOf
  <2>. HIDE DEF one, other, n, eta, byLegs
  <2>6. /\ Total(one) \in Nat /\ Total(other) \in Nat /\ byLegs \in Nat
        /\ Total(other) - 5 * n <= 10 * byLegs
    BY <2>3, <2>5, RoundedLegsAreNear
  <2>7. eta \in Nat /\ 10 * eta <= Total(one) + 5
    BY <2>5, <2>6, RoundedIsNear
  <2>8. 2 * (byLegs - eta) >= -(n + 1)
    BY <2>3, <2>4, <2>6, <2>7
  <2>. QED
    BY <2>8 DEF SavedMin, eta, byLegs, n
<1>. QED
  BY <1>1, AlwaysInv, PTL
-----------------------------------------------------------------------------
(* The rows of an answer.  Ids grow with their tables, so no row and no    *)
(* other request has the id that an INSERT returns.                        *)

Storing == {"legs", "answer"}

\* The numbers that the segments of a route have.
Numbered(id) == {l[2] : l \in {x \in legs : x[1] = id}}

\* No id is greater than the number of rows.
IdsFollowRows ==
    /\ \A row \in routes : row.id <= Cardinality(routes)
    /\ \A l \in legs : l[1] <= Cardinality(routes)
    /\ \A w \in Workers : pc[w] \in Storing => route[w] <= Cardinality(routes)

\* Requests that store their segments have routes of their own.
OwnRoutes ==
    \A v, w \in Workers :
        (v # w /\ pc[v] \in Storing /\ pc[w] \in Storing)
            => route[v] # route[w]

\* Of the row of its route, and the segments so far.
StoredSoFar ==
    \A w \in Workers :
        /\ pc[w] = "route" => request[w] \in requests
        /\ pc[w] \in Storing =>
              \E row \in routes : /\ row.id = route[w]
                                  /\ row.request \in requests
                                  /\ row.via = fastest[w].route
        /\ pc[w] = "legs" =>
              /\ leg[w] <= Legs[fastest[w].route]
              /\ Numbered(route[w]) = 1..leg[w] - 1
        /\ pc[w] = "answer" =>
              Numbered(route[w]) = 1..Legs[fastest[w].route]

RowsInv == IdsFollowRows /\ OwnRoutes /\ StoredSoFar

\* Steps that insert nothing leave it true.
LEMMA QuietRows ==
    ASSUME Inv, RowsInv, UNCHANGED tables,
           \A v \in Workers :
              \/ pc'[v] \notin Storing \cup {"route"}
              \/ /\ pc'[v] = pc[v] /\ request'[v] = request[v]
                 /\ route'[v] = route[v] /\ leg'[v] = leg[v]
                 /\ fastest'[v] = fastest[v]
    PROVE  RowsInv'
<1>1. IdsFollowRows'
  BY DEF RowsInv, IdsFollowRows, tables
<1>2. OwnRoutes'
  BY DEF RowsInv, OwnRoutes
<1>3. StoredSoFar'
  BY DEF RowsInv, StoredSoFar, Storing, Numbered, tables
<1>. QED
  BY <1>1, <1>2, <1>3 DEF RowsInv

\* A request that has its own row has no route yet.
LEMMA InsertRequestRows ==
    ASSUME Inv, RowsInv, NEW w \in Workers, InsertRequest(w)
    PROVE  RowsInv'
<1>1. /\ requests \subseteq requests' /\ UNCHANGED <<routes, legs, route, leg>>
      /\ request'[w] \in requests' /\ fastest' = fastest
      /\ pc' = [pc EXCEPT ![w] = "route"]
      /\ \A v \in Workers \ {w} : request'[v] = request[v]
  BY DEF InsertRequest, Go, Inv, StoreTypes, answers
<1>2. /\ pc'[w] = "route"
      /\ \A v \in Workers \ {w} : pc'[v] = pc[v]
  BY <1>1 DEF Inv, SearchTypes
<1>3. IdsFollowRows' /\ OwnRoutes'
  BY <1>1, <1>2 DEF RowsInv, IdsFollowRows, OwnRoutes, Storing
<1>4. StoredSoFar'
  BY <1>1, <1>2 DEF RowsInv, StoredSoFar, Storing, Numbered
<1>. QED
  BY <1>3, <1>4 DEF RowsInv

\* The id of a new route is greater than all others.
LEMMA InsertRouteRows ==
    ASSUME Inv, RowsInv, NEW w \in Workers, InsertRoute(w)
    PROVE  RowsInv'
<1>. DEFINE n == Cardinality(routes)
            new == [id |-> n + 1, request |-> request[w],
                    via |-> fastest[w].route]
<1>1. n \in Nat
  BY FS_CardinalityType DEF Inv, StoreTypes
<1>2. /\ routes' = routes \cup {new} /\ UNCHANGED <<requests, legs, request>>
      /\ fastest' = fastest /\ pc[w] = "route"
      /\ pc' = [pc EXCEPT ![w] = "legs"]
      /\ route' = [route EXCEPT ![w] = n + 1] /\ leg' = [leg EXCEPT ![w] = 1]
  BY DEF InsertRoute, Go, answers
<1>3. new.id = n + 1 /\ new.request = request[w]
      /\ new.via = fastest[w].route
  OBVIOUS
<1>. HIDE DEF new
<1>4. /\ \A row \in routes : row.id \in Nat /\ row.id <= n
      /\ \A l \in legs : l[1] \in Nat /\ l[1] <= n
      /\ \A v \in Workers : route[v] \in Nat
      /\ \A v \in Workers : pc[v] \in Storing => route[v] <= n
  BY DEF Inv, StoreTypes, RowsInv, IdsFollowRows
<1>5. Cardinality(routes') = n + 1
  <2>1. new \notin routes
    BY <1>1, <1>3, <1>4
  <2>2. Cardinality(routes \cup {new}) = Cardinality(routes) + 1
    BY <2>1, FS_AddElement DEF Inv, StoreTypes
  <2>. QED
    BY <1>2, <2>2
<1>6. /\ pc'[w] = "legs" /\ route'[w] = n + 1 /\ leg'[w] = 1
      /\ \A v \in Workers \ {w} :
            pc'[v] = pc[v] /\ route'[v] = route[v] /\ leg'[v] = leg[v]
  BY <1>2 DEF Inv, SearchTypes, StoreTypes
<1>. HIDE DEF n
<1>7. IdsFollowRows'
  <2>1. \A row \in routes' : row.id <= n + 1
    BY <1>1, <1>2, <1>3, <1>4
  <2>2. \A l \in legs' : l[1] <= n + 1
    BY <1>1, <1>2, <1>4
  <2>3. \A v \in Workers : pc'[v] \in Storing => route'[v] <= n + 1
    BY <1>1, <1>4, <1>6
  <2>. QED
    BY <1>5, <2>1, <2>2, <2>3 DEF IdsFollowRows
<1>8. OwnRoutes'
  BY <1>1, <1>4, <1>6 DEF RowsInv, OwnRoutes
<1>9. StoredSoFar'
  <2>1. ASSUME NEW v \in Workers \ {w}
        PROVE  Numbered(route[v])' = Numbered(route[v])
    BY <1>2, <1>6 DEF Numbered
  <2>2. Numbered(n + 1) = {}
    BY <1>1, <1>4 DEF Numbered
  <2>3. Numbered(route[w])' = {}
    BY <1>2, <1>6, <2>2 DEF Numbered
  <2>4. /\ fastest[w].route \in Routes
        /\ request[w] \in requests
    BY <1>2 DEF Inv, Best, HasFastest, Result, RowsInv, StoredSoFar
  <2>5. 1 <= Legs[fastest[w].route] /\ 1..(1 - 1) = {}
    BY <2>4, RouteAssumption
  <2>6. /\ new \in routes' /\ new.id = route'[w]
        /\ new.request \in requests' /\ new.via = fastest'[w].route
    BY <1>2, <1>3, <1>6, <2>4
  <2>7. ASSUME NEW v \in Workers \ {w}
        PROVE  /\ pc'[v] = "route" => request'[v] \in requests'
               /\ pc'[v] \in Storing =>
                     \E row \in routes' : /\ row.id = route'[v]
                                          /\ row.request \in requests'
                                          /\ row.via = fastest'[v].route
               /\ pc'[v] = "legs" =>
                     /\ leg'[v] <= Legs[fastest'[v].route]
                     /\ Numbered(route[v])' = 1..leg'[v] - 1
               /\ pc'[v] = "answer" =>
                     Numbered(route[v])' = 1..Legs[fastest'[v].route]
    BY <1>2, <1>6, <2>1 DEF RowsInv, StoredSoFar
  <2>8. /\ pc'[w] = "legs" /\ leg'[w] <= Legs[fastest'[w].route]
        /\ Numbered(route[w])' = 1..leg'[w] - 1
    BY <1>2, <1>6, <2>3, <2>5
  <2>. QED
    BY <2>6, <2>7, <2>8 DEF StoredSoFar
<1>. QED
  BY <1>7, <1>8, <1>9 DEF RowsInv

\* A new leg is the next one of its route, and of no other.
LEMMA InsertLegRows ==
    ASSUME Inv, RowsInv, NEW w \in Workers, InsertLeg(w)
    PROVE  RowsInv'
<1>. DEFINE last == Legs[fastest[w].route]
<1>1. /\ pc[w] = "legs" /\ legs' = legs \cup {<<route[w], leg[w]>>}
      /\ leg' = [leg EXCEPT ![w] = @ + 1]
      /\ fastest' = fastest
      /\ UNCHANGED <<requests, routes, request, route>>
      /\ pc' = IF leg[w] = last THEN [pc EXCEPT ![w] = "answer"] ELSE pc
  BY DEF InsertLeg, answers
<1>2. /\ pc'[w] = (IF leg[w] = last THEN "answer" ELSE "legs")
      /\ leg'[w] = leg[w] + 1
      /\ \A v \in Workers \ {w} : pc'[v] = pc[v] /\ leg'[v] = leg[v]
  BY <1>1 DEF Inv, SearchTypes, StoreTypes
<1>3. /\ leg[w] \in Nat \ {0} /\ last \in Nat \ {0} /\ leg[w] <= last
      /\ Numbered(route[w]) = 1..leg[w] - 1
      /\ route[w] <= Cardinality(routes)
  <2>1. fastest[w].route \in Routes
    BY <1>1 DEF Inv, Best, HasFastest, Result
  <2>. QED
    BY <1>1, <2>1, RouteAssumption
       DEF Inv, StoreTypes, RowsInv, StoredSoFar, IdsFollowRows, Storing
<1>4. \A v \in Workers \ {w} : pc'[v] \in Storing =>
          Numbered(route[v])' = Numbered(route[v])
  BY <1>1, <1>2 DEF RowsInv, OwnRoutes, Storing, Numbered
<1>5. Numbered(route[w])' = 1..leg[w]
  <2>1. {x \in legs' : x[1] = route[w]}
           = {x \in legs : x[1] = route[w]} \cup {<<route[w], leg[w]>>}
    BY <1>1
  <2>2. route'[w] = route[w] /\ <<route[w], leg[w]>>[2] = leg[w]
    BY <1>1
  <2>3. \A k \in Numbered(route[w])' : k \in Numbered(route[w]) \cup {leg[w]}
    BY <1>1, <2>1, <2>2 DEF Numbered
  <2>4. \A k \in Numbered(route[w]) : k \in Numbered(route[w])'
    BY <1>1, <2>1 DEF Numbered
  <2>5. leg[w] \in Numbered(route[w])'
    <3>1. <<route[w], leg[w]>> \in {x \in legs' : x[1] = route'[w]}
      BY <1>1, <2>1
    <3>. QED
      BY <1>1, <2>2, <3>1 DEF Numbered
  <2>6. Numbered(route[w])' = Numbered(route[w]) \cup {leg[w]}
    BY <2>3, <2>4, <2>5
  <2>7. (1..leg[w] - 1) \cup {leg[w]} = 1..leg[w]
    BY <1>3
  <2>. QED
    BY <1>3, <2>6, <2>7
<1>. HIDE DEF last
<1>6. IdsFollowRows'
  BY <1>1, <1>2, <1>3 DEF RowsInv, IdsFollowRows, Storing
<1>7. OwnRoutes'
  BY <1>1, <1>2 DEF RowsInv, OwnRoutes, Storing
<1>8. StoredSoFar'
  <2>1. ASSUME NEW v \in Workers \ {w}
        PROVE  /\ pc'[v] = "route" => request'[v] \in requests'
               /\ pc'[v] \in Storing =>
                     \E row \in routes' : /\ row.id = route'[v]
                                          /\ row.request \in requests'
                                          /\ row.via = fastest'[v].route
               /\ pc'[v] = "legs" =>
                     /\ leg'[v] <= Legs[fastest'[v].route]
                     /\ Numbered(route[v])' = 1..leg'[v] - 1
               /\ pc'[v] = "answer" =>
                     Numbered(route[v])' = 1..Legs[fastest'[v].route]
    BY <1>1, <1>2, <1>4, <2>1 DEF RowsInv, StoredSoFar, Storing
  <2>2. \E row \in routes' : /\ row.id = route'[w]
                             /\ row.request \in requests'
                             /\ row.via = fastest'[w].route
    BY <1>1 DEF RowsInv, StoredSoFar, Storing
  <2>3. pc'[w] = "legs" =>
            leg'[w] <= last /\ Numbered(route[w])' = 1..leg'[w] - 1
    BY <1>2, <1>3, <1>5
  <2>4. pc'[w] = "answer" => Numbered(route[w])' = 1..last
    BY <1>2, <1>5
  <2>. QED
    BY <1>1, <1>2, <2>1, <2>2, <2>3, <2>4 DEF StoredSoFar, last
<1>. QED
  BY <1>6, <1>7, <1>8 DEF RowsInv

\* Every step keeps the rows of the requests under way.
LEMMA NextRows ==
    ASSUME Inv, RowsInv, [Next]_vars
    PROVE  RowsInv'
<1>1. ASSUME NEW w \in Workers, Step(w)
      PROVE  RowsInv'
  <2>1. CASE \/ Look(w) \/ Load(w) \/ Store(w) \/ FindShortest(w)
             \/ FindFastest(w) \/ Answered(w) \/ Fail(w)
    <3>1. UNCHANGED tables
      BY <2>1 DEF Look, Load, Store, FindShortest, FindFastest, Answered, Fail,
                  Finish
    <3>2. pc'[w] \notin Storing \cup {"route"}
      BY <2>1 DEF Look, Load, Store, FindShortest, FindFastest, Answered, Fail,
                  Finish, Go, Storing, Inv, SearchTypes
    <3>3. \A v \in Workers \ {w} :
              /\ pc'[v] = pc[v] /\ request'[v] = request[v]
              /\ route'[v] = route[v] /\ leg'[v] = leg[v]
              /\ fastest'[v] = fastest[v]
      <4>1. CASE Look(w) \/ Load(w) \/ Store(w) \/ FindShortest(w)
        BY <4>1 DEF Look, Load, Store, FindShortest, Go, keys, answers, Inv,
                    SearchTypes
      <4>2. CASE FindFastest(w)
        BY <4>2 DEF FindFastest, Go, keys, Inv, SearchTypes
      <4>3. CASE Answered(w) \/ Fail(w)
        BY <4>3 DEF Answered, Fail, Finish, Inv, SearchTypes, StoreTypes
      <4>. QED
        BY <2>1, <4>1, <4>2, <4>3
    <3>. QED
      BY <3>1, <3>2, <3>3, QuietRows
  <2>. QED
    BY <1>1, <2>1, InsertRequestRows, InsertRouteRows, InsertLegRows DEF Step
<1>2. CASE TrafficChanges \/ Tick \/ UNCHANGED vars
  <2>1. UNCHANGED <<pc, keys, answers, tables>>
    BY <1>2 DEF TrafficChanges, Tick, vars
  <2>. QED
    BY <2>1, QuietRows DEF keys, answers
<1>. QED
  BY <1>1, <1>2 DEF Next

\* A request that is answered has its own row, its route's and one row for
\* every segment of the route (routing.py:28-52), however many requests store
\* theirs at the same time.
THEOREM AnswersAreStored == Spec => []AnsweredIsStored
<1>1. Init => RowsInv
  BY DEF Init, RowsInv, IdsFollowRows, OwnRoutes, StoredSoFar, Storing
<1>2. Inv /\ RowsInv /\ [Next]_vars => RowsInv'
  BY NextRows
<1>3. RowsInv => AnsweredIsStored
  BY DEF RowsInv, StoredSoFar, Storing, Numbered, AnsweredIsStored
<1>. QED
  BY <1>1, <1>2, <1>3, AlwaysInv, PTL DEF Spec
=============================================================================
