------------------------------ MODULE Dijkstra ------------------------------
(***************************************************************************)
(* One run of dijkstra (backend/services/route_optimizer.py): the loop     *)
(* over the heap, the relaxation of the segments at a node, and the walk   *)
(* back along prev.                                                        *)
(*                                                                         *)
(* A weight is a travel time or a distance, in units that make it a        *)
(* natural number; it is positive, as distance_km is (schema.sql:86).      *)
(***************************************************************************)
EXTENDS Walks

CONSTANTS
    Networks,    \* the ends of each segment, for each network considered
    Weights,     \* weights a segment may have
    Trips        \* pairs of source and target

ASSUME DijkstraAssumption ==
    /\ Nodes \subseteq Nat
    /\ IsFiniteSet(Nodes) /\ IsFiniteSet(Segments)
    /\ Networks \subseteq [Segments -> Nodes \X Nodes]
    /\ \A net \in Networks, s \in Segments : net[s][1] # net[s][2]
    /\ Weights \subseteq Nat \ {0}
    /\ Trips \subseteq Nodes \X Nodes
    /\ \A trip \in Trips : trip[1] # trip[2]

VARIABLES
    dist,       \* best distance found, for the nodes reached so far
    prev,       \* <<node, segment>> that each of them was reached by
    pq,         \* the heap: pairs of distance and node
    visited,
    here,       \* the node whose segments are being relaxed (u)
    todo,       \* its segments still to look at
    path,       \* segments from the walk back
    pc

graph == <<ends, weight, source, target>>
search == <<dist, prev, pq, visited, here, todo>>
vars == <<graph, search, path, pc>>

Init ==
    /\ ends \in Networks
    /\ weight \in [Segments -> Weights]
    /\ \E trip \in Trips : source = trip[1] /\ target = trip[2]
    /\ dist = [v \in {source} |-> 0]
    /\ prev = [v \in {} |-> <<>>]
    /\ pq = {<<0, source>>}
    /\ visited = {}
    /\ here = source /\ todo = {}
    /\ path = <<>>
    /\ pc = "begin"

\* Streets are two-way: a segment is at both its ends.
At(u) == {s \in Segments : u \in {ends[s][1], ends[s][2]}}

OtherEnd(s, u) == IF ends[s][1] = u THEN ends[s][2] ELSE ends[s][1]

\* The order of the heap's tuples.
Before(p, q) == p[1] < q[1] \/ (p[1] = q[1] /\ p[2] <= q[2])

Set(f, v, x) == [y \in DOMAIN f \cup {v} |-> IF y = v THEN x ELSE f[y]]

Begin ==
    /\ pc = "begin"
    /\ pc' = IF At(source) = {} \/ At(target) = {} THEN "none" ELSE "pop"
    /\ UNCHANGED <<graph, search, path>>

\* Mutant: any entry of the heap comes out.
AnyEntry == pq

Smallest == {top \in pq : \A q \in pq : Before(top, q)}

\* Mutant: the entry stays on the heap.
NothingPopped(top) == pq

Popped(top) == pq \ {top}

\* The smallest entry; a node visited before is skipped, and the target ends
\* the loop.
Pop ==
    /\ pc = "pop" /\ todo = {}
    /\ \E top \in Smallest :
          /\ pq' = Popped(top)
          /\ IF top[2] \in visited
             THEN UNCHANGED <<visited, here, todo, pc>>
             ELSE /\ visited' = visited \cup {top[2]}
                  /\ here' = top[2]
                  /\ IF top[2] = target
                     THEN pc' = "back" /\ todo' = {}
                     ELSE pc' = "pop" /\ todo' = At(top[2])
    /\ UNCHANGED <<graph, dist, prev, path>>

\* Mutant: the way back is overwritten by every segment looked at.
WayOfLast(v, s, better) ==
    IF v \in visited THEN prev ELSE Set(prev, v, <<here, s>>)

Way(v, s, better) == IF better THEN Set(prev, v, <<here, s>>) ELSE prev

\* One segment of the inner loop; the rows, and so adj, come in any order.
Relax ==
    /\ pc = "pop"
    /\ \E s \in todo :
          LET v == OtherEnd(s, here)
              nd == dist[here] + weight[s]
              better == v \notin DOMAIN dist \/ nd < dist[v]
          IN /\ todo' = todo \ {s}
             /\ dist' = IF better THEN Set(dist, v, nd) ELSE dist
             /\ prev' = Way(v, s, better)
             /\ pq' = IF better THEN pq \cup {<<nd, v>>} ELSE pq
    /\ UNCHANGED <<graph, visited, here, path, pc>>

\* The heap is empty: there is a route if the target was reached.
Exhausted ==
    /\ pc = "pop" /\ todo = {} /\ pq = {}
    /\ pc' = IF target \in DOMAIN dist THEN "back" ELSE "none"
    /\ here' = target
    /\ UNCHANGED <<graph, dist, prev, pq, visited, todo, path>>

\* A step of the walk back; the code appends and reverses at the end.
Back ==
    /\ pc = "back"
    /\ IF here = source
       THEN pc' = "found" /\ UNCHANGED <<here, path>>
       ELSE /\ path' = <<prev[here][2]>> \o path
            /\ here' = prev[here][1]
            /\ UNCHANGED pc
    /\ UNCHANGED <<graph, dist, prev, pq, visited, todo>>

Done == pc \in {"none", "found"} /\ UNCHANGED vars

Step == Begin \/ Pop \/ Relax \/ Exhausted \/ Back

Next == Step \/ Done

Spec == Init /\ [][Next]_vars

FairSpec == Spec /\ WF_vars(Step)
-----------------------------------------------------------------------------
(* Properties.                                                             *)

\* A node taken from the heap has its final distance: no later relaxation
\* would improve it (route_optimizer.py:89-102).
VisitedAreFinal ==
    visited # {} =>
        LET final == Shortest IN
        \A v \in visited : v \in DOMAIN final /\ dist[v] = final[v]

\* What is returned is a shortest route, the distance returned is its total,
\* and no segment occurs in it twice, as UNIQUE (route_id, segment_id) wants
\* (schema.sql:181, route_optimizer.py:106-115).
RouteIsShortest ==
    pc = "found" =>
        /\ LeadsToTarget(path)
        /\ Total(path) = dist[target]
        /\ dist[target] = Shortest[target]
        /\ \A i, j \in 1..Len(path) : path[i] = path[j] => i = j

\* None is returned only when no route exists (route_optimizer.py:83-84,
\* 103-104).
NoneMeansNoRoute == pc = "none" => target \notin DOMAIN Shortest

\* What whoever called dijkstra has been told.
Answer ==
    LET found == pc = "found"
    IN  [status |-> IF pc \in {"none", "found"} THEN pc ELSE "pending",
         route |-> IF found THEN path ELSE <<>>,
         total |-> IF found THEN dist[target] ELSE 0]

Caller == INSTANCE Search WITH answer <- Answer

\* The whole loop looks like one step to the caller: the one answer it gets
\* is right, and the graph it was asked about is left alone (Search;
\* route_optimizer.py:80-144).
SearchSpec == Caller!Spec

\* The search ends on every network.
SearchEnds == <>(pc \in {"none", "found"})
=============================================================================
