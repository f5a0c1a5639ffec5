------------------------------- MODULE Walks -------------------------------
(***************************************************************************)
(* A road network, a request for a route on it, and what a shortest route  *)
(* is: the reference that the search of route_optimizer.py is compared     *)
(* with.  It counts the segments of walks instead of using a heap.         *)
(***************************************************************************)
EXTENDS Integers, Sequences, FiniteSets, FiniteSetsExt, SequencesExt

CONSTANTS
    Nodes,       \* intersection ids
    Segments     \* active road segments

VARIABLES ends, weight, source, target    \* the graph and the request

\* Segment s joins u and v.
Joins(s, u, v) == ends[s] \in {<<u, v>>, <<v, u>>}

\* The totals of the walks to v that are one of `least' (the least totals, for
\* every node that has one) or have one segment more.
Totals(least, v) ==
    {least[u] : u \in DOMAIN least \cap {v}} \cup
    {least[e[1]] + weight[e[2]] : e \in
        {x \in (DOMAIN least) \X Segments : Joins(x[2], x[1], v)}}

OneMore(least) ==
    [v \in {u \in Nodes : Totals(least, u) # {}} |-> Min(Totals(least, v))]

\* The reference: the least total weight of the walks of at most k segments
\* from the source, for every node that has one.
Within[k \in Nat] ==
    IF k = 0 THEN [v \in {source} |-> 0] ELSE OneMore(Within[k - 1])

\* No shortest walk visits a node twice, so this is the distance.
Shortest == Within[Cardinality(Nodes) - 1]

\* The total weight of a path.
Total(p) ==
    LET sum[i \in 0..Len(p)] ==
            IF i = 0 THEN 0 ELSE sum[i - 1] + weight[p[i]]
    IN  sum[Len(p)]

\* The segments of path p lead from the source to the target.
LeadsToTarget(p) ==
    \E stop \in [0..Len(p) -> Nodes] :
        /\ stop[0] = source /\ stop[Len(p)] = target
        /\ \A i \in 1..Len(p) : Joins(p[i], stop[i - 1], stop[i])
=============================================================================
