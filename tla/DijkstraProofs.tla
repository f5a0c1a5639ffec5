--------------------------- MODULE DijkstraProofs ---------------------------
(***************************************************************************)
(* dijkstra is correct on every network: what it returns is a walk from    *)
(* the source to the target, no walk between them is shorter, and None     *)
(* means that there is no walk.                                            *)
(*                                                                         *)
(* A walk is given by its nodes, its segments and the sums of the weights  *)
(* so far.  The argument is Dijkstra's own: the nodes taken from the heap  *)
(* are no farther than any node that is left on it, and each of them has   *)
(* relaxed its segments.  The last part relates the walks to the reference *)
(* that TLC computes: the least totals of the walks of so many segments.   *)
(***************************************************************************)
EXTENDS Dijkstra, FiniteSetTheorems, Lemmas

\* Stops stop[0], ..., stop[k], joined by the segments seg[1], ..., seg[k];
\* sum[i] is what the weights add up to at stop i.
IsWalk(k, stop, seg, sum) ==
    \A i \in 1..k : /\ Joins(seg[i], stop[i - 1], stop[i])
                    /\ sum[i] = sum[i - 1] + weight[seg[i]]

\* A walk from the source to the target.
Connects(k, stop, seg, sum) ==
    /\ IsWalk(k, stop, seg, sum)
    /\ stop[0] = source /\ sum[0] = 0 /\ stop[k] = target

\* The path found is a walk whose weight is the distance returned, and no
\* walk from the source to the target is shorter.
FoundIsShortest ==
    pc = "found" =>
        /\ \E stop \in [0..Len(path) -> Nodes], sum \in [0..Len(path) -> Nat] :
              /\ Connects(Len(path), stop, path, sum)
              /\ sum[Len(path)] = dist[target]
        /\ \A k \in Nat :
              \A stop \in [0..k -> Nodes], seg \in [1..k -> Segments],
                 sum \in [0..k -> Nat] :
              Connects(k, stop, seg, sum) => dist[target] <= sum[k]

\* None is returned only if no walk leads to the target.
NoneIsRight ==
    pc = "none" =>
        \A k \in Nat :
            \A stop \in [0..k -> Nodes], seg \in [1..k -> Segments],
               sum \in [0..k -> Nat] :
            ~Connects(k, stop, seg, sum)
-----------------------------------------------------------------------------
(* The invariant.                                                          *)

Types ==
    /\ ends \in [Segments -> Nodes \X Nodes]
    /\ \A s \in Segments : ends[s][1] # ends[s][2]
    /\ weight \in [Segments -> Nat \ {0}]
    /\ source \in Nodes /\ target \in Nodes /\ source # target
    /\ DOMAIN dist \subseteq Nodes
    /\ \A v \in DOMAIN dist : dist[v] \in Nat
    /\ pq \subseteq Nat \X Nodes
    /\ visited \subseteq DOMAIN dist
    /\ pc # "none" => here \in DOMAIN dist
    /\ todo \subseteq At(here)
    /\ path \in Seq(Segments)
    /\ pc \in {"begin", "pop", "back", "none", "found"}
    /\ source \in DOMAIN dist /\ dist[source] = 0

\* The heap has an entry for every node that was reached and not yet taken.
HeapOK ==
    /\ \A e \in pq : e[2] \in DOMAIN dist /\ dist[e[2]] <= e[1]
    /\ \A v \in DOMAIN dist \ visited : <<dist[v], v>> \in pq

\* Nodes leave the heap in the order of their distances.
Ordered ==
    /\ \A v \in visited : dist[v] <= dist[here]
    /\ \A e \in pq : dist[here] <= e[1]

\* Segment s offers no better way beyond u.
Relaxed(u, s) ==
    /\ OtherEnd(s, u) \in DOMAIN dist
    /\ dist[OtherEnd(s, u)] <= dist[u] + weight[s]

\* The segments of a node taken are relaxed, but for those to do.
Closed ==
    \A u \in visited : \A s \in At(u) :
        (u = here /\ s \in todo) \/ Relaxed(u, s)

\* prev leads back, and the distances differ by the segment's weight.
WayBack ==
    \A v \in DOMAIN dist \ {source} :
        /\ v \in DOMAIN prev /\ prev[v][1] \in visited
        /\ prev[v][2] \in Segments /\ Joins(prev[v][2], prev[v][1], v)
        /\ dist[v] = dist[prev[v][1]] + weight[prev[v][2]]

Searching ==
    pc \in {"begin", "pop"} =>
        /\ HeapOK /\ Ordered /\ Closed
        /\ todo # {} => here \in visited
        /\ path = <<>> /\ target \notin visited
        /\ pc = "begin" => visited = {}

\* The target is nearer than all that was left on the heap.
Settled ==
    pc \in {"back", "found"} =>
        /\ target \in visited /\ todo = {}
        /\ \A v \in visited : dist[v] <= dist[target]
        /\ \A v \in DOMAIN dist \ visited : dist[target] <= dist[v]
        /\ \A u \in visited \ {target} : \A s \in At(u) : Relaxed(u, s)

\* The segments collected lead from here to the target, along nodes whose
\* distances are the sums.
OnTheWay ==
    /\ pc \in {"back", "found"} =>
          \E stop \in [0..Len(path) -> Nodes], sum \in [0..Len(path) -> Nat] :
              /\ IsWalk(Len(path), stop, path, sum)
              /\ stop[0] = here /\ stop[Len(path)] = target
              /\ \A i \in 0..Len(path) :
                    stop[i] \in DOMAIN dist /\ sum[i] = dist[stop[i]]
    /\ pc = "found" => here = source

\* An end of the request has no segment, or what was reached is closed and
\* without the target.
Nowhere ==
    pc = "none" =>
        \/ (At(source) = {} \/ At(target) = {}) /\ visited = {}
        \/ /\ source \in visited /\ target \notin visited
           /\ DOMAIN dist = visited
           /\ \A u \in visited : \A s \in At(u) : Relaxed(u, s)

Inv == Types /\ WayBack /\ Searching /\ Settled /\ OnTheWay /\ Nowhere
-----------------------------------------------------------------------------
\* A segment at u leads from u to its other end.
LEMMA OtherEndJoins ==
    ASSUME Types, NEW u \in Nodes, NEW s \in At(u)
    PROVE  /\ s \in Segments /\ OtherEnd(s, u) \in Nodes
           /\ Joins(s, u, OtherEnd(s, u)) /\ OtherEnd(s, u) # u
<1>1. s \in Segments /\ u \in {ends[s][1], ends[s][2]}
  BY DEF At
<1>2. ends[s] = <<ends[s][1], ends[s][2]>> /\ ends[s][1] # ends[s][2]
      /\ ends[s][1] \in Nodes /\ ends[s][2] \in Nodes
  BY <1>1 DEF Types
<1>. QED
  BY <1>1, <1>2 DEF OtherEnd, Joins

\* A segment that joins two nodes is at both.
LEMMA JoinsAt ==
    ASSUME Types, NEW s \in Segments, NEW u \in Nodes, NEW v \in Nodes,
           Joins(s, u, v)
    PROVE  s \in At(u) /\ s \in At(v) /\ OtherEnd(s, u) = v
<1>1. \/ ends[s][1] = u /\ ends[s][2] = v
      \/ ends[s][1] = v /\ ends[s][2] = u
  BY DEF Joins
<1>. QED
  BY <1>1 DEF At, OtherEnd, Types

\* Before the search, only the source is reached.
LEMMA InitInv == Init => Inv
<1>. SUFFICES ASSUME Init PROVE Inv
  OBVIOUS
<1>1. Types
  <2>1. /\ ends \in [Segments -> Nodes \X Nodes]
        /\ \A s \in Segments : ends[s][1] # ends[s][2]
    BY DijkstraAssumption DEF Init
  <2>2. weight \in [Segments -> Nat \ {0}]
    BY DijkstraAssumption DEF Init
  <2>3. source \in Nodes /\ target \in Nodes /\ source # target
    BY DijkstraAssumption DEF Init
  <2>. QED
    BY <2>1, <2>2, <2>3 DEF Init, Types
<1>2. HeapOK /\ Ordered /\ Closed
  BY DEF Init, HeapOK, Ordered, Closed
<1>3. WayBack
  BY DEF Init, WayBack
<1>. QED
  BY <1>1, <1>2, <1>3 DEF Inv, Init, Searching, Settled, OnTheWay, Nowhere
-----------------------------------------------------------------------------
(* The loop.                                                               *)

\* Begin leaves the search as it is, or an end of the request is cut off.
LEMMA BeginInv ==
    ASSUME Inv, Begin
    PROVE  Inv'
<1>1. UNCHANGED <<graph, search, path>> /\ pc = "begin"
      /\ pc' = IF At(source) = {} \/ At(target) = {} THEN "none" ELSE "pop"
  BY DEF Begin
<1>2. At(source)' = At(source) /\ At(target)' = At(target)
      /\ At(here)' = At(here)
  BY <1>1 DEF At, graph, search
<1>3. Types'
  BY <1>1, <1>2 DEF Inv, Types, graph, search
<1>4. WayBack'
  BY <1>1 DEF Inv, WayBack, Joins, graph, search
<1>5. Searching'
  BY <1>1 DEF Inv, Searching, HeapOK, Ordered, Closed, Relaxed, OtherEnd, At,
              graph, search
<1>6. Nowhere'
  <2>1. visited' = {}
    BY <1>1 DEF Inv, Searching, search
  <2>2. pc' = "none" => At(source)' = {} \/ At(target)' = {}
    BY <1>1, <1>2
  <2>. QED
    BY <2>1, <2>2 DEF Nowhere
<1>7. pc' \in {"none", "pop"}
  BY <1>1
<1>8. Settled' /\ OnTheWay'
  BY <1>7 DEF Settled, OnTheWay
<1>. QED
  BY <1>3, <1>4, <1>5, <1>6, <1>8 DEF Inv

\* The entry that is popped is of the node's distance, unless it is stale.
LEMMA TopIsNearest ==
    ASSUME Types, HeapOK, NEW top \in Smallest, top[2] \notin visited
    PROVE  top[1] = dist[top[2]]
<1>1. top \in pq /\ top[2] \in DOMAIN dist /\ dist[top[2]] <= top[1]
  BY DEF Smallest, HeapOK
<1>2. <<dist[top[2]], top[2]>> \in pq
  BY <1>1 DEF HeapOK
<1>3. Before(top, <<dist[top[2]], top[2]>>)
  BY <1>2 DEF Smallest
<1>4. top[1] <= dist[top[2]]
  BY <1>1, <1>3 DEF Before, Types
<1>. QED
  BY <1>1, <1>4 DEF Types

\* What is taken next is no nearer than what was taken before.
LEMMA PopInv ==
    ASSUME Inv, Pop
    PROVE  Inv'
<1>1. PICK top \in Smallest :
          /\ pq' = pq \ {top}
          /\ IF top[2] \in visited
             THEN UNCHANGED <<visited, here, todo, pc>>
             ELSE /\ visited' = visited \cup {top[2]}
                  /\ here' = top[2]
                  /\ IF top[2] = target
                     THEN pc' = "back" /\ todo' = {}
                     ELSE pc' = "pop" /\ todo' = At(top[2])
  BY DEF Pop, Popped
<1>2. /\ pc = "pop" /\ todo = {} /\ UNCHANGED <<graph, dist, prev, path>>
  BY DEF Pop
<1>3. /\ Types /\ WayBack /\ HeapOK /\ Ordered /\ Closed /\ path = <<>>
      /\ target \notin visited
  BY <1>2 DEF Inv, Searching
<1>4. /\ top \in pq /\ top[1] \in Nat /\ top[2] \in DOMAIN dist
      /\ \A e \in pq : top[1] <= e[1]
  BY <1>3 DEF Smallest, Before, Types, HeapOK
<1>5. WayBack'
  BY <1>1, <1>2, <1>3 DEF WayBack, Joins, graph
<1>6. \A u : At(u)' = At(u)
  BY <1>2 DEF At, graph
<1>7. \A u, s : Relaxed(u, s)' <=> Relaxed(u, s)
  BY <1>2 DEF Relaxed, OtherEnd, graph
<1>8. CASE top[2] \in visited
  <2>1. UNCHANGED <<visited, here, todo, pc>>
    BY <1>1, <1>8
  <2>2. Types'
    BY <1>1, <1>2, <1>3, <1>6, <2>1 DEF Types, graph
  <2>3. HeapOK' /\ Ordered' /\ Closed'
    BY <1>1, <1>2, <1>3, <1>6, <1>7, <1>8, <2>1
       DEF HeapOK, Ordered, Closed
  <2>4. Searching'
    BY <1>2, <1>3, <2>1, <2>3 DEF Searching, graph
  <2>5. Settled' /\ OnTheWay' /\ Nowhere'
    BY <1>2, <2>1 DEF Settled, OnTheWay, Nowhere
  <2>. QED
    BY <1>5, <2>2, <2>4, <2>5 DEF Inv
<1>9. CASE top[2] \notin visited
  <2>1. /\ visited' = visited \cup {top[2]} /\ here' = top[2]
        /\ top[1] = dist[top[2]] /\ todo' \in {{}, At(top[2])}
        /\ pc' \in {"pop", "back"}
    BY <1>1, <1>3, <1>9, TopIsNearest
  <2>2. Types'
    BY <1>1, <1>2, <1>3, <1>4, <1>6, <2>1 DEF Types, graph
  <2>3. HeapOK'
    BY <1>1, <1>2, <1>3, <1>9, <2>1 DEF HeapOK
  <2>4. Ordered'
    <3>1. dist[here] \in Nat /\ dist[here] <= top[1]
      BY <1>2, <1>3, <1>4 DEF Ordered, Types
    <3>2. \A v \in visited : dist[v] \in Nat /\ dist[v] <= dist[here]
      BY <1>3 DEF Ordered, Types
    <3>. QED
      BY <1>1, <1>2, <1>4, <2>1, <3>1, <3>2 DEF Ordered
  <2>5. \A u \in visited : \A s \in At(u) : Relaxed(u, s)
    BY <1>2, <1>3 DEF Closed
  <2>6. CASE top[2] = target
    <3>1. pc' = "back" /\ todo' = {}
      BY <1>1, <1>9, <2>6
    <3>2. \A v \in DOMAIN dist \ visited' : dist[target] <= dist[v]
      <4>. TAKE v \in DOMAIN dist \ visited'
      <4>1. <<dist[v], v>> \in pq
        BY <1>3, <2>1 DEF HeapOK
      <4>2. top[1] <= <<dist[v], v>>[1]
        BY <1>4, <4>1
      <4>. QED
        BY <2>1, <2>6, <4>2
    <3>3. \A v \in visited' : dist'[v] <= dist'[target]
      BY <2>1, <2>4, <2>6 DEF Ordered
    <3>4. Settled'
      BY <1>2, <1>4, <1>6, <1>7, <2>1, <2>5, <2>6, <3>1, <3>2, <3>3
         DEF Settled, graph
    <3>5. OnTheWay'
      <4>. DEFINE stop == [i \in 0..0 |-> target]
                  sum == [i \in 0..0 |-> dist[target]]
      <4>1. dist[target] \in Nat /\ target \in Nodes /\ 0 \in 0..0
        BY <1>3, <1>4, <2>6 DEF Types
      <4>2. stop \in [0..0 -> Nodes] /\ sum \in [0..0 -> Nat]
            /\ stop[0] = target /\ sum[0] = dist[target]
        BY <4>1
      <4>. HIDE DEF stop, sum
      <4>3. \A st, su : IsWalk(0, st, <<>>, su)'
        BY DEF IsWalk
      <4>4. Len(path') = 0 /\ path' = <<>> /\ target' = target /\ dist' = dist
        BY <1>2, <1>3 DEF graph
      <4>5. \A i \in 0..0 : stop[i] \in DOMAIN dist' /\ sum[i] = dist'[stop[i]]
        BY <1>4, <2>6, <4>2, <4>4
      <4>. QED
        BY <2>1, <2>6, <3>1, <4>2, <4>3, <4>4, <4>5 DEF OnTheWay
    <3>. QED
      BY <1>5, <2>2, <3>1, <3>4, <3>5 DEF Inv, Searching, Nowhere
  <2>7. CASE top[2] # target
    <3>1. pc' = "pop" /\ todo' = At(top[2])
      BY <1>1, <1>9, <2>7
    <3>2. Closed'
      BY <1>6, <1>7, <2>1, <2>5, <3>1 DEF Closed
    <3>3. Searching'
      BY <1>2, <1>3, <2>1, <2>3, <2>4, <2>7, <3>1, <3>2 DEF Searching, graph
    <3>. QED
      BY <1>5, <2>2, <3>1, <3>3 DEF Inv, Settled, OnTheWay, Nowhere
  <2>. QED
    BY <2>6, <2>7
<1>. QED
  BY <1>8, <1>9

\* A relaxation reaches only nodes that are still on the heap, as weights are
\* positive: what was taken keeps its distance.
LEMMA RelaxInv ==
    ASSUME Inv, Relax
    PROVE  Inv'
<1>1. PICK s \in todo :
          LET v == OtherEnd(s, here)
              nd == dist[here] + weight[s]
              better == v \notin DOMAIN dist \/ nd < dist[v]
          IN /\ todo' = todo \ {s}
             /\ dist' = IF better THEN Set(dist, v, nd) ELSE dist
             /\ prev' = Way(v, s, better)
             /\ pq' = IF better THEN pq \cup {<<nd, v>>} ELSE pq
  BY DEF Relax
<1>. DEFINE v == OtherEnd(s, here)
            nd == dist[here] + weight[s]
            better == v \notin DOMAIN dist \/ nd < dist[v]
<1>2. pc = "pop" /\ UNCHANGED <<graph, visited, here, path, pc>>
  BY DEF Relax
<1>3. /\ Types /\ WayBack /\ HeapOK /\ Ordered /\ Closed /\ path = <<>>
      /\ here \in visited /\ here \in Nodes /\ target \notin visited
  BY <1>1, <1>2 DEF Inv, Searching, Types
<1>4. s \in At(here) /\ s \in Segments /\ v \in Nodes /\ v # here
      /\ Joins(s, here, v)
  BY <1>1, <1>3, OtherEndJoins DEF Types
<1>5. dist[here] \in Nat /\ weight[s] \in Nat \ {0} /\ nd \in Nat
      /\ nd > dist[here]
  BY <1>3, <1>4 DEF Types
<1>6. \A u : At(u)' = At(u)
  BY <1>2 DEF At, graph
<1>7. \A x, u : OtherEnd(x, u)' = OtherEnd(x, u)
  BY <1>2 DEF OtherEnd, graph
<1>8. \A x, y, z : Joins(x, y, z)' <=> Joins(x, y, z)
  BY <1>2 DEF Joins, graph
<1>9. todo' = todo \ {s}
  BY <1>1
<1>10. CASE ~better
  <2>1. UNCHANGED <<dist, prev, pq>>
    BY <1>1, <1>10 DEF Way
  <2>2. Types'
    BY <1>2, <1>3, <1>6, <1>9, <2>1 DEF Types, graph
  <2>3. WayBack' /\ HeapOK' /\ Ordered'
    BY <1>2, <1>3, <1>8, <2>1 DEF WayBack, HeapOK, Ordered, graph
  <2>4. Relaxed(here, s)
    BY <1>3, <1>4, <1>5, <1>10 DEF Relaxed, Types
  <2>5. Closed'
    BY <1>2, <1>3, <1>6, <1>7, <1>9, <2>1, <2>4 DEF Closed, Relaxed, graph
  <2>6. Searching'
    BY <1>2, <1>3, <2>3, <2>5 DEF Searching, graph
  <2>. QED
    BY <1>2, <2>2, <2>3, <2>6 DEF Inv, Settled, OnTheWay, Nowhere
<1>11. CASE better
  <2>1. /\ dist' = Set(dist, v, nd) /\ prev' = Set(prev, v, <<here, s>>)
        /\ pq' = pq \cup {<<nd, v>>}
    BY <1>1, <1>11 DEF Way
  <2>2. /\ DOMAIN dist' = DOMAIN dist \cup {v} /\ dist'[v] = nd
        /\ \A x \in DOMAIN dist : x # v => dist'[x] = dist[x]
    BY <2>1 DEF Set
  <2>3. /\ DOMAIN prev' = DOMAIN prev \cup {v} /\ prev'[v] = <<here, s>>
        /\ \A x \in DOMAIN prev : x # v => prev'[x] = prev[x]
    BY <2>1 DEF Set
  <2>4. v \notin visited /\ v # source
    <3>1. \A x \in visited : dist[x] \in Nat /\ dist[x] <= dist[here]
      BY <1>3 DEF Types, Ordered
    <3>2. \A x \in DOMAIN dist : dist[x] \in Nat
      BY <1>3 DEF Types
    <3>. QED
      BY <1>3, <1>5, <1>11, <3>1, <3>2 DEF Types
  <2>5. \A x \in DOMAIN dist : dist'[x] \in Nat /\ dist'[x] <= dist[x]
    BY <1>3, <1>5, <1>11, <2>2 DEF Types
  <2>6. \A x \in visited : dist'[x] = dist[x] /\ x \in DOMAIN dist
    BY <1>3, <2>2, <2>4 DEF Types
  <2>. HIDE DEF v, nd, better
  <2>7. Types'
    <3>1. DOMAIN dist' \subseteq Nodes /\ visited' \subseteq DOMAIN dist'
          /\ here' \in DOMAIN dist' /\ source' \in DOMAIN dist'
      BY <1>2, <1>3, <1>4, <2>2 DEF Types, graph
    <3>2. todo' \subseteq At(here)'
      BY <1>2, <1>3, <1>6, <1>9 DEF Types
    <3>3. pq' \subseteq Nat \X Nodes
      BY <1>3, <1>4, <1>5, <2>1 DEF Types
    <3>4. \A x \in DOMAIN dist' : dist'[x] \in Nat
      BY <1>5, <2>2, <2>5
    <3>5. dist'[source'] = 0
      BY <1>2, <1>3, <2>2, <2>4 DEF Types, graph
    <3>. QED
      BY <1>2, <1>3, <3>1, <3>4, <3>5, <3>2, <3>3 DEF Types, graph
  <2>8. WayBack'
    <3>1. ASSUME NEW x \in DOMAIN dist' \ {source'}
          PROVE  /\ x \in DOMAIN prev' /\ prev'[x][1] \in visited'
                 /\ prev'[x][2] \in Segments
                 /\ Joins(prev[x][2], prev[x][1], x)'
                 /\ dist'[x] = dist'[prev'[x][1]] + weight'[prev'[x][2]]
      <4>1. CASE x = v
        BY <1>2, <1>3, <1>4, <1>8, <2>2, <2>3, <2>6, <4>1 DEF graph, nd
      <4>2. CASE x # v
        <5>1. x \in DOMAIN dist \ {source}
          BY <1>2, <2>2, <4>2 DEF graph
        <5>2. /\ x \in DOMAIN prev /\ prev[x][1] \in visited
              /\ prev[x][2] \in Segments /\ Joins(prev[x][2], prev[x][1], x)
              /\ dist[x] = dist[prev[x][1]] + weight[prev[x][2]]
          BY <1>3, <5>1 DEF WayBack
        <5>3. prev'[x] = prev[x] /\ x \in DOMAIN prev'
          BY <2>3, <4>2, <5>2
        <5>4. dist'[x] = dist[x] /\ dist'[prev[x][1]] = dist[prev[x][1]]
          BY <2>2, <2>6, <4>2, <5>1, <5>2
        <5>. QED
          BY <1>2, <1>8, <5>2, <5>3, <5>4 DEF graph
      <4>. QED
        BY <4>1, <4>2
    <3>. QED
      BY <3>1 DEF WayBack
  <2>9. HeapOK'
    <3>1. \A e \in pq : e[1] \in Nat /\ e[2] \in DOMAIN dist
                        /\ dist[e[2]] <= e[1]
      BY <1>3 DEF HeapOK, Types
    <3>2. \A e \in pq' : e[2] \in DOMAIN dist' /\ dist'[e[2]] <= e[1]
      BY <1>3, <1>5, <2>1, <2>2, <2>5, <3>1 DEF Types
    <3>3. \A x \in DOMAIN dist' \ visited' : <<dist'[x], x>> \in pq'
      BY <1>2, <1>3, <2>1, <2>2 DEF HeapOK
    <3>. QED
      BY <3>2, <3>3 DEF HeapOK
  <2>10. Ordered'
    BY <1>2, <1>3, <1>5, <2>1, <2>6 DEF Ordered
  <2>11. Closed'
    <3>1. ASSUME NEW u \in visited, NEW x \in At(u), Relaxed(u, x)
          PROVE  Relaxed(u, x)'
      <4>1. /\ OtherEnd(x, u) \in DOMAIN dist
            /\ dist[OtherEnd(x, u)] <= dist[u] + weight[x]
        BY <3>1 DEF Relaxed
      <4>2. weight[x] \in Nat /\ dist[u] \in Nat
            /\ dist[OtherEnd(x, u)] \in Nat
        BY <1>3, <4>1 DEF Types, At
      <4>3. /\ dist'[OtherEnd(x, u)] <= dist[OtherEnd(x, u)]
            /\ dist'[OtherEnd(x, u)] \in Nat /\ dist'[u] = dist[u]
        BY <2>5, <2>6, <4>1
      <4>4. OtherEnd(x, u) \in DOMAIN dist'
        BY <2>2, <4>1
      <4>. QED
        BY <1>2, <1>7, <4>1, <4>2, <4>3, <4>4 DEF Relaxed, graph
    <3>2. Relaxed(here, s)'
      <4>1. OtherEnd(s, here)' = v /\ here' = here /\ weight' = weight
        BY <1>2, <1>7 DEF graph, v
      <4>2. dist'[v] = dist'[here] + weight[s]
        BY <1>3, <2>2, <2>6 DEF nd
      <4>. QED
        BY <1>5, <2>2, <4>1, <4>2 DEF Relaxed
    <3>. QED
      BY <1>2, <1>3, <1>6, <1>9, <3>1, <3>2 DEF Closed
  <2>12. Searching'
    BY <1>2, <1>3, <2>9, <2>10, <2>11 DEF Searching, graph
  <2>. QED
    BY <1>2, <2>7, <2>8, <2>12 DEF Inv, Settled, OnTheWay, Nowhere
<1>. QED
  BY <1>10, <1>11

\* With the heap empty, what was reached was taken and is closed.
LEMMA ExhaustedInv ==
    ASSUME Inv, Exhausted
    PROVE  Inv'
<1>1. /\ pc = "pop" /\ todo = {} /\ pq = {} /\ here' = target
      /\ pc' = IF target \in DOMAIN dist THEN "back" ELSE "none"
      /\ UNCHANGED <<graph, dist, prev, pq, visited, todo, path>>
  BY DEF Exhausted
<1>2. /\ Types /\ WayBack /\ HeapOK /\ Closed /\ target \notin visited
  BY <1>1 DEF Inv, Searching
<1>3. DOMAIN dist = visited
  BY <1>1, <1>2 DEF HeapOK, Types
<1>4. \A u \in visited : \A s \in At(u) : Relaxed(u, s)
  BY <1>1, <1>2 DEF Closed
<1>5. \A u : At(u)' = At(u)
  BY <1>1 DEF At, graph
<1>6. \A u, s : Relaxed(u, s)' <=> Relaxed(u, s)
  BY <1>1 DEF Relaxed, OtherEnd, graph
<1>7. WayBack'
  BY <1>1, <1>2 DEF WayBack, Joins, graph
<1>8. pc' = "none"
  BY <1>1, <1>2, <1>3
<1>9. Nowhere'
  BY <1>1, <1>2, <1>3, <1>4, <1>5, <1>6 DEF Nowhere, Types, graph
<1>10. Types'
  BY <1>1, <1>2, <1>5, <1>8 DEF Types, graph
<1>. QED
  BY <1>7, <1>8, <1>9, <1>10 DEF Inv, Searching, Settled, OnTheWay

\* A step back along prev puts the segment before those collected.
LEMMA BackInv ==
    ASSUME Inv, Back
    PROVE  Inv'
<1>1. pc = "back" /\ UNCHANGED <<graph, dist, prev, pq, visited, todo>>
  BY DEF Back
<1>2. Types /\ WayBack /\ Settled /\ OnTheWay
  BY DEF Inv
<1>3. WayBack' /\ (pc' \in {"back", "found"} => Settled')
  BY <1>1, <1>2 DEF WayBack, Settled, Relaxed, OtherEnd, At, Joins, graph
<1>4. CASE here = source
  <2>1. pc' = "found" /\ UNCHANGED <<here, path>>
    BY <1>4 DEF Back
  <2>2. Types'
    BY <1>1, <1>2, <2>1 DEF Types, At, graph
  <2>3. OnTheWay'
    <3>1. \A k, st, su : IsWalk(k, st, path, su) => IsWalk(k, st, path, su)'
      BY <1>1, <2>1 DEF IsWalk, Joins, graph
    <3>. QED
      BY <1>1, <1>2, <1>4, <2>1, <3>1 DEF OnTheWay, graph
  <2>. QED
    BY <1>3, <2>1, <2>2, <2>3 DEF Inv, Searching, Nowhere
<1>5. CASE here # source
  <2>. DEFINE u == prev[here][1]
              s == prev[here][2]
              n == Len(path)
  <2>1. pc' = pc /\ path' = <<s>> \o path /\ here' = u
    BY <1>5 DEF Back
  <2>2. here \in DOMAIN dist /\ todo = {}
    BY <1>1, <1>2 DEF Types, Settled
  <2>3. /\ u \in visited /\ s \in Segments /\ Joins(s, u, here)
        /\ dist[here] = dist[u] + weight[s]
    BY <1>2, <1>5, <2>2 DEF WayBack
  <2>4. u \in DOMAIN dist /\ u \in Nodes /\ dist[u] \in Nat
    BY <1>2, <2>3 DEF Types
  <2>5. /\ path \in Seq(Segments) /\ n \in Nat /\ path' \in Seq(Segments)
        /\ Len(path') = n + 1 /\ path'[1] = s
        /\ \A i \in 2..n + 1 : path'[i] = path[i - 1]
    BY <1>2, <2>1, <2>3 DEF Types
  <2>. HIDE DEF u, s
  <2>6. Types'
    BY <1>1, <1>2, <2>1, <2>2, <2>4, <2>5 DEF Types, graph
  <2>7. PICK stop \in [0..n -> Nodes], sum \in [0..n -> Nat] :
            /\ IsWalk(n, stop, path, sum)
            /\ stop[0] = here /\ stop[n] = target
            /\ \A i \in 0..n : stop[i] \in DOMAIN dist /\ sum[i] = dist[stop[i]]
    BY <1>1, <1>2 DEF OnTheWay
  <2>. HIDE DEF n
  <2>. DEFINE stop2 == [i \in 0..n + 1 |-> IF i = 0 THEN u ELSE stop[i - 1]]
              sum2 == [i \in 0..n + 1 |->
                         IF i = 0 THEN dist[u] ELSE sum[i - 1]]
  <2>8. \A i \in 1..n + 1 : /\ i - 1 \in 0..n /\ i # 0 /\ i \in 0..n + 1
                            /\ stop2[i] = stop[i - 1] /\ sum2[i] = sum[i - 1]
    BY <2>5
  <2>9. 0 \in 0..n + 1 /\ stop2[0] = u /\ sum2[0] = dist[u]
    BY <2>5
  <2>10. stop2 \in [0..n + 1 -> Nodes] /\ sum2 \in [0..n + 1 -> Nat]
    BY <2>4, <2>5, <2>8, <2>9
  <2>. HIDE DEF stop2, sum2
  <2>11. IsWalk(n + 1, stop2, path', sum2)
    <3>. SUFFICES ASSUME NEW i \in 1..n + 1
                  PROVE  /\ Joins(path'[i], stop2[i - 1], stop2[i])
                         /\ sum2[i] = sum2[i - 1] + weight[path'[i]]
      BY DEF IsWalk
    <3>1. CASE i = 1
      <4>1. /\ i - 1 = 0 /\ path'[i] = s
            /\ stop2[i] = here /\ sum2[i] = dist[here]
        BY <2>5, <2>7, <2>8, <3>1
      <4>. QED
        BY <2>3, <2>9, <4>1
    <3>2. CASE i # 1
      <4>1. i \in 2..n + 1 /\ i - 1 \in 1..n /\ i - 1 \in 1..n + 1
        BY <2>5, <3>2
      <4>2. /\ Joins(path[i - 1], stop[(i - 1) - 1], stop[i - 1])
            /\ sum[i - 1] = sum[(i - 1) - 1] + weight[path[i - 1]]
        BY <2>7, <4>1 DEF IsWalk
      <4>3. path'[i] = path[i - 1] /\ stop2[i] = stop[i - 1]
            /\ sum2[i] = sum[i - 1] /\ stop2[i - 1] = stop[(i - 1) - 1]
            /\ sum2[i - 1] = sum[(i - 1) - 1]
        BY <2>5, <2>8, <4>1
      <4>. QED
        BY <4>2, <4>3
    <3>. QED
      BY <3>1, <3>2
  <2>12. /\ stop2[n + 1] = target
         /\ \A i \in 0..n + 1 :
               stop2[i] \in DOMAIN dist /\ sum2[i] = dist[stop2[i]]
    <3>1. stop2[n + 1] = target
      <4>1. n + 1 \in 1..n + 1 /\ (n + 1) - 1 = n
        BY <2>5
      <4>. QED
        BY <2>7, <2>8, <4>1
    <3>2. \A i \in 0..n + 1 : i = 0 \/ i \in 1..n + 1
      BY <2>5
    <3>. QED
      BY <2>4, <2>7, <2>8, <2>9, <3>1, <3>2
  <2>13. OnTheWay'
    <3>1. \A st, su : IsWalk(n + 1, st, path', su)
                       => IsWalk(Len(path), st, path, su)'
      <4>1. weight' = weight /\ \A x, y, z : Joins(x, y, z)' <=> Joins(x, y, z)
        BY <1>1 DEF Joins, graph
      <4>. QED
        BY <2>5, <4>1 DEF IsWalk
    <3>2. Len(path)' = n + 1 /\ pc' = "back" /\ target' = target
          /\ dist' = dist /\ here' = u
      BY <1>1, <2>1, <2>5 DEF graph
    <3>. DEFINE m == n + 1
    <3>3. PICK st \in [0..m -> Nodes], su \in [0..m -> Nat] :
              /\ IsWalk(m, st, path', su) /\ st[0] = u /\ st[m] = target
              /\ \A i \in 0..m : st[i] \in DOMAIN dist /\ su[i] = dist[st[i]]
      <4>1. /\ stop2 \in [0..m -> Nodes] /\ sum2 \in [0..m -> Nat]
            /\ IsWalk(m, stop2, path', sum2) /\ stop2[0] = u
            /\ stop2[m] = target
            /\ \A i \in 0..m :
                  stop2[i] \in DOMAIN dist /\ sum2[i] = dist[stop2[i]]
        BY <2>9, <2>10, <2>11, <2>12
      <4>. HIDE DEF m
      <4>. QED
        BY <4>1, Zenon
    <3>4. IsWalk(Len(path), st, path, su)'
      BY <3>1, <3>3
    <3>5. Len(path)' = m
      BY <3>2
    <3>. HIDE DEF m
    <3>6. /\ st \in [0..Len(path)' -> Nodes] /\ su \in [0..Len(path)' -> Nat]
          /\ st[0] = here' /\ st[Len(path)'] = target'
          /\ \A i \in 0..Len(path)' :
                st[i] \in DOMAIN dist' /\ su[i] = dist'[st[i]]
      BY <3>2, <3>3, <3>5
    <3>7. \E st2 \in [0..Len(path)' -> Nodes],
             su2 \in [0..Len(path)' -> Nat] :
              /\ IsWalk(Len(path), st2, path, su2)'
              /\ st2[0] = here' /\ st2[Len(path)'] = target'
              /\ \A i \in 0..Len(path)' :
                    st2[i] \in DOMAIN dist' /\ su2[i] = dist'[st2[i]]
      BY <3>4, <3>6, Zenon
    <3>. QED
      BY <3>2, <3>7 DEF OnTheWay
  <2>. QED
    BY <1>1, <1>3, <2>1, <2>6, <2>13 DEF Inv, Searching, Nowhere
<1>. QED
  BY <1>4, <1>5

\* Every step keeps the invariant.
LEMMA NextInv == Inv /\ [Next]_vars => Inv'
<1>. SUFFICES ASSUME Inv, [Next]_vars PROVE Inv'
  OBVIOUS
<1>1. CASE UNCHANGED vars
  <2>1. Types' /\ WayBack' /\ Searching'
    BY <1>1 DEF vars, graph, search, Inv, Types, WayBack, Searching, HeapOK,
                Ordered, Closed, Relaxed, At, OtherEnd, Joins
  <2>2. Settled' /\ Nowhere'
    BY <1>1 DEF vars, graph, search, Inv, Settled, Nowhere, Relaxed, At,
                OtherEnd
  <2>3. OnTheWay'
    BY <1>1 DEF vars, graph, search, Inv, OnTheWay, IsWalk, Joins
  <2>. QED
    BY <2>1, <2>2, <2>3 DEF Inv
<1>. QED
  BY <1>1, BeginInv, PopInv, RelaxInv, ExhaustedInv, BackInv
     DEF Next, Step, Done

\* The invariant holds throughout.
LEMMA AlwaysInv == Spec => []Inv
BY InitInv, NextInv, PTL DEF Spec
-----------------------------------------------------------------------------
(* Walks.                                                                  *)

\* A walk of n segments from the source to v, of weight x.
WalkTo(n, v, x) ==
    \E stop \in [0..n -> Nodes], seg \in [1..n -> Segments],
       sum \in [0..n -> Nat] :
        /\ IsWalk(n, stop, seg, sum)
        /\ stop[0] = source /\ sum[0] = 0 /\ stop[n] = v /\ sum[n] = x

\* The types of a walk of n segments.
Typed(n, stop, seg, sum) ==
    /\ stop \in [0..n -> Nodes] /\ seg \in [1..n -> Segments]
    /\ sum \in [0..n -> Nat]

\* A walk extended by one segment, its first n segments as they were.
LEMMA OneSegmentMore ==
    ASSUME Types, NEW n \in Nat, NEW stop, NEW seg, NEW sum,
           Typed(n, stop, seg, sum), IsWalk(n, stop, seg, sum),
           NEW s \in Segments, NEW v \in Nodes, Joins(s, stop[n], v)
    PROVE  LET stop2 == Set(stop, n + 1, v)
               seg2 == Set(seg, n + 1, s)
               sum2 == Set(sum, n + 1, sum[n] + weight[s])
           IN  /\ Typed(n + 1, stop2, seg2, sum2)
               /\ IsWalk(n + 1, stop2, seg2, sum2)
               /\ \A i \in 0..n : stop2[i] = stop[i] /\ sum2[i] = sum[i]
               /\ stop2[n + 1] = v /\ sum2[n + 1] = sum[n] + weight[s]
<1>. DEFINE stop2 == Set(stop, n + 1, v)
            seg2 == Set(seg, n + 1, s)
            sum2 == Set(sum, n + 1, sum[n] + weight[s])
<1>1. /\ \A i \in 0..(n + 1) : i = n + 1 \/ i \in 0..n
      /\ \A i \in 1..(n + 1) : i = n + 1 \/ i \in 1..n
      /\ \A i \in 0..n : i \in 0..(n + 1) /\ i # n + 1
      /\ \A i \in 1..n : i \in 1..(n + 1) /\ i # n + 1 /\ i \in 0..n
                         /\ i - 1 \in 0..n
      /\ n + 1 \in 0..(n + 1) /\ n + 1 \in 1..(n + 1) /\ n \in 0..n
      /\ (n + 1) - 1 = n
      /\ 0..(n + 1) = 0..n \cup {n + 1} /\ 1..(n + 1) = 1..n \cup {n + 1}
  OBVIOUS
<1>2. weight[s] \in Nat /\ sum[n] \in Nat
  BY <1>1 DEF Types, Typed
<1>3. Typed(n + 1, stop2, seg2, sum2)
  BY <1>1, <1>2 DEF Set, Typed
<1>4. /\ \A i \in 0..n : stop2[i] = stop[i] /\ sum2[i] = sum[i]
      /\ \A i \in 1..n : seg2[i] = seg[i]
      /\ stop2[n + 1] = v /\ seg2[n + 1] = s
      /\ sum2[n + 1] = sum[n] + weight[s]
  BY <1>1 DEF Set, Typed
<1>. HIDE DEF stop2, seg2, sum2
<1>5. IsWalk(n + 1, stop2, seg2, sum2)
  <2>. SUFFICES ASSUME NEW i \in 1..(n + 1)
                PROVE  /\ Joins(seg2[i], stop2[i - 1], stop2[i])
                       /\ sum2[i] = sum2[i - 1] + weight[seg2[i]]
    BY DEF IsWalk
  <2>1. CASE i = n + 1
    BY <1>1, <1>4, <2>1
  <2>2. CASE i # n + 1
    <3>1. i \in 1..n /\ i \in 0..n /\ i - 1 \in 0..n
      BY <1>1, <2>2
    <3>. QED
      BY <1>4, <3>1 DEF IsWalk
  <2>. QED
    BY <2>1, <2>2
<1>. QED
  BY <1>3, <1>4, <1>5 DEF stop2, seg2, sum2

\* The sums grow along a walk, as weights are positive.
LEMMA SumsGrow ==
    ASSUME Types, NEW n \in Nat, NEW stop \in [0..n -> Nodes],
           NEW seg \in [1..n -> Segments], NEW sum \in [0..n -> Nat],
           IsWalk(n, stop, seg, sum)
    PROVE  \A i, j \in 0..n : i < j => sum[i] < sum[j]
<1>. DEFINE T == {j \in 0..n : \A i \in 0..n : i < j => sum[i] < sum[j]}
<1>1. 0 \in T
  OBVIOUS
<1>2. \A j \in 1..n : j - 1 \in T => j \in T
  <2>. SUFFICES ASSUME NEW j \in 1..n, j - 1 \in T, NEW i \in 0..n, i < j
                PROVE  sum[i] < sum[j]
    OBVIOUS
  <2>1. /\ sum[j] = sum[j - 1] + weight[seg[j]] /\ weight[seg[j]] \in Nat \ {0}
        /\ sum[j] \in Nat /\ sum[j - 1] \in Nat /\ sum[i] \in Nat
    BY DEF IsWalk, Types
  <2>2. i = j - 1 \/ i < j - 1
    OBVIOUS
  <2>. QED
    BY <2>1, <2>2
<1>3. \A j \in 0..n : j \in T
  <2>. HIDE DEF T
  <2>. QED
    BY <1>1, <1>2, InductTo
<1>. QED
  BY <1>3

\* prev leads from each node reached back to the source, along nodes whose
\* distances are the sums: the search tree.
LEMMA TreeWalk ==
    ASSUME Types, WayBack, NEW v \in DOMAIN dist
    PROVE  \E n \in Nat :
              \E stop \in [0..n -> Nodes], seg \in [1..n -> Segments],
                 sum \in [0..n -> Nat] :
                  /\ IsWalk(n, stop, seg, sum)
                  /\ stop[0] = source /\ stop[n] = v
                  /\ \A i \in 0..n :
                        stop[i] \in DOMAIN dist /\ sum[i] = dist[stop[i]]
<1>. DEFINE TreeOf(n, x) ==
               \E stop \in [0..n -> Nodes], seg \in [1..n -> Segments],
                  sum \in [0..n -> Nat] :
                   /\ IsWalk(n, stop, seg, sum)
                   /\ stop[0] = source /\ stop[n] = x
                   /\ \A i \in 0..n :
                         stop[i] \in DOMAIN dist /\ sum[i] = dist[stop[i]]
            Tree(x) == \E n \in Nat : TreeOf(n, x)
            Bad == {d \in Nat : \E x \in DOMAIN dist : dist[x] = d /\ ~Tree(x)}
<1>. SUFFICES ASSUME ~Tree(v) PROVE FALSE
  OBVIOUS
<1>. HIDE DEF TreeOf
<1>1. Bad \in SUBSET Nat /\ Bad # {}
  BY DEF Types
<1>2. PICK d \in Bad : \A i \in Bad : d <= i
  <2>. HIDE DEF Bad
  <2>. QED
    BY <1>1, LeastOf
<1>3. PICK x \in DOMAIN dist : dist[x] = d /\ ~Tree(x)
  OBVIOUS
<1>4. x # source
  <2>. SUFFICES ASSUME x = source PROVE Tree(source)
    BY <1>3
  <2>. DEFINE stop == [i \in 0..0 |-> source]
              sum == [i \in 0..0 |-> 0]
              seg == [i \in 1..0 |-> CHOOSE s \in Segments : TRUE]
  <2>1. /\ stop \in [0..0 -> Nodes] /\ sum \in [0..0 -> Nat]
        /\ seg \in [1..0 -> Segments] /\ stop[0] = source
        /\ \A i \in 0..0 : stop[i] = source /\ sum[i] = 0
    BY DEF Types
  <2>. HIDE DEF stop, sum, seg
  <2>2. IsWalk(0, stop, seg, sum)
    BY DEF IsWalk
  <2>3. \A i \in 0..0 : stop[i] \in DOMAIN dist /\ sum[i] = dist[stop[i]]
    BY <2>1 DEF Types
  <2>4. TreeOf(0, source)
    BY <2>1, <2>2, <2>3 DEF TreeOf
  <2>. QED
    BY <2>4
<1>. DEFINE u == prev[x][1]
            s == prev[x][2]
<1>5. /\ u \in DOMAIN dist /\ s \in Segments /\ Joins(s, u, x)
      /\ dist[x] = dist[u] + weight[s] /\ dist[u] \in Nat
      /\ weight[s] \in Nat \ {0} /\ x \in Nodes
  BY <1>3, <1>4 DEF WayBack, Types
<1>. HIDE DEF u, s
<1>6. dist[u] \notin Bad
  <2>1. ~(d <= dist[u]) /\ d \in Nat
    BY <1>3, <1>5
  <2>. QED
    BY <1>2, <2>1
<1>7. Tree(u)
  BY <1>5, <1>6
<1>8. PICK n \in Nat : TreeOf(n, u)
  BY <1>7
<1>9. PICK stop \in [0..n -> Nodes], seg \in [1..n -> Segments],
           sum \in [0..n -> Nat] :
          /\ IsWalk(n, stop, seg, sum)
          /\ stop[0] = source /\ stop[n] = u
          /\ \A i \in 0..n : stop[i] \in DOMAIN dist /\ sum[i] = dist[stop[i]]
  BY <1>8 DEF TreeOf
<1>. DEFINE stop2 == Set(stop, n + 1, x)
            seg2 == Set(seg, n + 1, s)
            sum2 == Set(sum, n + 1, sum[n] + weight[s])
<1>10. /\ Typed(n + 1, stop2, seg2, sum2)
       /\ IsWalk(n + 1, stop2, seg2, sum2)
       /\ \A i \in 0..n : stop2[i] = stop[i] /\ sum2[i] = sum[i]
       /\ stop2[n + 1] = x /\ sum2[n + 1] = sum[n] + weight[s]
  <2>1. s \in Segments /\ x \in Nodes /\ IsWalk(n, stop, seg, sum)
        /\ Joins(s, stop[n], x) /\ Typed(n, stop, seg, sum)
    BY <1>5, <1>9 DEF Typed
  <2>. QED
    BY <2>1, OneSegmentMore
<1>. HIDE DEF stop2, seg2, sum2
<1>11. /\ 0 \in 0..n /\ n \in 0..n /\ n + 1 \in Nat
       /\ \A i \in 0..(n + 1) : i = n + 1 \/ i \in 0..n
  OBVIOUS
<1>12. /\ stop2[0] = source
       /\ \A i \in 0..(n + 1) :
             stop2[i] \in DOMAIN dist /\ sum2[i] = dist[stop2[i]]
  BY <1>3, <1>5, <1>9, <1>10, <1>11
<1>13. TreeOf(n + 1, x)
  BY <1>10, <1>12 DEF TreeOf, Typed
<1>. QED
  BY <1>3, <1>11, <1>13

\* A walk along the search tree visits no node twice, and so it is shorter
\* than the number of nodes.
LEMMA TreeWalkIsSimple ==
    ASSUME Types, NEW n \in Nat, NEW stop \in [0..n -> Nodes],
           NEW seg \in [1..n -> Segments], NEW sum \in [0..n -> Nat],
           IsWalk(n, stop, seg, sum),
           \A i \in 0..n : stop[i] \in DOMAIN dist /\ sum[i] = dist[stop[i]]
    PROVE  /\ \A i, j \in 0..n : stop[i] = stop[j] => i = j
           /\ Cardinality(Nodes) \in Nat /\ n <= Cardinality(Nodes) - 1
<1>1. \A i, j \in 0..n : stop[i] = stop[j] => i = j
  <2>1. \A i, j \in 0..n : i < j => sum[i] < sum[j]
    BY SumsGrow
  <2>2. \A i, j \in 0..n : stop[i] = stop[j] => sum[i] = sum[j]
    OBVIOUS
  <2>3. \A i \in 0..n : sum[i] \in Nat
    OBVIOUS
  <2>. QED
    BY <2>1, <2>2, <2>3
<1>2. stop \in Injection(0..n, Nodes)
  BY <1>1 DEF Injection, IsInjective
<1>3. Cardinality(0..n) <= Cardinality(Nodes) /\ Cardinality(Nodes) \in Nat
  BY <1>2, DijkstraAssumption, FS_Injection, FS_CardinalityType
<1>4. Cardinality(0..n) = n + 1
  BY FS_Interval
<1>. QED
  BY <1>1, <1>3, <1>4

\* A walk can only leave the nodes taken, at their distances, where it is
\* already as long as any bound on the way out.
LEMMA LongerOutside ==
    ASSUME Types, NEW b \in Nat,
           \A w \in DOMAIN dist \ visited : b <= dist[w],
           \A u \in visited : \A s \in At(u) : Relaxed(u, s) \/ b <= dist[u],
           NEW k \in Nat,
           NEW stop \in [0..k -> Nodes], NEW seg \in [1..k -> Segments],
           NEW sum \in [0..k -> Nat], IsWalk(k, stop, seg, sum),
           stop[0] = source, sum[0] = 0
    PROVE  b <= sum[k] \/ (stop[k] \in visited /\ dist[stop[k]] <= sum[k])
<1>1. \A v \in DOMAIN dist : dist[v] \in Nat
  BY DEF Types
<1>. DEFINE T == {i \in 0..k : \/ b <= sum[i]
                               \/ /\ stop[i] \in visited
                                  /\ dist[stop[i]] <= sum[i]}
<1>2. 0 \in T
  BY <1>1 DEF Types
<1>3. \A i \in 1..k : i - 1 \in T => i \in T
  <2>. SUFFICES ASSUME NEW i \in 1..k, i - 1 \in T, ~(b <= sum[i])
                PROVE  stop[i] \in visited /\ dist[stop[i]] <= sum[i]
    OBVIOUS
  <2>1. /\ i - 1 \in 0..k /\ i \in 0..k /\ seg[i] \in Segments
        /\ stop[i - 1] \in Nodes /\ stop[i] \in Nodes
        /\ sum[i - 1] \in Nat /\ sum[i] \in Nat
    OBVIOUS
  <2>2. /\ weight[seg[i]] \in Nat /\ sum[i] = sum[i - 1] + weight[seg[i]]
        /\ Joins(seg[i], stop[i - 1], stop[i])
    BY <2>1 DEF Types, IsWalk
  <2>3. ~(b <= sum[i - 1])
    BY <2>1, <2>2
  <2>4. stop[i - 1] \in visited /\ dist[stop[i - 1]] <= sum[i - 1]
    BY <2>1, <2>3
  <2>5. dist[stop[i - 1]] \in Nat /\ ~(b <= dist[stop[i - 1]])
    BY <1>1, <2>1, <2>3, <2>4 DEF Types
  <2>6. seg[i] \in At(stop[i - 1]) /\ OtherEnd(seg[i], stop[i - 1]) = stop[i]
    BY <2>1, <2>2, JoinsAt
  <2>7. /\ stop[i] \in DOMAIN dist
        /\ dist[stop[i]] <= dist[stop[i - 1]] + weight[seg[i]]
    BY <2>4, <2>5, <2>6 DEF Relaxed
  <2>8. dist[stop[i]] \in Nat
    BY <1>1, <2>7
  <2>9. dist[stop[i]] <= sum[i]
    BY <2>1, <2>2, <2>4, <2>5, <2>7, <2>8
  <2>10. stop[i] \in visited
    BY <2>1, <2>7, <2>8, <2>9
  <2>. QED
    BY <2>9, <2>10
<1>4. \A i \in 0..k : i \in T
  <2>. HIDE DEF T
  <2>. QED
    BY <1>2, <1>3, InductTo
<1>5. k \in 0..k
  OBVIOUS
<1>. QED
  BY <1>4, <1>5

\* No walk to a node taken is shorter than its distance.
LEMMA NoneShorter ==
    ASSUME Inv, NEW v \in visited, NEW k \in Nat,
           NEW stop \in [0..k -> Nodes], NEW seg \in [1..k -> Segments],
           NEW sum \in [0..k -> Nat], IsWalk(k, stop, seg, sum),
           stop[0] = source, sum[0] = 0, stop[k] = v
    PROVE  dist[v] <= sum[k]
<1>1. Types /\ \A x \in DOMAIN dist : dist[x] \in Nat
  BY DEF Inv, Types
<1>2. v \in DOMAIN dist /\ dist[v] \in Nat /\ visited \subseteq DOMAIN dist
  BY <1>1 DEF Types
<1>3. /\ \A w \in DOMAIN dist \ visited : dist[v] <= dist[w]
      /\ \A u \in visited : \A s \in At(u) :
            Relaxed(u, s) \/ dist[v] <= dist[u]
  <2>1. CASE pc = "pop"
    <3>1. HeapOK /\ Ordered /\ Closed /\ here \in DOMAIN dist
      BY <1>1, <2>1 DEF Inv, Searching, Types
    <3>2. dist[v] <= dist[here] /\ dist[here] \in Nat
      BY <1>1, <3>1 DEF Ordered
    <3>3. ASSUME NEW w \in DOMAIN dist \ visited
          PROVE  dist[v] <= dist[w]
      <4>1. <<dist[w], w>> \in pq
        BY <3>1 DEF HeapOK
      <4>2. dist[here] <= <<dist[w], w>>[1]
        BY <3>1, <4>1 DEF Ordered
      <4>. QED
        BY <1>1, <1>2, <3>2, <4>2
    <3>. QED
      BY <3>1, <3>2, <3>3 DEF Closed
  <2>2. CASE pc \in {"back", "found"}
    <3>1. /\ \A x \in visited : dist[x] <= dist[target]
          /\ \A x \in DOMAIN dist \ visited : dist[target] <= dist[x]
          /\ \A u \in visited \ {target} : \A s \in At(u) : Relaxed(u, s)
          /\ target \in visited
      BY <2>2 DEF Inv, Settled
    <3>. QED
      BY <1>1, <1>2, <3>1
  <2>3. CASE pc = "none"
    BY <2>3 DEF Inv, Nowhere
  <2>4. pc # "begin"
    BY DEF Inv, Searching
  <2>. QED
    BY <1>1, <2>1, <2>2, <2>3, <2>4 DEF Types
<1>4. dist[v] <= sum[k] \/ (stop[k] \in visited /\ dist[stop[k]] <= sum[k])
  BY <1>1, <1>2, <1>3, LongerOutside
<1>. QED
  BY <1>4
-----------------------------------------------------------------------------
(* The reference: the least totals of the walks of at most k segments.     *)

\* What Within[k] is: a distance for some of the nodes.
Tables == UNION {[d -> Nat] : d \in SUBSET Nodes}

\* Min is the least element.
LEMMA MinOf ==
    ASSUME NEW T \in SUBSET Nat, T # {}
    PROVE  Min(T) \in T /\ \A x \in T : Min(T) <= x
<1>1. \E m \in T : \A x \in T : m <= x
  BY LeastOf
<1>. QED
  BY <1>1 DEF Min

\* What one segment more makes of a table.
LEMMA OneMoreIs ==
    ASSUME Types, NEW g \in Tables
    PROVE  /\ OneMore(g) \in Tables
           /\ DOMAIN OneMore(g) = {v \in Nodes : Totals(g, v) # {}}
           /\ \A v \in DOMAIN OneMore(g) :
                 /\ OneMore(g)[v] \in Totals(g, v)
                 /\ \A x \in Totals(g, v) : OneMore(g)[v] <= x
<1>1. \A v : Totals(g, v) \in SUBSET Nat
  <2>1. \A u \in DOMAIN g : g[u] \in Nat
    BY DEF Tables
  <2>. QED
    BY <2>1 DEF Totals, Types
<1>2. \A v : Totals(g, v) # {} =>
         /\ Min(Totals(g, v)) \in Totals(g, v) /\ Min(Totals(g, v)) \in Nat
         /\ \A x \in Totals(g, v) : Min(Totals(g, v)) <= x
  BY <1>1, MinOf
<1>. DEFINE d == {v \in Nodes : Totals(g, v) # {}}
<1>3. OneMore(g) = [v \in d |-> Min(Totals(g, v))]
  BY DEF OneMore
<1>. HIDE DEF d
<1>4. /\ DOMAIN OneMore(g) = d
      /\ \A v \in d : OneMore(g)[v] = Min(Totals(g, v))
  BY <1>3
<1>5. \A v \in d : Min(Totals(g, v)) \in Nat
  BY <1>2 DEF d
<1>6. OneMore(g) \in [d -> Nat] /\ d \in SUBSET Nodes
  <2>1. OneMore(g) \in [d -> Nat]
    BY <1>3, <1>5
  <2>. QED
    BY <2>1 DEF d
<1>7. OneMore(g) \in Tables
  BY <1>6 DEF Tables
<1>. QED
  BY <1>2, <1>4, <1>7 DEF d

\* The recursive definition of the reference unfolds.
LEMMA WithinUnfolds ==
    ASSUME Types
    PROVE  /\ Within[0] = [v \in {source} |-> 0]
           /\ \A k \in Nat : Within[k] \in Tables
           /\ \A k \in Nat \ {0} : Within[k] = OneMore(Within[k - 1])
<1>. DEFINE base == [v \in {source} |-> 0]
            step == [x \in (Nat \ {0}) \X Tables |-> OneMore(x[2])]
<1>1. base \in Tables
  <2>1. base \in [{source} -> Nat] /\ {source} \in SUBSET Nodes
    BY DEF Types
  <2>. QED
    BY <2>1 DEF Tables
<1>2. \A i \in Nat \ {0} : \A d \in Tables : step[<<i, d>>] = OneMore(d)
  OBVIOUS
<1>3. \A i \in Nat \ {0} : \A d \in Tables : step[<<i, d>>] \in Tables
  BY <1>2, OneMoreIs
<1>. HIDE DEF base, step
<1>4. PICK f : Runs(base, step, Tables, f)
  <2>1. \A n \in Nat : StaysIn(n, step, Tables)
    <3>1. \A n \in Nat : \A i \in 1..n : i \in Nat \ {0}
      OBVIOUS
    <3>. QED
      BY <1>3, <3>1 DEF StaysIn
  <2>. QED
    BY <1>1, <2>1, Recursion
<1>5. /\ f \in [Nat -> Tables] /\ f[0] = base
      /\ \A i \in Nat \ {0} : f[i] = step[<<i, f[i - 1]>>]
  BY <1>4 DEF Runs
<1>6. \A k \in Nat \ {0} : f[k] = OneMore(f[k - 1])
  <2>. TAKE k \in Nat \ {0}
  <2>1. k - 1 \in Nat /\ f[k - 1] \in Tables
    BY <1>5
  <2>. QED
    BY <1>2, <1>5, <2>1
<1>. DEFINE Solves(g) == g = [k \in Nat |->
                 IF k = 0 THEN [v \in {source} |-> 0] ELSE OneMore(g[k - 1])]
<1>7. Solves(f)
  BY <1>5, <1>6 DEF base
<1>8. Within = CHOOSE g : Solves(g)
  BY DEF Within
<1>9. Solves(Within)
  <2>. HIDE DEF Solves
  <2>. QED
    BY <1>7, <1>8
<1>10. /\ Within[0] = base
       /\ \A k \in Nat \ {0} : Within[k] = OneMore(Within[k - 1])
  BY <1>9 DEF base
<1>. DEFINE T == {k \in Nat : Within[k] \in Tables}
<1>11. 0 \in T /\ T \in SUBSET Nat
  BY <1>1, <1>10
<1>12. \A k \in T : k + 1 \in T
  <2>. TAKE k \in T
  <2>1. k + 1 \in Nat \ {0} /\ (k + 1) - 1 = k
    OBVIOUS
  <2>. QED
    BY <1>10, <2>1, OneMoreIs
<1>13. T = Nat
  <2>. HIDE DEF T
  <2>. QED
    BY <1>11, <1>12, Induct
<1>. QED
  BY <1>10, <1>13 DEF base

\* The nodes and values of the reference are of walks.
LEMMA WithinHasWalk ==
    ASSUME Types, NEW k \in Nat, NEW v \in DOMAIN Within[k]
    PROVE  \E n \in Nat : WalkTo(n, v, Within[k][v])
<1>. DEFINE T == {i \in Nat : \A u \in DOMAIN Within[i] :
                                 \E n \in Nat : WalkTo(n, u, Within[i][u])}
<1>1. 0 \in T
  <2>. DEFINE stop == [i \in 0..0 |-> source]
              sum == [i \in 0..0 |-> 0]
              seg == [i \in 1..0 |-> CHOOSE s \in Segments : TRUE]
  <2>1. /\ stop \in [0..0 -> Nodes] /\ sum \in [0..0 -> Nat]
        /\ seg \in [1..0 -> Segments] /\ stop[0] = source /\ sum[0] = 0
    BY DEF Types
  <2>. HIDE DEF stop, sum, seg
  <2>2. IsWalk(0, stop, seg, sum)
    BY DEF IsWalk
  <2>3. WalkTo(0, source, 0)
    BY <2>1, <2>2 DEF WalkTo
  <2>4. DOMAIN Within[0] = {source} /\ Within[0][source] = 0
    BY WithinUnfolds
  <2>. QED
    BY <2>3, <2>4
<1>2. \A i \in T : i + 1 \in T
  <2>. SUFFICES ASSUME NEW i \in T, NEW u \in DOMAIN Within[i + 1]
                PROVE  \E n \in Nat : WalkTo(n, u, Within[i + 1][u])
    OBVIOUS
  <2>1. Within[i + 1] = OneMore(Within[i]) /\ Within[i] \in Tables
    <3>1. i + 1 \in Nat \ {0} /\ (i + 1) - 1 = i
      OBVIOUS
    <3>. QED
      BY <3>1, WithinUnfolds
  <2>2. u \in Nodes /\ Within[i + 1][u] \in Totals(Within[i], u)
    BY <2>1, OneMoreIs
  <2>3. CASE u \in DOMAIN Within[i] /\ Within[i + 1][u] = Within[i][u]
    BY <2>3
  <2>4. ASSUME NEW w \in DOMAIN Within[i], NEW s \in Segments, Joins(s, w, u),
               Within[i + 1][u] = Within[i][w] + weight[s]
        PROVE  \E n \in Nat : WalkTo(n, u, Within[i + 1][u])
    <3>1. PICK n \in Nat : WalkTo(n, w, Within[i][w])
      OBVIOUS
    <3>2. PICK stop \in [0..n -> Nodes], seg \in [1..n -> Segments],
               sum \in [0..n -> Nat] :
              /\ IsWalk(n, stop, seg, sum)
              /\ stop[0] = source /\ sum[0] = 0 /\ stop[n] = w
              /\ sum[n] = Within[i][w]
      BY <3>1 DEF WalkTo
    <3>3. Typed(n, stop, seg, sum) /\ Joins(s, stop[n], u)
          /\ IsWalk(n, stop, seg, sum)
      BY <2>4, <3>2 DEF Typed
    <3>. DEFINE stop2 == Set(stop, n + 1, u)
                seg2 == Set(seg, n + 1, s)
                sum2 == Set(sum, n + 1, sum[n] + weight[s])
    <3>4. /\ Typed(n + 1, stop2, seg2, sum2)
          /\ IsWalk(n + 1, stop2, seg2, sum2)
          /\ \A j \in 0..n : stop2[j] = stop[j] /\ sum2[j] = sum[j]
          /\ stop2[n + 1] = u /\ sum2[n + 1] = sum[n] + weight[s]
      BY <2>2, <3>3, OneSegmentMore
    <3>. HIDE DEF stop2, seg2, sum2
    <3>5. stop2[0] = source /\ sum2[0] = 0
          /\ sum2[n + 1] = Within[i + 1][u]
      BY <2>4, <3>2, <3>4
    <3>6. WalkTo(n + 1, u, Within[i + 1][u])
      BY <3>4, <3>5 DEF WalkTo, Typed
    <3>. QED
      BY <3>6
  <2>. QED
    BY <2>2, <2>3, <2>4 DEF Totals
<1>3. T = Nat
  <2>. HIDE DEF T
  <2>1. T \in SUBSET Nat
    BY DEF T
  <2>. QED
    BY <1>1, <1>2, <2>1, Induct
<1>. QED
  BY <1>3

\* The reference is no more than the weight of any walk of so many segments.
LEMMA WithinBelow ==
    ASSUME Types, NEW n \in Nat, NEW stop, NEW seg, NEW sum,
           Typed(n, stop, seg, sum), IsWalk(n, stop, seg, sum),
           stop[0] = source, sum[0] = 0
    PROVE  stop[n] \in DOMAIN Within[n] /\ Within[n][stop[n]] <= sum[n]
<1>. DEFINE T == {i \in 0..n : /\ stop[i] \in DOMAIN Within[i]
                               /\ Within[i][stop[i]] <= sum[i]}
<1>1. 0 \in T
  BY WithinUnfolds
<1>2. \A i \in 1..n : i - 1 \in T => i \in T
  <2>. SUFFICES ASSUME NEW i \in 1..n, i - 1 \in T PROVE i \in T
    OBVIOUS
  <2>. DEFINE g == Within[i - 1]
  <2>1. /\ i \in Nat \ {0} /\ i - 1 \in Nat /\ i - 1 \in 0..n /\ i \in 0..n
    OBVIOUS
  <2>2. Within[i] = OneMore(g) /\ g \in Tables
    BY <2>1, WithinUnfolds
  <2>3. /\ Joins(seg[i], stop[i - 1], stop[i]) /\ seg[i] \in Segments
        /\ stop[i] \in Nodes /\ sum[i] = sum[i - 1] + weight[seg[i]]
        /\ weight[seg[i]] \in Nat /\ sum[i - 1] \in Nat
    BY <2>1 DEF IsWalk, Typed, Types
  <2>4. /\ stop[i - 1] \in DOMAIN g /\ g[stop[i - 1]] <= sum[i - 1]
    OBVIOUS
  <2>5. g[stop[i - 1]] \in Nat
    BY <2>2, <2>4 DEF Tables
  <2>. HIDE DEF g
  <2>. DEFINE x == g[stop[i - 1]] + weight[seg[i]]
  <2>6. x \in Totals(g, stop[i]) /\ x <= sum[i] /\ x \in Nat
    <3>1. x \in Totals(g, stop[i])
      <4>. DEFINE e == <<stop[i - 1], seg[i]>>
      <4>1. /\ e \in (DOMAIN g) \X Segments /\ Joins(e[2], e[1], stop[i])
            /\ x = g[e[1]] + weight[e[2]]
        BY <2>3, <2>4
      <4>. QED
        BY <4>1 DEF Totals
    <3>. QED
      BY <2>3, <2>4, <2>5, <3>1
  <2>. HIDE DEF x
  <2>7. stop[i] \in DOMAIN OneMore(g) /\ OneMore(g)[stop[i]] <= x
    BY <2>2, <2>3, <2>6, OneMoreIs
  <2>8. OneMore(g)[stop[i]] \in Nat
    <3>1. OneMore(g) \in Tables
      BY <2>2, OneMoreIs
    <3>. QED
      BY <2>7, <3>1 DEF Tables
  <2>. QED
    BY <2>1, <2>2, <2>3, <2>6, <2>7, <2>8
<1>3. \A i \in 0..n : i \in T
  <2>. HIDE DEF T
  <2>. QED
    BY <1>1, <1>2, InductTo
<1>4. n \in 0..n
  OBVIOUS
<1>. QED
  BY <1>3, <1>4

\* More segments reach no fewer nodes, with no greater totals.
LEMMA WithinGrows ==
    ASSUME Types, NEW n \in Nat, NEW m \in Nat, n <= m,
           NEW v \in DOMAIN Within[n]
    PROVE  v \in DOMAIN Within[m] /\ Within[m][v] <= Within[n][v]
<1>. DEFINE T == {i \in Nat : i <= m - n =>
                     /\ v \in DOMAIN Within[n + i]
                     /\ Within[n + i][v] <= Within[n][v]}
<1>1. \A i \in Nat : \A u \in DOMAIN Within[i] :
         Within[i][u] \in Nat /\ u \in Nodes
  BY WithinUnfolds DEF Tables
<1>2. 0 \in T
  BY <1>1
<1>3. \A i \in T : i + 1 \in T
  <2>. SUFFICES ASSUME NEW i \in T, i + 1 <= m - n
                PROVE  /\ v \in DOMAIN Within[n + (i + 1)]
                       /\ Within[n + (i + 1)][v] <= Within[n][v]
    OBVIOUS
  <2>. DEFINE k == n + i
  <2>1. /\ v \in DOMAIN Within[k] /\ Within[k][v] <= Within[n][v]
        /\ k \in Nat /\ k + 1 \in Nat \ {0} /\ (k + 1) - 1 = k
        /\ n + (i + 1) = k + 1
    OBVIOUS
  <2>. HIDE DEF k
  <2>2. Within[k + 1] = OneMore(Within[k]) /\ Within[k] \in Tables
    BY <2>1, WithinUnfolds
  <2>3. Within[k][v] \in Totals(Within[k], v) /\ v \in Nodes
    BY <1>1, <2>1 DEF Totals
  <2>4. v \in DOMAIN Within[k + 1] /\ Within[k + 1][v] <= Within[k][v]
    BY <2>2, <2>3, OneMoreIs
  <2>5. Within[k + 1][v] \in Nat /\ Within[k][v] \in Nat /\ Within[n][v] \in Nat
    BY <1>1, <2>1, <2>4
  <2>. QED
    BY <2>1, <2>4, <2>5
<1>4. T = Nat
  <2>. HIDE DEF T
  <2>1. T \in SUBSET Nat
    BY DEF T
  <2>. QED
    BY <1>2, <1>3, <2>1, Induct
<1>5. m - n \in Nat /\ n + (m - n) = m /\ m - n <= m - n
  OBVIOUS
<1>. QED
  BY <1>4, <1>5
-----------------------------------------------------------------------------
(* What is returned.                                                       *)

\* A walk that begins in what was reached stays in it.
LEMMA NoneLeadsThere ==
    ASSUME Types, Nowhere, pc = "none", NEW k \in Nat,
           NEW stop \in [0..k -> Nodes], NEW seg \in [1..k -> Segments],
           NEW sum \in [0..k -> Nat], Connects(k, stop, seg, sum)
    PROVE  FALSE
<1>1. /\ stop[0] = source /\ stop[k] = target
      /\ \A i \in 1..k : Joins(seg[i], stop[i - 1], stop[i])
  BY DEF Connects, IsWalk
<1>2. \A i \in 1..k :
          /\ i - 1 \in 0..k /\ i \in 0..k /\ seg[i] \in Segments
          /\ stop[i - 1] \in Nodes /\ stop[i] \in Nodes
  OBVIOUS
<1>3. \A i \in 1..k : /\ seg[i] \in At(stop[i - 1]) /\ seg[i] \in At(stop[i])
                      /\ OtherEnd(seg[i], stop[i - 1]) = stop[i]
  BY <1>1, <1>2, JoinsAt
<1>4. k # 0 /\ 1 \in 1..k /\ k \in 1..k
  BY <1>1 DEF Types
<1>5. CASE At(source) = {} \/ At(target) = {}
  <2>1. seg[1] \in At(stop[1 - 1]) /\ seg[k] \in At(stop[k])
    BY <1>3, <1>4
  <2>. QED
    BY <1>1, <1>5, <2>1
<1>6. CASE /\ source \in visited /\ target \notin visited
           /\ DOMAIN dist = visited
           /\ \A u \in visited : \A s \in At(u) : Relaxed(u, s)
  <2>. DEFINE T == {i \in 0..k : stop[i] \in visited}
  <2>1. 0 \in T
    BY <1>1, <1>6
  <2>2. \A i \in 1..k : i - 1 \in T => i \in T
    BY <1>2, <1>3, <1>6 DEF Relaxed
  <2>3. \A i \in 0..k : i \in T
    <3>. HIDE DEF T
    <3>. QED
      BY <2>1, <2>2, InductTo
  <2>. QED
    BY <1>1, <1>4, <1>6, <2>3
<1>. QED
  BY <1>5, <1>6 DEF Nowhere

\* The walks of the search tree are within the reference's bound.
LEMMA ShortestBelow ==
    ASSUME Inv, NEW v \in DOMAIN dist
    PROVE  v \in DOMAIN Shortest /\ Shortest[v] <= dist[v]
<1>1. Types /\ WayBack
  BY DEF Inv
<1>2. PICK n \in Nat :
          \E stop \in [0..n -> Nodes], seg \in [1..n -> Segments],
             sum \in [0..n -> Nat] :
              /\ IsWalk(n, stop, seg, sum)
              /\ stop[0] = source /\ stop[n] = v
              /\ \A i \in 0..n :
                    stop[i] \in DOMAIN dist /\ sum[i] = dist[stop[i]]
  BY <1>1, TreeWalk
<1>3. PICK stop \in [0..n -> Nodes], seg \in [1..n -> Segments],
           sum \in [0..n -> Nat] :
          /\ IsWalk(n, stop, seg, sum)
          /\ stop[0] = source /\ stop[n] = v
          /\ \A i \in 0..n : stop[i] \in DOMAIN dist /\ sum[i] = dist[stop[i]]
  BY <1>2
<1>4. /\ Cardinality(Nodes) \in Nat /\ n <= Cardinality(Nodes) - 1
      /\ Cardinality(Nodes) - 1 \in Nat
  <2>1. Cardinality(Nodes) \in Nat /\ n <= Cardinality(Nodes) - 1
    BY <1>1, <1>3, TreeWalkIsSimple
  <2>. QED
    BY <2>1
<1>5. /\ sum[0] = 0 /\ sum[n] = dist[v] /\ Typed(n, stop, seg, sum)
      /\ dist[v] \in Nat
  <2>1. 0 \in 0..n /\ n \in 0..n
    OBVIOUS
  <2>. QED
    BY <1>1, <1>3, <2>1 DEF Types, Typed
<1>6. v \in DOMAIN Within[n] /\ Within[n][v] <= dist[v]
  BY <1>1, <1>3, <1>5, WithinBelow
<1>7. v \in DOMAIN Shortest /\ Shortest[v] <= Within[n][v]
  BY <1>1, <1>4, <1>6, WithinGrows DEF Shortest
<1>8. Shortest[v] \in Nat /\ Within[n][v] \in Nat
  <2>1. Within[n] \in Tables /\ Shortest \in Tables
    BY <1>1, <1>4, WithinUnfolds DEF Shortest
  <2>. QED
    BY <1>6, <1>7, <2>1 DEF Tables
<1>. QED
  BY <1>5, <1>6, <1>7, <1>8

\* A node taken has the distance of the reference.
LEMMA TakenIsFinal ==
    ASSUME Inv, NEW v \in visited
    PROVE  v \in DOMAIN Shortest /\ dist[v] = Shortest[v]
<1>1. Types /\ v \in DOMAIN dist /\ dist[v] \in Nat
  BY DEF Inv, Types
<1>2. v \in DOMAIN Shortest /\ Shortest[v] <= dist[v]
  BY <1>1, ShortestBelow
<1>3. Cardinality(Nodes) - 1 \in Nat
  <2>1. Cardinality(Nodes) \in Nat /\ Cardinality(Nodes) # 0
    BY <1>1, DijkstraAssumption, FS_CardinalityType, FS_EmptySet DEF Types
  <2>. QED
    BY <2>1
<1>4. PICK n \in Nat : WalkTo(n, v, Shortest[v])
  BY <1>1, <1>2, <1>3, WithinHasWalk DEF Shortest
<1>5. PICK stop \in [0..n -> Nodes], seg \in [1..n -> Segments],
           sum \in [0..n -> Nat] :
          /\ IsWalk(n, stop, seg, sum) /\ stop[0] = source /\ sum[0] = 0
          /\ stop[n] = v /\ sum[n] = Shortest[v]
  BY <1>4 DEF WalkTo
<1>6. dist[v] <= sum[n] /\ sum[n] \in Nat
  BY <1>5, NoneShorter
<1>. QED
  BY <1>1, <1>2, <1>5, <1>6

\* A node taken from the heap has its final distance, in every state of every
\* run (route_optimizer.py:89-102).
THEOREM TakenAreFinal == Spec => []VisitedAreFinal
<1>1. Inv => VisitedAreFinal
  BY TakenIsFinal DEF VisitedAreFinal
<1>. QED
  BY <1>1, AlwaysInv, PTL

\* What the weights of a path add up to is the sum at its end.
LEMMA TotalIs ==
    ASSUME Types, NEW stop, NEW sum, Typed(Len(path), stop, path, sum),
           IsWalk(Len(path), stop, path, sum), sum[0] = 0
    PROVE  Total(path) = sum[Len(path)]
<1>. DEFINE n == Len(path)
            Adds(g) == g = [i \in 0..n |->
                               IF i = 0 THEN 0 ELSE g[i - 1] + weight[path[i]]]
            total == CHOOSE g : Adds(g)
<1>1. n \in Nat /\ sum \in [0..n -> Nat]
  BY DEF Types, Typed
<1>2. \A i \in 1..n : sum[i] = sum[i - 1] + weight[path[i]]
  BY DEF IsWalk
<1>3. Total(path) = total[n]
  BY DEF Total
<1>. HIDE DEF n
<1>4. Adds(sum)
  <2>1. \A i \in 0..n : i # 0 => i \in 1..n
    BY <1>1
  <2>. QED
    BY <1>1, <1>2, <2>1
<1>5. Adds(total)
  <2>. HIDE DEF Adds
  <2>. QED
    BY <1>4
<1>. HIDE DEF total
<1>. DEFINE T == {i \in 0..n : total[i] = sum[i]}
<1>6. 0 \in T
  BY <1>1, <1>5
<1>7. \A i \in 1..n : i - 1 \in T => i \in T
  <2>. SUFFICES ASSUME NEW i \in 1..n, i - 1 \in T PROVE total[i] = sum[i]
    BY <1>1
  <2>1. i \in 0..n /\ i # 0
    BY <1>1
  <2>2. total[i] = total[i - 1] + weight[path[i]]
    BY <1>5, <2>1
  <2>. QED
    BY <1>2, <2>2
<1>8. \A i \in 0..n : i \in T
  <2>. HIDE DEF T
  <2>. QED
    BY <1>1, <1>6, <1>7, InductTo
<1>9. n \in 0..n
  BY <1>1
<1>. QED
  BY <1>3, <1>8, <1>9 DEF n

\* What is returned is a shortest route, of the distance returned, and no
\* segment occurs in it twice (route_optimizer.py:86-115, schema.sql:181).
THEOREM RouteFoundIsShortest == Spec => []RouteIsShortest
<1>1. Inv => RouteIsShortest
  <2>. SUFFICES ASSUME Inv, pc = "found" PROVE RouteIsShortest
    BY DEF RouteIsShortest
  <2>. DEFINE n == Len(path)
  <2>1. /\ Types /\ target \in visited /\ here = source /\ dist[source] = 0
        /\ n \in Nat /\ path \in [1..n -> Segments]
    BY DEF Inv, Types, Settled, OnTheWay
  <2>2. PICK stop \in [0..n -> Nodes], sum \in [0..n -> Nat] :
            /\ IsWalk(n, stop, path, sum)
            /\ stop[0] = here /\ stop[n] = target
            /\ \A i \in 0..n : stop[i] \in DOMAIN dist /\ sum[i] = dist[stop[i]]
    BY DEF Inv, OnTheWay
  <2>3. LeadsToTarget(path)
    BY <2>1, <2>2 DEF LeadsToTarget, IsWalk
  <2>4. Total(path) = dist[target]
    <3>1. 0 \in 0..n /\ n \in 0..n
      BY <2>1
    <3>2. sum[0] = 0 /\ sum[n] = dist[target] /\ Typed(n, stop, path, sum)
      BY <2>1, <2>2, <3>1 DEF Typed
    <3>. QED
      BY <2>1, <2>2, <3>2, TotalIs
  <2>5. dist[target] = Shortest[target]
    BY <2>1, TakenIsFinal
  <2>6. \A i, j \in 1..n : path[i] = path[j] => i = j
    <3>. SUFFICES ASSUME NEW i \in 1..n, NEW j \in 1..n, path[i] = path[j]
                  PROVE  i = j
      OBVIOUS
    <3>1. \A k, m \in 0..n : stop[k] = stop[m] => k = m
      <4>. HIDE DEF n
      <4>1. /\ \A k \in 0..n :
                  stop[k] \in DOMAIN dist /\ sum[k] = dist[stop[k]]
            /\ IsWalk(n, stop, path, sum)
        BY <2>2
      <4>2. Types /\ n \in Nat /\ path \in [1..n -> Segments]
        BY <2>1
      <4>. QED
        BY <4>1, <4>2, TreeWalkIsSimple, Zenon
    <3>2. /\ i \in 0..n /\ i - 1 \in 0..n /\ j \in 0..n /\ j - 1 \in 0..n
      BY <2>1
    <3>3. /\ Joins(path[i], stop[i - 1], stop[i])
          /\ Joins(path[i], stop[j - 1], stop[j])
      BY <2>2 DEF IsWalk
    <3>4. \/ stop[i] = stop[j]
          \/ stop[i] = stop[j - 1] /\ stop[i - 1] = stop[j]
      BY <3>3 DEF Joins
    <3>5. i = j \/ (i = j - 1 /\ i - 1 = j)
      BY <3>1, <3>2, <3>4
    <3>. QED
      BY <3>5
  <2>. QED
    BY <2>3, <2>4, <2>5, <2>6 DEF RouteIsShortest
<1>. QED
  BY <1>1, AlwaysInv, PTL

\* None is returned only when the reference has no total for the target
\* (route_optimizer.py:83-84, 103-104).
THEOREM NoneIsNoRoute == Spec => []NoneMeansNoRoute
<1>1. Inv => NoneMeansNoRoute
  <2>. SUFFICES ASSUME Inv, pc = "none", target \in DOMAIN Shortest
                PROVE  FALSE
    BY DEF NoneMeansNoRoute
  <2>1. Types /\ Nowhere
    BY DEF Inv
  <2>2. Cardinality(Nodes) - 1 \in Nat
    <3>1. Cardinality(Nodes) \in Nat /\ Cardinality(Nodes) # 0
      BY <2>1, DijkstraAssumption, FS_CardinalityType, FS_EmptySet DEF Types
    <3>. QED
      BY <3>1
  <2>3. PICK n \in Nat : WalkTo(n, target, Shortest[target])
    BY <2>1, <2>2, WithinHasWalk DEF Shortest
  <2>4. PICK stop \in [0..n -> Nodes], seg \in [1..n -> Segments],
             sum \in [0..n -> Nat] : Connects(n, stop, seg, sum)
    BY <2>3 DEF WalkTo, Connects
  <2>. QED
    BY <2>1, <2>4, NoneLeadsThere
<1>. QED
  BY <1>1, AlwaysInv, PTL

\* The path returned is a route of the distance returned, and no walk from the
\* source to the target is shorter, however long it is (route_optimizer.py:
\* 86-115).
THEOREM FoundRouteIsShortest == Spec => []FoundIsShortest
<1>1. Inv => FoundIsShortest
  <2>. SUFFICES ASSUME Inv, pc = "found" PROVE FoundIsShortest
    BY DEF FoundIsShortest
  <2>1. Types /\ Settled /\ here = source /\ dist[source] = 0
    BY DEF Inv, Types, OnTheWay
  <2>2. PICK stop \in [0..Len(path) -> Nodes], sum \in [0..Len(path) -> Nat] :
            /\ IsWalk(Len(path), stop, path, sum)
            /\ stop[0] = here /\ stop[Len(path)] = target
            /\ \A i \in 0..Len(path) : sum[i] = dist[stop[i]]
    BY DEF Inv, OnTheWay
  <2>3. /\ 0 \in 0..Len(path) /\ Len(path) \in 0..Len(path)
    BY <2>1 DEF Types
  <2>4. Connects(Len(path), stop, path, sum)
    BY <2>1, <2>2, <2>3 DEF Connects
  <2>5. \A k \in Nat : \A st \in [0..k -> Nodes],
                           sg \in [1..k -> Segments], su \in [0..k -> Nat] :
            Connects(k, st, sg, su) => dist[target] <= su[k]
    BY <2>1, NoneShorter DEF Connects, Settled
  <2>. QED
    BY <2>2, <2>4, <2>5, <2>3 DEF FoundIsShortest
<1>. QED
  BY <1>1, AlwaysInv, PTL

\* None means that no walk leads from the source to the target, of whatever
\* length (route_optimizer.py:83-84, 103-104).
THEOREM NoneMeansNoWalk == Spec => []NoneIsRight
<1>1. Inv => NoneIsRight
  BY NoneLeadsThere DEF Inv, NoneIsRight
<1>. QED
  BY <1>1, AlwaysInv, PTL

\* The caller's reference is the one above.
LEMMA CallersReference ==
    /\ Caller!Shortest = Shortest
    /\ \A p : /\ Caller!LeadsToTarget(p) <=> LeadsToTarget(p)
             /\ Caller!Total(p) = Total(p)
<1>1. Caller!Within = Within
  BY Zenon DEF Caller!Within, Within, Caller!OneMore, OneMore, Caller!Totals,
     Totals, Caller!Joins, Joins, Caller!Min, Min
<1>2. Caller!Cardinality(Nodes) = Cardinality(Nodes)
  BY Zenon DEF Caller!Cardinality, Cardinality
<1>3. Caller!Shortest = Shortest
  BY <1>1, <1>2 DEF Caller!Shortest, Shortest
<1>4. ASSUME NEW p
      PROVE  Caller!LeadsToTarget(p) <=> LeadsToTarget(p)
  BY DEF Caller!LeadsToTarget, LeadsToTarget, Caller!Joins, Joins
<1>5. ASSUME NEW p
      PROVE  Caller!Total(p) = Total(p)
  BY DEF Caller!Total, Total
<1>. QED
  BY <1>3, <1>4, <1>5

\* Each step leaves the graph alone, and none follows an answer.
LEMMA StepsKeep ==
    ASSUME [Next]_vars
    PROVE  /\ UNCHANGED graph
           /\ pc \in {"none", "found"} => UNCHANGED <<pc, path, dist>>
BY DEF Next, Step, Begin, Pop, Relax, Exhausted, Back, Done, vars, search

\* To its caller the whole search is one step: one answer, the right one, and
\* the graph is left alone (SearchSpec, route_optimizer.py:80-144).
THEOREM DijkstraImplementsSearch == Spec => SearchSpec
<1>. DEFINE asked == <<ends, weight, source, target, Answer>>
<1>1. Init => Caller!Init
  <2>. SUFFICES ASSUME Init PROVE Caller!Init
    OBVIOUS
  <2>1. source # target
    BY InitInv DEF Inv, Types
  <2>2. pc = "begin"
    BY DEF Init
  <2>. QED
    BY <2>1, <2>2 DEF Caller!Init, Caller!Unanswered, Answer
<1>2. Inv' /\ [Next]_vars /\ RouteIsShortest' /\ NoneMeansNoRoute'
         /\ VisitedAreFinal' => [Caller!Next]_asked
  <2>. SUFFICES ASSUME Inv', [Next]_vars, RouteIsShortest', NoneMeansNoRoute',
                       VisitedAreFinal'
                PROVE  Caller!Next \/ UNCHANGED asked
    OBVIOUS
  <2>1. /\ UNCHANGED <<ends, weight, source, target>>
        /\ pc \in {"none", "found"} => UNCHANGED <<pc, path, dist>>
    BY StepsKeep DEF graph
  <2>2. Shortest' = Shortest /\ \A p : /\ LeadsToTarget(p)' = LeadsToTarget(p)
                                      /\ Total(p)' = Total(p)
    BY <2>1 DEF Shortest, Within, OneMore, Totals, Joins, LeadsToTarget, Total
  <2>3. CASE pc \in {"none", "found"}
    <3>1. UNCHANGED Answer
      BY <2>1, <2>3 DEF Answer
    <3>. QED
      BY <2>1, <3>1
  <2>4. CASE pc \notin {"none", "found"} /\ pc' = "none"
    <3>1. Answer = Caller!Unanswered
      BY <2>4 DEF Answer, Caller!Unanswered
    <3>2. target \notin DOMAIN Caller!Shortest
      BY <2>1, <2>2, <2>4, CallersReference DEF NoneMeansNoRoute
    <3>3. Answer' = [Answer EXCEPT !.status = "none"]
      BY <2>4, <3>1 DEF Answer, Caller!Unanswered
    <3>. QED
      BY <2>1, <3>1, <3>2, <3>3 DEF Caller!Next, Caller!RefuseRoute
  <2>5. CASE pc \notin {"none", "found"} /\ pc' = "found"
    <3>1. Answer = Caller!Unanswered
      BY <2>5 DEF Answer, Caller!Unanswered
    <3>2. Answer' = [status |-> "found", route |-> path',
                     total |-> dist'[target]]
      BY <2>1, <2>5 DEF Answer
    <3>3. /\ LeadsToTarget(path') /\ Total(path') = dist'[target]
          /\ dist'[target] = Shortest[target]
          /\ \A i, j \in 1..Len(path') : path'[i] = path'[j] => i = j
      BY <2>1, <2>2, <2>5 DEF RouteIsShortest
    <3>4. target \in DOMAIN Shortest
      BY <2>1, <2>2, <2>5 DEF Inv, Settled, VisitedAreFinal
    <3>. QED
      BY <2>1, <3>1, <3>2, <3>3, <3>4, CallersReference
         DEF Caller!Next, Caller!ReturnRoute
  <2>6. CASE {pc, pc'} \cap {"none", "found"} = {}
    <3>1. UNCHANGED Answer
      BY <2>6 DEF Answer
    <3>. QED
      BY <2>1, <3>1
  <2>. QED
    BY <2>3, <2>4, <2>5, <2>6
<1>. QED
  BY <1>1, <1>2, AlwaysInv, TakenAreFinal, RouteFoundIsShortest, NoneIsNoRoute,
     PTL DEF SearchSpec, Caller!Spec, Spec
-----------------------------------------------------------------------------
(***************************************************************************)
(* The search is short.  Every step lowers a natural number: an entry of   *)
(* the heap is gone, or a segment is looked at, which adds one entry at    *)
(* most, or a node is taken, and there are only so many of them; on the    *)
(* way back, one more node of the search tree has been passed.             *)
(***************************************************************************)
\* A node that is not taken may still bring all segments into the loop.
Ahead == (2 * Cardinality(Segments)) * Cardinality(Nodes \ visited)

\* What is left of the loop.
Looking == 2 * Cardinality(todo) + Cardinality(pq) + Ahead

\* A bound on the steps left.
StepsLeft ==
    LET n == Cardinality(Nodes)
    IN  CASE pc = "begin"   -> n + 3 + Looking
          [] pc = "pop"     -> n + 2 + Looking
          [] pc = "back"    -> n + 1 - Len(path)
          [] OTHER          -> 0

\* A search takes no more steps than it has left at its start: a few for
\* every node and every segment at every node.  So it never goes on for ever,
\* whatever entries of the heap it meets again.
SearchIsBounded == [](StepsLeft \in Nat) /\ [][StepsLeft' < StepsLeft]_vars

\* The heap is finite.
HeapIsFinite == IsFiniteSet(pq)

LEMMA HeapStaysFinite ==
    ASSUME HeapIsFinite, [Next]_vars
    PROVE  HeapIsFinite'
<1>1. CASE UNCHANGED pq
  BY <1>1 DEF HeapIsFinite
<1>2. CASE Pop
  <2>1. PICK top : pq' = pq \ {top}
    BY <1>2 DEF Pop, Popped
  <2>. QED
    BY <2>1, FS_RemoveElement DEF HeapIsFinite
<1>3. CASE Relax
  <2>1. PICK e : pq' = pq \cup {e} \/ pq' = pq
    BY <1>3 DEF Relax
  <2>. QED
    BY <2>1, FS_AddElement DEF HeapIsFinite
<1>. QED
  BY <1>1, <1>2, <1>3
     DEF Next, Step, Begin, Exhausted, Back, Done, vars, search

\* The parts of the number are natural numbers.
Counted ==
    /\ Cardinality(Nodes) \in Nat /\ Cardinality(Segments) \in Nat
    /\ IsFiniteSet(todo) /\ Cardinality(todo) \in Nat
    /\ IsFiniteSet(pq) /\ Cardinality(pq) \in Nat
    /\ IsFiniteSet(Nodes \ visited) /\ Cardinality(Nodes \ visited) \in Nat
    /\ Ahead \in Nat /\ Looking \in Nat /\ Len(path) \in Nat

LEMMA CountsAreNatural ==
    ASSUME Types, HeapIsFinite
    PROVE  Counted
<1>1. IsFiniteSet(Nodes) /\ IsFiniteSet(Segments)
  BY DijkstraAssumption
<1>2. IsFiniteSet(todo) /\ IsFiniteSet(Nodes \ visited)
  <2>1. todo \in SUBSET Segments /\ Nodes \ visited \in SUBSET Nodes
    BY DEF Types, At
  <2>. QED
    BY <1>1, <2>1, FS_Subset
<1>3. /\ Cardinality(Nodes) \in Nat /\ Cardinality(Segments) \in Nat
      /\ Cardinality(todo) \in Nat /\ Cardinality(pq) \in Nat
      /\ Cardinality(Nodes \ visited) \in Nat
  BY <1>1, <1>2, FS_CardinalityType DEF HeapIsFinite
<1>4. Ahead \in Nat
  <2>1. \A k, m \in Nat : (2 * k) * m \in Nat
    OBVIOUS
  <2>. QED
    BY <1>3, <2>1 DEF Ahead
<1>5. Looking \in Nat
  BY <1>3, <1>4 DEF Looking
<1>6. Len(path) \in Nat
  BY DEF Types
<1>. QED
  BY <1>2, <1>3, <1>4, <1>5, <1>6 DEF Counted, HeapIsFinite

\* The way back is no longer than there are nodes.
LEMMA WayBackIsShort ==
    ASSUME Inv, pc = "back"
    PROVE  Len(path) \in Nat /\ Len(path) <= Cardinality(Nodes) - 1
<1>1. Types /\ Len(path) \in Nat /\ path \in [1..Len(path) -> Segments]
  BY DEF Inv, Types
<1>2. PICK stop \in [0..Len(path) -> Nodes], sum \in [0..Len(path) -> Nat] :
         /\ IsWalk(Len(path), stop, path, sum)
         /\ \A i \in 0..Len(path) :
               stop[i] \in DOMAIN dist /\ sum[i] = dist[stop[i]]
  BY DEF Inv, OnTheWay
<1>. QED
  BY <1>1, <1>2, TreeWalkIsSimple

LEMMA StepsLeftIsNatural ==
    ASSUME Inv, HeapIsFinite
    PROVE  StepsLeft \in Nat
<1>1. Types /\ Cardinality(Nodes) \in Nat /\ Looking \in Nat
  BY CountsAreNatural DEF Inv, Counted
<1>2. CASE pc = "back"
  BY <1>1, <1>2, WayBackIsShort DEF StepsLeft
<1>. QED
  BY <1>1, <1>2 DEF StepsLeft, Types

\* An entry of the heap comes out, and perhaps a node with its segments.
LEMMA PopCounts ==
    ASSUME Inv, Counted, Counted', Pop
    PROVE  StepsLeft' < StepsLeft
<1>. DEFINE n == Cardinality(Nodes)
            k == 2 * Cardinality(Segments)
            open == Nodes \ visited
<1>1. Types /\ pc = "pop" /\ todo = {}
  BY DEF Inv, Pop
<1>2. PICK top \in Smallest :
          /\ pq' = Popped(top)
          /\ IF top[2] \in visited
             THEN UNCHANGED <<visited, here, todo, pc>>
             ELSE /\ visited' = visited \cup {top[2]}
                  /\ here' = top[2]
                  /\ IF top[2] = target
                     THEN pc' = "back" /\ todo' = {}
                     ELSE pc' = "pop" /\ todo' = At(top[2])
  BY DEF Pop
<1>3. top \in pq /\ top[2] \in Nodes
  BY <1>1 DEF Smallest, Types
<1>4. /\ n \in Nat /\ Cardinality(Segments) \in Nat /\ IsFiniteSet(pq)
      /\ IsFiniteSet(open) /\ Cardinality(open) \in Nat
      /\ Cardinality(pq) \in Nat /\ Ahead \in Nat /\ Looking \in Nat
  BY DEF Counted
<1>5. /\ Cardinality(todo') \in Nat /\ Ahead' \in Nat /\ Looking' \in Nat
      /\ Len(path') \in Nat /\ Cardinality(Nodes \ visited') \in Nat
  BY DEF Counted
<1>6. Cardinality(pq') = Cardinality(pq) - 1
  BY <1>2, <1>3, <1>4, FS_RemoveElement DEF Popped
<1>7. Cardinality(todo) = 0
  BY <1>1, FS_EmptySet
<1>8. StepsLeft = n + 2 + Looking /\ Looking = Cardinality(pq) + Ahead
  <2>1. Looking = Cardinality(pq) + Ahead
    BY <1>4, <1>7 DEF Looking
  <2>. QED
    BY <1>1, <2>1 DEF StepsLeft
<1>9. CASE top[2] \in visited
  <2>1. UNCHANGED <<visited, todo, pc>>
    BY <1>2, <1>9
  <2>2. StepsLeft' = n + 2 + Looking'
    BY <1>1, <2>1 DEF StepsLeft
  <2>3. Looking' = 2 * 0 + (Cardinality(pq) - 1) + Ahead
    BY <1>6, <1>7, <2>1 DEF Looking, Ahead
  <2>. QED
    BY <1>4, <1>8, <2>2, <2>3
<1>10. CASE top[2] \notin visited /\ top[2] = target
  <2>1. pc' = "back"
    BY <1>2, <1>10
  <2>2. StepsLeft' = n + 1 - Len(path')
    BY <2>1 DEF StepsLeft
  <2>3. n \in Nat /\ Looking \in Nat /\ Len(path') \in Nat
    BY <1>4, <1>5
  <2>. HIDE DEF n
  <2>. QED
    BY <1>8, <2>2, <2>3
<1>11. CASE top[2] \notin visited /\ top[2] # target
  <2>1. /\ visited' = visited \cup {top[2]} /\ pc' = "pop"
        /\ todo' = At(top[2])
    BY <1>2, <1>11
  <2>2. Cardinality(Nodes \ visited') = Cardinality(open) - 1
    <3>1. Nodes \ visited' = open \ {top[2]} /\ top[2] \in open
      BY <1>3, <1>11, <2>1
    <3>2. IsFiniteSet(open)
      BY <1>4
    <3>. HIDE DEF open
    <3>3. Cardinality(open \ {top[2]}) = Cardinality(open) - 1
      BY <3>1, <3>2, FS_RemoveElement
    <3>. QED
      BY <3>1, <3>3
  <2>3. Ahead' = Ahead - k
    <3>1. \A i, m \in Nat : (2 * i) * (m - 1) = (2 * i) * m - 2 * i
      OBVIOUS
    <3>2. Ahead' = k * (Cardinality(open) - 1)
      BY <2>2 DEF Ahead
    <3>. QED
      BY <1>4, <3>1, <3>2 DEF Ahead
  <2>4. Cardinality(todo') <= Cardinality(Segments)
    <3>1. todo' \in SUBSET Segments
      BY <2>1 DEF At
    <3>. QED
      BY <3>1, DijkstraAssumption, FS_Subset
  <2>5. StepsLeft' = n + 2 + Looking'
    BY <2>1 DEF StepsLeft
  <2>6. Looking' = 2 * Cardinality(todo') + Cardinality(pq') + Ahead'
    BY DEF Looking
  <2>7. 2 * Cardinality(todo') <= k /\ k \in Nat
    BY <1>4, <1>5, <2>4
  <2>. DEFINE t == 2 * Cardinality(todo')
  <2>8. t \in Nat
    BY <1>5
  <2>9. Looking' = t + (Cardinality(pq) - 1) + (Ahead - k)
    BY <1>6, <2>3, <2>6
  <2>10. /\ n \in Nat /\ Cardinality(pq) \in Nat /\ Ahead \in Nat
         /\ Looking \in Nat /\ Looking' \in Nat
    BY <1>4, <1>5
  <2>. HIDE DEF k, t, n
  <2>11. Looking' < Looking
    BY <1>8, <2>7, <2>8, <2>9, <2>10 DEF t
  <2>. QED
    BY <1>8, <2>5, <2>10, <2>11
<1>. QED
  BY <1>9, <1>10, <1>11

\* One segment less, one entry more at most.
LEMMA RelaxCounts ==
    ASSUME Counted, Counted', Relax
    PROVE  StepsLeft' < StepsLeft
<1>. DEFINE n == Cardinality(Nodes)
<1>1. pc = "pop" /\ UNCHANGED <<visited, pc>>
  BY DEF Relax
<1>2. PICK s \in todo :
         todo' = todo \ {s} /\ \E e : pq' = pq \/ pq' = pq \cup {e}
  BY DEF Relax
<1>3. PICK e : pq' = pq \/ pq' = pq \cup {e}
  BY <1>2
<1>4. todo' = todo \ {s} /\ (pq' = pq \/ pq' = pq \cup {e})
  BY <1>2, <1>3
<1>5. /\ n \in Nat /\ Ahead \in Nat /\ Looking \in Nat
      /\ IsFiniteSet(todo) /\ Cardinality(todo) \in Nat
      /\ IsFiniteSet(pq) /\ Cardinality(pq) \in Nat
  BY DEF Counted
<1>6. Cardinality(pq') \in Nat /\ Looking' \in Nat
  BY DEF Counted
<1>7. Cardinality(todo') = Cardinality(todo) - 1
  BY <1>4, <1>5, FS_RemoveElement
<1>8. Cardinality(pq') <= Cardinality(pq) + 1
  <2>1. Cardinality(pq) <= Cardinality(pq) + 1
    BY <1>5
  <2>2. \/ Cardinality(pq \cup {e}) = Cardinality(pq)
        \/ Cardinality(pq \cup {e}) = Cardinality(pq) + 1
    BY <1>5, FS_AddElement
  <2>3. Cardinality(pq \cup {e}) <= Cardinality(pq) + 1
    BY <1>5, <2>1, <2>2
  <2>. QED
    BY <1>4, <2>1, <2>3
<1>9. Looking' = 2 * Cardinality(todo') + Cardinality(pq') + Ahead
  BY <1>1 DEF Looking, Ahead
<1>10. StepsLeft = n + 2 + Looking /\ StepsLeft' = n + 2 + Looking'
  BY <1>1 DEF StepsLeft
<1>11. Looking = 2 * Cardinality(todo) + Cardinality(pq) + Ahead
  BY DEF Looking
<1>. QED
  BY <1>5, <1>6, <1>7, <1>8, <1>9, <1>10, <1>11

\* One step more on the way back.
LEMMA BackCounts ==
    ASSUME Inv, Back
    PROVE  StepsLeft' < StepsLeft
<1>. DEFINE n == Cardinality(Nodes)
<1>1. Types /\ pc = "back" /\ n \in Nat
      /\ Len(path) \in Nat /\ Len(path) <= n - 1
  <2>1. n \in Nat
    BY DijkstraAssumption, FS_CardinalityType
  <2>. QED
    BY <2>1, WayBackIsShort DEF Inv, Back
<1>2. StepsLeft = n + 1 - Len(path)
  BY <1>1 DEF StepsLeft
<1>3. CASE here = source
  <2>1. StepsLeft' = 0
    BY <1>3 DEF Back, StepsLeft
  <2>. QED
    BY <1>1, <1>2, <2>1
<1>4. CASE here # source
  <2>. DEFINE s == prev[here][2]
  <2>1. path' = <<s>> \o path /\ pc' = "back"
    BY <1>1, <1>4 DEF Back
  <2>2. s \in Segments /\ path \in Seq(Segments)
    BY <1>1, <1>4 DEF Inv, Types, WayBack
  <2>. HIDE DEF s
  <2>3. Len(path') = Len(path) + 1
    BY <2>1, <2>2
  <2>4. StepsLeft' = n + 1 - Len(path')
    BY <2>1 DEF StepsLeft
  <2>. QED
    BY <1>1, <1>2, <2>3, <2>4
<1>. QED
  BY <1>3, <1>4

\* Every step brings the search nearer to its end (SearchIsBounded,
\* route_optimizer.py:89-112).
THEOREM SearchIsShort == Spec => SearchIsBounded
<1>. DEFINE J == Inv /\ HeapIsFinite
<1>1. Init => J
  <2>1. Init => HeapIsFinite
    BY FS_Singleton DEF Init, HeapIsFinite
  <2>. QED
    BY <2>1, InitInv
<1>2. J /\ [Next]_vars => J'
  BY NextInv, HeapStaysFinite
<1>3. J => StepsLeft \in Nat /\ Inv /\ Counted
  BY StepsLeftIsNatural, CountsAreNatural DEF Inv
<1>4. Inv /\ Counted /\ Counted' /\ [Next]_vars
         => [StepsLeft' < StepsLeft]_vars
  <2>. SUFFICES ASSUME Inv, Counted, Counted', Next
                PROVE  StepsLeft' < StepsLeft \/ UNCHANGED vars
    OBVIOUS
  <2>1. CASE Begin
    <3>1. Cardinality(Nodes) \in Nat /\ Looking \in Nat
      BY DEF Counted
    <3>2. StepsLeft = Cardinality(Nodes) + 3 + Looking
      BY <2>1 DEF Begin, StepsLeft
    <3>3. UNCHANGED <<todo, pq, visited>> /\ pc' \in {"none", "pop"}
      BY <2>1 DEF Begin, search
    <3>4. Looking' = Looking
      BY <3>3 DEF Looking, Ahead
    <3>5. StepsLeft' = 0 \/ StepsLeft' = Cardinality(Nodes) + 2 + Looking
      BY <3>3, <3>4 DEF StepsLeft
    <3>. QED
      BY <3>1, <3>2, <3>5
  <2>2. CASE Exhausted
    <3>1. Cardinality(Nodes) \in Nat /\ Looking \in Nat
      BY DEF Counted
    <3>2. StepsLeft = Cardinality(Nodes) + 2 + Looking
      BY <2>2 DEF Exhausted, StepsLeft
    <3>3. pc' \in {"none", "back"}
      BY <2>2 DEF Exhausted
    <3>4. CASE pc' = "back"
      <4>1. StepsLeft' = Cardinality(Nodes) + 1 - Len(path')
            /\ Len(path') \in Nat
        BY <3>4 DEF StepsLeft, Counted
      <4>. QED
        BY <3>1, <3>2, <4>1
    <3>5. CASE pc' = "none"
      BY <3>1, <3>2, <3>5 DEF StepsLeft
    <3>. QED
      BY <3>3, <3>4, <3>5
  <2>3. CASE Pop
    BY <2>3, PopCounts
  <2>4. CASE Relax
    BY <2>4, RelaxCounts
  <2>5. CASE Back
    BY <2>5, BackCounts
  <2>6. CASE Done
    BY <2>6 DEF Done
  <2>. QED
    BY <2>1, <2>2, <2>3, <2>4, <2>5, <2>6 DEF Next, Step
<1>. QED
  BY <1>1, <1>2, <1>3, <1>4, PTL DEF Spec, SearchIsBounded
=============================================================================
