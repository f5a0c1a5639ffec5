--------------------------- MODULE VehicleProofs ----------------------------
(***************************************************************************)
(* Proofs about Vehicle, for any network, lengths, speeds and plans.       *)
(*                                                                         *)
(* What holds while a vehicle drives rests on what holds while it arrives. *)
(* There the trip either leads on from the node, or, when a planned trip   *)
(* had begun with the segment the vehicle came on and lost it, no leg of   *)
(* it touches the node: then it is dropped leg by leg and never driven.    *)
(***************************************************************************)
EXTENDS Vehicle, Lemmas, FiniteSetTheorems

\* Trip p begins at n, or there is none.
LeadsFrom(p, n) == p \in Trips[n] \cup {<<>>}

NoneTouches(p, n) == \A i \in 1..Len(p) : ~Touches(p[i], n)

\* The trip does not go back on the segment the vehicle is on.
GoesOn == \A i \in 1..Len(trip) : trip[i] # seg

WhileDriving == pc = "drive" => LeadsFrom(trip, FarEnd) /\ GoesOn

WhileArriving ==
    /\ pc # "drive" => node = FarEnd /\ t = Length[seg]
    /\ pc \in {"arrive", "raised"} =>
          /\ LeadsFrom(trip, node) \/ NoneTouches(trip, node)
          /\ GoesOn
    /\ pc = "wander" => trip = <<>>

Inv == TypeOK /\ WhileDriving /\ WhileArriving
-----------------------------------------------------------------------------
(* Segments and trips.                                                     *)

\* A segment has two ends, which differ, and some length.
LEMMA TwoEnds ==
    ASSUME NEW s \in Segments
    PROVE  /\ Ends[s][1] \in Nodes /\ Ends[s][2] \in Nodes
           /\ Ends[s][1] # Ends[s][2]
           /\ Ends[s] = <<Ends[s][1], Ends[s][2]>>
           /\ Length[s] \in Nat \ {0}
BY VehicleAssumption

\* A segment that joins two nodes has them as its ends.
LEMMA JoinsEnds ==
    ASSUME NEW s \in Segments, NEW m, NEW n, Joins(s, m, n)
    PROVE  /\ {Ends[s][1], Ends[s][2]} = {m, n} /\ m # n
           /\ Ends[s][1] = m => Ends[s][2] = n
           /\ Ends[s][1] # m => Ends[s][1] = n
BY TwoEnds DEF Joins

\* The trips from a node, without the bound that TLC needs.
LEMMA TripsAre ==
    ASSUME NEW n \in Nodes, NEW p
    PROVE  p \in Trips[n] <=>
              /\ p \in Seq(Segments) /\ p # <<>>
              /\ Len(p) <= Cardinality(Nodes) - 1
              /\ IsTrip(p, n)
<1>. DEFINE c == Cardinality(Nodes) - 1
<1>1. c \in Int
  BY VehicleAssumption, FS_CardinalityType
<1>2. p \in Trips[n] <=> p \in SeqOf(Segments, c) /\ p # <<>> /\ IsTrip(p, n)
  BY DEF Trips
<1>. HIDE DEF c
<1>3. p \in SeqOf(Segments, c) <=> p \in Seq(Segments) /\ Len(p) <= c
  <2>1. ASSUME NEW m \in 0..c, p \in [1..m -> Segments]
        PROVE  p \in Seq(Segments) /\ Len(p) <= c
    BY <1>1, <2>1
  <2>2. ASSUME p \in Seq(Segments), Len(p) <= c
        PROVE  Len(p) \in 0..c /\ p \in [1..Len(p) -> Segments]
    BY <1>1, <2>2
  <2>. QED
    BY <2>1, <2>2 DEF SeqOf
<1>. QED
  BY <1>2, <1>3 DEF c

\* The first leg of a trip leads from its node to where the rest begins, and
\* no other leg touches the node again.
LEMMA FirstLeg ==
    ASSUME NEW n \in Nodes, NEW p \in Trips[n]
    PROVE  /\ p \in Seq(Segments) /\ p # <<>> /\ 1 \in 1..Len(p)
           /\ p[1] \in Segments /\ Touches(p[1], n)
           /\ \A i \in 2..Len(p) : ~Touches(p[i], n)
           /\ \E m \in Nodes : Joins(p[1], n, m) /\ LeadsFrom(Tail(p), m)
<1>1. /\ p \in Seq(Segments) /\ p # <<>> /\ Len(p) \in Nat \ {0}
      /\ Len(p) <= Cardinality(Nodes) - 1
  BY TripsAre, EmptySeq
<1>2. PICK stop \in [0..Len(p) -> Nodes] :
         /\ stop[0] = n
         /\ \A i \in 1..Len(p) : Joins(p[i], stop[i - 1], stop[i])
         /\ \A i, j \in 0..Len(p) : stop[i] = stop[j] => i = j
  BY TripsAre DEF IsTrip
<1>3. 1 \in 1..Len(p) /\ \A i \in 1..Len(p) : p[i] \in Segments
  BY <1>1
<1>4. Joins(p[1], n, stop[1]) /\ stop[1] \in Nodes
  BY <1>1, <1>2, <1>3
<1>5. Touches(p[1], n)
  <2>. DEFINE s == p[1]
              m == stop[1]
  <2>1. s \in Segments /\ Joins(s, n, m)
    BY <1>3, <1>4
  <2>. HIDE DEF s, m
  <2>2. {Ends[s][1], Ends[s][2]} = {n, m}
    BY <2>1, JoinsEnds
  <2>3. Touches(s, n)
    BY <2>2 DEF Touches
  <2>. QED
    BY <2>3 DEF s
<1>6. ASSUME NEW i \in 2..Len(p) PROVE ~Touches(p[i], n)
  <2>1. /\ i \in 1..Len(p) /\ i \in 0..Len(p) /\ i - 1 \in 0..Len(p)
        /\ 0 \in 0..Len(p) /\ i # 0 /\ i - 1 # 0
    BY <1>1
  <2>2. stop[i - 1] # n /\ stop[i] # n
    BY <1>2, <2>1
  <2>3. {Ends[p[i]][1], Ends[p[i]][2]} = {stop[i - 1], stop[i]}
    <3>1. Joins(p[i], stop[i - 1], stop[i]) /\ p[i] \in Segments
      BY <1>2, <1>3, <2>1
    <3>. DEFINE s == p[i]
                a == stop[i - 1]
                b == stop[i]
    <3>2. s \in Segments /\ Joins(s, a, b)
      BY <3>1
    <3>. HIDE DEF s, a, b
    <3>3. {Ends[s][1], Ends[s][2]} = {a, b}
      BY <3>2, JoinsEnds
    <3>. QED
      BY <3>3 DEF s, a, b
  <2>. QED
    BY <2>2, <2>3 DEF Touches
<1>7. LeadsFrom(Tail(p), stop[1])
  <2>. DEFINE q == Tail(p)
  <2>1. /\ q \in Seq(Segments) /\ Len(q) = Len(p) - 1 /\ Len(q) \in Nat
        /\ \A i \in 1..Len(q) : q[i] = p[i + 1]
    BY <1>1, HeadTailProperties
  <2>. HIDE DEF q
  <2>. SUFFICES ASSUME q # <<>> PROVE q \in Trips[stop[1]]
    BY DEF LeadsFrom, q
  <2>. DEFINE rest == [i \in 0..Len(q) |-> stop[i + 1]]
  <2>2. \A i \in 0..Len(q) : i + 1 \in 0..Len(p)
    BY <1>1, <2>1
  <2>3. rest \in [0..Len(q) -> Nodes] /\ rest[0] = stop[1]
    BY <2>1, <2>2
  <2>4. \A i \in 1..Len(q) : Joins(q[i], rest[i - 1], rest[i])
    <3>. TAKE i \in 1..Len(q)
    <3>1. /\ i + 1 \in 1..Len(p) /\ (i + 1) - 1 = i /\ (i - 1) + 1 = i
          /\ i \in 0..Len(q) /\ i - 1 \in 0..Len(q)
      BY <1>1, <2>1
    <3>2. Joins(p[i + 1], stop[i], stop[i + 1])
      BY <1>2, <3>1
    <3>. QED
      BY <2>1, <3>1, <3>2
  <2>5. \A i, j \in 0..Len(q) : rest[i] = rest[j] => i = j
    <3>. TAKE i, j \in 0..Len(q)
    <3>1. i + 1 \in 0..Len(p) /\ j + 1 \in 0..Len(p)
          /\ (i + 1 = j + 1 => i = j)
      BY <2>2
    <3>. QED
      BY <1>2, <3>1
  <2>. HIDE DEF rest
  <2>6. IsTrip(q, stop[1])
    BY <2>3, <2>4, <2>5 DEF IsTrip
  <2>7. Len(q) <= Cardinality(Nodes) - 1
    <3>. DEFINE c == Cardinality(Nodes)
    <3>1. c \in Nat
      BY VehicleAssumption, FS_CardinalityType
    <3>2. Len(p) <= c - 1
      BY <1>1
    <3>. HIDE DEF c
    <3>3. Len(q) <= c - 1
      BY <1>1, <2>1, <3>1, <3>2
    <3>. QED
      BY <3>3 DEF c
  <2>. QED
    BY <1>4, <2>1, <2>6, <2>7, TripsAre
<1>. QED
  BY <1>1, <1>3, <1>4, <1>5, <1>6, <1>7

\* What becomes of a new trip: it is kept, or it loses its first leg, and
\* then no leg touches the node.
LEMMA OnwardIs ==
    ASSUME seg \in Segments, NEW n \in Nodes, Touches(seg, n),
           NEW p \in Trips[n] \cup {<<>>}
    PROVE  /\ p \in Seq(Segments) /\ Len(p) <= Cardinality(Nodes) - 1
           /\ Onward(p) \in Seq(Segments)
           /\ \A i \in 1..Len(Onward(p)) : Onward(p)[i] # seg
           /\ LeadsFrom(Onward(p), n) \/ NoneTouches(Onward(p), n)
           /\ Len(Onward(p)) <= Len(p)
<1>. DEFINE T == Segments \ {seg}
<1>0. /\ p \in Seq(Segments) /\ Len(p) \in Nat
      /\ \A i \in 2..Len(p) : ~Touches(p[i], n)
      /\ Len(p) <= Cardinality(Nodes) - 1
  <2>1. CASE p = <<>>
    <3>1. Cardinality(Nodes) \in Nat /\ Cardinality(Nodes) # 0
      BY VehicleAssumption, FS_CardinalityType, FS_EmptySet
    <3>. QED
      BY <2>1, <3>1
  <2>2. CASE p \in Trips[n]
    BY <2>2, FirstLeg, TripsAre
  <2>. QED
    BY <2>1, <2>2
<1>1. /\ p \in Seq(Segments) /\ Len(p) \in Nat
      /\ \A i \in 2..Len(p) : ~Touches(p[i], n)
      /\ \A i \in 1..Len(p) : p[i] \in Segments
  BY <1>0
<1>2. \A i \in 2..Len(p) : p[i] \in T
  <2>1. \A i \in 2..Len(p) : i \in 1..Len(p)
    BY <1>1
  <2>. QED
    BY <1>1, <2>1
<1>3. CASE p = <<>> \/ p[1] # seg
  <2>1. \A i \in 1..Len(p) : p[i] \in T
    <3>1. \A i \in 1..Len(p) : i = 1 \/ i \in 2..Len(p)
      BY <1>1
    <3>2. p = <<>> => 1..Len(p) = {}
      BY <1>1
    <3>. QED
      BY <1>1, <1>2, <1>3, <3>1, <3>2
  <2>2. Onward(p) = p
    <3>. HIDE DEF T
    <3>1. Selected(p, T) = p
      BY <1>1, <2>1, SelectedAll
    <3>. QED
      BY <3>1 DEF Onward, T
  <2>. QED
    BY <1>0, <1>1, <2>1, <2>2 DEF LeadsFrom
<1>4. CASE p # <<>> /\ p[1] = seg
  <2>1. Onward(p) = Tail(p)
    <3>1. p[1] \notin T /\ p # <<>>
      BY <1>4
    <3>. HIDE DEF T
    <3>2. Selected(p, T) = Tail(p)
      BY <1>1, <1>2, <3>1, SelectedTail
    <3>. QED
      BY <3>2 DEF Onward, T
  <2>2. /\ Tail(p) \in Seq(Segments) /\ Len(Tail(p)) = Len(p) - 1
        /\ \A i \in 1..Len(Tail(p)) : Tail(p)[i] = p[i + 1]
    BY <1>1, <1>4, HeadTailProperties
  <2>3. \A i \in 1..Len(Tail(p)) : i + 1 \in 2..Len(p)
    BY <1>1, <2>2
  <2>4. \A i \in 1..Len(Tail(p)) :
           Tail(p)[i] # seg /\ ~Touches(Tail(p)[i], n)
    BY <1>1, <1>2, <2>2, <2>3
  <2>. QED
    BY <1>0, <2>1, <2>2, <2>4 DEF NoneTouches
<1>. QED
  BY <1>3, <1>4
-----------------------------------------------------------------------------
(* The invariant.                                                          *)

\* The vehicle is heading for an end of its segment.
LEMMA FarEndTouches ==
    ASSUME seg \in Segments, fwd \in BOOLEAN
    PROVE  FarEnd \in Nodes /\ Touches(seg, FarEnd)
BY TwoEnds DEF FarEnd, Touches

\* A vehicle begins without a trip.
LEMMA InitInv == Init => Inv
<1>. SUFFICES ASSUME Init PROVE Inv
  OBVIOUS
<1>1. Len(trip) = 0 /\ trip = <<>> /\ trip \in Seq(Segments)
  BY DEF Init
<1>2. Length[seg] \in Nat \ {0} /\ Ends[seg][1] \in Nodes
  BY TwoEnds DEF Init
<1>3. t \in 0..Length[seg]
  BY <1>2 DEF Init
<1>4. TypeOK
  BY <1>1, <1>2, <1>3, VehicleAssumption DEF Init, TypeOK
<1>. QED
  BY <1>1, <1>4 DEF Init, Inv, WhileDriving, WhileArriving, LeadsFrom, GoesOn

\* Entering a segment at the node, with the rest of the trip that leads on
\* from its other end.
LEMMA EnterInv ==
    ASSUME Inv, NEW s \in Segments, Enter(s), NEW q \in Seq(Segments),
           trip' = q, dwell' \in 0..MaxDwell, dwell' > 0 => bus,
           \A i \in 1..Len(q) : q[i] # s,
           q = <<>> \/ \E m \in Nodes : Joins(s, node, m) /\ LeadsFrom(q, m)
    PROVE  Inv'
<1>1. /\ seg' = s /\ fwd' = (Ends[s][1] = node) /\ pc' = "drive"
      /\ depth' = 0
      /\ t' = (IF Ends[s][1] = node THEN 0 ELSE Length[s])
      /\ UNCHANGED <<kind, plan, node>>
  BY DEF Enter
<1>2. LeadsFrom(q, FarEnd')
  <2>1. CASE q = <<>>
    BY <2>1 DEF LeadsFrom
  <2>2. CASE \E m \in Nodes : Joins(s, node, m) /\ LeadsFrom(q, m)
    <3>1. PICK m \in Nodes : Joins(s, node, m) /\ LeadsFrom(q, m)
      BY <2>2
    <3>2. FarEnd' = m
      BY <1>1, <3>1, JoinsEnds DEF FarEnd
    <3>. QED
      BY <3>1, <3>2
  <2>. QED
    BY <2>1, <2>2
<1>3. TypeOK'
  <2>1. t' \in 0..Length[s]
    BY <1>1, TwoEnds
  <2>. QED
    BY <1>1, <2>1, VehicleAssumption DEF Inv, TypeOK, kind
<1>4. WhileDriving'
  BY <1>1, <1>2 DEF WhileDriving, GoesOn, LeadsFrom
<1>5. WhileArriving'
  BY <1>1 DEF WhileArriving
<1>. QED
  BY <1>3, <1>4, <1>5 DEF Inv

\* The next leg of a trip that leads on from the node.
LEMMA TakeLegInv == ASSUME Inv, TakeLeg PROVE Inv'
<1>1. /\ pc = "arrive" /\ trip # <<>> /\ Touches(Head(trip), node)
      /\ trip' = Tail(trip) /\ Enter(Head(trip))
      /\ dwell' \in IF bus THEN 0..MaxDwell ELSE {dwell}
  BY DEF TakeLeg
<1>2. /\ node \in Nodes /\ trip \in Seq(Segments) /\ Head(trip) = trip[1]
      /\ Len(trip) \in Nat \ {0} /\ 1 \in 1..Len(trip)
  BY <1>1, EmptySeq DEF Inv, TypeOK
<1>3. trip \in Trips[node]
  BY <1>1, <1>2 DEF Inv, WhileArriving, LeadsFrom, NoneTouches
<1>4. /\ trip[1] \in Segments
      /\ \A i \in 2..Len(trip) : ~Touches(trip[i], node)
      /\ \E m \in Nodes : Joins(trip[1], node, m) /\ LeadsFrom(Tail(trip), m)
  BY <1>2, <1>3, FirstLeg
<1>5. /\ Tail(trip) \in Seq(Segments)
      /\ \A i \in 1..Len(Tail(trip)) : Tail(trip)[i] # trip[1]
  <2>1. /\ Tail(trip) \in Seq(Segments) /\ Len(Tail(trip)) = Len(trip) - 1
        /\ \A i \in 1..Len(Tail(trip)) : Tail(trip)[i] = trip[i + 1]
    BY <1>1, <1>2, HeadTailProperties
  <2>2. \A i \in 1..Len(Tail(trip)) : i + 1 \in 2..Len(trip)
    BY <1>2, <2>1
  <2>. QED
    BY <1>1, <1>2, <1>4, <2>1, <2>2
<1>6. dwell' \in 0..MaxDwell /\ (dwell' > 0 => bus)
  BY <1>1, VehicleAssumption DEF Inv, TypeOK
<1>. QED
  BY <1>1, <1>2, <1>4, <1>5, <1>6, EnterInv

\* A leg is dropped only when no leg of the trip touches the node.
LEMMA DropLegInv == ASSUME Inv, DropLeg PROVE Inv'
<1>1. /\ pc = "arrive" /\ trip # <<>> /\ ~Touches(Head(trip), node)
      /\ trip' = Tail(trip)
      /\ UNCHANGED <<kind, plan, place, dwell, depth, pc>>
  BY DEF DropLeg
<1>2. /\ node \in Nodes /\ trip \in Seq(Segments) /\ Head(trip) = trip[1]
      /\ Len(trip) \in Nat \ {0}
  BY <1>1, EmptySeq DEF Inv, TypeOK
<1>3. NoneTouches(trip, node)
  BY <1>1, <1>2, FirstLeg DEF Inv, WhileArriving, LeadsFrom
<1>4. /\ Tail(trip) \in Seq(Segments)
      /\ \A i \in 1..Len(Tail(trip)) :
            i + 1 \in 1..Len(trip) /\ Tail(trip)[i] = trip[i + 1]
  <2>1. /\ Tail(trip) \in Seq(Segments) /\ Len(Tail(trip)) = Len(trip) - 1
        /\ \A i \in 1..Len(Tail(trip)) : Tail(trip)[i] = trip[i + 1]
    BY <1>1, <1>2, HeadTailProperties
  <2>. QED
    BY <1>2, <2>1
<1>5. NoneTouches(trip', node') /\ GoesOn'
  BY <1>1, <1>3, <1>4 DEF NoneTouches, GoesOn, Inv, WhileArriving, place
<1>6. TypeOK'
  BY <1>1, <1>4 DEF Inv, TypeOK, kind, place
<1>7. WhileArriving'
  BY <1>1, <1>5 DEF Inv, WhileArriving, place, FarEnd
<1>. QED
  BY <1>1, <1>6, <1>7 DEF Inv, WhileDriving

\* A plan leads on, or nothing of it touches the node.
LEMMA PlanInv == ASSUME Inv, Plan PROVE Inv'
<1>1. pc = "arrive" /\ UNCHANGED <<kind, plan, place, dwell>>
  BY DEF Plan
<1>2. node = FarEnd /\ seg \in Segments /\ node \in Nodes
      /\ Touches(seg, node)
  BY <1>1, FarEndTouches DEF Inv, TypeOK, WhileArriving
<1>3. PICK p \in Trips[node] \cup {<<>>} :
         /\ trip' = Onward(p)
         /\ \/ Onward(p) = <<>> /\ pc' = "wander" /\ depth' = depth
            \/ depth < MaxDepth /\ depth' = depth + 1 /\ pc' = pc
            \/ depth = MaxDepth /\ pc' = "raised" /\ depth' = depth
  BY DEF Plan
<1>4. /\ trip' \in Seq(Segments)
      /\ \A i \in 1..Len(trip') : trip'[i] # seg
      /\ LeadsFrom(trip', node) \/ NoneTouches(trip', node)
  BY <1>2, <1>3, OnwardIs
<1>5. TypeOK'
  <2>1. depth' \in 0..MaxDepth
    BY <1>3, VehicleAssumption DEF Inv, TypeOK
  <2>2. pc' \in {"arrive", "wander", "raised"}
    BY <1>1, <1>3
  <2>. QED
    BY <1>1, <1>4, <2>1, <2>2 DEF Inv, TypeOK, kind, place
<1>6. pc' \in {"arrive", "raised"} \/ (pc' = "wander" /\ trip' = <<>>)
  BY <1>1, <1>3
<1>7. node' = FarEnd' /\ t' = Length[seg'] /\ seg' = seg /\ node' = node
  BY <1>1 DEF Inv, WhileArriving, place, FarEnd
<1>8. WhileArriving'
  BY <1>4, <1>6, <1>7
     DEF WhileArriving, GoesOn, LeadsFrom, NoneTouches
<1>9. WhileDriving'
  BY <1>6 DEF WhileDriving
<1>. QED
  BY <1>5, <1>8, <1>9 DEF Inv

\* Wandering on begins without a trip.
LEMMA WanderInv == ASSUME Inv, Wander PROVE Inv'
<1>1. pc = "wander" /\ trip = <<>> /\ UNCHANGED <<trip, dwell>>
  BY DEF Wander, Inv, WhileArriving
<1>2. PICK s \in Segments : Enter(s)
  BY DEF Wander, Options
<1>. DEFINE q == trip'
<1>3. /\ q = <<>> /\ q \in Seq(Segments)
      /\ \A i \in 1..Len(q) : q[i] # s
      /\ dwell' \in 0..MaxDwell /\ (dwell' > 0 => bus)
  BY <1>1 DEF Inv, TypeOK
<1>4. trip' = q
  OBVIOUS
<1>. HIDE DEF q
<1>. QED
  BY <1>2, <1>3, <1>4, EnterInv

\* Along the segment and to its end.
LEMMA MoveInv == ASSUME Inv, Move PROVE Inv'
<1>1. /\ pc \in {"drive", "raised"} /\ dwell = 0 /\ depth' = 0
      /\ UNCHANGED <<kind, plan, seg, fwd, trip, dwell>>
  BY DEF Move
<1>2. PICK advance \in 1..MaxAdvance :
         \/ /\ t + advance < Length[seg]
            /\ t' = t + advance /\ pc' = "drive" /\ node' = node
         \/ t' = Length[seg] /\ pc' = "arrive" /\ node' = FarEnd
  BY DEF Move
<1>3. /\ TypeOK /\ t \in 0..Length[seg] /\ Length[seg] \in Nat \ {0}
      /\ FarEnd \in Nodes /\ FarEnd' = FarEnd
  BY <1>1, TwoEnds, FarEndTouches DEF Inv, TypeOK, FarEnd
<1>4. CASE t + advance < Length[seg] /\ t' = t + advance /\ pc' = "drive"
           /\ node' = node
  <2>1. pc = "drive"
    BY <1>1, <1>3, <1>4, VehicleAssumption DEF Inv, WhileArriving
  <2>2. t' \in 0..Length[seg]
    BY <1>3, <1>4, VehicleAssumption
  <2>3. TypeOK'
    BY <1>1, <1>3, <1>4, <2>2, VehicleAssumption DEF TypeOK, kind
  <2>. QED
    BY <1>1, <1>3, <1>4, <2>1, <2>3
       DEF Inv, WhileDriving, WhileArriving, GoesOn, LeadsFrom
<1>5. CASE t' = Length[seg] /\ pc' = "arrive" /\ node' = FarEnd
  <2>1. TypeOK'
    BY <1>1, <1>3, <1>5, VehicleAssumption DEF TypeOK, kind
  <2>2. (LeadsFrom(trip, FarEnd) \/ NoneTouches(trip, FarEnd)) /\ GoesOn
    BY <1>1 DEF Inv, WhileDriving, WhileArriving
  <2>3. WhileArriving'
    BY <1>1, <1>3, <1>5, <2>2
       DEF WhileArriving, GoesOn, LeadsFrom, NoneTouches
  <2>. QED
    BY <1>5, <2>1, <2>3 DEF Inv, WhileDriving
<1>. QED
  BY <1>2, <1>4, <1>5

\* Neither creeping round nor standing leaves the segment.
LEMMA StayInv ==
    ASSUME Inv, Creep \/ Stand \/ NoPlan \/ Refresh \/ UNCHANGED vars
    PROVE  Inv'
<1>1. CASE Creep
  <2>1. t' \in 0..Length[seg]
    BY <1>1, TwoEnds DEF Inv, TypeOK, Creep, Around
  <2>. QED
    BY <1>1, <2>1 DEF Creep, Inv, TypeOK, WhileDriving, WhileArriving, GoesOn,
                      LeadsFrom, FarEnd, kind
<1>2. CASE Stand
  <2>1. dwell' \in 0..MaxDwell /\ (dwell' > 0 => bus)
    BY <1>2, VehicleAssumption DEF Stand, RestOfPause, Inv, TypeOK
  <2>. QED
    BY <1>2, <2>1 DEF Stand, Inv, TypeOK, WhileDriving, WhileArriving, GoesOn,
                      LeadsFrom, FarEnd, kind, place
<1>3. CASE NoPlan
  BY <1>3 DEF NoPlan, Inv, TypeOK, WhileDriving, WhileArriving, FarEnd, kind,
              place
<1>4. CASE Refresh
  BY <1>4 DEF Refresh, Inv, TypeOK, WhileDriving, WhileArriving, GoesOn,
              LeadsFrom, NoneTouches, FarEnd, kind, place
<1>5. CASE UNCHANGED vars
  BY <1>5 DEF vars, Inv, TypeOK, WhileDriving, WhileArriving, GoesOn,
              LeadsFrom, NoneTouches, FarEnd, kind, place
<1>. QED
  BY <1>1, <1>2, <1>3, <1>4, <1>5

\* Every step keeps the invariant.
LEMMA NextInv == Inv /\ [Next]_vars => Inv'
BY TakeLegInv, DropLegInv, PlanInv, WanderInv, MoveInv, StayInv
   DEF Next, Step, Arrive

\* It holds in every reachable state.
LEMMA AlwaysInv == Spec => []Inv
BY InitInv, NextInv, PTL DEF Spec

\* The types hold in every reachable state: t stays on the segment, a vehicle
\* that is not a bus never pauses, and _arrive calls itself no deeper than
\* Python allows.
THEOREM TypeCorrect == Spec => []TypeOK
<1>1. Inv => TypeOK
  BY DEF Inv
<1>. QED
  BY <1>1, AlwaysInv, PTL

\* On every network, what remains of the trip of a vehicle that drives leads
\* on from the end it drives to (vehicle_simulator.py:166-181).
THEOREM TripsLeadOn == Spec => []TripLeadsOn
<1>1. Inv => TripLeadsOn
  BY DEF Inv, WhileDriving, LeadsFrom, TripLeadsOn
<1>. QED
  BY <1>1, AlwaysInv, PTL

\* On every network, a vehicle turns back onto the segment it came on only
\* where no other segment goes on (vehicle_simulator.py:176-184).
THEOREM NeverTurnsBack == Spec => NoUTurn
<1>1. Inv /\ [Next]_vars
        => [Arriving => seg' # seg \/ DeadEnd(node)]_vars
  <2>. SUFFICES ASSUME Inv, [Next]_vars, Arriving, seg' = seg
                PROVE  DeadEnd(node)
    OBVIOUS
  <2>1. pc \in {"arrive", "wander"} /\ pc' = "drive"
    BY DEF Arriving
  <2>2. TakeLeg \/ Wander
    BY <2>1 DEF Next, Step, Arrive, Creep, Stand, Move, DropLeg, Plan, NoPlan,
                Refresh, vars
  <2>3. ~TakeLeg
    <3>. SUFFICES ASSUME TakeLeg PROVE FALSE
      OBVIOUS
    <3>1. seg' = trip[1] /\ 1 \in 1..Len(trip)
      BY EmptySeq DEF TakeLeg, Enter, Inv, TypeOK
    <3>. QED
      BY <3>1 DEF TakeLeg, Inv, WhileArriving, GoesOn
  <2>4. PICK s \in IF Options # {} THEN Options ELSE Segments : Enter(s)
    BY <2>2, <2>3 DEF Wander
  <2>5. s = seg
    BY <2>4 DEF Enter
  <2>6. Options = {}
    BY <2>4, <2>5 DEF Options
  <2>7. seg \in Segments /\ Touches(seg, node)
    BY <2>1, FarEndTouches DEF Inv, TypeOK, WhileArriving
  <2>8. {x \in Segments : Touches(x, node)} = {seg}
    BY <2>6, <2>7 DEF Options
  <2>. QED
    BY <2>8, FS_Singleton DEF DeadEnd
<1>. QED
  BY <1>1, AlwaysInv, PTL DEF Spec, NoUTurn
-----------------------------------------------------------------------------
(***************************************************************************)
(* Trips are short.  A vehicle with a trip is not jammed, and pauses only  *)
(* while it drives; so each step brings it nearer to the end of its        *)
(* segment or takes a leg off the trip.                                    *)
(***************************************************************************)
Longest == Max({Length[s] : s \in Segments})

\* More than the steps of a leg: the longest pause and segment, the step that
\* reaches its end, and the call of _arrive there, which may be repeated by the
\* next tick.
PerLeg == Longest + MaxDwell + 3

\* The steps left on a segment of length n.
LeftOn(n, u, d, c) ==
    CASE c = "drive"  -> d + (n - u) + 2
      [] c = "raised" -> 2
      [] c = "arrive" -> 1
      [] c = "wander" -> 0

\* A bound on the steps that are left of the trip.
RideLeft == PerLeg * Len(trip) + LeftOn(Length[seg], t, dwell, pc)

\* A trip is driven, or dropped, within so many steps as a leg may take for
\* each node of the network: no step of the vehicle leaves it as far from the
\* end of its trip as it was, whatever the fleet does besides
\* (vehicle_simulator.py:126-188).
RidesAreBounded ==
    /\ [](RideLeft \in 0..PerLeg * Cardinality(Nodes))
    /\ [][Step /\ trip # <<>> => RideLeft' < RideLeft]_vars

RideInv ==
    /\ jammed => trip = <<>>
    /\ pc # "drive" => ~jammed /\ dwell = 0
    /\ Len(trip) < Cardinality(Nodes)

\* There is a longest segment.
LEMMA LongestIs ==
    ASSUME Segments # {}
    PROVE  Longest \in Nat /\ \A s \in Segments : Length[s] <= Longest
<1>1. PICK q \in Seq(Segments) :
         \A s \in Segments : \E i \in 1..Len(q) : q[i] = s
  BY VehicleAssumption DEF IsFiniteSet
<1>2. /\ Len(q) \in Nat /\ \A i \in 1..Len(q) : q[i] \in Segments
      /\ \A s \in Segments : Length[s] \in Nat
  BY VehicleAssumption
<1>. DEFINE Tops(i, s) == \A k \in 1..i : Length[q[k]] <= Length[s]
            T == {i \in 0..Len(q) : \E s \in Segments : Tops(i, s)}
<1>3. 0 \in T
  BY <1>2
<1>4. ASSUME NEW i \in 1..Len(q), i - 1 \in T
      PROVE  i \in T
  <2>1. PICK s \in Segments : Tops(i - 1, s)
    BY <1>4
  <2>2. q[i] \in Segments /\ \A k \in 1..i : k \in 1..(i - 1) \/ k = i
    BY <1>2
  <2>3. CASE Length[q[i]] <= Length[s]
    <3>1. Tops(i, s)
      BY <2>1, <2>2, <2>3
    <3>. QED
      BY <1>2, <3>1
  <2>4. CASE ~(Length[q[i]] <= Length[s])
    <3>1. \A k \in 1..(i - 1) : q[k] \in Segments
      BY <1>2
    <3>2. Tops(i, q[i])
      BY <1>2, <2>1, <2>2, <2>4, <3>1
    <3>. QED
      BY <1>2, <2>2, <3>2
  <2>. QED
    BY <2>3, <2>4
<1>5. Len(q) \in T
  <2>. HIDE DEF T
  <2>1. \A i \in 0..Len(q) : i \in T
    BY <1>2, <1>3, <1>4, InductTo
  <2>. QED
    BY <1>2, <2>1
<1>6. PICK top \in Segments : Tops(Len(q), top)
  BY <1>5
<1>7. \A s \in Segments : Length[s] <= Length[top]
  BY <1>1, <1>6
<1>. DEFINE L == {Length[s] : s \in Segments}
<1>8. \E x \in L : \A y \in L : x >= y
  BY <1>2, <1>7
<1>9. Longest \in L /\ \A y \in L : Longest >= y
  BY <1>8 DEF Longest, Max
<1>. QED
  BY <1>2, <1>9

\* Only a vehicle that is not jammed gets anywhere, and it gets a trip of
\* less legs than there are nodes.
LEMMA RideNext == Inv /\ RideInv /\ [Next]_vars => RideInv'
<1>. SUFFICES ASSUME Inv, RideInv, [Next]_vars PROVE RideInv'
  OBVIOUS
<1>1. Cardinality(Nodes) \in Nat /\ Len(trip) \in Nat /\ trip \in Seq(Segments)
  BY VehicleAssumption, FS_CardinalityType DEF Inv, TypeOK
<1>2. CASE TakeLeg \/ DropLeg
  <2>1. /\ trip # <<>> /\ trip' = Tail(trip) /\ ~jammed /\ jammed' = jammed
        /\ \/ pc = "arrive" /\ pc' = "drive"
           \/ UNCHANGED <<pc, dwell>>
    BY <1>2 DEF TakeLeg, DropLeg, Enter, kind, RideInv
  <2>2. Len(Tail(trip)) = Len(trip) - 1
    BY <1>1, <2>1, HeadTailProperties
  <2>. QED
    BY <1>1, <2>1, <2>2 DEF RideInv
<1>3. CASE Plan
  <2>1. /\ pc = "arrive" /\ UNCHANGED <<kind, place, dwell>>
        /\ \E p \in Trips[node] \cup {<<>>} : trip' = Onward(p)
    BY <1>3 DEF Plan
  <2>2. seg \in Segments /\ node \in Nodes /\ Touches(seg, node)
    BY <2>1, FarEndTouches DEF Inv, TypeOK, WhileArriving
  <2>3. PICK p \in Trips[node] \cup {<<>>} : trip' = Onward(p)
    BY <2>1
  <2>4. /\ Onward(p) \in Seq(Segments) /\ Len(Onward(p)) <= Len(p)
        /\ p \in Seq(Segments) /\ Len(p) <= Cardinality(Nodes) - 1
    BY <2>2, <2>3, OnwardIs, TripsAre
  <2>5. Len(trip') < Cardinality(Nodes)
    BY <1>1, <2>3, <2>4
  <2>. QED
    BY <2>1, <2>5 DEF RideInv, kind
<1>4. CASE Creep \/ Stand \/ Move \/ NoPlan \/ Wander \/ Refresh
           \/ UNCHANGED vars
  <2>1. trip' = trip /\ jammed' = jammed
    BY <1>4 DEF Creep, Stand, Move, NoPlan, Wander, Enter, Refresh, vars, kind
  <2>2. pc' # "drive" => ~jammed /\ dwell' = 0
    BY <1>4 DEF RideInv, Creep, Stand, Move, NoPlan, Wander, Enter, Refresh,
                vars, kind
  <2>. QED
    BY <2>1, <2>2 DEF RideInv
<1>. QED
  BY <1>2, <1>3, <1>4 DEF Next, Step, Arrive

\* It holds in every reachable state.
LEMMA AlwaysRide == Spec => [](Inv /\ RideInv)
<1>1. Init => RideInv
  <2>. SUFFICES ASSUME Init PROVE RideInv
    OBVIOUS
  <2>1. Ends[seg][1] \in Nodes
    BY TwoEnds DEF Init
  <2>2. Cardinality(Nodes) \in Nat /\ Cardinality(Nodes) # 0
    BY <2>1, VehicleAssumption, FS_CardinalityType, FS_EmptySet
  <2>3. Len(trip) = 0
    BY DEF Init
  <2>. QED
    BY <2>2, <2>3 DEF Init, RideInv
<1>. QED
  BY <1>1, InitInv, NextInv, RideNext, PTL DEF Spec

\* What a leg, and a segment, may cost.
RideCost ==
    /\ PerLeg \in Nat /\ Longest \in Nat
    /\ Length[seg] \in Nat /\ t \in 0..Length[seg] /\ dwell \in Nat
    /\ Len(trip) \in Nat /\ trip \in Seq(Segments)
    /\ LeftOn(Length[seg], t, dwell, pc) \in 0..PerLeg - 1

\* It costs no more in any state.
LEMMA RideCosts == Inv => RideCost
<1>. SUFFICES ASSUME Inv PROVE RideCost
  OBVIOUS
<1>1. /\ seg \in Segments /\ Length[seg] \in Nat /\ t \in 0..Length[seg]
      /\ dwell \in 0..MaxDwell /\ MaxDwell \in Nat
      /\ trip \in Seq(Segments)
      /\ pc \in {"drive", "arrive", "wander", "raised"}
  BY VehicleAssumption DEF Inv, TypeOK
<1>2. Longest \in Nat /\ Length[seg] <= Longest
  BY <1>1, LongestIs
<1>3. PerLeg \in Nat /\ PerLeg = Longest + MaxDwell + 3
  BY <1>1, <1>2 DEF PerLeg
<1>. DEFINE n == Length[seg]
            x == LeftOn(n, t, dwell, pc)
<1>4. x = dwell + (n - t) + 2 \/ x \in {0, 1, 2}
  BY <1>1 DEF LeftOn
<1>. HIDE DEF n, x
<1>5. n \in Nat /\ t \in 0..n /\ n <= Longest
  BY <1>1, <1>2 DEF n
<1>6. x \in 0..PerLeg - 1
  BY <1>1, <1>2, <1>3, <1>4, <1>5
<1>. QED
  BY <1>1, <1>2, <1>3, <1>6 DEF n, x, RideCost

\* A leg less.
LEMMA LegLess ==
    ASSUME NEW a \in Nat, NEW b \in Nat \ {0}
    PROVE  a * (b - 1) = a * b - a /\ a * b \in Nat
OBVIOUS

\* On every network every trip comes to its end in a bounded number of steps
\* (RidesAreBounded, vehicle_simulator.py:126-188).
THEOREM RidesAreShort == Spec => RidesAreBounded
<1>1. Inv /\ RideInv => RideLeft \in 0..PerLeg * Cardinality(Nodes)
  <2>. SUFFICES ASSUME Inv, RideInv
                PROVE  RideLeft \in 0..PerLeg * Cardinality(Nodes)
    OBVIOUS
  <2>. DEFINE a == PerLeg
              b == Len(trip)
              c == Cardinality(Nodes)
              x == LeftOn(Length[seg], t, dwell, pc)
  <2>1. a \in Nat /\ b \in Nat /\ x \in 0..a - 1
    BY RideCosts DEF RideCost
  <2>2. c \in Nat /\ b < c
    BY VehicleAssumption, FS_CardinalityType DEF RideInv
  <2>3. RideLeft = a * b + x
    BY DEF RideLeft
  <2>. HIDE DEF a, b, c, x
  <2>4. a * b \in Nat /\ a * b + a <= a * c
    <3>1. a * b \in Nat /\ a * b + a = a * (b + 1)
      BY <2>1
    <3>2. c - (b + 1) \in Nat /\ a * (c - (b + 1)) \in Nat
      BY <2>1, <2>2
    <3>3. a * c = a * (b + 1) + a * (c - (b + 1))
      BY <2>1, <2>2
    <3>. QED
      BY <2>1, <2>2, <3>1, <3>2, <3>3
  <2>5. a * c \in Nat
    BY <2>1, <2>2
  <2>. QED
    BY <2>1, <2>3, <2>4, <2>5 DEF a, c
<1>2. Inv /\ RideInv /\ RideCost' /\ [Next]_vars
         => [Step /\ trip # <<>> => RideLeft' < RideLeft]_vars
  <2>. SUFFICES ASSUME Inv, RideInv, RideCost', Step, trip # <<>>
                PROVE  RideLeft' < RideLeft
    OBVIOUS
  <2>. DEFINE a == PerLeg
              b == Len(trip)
              x == LeftOn(Length[seg], t, dwell, pc)
              z == LeftOn(Length[seg'], t', dwell', pc')
  <2>1. /\ a \in Nat /\ b \in Nat \ {0} /\ x \in 0..a - 1 /\ z \in 0..a - 1
        /\ Length[seg] \in Nat /\ t \in 0..Length[seg] /\ dwell \in Nat
        /\ t' \in 0..Length[seg'] /\ trip \in Seq(Segments)
    <3>1. z \in 0..a - 1 /\ t' \in 0..Length[seg']
      BY DEF RideCost, PerLeg, Longest
    <3>. QED
      BY <3>1, RideCosts, EmptySeq DEF RideCost
  <2>2. RideLeft = a * b + x /\ RideLeft' = a * Len(trip') + z
    BY DEF RideLeft, PerLeg, Longest
  <2>3. CASE TakeLeg \/ DropLeg
    <3>1. trip' = Tail(trip) /\ pc = "arrive"
      BY <2>3 DEF TakeLeg, DropLeg
    <3>2. Len(trip') = b - 1
      BY <2>1, <3>1, HeadTailProperties
    <3>3. x = 1
      BY <3>1 DEF LeftOn
    <3>. HIDE DEF a, b, x, z
    <3>4. a * (b - 1) = a * b - a /\ a * b \in Nat
      BY <2>1, LegLess
    <3>. QED
      BY <2>1, <2>2, <3>2, <3>3, <3>4
  <2>4. CASE Stand \/ Move
    <3>1. z < x
      <4>1. CASE Stand
        <5>1. /\ pc = "drive" /\ pc' = "drive" /\ dwell' = dwell - 1
              /\ t' = t /\ seg' = seg
          BY <4>1 DEF Stand, RestOfPause, place
        <5>2. x = dwell + (Length[seg] - t) + 2
          BY <5>1 DEF LeftOn
        <5>3. z = (dwell - 1) + (Length[seg] - t) + 2
          BY <5>1 DEF LeftOn
        <5>4. dwell \in Nat /\ Length[seg] \in Nat /\ t \in Nat
          BY <2>1
        <5>. HIDE DEF x, z
        <5>. QED
          BY <5>2, <5>3, <5>4
      <4>2. CASE Move
        <5>1. /\ pc \in {"drive", "raised"} /\ dwell = 0 /\ dwell' = 0
              /\ seg' = seg
              /\ pc = "raised" => t = Length[seg]
          BY <4>2 DEF Move, Inv, WhileArriving
        <5>2. PICK advance \in 1..MaxAdvance :
                 \/ /\ t + advance < Length[seg]
                    /\ t' = t + advance /\ pc' = "drive"
                 \/ pc' = "arrive"
          BY <4>2 DEF Move
        <5>3. advance \in Nat \ {0}
          BY VehicleAssumption
        <5>4. x \in {2, Length[seg] - t + 2} /\ x >= 2
          BY <2>1, <5>1 DEF LeftOn
        <5>5. CASE pc' = "arrive"
          <6>1. z = 1
            BY <5>5 DEF LeftOn
          <6>. QED
            BY <2>1, <5>4, <6>1
        <5>6. CASE t + advance < Length[seg] /\ t' = t + advance
                   /\ pc' = "drive"
          <6>1. pc = "drive"
            BY <2>1, <5>1, <5>3, <5>6
          <6>2. x = Length[seg] - t + 2
            BY <2>1, <5>1, <6>1 DEF LeftOn
          <6>3. z = Length[seg] - (t + advance) + 2
            BY <2>1, <5>1, <5>3, <5>6 DEF LeftOn
          <6>4. Length[seg] \in Nat /\ t \in Nat /\ advance \in Nat \ {0}
            BY <2>1, <5>3
          <6>. HIDE DEF x, z
          <6>. QED
            BY <6>2, <6>3, <6>4
        <5>. QED
          BY <5>2, <5>5, <5>6
      <4>. QED
        BY <2>4, <4>1, <4>2
    <3>2. trip' = trip
      BY <2>4 DEF Stand, Move
    <3>3. a * b \in Nat /\ Len(trip') = b
      BY <2>1, <3>2
    <3>. HIDE DEF a, b, x, z
    <3>. QED
      BY <2>1, <2>2, <3>1, <3>3
  <2>5. ~Creep /\ ~Plan /\ ~NoPlan /\ ~Wander
    BY DEF Creep, Plan, NoPlan, Wander, RideInv, Inv, WhileArriving
  <2>. QED
    BY <2>3, <2>4, <2>5 DEF Step, Arrive
<1>. QED
  BY <1>1, <1>2, AlwaysRide, NextInv, RideCosts, PTL DEF Spec, RidesAreBounded
=============================================================================
