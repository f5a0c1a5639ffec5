------------------------------ MODULE Vehicle ------------------------------
(***************************************************************************)
(* The motion of one vehicle (simulator/vehicle_simulator.py), which the   *)
(* server fleet and the command-line simulator step once per tick.  The    *)
(* vehicles of a fleet share nothing that they write.                      *)
(*                                                                         *)
(* t is measured in the smallest advance, so a segment has a length in     *)
(* these units.  A call of _arrive is several steps, one for each leg it   *)
(* looks at and one for each call of itself.                               *)
(***************************************************************************)
EXTENDS Selection, Integers, FiniteSets, SequencesExt

CONSTANTS
    Nodes, Segments,
    Ends,         \* the ends a and b of each segment
    Length,       \* the length of each segment
    MaxAdvance,   \* the greatest advance of a step
    MaxDwell,     \* 3 in the code
    MaxDepth      \* calls of _arrive in _arrive that Python allows

ASSUME VehicleAssumption ==
    /\ IsFiniteSet(Nodes) /\ IsFiniteSet(Segments)
    /\ Ends \in [Segments -> Nodes \X Nodes]
    /\ \A s \in Segments : Ends[s][1] # Ends[s][2]
    /\ Length \in [Segments -> Nat \ {0}]
    /\ MaxAdvance \in Nat \ {0} /\ MaxDwell \in Nat /\ MaxDepth \in Nat

VARIABLES
    bus, jammed,  \* what the vehicle is
    plan,         \* does the context have a planner?
    seg, fwd, t, node,
    trip,         \* segments of the legs that remain
    dwell,
    depth,        \* how often _arrive has called itself
    pc            \* "raised" after a RecursionError

kind == <<bus, jammed>>
place == <<seg, fwd, t, node>>
vars == <<kind, plan, place, trip, dwell, depth, pc>>

Touches(s, n) == n \in {Ends[s][1], Ends[s][2]}

Joins(s, m, n) == Ends[s] \in {<<m, n>>, <<n, m>>}

\* The segments of p lead from n to another node and pass no node twice.
IsTrip(p, n) ==
    \E stop \in [0..Len(p) -> Nodes] :
        /\ stop[0] = n
        /\ \A i \in 1..Len(p) : Joins(p[i], stop[i - 1], stop[i])
        /\ \A i, j \in 0..Len(p) : stop[i] = stop[j] => i = j

\* What plan_trip may return: a path that dijkstra found to some destination,
\* under whatever traffic there is.
Trips == [n \in Nodes |->
    {p \in SeqOf(Segments, Cardinality(Nodes) - 1) : p # <<>> /\ IsTrip(p, n)}]

\* One connected graph (migrate_india.sql:2-3), so plan_trip finds a path.
ASSUME ConnectedAssumption ==
    \A m, n \in Nodes : m # n =>
        \E p \in Trips[m] : Touches(Last(p), n)

Init ==
    /\ bus \in BOOLEAN /\ jammed \in BOOLEAN
    /\ plan \in BOOLEAN
    /\ seg \in Segments /\ fwd \in BOOLEAN
    /\ t \in 0..Length[seg] - 1
    /\ node = Ends[seg][1]
    /\ trip = <<>> /\ dwell = 0 /\ depth = 0
    /\ pc = "drive"

\* Mutant: the same end in both directions.
FarEndIsB == Ends[seg][2]

\* The end it drives to.
FarEnd == IF fwd THEN Ends[seg][2] ELSE Ends[seg][1]
-----------------------------------------------------------------------------
(* step.                                                                   *)

\* Mutant: t runs over the end.
Beyond(n) == n

\* Past the end of the segment it begins again.
Around(n) == n % Length[seg]

\* A jammed vehicle creeps along its segment and round again.
Creep ==
    /\ pc = "drive" /\ jammed
    /\ t' = Around(t + 1)
    /\ UNCHANGED <<kind, plan, seg, fwd, node, trip, dwell, depth, pc>>

RestOfPause == dwell - 1

Stand ==
    /\ pc = "drive" /\ ~jammed /\ dwell > 0
    /\ dwell' = RestOfPause
    /\ UNCHANGED <<kind, plan, place, trip, depth, pc>>

\* A RecursionError leaves the vehicle as it is.  The fleet's next tick goes
\* on with it (fleet.py:104-108); the command-line simulator ends with it.
\* The speed is positive, so t <= 0.0 never holds after an advance; only that
\* t has passed 1.0 matters, not by how much.
Move ==
    /\ pc \in {"drive", "raised"} /\ ~jammed /\ dwell = 0
    /\ \E advance \in 1..MaxAdvance :
          \/ /\ t + advance < Length[seg]
             /\ t' = t + advance
             /\ pc' = "drive"
             /\ UNCHANGED node
          \/ /\ t + advance >= Length[seg]
             /\ t' = Length[seg]
             /\ pc' = "arrive"
             /\ node' = FarEnd
    /\ depth' = 0
    /\ UNCHANGED <<kind, plan, seg, fwd, trip, dwell>>
-----------------------------------------------------------------------------
(* _arrive.                                                                *)

Enter(s) ==
    /\ seg' = s
    /\ fwd' = (Ends[s][1] = node)
    /\ t' = IF Ends[s][1] = node THEN 0 ELSE Length[s]
    /\ depth' = 0
    /\ pc' = "drive"
    /\ UNCHANGED <<kind, plan, node>>

\* The next leg of the trip begins here.
TakeLeg ==
    /\ pc = "arrive" /\ trip # <<>>
    /\ Touches(Head(trip), node)
    /\ Enter(Head(trip))
    /\ trip' = Tail(trip)
    /\ dwell' \in IF bus THEN 0..MaxDwell ELSE {dwell}

\* It does not, and is dropped.
DropLeg ==
    /\ pc = "arrive" /\ trip # <<>>
    /\ ~Touches(Head(trip), node)
    /\ trip' = Tail(trip)
    /\ UNCHANGED <<kind, plan, place, dwell, depth, pc>>

\* Mutant: the segment it came on stays in the plan.
WholePlan(p) == p

Onward(p) == Selected(p, Segments \ {seg})

\* A new trip without the segment it came on.  An empty one, which plan_trip
\* also returns where it finds no other destination, leads on to the choice of
\* a neighbour; else _arrive calls itself, as deep as Python lets it.
Plan ==
    /\ pc = "arrive" /\ trip = <<>> /\ plan
    /\ \E p \in Trips[node] \cup {<<>>} :
          LET legs == Onward(p) IN
          /\ trip' = legs
          /\ \/ /\ legs = <<>>
                /\ pc' = "wander" /\ UNCHANGED depth
             \/ /\ legs # <<>> /\ depth < MaxDepth
                /\ depth' = depth + 1 /\ UNCHANGED pc
             \/ /\ legs # <<>> /\ depth = MaxDepth
                /\ pc' = "raised" /\ UNCHANGED depth
    /\ UNCHANGED <<kind, plan, place, dwell>>

\* The mode is wander, or the simulator has not yet reached the API.
NoPlan ==
    /\ pc = "arrive" /\ trip = <<>> /\ ~plan
    /\ pc' = "wander"
    /\ UNCHANGED <<kind, plan, place, trip, dwell, depth>>

Options == {s \in Segments \ {seg} : Touches(s, node)}

\* Any other segment here; at a dead end any segment of the network.
Wander ==
    /\ pc = "wander"
    /\ \E s \in IF Options # {} THEN Options ELSE Segments : Enter(s)
    /\ UNCHANGED <<trip, dwell>>
-----------------------------------------------------------------------------
\* The simulator reached the API: from now on the context has a planner.
Refresh ==
    /\ pc \in {"drive", "raised"} /\ ~plan
    /\ plan' = TRUE
    /\ UNCHANGED <<kind, place, trip, dwell, depth, pc>>

Arrive == TakeLeg \/ DropLeg \/ Plan \/ NoPlan \/ Wander

Step == Creep \/ Stand \/ Move \/ Arrive

Next == Step \/ Refresh

Spec == Init /\ [][Next]_vars

\* The fleet goes on ticking.
FairSpec == Spec /\ WF_vars(Step)
-----------------------------------------------------------------------------
(* Properties.                                                             *)

TypeOK ==
    /\ bus \in BOOLEAN /\ jammed \in BOOLEAN /\ plan \in BOOLEAN
    /\ seg \in Segments /\ fwd \in BOOLEAN
    /\ t \in 0..Length[seg]
    /\ node \in Nodes
    /\ trip \in Seq(Segments)
    /\ dwell \in 0..MaxDwell /\ (dwell > 0 => bus)
    /\ depth \in 0..MaxDepth
    /\ pc \in {"drive", "arrive", "wander", "raised"}

\* While a vehicle drives, what remains of its trip leads on from the end it
\* drives to, so _arrive never drops a leg of a trip under way, although the
\* plan had segments removed (vehicle_simulator.py:166-181).
TripLeadsOn == pc = "drive" => trip \in Trips[FarEnd] \cup {<<>>}

Arriving == pc \in {"arrive", "wander"} /\ pc' = "drive"

\* A node with one segment only.
DeadEnd(n) == Cardinality({s \in Segments : Touches(s, n)}) = 1

\* A vehicle does not turn back onto the segment it came on, except at a dead
\* end (vehicle_simulator.py:178, 182).
NoUTurn == [][Arriving => seg' # seg \/ DeadEnd(node)]_vars

\* A vehicle under way enters every leg that is left of its trip
\* (vehicle_simulator.py:166-172, README.md:74-76): pauses at stops, and the
\* legs that _arrive drops, never cost it one.
LegsAreEntered ==
    \A s \in Segments :
        (pc = "drive" /\ s \in ToSet(trip)) ~> (pc = "drive" /\ seg = s)

\* Where on the segment the reported position is, counted from its end a
\* (vehicle_simulator.py:139-144).
Reported == IF fwd THEN t ELSE Length[seg] - t

\* A vehicle that follows a path starts each leg at the node where the one
\* before ended (vehicle_simulator.py:3-4, README.md:74-76).
LegsStartAtNode ==
    [][(pc = "arrive" /\ pc' = "drive") =>
          Reported' = IF Ends[seg'][1] = node THEN 0 ELSE Length[seg']]_vars
=============================================================================
