------------------------------- MODULE Search -------------------------------
(***************************************************************************)
(* What dijkstra promises to a caller: one answer, and the right one.  The *)
(* heap, the order of the segments and the walk back are the business of   *)
(* Dijkstra, which implements this specification.                          *)
(***************************************************************************)
EXTENDS Walks

VARIABLE answer    \* its status, and the route with its total weight

Unanswered == [status |-> "pending", route |-> <<>>, total |-> 0]

Init == source # target /\ answer = Unanswered

\* Nothing, because nothing leads there.
RefuseRoute ==
    /\ target \notin DOMAIN Shortest
    /\ answer' = [answer EXCEPT !.status = "none"]

\* A route of the least total weight, without a segment that occurs twice.
ReturnRoute ==
    LET route == answer'.route
    IN  /\ LeadsToTarget(route)
        /\ \A i, j \in 1..Len(route) : route[i] = route[j] => i = j
        /\ target \in DOMAIN Shortest /\ Total(route) = Shortest[target]
        /\ answer' = [status |-> "found", route |-> route,
                      total |-> Shortest[target]]

Next ==
    /\ answer = Unanswered
    /\ RefuseRoute \/ ReturnRoute
    /\ UNCHANGED <<ends, weight, source, target>>

Spec == Init /\ [][Next]_<<ends, weight, source, target, answer>>
=============================================================================
