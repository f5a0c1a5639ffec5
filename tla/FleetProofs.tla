---------------------------- MODULE FleetProofs ----------------------------
(***************************************************************************)
(* Proofs about Fleet, for any callers, counts and cap.                    *)
(*                                                                         *)
(* The cap is not inductive alone: between the condition of the while loop *)
(* and the append, the list that the tick holds must still have room.  It  *)
(* has, because the tick is the only one that appends, and every other     *)
(* step shortens a list or begins a new one.                               *)
(***************************************************************************)
EXTENDS Fleet, SequenceTheorems, TLAPS

\* Every list the fleet has been, current or dropped, is within the cap, and
\* a tick about to append has room in the list it holds.
Room ==
    /\ \A l \in 1..Len(lists) : Len(lists[l]) <= MaxFleet
    /\ pc = "spawn" => Len(lists[held]) < MaxFleet

Inv == TypeOK /\ Room
-----------------------------------------------------------------------------
(* Lists.                                                                  *)

\* A list of the first n vehicles is a list of the first n + 1.
LEMMA MoreVehicles ==
    ASSUME NEW n \in Nat, NEW q \in Seq(1..n)
    PROVE  q \in Seq(1..(n + 1))
PROOF OBVIOUS

\* A sequence of lists with one more list.
LEMMA Appended ==
    ASSUME NEW S, NEW q \in Seq(S), NEW e \in S
    PROVE  /\ Append(q, e) \in Seq(S) /\ Append(q, e) # <<>>
           /\ Len(Append(q, e)) = Len(q) + 1
           /\ \A l \in 1..Len(q) : Append(q, e)[l] = q[l]
           /\ Append(q, e)[Len(q) + 1] = e
PROOF BY AppendProperties

\* A sequence of lists with one list replaced.
LEMMA Replaced ==
    ASSUME NEW S, NEW q \in Seq(S), NEW n \in 1..Len(q), NEW e \in S
    PROVE  /\ [q EXCEPT ![n] = e] \in Seq(S) /\ [q EXCEPT ![n] = e] # <<>>
           /\ Len([q EXCEPT ![n] = e]) = Len(q)
           /\ \A l \in 1..Len(q) :
                 [q EXCEPT ![n] = e][l] = IF l = n THEN e ELSE q[l]
<1>1. /\ [q EXCEPT ![n] = e] \in Seq(S)
      /\ Len([q EXCEPT ![n] = e]) = Len(q)
      /\ \A l \in 1..Len(q) :
            [q EXCEPT ![n] = e][l] = IF l = n THEN e ELSE q[l]
  BY ExceptSeq
<1>2. Len(<<>>) = 0 /\ Len(q) > 0
  OBVIOUS
<1>. QED
  BY <1>1, <1>2

\* Clear keeps the older lists and adds an empty one.
LEMMA ClearEffect ==
    ASSUME TypeOK, Room, Clear
    PROVE  /\ lists' \in Seq(Seq(1..born)) /\ lists' # <<>>
           /\ Len(lists') = Len(lists) + 1
           /\ \A l \in 1..Len(lists) : lists'[l] = lists[l]
           /\ \A l \in 1..Len(lists') : Len(lists'[l]) <= MaxFleet
           /\ born' = born
<1> DEFINE S == Seq(1..born)
<1>1. lists \in Seq(S) /\ <<>> \in S
  BY DEF TypeOK
<1>2. lists' = Append(lists, <<>>) /\ born' = born
  BY DEF Clear
<1> HIDE DEF S
<1>3. /\ lists' \in Seq(S) /\ lists' # <<>>
      /\ Len(lists') = Len(lists) + 1
      /\ \A l \in 1..Len(lists) : lists'[l] = lists[l]
      /\ lists'[Len(lists) + 1] = <<>>
  BY <1>1, <1>2, Appended
<1>4. Len(lists) \in Nat
  BY <1>1
<1>5. \A l \in 1..Len(lists') : Len(lists'[l]) <= MaxFleet
  <2> TAKE l \in 1..Len(lists')
  <2>1. l \in 1..Len(lists) \/ l = Len(lists) + 1
    BY <1>3, <1>4
  <2>2. CASE l \in 1..Len(lists)
    <3>1. Len(lists[l]) <= MaxFleet
      BY <2>2, Zenon DEF Room
    <3>2. lists'[l] = lists[l]
      BY <1>3, <2>2, Zenon
    <3>. QED
      BY <3>1, <3>2, Zenon
  <2>3. CASE l = Len(lists) + 1
    <3>1. MaxFleet \in Nat
      BY FleetAssumption, Zenon
    <3>2. Len(<<>>) <= MaxFleet
      BY <3>1
    <3>3. lists'[Len(lists) + 1] = <<>>
      BY <1>3, Zenon
    <3>4. lists'[l] = lists'[Len(lists) + 1]
      BY <2>3, Zenon
    <3>. QED
      BY <3>2, <3>3, <3>4, Zenon
  <2>. QED
    BY <2>1, <2>2, <2>3, Zenon
<1>. QED
  BY <1>2, <1>3, <1>5 DEF S

\* Trim keeps every list but the last, and only shortens that one.
LEMMA TrimEffect ==
    ASSUME TypeOK, Room, Trim
    PROVE  /\ lists' \in Seq(Seq(1..born)) /\ lists' # <<>>
           /\ Len(lists') = Len(lists)
           /\ \A l \in 1..Len(lists) : Len(lists'[l]) <= Len(lists[l])
           /\ \A l \in 1..Len(lists') : Len(lists'[l]) <= MaxFleet
           /\ born' = born
<1> DEFINE S == Seq(1..born)
           n == Len(lists)
           k == IF target < Len(lists[n]) THEN target ELSE Len(lists[n])
           short == SubSeq(lists[n], 1, k)
<1>1. lists \in Seq(S) /\ n \in 1..n
  BY EmptySeq DEF TypeOK
<1>2. \A l \in 1..n : lists[l] \in S /\ Len(lists[l]) \in Nat
  BY <1>1
<1>3. k \in 0..Len(lists[n])
  BY <1>1, <1>2, FleetAssumption DEF TypeOK
<1>4. short \in S /\ Len(short) = k
  <2>1. \A i \in 1..k : lists[n][i] \in 1..born
    <3>1. lists[n] \in Seq(1..born) /\ Len(lists[n]) \in Nat
      BY <1>1, <1>2
    <3>2. k \in Int /\ k <= Len(lists[n])
      BY <1>3, <3>1
    <3> HIDE DEF n, k, short
    <3> TAKE i \in 1..k
    <3>3. i \in 1..Len(lists[n])
      BY <3>1, <3>2
    <3>. QED
      BY <3>1, <3>3, ElementOfSeq
  <2>2. k \in Int /\ (IF 1 <= k THEN k - 1 + 1 ELSE 0) = k
    BY <1>1, <1>2, <1>3
  <2> HIDE DEF k
  <2>. QED
    BY <2>1, <2>2, SubSeqProperties
<1>5. lists' = [lists EXCEPT ![n] = short] /\ born' = born
  BY DEF Trim
<1> HIDE DEF S, short, k
<1>6. /\ lists' \in Seq(S) /\ lists' # <<>> /\ Len(lists') = n
      /\ \A l \in 1..n : lists'[l] = IF l = n THEN short ELSE lists[l]
  BY <1>1, <1>4, <1>5, Replaced
<1>7. \A l \in 1..n : Len(lists'[l]) <= Len(lists[l])
  BY <1>2, <1>3, <1>4, <1>6
<1>8. \A l \in 1..n : Len(lists'[l]) \in Nat
  BY <1>2, <1>3, <1>4, <1>6
<1>9. \A l \in 1..n : Len(lists'[l]) <= MaxFleet
  BY <1>2, <1>7, <1>8, FleetAssumption DEF Room
<1>. QED
  BY <1>5, <1>6, <1>7, <1>9, Zenon DEF S
-----------------------------------------------------------------------------
(* Type correctness and the cap.                                           *)

\* The fleet begins empty and disabled.
LEMMA InitInv == Init => Inv
<1> SUFFICES ASSUME Init PROVE Inv
  OBVIOUS
<1>1. /\ Len(lists) = 1 /\ lists[1] = <<>>
      /\ lists \in Seq(Seq(1..born)) /\ lists # <<>>
  <2>1. <<>> \in Seq(1..born)
    OBVIOUS
  <2>2. lists = << <<>> >>
    BY DEF Init
  <2> HIDE DEF Init
  <2>3. lists = Append(<<>>, <<>>)
    BY <2>2
  <2>. QED
    BY <2>1, <2>2, <2>3, Appended, EmptySeq
<1>2. patch \in [Callers -> Patch]
  BY DEF Init, Patch, NoPatch
<1>. QED
  <2>1. points \in Seq(1..born) /\ Len(<<>>) = 0
    BY EmptySeq DEF Init
  <2>2. TypeOK
    <3>1. /\ enabled = FALSE /\ loop = TRUE /\ target = 0 /\ born = 0
          /\ configs = 0 /\ pc = "sleep" /\ held = 1
          /\ cpc = [c \in Callers |-> "idle"]
      BY DEF Init
    <3>2. held \in 1..Len(lists) /\ target \in 0..MaxFleet
      BY <1>1, <3>1, FleetAssumption
    <3>. QED
      BY <1>1, <1>2, <2>1, <3>1, <3>2 DEF TypeOK
  <2>3. Room
    <3>1. \A l \in 1..Len(lists) : Len(lists[l]) = 0
      BY <1>1, <2>1
    <3>. QED
      BY <3>1, FleetAssumption DEF Init, Room
  <2>. QED
    BY <2>2, <2>3 DEF Inv

\* configure clamps every count to the cap.
LEMMA ClampedRange ==
    ASSUME NEW count \in Counts PROVE Clamped(count) \in 0..MaxFleet
PROOF BY FleetAssumption DEF Clamped

\* The threads of configure only replace or shorten lists.
LEMMA CallerInv ==
    ASSUME Inv, NEW c \in Callers, WriteFleet(c) \/ CallerStep(c)
    PROVE  Inv'
<1> USE FleetAssumption DEF Inv
<1>1. CASE WriteFleet(c)
  BY <1>1 DEF WriteFleet, CallerAt, TypeOK, Room, fleet, tick, settings
<1>2. CASE SetEnabled(c)
  BY <1>2 DEF SetEnabled, CallerAt, TypeOK, Room, fleet, tick, Patch
<1>3. CASE SetTarget(c)
  <2>1. target' \in 0..MaxFleet
    BY <1>3, ClampedRange DEF SetTarget, TypeOK, Patch
  <2>. QED
    BY <2>1, <1>3
    DEF SetTarget, CallerAt, TypeOK, Room, fleet, tick, Patch, NoPatch
<1>4. CASE CallerChecks(c)
  BY <1>4 DEF CallerChecks, CallerAt, TypeOK, Room, fleet, tick, settings
<1>5. CASE CallerClears(c)
  <2>1. Clear
    BY <1>5 DEF CallerClears
  <2>2. /\ lists' \in Seq(Seq(1..born)) /\ lists' # <<>>
        /\ Len(lists') = Len(lists) + 1
        /\ \A l \in 1..Len(lists) : lists'[l] = lists[l]
        /\ \A l \in 1..Len(lists') : Len(lists'[l]) <= MaxFleet
        /\ born' = born
    BY <2>1, ClearEffect
  <2>3. TypeOK'
    <3>1. held \in 1..Len(lists')
      BY <2>2 DEF TypeOK
    <3>. QED
      BY <2>2, <3>1, <1>5 DEF CallerClears, CallerAt, TypeOK, tick, settings
  <2>4. Room'
    BY <2>2, <1>5 DEF CallerClears, CallerAt, TypeOK, Room, tick
  <2>. QED
    BY <2>3, <2>4
<1>6. CASE CallerTrims(c)
  <2>1. Trim
    BY <1>6 DEF CallerTrims
  <2>2. /\ lists' \in Seq(Seq(1..born)) /\ lists' # <<>>
        /\ Len(lists') = Len(lists)
        /\ \A l \in 1..Len(lists) : Len(lists'[l]) <= Len(lists[l])
        /\ \A l \in 1..Len(lists') : Len(lists'[l]) <= MaxFleet
        /\ born' = born
    BY <2>1, TrimEffect
  <2>3. TypeOK'
    BY <2>2, <1>6 DEF CallerTrims, CallerAt, TypeOK, tick, settings
  <2>4. pc' = "spawn" => Len(lists'[held']) < MaxFleet
    <3>1. held' = held /\ pc' = pc
      BY <1>6 DEF CallerTrims, CallerAt, tick
    <3>2. held \in 1..Len(lists)
      BY DEF TypeOK
    <3>3. Len(lists'[held]) <= Len(lists[held])
      BY <2>2, <3>2
    <3>4. Len(lists[held]) \in Nat
      BY <3>2 DEF TypeOK
    <3>5. Len(lists'[held]) \in Nat
      BY <2>2, <3>2
    <3>. QED
      BY <3>1, <3>3, <3>4, <3>5 DEF Room
  <2>. QED
    BY <2>2, <2>3, <2>4 DEF Room
<1>. QED
  BY <1>1, <1>2, <1>3, <1>4, <1>5, <1>6 DEF CallerStep

\* The tick appends only where it has found room.
LEMMA TickInv ==
    ASSUME Inv, Wake \/ NoSnapshot \/ TickStep
    PROVE  Inv'
<1> USE FleetAssumption DEF Inv
<1>1. CASE Wake \/ Snapshot \/ NoSnapshot \/ TickChecks
  BY <1>1 DEF Wake, Snapshot, NoSnapshot, TickChecks, TickAt, TypeOK, Room,
              fleet, settings, call
<1>2. CASE TickClears
  <2>1. Clear
    BY <1>2 DEF TickClears
  <2>2. /\ lists' \in Seq(Seq(1..born)) /\ lists' # <<>>
        /\ Len(lists') = Len(lists) + 1
        /\ \A l \in 1..Len(lists) : lists'[l] = lists[l]
        /\ \A l \in 1..Len(lists') : Len(lists'[l]) <= MaxFleet
        /\ born' = born
    BY <2>1, ClearEffect
  <2>3. TypeOK'
    <3>1. held \in 1..Len(lists')
      BY <2>2 DEF TypeOK
    <3>. QED
      BY <2>2, <3>1, <1>2 DEF TickClears, TickAt, TypeOK, settings, call
  <2>4. Room'
    BY <2>2, <1>2 DEF TickClears, TickAt, Room
  <2>. QED
    BY <2>3, <2>4
<1>3. CASE TickTrims
  <2>1. Trim
    BY <1>3 DEF TickTrims
  <2>2. /\ lists' \in Seq(Seq(1..born)) /\ lists' # <<>>
        /\ Len(lists') = Len(lists)
        /\ \A l \in 1..Len(lists) : Len(lists'[l]) <= Len(lists[l])
        /\ \A l \in 1..Len(lists') : Len(lists'[l]) <= MaxFleet
        /\ born' = born
    BY <2>1, TrimEffect
  <2>3. TypeOK'
    BY <2>2, <1>3 DEF TickTrims, TickAt, TypeOK, settings, call
  <2>4. Room'
    BY <2>2, <1>3 DEF TickTrims, TickAt, Room
  <2>. QED
    BY <2>3, <2>4
<1>4. CASE Grow
  <2>1. /\ Len(lists) \in 1..Len(lists)
        /\ Len(lists[Len(lists)]) \in Nat
    BY EmptySeq DEF TypeOK
  <2>2. TypeOK'
    BY <2>1, <1>4 DEF Grow, TickAt, TypeOK, fleet, settings, call
  <2>3. UNCHANGED lists
    BY <1>4 DEF Grow, fleet
  <2>4. pc' = "spawn" => Len(lists[held']) < MaxFleet
    <3>. SUFFICES ASSUME pc' = "spawn" PROVE Len(lists[held']) < MaxFleet
      OBVIOUS
    <3>1. held' = Len(lists) /\ Len(lists[Len(lists)]) < target
      BY <1>4 DEF Grow, TickAt, vehicles, Last
    <3>2. target \in 0..MaxFleet
      BY DEF TypeOK
    <3>. QED
      BY <2>1, <3>1, <3>2
  <2>. QED
    BY <2>2, <2>3, <2>4 DEF Room
<1>5. CASE Spawn
  <2>1. /\ held \in 1..Len(lists) /\ lists[held] \in Seq(1..born)
        /\ Len(lists[held]) < MaxFleet
    BY <1>5 DEF Spawn, TickAt, TypeOK, Room
  <2> DEFINE longer == Append(lists[held], born + 1)
  <2>2. /\ born' = born + 1 /\ born \in Nat
        /\ lists' = [lists EXCEPT ![held] = longer]
        /\ pc' = "grow"
    BY <1>5 DEF Spawn, SpawnIn, TickAt, TypeOK
  <2>3. lists[held] \in Seq(1..(born + 1))
    BY <2>1, <2>2, MoreVehicles
  <2>4. longer \in Seq(1..(born + 1)) /\ Len(longer) = Len(lists[held]) + 1
    BY <2>2, <2>3
  <2>5. \A l \in 1..Len(lists) : lists[l] \in Seq(1..(born + 1))
    <3>. SUFFICES ASSUME NEW l \in 1..Len(lists)
                  PROVE  lists[l] \in Seq(1..(born + 1))
      OBVIOUS
    <3>1. lists[l] \in Seq(1..born)
      BY DEF TypeOK
    <3>. QED
      BY <2>2, <3>1, MoreVehicles, Zenon
  <2>6. /\ lists' \in Seq(Seq(1..(born + 1))) /\ lists' # <<>>
        /\ Len(lists') = Len(lists)
        /\ \A l \in 1..Len(lists) :
              lists'[l] = IF l = held THEN longer ELSE lists[l]
    <3> DEFINE S == Seq(1..(born + 1))
    <3>1. lists \in Seq(S)
      <4>1. \A l \in 1..Len(lists) : lists[l] \in S
        BY <2>5
      <4>2. lists \in Seq(Seq(1..born))
        BY DEF TypeOK
      <4> DEFINE R == Seq(1..born)
      <4> HIDE DEF R, S
      <4>3. lists \in Seq(R)
        BY <4>2 DEF R
      <4>. QED
        BY <4>1, <4>3, SeqMonotonic
    <3>2. longer \in S
      BY <2>4
    <3> HIDE DEF S, longer
    <3>3. /\ lists' \in Seq(S) /\ lists' # <<>>
          /\ Len(lists') = Len(lists)
          /\ \A l \in 1..Len(lists) :
                lists'[l] = IF l = held THEN longer ELSE lists[l]
      BY <2>1, <2>2, <3>1, <3>2, Replaced
    <3>. QED
      BY <3>3 DEF S
  <2>7. points \in Seq(1..(born + 1))
    BY <2>2, MoreVehicles DEF TypeOK
  <2>8. TypeOK'
    <3>1. /\ lists' \in Seq(Seq(1..born')) /\ points \in Seq(1..born')
          /\ born' \in Nat
      BY <2>2, <2>6, <2>7
    <3>2. held \in 1..Len(lists')
      BY <2>1, <2>6
    <3>. QED
      BY <2>2, <2>6, <3>1, <3>2, <1>5
      DEF Spawn, TickAt, TypeOK, settings, call
  <2>9. \A l \in 1..Len(lists') : Len(lists'[l]) <= MaxFleet
    <3> TAKE l \in 1..Len(lists')
    <3>1. Len(lists[l]) <= MaxFleet /\ Len(lists[held]) \in Nat
      BY <2>1, <2>6 DEF Room
    <3>2. lists'[l] = IF l = held THEN longer ELSE lists[l]
      BY <2>6
    <3>3. Len(longer) <= MaxFleet
      BY <2>1, <2>4, <3>1
    <3>. QED
      BY <3>1, <3>2, <3>3
  <2>. QED
    BY <2>2, <2>8, <2>9 DEF Room
<1>6. CASE Walk
  BY <1>6 DEF Walk, TickAt, TypeOK, Room, fleet, settings, call
<1>7. CASE Drive
  <2>1. lists[held][Len(points) + 1] \in 1..born
    BY <1>7 DEF Drive, TypeOK
  <2>. QED
    BY <2>1, <1>7 DEF Drive, TickAt, TypeOK, Room, fleet, settings, call
<1>8. CASE Driven
  BY <1>8 DEF Driven, TickAt, TypeOK, Room, fleet, settings, call
<1>9. CASE Post
  BY <1>9 DEF Post, TickAt, TypeOK, Room, fleet, settings, call
<1>. QED
  BY <1>1, <1>2, <1>3, <1>4, <1>5, <1>6, <1>7, <1>8, <1>9 DEF TickStep

\* Every step keeps the invariant.
LEMMA NextInv == Inv /\ [Next]_vars => Inv'
<1> SUFFICES ASSUME Inv, [Next]_vars PROVE Inv'
  OBVIOUS
<1>1. CASE \E c \in Callers : WriteFleet(c) \/ CallerStep(c)
  BY <1>1, CallerInv
<1>2. CASE Wake \/ NoSnapshot \/ TickStep
  BY <1>2, TickInv
<1>3. CASE Stop
  BY <1>3 DEF Stop, Inv, TypeOK, Room, fleet, tick, call
<1>4. CASE Rest \/ UNCHANGED vars
  BY <1>4 DEF Rest, vars, Inv, TypeOK, Room, fleet, tick, call, settings
<1>. QED
  BY <1>1, <1>2, <1>3, <1>4 DEF Next

\* It holds in every reachable state.
LEMMA AlwaysInv == Spec => []Inv
PROOF BY InitInv, NextInv, PTL DEF Spec

\* The types hold in every reachable state.
THEOREM TypeCorrect == Spec => []TypeOK
<1>1. Inv => TypeOK
  BY DEF Inv
<1>. QED
  BY <1>1, AlwaysInv, PTL

\* The fleet is never larger than the cap, whatever the callers do while the
\* tick fills the list.
THEOREM NeverOverCap == Spec => []FleetCapped
<1>1. Inv => FleetCapped
  BY DEF Inv, TypeOK, Room, FleetCapped, vehicles, Last
<1>. QED
  BY <1>1, AlwaysInv, PTL
-----------------------------------------------------------------------------
(* Retirement.                                                             *)

\* Whoever stands in the current list.
LEMMA AliveIs ==
    ASSUME TypeOK, NEW v
    PROVE  v \in Alive <=> \E i \in 1..Len(vehicles) : v = vehicles[i]
<1>1. vehicles \in Seq(1..born)
  <2>1. Len(lists) \in 1..Len(lists)
    BY EmptySeq DEF TypeOK
  <2>. QED
    BY <2>1 DEF TypeOK, vehicles, Last
<1>2. DOMAIN vehicles = 1..Len(vehicles)
  BY <1>1
<1>. QED
  BY <1>2 DEF Alive, ToSet

\* A new list is empty.
LEMMA ClearRetires ==
    ASSUME TypeOK, TypeOK', Room, Clear
    PROVE  Alive' = {}
<1>1. vehicles' = <<>>
  <2>1. lists \in Seq(Seq(1..born)) /\ <<>> \in Seq(1..born)
    BY DEF TypeOK
  <2>2. lists' = Append(lists, <<>>)
    BY DEF Clear
  <2>. QED
    BY <2>1, <2>2 DEF vehicles, Last
<1>. QED
  BY <1>1, AliveIs DEF Alive, ToSet

\* The first k elements of a sequence.
LEMMA FirstOnes ==
    ASSUME NEW S, NEW q \in Seq(S), NEW k \in 0..Len(q)
    PROVE  /\ SubSeq(q, 1, k) \in Seq(S)
           /\ DOMAIN SubSeq(q, 1, k) = 1..k
           /\ \A i \in 1..k : SubSeq(q, 1, k)[i] = q[i]
<1>1. k \in Int /\ Len(q) \in Nat
  OBVIOUS
<1>2. \A i \in 1..k : q[i] \in S
  BY <1>1, ElementOfSeq
<1>3. /\ SubSeq(q, 1, k) \in Seq(S)
      /\ Len(SubSeq(q, 1, k)) = IF 1 <= k THEN k - 1 + 1 ELSE 0
      /\ \A i \in 1..(k - 1 + 1) : SubSeq(q, 1, k)[i] = q[1 + i - 1]
  BY <1>1, <1>2, SubSeqProperties
<1>4. k - 1 + 1 = k /\ \A i \in 1..k : 1 + i - 1 = i
  BY <1>1
<1>5. Len(SubSeq(q, 1, k)) = k
  BY <1>1, <1>3, <1>4
<1>. QED
  BY <1>3, <1>4, <1>5

\* Those that a cut leaves were in the list.
LEMMA TrimRetires ==
    ASSUME TypeOK, TypeOK', Room, Trim
    PROVE  Alive' \subseteq Alive
<1> DEFINE n == Len(lists)
           k == IF target < Len(vehicles) THEN target ELSE Len(vehicles)
<1>1. lists \in Seq(Seq(1..born)) /\ n \in 1..n
  BY EmptySeq DEF TypeOK
<1>2. vehicles = lists[n] /\ vehicles \in Seq(1..born)
  BY <1>1 DEF vehicles, Last
<1>3. k \in 0..Len(vehicles)
  <2>1. Len(vehicles) \in Nat
    BY <1>2
  <2>2. target \in Nat
    BY FleetAssumption DEF TypeOK
  <2>. QED
    BY <2>1, <2>2
<1> DEFINE short == SubSeq(vehicles, 1, k)
<1>4. /\ DOMAIN short = 1..k /\ short \in Seq(1..born)
      /\ \A i \in 1..k : short[i] = vehicles[i]
  <2> HIDE DEF k
  <2>. QED
    BY <1>2, <1>3, FirstOnes
<1>5. vehicles' = short
  <2>1. lists' = [lists EXCEPT ![n] = short]
    BY <1>2 DEF Trim
  <2> HIDE DEF short
  <2>2. Len(lists') = n /\ lists'[n] = short
    BY <1>1, <1>4, <2>1, Replaced
  <2>. QED
    BY <2>2 DEF vehicles, Last
<1> HIDE DEF short, k
<1>6. 1..k \subseteq 1..Len(vehicles)
  BY <1>2, <1>3
<1>7. Alive' = {short[i] : i \in 1..k}
  BY <1>4, <1>5 DEF Alive, ToSet
<1>. QED
  BY <1>4, <1>6, <1>7, AliveIs

\* Only a new vehicle joins the list.
LEMMA SpawnRetires ==
    ASSUME TypeOK, Spawn
    PROVE  Alive' \subseteq Alive \cup {born + 1}
<1>1. /\ lists \in Seq(Seq(1..born)) /\ held \in 1..Len(lists)
      /\ Len(lists) \in 1..Len(lists) /\ born \in Nat
  BY EmptySeq DEF TypeOK
<1>2. lists' = [lists EXCEPT ![held] = Append(@, born + 1)]
  BY DEF Spawn, SpawnIn
<1>3. vehicles = lists[Len(lists)] /\ vehicles \in Seq(1..born)
  BY <1>1 DEF vehicles, Last
<1>4. Len(lists') = Len(lists)
      /\ lists'[Len(lists)] = IF held = Len(lists)
                              THEN Append(vehicles, born + 1) ELSE vehicles
  BY <1>1, <1>2, <1>3
<1>5. CASE vehicles' = vehicles
  BY <1>5 DEF Alive, ToSet
<1>6. CASE vehicles' = Append(vehicles, born + 1)
  <2>1. /\ DOMAIN vehicles = 1..Len(vehicles) /\ Len(vehicles) \in Nat
        /\ DOMAIN Append(vehicles, born + 1) = 1..(Len(vehicles) + 1)
        /\ \A i \in 1..Len(vehicles) :
              Append(vehicles, born + 1)[i] = vehicles[i]
        /\ Append(vehicles, born + 1)[Len(vehicles) + 1] = born + 1
    BY <1>3
  <2>. QED
    BY <1>6, <2>1 DEF Alive, ToSet
<1>. QED
  BY <1>4, <1>5, <1>6 DEF vehicles, Last

\* A vehicle that was retired, by a lower target, by disabling the fleet or
\* by a list that was dropped while the tick filled it, never comes back,
\* whatever requests race with the tick (fleet.py:85-95).
THEOREM RetiredStayRetired == Spec => RetiredForGood
<1>1. Inv /\ Inv' /\ [Next]_vars
        => [\A v \in 1..born : v \notin Alive => v \notin Alive']_vars
  <2>. SUFFICES ASSUME Inv, Inv', [Next]_vars,
                       NEW v \in 1..born, v \notin Alive
                PROVE  v \notin Alive'
    OBVIOUS
  <2>1. TypeOK /\ TypeOK' /\ Room
    BY DEF Inv
  <2>2. CASE lists' = lists
    BY <2>2 DEF Alive, vehicles
  <2>3. CASE Clear
    BY <2>1, <2>3, ClearRetires
  <2>4. CASE Trim
    BY <2>1, <2>4, TrimRetires
  <2>5. CASE Spawn
    <3>1. v # born + 1
      BY <2>1 DEF TypeOK
    <3>. QED
      BY <2>1, <2>5, <3>1, SpawnRetires
  <2>6. \/ lists' = lists \/ Clear \/ Trim \/ Spawn
    <3>1. ASSUME NEW c \in Callers, WriteFleet(c) \/ CallerStep(c)
          PROVE  lists' = lists \/ Clear \/ Trim
      BY <3>1 DEF WriteFleet, CallerStep, SetEnabled, SetTarget,
                  CallerChecks, CallerClears, CallerTrims, fleet
    <3>2. CASE TickStep
      BY <3>2 DEF TickStep, Snapshot, TickChecks, TickClears, TickTrims,
                  Grow, Walk, Drive, Driven, Post, fleet
    <3>3. CASE Wake \/ NoSnapshot \/ Stop
      BY <3>3 DEF Wake, NoSnapshot, Stop, fleet
    <3>4. CASE Rest \/ UNCHANGED vars
      BY <3>4 DEF Rest, vars, fleet
    <3>. QED
      BY <3>1, <3>2, <3>3, <3>4 DEF Next
  <2>. QED
    BY <2>2, <2>3, <2>4, <2>5, <2>6
<1>. QED
  BY <1>1, AlwaysInv, PTL DEF Spec, RetiredForGood
=============================================================================
