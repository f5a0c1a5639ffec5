---------------------------- MODULE IngestProofs ----------------------------
(***************************************************************************)
(* Proofs about Ingest, for any workers, points, batches and bounds; and   *)
(* about the row locks of the same requests (RowLocks, at the end).        *)
(*                                                                         *)
(* Every argument rests on one fact: an id is given out once.  A request   *)
(* that holds the id of a vehicle which a reset has deleted can then never *)
(* meet another vehicle under that id; either its foreign keys fail, or    *)
(* the row they find is the vehicle that the request has read.             *)
(***************************************************************************)
EXTENDS Ingest, RowLocks, FiniteSetTheorems, SequenceTheorems, Lemmas

\* A point of a request under way.
Sent == [number : Numbers, type : Types, segment : Nat \cup {NoSegment},
         at : Int, fix : FixIds]

Steps == Types \cup
    {"idle", "lookup", "create", "detail", "upsert", "select", "gps",
     "position", "calculate"}

TablesOK ==
    /\ now \in Nat /\ serial \in Nat /\ requests \in Nat
    /\ vehicle \in SUBSET VehicleRow
    /\ detail \in SUBSET [id : Nat, table : Types]
    /\ gps \in SUBSET StoredRow /\ position \in SUBSET StoredRow

\* A request under way is at one of its points.
JobsOK ==
    /\ pc \in [Workers -> Steps]
    /\ kind \in [Workers -> {"single", "bulk", "crawl", "register"}]
    /\ batch \in [Workers -> Seq(Sent)]
    /\ place \in [Workers -> Nat \ {0}]
    /\ ids \in [Workers -> SUBSET VehicleRow]
    /\ \A w \in Workers : pc[w] # "idle" => place[w] \in 1..Len(batch[w])

TypeInv == TablesOK /\ JobsOK

\* The type invariant follows.
LEMMA TypeInvTypes == TypeInv => TypeOK
<1>. SUFFICES ASSUME TypeInv PROVE TypeOK
  OBVIOUS
<1>1. \A w \in Workers : \A p \in ToSet(batch[w]) : p \in Sent
  <2>. TAKE w \in Workers
  <2>1. batch[w] \in Seq(Sent)
    BY DEF TypeInv, JobsOK
  <2>. QED
    BY <2>1 DEF ToSet
<1>. QED
  BY <1>1 DEF TypeInv, TablesOK, JobsOK, TypeOK, Steps, Sent
-----------------------------------------------------------------------------
(* Types.                                                                  *)

\* Every non-empty set of places of a sequence has a last one.
LEMMA LastPlace ==
    ASSUME NEW n \in Nat, NEW T \in SUBSET (1..n), T # {}
    PROVE  Max(T) \in T
<1>. DEFINE left == {n - i : i \in T}
<1>a. \A i \in T : i \in Int /\ n - i \in Nat
  OBVIOUS
<1>1. left \subseteq Nat /\ left # {}
  BY <1>a
<1>2. PICK m \in left : \A k \in left : ~(<<k, m>> \in OpToRel(<, Nat))
  BY <1>1, NatLessThanWellFounded, WFMin
<1>3. PICK i \in T : m = n - i
  BY <1>2
<1>4. \A j \in T : i >= j
  <2>. TAKE j \in T
  <2>1. n - j \in left /\ m \in Nat /\ n - j \in Nat
    BY <1>1, <1>2
  <2>2. ~(n - j < m)
    BY <1>2, <2>1 DEF OpToRel
  <2>. QED
    BY <1>a, <1>3, <2>2
<1>. QED
  BY <1>4 DEF Max

\* What a request that is under way writes comes from its batch.
LEMMA CurrentIsSent ==
    ASSUME TypeInv, NEW w \in Workers, pc[w] # "idle"
    PROVE  /\ Here(w) \in Sent
           /\ Current(w) \subseteq ToSet(batch[w])
           /\ Current(w) \subseteq Sent
<1>1. batch[w] \in Seq(Sent) /\ place[w] \in DOMAIN batch[w]
  BY DEF TypeInv, JobsOK
<1>2. Here(w) \in Sent /\ Here(w) \in ToSet(batch[w])
  BY <1>1 DEF Here, ToSet
<1>3. ToSet(batch[w]) \subseteq Sent
  BY <1>1 DEF ToSet
<1>. QED
  BY <1>2, <1>3 DEF Current

\* What a request writes has the columns of both tables of fixes.
LEMMA RowsAreRows ==
    ASSUME TypeInv, NEW w \in Workers, pc[w] # "idle"
    PROVE  Rows(w) \in SUBSET StoredRow
<1>1. Current(w) \subseteq Sent /\ ids[w] \subseteq VehicleRow
  BY CurrentIsSent DEF TypeInv, JobsOK
<1>. QED
  BY <1>1 DEF Rows, Sent, VehicleRow, StoredRow

\* A vehicle that is seen stays the vehicle it is.
LEMMA SeenRow ==
    ASSUME NEW r \in VehicleRow, NEW x \in Int
    PROVE  LET q == [r EXCEPT !.last_seen = x] IN
           /\ q \in VehicleRow
           /\ q.id = r.id /\ q.number = r.number /\ q.type = r.type
BY DEF VehicleRow

\* The trigger changes nothing of a vehicle but last_seen.
LEMMA TouchedRow ==
    ASSUME TypeInv, NEW w \in Workers, pc[w] # "idle", NEW r \in vehicle,
           \A q \in ids[w] : q.id = r.id => q.number = r.number
    PROVE  /\ Touched(w, r) \in VehicleRow
           /\ Touched(w, r).id = r.id /\ Touched(w, r).number = r.number
           /\ Touched(w, r).type = r.type
<1>. DEFINE mine == {i \in DOMAIN batch[w] :
                batch[w][i] \in Current(w) /\ batch[w][i].number = r.number}
<1>1. r \in VehicleRow /\ batch[w] \in Seq(Sent)
  BY DEF TypeInv, TablesOK, JobsOK
<1>2. CASE \E row \in Rows(w) : row.id = r.id
  <2>1. PICK p \in Current(w), q \in ids[w] :
             p.number = q.number /\ q.id = r.id
    BY <1>2 DEF Rows
  <2>2. p \in ToSet(batch[w]) /\ p.number = r.number
    BY <2>1, CurrentIsSent
  <2>3. mine # {}
    BY <2>1, <2>2 DEF ToSet
  <2>4. mine \in SUBSET (1..Len(batch[w])) /\ Len(batch[w]) \in Nat
    BY <1>1
  <2>5. Max(mine) \in DOMAIN batch[w]
    BY <2>3, <2>4, LastPlace
  <2>6. PICK x \in Int : x = batch[w][Max(mine)].at
    <3>. HIDE DEF mine
    <3>1. batch[w][Max(mine)] \in Sent
      BY <1>1, <2>5
    <3>. QED
      BY <3>1 DEF Sent
  <2>7. Touched(w, r) = [r EXCEPT !.last_seen = x]
    BY <1>2, <2>6 DEF Touched
  <2>8. /\ [r EXCEPT !.last_seen = x] \in VehicleRow
        /\ [r EXCEPT !.last_seen = x].id = r.id
        /\ [r EXCEPT !.last_seen = x].number = r.number
        /\ [r EXCEPT !.last_seen = x].type = r.type
    BY <1>1, SeenRow
  <2>. HIDE DEF mine
  <2>. QED
    BY <2>7, <2>8
<1>3. CASE ~\E row \in Rows(w) : row.id = r.id
  BY <1>1, <1>3 DEF Touched
<1>. QED
  BY <1>2, <1>3

\* A request brings points of the right shape.
LEMMA AcceptTypes ==
    ASSUME TypeInv, NEW w \in Workers, NEW points \in Seq(Point),
           points # <<>>, NEW k \in {"single", "bulk", "crawl", "register"},
           NEW step \in {"lookup", "upsert", "create"},
           Accept(w, k, points, step)
    PROVE  TypeInv'
<1>. DEFINE new == [i \in DOMAIN points |->
          [number |-> points[i].number, type |-> points[i].type,
           segment |-> points[i].segment, at |-> now - points[i].age,
           fix |-> <<requests, i>>]]
<1>1. now \in Nat /\ requests \in Nat
  BY DEF TypeInv, TablesOK
<1>2. Len(points) \in Nat /\ DOMAIN points = 1..Len(points)
  OBVIOUS
<1>3. \A i \in DOMAIN points : new[i] \in Sent
  <2>. TAKE i \in DOMAIN points
  <2>1. points[i] \in Point /\ i \in Nat
    BY <1>2
  <2>. QED
    BY <1>1, <2>1 DEF Point, Sent, FixIds
<1>4. new \in Seq(Sent) /\ Len(new) = Len(points) /\ Len(points) > 0
  BY <1>2, <1>3, IsASeq
<1>5. batch' = [batch EXCEPT ![w] = new]
  BY DEF Accept
<1>. HIDE DEF new
<1>6. batch' \in [Workers -> Seq(Sent)] /\ batch'[w] = new
      /\ \A v \in Workers : v # w => batch'[v] = batch[v]
  BY <1>4, <1>5 DEF TypeInv, JobsOK
<1>7. /\ pc' = [pc EXCEPT ![w] = step] /\ kind' = [kind EXCEPT ![w] = k]
      /\ place' = [place EXCEPT ![w] = 1] /\ ids' = [ids EXCEPT ![w] = {}]
      /\ requests' = requests + 1 /\ UNCHANGED <<now, tables>>
  BY DEF Accept, Go
<1>8. \A v \in Workers : pc'[v] # "idle" => place'[v] \in 1..Len(batch'[v])
  BY <1>4, <1>6, <1>7 DEF TypeInv, JobsOK
<1>9. JobsOK'
  BY <1>6, <1>7, <1>8 DEF TypeInv, JobsOK, Steps
<1>10. TablesOK'
  BY <1>1, <1>7 DEF TypeInv, TablesOK, tables
<1>. QED
  BY <1>9, <1>10 DEF TypeInv

\* A request that ends leaves its worker idle.
LEMMA EndTypes ==
    ASSUME TypeInv, NEW w \in Workers, End(w)
    PROVE  JobsOK'
BY DEF TypeInv, JobsOK, End, Go, Steps

\* A request that goes on keeps its points and its place.
LEMMA GoTypes ==
    ASSUME TypeInv, NEW w \in Workers, NEW step \in Steps, Go(w, step),
           UNCHANGED sent, pc[w] # "idle",
           \/ UNCHANGED ids
           \/ \E S \in SUBSET VehicleRow : ids' = [ids EXCEPT ![w] = S]
    PROVE  JobsOK'
BY DEF TypeInv, JobsOK, sent, Go, Steps

\* Each kind of request brings such points.
LEMMA RequestTypes ==
    ASSUME TypeInv, NEW w \in Workers, Request(w)
    PROVE  TypeInv'
<1>1. \A p \in Singles \cup Registered :
          <<p>> \in Seq(Point) /\ <<p>> # <<>>
  BY IngestAssumption
<1>2. \A s \in Batches \cup Crawls : s \in Seq(Point) /\ s # <<>>
  BY IngestAssumption
<1>3. CASE Ingest(w)
  BY <1>1, <1>3, AcceptTypes DEF Ingest
<1>4. CASE BulkIngest(w)
  BY <1>2, <1>4, AcceptTypes DEF BulkIngest
<1>5. CASE Crawl(w)
  BY <1>2, <1>5, AcceptTypes DEF Crawl
<1>6. CASE RegisterVehicle(w)
  BY <1>1, <1>6, AcceptTypes DEF RegisterVehicle
<1>. QED
  BY <1>3, <1>4, <1>5, <1>6 DEF Request

\* The new numbers of a batch are finitely many.
LEMMA NewNumbers ==
    ASSUME TypeInv, NEW w \in Workers
    PROVE  LET new == {p.number : p \in ToSet(batch[w])}
                         \ {r.number : r \in vehicle}
           IN Cardinality(new) \in Nat /\ new \subseteq Numbers
<1>. DEFINE sender == {p.number : p \in ToSet(batch[w])}
            of == [i \in 1..Len(batch[w]) |-> batch[w][i].number]
<1>1. batch[w] \in Seq(Sent)
  BY DEF TypeInv, JobsOK
<1>2. DOMAIN batch[w] = 1..Len(batch[w]) /\ Len(batch[w]) \in Nat
  BY <1>1
<1>3. of \in Surjection(1..Len(batch[w]), sender)
  BY <1>2 DEF ToSet, Surjection
<1>4. IsFiniteSet(sender)
  <2>1. IsFiniteSet(1..Len(batch[w]))
    BY <1>2, FS_Interval
  <2>. HIDE DEF sender, of
  <2>. QED
    BY <1>3, <2>1, FS_Surjection
<1>5. sender \subseteq Numbers
  <2>1. \A i \in DOMAIN batch[w] : batch[w][i] \in Sent
    BY <1>1
  <2>. QED
    BY <2>1 DEF ToSet, Sent
<1>6. \A old : /\ Cardinality(sender \ old) \in Nat
               /\ sender \ old \subseteq Numbers
  <2>. HIDE DEF sender
  <2>. QED
    BY <1>4, <1>5, FS_Subset, FS_CardinalityType
<1>. QED
  BY <1>6
-----------------------------------------------------------------------------
(* Who owns an id.                                                         *)

\* The same vehicle, whenever it was last seen.
Same(q, r) == q.id = r.id /\ q.number = r.number /\ q.type = r.type

\* An id is given out once, and a request that has read a vehicle still holds
\* the id of that vehicle, or of none.
Owners ==
    /\ \A q \in vehicle : q.id < serial
    /\ \A q, r \in vehicle : q.id = r.id => Same(q, r)
    /\ \A w \in Workers : \A q \in ids[w] :
          /\ q.id < serial
          /\ \A r \in vehicle : q.id = r.id => Same(q, r)

\* What every step keeps of it: a row under an old id is an old row.
IdsGivenOnce ==
    /\ serial' \in Nat /\ serial' >= serial
    /\ \A q \in vehicle' :
          /\ q.id < serial'
          /\ q.id < serial => \E r \in vehicle : Same(q, r)
          /\ q.id >= serial =>
                \A r \in vehicle' : q.id = r.id => Same(q, r)

\* A request looks at rows it has read before or that it reads now.
ReadsRows ==
    \A w \in Workers : ids'[w] \subseteq ids[w] \/ ids'[w] \subseteq vehicle'

\* From these two facts every step keeps the owners.
LEMMA OwnersKept ==
    ASSUME TypeInv, TypeInv', Owners, IdsGivenOnce, ReadsRows
    PROVE  Owners'
<1>. /\ serial \in Nat /\ serial' \in Nat
     /\ vehicle \subseteq VehicleRow /\ vehicle' \subseteq VehicleRow
     /\ \A q \in VehicleRow : q.id \in Nat
     /\ ids \in [Workers -> SUBSET VehicleRow]
  BY DEF TypeInv, TablesOK, JobsOK, VehicleRow
<1>1. \A q \in vehicle' : q.id < serial'
  BY DEF IdsGivenOnce
<1>2. \A q, r \in vehicle' : q.id = r.id => Same(q, r)
  <2>. TAKE q, r \in vehicle'
  <2>1. CASE q.id >= serial
    BY <2>1 DEF IdsGivenOnce
  <2>2. CASE q.id < serial /\ q.id = r.id
    <3>1. PICK a \in vehicle : Same(q, a)
      BY <2>2 DEF IdsGivenOnce
    <3>2. PICK b \in vehicle : Same(r, b)
      BY <2>2 DEF IdsGivenOnce
    <3>3. Same(a, b)
      BY <2>2, <3>1, <3>2 DEF Owners, Same
    <3>. QED
      BY <3>1, <3>2, <3>3 DEF Same
  <2>. QED
    BY <2>1, <2>2
<1>3. ASSUME NEW w \in Workers, NEW q \in ids'[w]
      PROVE  /\ q.id < serial'
             /\ \A r \in vehicle' : q.id = r.id => Same(q, r)
  <2>1. CASE q \in vehicle'
    BY <1>1, <1>2, <2>1
  <2>2. CASE q \in ids[w]
    <3>1. q.id < serial /\ q.id < serial' /\ q \in VehicleRow
      BY <2>2 DEF Owners, IdsGivenOnce
    <3>2. \A r \in vehicle' : q.id = r.id => Same(q, r)
      <4>. TAKE r \in vehicle'
      <4>. HAVE q.id = r.id
      <4>1. PICK a \in vehicle : Same(r, a)
        BY <3>1 DEF IdsGivenOnce
      <4>2. Same(q, a)
        BY <2>2, <4>1 DEF Owners, Same
      <4>. QED
        BY <4>1, <4>2 DEF Same
    <3>. QED
      BY <3>1, <3>2
  <2>. QED
    BY <2>1, <2>2 DEF ReadsRows
<1>. QED
  BY <1>1, <1>2, <1>3 DEF Owners

\* A step that leaves the vehicles alone gives out no id.
LEMMA NoIdGiven ==
    ASSUME TypeInv, Owners, UNCHANGED <<vehicle, serial>>
    PROVE  IdsGivenOnce
BY DEF TypeInv, TablesOK, Owners, IdsGivenOnce, Same

\* What the lemmas below show of each action in turn.
Good == TypeInv' /\ IdsGivenOnce /\ ReadsRows

\* A request refused at once changes no table.
LEMMA RejectGood ==
    ASSUME TypeInv, Owners, NEW w \in Workers, Reject(w)
    PROVE  Good
<1>1. TypeInv'
  BY EndTypes DEF Reject, TypeInv, TablesOK, tables, bounds
<1>2. IdsGivenOnce
  BY NoIdGiven DEF Reject, tables
<1>3. ReadsRows
  BY DEF Reject, End, ReadsRows, TypeInv, JobsOK
<1>. QED
  BY <1>1, <1>2, <1>3 DEF Good

\* A new request holds no id yet.
LEMMA RequestGood ==
    ASSUME TypeInv, Owners, NEW w \in Workers, Request(w)
    PROVE  Good
<1>1. ReadsRows /\ UNCHANGED tables
  BY DEF Request, Ingest, BulkIngest, Crawl, RegisterVehicle, Accept,
         ReadsRows, TypeInv, JobsOK
<1>. QED
  BY <1>1, RequestTypes, NoIdGiven DEF Good, tables

\* The id that is looked up is that of the vehicle read.
LEMMA LookupGood ==
    ASSUME TypeInv, Owners, NEW w \in Workers, Lookup(w)
    PROVE  Good
<1>1. Named(Here(w).number) \subseteq vehicle
  BY DEF Named
<1>2. JobsOK'
  BY <1>1, GoTypes DEF Lookup, TypeInv, TablesOK, Steps
<1>3. TypeInv' /\ IdsGivenOnce
  BY <1>2, NoIdGiven DEF Lookup, TypeInv, TablesOK, tables, bounds
<1>4. ReadsRows
  BY <1>1 DEF Lookup, ReadsRows, TypeInv, JobsOK, tables
<1>. QED
  BY <1>3, <1>4 DEF Good

\* The row created gets the next id, which no row and no request has.
LEMMA CreateGood ==
    ASSUME TypeInv, Owners, NEW w \in Workers, Create(w)
    PROVE  Good
<1>. DEFINE row == [id |-> serial, number |-> Here(w).number,
                    type |-> Here(w).type, last_seen |-> Never]
<1>1. /\ pc[w] = "create" /\ vehicle' = vehicle \cup {row}
      /\ serial' = serial + 1 /\ ids' = [ids EXCEPT ![w] = {row}]
      /\ Go(w, "detail")
      /\ UNCHANGED <<now, detail, gps, position, sent, bounds>>
  BY DEF Create, NextId
<1>2. row \in VehicleRow /\ row.id = serial /\ serial \in Nat
  BY <1>1, CurrentIsSent DEF VehicleRow, Sent, Never, TypeInv, TablesOK
<1>. HIDE DEF row
<1>3. JobsOK'
  BY <1>1, <1>2, GoTypes DEF Steps
<1>4. TypeInv'
  BY <1>1, <1>2, <1>3 DEF TypeInv, TablesOK, bounds
<1>5. IdsGivenOnce
  <2>. \A q \in vehicle : q.id \in Nat /\ q.id < serial
    BY DEF TypeInv, TablesOK, VehicleRow, Owners
  <2>1. \A q \in vehicle' : q.id < serial' /\ (q.id < serial => q \in vehicle)
    BY <1>1, <1>2
  <2>2. \A q \in vehicle' : q.id >= serial => q = row
    BY <1>1, <1>2
  <2>. QED
    BY <1>1, <1>2, <2>1, <2>2 DEF IdsGivenOnce, Same
<1>6. ReadsRows
  BY <1>1 DEF ReadsRows, TypeInv, JobsOK
<1>. QED
  BY <1>4, <1>5, <1>6 DEF Good

\* The subtype row goes to the vehicle just created.
LEMMA CreateDetailGood ==
    ASSUME TypeInv, Owners, NEW w \in Workers, CreateDetail(w)
    PROVE  Good
<1>1. JobsOK' /\ ReadsRows
  <2>1. CASE kind[w] = "register"
    BY <2>1, EndTypes DEF CreateDetail, End, ReadsRows, TypeInv, JobsOK
  <2>2. CASE kind[w] # "register"
    BY <2>2, GoTypes DEF CreateDetail, Steps, ReadsRows
  <2>. QED
    BY <2>1, <2>2
<1>2. detail' \in SUBSET [id : Nat, table : Types]
  BY DEF CreateDetail, TypeInv, TablesOK, JobsOK, VehicleRow
<1>3. TypeInv' /\ IdsGivenOnce
  BY <1>1, <1>2, NoIdGiven DEF CreateDetail, TypeInv, TablesOK, bounds
<1>. QED
  BY <1>1, <1>3 DEF Good

\* So do the new rows of a batch, each an id of its own.
LEMMA UpsertGood ==
    ASSUME TypeInv, Owners, NEW w \in Workers, UpsertVehicles(w)
    PROVE  Good
<1>. DEFINE new == {p.number : p \in ToSet(batch[w])}
                      \ {r.number : r \in vehicle}
<1>1. Cardinality(new) \in Nat /\ new \subseteq Numbers
  BY NewNumbers
<1>. DEFINE k == Cardinality(new)
            row(order, type, n) == [id |-> order[n], number |-> n,
                                    type |-> type[n], last_seen |-> Never]
<1>2. PICK order \in [new -> serial..(serial + k - 1)],
           type \in [new -> Types] :
             /\ \A m, n \in new : order[m] = order[n] => m = n
             /\ vehicle' = vehicle \cup {row(order, type, n) : n \in new}
  BY DEF UpsertVehicles
<1>3. /\ serial' = serial + k /\ Go(w, "select") /\ pc[w] = "upsert"
      /\ UNCHANGED <<now, detail, gps, position, sent, ids, bounds>>
  BY DEF UpsertVehicles
<1>. HIDE DEF k, new
<1>4. serial \in Nat /\ k \in Nat
  BY <1>1 DEF k, TypeInv, TablesOK
<1>5. \A n \in new : /\ row(order, type, n) \in VehicleRow
                     /\ row(order, type, n).id = order[n]
                     /\ order[n] >= serial /\ order[n] < serial + k
  BY <1>1, <1>2, <1>4 DEF VehicleRow, Never
<1>6. JobsOK'
  BY <1>3, GoTypes DEF Steps
<1>7. TypeInv'
  BY <1>2, <1>3, <1>4, <1>5, <1>6 DEF TypeInv, TablesOK, bounds
<1>8. \A q \in vehicle : q.id \in Nat /\ q.id < serial
  BY DEF TypeInv, TablesOK, VehicleRow, Owners
<1>9. \A q \in vehicle' \ vehicle :
         \E n \in new : q = row(order, type, n)
  BY <1>2
<1>10. \A q \in vehicle' : q.id >= serial =>
          \A r \in vehicle' : q.id = r.id => Same(q, r)
  <2>. TAKE q \in vehicle'
  <2>. HAVE q.id >= serial
  <2>. TAKE r \in vehicle'
  <2>. HAVE q.id = r.id
  <2>1. PICK m \in new : q = row(order, type, m)
    BY <1>4, <1>8, <1>9
  <2>2. PICK n \in new : r = row(order, type, n)
    BY <1>4, <1>8, <1>9
  <2>3. m = n
    BY <1>2, <1>5, <2>1, <2>2
  <2>. QED
    BY <2>1, <2>2, <2>3 DEF Same
<1>11. IdsGivenOnce
  <2>1. \A q \in vehicle' : q.id < serial'
    BY <1>3, <1>4, <1>5, <1>8, <1>9
  <2>2. \A q \in vehicle' : q.id < serial => q \in vehicle
    BY <1>4, <1>5, <1>9
  <2>. QED
    BY <1>3, <1>4, <1>10, <2>1, <2>2 DEF IdsGivenOnce, Same
<1>. QED
  BY <1>3, <1>7, <1>11 DEF Good, ReadsRows

\* SELECT returns the ids of the numbers sent.
LEMMA SelectGood ==
    ASSUME TypeInv, Owners, NEW w \in Workers, SelectIds(w)
    PROVE  Good
<1>1. RowsOfBatch(w) \subseteq vehicle /\ UNCHANGED vehicle
  BY DEF SelectIds, RowsOfBatch, tables
<1>2. JobsOK'
  BY <1>1, GoTypes DEF SelectIds, TypeInv, TablesOK, Steps, Types
<1>3. TypeInv' /\ IdsGivenOnce
  BY <1>2, NoIdGiven DEF SelectIds, TypeInv, TablesOK, tables, bounds
<1>4. ReadsRows
  BY <1>1 DEF SelectIds, ReadsRows, TypeInv, JobsOK
<1>. QED
  BY <1>3, <1>4 DEF Good

\* A subtype row is written for a vehicle that the request has read.
LEMMA DetailRows ==
    ASSUME TypeInv, NEW w \in Workers, pc[w] \in Types,
           Referenced(IdsOfType(w, pc[w]))
    PROVE  \A i \in IdsOfType(w, pc[w]) :
              i \in Nat /\ \E q \in ids[w] : q.id = i /\ q.type = pc[w]
<1>1. ids[w] \subseteq VehicleRow /\ vehicle \subseteq VehicleRow
  BY DEF TypeInv, TablesOK, JobsOK
<1>2. -1 \notin VehicleIds
  BY <1>1 DEF VehicleIds, VehicleRow
<1>. QED
  BY <1>1, <1>2 DEF Referenced, IdsOfType, VehicleRow

\* Each subtype gets the vehicles of its type.
LEMMA BulkDetailGood ==
    ASSUME TypeInv, Owners, NEW w \in Workers, BulkDetail(w)
    PROVE  Good
<1>1. AfterDetail[pc[w]] \in Steps
  BY DEF BulkDetail, AfterDetail, Types, Steps
<1>2. pc[w] # "idle"
  BY DEF BulkDetail, Types
<1>3. JobsOK'
  BY <1>1, <1>2, GoTypes DEF BulkDetail
<1>4. detail' \in SUBSET [id : Nat, table : Types]
  BY DetailRows DEF BulkDetail, TypeInv, TablesOK
<1>. QED
  BY <1>3, <1>4, NoIdGiven
     DEF BulkDetail, Good, TypeInv, TablesOK, bounds, ReadsRows

\* The raw fixes go to the ids that the request holds.
LEMMA InsertGpsGood ==
    ASSUME TypeInv, Owners, NEW w \in Workers, InsertGps(w)
    PROVE  Good
<1>1. JobsOK'
  BY GoTypes DEF InsertGps, Steps
<1>2. gps' \in SUBSET StoredRow
  BY RowsAreRows DEF InsertGps, RawRows, TypeInv, TablesOK
<1>. QED
  BY <1>1, <1>2, NoIdGiven
     DEF InsertGps, Good, TypeInv, TablesOK, bounds, ReadsRows

\* Rows that are only seen again stay the vehicles they are.
LEMMA SeenAgain ==
    ASSUME TypeInv, Owners, serial' = serial,
           \A q \in vehicle' : \E r \in vehicle : Same(q, r)
    PROVE  IdsGivenOnce
<1>. \A q \in vehicle : q.id \in Nat /\ q.id < serial
  BY DEF Owners, TypeInv, TablesOK, VehicleRow
<1>. serial \in Nat
  BY DEF TypeInv, TablesOK
<1>. QED
  BY DEF IdsGivenOnce, Same

\* The trigger changes last_seen of a vehicle, nothing else.
LEMMA InsertPositionGood ==
    ASSUME TypeInv, Owners, NEW w \in Workers, InsertPosition(w)
    PROVE  /\ Good
           /\ \A r \in vehicle : Same(Touched(w, r), r)
<1>1. JobsOK'
  BY GoTypes DEF InsertPosition, Steps
<1>2. position' \in SUBSET StoredRow
  BY RowsAreRows DEF InsertPosition, TypeInv, TablesOK
<1>3. \A r \in vehicle : Touched(w, r) \in VehicleRow /\ Same(Touched(w, r), r)
  BY TouchedRow DEF InsertPosition, Owners, Same
<1>4. vehicle' \in SUBSET VehicleRow
      /\ \A q \in vehicle' : \E r \in vehicle : Same(q, r)
  BY <1>3 DEF InsertPosition
<1>5. TypeInv'
  BY <1>1, <1>2, <1>4 DEF InsertPosition, TypeInv, TablesOK, bounds
<1>. QED
  BY <1>3, <1>4, <1>5, SeenAgain DEF InsertPosition, Good, ReadsRows

\* The refresh changes no table of the ingest.
LEMMA CalculateGood ==
    ASSUME TypeInv, Owners, NEW w \in Workers, Calculate(w)
    PROVE  Good
<1>1. JobsOK' /\ ReadsRows
  <2>1. CASE place[w] = Len(batch[w])
    BY <2>1, EndTypes DEF Calculate, End, ReadsRows, TypeInv, JobsOK
  <2>2. CASE place[w] # Len(batch[w])
    <3>1. batch[w] \in Seq(Sent) /\ Len(batch[w]) \in Nat
      BY DEF TypeInv, JobsOK
    <3>2. /\ pc' = [pc EXCEPT ![w] = "lookup"] /\ UNCHANGED <<kind, batch>>
          /\ place' = [place EXCEPT ![w] = @ + 1]
          /\ ids' = [ids EXCEPT ![w] = {}] /\ pc[w] # "idle"
      BY <2>2 DEF Calculate, Go
    <3>3. place[w] + 1 \in 1..Len(batch[w])
      BY <2>2, <3>1, <3>2 DEF TypeInv, JobsOK
    <3>. QED
      BY <3>2, <3>3 DEF ReadsRows, TypeInv, JobsOK, Steps
  <2>. QED
    BY <2>1, <2>2
<1>2. TypeInv' /\ IdsGivenOnce
  BY <1>1, NoIdGiven DEF Calculate, TypeInv, TablesOK, tables, bounds
<1>. QED
  BY <1>1, <1>2 DEF Good

\* The last UPDATE of a batch changes last_seen only.
LEMMA TouchLastSeenGood ==
    ASSUME TypeInv, Owners, NEW w \in Workers, TouchLastSeen(w)
    PROVE  Good
<1>. DEFINE seen(r) == IF \E q \in ids[w] : q.id = r.id
                       THEN [r EXCEPT !.last_seen = now] ELSE r
<1>1. JobsOK' /\ ReadsRows
  <2>1. End(w)
    BY DEF TouchLastSeen
  <2>. QED
    BY <2>1, EndTypes DEF End, ReadsRows, TypeInv, JobsOK
<1>2. \A r \in vehicle : seen(r) \in VehicleRow /\ Same(seen(r), r)
  <2>1. now \in Int /\ \A r \in vehicle : r \in VehicleRow
    BY DEF TypeInv, TablesOK
  <2>2. \A r \in vehicle : LET q == [r EXCEPT !.last_seen = now] IN
           q \in VehicleRow /\ Same(q, r)
    BY <2>1, SeenRow DEF Same
  <2>. QED
    BY <2>1, <2>2 DEF Same
<1>3. vehicle' = {seen(r) : r \in vehicle}
  BY DEF TouchLastSeen
<1>. HIDE DEF seen
<1>4. vehicle' \in SUBSET VehicleRow
      /\ \A q \in vehicle' : \E r \in vehicle : Same(q, r)
  BY <1>2, <1>3
<1>. QED
  BY <1>1, <1>4, SeenAgain
     DEF TouchLastSeen, TypeInv, TablesOK, bounds, Good

\* A reset takes rows away and gives no id back.
LEMMA ResetGood ==
    ASSUME TypeInv, Owners, Reset
    PROVE  Good
<1>1. vehicle' \subseteq vehicle /\ serial' = serial
      /\ detail' \subseteq detail /\ gps' \subseteq gps
      /\ position' \subseteq position /\ UNCHANGED <<now, job, requests>>
  BY DEF Reset
<1>2. TypeInv'
  BY <1>1 DEF TypeInv, TablesOK, JobsOK, job, sent
<1>3. IdsGivenOnce
  BY <1>1, SeenAgain DEF Same
<1>. QED
  BY <1>1, <1>2, <1>3 DEF Good, ReadsRows, job

\* Every statement of a request keeps types and owners.
LEMMA StepGood ==
    ASSUME TypeInv, Owners, NEW w \in Workers, Step(w)
    PROVE  Good
<1>1. CASE Lookup(w) \/ Create(w) \/ NumberTaken(w)
  BY <1>1, LookupGood, CreateGood, RejectGood DEF NumberTaken
<1>2. CASE CreateDetail(w) \/ DetailRefused(w)
  BY <1>2, CreateDetailGood, RejectGood DEF DetailRefused
<1>3. CASE UpsertVehicles(w) \/ SelectIds(w)
  BY <1>3, UpsertGood, SelectGood
<1>4. CASE BulkDetail(w) \/ BulkDetailRefused(w)
  BY <1>4, BulkDetailGood, RejectGood DEF BulkDetailRefused
<1>5. CASE InsertGps(w) \/ GpsRefused(w)
  BY <1>5, InsertGpsGood, RejectGood DEF GpsRefused
<1>6. CASE InsertPosition(w) \/ PositionRefused(w)
  BY <1>6, InsertPositionGood, RejectGood DEF PositionRefused
<1>7. CASE Calculate(w) \/ TouchLastSeen(w)
  BY <1>7, CalculateGood, TouchLastSeenGood
<1>. QED
  BY <1>1, <1>2, <1>3, <1>4, <1>5, <1>6, <1>7 DEF Step

\* So does every step, with a reset or a failure.
LEMMA NextGood ==
    ASSUME TypeInv, Owners, [Next]_vars
    PROVE  Good
<1>1. CASE \E w \in Workers : Request(w) \/ Step(w) \/ Fail(w)
  BY <1>1, RequestGood, StepGood, RejectGood DEF Fail
<1>2. CASE Reset
  BY <1>2, ResetGood
<1>3. CASE Tick \/ UNCHANGED vars
  <2>1. UNCHANGED <<tables, job, requests>> /\ now' \in Nat
    BY <1>3 DEF Tick, vars, bounds, TypeInv, TablesOK
  <2>2. TypeInv'
    BY <2>1 DEF TypeInv, TablesOK, JobsOK, tables, job, sent
  <2>. QED
    BY <2>1, <2>2, NoIdGiven DEF Good, ReadsRows, tables, job
<1>. QED
  BY <1>1, <1>2, <1>3 DEF Next, Rest

\* The tables begin empty.
LEMMA FirstRows == Init => TypeInv /\ Owners
<1>. SUFFICES ASSUME Init PROVE TypeInv /\ Owners
  OBVIOUS
<1>1. <<>> \in Seq(Sent)
  OBVIOUS
<1>. QED
  BY <1>1 DEF Init, TypeInv, TablesOK, JobsOK, Steps, Owners

\* TypeOK and the owners of ids hold in every state.
LEMMA OwnersAlways == Spec => [](TypeInv /\ Owners)
<1>1. TypeInv /\ Owners /\ [Next]_vars => (TypeInv /\ Owners)'
  BY NextGood, OwnersKept DEF Good
<1>. QED
  BY <1>1, FirstRows, PTL DEF Spec

\* The rows and the requests keep their types (Ingest's TypeOK), for any
\* workers, points and bounds.
THEOREM IngestTypes == Spec => []TypeOK
BY OwnersAlways, TypeInvTypes, PTL
-----------------------------------------------------------------------------
(* What the requests leave behind.                                         *)

\* A request that is past its raw fixes has them stored, but for vehicles
\* that a reset has deleted.
RawStored ==
    \A w \in Workers : pc[w] = "position" =>
        \A row \in Rows(w) : row.id \in VehicleIds => row \in gps

Stored ==
    /\ DetailMatchesType
    /\ FixBelongsToSender
    /\ PositionHasRawFix
    /\ RawStored
    /\ OkMeansStored

Elsewhere(w) ==
    \A v \in Workers \ {w} :
        /\ pc'[v] = pc[v] /\ kind'[v] = kind[v] /\ batch'[v] = batch[v]
        /\ place'[v] = place[v] /\ ids'[v] = ids[v]

\* What a worker's step does to the tables: it deletes nothing, and what it
\* adds belongs to vehicles that are there.
Adds(w) ==
    /\ Elsewhere(w)
    /\ gps \subseteq gps' /\ position \subseteq position'
    /\ \A r \in vehicle : \E q \in vehicle' : Same(q, r)
    /\ \A d \in detail' \ detail :
          \E r \in vehicle : r.id = d.id /\ r.type = d.table
    /\ \A row \in (gps' \ gps) \cup (position' \ position) :
          \E r \in vehicle : r.id = row.id /\ r.number = row.number
    /\ InsertPosition(w) \/ position' = position
    /\ pc'[w] = "position" => InsertGps(w)
    /\ pc'[w] = "calculate" => InsertPosition(w)

\* A row that can be inserted finds the vehicle that the client named.
LEMMA RowOwner ==
    ASSUME TypeInv, Owners, NEW w \in Workers, Insertable(w),
           NEW row \in Rows(w)
    PROVE  \E r \in vehicle : r.id = row.id /\ r.number = row.number
<1>1. PICK q \in ids[w] : row.id = q.id /\ row.number = q.number
  BY DEF Rows
<1>2. PICK r \in vehicle : r.id = row.id
  BY DEF Insertable, VehicleIds
<1>. QED
  BY <1>1, <1>2 DEF Owners, Same

\* A step of one worker leaves the others' requests alone.
LEMMA JobsElsewhere ==
    ASSUME TypeInv, NEW w \in Workers, NEW step, Go(w, step),
           \/ UNCHANGED <<sent, ids>>
           \/ UNCHANGED sent /\ \E S : ids' = [ids EXCEPT ![w] = S]
           \/ /\ kind' = [kind EXCEPT ![w] = "single"]
              /\ batch' = [batch EXCEPT ![w] = <<>>]
              /\ place' = [place EXCEPT ![w] = 1]
              /\ ids' = [ids EXCEPT ![w] = {}]
    PROVE  Elsewhere(w) /\ pc'[w] = step
BY DEF TypeInv, JobsOK, Go, Elsewhere, sent

\* A request that begins, ends or reads adds nothing.
LEMMA QuietAdds ==
    ASSUME NEW w \in Workers, Elsewhere(w), UNCHANGED tables,
           pc'[w] \notin {"position", "calculate"}
    PROVE  Adds(w)
BY DEF Adds, tables, Same

\* A request refused at once adds nothing.
LEMMA RejectAdds ==
    ASSUME TypeInv, NEW w \in Workers, Reject(w)
    PROVE  Adds(w)
<1>1. Elsewhere(w) /\ pc'[w] = "idle"
  BY JobsElsewhere DEF Reject, End
<1>. QED
  BY <1>1, QuietAdds DEF Reject

\* A request adds nothing when it is accepted.
LEMMA AcceptAdds ==
    ASSUME TypeInv, NEW w \in Workers, NEW k, NEW points,
           NEW step \in {"lookup", "upsert", "create"},
           Accept(w, k, points, step)
    PROVE  Adds(w)
<1>1. PICK b :
          /\ pc' = [pc EXCEPT ![w] = step] /\ kind' = [kind EXCEPT ![w] = k]
          /\ batch' = [batch EXCEPT ![w] = b]
          /\ place' = [place EXCEPT ![w] = 1] /\ ids' = [ids EXCEPT ![w] = {}]
  BY DEF Accept, Go
<1>2. Elsewhere(w) /\ pc'[w] = step
  BY <1>1 DEF Elsewhere, TypeInv, JobsOK
<1>. QED
  BY <1>2, QuietAdds DEF Accept, tables

\* A request that begins adds no row.
LEMMA RequestAdds ==
    ASSUME TypeInv, NEW w \in Workers, Request(w)
    PROVE  Adds(w)
<1>1. CASE Ingest(w)
  BY <1>1, AcceptAdds DEF Ingest
<1>2. CASE BulkIngest(w)
  BY <1>2, AcceptAdds DEF BulkIngest
<1>3. CASE Crawl(w)
  BY <1>3, AcceptAdds DEF Crawl
<1>4. CASE RegisterVehicle(w)
  BY <1>4, AcceptAdds DEF RegisterVehicle
<1>. QED
  BY <1>1, <1>2, <1>3, <1>4 DEF Request

\* The steps that add vehicles and subtype rows.
LEMMA VehicleAdds ==
    ASSUME TypeInv, Owners, NEW w \in Workers,
           \/ Create(w) \/ CreateDetail(w) \/ UpsertVehicles(w)
           \/ BulkDetail(w) \/ TouchLastSeen(w)
    PROVE  Adds(w)
<1>1. CASE Create(w)
  <2>1. Elsewhere(w) /\ pc'[w] = "detail"
    BY <1>1, JobsElsewhere DEF Create
  <2>. QED
    BY <1>1, <2>1 DEF Create, Adds, Same
<1>2. CASE CreateDetail(w)
  <2>1. Elsewhere(w) /\ pc'[w] \in {"idle", "gps"}
    <3>1. CASE kind[w] = "register"
      BY <1>2, <3>1, JobsElsewhere DEF CreateDetail, End
    <3>2. CASE kind[w] # "register"
      BY <1>2, <3>2, JobsElsewhere DEF CreateDetail
    <3>. QED
      BY <3>1, <3>2
  <2>2. \A q \in ids[w] : \E r \in vehicle : r.id = q.id /\ r.type = q.type
    BY <1>2 DEF CreateDetail, VehicleIds, Owners, Same
  <2>3. \A d \in detail' \ detail :
           \E q \in ids[w] : d = [id |-> q.id, table |-> q.type]
    BY <1>2 DEF CreateDetail
  <2>. QED
    BY <1>2, <2>1, <2>2, <2>3 DEF CreateDetail, Adds, Same
<1>3. CASE UpsertVehicles(w)
  <2>1. Elsewhere(w) /\ pc'[w] = "select"
    BY <1>3, JobsElsewhere DEF UpsertVehicles
  <2>2. vehicle \subseteq vehicle'
    BY <1>3 DEF UpsertVehicles
  <2>. QED
    BY <1>3, <2>1, <2>2 DEF UpsertVehicles, Adds, Same
<1>4. CASE BulkDetail(w)
  <2>1. Elsewhere(w) /\ pc'[w] = AfterDetail[pc[w]]
    BY <1>4, JobsElsewhere DEF BulkDetail
  <2>2. pc'[w] \notin {"position", "calculate"}
    BY <1>4, <2>1 DEF BulkDetail, AfterDetail, Types
  <2>3. \A i \in IdsOfType(w, pc[w]) :
           \E r \in vehicle : r.id = i /\ r.type = pc[w]
    <3>. TAKE i \in IdsOfType(w, pc[w])
    <3>1. PICK q \in ids[w] : q.id = i /\ q.type = pc[w]
      BY <1>4, DetailRows DEF BulkDetail
    <3>2. PICK r \in vehicle : r.id = i
      BY <1>4 DEF BulkDetail, Referenced, VehicleIds
    <3>. QED
      BY <3>1, <3>2 DEF Owners, Same
  <2>. QED
    BY <1>4, <2>1, <2>2, <2>3 DEF BulkDetail, Adds, Same
<1>5. CASE TouchLastSeen(w)
  <2>1. Elsewhere(w) /\ pc'[w] = "idle"
    BY <1>5, JobsElsewhere DEF TouchLastSeen, End
  <2>2. now \in Int /\ vehicle \subseteq VehicleRow
    BY DEF TypeInv, TablesOK
  <2>3. \A r \in vehicle : Same([r EXCEPT !.last_seen = now], r)
    BY <2>2, SeenRow DEF Same
  <2>4. \A r \in vehicle : \E q \in vehicle' : Same(q, r)
    <3>. TAKE r \in vehicle
    <3>1. (IF \E q \in ids[w] : q.id = r.id
           THEN [r EXCEPT !.last_seen = now] ELSE r) \in vehicle'
      BY <1>5 DEF TouchLastSeen
    <3>. QED
      BY <2>3, <3>1 DEF Same
  <2>. QED
    BY <1>5, <2>1, <2>4 DEF TouchLastSeen, Adds
<1>. QED
  BY <1>1, <1>2, <1>3, <1>4, <1>5

\* The steps that add fixes.
LEMMA FixAdds ==
    ASSUME TypeInv, Owners, NEW w \in Workers,
           InsertGps(w) \/ InsertPosition(w)
    PROVE  Adds(w)
<1>1. CASE InsertGps(w)
  <2>1. Elsewhere(w) /\ pc'[w] = "position"
    BY <1>1, JobsElsewhere DEF InsertGps
  <2>. QED
    BY <1>1, <2>1, RowOwner DEF InsertGps, RawRows, Adds, Same
<1>2. CASE InsertPosition(w)
  <2>1. Elsewhere(w) /\ pc'[w] = "calculate"
    BY <1>2, JobsElsewhere DEF InsertPosition
  <2>2. \A r \in vehicle : Touched(w, r) \in vehicle' /\ Same(Touched(w, r), r)
    BY <1>2, InsertPositionGood DEF InsertPosition
  <2>. QED
    BY <1>2, <2>1, <2>2, RowOwner DEF InsertPosition, Adds
<1>. QED
  BY <1>1, <1>2

\* Each step of w adds rows of its own points only.
LEMMA StepAdds ==
    ASSUME TypeInv, Owners, NEW w \in Workers,
           Request(w) \/ Step(w) \/ Fail(w)
    PROVE  Adds(w)
<1>1. CASE Request(w)
  BY <1>1, RequestAdds
<1>2. CASE \/ NumberTaken(w) \/ DetailRefused(w) \/ BulkDetailRefused(w)
           \/ GpsRefused(w) \/ PositionRefused(w) \/ Fail(w)
  BY <1>2, RejectAdds
     DEF NumberTaken, DetailRefused, BulkDetailRefused, GpsRefused,
         PositionRefused, Fail
<1>3. CASE Lookup(w)
  <2>1. Elsewhere(w) /\ pc'[w] \in {"create", "gps"}
    BY <1>3, JobsElsewhere DEF Lookup
  <2>. QED
    BY <1>3, <2>1, QuietAdds DEF Lookup
<1>4. CASE SelectIds(w)
  <2>1. Elsewhere(w) /\ pc'[w] = "car"
    BY <1>4, JobsElsewhere DEF SelectIds
  <2>. QED
    BY <1>4, <2>1, QuietAdds DEF SelectIds
<1>5. CASE Calculate(w)
  <2>1. CASE place[w] = Len(batch[w])
    <3>1. Elsewhere(w) /\ pc'[w] = "idle"
      BY <1>5, <2>1, JobsElsewhere DEF Calculate, End
    <3>. QED
      BY <1>5, <3>1, QuietAdds DEF Calculate
  <2>2. CASE place[w] # Len(batch[w])
    <3>1. /\ pc' = [pc EXCEPT ![w] = "lookup"] /\ UNCHANGED <<kind, batch>>
          /\ place' = [place EXCEPT ![w] = @ + 1]
          /\ ids' = [ids EXCEPT ![w] = {}]
      BY <1>5, <2>2 DEF Calculate, Go
    <3>2. Elsewhere(w) /\ pc'[w] = "lookup"
      BY <3>1 DEF Elsewhere, TypeInv, JobsOK
    <3>. QED
      BY <1>5, <3>2, QuietAdds DEF Calculate
  <2>. QED
    BY <2>1, <2>2
<1>. QED
  BY <1>1, <1>2, <1>3, <1>4, <1>5, VehicleAdds, FixAdds DEF Step

\* The rows of a worker that did not move are what they were, and a vehicle
\* it has read cannot have come back.
LEMMA OthersRows ==
    ASSUME TypeInv, Owners, IdsGivenOnce, NEW v \in Workers,
           kind'[v] = kind[v], batch'[v] = batch[v], place'[v] = place[v],
           ids'[v] = ids[v]
    PROVE  /\ Current(v)' = Current(v) /\ Rows(v)' = Rows(v)
           /\ \A q \in ids[v] : q.id \in VehicleIds' => q.id \in VehicleIds
           /\ \A row \in Rows(v) :
                 row.id \in VehicleIds' => row.id \in VehicleIds
<1>1. Current(v)' = Current(v) /\ Rows(v)' = Rows(v)
  BY DEF Current, Here, Rows
<1>2. \A q \in ids[v] : q.id \in VehicleIds' => q.id \in VehicleIds
  <2>. TAKE q \in ids[v]
  <2>. HAVE q.id \in VehicleIds'
  <2>1. PICK r \in vehicle' : r.id = q.id
    BY DEF VehicleIds
  <2>2. PICK a \in vehicle : Same(r, a)
    BY <2>1 DEF IdsGivenOnce, Owners
  <2>. QED
    BY <2>1, <2>2 DEF Same, VehicleIds
<1>3. \A row \in Rows(v) : \E q \in ids[v] : row.id = q.id
  BY DEF Rows
<1>. QED
  BY <1>1, <1>2, <1>3

\* What was stored stays; what is added comes in the order raw fix, position.
LEMMA AddsKeepStored ==
    ASSUME TypeInv, Owners, IdsGivenOnce, Stored,
           NEW w \in Workers, Adds(w)
    PROVE  Stored'
<1>1. DetailMatchesType'
  BY DEF Stored, Adds, DetailMatchesType, Same
<1>2. FixBelongsToSender'
  BY DEF Stored, Adds, FixBelongsToSender, Same
<1>3. PositionHasRawFix'
  <2>1. CASE position' = position
    BY <2>1 DEF Stored, Adds, PositionHasRawFix
  <2>2. CASE InsertPosition(w)
    BY <2>2 DEF Stored, Adds, InsertPosition, Insertable, RawStored,
                PositionHasRawFix
  <2>. QED
    BY <2>1, <2>2 DEF Adds
<1>4. RawStored'
  <2>. SUFFICES ASSUME NEW v \in Workers, pc'[v] = "position",
                       NEW row \in Rows(v)', row.id \in VehicleIds'
                PROVE  row \in gps'
    BY DEF RawStored
  <2>1. CASE v = w
    <3>1. InsertGps(w)
      BY <2>1 DEF Adds
    <3>2. Rows(w)' = Rows(w) /\ gps' = gps \cup Rows(w)
      BY <3>1 DEF InsertGps, RawRows, Rows, Current, Here, sent
    <3>. QED
      BY <2>1, <3>2
  <2>2. CASE v # w
    <3>1. Rows(v)' = Rows(v) /\ row.id \in VehicleIds /\ pc[v] = "position"
      BY <2>2, OthersRows DEF Adds, Elsewhere
    <3>. QED
      BY <3>1 DEF Stored, RawStored, Adds
  <2>. QED
    BY <2>1, <2>2
<1>5. OkMeansStored'
  <2>. SUFFICES ASSUME NEW v \in Workers, pc'[v] = "calculate",
                       NEW p \in Current(v)'
                PROVE  \E r \in ids'[v] :
                          /\ r.number = p.number
                          /\ r.id \in VehicleIds' =>
                                \E row \in gps' \cap position' :
                                   row.id = r.id /\ row.fix = p.fix
    BY DEF OkMeansStored
  <2>1. CASE v = w
    <3>1. InsertPosition(w)
      BY <2>1 DEF Adds
    <3>2. /\ Current(w)' = Current(w) /\ ids'[w] = ids[w]
          /\ gps' = gps /\ position' = position \cup Rows(w)
          /\ Insertable(w) /\ pc[w] = "position"
      BY <3>1 DEF InsertPosition, Current, Here, sent
    <3>3. PICK r \in ids[w] : r.number = p.number
      BY <2>1, <3>2 DEF Insertable
    <3>4. PICK row \in Rows(w) : row.id = r.id /\ row.fix = p.fix
      <4>1. <<p, r>> \in {x \in Current(w) \X ids[w] :
                             x[1].number = x[2].number}
        BY <2>1, <3>2, <3>3
      <4>2. [id |-> r.id, number |-> p.number, fix |-> p.fix,
             segment |-> p.segment, at |-> p.at] \in Rows(w)
        BY <4>1 DEF Rows
      <4>. QED
        BY <4>2
    <3>5. row \in gps
      BY <3>2, <3>4 DEF Insertable, Stored, RawStored
    <3>. QED
      BY <2>1, <3>2, <3>3, <3>4, <3>5
  <2>2. CASE v # w
    <3>1. /\ Current(v)' = Current(v) /\ ids'[v] = ids[v]
          /\ pc[v] = "calculate"
          /\ \A q \in ids[v] : q.id \in VehicleIds' => q.id \in VehicleIds
      BY <2>2, OthersRows DEF Adds, Elsewhere
    <3>2. PICK r \in ids[v] :
             /\ r.number = p.number
             /\ r.id \in VehicleIds =>
                   \E row \in gps \cap position :
                      row.id = r.id /\ row.fix = p.fix
      BY <3>1 DEF Stored, OkMeansStored
    <3>. QED
      BY <3>1, <3>2 DEF Adds
  <2>. QED
    BY <2>1, <2>2
<1>. QED
  BY <1>1, <1>2, <1>3, <1>4, <1>5 DEF Stored

\* The cascades take the rows of a vehicle from all tables at once.
LEMMA ResetKeepsStored ==
    ASSUME TypeInv, Owners, IdsGivenOnce, Stored, Reset
    PROVE  Stored'
<1>. DEFINE gone == {r.id : r \in {q \in vehicle : q.number \in Scenario}}
<1>1. /\ vehicle' = {r \in vehicle : r.id \notin gone}
      /\ detail' = {d \in detail : d.id \notin gone}
      /\ gps' = {row \in gps : row.id \notin gone}
      /\ position' = {row \in position : row.id \notin gone}
      /\ UNCHANGED job
  BY DEF Reset
<1>. HIDE DEF gone
<1>2. \A v \in Workers :
          /\ Current(v)' = Current(v) /\ Rows(v)' = Rows(v)
          /\ pc'[v] = pc[v] /\ ids'[v] = ids[v]
  BY <1>1, OthersRows DEF job, sent
<1>3. \A i \in VehicleIds' : i \in VehicleIds /\ i \notin gone
  BY <1>1 DEF VehicleIds
<1>4. DetailMatchesType' /\ FixBelongsToSender' /\ PositionHasRawFix'
  BY <1>1 DEF Stored, DetailMatchesType, FixBelongsToSender,
              PositionHasRawFix
<1>5. RawStored'
  BY <1>1, <1>2, <1>3 DEF Stored, RawStored
<1>6. OkMeansStored'
  <2>. SUFFICES ASSUME NEW v \in Workers, pc[v] = "calculate",
                       NEW p \in Current(v)
                PROVE  \E r \in ids[v] :
                          /\ r.number = p.number
                          /\ r.id \in VehicleIds' =>
                                \E row \in gps' \cap position' :
                                   row.id = r.id /\ row.fix = p.fix
    BY <1>2 DEF OkMeansStored
  <2>1. PICK r \in ids[v] :
           /\ r.number = p.number
           /\ r.id \in VehicleIds =>
                 \E row \in gps \cap position :
                    row.id = r.id /\ row.fix = p.fix
    BY DEF Stored, OkMeansStored
  <2>. QED
    BY <1>1, <1>3, <2>1
<1>. QED
  BY <1>4, <1>5, <1>6 DEF Stored

\* Every step keeps the four properties and their strengthening.
LEMMA StoredKept ==
    ASSUME TypeInv, Owners, Stored, [Next]_vars
    PROVE  Stored'
<1>1. IdsGivenOnce
  BY NextGood DEF Good
<1>2. CASE \E w \in Workers : Request(w) \/ Step(w) \/ Fail(w)
  BY <1>1, <1>2, StepAdds, AddsKeepStored
<1>3. CASE Reset
  BY <1>1, <1>3, ResetKeepsStored
<1>4. CASE Tick \/ UNCHANGED vars
  <2>1. UNCHANGED <<tables, job>>
    BY <1>4 DEF Tick, vars
  <2>. QED
    BY <2>1 DEF Stored, DetailMatchesType, FixBelongsToSender, RawStored,
                PositionHasRawFix, OkMeansStored, VehicleIds, Rows, Current,
                Here, tables, job, sent
<1>. QED
  BY <1>2, <1>3, <1>4 DEF Next, Rest

\* They hold in every reachable state.
LEMMA StoredAlways == Spec => []Stored
<1>1. Init => Stored
  BY DEF Init, Stored, DetailMatchesType, FixBelongsToSender, RawStored,
         PositionHasRawFix, OkMeansStored
<1>2. TypeInv /\ Owners /\ Stored /\ [Next]_vars => Stored'
  BY StoredKept
<1>. QED
  BY <1>1, <1>2, OwnersAlways, PTL DEF Spec

\* Whatever types requests give one number, its subtype row is in the table
\* of its vehicle's type (DetailMatchesType), for any requests and resets.
THEOREM SubtypesMatch == Spec => []DetailMatchesType
BY StoredAlways, PTL DEF Stored

\* A matched position has its raw fix (PositionHasRawFix), wherever a request
\* fails and whatever a reset deletes in between.
THEOREM PositionsHaveRawFixes == Spec => []PositionHasRawFix
BY StoredAlways, PTL DEF Stored

\* A stored fix belongs to the vehicle that sent it (FixBelongsToSender).
THEOREM FixesKeepTheirSender == Spec => []FixBelongsToSender
BY StoredAlways, PTL DEF Stored

\* Nothing is answered that is not stored (OkMeansStored).
THEOREM AnsweredFixesAreStored == Spec => []OkMeansStored
BY StoredAlways, PTL DEF Stored
-----------------------------------------------------------------------------
(***************************************************************************)
(* The row locks of the same requests (RowLocks): a specification of its   *)
(* own, whose variables have nothing to do with those above.               *)
(*                                                                         *)
(* Who only registers, refreshes or takes fixes one by one holds, while it *)
(* waits, the shared lock of the one vehicle it waits for, or segments     *)
(* before the one it waits for.  So it can only be in a circle with a      *)
(* batch or a reset on both sides of it, and a request alone cannot be on  *)
(* both sides: it would wait for a row that it holds.                      *)
(***************************************************************************)
\* What a lock can be.
AnyLock ==
    [row : ({"number", "vehicle"} \X Vehicles) \cup ({"condition"} \X Nat),
     mode : {"share", "touch", "write"}]

\* Does lock x belong to a DELETE of vehicles, or to a traffic_condition?
Deletes(x) == x.row[1] = "vehicle" /\ x.mode = "write"

Upserts(x) == x.row[1] = "condition"

\* The lock sequences of the statements: one lock, a foreign key and the
\* trigger on one vehicle, a refresh, the statements of a batch and the
\* DELETE of a reset.
OneLock(s) == Len(s) = 1 /\ ~Deletes(s[1])

OneFix(s) ==
    /\ Len(s) = 2 /\ s[1].row = s[2].row /\ s[1].row[1] = "vehicle"
    /\ s[1].mode = "share" /\ s[2].mode = "touch"

Refreshes(s) ==
    s = [i \in 1..Len(SegmentOrder) |-> Upsert(SegmentOrder[i])]

Mixes(s) == \A i \in 1..Len(s) : ~Deletes(s[i]) /\ ~Upserts(s[i])

Sweeps(s) ==
    /\ \A i \in 1..Len(s) : Deletes(s[i])
    /\ \A i, j \in 1..Len(s) : s[i] = s[j] => i = j

\* What a statement of a request of kind k may take.
Statements(k) ==
    {s \in Seq(AnyLock) :
        \/ Len(s) = 0 \/ OneLock(s) \/ OneFix(s) \/ Refreshes(s)
        \/ k = "batch" /\ Mixes(s)
        \/ k = "reset" /\ Sweeps(s)}

\* What such a statement may be: it can always go one way at least.
Turns(k) == (SUBSET Statements(k)) \ {{}}

Requests == {"idle", "batch", "trip", "register", "reset", "refresh"}

\* Who holds h and has yet to take q has taken n locks of statement s.
Taken(h, q, s, n) ==
    /\ n < Len(s) /\ Len(q) = Len(s) - n
    /\ \A i \in 1..Len(q) : q[i] = s[n + i]
    /\ h = {s[i] : i \in 1..n}

\* How far a request of kind k has come with its statement.
Underway(k, h, q) ==
    q # <<>> => \E s \in Statements(k), n \in Nat : Taken(h, q, s, n)

\* Every worker is somewhere in a statement of its request, and the rest of
\* its statements are of its kind.  Who has no request holds nothing.
LocksInv ==
    /\ request \in [Sessions -> Requests]
    /\ rest \in [Sessions -> Seq(SUBSET Seq(AnyLock))]
    /\ todo \in [Sessions -> Seq(AnyLock)]
    /\ holds \in [Sessions -> SUBSET AnyLock]
    /\ \A w \in Sessions :
          /\ rest[w] \in Seq(Turns(request[w]))
          /\ Underway(request[w], holds[w], todo[w])
          /\ request[w] = "idle" =>
                rest[w] = <<>> /\ todo[w] = <<>> /\ holds[w] = {}

\* Locks are locks.
LEMMA TypesOfLocks ==
    /\ \A v \in Vehicles : /\ New(v) \in AnyLock
                          /\ Share(v) \in AnyLock
                          /\ Touch(v) \in AnyLock
                          /\ Delete(v) \in AnyLock
    /\ \A s \in Nat : Upsert(s) \in AnyLock
BY DEF New, Share, Touch, Delete, Upsert,
       Lock, AnyLock

\* What a statement over a set of rows takes.
LEMMA SweepLocks ==
    ASSUME NEW S \in SUBSET AnyLock, IsFiniteSet(S), NEW s \in Sweep(S)
    PROVE  /\ s \in Seq(AnyLock) /\ \A i \in 1..Len(s) : s[i] \in S
           /\ \A i, j \in 1..Len(s) : s[i] = s[j] => i = j
<1>. DEFINE n == Cardinality(S)
<1>1. n \in Nat
  BY FS_CardinalityType
<1>2. s \in [1..n -> S] /\ \A i, j \in 1..n : i # j => s[i] # s[j]
  BY DEF Sweep, SetToSeqs
<1>. HIDE DEF n
<1>3. s \in Seq(S) /\ Len(s) = n
  BY <1>1, <1>2
<1>. QED
  BY <1>2, <1>3

\* It can always take them.
LEMMA SweepGoes ==
    ASSUME NEW S, IsFiniteSet(S)
    PROVE  Sweep(S) # {}
<1>. DEFINE n == Cardinality(S)
<1>1. n \in Nat /\ ExistsBijection(1..n, S)
  BY FS_CardinalityType, FS_NatBijection
<1>2. PICK f : f \in Bijection(1..n, S)
  BY <1>1 DEF ExistsBijection
<1>3. f \in [1..n -> S] /\ \A i, j \in 1..n : i # j => f[i] # f[j]
  BY <1>2 DEF Bijection, Injection, IsInjective
<1>. QED
  BY <1>3 DEF Sweep, SetToSeqs

\* What RowLocks assumes, with the injection spelt out.
LEMMA LocksFit ==
    /\ IsFiniteSet(Vehicles) /\ Resettable \subseteq Vehicles
    /\ SegmentOrder \in Seq(Nat)
    /\ \A i, j \in 1..Len(SegmentOrder) :
          SegmentOrder[i] = SegmentOrder[j] => i = j
    /\ \A q \in Orders \cup Trips : q \in Seq(Vehicles) /\ q # <<>>
    /\ Sessions \subseteq Nat /\ IsFiniteSet(Sessions)
BY LocksAssumption DEF IsInjective

\* The statements of a refresh.
LEMMA RefreshLocks ==
    ASSUME NEW k
    PROVE  /\ Refresh \in Turns(k)
           /\ \A s \in Refresh : s \in Seq(AnyLock)
<1>. DEFINE n == Len(SegmentOrder)
            s == [i \in 1..n |-> Upsert(SegmentOrder[i])]
<1>1. Refresh = {s} /\ n \in Nat
  BY LocksFit DEF Refresh
<1>2. s \in Seq(AnyLock)
  <2>1. \A i \in 1..n : Upsert(SegmentOrder[i]) \in AnyLock
    BY TypesOfLocks, LocksFit
  <2>. QED
    BY <1>1, <2>1
<1>3. Refreshes(s)
  BY DEF Refreshes
<1>. HIDE DEF s
<1>. QED
  BY <1>1, <1>2, <1>3 DEF Statements, Turns

\* One lock that deletes nothing.
LEMMA OneLockStatement ==
    ASSUME NEW k, NEW x \in AnyLock, ~Deletes(x)
    PROVE  <<x>> \in Statements(k) /\ <<>> \in Statements(k)
BY DEF Statements, OneLock

\* Which locks are of which kind.
LEMMA KindsOfLocks ==
    /\ \A v : /\ ~Deletes(New(v)) /\ ~Upserts(New(v))
              /\ ~Deletes(Share(v)) /\ ~Upserts(Share(v))
              /\ ~Deletes(Touch(v)) /\ ~Upserts(Touch(v))
              /\ Deletes(Delete(v))
    /\ \A s : ~Deletes(Upsert(s)) /\ Upserts(Upsert(s))
BY DEF New, Share, Touch, Delete, Upsert,
       Lock, Deletes, Upserts

\* What the statements for one point take, whatever its vehicle.
LEMMA PointStatements ==
    ASSUME NEW k, NEW v \in Vehicles, NEW i \in 1..5
    PROVE  OnePoint(v)[i] \in Turns(k)
<1>. DEFINE S == Statements(k)
            a == <<New(v)>>
            b == <<Share(v)>>
            c == <<Share(v), Touch(v)>>
            U == {<<Upsert(s)>> : s \in ToSet(SegmentOrder)}
<1>1. a \in S /\ b \in S /\ <<>> \in S
  BY OneLockStatement, TypesOfLocks, KindsOfLocks
<1>2. c \in S
  <2>1. c \in Seq(AnyLock) /\ Len(c) = 2
    BY TypesOfLocks
  <2>2. OneFix(c)
    BY DEF OneFix, Share, Touch, Lock
  <2>. HIDE DEF c
  <2>. QED
    BY <2>1, <2>2 DEF Statements
<1>3. U \subseteq S
  <2>1. \A s \in ToSet(SegmentOrder) : s \in Nat
    BY LocksFit DEF ToSet
  <2>. QED
    BY <2>1, OneLockStatement, TypesOfLocks, KindsOfLocks
<1>4. OnePoint(v) =
         << {<<>>, a}, {<<>>, b}, {b}, {c}, {<<>>} \cup U >>
  BY DEF OnePoint
<1>. HIDE DEF S, a, b, c, U
<1>5. /\ OnePoint(v)[1] = {<<>>, a} /\ OnePoint(v)[2] = {<<>>, b}
      /\ OnePoint(v)[3] = {b} /\ OnePoint(v)[4] = {c}
      /\ OnePoint(v)[5] = {<<>>} \cup U
  BY <1>4
<1>6. i \in {1, 2, 3, 4, 5}
  OBVIOUS
<1>. QED
  BY <1>1, <1>2, <1>3, <1>5, <1>6 DEF S, Turns

\* The statements of fixes that are taken one by one.
LEMMA TripStatements ==
    ASSUME NEW k, NEW q \in Trips
    PROVE  Trip(q) \in Seq(Turns(k))
<1>. DEFINE n == 5 * Len(q)
            at(i) == 1 + (i - 1) \div 5
            step(i) == 1 + ((i - 1) % 5)
<1>1. q \in Seq(Vehicles) /\ Len(q) \in Nat /\ n \in Nat
  BY LocksFit
<1>2. ASSUME NEW i \in 1..n
      PROVE  OnePoint(q[at(i)])[step(i)] \in Turns(k)
  <2>1. at(i) \in 1..Len(q) /\ step(i) \in 1..5
    BY <1>1
  <2>. HIDE DEF at, step
  <2>2. q[at(i)] \in Vehicles
    BY <1>1, <2>1
  <2>. QED
    BY <2>1, <2>2, PointStatements
<1>3. Trip(q) = [i \in 1..n |-> OnePoint(q[at(i)])[step(i)]]
  BY DEF Trip
<1>. HIDE DEF n, at, step
<1>. QED
  BY <1>1, <1>2, <1>3

\* A set of locks, one for each vehicle of a finite set.
LEMMA LocksOfVehicles ==
    ASSUME NEW V \in SUBSET Vehicles, NEW f \in [V -> AnyLock]
    PROVE  /\ {f[v] : v \in V} \in SUBSET AnyLock
           /\ IsFiniteSet({f[v] : v \in V})
<1>1. IsFiniteSet(V)
  BY FS_Subset, LocksFit
<1>. DEFINE L == {f[v] : v \in V}
<1>2. L \in SUBSET AnyLock /\ f \in Surjection(V, L)
  BY DEF Surjection
<1>. QED
  BY <1>1, <1>2, FS_Surjection

\* A statement of a batch that meets the rows of vehicles V in any order.
LEMMA MixedSweep ==
    ASSUME NEW V \in SUBSET Vehicles, NEW f \in [V -> AnyLock],
           \A v \in V : ~Deletes(f[v]) /\ ~Upserts(f[v])
    PROVE  Sweep({f[v] : v \in V}) \in Turns("batch")
<1>. DEFINE L == {f[v] : v \in V}
<1>1. L \in SUBSET AnyLock /\ IsFiniteSet(L)
  BY LocksOfVehicles
<1>2. \A x \in L : ~Deletes(x) /\ ~Upserts(x)
  OBVIOUS
<1>. HIDE DEF L
<1>3. ASSUME NEW s \in Sweep(L)
      PROVE  s \in Statements("batch")
  <2>1. s \in Seq(AnyLock) /\ \A i \in 1..Len(s) : s[i] \in L
    BY <1>1, SweepLocks
  <2>. QED
    BY <1>2, <2>1 DEF Statements, Mixes
<1>4. Sweep(L) # {}
  BY <1>1, SweepGoes
<1>. QED
  BY <1>3, <1>4 DEF L, Turns

\* The three statements that a batch sends in the order of its points.
LEMMA MixedInOrder ==
    ASSUME NEW q \in Orders
    PROVE  /\ [i \in DOMAIN q |-> Share(q[i])] \in Statements("batch")
           /\ SharedAndTouched(q) \in Statements("batch")
<1>. DEFINE m == Len(q)
            n == 2 * m
            s == [i \in 1..m |-> Share(q[i])]
            r == [i \in 1..n |->
                    IF i % 2 = 1 THEN Share(q[(i + 1) \div 2])
                                 ELSE Touch(q[i \div 2])]
<1>1. /\ m \in Nat /\ n \in Nat /\ DOMAIN q = 1..m
      /\ \A i \in 1..m : q[i] \in Vehicles
  BY LocksFit
<1>2. \A i \in 1..n : IF i % 2 = 1 THEN (i + 1) \div 2 \in 1..m
                                   ELSE i \div 2 \in 1..m
  BY <1>1
<1>3. \A i \in 1..m : /\ s[i] \in AnyLock
                      /\ ~Deletes(s[i]) /\ ~Upserts(s[i])
  BY <1>1, TypesOfLocks, KindsOfLocks
<1>4. ASSUME NEW i \in 1..n
      PROVE  r[i] \in AnyLock /\ ~Deletes(r[i]) /\ ~Upserts(r[i])
  <2>1. \E v \in Vehicles : r[i] \in {Share(v), Touch(v)}
    <3>1. CASE i % 2 = 1
      <4>. DEFINE j == (i + 1) \div 2
      <4>1. j \in 1..m /\ r[i] = Share(q[j])
        BY <1>2, <3>1
      <4>. HIDE DEF j, r
      <4>. QED
        BY <1>1, <4>1
    <3>2. CASE i % 2 # 1
      <4>. DEFINE j == i \div 2
      <4>1. j \in 1..m /\ r[i] = Touch(q[j])
        BY <1>2, <3>2
      <4>. HIDE DEF j, r
      <4>. QED
        BY <1>1, <4>1
    <3>. QED
      BY <3>1, <3>2
  <2>. HIDE DEF r
  <2>. QED
    BY <2>1, TypesOfLocks, KindsOfLocks
<1>5. /\ [i \in DOMAIN q |-> Share(q[i])] = s
      /\ SharedAndTouched(q) = r
  BY <1>1 DEF SharedAndTouched
<1>6. /\ DOMAIN s = 1..m /\ s = [i \in 1..m |-> s[i]]
      /\ DOMAIN r = 1..n /\ r = [i \in 1..n |-> r[i]]
  OBVIOUS
<1>. HIDE DEF s, r, n, m
<1>7. /\ s \in Seq(AnyLock) /\ Len(s) = m
      /\ r \in Seq(AnyLock) /\ Len(r) = n
  <2>1. s \in [1..m -> AnyLock] /\ r \in [1..n -> AnyLock]
    BY <1>3, <1>4, <1>6
  <2>2. s \in Seq(AnyLock) /\ Len(s) = m
    BY <1>1, <2>1
  <2>3. r \in Seq(AnyLock) /\ Len(r) = n
    BY <1>1, <2>1
  <2>. QED
    BY <2>2, <2>3
<1>8. s \in Statements("batch") /\ r \in Statements("batch")
  BY <1>3, <1>4, <1>7 DEF Statements, Mixes
<1>. QED
  BY <1>5, <1>8

\* The six statements of a batch.
LEMMA BulkStatements ==
    ASSUME NEW q \in Orders
    PROVE  Bulk(q) \in Seq(Turns("batch"))
<1>. DEFINE V == ToSet(q)
            S == Turns("batch")
            a == UNION {Sweep({New(v) : v \in W}) :
                            W \in SUBSET V}
            b == Sweep({Share(v) : v \in V})
            c == {[i \in DOMAIN q |-> Share(q[i])]}
            d == {SharedAndTouched(q)}
            e == Refresh
            f == Sweep({Touch(v) : v \in V})
<1>1. V \in SUBSET Vehicles
  BY LocksFit DEF ToSet
<1>2. a \in S
  <2>1. ASSUME NEW W \in SUBSET V
        PROVE  Sweep({New(v) : v \in W}) \in S
    <3>. DEFINE g == [v \in W |-> New(v)]
    <3>1. /\ W \in SUBSET Vehicles /\ g \in [W -> AnyLock]
          /\ \A v \in W : ~Deletes(g[v]) /\ ~Upserts(g[v])
      BY <1>1, TypesOfLocks, KindsOfLocks
    <3>2. {New(v) : v \in W} = {g[v] : v \in W}
      OBVIOUS
    <3>. HIDE DEF g
    <3>. QED
      BY <3>1, <3>2, MixedSweep
  <2>. DEFINE go(W) == Sweep({New(v) : v \in W})
  <2>2. a = UNION {go(W) : W \in SUBSET V}
    OBVIOUS
  <2>3. \A W \in SUBSET V : go(W) \in SUBSET Statements("batch")
                            /\ go(W) # {}
    BY <2>1 DEF Turns
  <2>. HIDE DEF go
  <2>4. go(V) # {} /\ go(V) \subseteq UNION {go(W) : W \in SUBSET V}
    BY <2>3
  <2>. QED
    BY <2>2, <2>3, <2>4 DEF Turns
<1>3. b \in S
  <2>. DEFINE g == [v \in V |-> Share(v)]
  <2>1. /\ g \in [V -> AnyLock]
        /\ \A v \in V : ~Deletes(g[v]) /\ ~Upserts(g[v])
    BY <1>1, TypesOfLocks, KindsOfLocks
  <2>2. {Share(v) : v \in V} = {g[v] : v \in V}
    OBVIOUS
  <2>. HIDE DEF g
  <2>. QED
    BY <1>1, <2>1, <2>2, MixedSweep
<1>4. f \in S
  <2>. DEFINE g == [v \in V |-> Touch(v)]
  <2>1. /\ g \in [V -> AnyLock]
        /\ \A v \in V : ~Deletes(g[v]) /\ ~Upserts(g[v])
    BY <1>1, TypesOfLocks, KindsOfLocks
  <2>2. {Touch(v) : v \in V} = {g[v] : v \in V}
    OBVIOUS
  <2>. HIDE DEF g
  <2>. QED
    BY <1>1, <2>1, <2>2, MixedSweep
<1>5. c \in S /\ d \in S /\ e \in S
  BY MixedInOrder, RefreshLocks DEF Turns
<1>6. Bulk(q) = <<a, b, c, d, e, f>>
  BY DEF Bulk
<1>. HIDE DEF S, a, b, c, d, e, f
<1>7. <<a, b, c, d, e, f>> \in Seq(S)
  BY <1>2, <1>3, <1>4, <1>5
<1>. QED
  BY <1>6, <1>7 DEF S

\* The two statements of a reset.
LEMMA ResetStatements ==
    ResetScenarios \in Seq(Turns("reset"))
<1>. DEFINE S == Turns("reset")
            g == [v \in Resettable |-> Delete(v)]
            L == {g[v] : v \in Resettable}
            a == Sweep(L)
            b == Refresh
<1>1. g \in [Resettable -> AnyLock] /\ \A x \in L : Deletes(x)
  BY TypesOfLocks, KindsOfLocks, LocksFit
<1>2. {Delete(v) : v \in Resettable} = L
  OBVIOUS
<1>. HIDE DEF g
<1>3. L \in SUBSET AnyLock /\ IsFiniteSet(L)
  BY <1>1, LocksOfVehicles, LocksFit
<1>4. ResetScenarios = <<a, b>>
  BY <1>2 DEF ResetScenarios
<1>. HIDE DEF L
<1>5. a \in S
  <2>1. ASSUME NEW s \in a
        PROVE  s \in Statements("reset")
    BY <1>1, <1>3, SweepLocks DEF Statements, Sweeps
  <2>2. a # {}
    BY <1>3, SweepGoes
  <2>. QED
    BY <2>1, <2>2 DEF Turns
<1>6. b \in S
  BY RefreshLocks
<1>. HIDE DEF a, b, S
<1>7. <<a, b>> \in Seq(S)
  BY <1>5, <1>6
<1>. QED
  BY <1>4, <1>7 DEF S

\* The statements of a request are those of its kind.
LEMMA PlanStatements ==
    ASSUME NEW plan \in Plans
    PROVE  /\ plan[1] \in Requests \ {"idle"}
           /\ plan[2] \in Seq(Turns(plan[1]))
<1>1. ASSUME NEW q \in Orders, plan = <<"batch", Bulk(q)>>
      PROVE  plan[1] = "batch" /\ plan[2] \in Seq(Turns("batch"))
  BY <1>1, BulkStatements
<1>2. ASSUME NEW q \in Trips, plan = <<"trip", Trip(q)>>
      PROVE  plan[1] = "trip" /\ plan[2] \in Seq(Turns("trip"))
  BY <1>2, TripStatements
<1>3. ASSUME NEW v \in Vehicles, plan = <<"register", Register(v)>>
      PROVE  /\ plan[1] = "register"
             /\ plan[2] \in Seq(Turns("register"))
  <2>. DEFINE S == Turns("register")
              a == {<<New(v)>>}
              b == {<<Share(v)>>}
  <2>1. a \in S /\ b \in S
    BY OneLockStatement, TypesOfLocks, KindsOfLocks DEF Turns
  <2>2. Register(v) = <<a, b>>
    BY DEF Register
  <2>. HIDE DEF S, a, b
  <2>3. <<a, b>> \in Seq(S)
    BY <2>1
  <2>. QED
    BY <1>3, <2>2, <2>3 DEF S
<1>4. ASSUME plan = <<"reset", ResetScenarios>>
      PROVE  plan[1] = "reset" /\ plan[2] \in Seq(Turns("reset"))
  BY <1>4, ResetStatements
<1>5. ASSUME plan = <<"refresh", <<Refresh>>>>
      PROVE  /\ plan[1] = "refresh"
             /\ plan[2] \in Seq(Turns("refresh"))
  <2>. DEFINE S == Turns("refresh")
              a == Refresh
  <2>1. a \in S
    BY RefreshLocks
  <2>. HIDE DEF S, a
  <2>2. <<a>> \in Seq(S)
    BY <2>1
  <2>. QED
    BY <1>5, <2>2 DEF S, a
<1>. QED
  BY <1>1, <1>2, <1>3, <1>4, <1>5 DEF Plans, Requests

\* Each worker takes the locks of one statement after the other, whatever
\* the others do.
LEMMA LocksKept ==
    ASSUME LocksInv, [LocksNext]_lockVars
    PROVE  LocksInv'
<1>0. /\ request \in [Sessions -> Requests]
      /\ rest \in [Sessions -> Seq(SUBSET Seq(AnyLock))]
      /\ todo \in [Sessions -> Seq(AnyLock)]
      /\ holds \in [Sessions -> SUBSET AnyLock]
      /\ \A w \in Sessions :
            /\ rest[w] \in Seq(Turns(request[w]))
            /\ Underway(request[w], holds[w], todo[w])
            /\ request[w] = "idle" =>
                  rest[w] = <<>> /\ todo[w] = <<>> /\ holds[w] = {}
  BY DEF LocksInv
<1>1. CASE UNCHANGED lockVars
  <2>1. UNCHANGED <<request, rest, todo, holds>>
    BY <1>1 DEF lockVars
  <2>. QED
    BY <2>1 DEF LocksInv
<1>2. ASSUME NEW w \in Sessions, NEW k \in Requests,
             NEW r \in Seq(Turns(k)),
             NEW q \in Seq(AnyLock), NEW h \in SUBSET AnyLock,
             request' = [request EXCEPT ![w] = k],
             rest' = [rest EXCEPT ![w] = r],
             todo' = [todo EXCEPT ![w] = q],
             holds' = [holds EXCEPT ![w] = h],
             Underway(k, h, q),
             k = "idle" => r = <<>> /\ q = <<>> /\ h = {}
      PROVE  LocksInv'
  <2>1. r \in Seq(SUBSET Seq(AnyLock))
    BY DEF Statements, Turns
  <2>2. /\ request' \in [Sessions -> Requests]
        /\ rest' \in [Sessions -> Seq(SUBSET Seq(AnyLock))]
        /\ todo' \in [Sessions -> Seq(AnyLock)]
        /\ holds' \in [Sessions -> SUBSET AnyLock]
    BY <1>0, <1>2, <2>1
  <2>3. /\ request'[w] = k /\ rest'[w] = r /\ todo'[w] = q /\ holds'[w] = h
        /\ \A u \in Sessions : u # w =>
              /\ request'[u] = request[u] /\ rest'[u] = rest[u]
              /\ todo'[u] = todo[u] /\ holds'[u] = holds[u]
    BY <1>0, <1>2
  <2>. QED
    BY <1>0, <1>2, <2>2, <2>3 DEF LocksInv
<1>3. ASSUME NEW w \in Sessions, Arrive(w)
      PROVE  LocksInv'
  <2>1. PICK plan \in Plans :
           /\ request' = [request EXCEPT ![w] = plan[1]]
           /\ rest' = [rest EXCEPT ![w] = plan[2]]
    BY <1>3 DEF Arrive
  <2>2. request[w] = "idle" /\ UNCHANGED <<todo, holds>>
    BY <1>3 DEF Arrive
  <2>. DEFINE k == plan[1]
              r == plan[2]
              q == todo[w]
              h == holds[w]
  <2>3. k \in Requests /\ k # "idle" /\ r \in Seq(Turns(k))
    BY PlanStatements
  <2>4. q \in Seq(AnyLock) /\ h \in SUBSET AnyLock
    BY <1>0
  <2>5. todo' = [todo EXCEPT ![w] = q] /\ holds' = [holds EXCEPT ![w] = h]
    BY <1>0, <2>2
  <2>6. Statements("idle") \subseteq Statements(k)
    BY DEF Statements
  <2>7. Underway("idle", h, q)
    BY <1>0, <2>2
  <2>8. request' = [request EXCEPT ![w] = k] /\ rest' = [rest EXCEPT ![w] = r]
    BY <2>1
  <2>. HIDE DEF k, r, q, h
  <2>9. Underway(k, h, q)
    BY <2>6, <2>7 DEF Underway
  <2>. QED
    BY <1>2, <2>3, <2>4, <2>5, <2>8, <2>9
<1>4. ASSUME NEW w \in Sessions, Execute(w)
      PROVE  LocksInv'
  <2>. DEFINE k == request[w]
              a == rest[w]
              r == Tail(a)
              S == Statements(k)
  <2>1. PICK q \in Head(a) : todo' = [todo EXCEPT ![w] = q]
    BY <1>4 DEF Execute
  <2>2. /\ a # <<>> /\ rest' = [rest EXCEPT ![w] = r]
        /\ holds' = [holds EXCEPT ![w] = {}]
        /\ request' = [request EXCEPT ![w] = k]
    BY <1>0, <1>4 DEF Execute
  <2>3. k \in Requests /\ a \in Seq(Turns(k))
    BY <1>0
  <2>4. S \subseteq Seq(AnyLock)
    BY DEF Statements
  <2>. DEFINE C == Turns(k)
  <2>. HIDE DEF a, S, C
  <2>5. r \in Seq(C) /\ Head(a) \in C
    BY <2>2, <2>3 DEF C
  <2>. HIDE DEF r
  <2>6. q \in S /\ q \in Seq(AnyLock)
    BY <2>1, <2>4, <2>5 DEF C, Turns, S
  <2>7. Underway(k, {}, q)
    <3>1. ASSUME q # <<>> PROVE Taken({}, q, q, 0)
      BY <2>6, <3>1 DEF Taken
    <3>. QED
      BY <2>6, <3>1 DEF Underway, S
  <2>8. k # "idle"
    BY <1>0, <2>2 DEF a
  <2>. HIDE DEF k
  <2>. QED
    BY <1>2, <2>1, <2>2, <2>3, <2>5, <2>6, <2>7, <2>8 DEF C
<1>5. ASSUME NEW w \in Sessions, Take(w)
      PROVE  LocksInv'
  <2>. DEFINE k == request[w]
              r == rest[w]
              p == todo[w]
              q == Tail(p)
              h == holds[w] \cup {Head(p)}
  <2>1. /\ p # <<>> /\ todo' = [todo EXCEPT ![w] = q]
        /\ holds' = [holds EXCEPT ![w] = h]
        /\ request' = [request EXCEPT ![w] = k]
        /\ rest' = [rest EXCEPT ![w] = r]
    BY <1>0, <1>5 DEF Take
  <2>2. /\ k \in Requests /\ r \in Seq(Turns(k))
        /\ k = "idle" => p = <<>>
        /\ p \in Seq(AnyLock) /\ holds[w] \in SUBSET AnyLock
        /\ Underway(k, holds[w], p)
    BY <1>0
  <2>. HIDE DEF k, r, p
  <2>3. PICK s \in Statements(k), n \in Nat : Taken(holds[w], p, s, n)
    BY <2>1, <2>2 DEF Underway
  <2>4. s \in Seq(AnyLock) /\ Len(s) \in Nat
    BY DEF Statements
  <2>5. /\ q \in Seq(AnyLock) /\ Len(q) = Len(p) - 1 /\ Len(p) > 0
        /\ \A i \in 1..Len(q) : q[i] = p[i + 1]
        /\ Head(p) = p[1] /\ Head(p) \in AnyLock
    BY <2>1, <2>2, HeadTailProperties
  <2>6. h \in SUBSET AnyLock
    BY <2>2, <2>5
  <2>7. Underway(k, h, q)
    <3>. HIDE DEF q
    <3>1. ASSUME q # <<>> PROVE Taken(h, q, s, n + 1)
      <4>1. n + 1 < Len(s) /\ Len(q) = Len(s) - (n + 1)
        BY <2>2, <2>3, <2>4, <2>5, <3>1 DEF Taken
      <4>2. ASSUME NEW i \in 1..Len(q) PROVE q[i] = s[(n + 1) + i]
        <5>1. i + 1 \in 1..Len(p) /\ n + (i + 1) = (n + 1) + i
          BY <2>2, <2>5
        <5>. QED
          BY <2>3, <2>5, <5>1 DEF Taken
      <4>3. Head(p) = s[n + 1]
        BY <2>2, <2>3, <2>5 DEF Taken
      <4>4. 1..(n + 1) = (1..n) \cup {n + 1}
        OBVIOUS
      <4>5. h = {s[i] : i \in 1..(n + 1)}
        BY <2>3, <4>3, <4>4 DEF Taken
      <4>. QED
        BY <4>1, <4>2, <4>5 DEF Taken
    <3>. QED
      BY <3>1 DEF Underway
  <2>. HIDE DEF q, h
  <2>. QED
    BY <1>2, <2>1, <2>2, <2>5, <2>6, <2>7
<1>6. ASSUME NEW w \in Sessions, Finish(w) \/ Abort(w)
      PROVE  LocksInv'
  <2>1. /\ request' = [request EXCEPT ![w] = "idle"]
        /\ rest' = [rest EXCEPT ![w] = <<>>]
        /\ todo' = [todo EXCEPT ![w] = <<>>]
        /\ holds' = [holds EXCEPT ![w] = {}]
    BY <1>0, <1>6 DEF Finish, Abort, HeldByVictim
  <2>. DEFINE k == "idle"
              r == <<>>
              h == {}
  <2>2. Underway(k, h, r)
    BY DEF Underway
  <2>3. /\ k \in Requests /\ r \in Seq(Turns(k))
        /\ r \in Seq(AnyLock) /\ h \in SUBSET AnyLock
    BY DEF Requests
  <2>5. r = <<>> /\ h = {}
    OBVIOUS
  <2>. HIDE DEF k, r, h
  <2>4. /\ request' = [request EXCEPT ![w] = k]
        /\ rest' = [rest EXCEPT ![w] = r]
        /\ todo' = [todo EXCEPT ![w] = r]
        /\ holds' = [holds EXCEPT ![w] = h]
    BY <2>1 DEF k, r, h
  <2>. QED
    BY <1>2, <2>2, <2>3, <2>4, <2>5
<1>. QED
  BY <1>1, <1>3, <1>4, <1>5, <1>6 DEF LocksNext

\* The row locks are as they should be at all times.
LEMMA LocksAlways == LocksSpec => []LocksInv
<1>1. LocksInit => LocksInv
  <2>. SUFFICES ASSUME LocksInit PROVE LocksInv
    OBVIOUS
  <2>1. /\ request = [w \in Sessions |-> "idle"]
        /\ rest = [w \in Sessions |-> <<>>]
        /\ todo = [w \in Sessions |-> <<>>]
        /\ holds = [w \in Sessions |-> {}]
    BY DEF LocksInit
  <2>. QED
    BY <2>1 DEF LocksInv, Requests, Underway
<1>2. LocksInv /\ [LocksNext]_lockVars => LocksInv'
  BY LocksKept
<1>. QED
  BY <1>1, <1>2, PTL DEF LocksSpec

\* Requests that write many vehicles in one statement.
Sweepers == {"batch", "reset"}

\* What a statement has taken, and the lock it takes next.
LEMMA NextOfStatement ==
    ASSUME NEW k, NEW s \in Statements(k), NEW n \in Nat, n < Len(s)
    PROVE  /\ s[n + 1] \in AnyLock
           /\ \A i \in 1..n : s[i] \in AnyLock
           /\ \A m \in 1..n : Upserts(s[m]) =>
                 \E i, j \in 1..Len(SegmentOrder) :
                    /\ i < j /\ s[m] = Upsert(SegmentOrder[i])
                    /\ s[n + 1] = Upsert(SegmentOrder[j])
           /\ k \notin Sweepers => ~Deletes(s[n + 1])
           /\ k \notin Sweepers /\ ~Upserts(s[n + 1]) =>
                 \A i \in 1..n : /\ s[i].row = s[n + 1].row
                                 /\ s[i].row[1] = "vehicle"
                                 /\ s[i].mode = "share"
           /\ Deletes(s[n + 1]) =>
                 \A i \in 1..n : Deletes(s[i]) /\ s[i] # s[n + 1]
<1>. DEFINE x == s[n + 1]
            N == Len(SegmentOrder)
<1>1. /\ s \in Seq(AnyLock) /\ Len(s) \in Nat /\ n + 1 \in 1..Len(s)
      /\ \A i \in 1..n : i \in 1..Len(s) /\ i # n + 1
  BY DEF Statements
<1>2. x \in AnyLock /\ \A i \in 1..n : s[i] \in AnyLock
  BY <1>1, ElementOfSeq
<1>3. CASE OneLock(s)
  BY <1>1, <1>2, <1>3 DEF OneLock
<1>4. CASE OneFix(s)
  <2>1. n = 0 \/ n = 1
    BY <1>1, <1>4 DEF OneFix
  <2>. QED
    BY <1>2, <1>4, <2>1 DEF OneFix, Deletes, Upserts
<1>5. CASE Refreshes(s)
  <2>1. N \in Nat /\ Len(s) = N
    BY <1>5, LocksFit DEF Refreshes
  <2>2. \A i \in 1..N : s[i] = Upsert(SegmentOrder[i])
    BY <1>5 DEF Refreshes
  <2>3. ASSUME NEW m \in 1..n
        PROVE  /\ m \in 1..N /\ n + 1 \in 1..N /\ m < n + 1
               /\ s[m] = Upsert(SegmentOrder[m])
               /\ x = Upsert(SegmentOrder[n + 1])
    <3>1. m \in 1..N /\ n + 1 \in 1..N /\ m < n + 1
      BY <1>1, <2>1
    <3>. QED
      BY <2>2, <3>1
  <2>4. Upserts(x) /\ ~Deletes(x)
    <3>1. n + 1 \in 1..N /\ x = s[n + 1]
      BY <1>1, <2>1
    <3>2. s[n + 1] = Upsert(SegmentOrder[n + 1])
      BY <2>2, <3>1
    <3>. QED
      BY <3>1, <3>2, KindsOfLocks
  <2>. HIDE DEF x, N
  <2>. QED
    BY <1>2, <2>3, <2>4 DEF x, N
<1>6. CASE k = "batch" /\ Mixes(s)
  BY <1>1, <1>2, <1>6 DEF Mixes, Sweepers
<1>7. CASE k = "reset" /\ Sweeps(s)
  <2>1. Deletes(x) /\ \A i \in 1..n : Deletes(s[i]) /\ s[i] # x
    BY <1>1, <1>7 DEF Sweeps
  <2>2. \A i \in 1..n : ~Upserts(s[i])
    BY <2>1 DEF Deletes, Upserts
  <2>. QED
    BY <1>2, <1>7, <2>1, <2>2 DEF Sweepers
<1>. QED
  BY <1>1, <1>3, <1>4, <1>5, <1>6, <1>7 DEF Statements

\* The lock that a worker waits for.
Awaits(w) == Head(todo[w])

\* What a worker that waits holds, and what it waits for.
LEMMA WaitsAndHolds ==
    ASSUME LocksInv, NEW w \in Sessions, todo[w] # <<>>
    PROVE  /\ Awaits(w) \in AnyLock /\ holds[w] \subseteq AnyLock
           /\ \A h \in holds[w] : Upserts(h) =>
                 \E i, j \in 1..Len(SegmentOrder) :
                    /\ i < j /\ h = Upsert(SegmentOrder[i])
                    /\ Awaits(w) = Upsert(SegmentOrder[j])
           /\ request[w] \notin Sweepers => ~Deletes(Awaits(w))
           /\ request[w] \notin Sweepers /\ ~Upserts(Awaits(w)) =>
                 \A h \in holds[w] : /\ h.row = Awaits(w).row
                                     /\ h.row[1] = "vehicle"
                                     /\ h.mode = "share"
           /\ Deletes(Awaits(w)) =>
                 \A h \in holds[w] : Deletes(h) /\ h # Awaits(w)
<1>1. PICK s \in Statements(request[w]), n \in Nat :
         Taken(holds[w], todo[w], s, n)
  BY DEF LocksInv, Underway
<1>2. todo[w] \in Seq(AnyLock) /\ Len(todo[w]) > 0 /\ Awaits(w) = todo[w][1]
  <2>1. todo[w] \in Seq(AnyLock)
    BY DEF LocksInv
  <2>. DEFINE q == todo[w]
  <2>. HIDE DEF q
  <2>. QED
    BY <2>1, HeadTailProperties DEF q, Awaits
<1>3. Awaits(w) = s[n + 1] /\ n < Len(s) /\ holds[w] = {s[i] : i \in 1..n}
  BY <1>1, <1>2 DEF Taken
<1>. QED
  BY <1>3, NextOfStatement

\* In a circle nobody waits for a row of traffic_condition: whoever holds
\* one and waits, waits for one that comes later in the refresh.
LEMMA NoUpsertInCircle ==
    ASSUME LocksInv, NEW S \in SUBSET Sessions,
           \A w \in S : todo[w] # <<>> /\ \E b \in S : \E h \in holds[b] :
              h.row = Awaits(w).row
    PROVE  \A w \in S : ~Upserts(Awaits(w))
<1>. DEFINE N == Len(SegmentOrder)
            P == {k \in 1..N : \E w \in S :
                     Awaits(w) = Upsert(SegmentOrder[k])}
            T == {N - k : k \in P}
<1>0. N \in Nat
  BY LocksFit
<1>1. ASSUME NEW w \in S, Upserts(Awaits(w))
      PROVE  \E i, j \in 1..N :
                /\ i < j /\ j \in P
                /\ Awaits(w).row = Upsert(SegmentOrder[i]).row
  <2>1. PICK b \in S : \E h \in holds[b] : h.row = Awaits(w).row
    OBVIOUS
  <2>2. PICK h \in holds[b] : h.row = Awaits(w).row
    BY <2>1
  <2>3. Upserts(h)
    BY <1>1, <2>2 DEF Upserts
  <2>4. PICK i \in 1..N, j \in 1..N :
           /\ i < j /\ h = Upsert(SegmentOrder[i])
           /\ Awaits(b) = Upsert(SegmentOrder[j])
    BY <2>3, WaitsAndHolds
  <2>5. j \in P
    BY <2>4
  <2>. QED
    BY <2>2, <2>4, <2>5
<1>2. ASSUME NEW k \in P
      PROVE  \E j \in P : k < j
  <2>1. PICK w \in S : Awaits(w) = Upsert(SegmentOrder[k])
    OBVIOUS
  <2>2. Upserts(Awaits(w))
    BY <2>1 DEF Upserts, Upsert, Lock
  <2>3. PICK i \in 1..N, j \in 1..N :
           /\ i < j /\ j \in P
           /\ Awaits(w).row = Upsert(SegmentOrder[i]).row
    BY <1>1, <2>2
  <2>4. SegmentOrder[i] = SegmentOrder[k]
    BY <2>1, <2>3 DEF Upsert, Lock
  <2>5. i = k
    BY <2>4, LocksFit
  <2>. QED
    BY <2>3, <2>5
<1>3. P = {}
  <2>. SUFFICES ASSUME P # {} PROVE FALSE
    OBVIOUS
  <2>1. P \subseteq 1..N
    OBVIOUS
  <2>. HIDE DEF P, N
  <2>2. T \in SUBSET Nat /\ T # {}
    <3>1. \A k \in P : N - k \in Nat
      BY <1>0, <2>1
    <3>. QED
      BY <3>1
  <2>3. PICK m \in T : \A i \in T : m <= i
    BY <2>2, LeastOf
  <2>4. PICK k \in P : m = N - k
    OBVIOUS
  <2>5. PICK j \in P : k < j
    BY <1>2
  <2>6. m <= N - j
    BY <2>3
  <2>. QED
    BY <1>0, <2>1, <2>4, <2>5, <2>6
<1>. QED
  BY <1>1, <1>3

\* In a set of workers that wait for each other, whoever is no sweeper is
\* blocked by sweepers only, and a sweeper that is blocked by no sweeper
\* waits to delete a vehicle that it would hold if it closed the circle.
LEMMA CircleNeedsTwo ==
    ASSUME LocksInv, NEW S \in SUBSET Sessions, S # {},
           \A w \in S : Blockers(w) \cap S # {}
    PROVE  \E x, y \in S :
              x # y /\ request[x] \in Sweepers /\ request[y] \in Sweepers
<1>. DEFINE Blocks(b, w) ==
         /\ b # w
         /\ \E h \in holds[b] : /\ h.row = Awaits(w).row
                                /\ ~Compatible(h.mode, Awaits(w).mode)
<1>1. ASSUME NEW w \in S
      PROVE  todo[w] # <<>> /\ \E b \in S : Blocks(b, w)
  <2>1. PICK b \in S : b \in Blockers(w)
    OBVIOUS
  <2>. QED
    BY <2>1 DEF Blockers, Awaits
<1>2. \A w \in S : ~Upserts(Awaits(w))
  BY <1>1, NoUpsertInCircle
<1>3. \A w \in S :
         /\ Awaits(w) \in AnyLock /\ holds[w] \subseteq AnyLock
         /\ request[w] \notin Sweepers => ~Deletes(Awaits(w))
         /\ request[w] \notin Sweepers =>
               \A h \in holds[w] : /\ h.row = Awaits(w).row
                                   /\ h.row[1] = "vehicle"
                                   /\ h.mode = "share"
         /\ Deletes(Awaits(w)) =>
               \A h \in holds[w] : Deletes(h) /\ h # Awaits(w)
  BY <1>1, <1>2, WaitsAndHolds
<1>. HIDE DEF Blocks
<1>4. ASSUME NEW w \in S, NEW b \in S, Blocks(b, w),
             request[b] \notin Sweepers
      PROVE  /\ Deletes(Awaits(w)) /\ Awaits(w).row = Awaits(b).row
  <2>1. PICK h \in holds[b] : /\ h.row = Awaits(w).row
                              /\ ~Compatible(h.mode, Awaits(w).mode)
    BY <1>4 DEF Blocks
  <2>2. /\ h.row = Awaits(b).row /\ h.row[1] = "vehicle" /\ h.mode = "share"
        /\ Awaits(w) \in AnyLock
    BY <1>3, <1>4
  <2>3. Awaits(w).mode \notin {"share", "touch"}
    BY <2>1, <2>2 DEF Compatible
  <2>4. Awaits(w).mode = "write"
    BY <2>2, <2>3 DEF AnyLock
  <2>. QED
    BY <2>1, <2>2, <2>4 DEF Deletes
<1>5. \A w \in S : request[w] \notin Sweepers =>
         \A b \in S : Blocks(b, w) => request[b] \in Sweepers
  BY <1>3, <1>4
<1>6. PICK x \in S : request[x] \in Sweepers
  BY <1>1, <1>5
<1>7. PICK y \in S : Blocks(y, x)
  BY <1>1
<1>8. CASE request[y] \in Sweepers
  BY <1>6, <1>7, <1>8 DEF Blocks
<1>9. CASE request[y] \notin Sweepers
  <2>1. Deletes(Awaits(x)) /\ Awaits(x).row = Awaits(y).row
    BY <1>4, <1>7, <1>9
  <2>2. PICK z \in S : Blocks(z, y)
    BY <1>1
  <2>3. request[z] \in Sweepers
    BY <1>5, <1>9, <2>2
  <2>4. z # x
    <3>. SUFFICES ASSUME z = x PROVE FALSE
      OBVIOUS
    <3>1. PICK g \in holds[x] : g.row = Awaits(y).row
      BY <2>2 DEF Blocks
    <3>2. /\ Deletes(g) /\ g # Awaits(x)
          /\ g \in AnyLock /\ Awaits(x) \in AnyLock
      BY <1>3, <2>1
    <3>3. g.row = Awaits(x).row /\ g.mode = Awaits(x).mode
      BY <2>1, <3>1, <3>2 DEF Deletes
    <3>. QED
      BY <3>2, <3>3 DEF AnyLock
  <2>. QED
    BY <1>6, <2>3, <2>4
<1>. QED
  BY <1>8, <1>9

\* Requests that wait for each other in a circle include two batches, two
\* resets or one of each, for any number of requests, fixes and segments
\* (CirclesNeedTwoSweeps).
THEOREM CirclesNeedBatchesOrResets ==
    LocksSpec => []CirclesNeedTwoSweeps
<1>1. LocksInv => CirclesNeedTwoSweeps
  <2>. SUFFICES ASSUME LocksInv, NEW S \in SUBSET Sessions, S # {},
                       \A w \in S : Blockers(w) \cap S # {}
                PROVE  Cardinality(
                          {w \in S : request[w] \in {"batch", "reset"}}) >= 2
    BY DEF CirclesNeedTwoSweeps
  <2>. DEFINE U == {w \in S : request[w] \in {"batch", "reset"}}
  <2>1. PICK x \in S, y \in S :
           x # y /\ request[x] \in Sweepers /\ request[y] \in Sweepers
    BY CircleNeedsTwo
  <2>2. {x, y} \subseteq U /\ U \subseteq Sessions
    BY <2>1 DEF Sweepers
  <2>. HIDE DEF U
  <2>3. IsFiniteSet(U) /\ Cardinality(U) \in Nat
    BY <2>2, FS_Subset, FS_CardinalityType, LocksFit
  <2>4. Cardinality({x, y}) = 2
    <3>. DEFINE one == {x}
                two == one \cup {y}
    <3>1. IsFiniteSet(one) /\ Cardinality(one) = 1
      BY FS_Singleton
    <3>2. {x, y} = two /\ y \notin one
      BY <2>1
    <3>3. Cardinality(two) = Cardinality(one) + 1
      BY <3>1, <3>2, FS_AddElement
    <3>. HIDE DEF one, two
    <3>4. Cardinality(two) = 2
      BY <3>1, <3>3
    <3>. QED
      BY <3>2, <3>4
  <2>5. Cardinality({x, y}) <= Cardinality(U)
    BY <2>2, <2>3, FS_Subset
  <2>6. Cardinality(U) >= 2
    BY <2>3, <2>4, <2>5
  <2>. QED
    BY <2>6 DEF U
<1>. QED
  BY <1>1, LocksAlways, PTL

\* Who can do nothing waits for a lock, and it is with a request: a statement
\* goes one way at least, and nobody keeps a lock after its request.
LEMMA WhoCannotGoOnWaits ==
    ASSUME LocksInv, NEW w \in Sessions, ~CanGoOn(w)
    PROVE  /\ request[w] # "idle" => Blockers(w) # {}
           /\ \A v \in Blockers(w) : request[v] # "idle"
<1>1. /\ rest[w] \in Seq(Turns(request[w]))
      /\ request[w] = "idle" => todo[w] = <<>>
      /\ \A v \in Sessions : request[v] = "idle" => holds[v] = {}
  BY DEF LocksInv
<1>2. \A v \in Blockers(w) : v \in Sessions /\ holds[v] # {}
  BY DEF Blockers
<1>3. rest[w] # <<>> => Head(rest[w]) # {}
  <2>. DEFINE a == rest[w]
              C == Turns(request[w])
  <2>. HIDE DEF a, C
  <2>1. a \in Seq(C)
    BY <1>1 DEF a, C
  <2>2. a # <<>> => Head(a) \in C
    BY <2>1
  <2>. QED
    BY <2>2 DEF a, C, Turns
<1>4. request[w] # "idle" => Blockers(w) # {}
  BY <1>3 DEF CanGoOn
<1>. QED
  BY <1>1, <1>2, <1>4

\* Where nobody can go on, the smallest set of requests that wait for nobody
\* else is a circle.
LEMMA StandstillIsCircle ==
    ASSUME LocksInv, NEW x \in Sessions, request[x] # "idle",
           \A w \in Sessions : ~CanGoOn(w)
    PROVE  \E w \in Sessions : InCircle(w)
<1>. DEFINE C == {w \in Sessions : request[w] # "idle"}
            F == {S \in SUBSET C : S # {} /\ Closed(S)}
            N == {Cardinality(S) : S \in F}
<1>1. \A w \in C : Blockers(w) # {} /\ Blockers(w) \subseteq C
  <2>1. \A w \in Sessions : Blockers(w) \subseteq Sessions
    BY DEF Blockers
  <2>. QED
    BY <2>1, WhoCannotGoOnWaits
<1>2. C \in F
  BY <1>1 DEF Closed
<1>3. \A S \in F : IsFiniteSet(S) /\ Cardinality(S) \in Nat
  BY FS_Subset, FS_CardinalityType, LocksFit
<1>4. PICK m \in N : \A i \in N : m <= i
  <2>1. N \in SUBSET Nat /\ N # {}
    BY <1>2, <1>3
  <2>. HIDE DEF N
  <2>. QED
    BY <2>1, LeastOf
<1>5. PICK S \in F : m = Cardinality(S)
  OBVIOUS
<1>6. PICK w \in S : TRUE
  OBVIOUS
<1>7. ASSUME NEW T \in SUBSET Sessions, Blockers(w) \subseteq T, Closed(T)
      PROVE  w \in T
  <2>. DEFINE U == S \cap T
  <2>1. Blockers(w) # {} /\ Blockers(w) \subseteq S
    BY <1>1, <1>6 DEF Closed
  <2>2. U \in F
    BY <1>7, <2>1 DEF Closed
  <2>. HIDE DEF F, U
  <2>3. Cardinality(S) <= Cardinality(U)
    BY <1>4, <1>5, <2>2
  <2>4. U \subseteq S
    BY DEF U
  <2>5. U = S
    BY <1>3, <2>2, <2>3, <2>4, FS_Subset
  <2>. QED
    BY <1>6, <2>5 DEF U
<1>8. InCircle(w) /\ w \in Sessions
  BY <1>7 DEF InCircle
<1>. QED
  BY <1>8

\* Whatever requests there have been, one of those under way can take its
\* next step or is in a circle, which PostgreSQL breaks (NoStandstill).
THEOREM SomeRequestGoesOn == LocksSpec => []NoStandstill
<1>1. LocksInv => NoStandstill
  BY StandstillIsCircle DEF NoStandstill
<1>. QED
  BY <1>1, LocksAlways, PTL
=============================================================================
