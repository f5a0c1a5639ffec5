---------------------------- MODULE ServiceProofs ----------------------------
(***************************************************************************)
(* Proofs about the service as it runs with its readers (Dashboard), for   *)
(* any threads, bounds and passwords.                                      *)
(*                                                                         *)
(* None of the properties is inductive.  One main pool: what get_pool does *)
(* without a lock is harmless because _pool is set while the API serves,   *)
(* and because after close_pool a single thread is left.  The SQL Lab's    *)
(* privileges: a boot that carries out every statement for the role leaves *)
(* default privileges behind, under which the views of later boots are     *)
(* readable; so the proof follows what a boot has granted so far.  What the*)
(* browser shows, each entry once: ids are distinct in the ring and in all *)
(* that is cut from it, as each is drawn by one thread of one life.        *)
(***************************************************************************)
EXTENDS Dashboard, Lemmas, FiniteSetTheorems

\* What the pool needs to know of the threads.
ThreadsOK ==
    /\ pc \in [Threads -> {"idle", "check", "open", "work", "store"}]
    /\ uses \in [Threads -> Pools]
    /\ open \in [Pools -> Int]
    /\ uses[Ticker] = "main"

AllIdle == \A t \in Threads : pc[t] = "idle"

NobodyOpens == \A t \in Threads : pc[t] = "open" => uses[t] # "main"

\* How _pool and the open main pool go together in each phase.
PoolInPhase ==
    /\ phase \in {"down", "wait", "boot", "serving", "draining", "closed"}
    /\ phase \in {"down", "wait"} => AllIdle /\ open["main"] = 0
    /\ phase = "boot" => AllIdle
    /\ phase \in {"boot", "serving", "draining"} =>
          "main" \in global /\ open["main"] = 1 /\ NobodyOpens
    /\ phase = "closed" =>
          /\ \A t \in Threads \ {Ticker} : pc[t] = "idle"
          /\ open["main"] = (IF "main" \in global THEN 1 ELSE 0)
          /\ "main" \in global => NobodyOpens

PoolInv == ThreadsOK /\ PoolInPhase

\* Everything that a complete boot gives to traffic_ro.
Complete == RoleSteps \cup {"views"}

\* Has this boot granted what its steps before `at' grant?
GrantedSoFar ==
    \A i \in 1..12 : i < at =>
        /\ BootSteps[i] \in RoleSteps => BootSteps[i] \in privs
        /\ BootSteps[i] = "tables" => "views" \in privs

LabInv ==
    /\ at \in 1..13
    /\ provisioned => Complete \subseteq privs
    /\ phase = "boot" /\ at <= 12 => GrantedSoFar
-----------------------------------------------------------------------------
(* The pool.                                                               *)

\* The browser and the socket leave the process and its database alone.
LEMMA StepsOfService ==
    [Next]_vars => ServiceNext \/ UNCHANGED <<procVars, privs, provisioned>>
<1>1. UNCHANGED service => UNCHANGED <<procVars, privs, provisioned>>
  BY DEF service, dbVars
<1>2. UNCHANGED vars => UNCHANGED service
  BY DEF vars
<1>3. \A i \in Slots :
         FetchLogs(i) \/ ReceiveLogs(i) => UNCHANGED service
  BY DEF FetchLogs, ReceiveLogs
<1>4. FetchMap \/ ReceiveMap \/ ConnectWS \/ ReadTables \/ SendFrame
      \/ ReceiveFrame \/ LoadPage \/ AbandonPage \/ OpenAgain
         => UNCHANGED service
  BY DEF FetchMap, ReceiveMap, ConnectWS, ReadTables, SendFrame, ReceiveFrame,
         LoadPage, AbandonPage, OpenAgain
<1>5. DropWS => UNCHANGED <<procVars, privs, provisioned>>
  BY DEF DropWS, dbVars
<1>6. ServiceStep => ServiceNext
  BY DEF ServiceStep
<1>. QED
  BY <1>1, <1>2, <1>3, <1>4, <1>5, <1>6 DEF Next, Receive

\* A process that starts anew has no thread at work and no pool.
LEMMA PoolDie == ASSUME PoolInv, Die PROVE PoolInv'
BY ServiceAssumption DEF Die, LogLost, PoolInv, ThreadsOK, PoolInPhase,
   AllIdle, NobodyOpens, Pools

\* No step of a boot makes a second main pool.
LEMMA PoolBoot == ASSUME PoolInv, Boot PROVE PoolInv'
<1>. USE DEF PoolInv, ThreadsOK, PoolInPhase, AllIdle, NobodyOpens
<1>1. CASE Start
  BY <1>1 DEF Start
<1>2. CASE Connect
  BY <1>2 DEF Connect, PoolsAtBoot, Pools
<1>3. CASE GiveUp
  BY <1>3 DEF GiveUp
<1>4. CASE BootStep
  BY <1>4 DEF BootStep
<1>5. CASE FileFails
  BY <1>5, PoolDie DEF FileFails
<1>6. CASE RoleFails
  BY <1>6 DEF RoleFails, EndOfRole
<1>7. CASE Serve
  BY <1>7 DEF Serve
<1>. QED
  BY <1>1, <1>2, <1>3, <1>4, <1>5, <1>6, <1>7 DEF Boot

\* A thread opens a main pool only when there is none.
LEMMA PoolThread ==
    ASSUME PoolInv, NEW t \in Threads, Arrive(t) \/ ThreadStep(t)
    PROVE  PoolInv'
<1>. USE ServiceAssumption DEF PoolInv, ThreadsOK, PoolInPhase, AllIdle,
     NobodyOpens, Pools
<1>1. CASE Arrive(t)
  BY <1>1 DEF Arrive
<1>2. CASE CheckPool(t)
  BY <1>2 DEF CheckPool
<1>3. CASE OpenPool(t)
  BY <1>3 DEF OpenPool
<1>4. CASE Work(t)
  BY <1>4 DEF Work
<1>5. CASE NoEntry(t)
  BY <1>5 DEF NoEntry
<1>6. CASE StoreEntry(t)
  BY <1>6 DEF StoreEntry
<1>. QED
  BY <1>1, <1>2, <1>3, <1>4, <1>5, <1>6 DEF ThreadStep

\* PoolInv holds in every reachable state.
LEMMA PoolNext == PoolInv /\ [Next]_vars => PoolInv'
<1>. SUFFICES ASSUME PoolInv, [Next]_vars PROVE PoolInv'
  OBVIOUS
<1>1. CASE UNCHANGED procVars
  BY <1>1 DEF procVars, PoolInv, ThreadsOK, PoolInPhase, AllIdle, NobodyOpens
<1>2. CASE Boot
  BY <1>2, PoolBoot
<1>3. CASE \E t \in Threads : Arrive(t) \/ ThreadStep(t)
  BY <1>3, PoolThread
<1>4. CASE Terminate
  BY <1>4 DEF Terminate, PoolInv, ThreadsOK, PoolInPhase, AllIdle, NobodyOpens
<1>5. CASE ClosePools
  BY <1>5 DEF ClosePools, PoolInv, ThreadsOK, PoolInPhase, AllIdle,
     NobodyOpens, Pools
<1>6. CASE Exit \/ Kill
  BY <1>6, PoolDie DEF Exit, Kill
<1>. QED
  BY <1>1, <1>2, <1>3, <1>4, <1>5, <1>6, StepsOfService DEF ServiceNext,
     DbFails, DbReturns

\* There is never a second main pool, for any number of threads.
THEOREM NeverTwoPools == Spec => []OnePool
<1>1. Init => PoolInv
  BY ServiceAssumption DEF Init, ServiceInit, PoolInv, ThreadsOK,
     PoolInPhase, AllIdle, NobodyOpens, Pools
<1>2. PoolInv => OnePool
  BY DEF PoolInv, ThreadsOK, PoolInPhase, OnePool
<1>. QED
  BY <1>1, <1>2, PoolNext, PTL DEF Spec
-----------------------------------------------------------------------------
(* The role of the SQL Lab.                                                *)

\* The places of the steps for the role in the boot.
LEMMA Steps ==
    /\ Len(BootSteps) = 12
    /\ BootSteps[12] = "defaults"
    /\ \A x \in RoleSteps : \E i \in 7..12 : BootSteps[i] = x
    /\ \E i \in 7..11 : BootSteps[i] = "tables"
    /\ \A i \in 7..12 : BootSteps[i] # "views"
BY DEF BootSteps, RoleSteps

\* A boot step grants what it names and takes nothing from a complete role.
LEMMA LabBootStep == ASSUME LabInv, BootStep PROVE LabInv'
<1>1. /\ at \in 1..12 /\ at' = at + 1 /\ phase = "boot"
      /\ privs' = PrivsAfter(BootSteps[at])
  BY Steps DEF BootStep, LabInv
<1>2. provisioned' => provisioned \/ at = 12
  BY Steps, Zenon DEF BootStep
<1>3. GrantedSoFar
  BY <1>1 DEF LabInv
<1>4. Complete \subseteq privs => Complete \subseteq privs'
  BY <1>1 DEF PrivsAfter, Complete, RoleSteps
<1>5. GrantedSoFar'
  BY <1>1, <1>3, Steps DEF GrantedSoFar, PrivsAfter, BootSteps, RoleSteps
<1>6. at = 12 => Complete \subseteq privs'
  BY <1>1, <1>3, Steps DEF GrantedSoFar, PrivsAfter, BootSteps, RoleSteps,
     Complete
<1>7. at' \in 1..13
  BY <1>1
<1>8. provisioned' => Complete \subseteq privs'
  BY <1>2, <1>4, <1>6, Zenon DEF LabInv
<1>. QED
  BY <1>5, <1>7, <1>8 DEF LabInv, Complete

\* LabInv holds in every reachable state: only a boot touches the role.
LEMMA LabNext == LabInv /\ [Next]_vars => LabInv'
<1>. SUFFICES ASSUME LabInv, [Next]_vars PROVE LabInv'
  OBVIOUS
<1>1. CASE BootStep
  BY <1>1, LabBootStep
<1>2. CASE Connect
  BY <1>2 DEF Connect, dbVars, LabInv, GrantedSoFar
<1>3. CASE RoleFails
  BY <1>3, Steps DEF RoleFails, EndOfRole, dbVars, LabInv
<1>4. ASSUME ~BootStep, ~Connect, ~RoleFails
      PROVE  /\ UNCHANGED <<privs, provisioned>>
             /\ phase' = "boot" => phase = "boot" /\ at' = at
             /\ at' \in {1, at}
  <2>1. CASE UNCHANGED <<procVars, privs, provisioned>>
    BY <2>1 DEF procVars
  <2>2. CASE ServiceNext
    <3>1. CASE Boot
      BY <1>4, <3>1 DEF Boot, Start, GiveUp, FileFails, Die, Serve, dbVars
    <3>2. CASE \E t \in Threads : Arrive(t) \/ ThreadStep(t)
      BY <3>2 DEF ThreadStep, Arrive, CheckPool, OpenPool, Work, NoEntry,
         StoreEntry, dbVars
    <3>3. CASE Terminate \/ ClosePools \/ Exit \/ Kill
      BY <3>3 DEF Terminate, ClosePools, Exit, Kill, Die, dbVars
    <3>4. CASE DbFails \/ DbReturns
      BY <3>4 DEF DbFails, DbReturns, procVars
    <3>. QED
      BY <2>2, <3>1, <3>2, <3>3, <3>4 DEF ServiceNext
  <2>. QED
    BY <2>1, <2>2, StepsOfService
<1>5. CASE ~BootStep /\ ~Connect /\ ~RoleFails
  BY <1>4, <1>5 DEF LabInv, GrantedSoFar
<1>. QED
  BY <1>1, <1>2, <1>3, <1>5

\* Whatever fails in whatever boot, the role keeps what it needs once a boot
\* has given it everything.
THEOREM LabStaysProvisioned == Spec => []LabKeepsReading
<1>1. Init => LabInv
  BY DEF Init, ServiceInit, LabInv
<1>2. LabInv => LabKeepsReading
  BY DEF LabInv, LabKeepsReading, Complete, Reading, RoleSteps
<1>. QED
  BY <1>1, <1>2, LabNext, PTL DEF Spec
-----------------------------------------------------------------------------
(* Entries and their ids.                                                  *)

\* No id occurs twice in q.
Distinct(q) == \A i, j \in 1..Len(q) : q[i].id = q[j].id => i = j

Log == {q \in Seq(Entry) : Distinct(q)}

\* What a reply or a frame brings.
Reply == {q \in Log : Len(q) <= Limit}

\* An entry with a new id keeps the ids of a log distinct.
LEMMA AppendLog ==
    ASSUME NEW q \in Log, NEW e \in Entry,
           \A i \in 1..Len(q) : q[i].id # e.id
    PROVE  /\ Append(q, e) \in Log
           /\ Len(Append(q, e)) = Len(q) + 1
           /\ \A i \in 1..Len(Append(q, e)) :
                 Append(q, e)[i] = e
                 \/ \E j \in 1..Len(q) : Append(q, e)[i] = q[j]
<1>. DEFINE r == Append(q, e)
<1>1. q \in Seq(Entry) /\ Len(q) \in Nat
  BY DEF Log
<1>2. /\ r \in Seq(Entry) /\ Len(r) = Len(q) + 1 /\ r[Len(q) + 1] = e
      /\ \A i \in 1..Len(q) : r[i] = q[i]
  BY <1>1
<1>. HIDE DEF r
<1>3. \A i \in 1..Len(r) : i = Len(q) + 1 \/ i \in 1..Len(q)
  BY <1>1, <1>2
<1>4. Distinct(r)
  BY <1>1, <1>2, <1>3 DEF Distinct, Log
<1>5. \A i \in 1..Len(r) : r[i] = e \/ \E j \in 1..Len(q) : r[i] = q[j]
  BY <1>2, <1>3
<1>. QED
  BY <1>2, <1>4, <1>5 DEF Log, r

\* The oldest entry makes room.
LEMMA RingLog ==
    ASSUME NEW q \in Log, Len(q) <= MaxEntries + 1
    PROVE  /\ Ring(q) \in Log /\ Len(Ring(q)) <= MaxEntries
           /\ \A i \in 1..Len(Ring(q)) :
                 \E j \in 1..Len(q) : Ring(q)[i] = q[j]
<1>1. q \in Seq(Entry) /\ Len(q) \in Nat
  BY DEF Log
<1>2. CASE Len(q) > MaxEntries
  <2>. DEFINE r == Tail(q)
  <2>1. q # <<>>
    BY <1>2, RingAssumption
  <2>2. /\ r \in Seq(Entry) /\ Len(r) = Len(q) - 1
        /\ \A i \in 1..Len(r) : r[i] = q[i + 1]
    BY <1>1, <2>1, HeadTailProperties
  <2>3. Ring(q) = r
    BY <1>2 DEF Ring
  <2>. HIDE DEF r
  <2>4. \A i \in 1..Len(r) : i + 1 \in 1..Len(q)
    BY <1>1, <2>2
  <2>5. Distinct(r)
    <3>. SUFFICES ASSUME NEW i \in 1..Len(r), NEW j \in 1..Len(r),
                         r[i].id = r[j].id
                  PROVE  i = j
      BY DEF Distinct
    <3>1. i + 1 = j + 1
      <4>1. i + 1 \in 1..Len(q) /\ j + 1 \in 1..Len(q)
        BY <2>4, Zenon
      <4>2. q[i + 1].id = q[j + 1].id
        BY <2>2, Zenon
      <4>3. Distinct(q)
        BY Zenon DEF Log
      <4>. QED
        BY <4>1, <4>2, <4>3, Zenon DEF Distinct
    <3>. QED
      BY <3>1
  <2>6. Len(r) <= MaxEntries
    BY <1>1, <2>2, RingAssumption
  <2>. QED
    BY <2>2, <2>3, <2>4, <2>5, <2>6 DEF Log
<1>3. CASE ~(Len(q) > MaxEntries)
  <2>1. Ring(q) = q /\ Len(q) <= MaxEntries
    BY <1>1, <1>3, RingAssumption DEF Ring
  <2>. QED
    BY <2>1
<1>. QED
  BY <1>2, <1>3

\* A part of a log is a log.
LEMMA PartOfLog ==
    ASSUME NEW q \in Log, NEW m \in 1..(Len(q) + 1), Len(q) - m + 1 <= Limit
    PROVE  SubSeq(q, m, Len(q)) \in Reply
<1>. DEFINE n == Len(q)
            r == SubSeq(q, m, n)
            l == n - m + 1
<1>1. q \in Seq(Entry) /\ n \in Nat /\ m \in Int /\ l \in Nat
  BY DEF Log
<1>2. \A i \in m..n : q[i] \in Entry
  <2>1. \A i \in m..n : i \in 1..Len(q)
    BY <1>1
  <2>. QED
    BY <1>1, <2>1, ElementOfSeq
<1>3. r \in Seq(Entry) /\ Len(r) = l /\ \A i \in 1..l : r[i] = q[m + i - 1]
  <2>. HIDE DEF n
  <2>1. /\ r \in Seq(Entry) /\ Len(r) = IF m <= n THEN l ELSE 0
        /\ \A i \in 1..l : r[i] = q[m + i - 1]
    BY <1>1, <1>2, SubSeqProperties
  <2>2. m <= n \/ l = 0
    BY <1>1
  <2>. QED
    BY <2>1, <2>2
<1>. HIDE DEF r
<1>4. \A i \in 1..l : m + i - 1 \in 1..n
  BY <1>1
<1>5. Distinct(r)
  <2>. SUFFICES ASSUME NEW i \in 1..l, NEW j \in 1..l, r[i].id = r[j].id
                PROVE  i = j
    BY <1>3 DEF Distinct
  <2>. DEFINE a == m + i - 1
              b == m + j - 1
  <2>1. a \in 1..Len(q) /\ b \in 1..Len(q) /\ q[a].id = q[b].id
    BY <1>3, <1>4
  <2>. HIDE DEF a, b
  <2>2. a = b
    BY <2>1 DEF Log, Distinct
  <2>. QED
    BY <1>1, <2>2 DEF a, b
<1>. QED
  BY <1>3, <1>5 DEF Reply, Log, r

\* What is selected from a log is a log.
LEMMA SelectedLog ==
    ASSUME NEW q \in Log, NEW T
    PROVE  /\ Selected(q, T) \in Log
           /\ \A i \in 1..Len(Selected(q, T)) : Selected(q, T)[i] \in T
<1>. DEFINE r == Selected(q, T)
<1>1. q \in Seq(Entry)
  BY DEF Log
<1>2. r \in Seq(Entry)
  BY <1>1, SelectedPlaces
<1>3. PICK f : Places(q, T, r, f)
  BY <1>1, SelectedPlaces
<1>. HIDE DEF r
<1>4. Len(r) \in Nat /\ Len(q) \in Nat
  BY <1>1, <1>2
<1>5. Distinct(r)
  <2>. SUFFICES ASSUME NEW i \in 1..Len(r), NEW j \in 1..Len(r),
                       r[i].id = r[j].id
                PROVE  i = j
    BY DEF Distinct
  <2>1. r[i] = q[f[i]] /\ r[j] = q[f[j]]
        /\ f[i] \in 1..Len(q) /\ f[j] \in 1..Len(q)
    BY <1>3 DEF Places
  <2>2. f[i] = f[j]
    BY <2>1 DEF Log, Distinct
  <2>3. (i < j => f[i] < f[j]) /\ (j < i => f[j] < f[i])
    BY <1>3 DEF Places
  <2>4. ~(i < j) /\ ~(j < i)
    BY <1>4, <2>1, <2>2, <2>3
  <2>. QED
    BY <1>4, <2>4
<1>6. \A i \in 1..Len(r) : r[i] \in T
  BY <1>3 DEF Places
<1>. QED
  BY <1>2, <1>5, <1>6 DEF Log, r

\* A log has as many entries as it is long.
LEMMA CountOfLog ==
    ASSUME NEW q \in Log
    PROVE  /\ IsFiniteSet(Range(q)) /\ Cardinality(Range(q)) = Len(q)
           /\ Range(q) \subseteq Entry
           /\ Range(q) = {q[i] : i \in 1..Len(q)}
<1>1. q \in Seq(Entry) /\ Len(q) \in Nat /\ DOMAIN q = 1..Len(q)
  BY DEF Log
<1>2. Range(q) = {q[i] : i \in 1..Len(q)}
  BY <1>1 DEF Range
<1>3. Range(q) \subseteq Entry
  BY <1>1, <1>2
<1>. DEFINE I == 1..Len(q)
            R == Range(q)
<1>4. q \in [I -> R]
  <2>1. \A i \in I : q[i] \in R
    BY <1>2
  <2>2. q = [i \in I |-> q[i]]
    BY <1>1
  <2>. HIDE DEF I, R
  <2>. QED
    BY <2>1, <2>2
<1>5. \A i, j \in I : q[i] = q[j] => i = j
  BY DEF Log, Distinct
<1>6. \A x \in R : \E i \in I : q[i] = x
  BY <1>2
<1>7. IsFiniteSet(I) /\ Cardinality(I) = Len(q)
  <2>. DEFINE n == Len(q)
  <2>1. n \in Nat
    BY <1>1
  <2>. HIDE DEF n
  <2>2. IsFiniteSet(1..n) /\ Cardinality(1..n) = n
    BY <2>1, FS_Interval
  <2>. QED
    BY <2>2 DEF n
<1>. HIDE DEF I, R
<1>8. q \in Injection(I, R) /\ q \in Surjection(I, R)
  BY <1>4, <1>5, <1>6 DEF Injection, Surjection, IsInjective
<1>9. IsFiniteSet(R) /\ Cardinality(R) = Cardinality(I)
  BY <1>7, <1>8, FS_Surjection
<1>. QED
  BY <1>2, <1>3, <1>7, <1>9 DEF R
-----------------------------------------------------------------------------
(* The query log.                                                          *)

\* Ids below `next' have been given; each is in the ring, or drawn by one
\* thread that has yet to store it, or gone.
LogInv ==
    /\ life \in Nat \ {0} /\ next \in Nat \ {0}
    /\ entries \in Log /\ Len(entries) <= MaxEntries
    /\ drawn \in [Threads -> Nat]
    /\ \A i \in 1..Len(entries) : entries[i].id < next
    /\ \A t \in Threads : drawn[t] < next
    /\ \A t, u \in Threads : drawn[t] = drawn[u] /\ drawn[t] # 0 => t = u
    /\ \A t \in Threads, i \in 1..Len(entries) : entries[i].id # drawn[t]

\* The members of a log are entries, and their ids are positive.
LEMMA IdsOfLog ==
    ASSUME NEW q \in Log, NEW i \in 1..Len(q)
    PROVE  q[i] \in Entry /\ q[i].id \in Nat \ {0}
<1>1. q[i] \in Entry
  BY ElementOfSeq DEF Log
<1>. DEFINE e == q[i]
<1>. HIDE DEF e
<1>2. e \in Entry => e.id \in Nat \ {0}
  BY DEF Entry
<1>. QED
  BY <1>1, <1>2 DEF e

\* Only four things happen to the log.
LEMMA LogSteps ==
    ASSUME [Next]_vars
    PROVE  \/ UNCHANGED logVars
           \/ \E t \in Threads : Draw(t) \/ Store(t)
           \/ LogAlone
           \/ LogLost
<1>1. CASE ServiceNext
  <2>1. CASE Boot
    BY <2>1 DEF Boot, Start, Connect, GiveUp, BootStep, FileFails, RoleFails,
                Serve, Die, EndOfRole
  <2>2. CASE \E t \in Threads : Arrive(t) \/ ThreadStep(t)
    BY <2>2 DEF ThreadStep, Arrive, CheckPool, OpenPool, Work, NoEntry,
                StoreEntry
  <2>3. CASE Terminate \/ ClosePools \/ Exit \/ Kill \/ DbFails \/ DbReturns
    BY <2>3 DEF Terminate, ClosePools, Exit, Kill, Die, DbFails, DbReturns
  <2>. QED
    BY <1>1, <2>1, <2>2, <2>3 DEF ServiceNext
<1>2. CASE ~ServiceNext
  BY <1>2 DEF Next, vars, service, ServiceStep, FetchLogs, FetchMap, ConnectWS,
              ReadTables, SendFrame, DropWS, Receive, ReceiveMap,
              ReceiveFrame, ReceiveLogs, LoadPage, AbandonPage, OpenAgain
<1>. QED
  BY <1>1, <1>2

\* Id k, which no entry of the ring has, enters it.
LEMMA Enters ==
    ASSUME LogInv, NEW k \in Nat \ {0},
           \A i \in 1..Len(entries) : entries[i].id # k,
           entries' = Ring(Append(entries, NewEntry(k)))
    PROVE  /\ entries' \in Log /\ Len(entries') <= MaxEntries
           /\ \A i \in 1..Len(entries') :
                 entries'[i].id = k
                 \/ \E j \in 1..Len(entries) : entries'[i] = entries[j]
<1>. DEFINE e == NewEntry(k)
            q == Append(entries, e)
<1>1. entries \in Log /\ Len(entries) <= MaxEntries /\ Len(entries) \in Nat
  BY DEF LogInv, Log
<1>2. e \in Entry /\ e.id = k
  BY DEF LogInv, NewEntry, Entry
<1>. HIDE DEF e
<1>3. /\ q \in Log /\ Len(q) = Len(entries) + 1
      /\ \A i \in 1..Len(q) :
            q[i] = e \/ \E j \in 1..Len(entries) : q[i] = entries[j]
  BY <1>1, <1>2, AppendLog
<1>4. entries' = Ring(q)
  BY DEF e
<1>. HIDE DEF q
<1>5. Len(q) <= MaxEntries + 1
  BY <1>1, <1>3, RingAssumption
<1>6. /\ Ring(q) \in Log /\ Len(Ring(q)) <= MaxEntries
      /\ \A i \in 1..Len(Ring(q)) : \E j \in 1..Len(q) : Ring(q)[i] = q[j]
  BY <1>3, <1>5, RingLog
<1>. DEFINE r == Ring(q)
<1>. HIDE DEF r
<1>7. ASSUME NEW i \in 1..Len(r)
      PROVE  r[i].id = k \/ \E j \in 1..Len(entries) : r[i] = entries[j]
  <2>1. PICK j \in 1..Len(q) : r[i] = q[j]
    BY <1>6 DEF r
  <2>2. q[j] = e \/ \E n \in 1..Len(entries) : q[j] = entries[n]
    BY <1>3
  <2>. QED
    BY <1>2, <2>1, <2>2
<1>. QED
  BY <1>4, <1>6, <1>7 DEF r

\* The counter stays above the ids in the ring and of the threads.
LEMMA LogNext == LogInv /\ [Next]_vars => LogInv'
<1>. SUFFICES ASSUME LogInv, [Next]_vars PROVE LogInv'
  OBVIOUS
<1>0. /\ next \in Nat \ {0} /\ drawn \in [Threads -> Nat]
      /\ \A i \in 1..Len(entries) : entries[i].id \in Nat \ {0}
  BY IdsOfLog DEF LogInv
<1>1. CASE UNCHANGED logVars
  BY <1>1 DEF logVars, LogInv
<1>2. ASSUME NEW t \in Threads, Draw(t)
      PROVE  LogInv'
  <2>1. /\ drawn[t] = 0 /\ drawn' = [drawn EXCEPT ![t] = next]
        /\ next' = next + 1 /\ UNCHANGED <<life, entries>>
    BY <1>2 DEF Draw
  <2>2. /\ drawn'[t] = next /\ \A u \in Threads : u # t => drawn'[u] = drawn[u]
        /\ drawn' \in [Threads -> Nat] /\ next' \in Nat \ {0}
    BY <1>0, <2>1
  <2>3. \A u \in Threads : drawn'[u] < next'
    BY <1>0, <2>1, <2>2 DEF LogInv
  <2>4. \A i \in 1..Len(entries) : entries[i].id < next'
                                   /\ entries[i].id # next
    BY <1>0, <2>1 DEF LogInv
  <2>5. \A u, v \in Threads : drawn'[u] = drawn'[v] /\ drawn'[u] # 0 => u = v
    BY <1>0, <2>2 DEF LogInv
  <2>6. \A u \in Threads, i \in 1..Len(entries) :
           entries[i].id # drawn'[u]
    BY <2>2, <2>4 DEF LogInv
  <2>. QED
    BY <2>1, <2>2, <2>3, <2>4, <2>5, <2>6 DEF LogInv
<1>3. ASSUME NEW t \in Threads, Store(t)
      PROVE  LogInv'
  <2>1. /\ drawn[t] # 0 /\ drawn' = [drawn EXCEPT ![t] = 0]
        /\ entries' = Ring(Append(entries, NewEntry(drawn[t])))
        /\ UNCHANGED <<life, next>>
    BY <1>3 DEF Store
  <2>2. /\ entries' \in Log /\ Len(entries') <= MaxEntries
        /\ \A i \in 1..Len(entries') :
              entries'[i].id = drawn[t]
              \/ \E j \in 1..Len(entries) : entries'[i] = entries[j]
    <3>. DEFINE k == drawn[t]
    <3>1. /\ k \in Nat \ {0} /\ \A i \in 1..Len(entries) : entries[i].id # k
          /\ entries' = Ring(Append(entries, NewEntry(k)))
      BY <1>0, <2>1 DEF LogInv
    <3>. HIDE DEF k
    <3>2. /\ entries' \in Log /\ Len(entries') <= MaxEntries
          /\ \A i \in 1..Len(entries') :
                entries'[i].id = k
                \/ \E j \in 1..Len(entries) : entries'[i] = entries[j]
      BY <3>1, Enters
    <3>. QED
      BY <3>2 DEF k
  <2>3. /\ drawn'[t] = 0 /\ \A u \in Threads : u # t => drawn'[u] = drawn[u]
        /\ drawn' \in [Threads -> Nat]
    BY <1>0, <2>1
  <2>4. \A i \in 1..Len(entries') : entries'[i].id < next
    BY <2>2 DEF LogInv
  <2>5. \A u \in Threads : drawn'[u] < next
    BY <1>0, <2>3 DEF LogInv
  <2>6. \A u, v \in Threads : drawn'[u] = drawn'[v] /\ drawn'[u] # 0 => u = v
    BY <2>3 DEF LogInv
  <2>7. ASSUME NEW u \in Threads, NEW i \in 1..Len(entries')
        PROVE  entries'[i].id # drawn'[u]
    <3>1. CASE u = t
      BY <2>2, <2>3, <3>1, IdsOfLog
    <3>2. CASE u # t
      BY <2>1, <2>2, <2>3, <3>2 DEF LogInv
    <3>. QED
      BY <3>1, <3>2
  <2>. QED
    BY <2>1, <2>2, <2>3, <2>4, <2>5, <2>6, <2>7 DEF LogInv
<1>4. CASE LogAlone
  <2>1. /\ entries' = Ring(Append(entries, NewEntry(next)))
        /\ next' = next + 1 /\ UNCHANGED <<life, drawn>>
    BY <1>4 DEF LogAlone
  <2>2. \A i \in 1..Len(entries) : entries[i].id # next
    BY <1>0 DEF LogInv
  <2>3. /\ entries' \in Log /\ Len(entries') <= MaxEntries
        /\ \A i \in 1..Len(entries') :
              entries'[i].id = next
              \/ \E j \in 1..Len(entries) : entries'[i] = entries[j]
    BY <1>0, <2>1, <2>2, Enters
  <2>4. ASSUME NEW i \in 1..Len(entries')
        PROVE  entries'[i].id < next'
    <3>1. CASE entries'[i].id = next
      BY <1>0, <2>1, <3>1
    <3>2. ASSUME NEW j \in 1..Len(entries), entries'[i] = entries[j]
          PROVE  entries'[i].id < next'
      <4>1. /\ entries[j].id < next /\ entries[j].id \in Nat
            /\ entries'[i].id = entries[j].id
        BY <1>0, <3>2 DEF LogInv
      <4>. DEFINE a == entries[j].id
      <4>. HIDE DEF a
      <4>2. a < next /\ a \in Nat => a < next + 1
        BY <1>0
      <4>. QED
        BY <2>1, <4>1, <4>2 DEF a
    <3>. QED
      BY <2>3, <3>1, <3>2
  <2>5. \A u \in Threads : drawn[u] < next' /\ drawn[u] # next
    BY <1>0, <2>1 DEF LogInv
  <2>6. \A u \in Threads, i \in 1..Len(entries') :
           entries'[i].id # drawn[u]
    BY <2>3, <2>5 DEF LogInv
  <2>. QED
    BY <1>0, <2>1, <2>3, <2>4, <2>5, <2>6 DEF LogInv
<1>5. CASE LogLost
  <2>1. entries' = <<>> /\ Len(entries') = 0 /\ entries' \in Log
    BY <1>5 DEF LogLost, Log, Distinct
  <2>2. /\ life' \in Nat \ {0} /\ next' = 1
        /\ drawn' = [t \in Threads |-> 0]
    BY <1>5 DEF LogLost, LogInv
  <2>3. 0 <= MaxEntries
    BY RingAssumption
  <2>. QED
    BY <2>1, <2>2, <2>3 DEF LogInv
<1>. QED
  BY <1>1, <1>2, <1>3, <1>4, <1>5, LogSteps
-----------------------------------------------------------------------------
(* The other variables of the service.                                     *)

Flags == db \in BOOLEAN /\ safe \in BOOLEAN /\ provisioned \in BOOLEAN

Amounts ==
    /\ privs \subseteq RoleSteps \cup {"views"}
    /\ global \subseteq Pools
    /\ version \in Nat /\ requests \in Nat /\ faults \in Nat

\* The three flags stay Boolean.
LEMMA FlagsNext == ASSUME Flags, [Next]_vars PROVE Flags'
<1>1. CASE UNCHANGED <<db, safe, provisioned>>
  BY <1>1, Zenon DEF Flags
<1>2. CASE Start
  <2>1. safe' \in BOOLEAN
    BY <1>2, ServiceAssumption, Zenon DEF Start
  <2>2. UNCHANGED <<db, provisioned>>
    BY <1>2 DEF Start
  <2>. QED
    BY <2>1, <2>2, Zenon DEF Flags
<1>3. CASE BootStep
  <2>1. provisioned' \in BOOLEAN
    BY <1>3, Zenon DEF BootStep
  <2>2. UNCHANGED <<db, safe>>
    BY <1>3 DEF BootStep
  <2>. QED
    BY <2>1, <2>2, Zenon DEF Flags
<1>4. CASE DbFails \/ DbReturns
  <2>1. db' \in BOOLEAN
    BY <1>4, Zenon DEF DbFails, DbReturns
  <2>2. UNCHANGED <<safe, provisioned>>
    BY <1>4 DEF DbFails, DbReturns
  <2>. QED
    BY <2>1, <2>2, Zenon DEF Flags
<1>5. CASE ServiceNext
  <2>1. CASE Boot
    BY <1>1, <1>2, <1>3, <2>1 DEF Boot, Connect, GiveUp, FileFails, RoleFails,
                                  Serve, dbVars
  <2>2. CASE \E t \in Threads : Arrive(t) \/ ThreadStep(t)
    BY <1>1, <2>2 DEF ThreadStep, Arrive, CheckPool, OpenPool, Work, NoEntry,
                      StoreEntry, dbVars
  <2>3. CASE Terminate \/ ClosePools \/ Exit \/ Kill
    BY <1>1, <2>3 DEF Terminate, ClosePools, Exit, Kill, dbVars
  <2>. QED
    BY <1>4, <1>5, <2>1, <2>2, <2>3 DEF ServiceNext
<1>6. CASE ~ServiceNext
  BY <1>1, <1>6 DEF Next, vars, service, dbVars, ServiceStep, FetchLogs,
                    FetchMap, ConnectWS, ReadTables, SendFrame, DropWS,
                    Receive, ReceiveMap, ReceiveFrame, ReceiveLogs, LoadPage,
                    AbandonPage, OpenAgain
<1>. QED
  BY <1>5, <1>6

\* A boot step grants no more than the role can hold.
LEMMA PrivsOfStep ==
    ASSUME privs \subseteq RoleSteps \cup {"views"}, NEW x
    PROVE  PrivsAfter(x) \subseteq RoleSteps \cup {"views"}
BY DEF PrivsAfter, RoleSteps

\* The amounts keep their types, and commits are never taken back.
LEMMA AmountsNext ==
    ASSUME Amounts, PoolInv, [Next]_vars
    PROVE  Amounts' /\ version <= version'
<1>0. version \in Nat /\ requests \in Nat /\ faults \in Nat
  BY DEF Amounts
<1>1. CASE UNCHANGED <<privs, global, version, requests, faults>>
  BY <1>0, <1>1 DEF Amounts
<1>2. CASE Start \/ Connect \/ GiveUp \/ Serve
  <2>1. CASE Start
    BY <1>1, <2>1 DEF Start, bounds
  <2>2. CASE Connect
    BY <1>0, <2>2 DEF Connect, bounds, dbVars, Amounts, PoolsAtBoot, Pools
  <2>3. CASE GiveUp \/ Serve
    BY <1>1, <2>3 DEF GiveUp, Serve, bounds, dbVars
  <2>. QED
    BY <1>2, <2>1, <2>2, <2>3
<1>3. CASE BootStep
  <2>1. /\ privs' = PrivsAfter(BootSteps[at])
        /\ UNCHANGED <<global, version, requests, faults>>
    BY <1>3 DEF BootStep, bounds
  <2>2. privs' \subseteq RoleSteps \cup {"views"}
    <3>. DEFINE x == BootSteps[at]
    <3>. HIDE DEF x
    <3>1. PrivsAfter(x) \subseteq RoleSteps \cup {"views"}
      BY PrivsOfStep DEF Amounts
    <3>. QED
      BY <2>1, <3>1 DEF x
  <2>. QED
    BY <1>0, <2>1, <2>2 DEF Amounts
<1>4. CASE FileFails
  BY <1>0, <1>4 DEF FileFails, Die, dbVars, Amounts
<1>5. CASE RoleFails
  BY <1>0, <1>5 DEF RoleFails, EndOfRole, dbVars, Amounts
<1>6. ASSUME NEW t \in Threads, Arrive(t)
      PROVE  Amounts' /\ version <= version'
  BY <1>0, <1>6 DEF Arrive, Amounts, dbVars
<1>7. ASSUME NEW t \in Threads, ThreadStep(t)
      PROVE  Amounts' /\ version <= version'
  <2>1. CASE Work(t)
    BY <1>0, <2>1 DEF Work, Amounts, bounds
  <2>2. CASE OpenPool(t)
    <3>1. uses[t] \in Pools
      BY DEF PoolInv, ThreadsOK
    <3>. QED
      BY <1>0, <2>2, <3>1 DEF OpenPool, Amounts, dbVars, bounds
  <2>3. CASE CheckPool(t) \/ NoEntry(t) \/ StoreEntry(t)
    BY <1>1, <2>3 DEF CheckPool, NoEntry, StoreEntry, dbVars, bounds
  <2>. QED
    BY <1>7, <2>1, <2>2, <2>3 DEF ThreadStep
<1>8. CASE Terminate \/ ClosePools \/ Exit
  BY <1>0, <1>8 DEF Terminate, ClosePools, Exit, Die, dbVars, bounds, Amounts
<1>9. CASE Kill
  BY <1>0, <1>9 DEF Kill, Die, dbVars, Amounts
<1>10. CASE DbFails \/ DbReturns
  BY <1>0, <1>10 DEF DbFails, DbReturns, procVars, bounds, Amounts
<1>11. CASE DropWS
  BY <1>0, <1>11 DEF DropWS, procVars, dbVars, Amounts
<1>12. CASE ServiceNext
  BY <1>2, <1>3, <1>4, <1>5, <1>6, <1>7, <1>8, <1>9, <1>10, <1>12
     DEF ServiceNext, Boot
<1>13. CASE ~ServiceNext /\ ~DropWS
  BY <1>1, <1>13 DEF Next, vars, service, procVars, dbVars, bounds,
                     ServiceStep, FetchLogs, FetchMap, ConnectWS, ReadTables,
                     SendFrame, Receive, ReceiveMap, ReceiveFrame, ReceiveLogs,
                     LoadPage, AbandonPage, OpenAgain
<1>. QED
  BY <1>11, <1>12, <1>13
-----------------------------------------------------------------------------
(* The pools of the SQL Lab.                                               *)

\* Threads about to create a pool of the SQL Lab.
Openers == {t \in Threads : pc[t] = "open" /\ uses[t] = "ro"}

\* Each thread creates at most one: who is about to was there before the
\* first pool was, and creates none again.
LabPools ==
    /\ open["ro"] \in Nat
    /\ phase # "closed" /\ "ro" \notin global => open["ro"] = 0
    /\ "ro" \in global => open["ro"] >= 1
    /\ open["ro"] + Cardinality(Openers) <= Cardinality(Threads)

\* Sets of threads are finite.
LEMMA CountThreads ==
    /\ Cardinality(Threads) \in Nat \ {0}
    /\ \A S \in SUBSET Threads :
          /\ IsFiniteSet(S) /\ Cardinality(S) \in Nat
          /\ Cardinality(S) <= Cardinality(Threads)
<1>1. IsFiniteSet(Threads) /\ Ticker \in Threads
  BY ServiceAssumption
<1>2. Cardinality(Threads) \in Nat /\ Cardinality(Threads) # 0
  BY <1>1, FS_CardinalityType, FS_EmptySet
<1>. QED
  BY <1>1, <1>2, FS_Subset, FS_CardinalityType

\* Each thread opens at most one pool of the SQL Lab.
LEMMA LabPoolsNext ==
    ASSUME LabPools, PoolInv, Amounts, [Next]_vars PROVE LabPools'
<1>1. /\ open["ro"] \in Nat /\ Openers \in SUBSET Threads
      /\ Openers' \in SUBSET Threads
  BY DEF LabPools, Openers
<1>2. /\ pc \in [Threads -> {"idle", "check", "open", "work", "store"}]
      /\ uses \in [Threads -> Pools] /\ open \in [Pools -> Int]
      /\ uses[Ticker] = "main"
  BY DEF PoolInv, ThreadsOK
<1>3. phase \in {"down", "wait", "closed"} => Openers = {}
  BY <1>2 DEF PoolInv, PoolInPhase, AllIdle, Openers
<1>4. ASSUME Openers' \subseteq Openers, open'["ro"] = open["ro"],
             "ro" \in global' <=> "ro" \in global,
             phase' # "closed" => phase # "closed"
      PROVE  LabPools'
  BY <1>1, <1>4, CountThreads, FS_Subset DEF LabPools
<1>5. ASSUME open'["ro"] = 0, "ro" \notin global'
      PROVE  LabPools'
  BY <1>1, <1>5, CountThreads DEF LabPools
<1>6. CASE UNCHANGED procVars
  BY <1>4, <1>6 DEF procVars, Openers
<1>7. CASE Start \/ GiveUp \/ BootStep \/ RoleFails \/ Serve
  BY <1>4, <1>7 DEF Start, GiveUp, BootStep, RoleFails, EndOfRole, Serve,
                    Openers
<1>8. CASE Connect
  BY <1>5, <1>8 DEF Connect, PoolsAtBoot, Pools
<1>9. CASE FileFails \/ Exit \/ Kill
  BY <1>5, <1>9 DEF FileFails, Exit, Kill, Die, Pools
<1>10. CASE Terminate
  BY <1>4, <1>10 DEF Terminate, Openers
<1>11. CASE ClosePools
  <2>1. /\ Openers' = Openers /\ global' = {} /\ phase' = "closed"
        /\ open'["ro"] = IF "ro" \in global THEN open["ro"] - 1
                        ELSE open["ro"]
    BY <1>11 DEF ClosePools, Openers, Pools
  <2>. QED
    BY <1>1, <2>1, CountThreads DEF LabPools
<1>12. ASSUME NEW t \in Threads, Arrive(t) \/ NoEntry(t) \/ StoreEntry(t)
       PROVE  LabPools'
  <2>1. pc'[t] # "open"
    BY <1>2, <1>12 DEF Arrive, NoEntry, StoreEntry
  <2>2. \A u \in Threads : u # t => pc'[u] = pc[u] /\ uses'[u] = uses[u]
    BY <1>2, <1>12 DEF Arrive, NoEntry, StoreEntry
  <2>3. Openers' \subseteq Openers
    BY <2>1, <2>2 DEF Openers
  <2>4. UNCHANGED <<open, global, phase>>
    BY <1>12 DEF Arrive, NoEntry, StoreEntry
  <2>. QED
    BY <1>4, <2>3, <2>4
<1>13. ASSUME NEW t \in Threads, Work(t)
       PROVE  LabPools'
  BY <1>2, <1>4, <1>13 DEF Work, Openers
<1>14. ASSUME NEW t \in Threads, CheckPool(t)
       PROVE  LabPools'
  <2>1. /\ UNCHANGED <<open, global, phase, uses>>
        /\ pc' = [pc EXCEPT ![t] = IF uses[t] \in global
                                   THEN "work" ELSE "open"]
    BY <1>14 DEF CheckPool
  <2>2. CASE uses[t] \in global \/ uses[t] = "main"
    <3>1. Openers' \subseteq Openers
      BY <1>2, <2>1, <2>2 DEF Openers
    <3>. QED
      BY <1>4, <2>1, <3>1
  <2>3. CASE uses[t] \notin global /\ uses[t] = "ro"
    <3>1. phase # "closed"
      BY <1>2, <1>14, <2>3 DEF PoolInv, PoolInPhase, CheckPool
    <3>. QED
      BY <1>5, <2>1, <2>3, <3>1 DEF LabPools
  <2>. QED
    BY <1>2, <2>2, <2>3 DEF Pools
<1>15. ASSUME NEW t \in Threads, OpenPool(t)
       PROVE  LabPools'
  <2>1. /\ pc[t] = "open" /\ pc' = [pc EXCEPT ![t] = "work"]
        /\ global' = global \cup {uses[t]}
        /\ open' = [open EXCEPT ![uses[t]] = @ + 1]
        /\ UNCHANGED <<phase, uses>>
    BY <1>15 DEF OpenPool
  <2>2. CASE uses[t] = "main"
    <3>1. Openers' = Openers /\ open'["ro"] = open["ro"]
      BY <1>2, <2>1, <2>2 DEF Openers
    <3>. QED
      BY <1>4, <2>1, <2>2, <3>1
  <2>3. CASE uses[t] = "ro"
    <3>1. t \in Openers /\ Openers' = Openers \ {t}
      BY <1>2, <2>1, <2>3 DEF Openers
    <3>2. open'["ro"] = open["ro"] + 1 /\ "ro" \in global'
      BY <1>2, <2>1, <2>3 DEF Pools
    <3>3. Cardinality(Openers') = Cardinality(Openers) - 1
      BY <1>1, <3>1, CountThreads, FS_RemoveElement
    <3>. QED
      BY <1>1, <3>2, <3>3, CountThreads DEF LabPools
  <2>. QED
    BY <1>2, <2>2, <2>3 DEF Pools
<1>16. CASE DbFails \/ DbReturns
  BY <1>6, <1>16 DEF DbFails, DbReturns
<1>. QED
  BY <1>6, <1>7, <1>8, <1>9, <1>10, <1>11, <1>12, <1>13, <1>14, <1>15, <1>16,
     StepsOfService DEF ServiceNext, Boot, ThreadStep
-----------------------------------------------------------------------------
(* The browser.                                                            *)

BrowserInv ==
    /\ page \in {"loading", "live", "unreachable"}
    /\ logReply \in [Slots -> Reply \cup {Nothing}]
    /\ mapReply \in 0..version \cup {Nothing}
    /\ ws \in {"closed", "idle", "read"}
    /\ read \in 0..version /\ map \in 0..version
    /\ wire # Nothing => wire.traffic \in 0..version /\ wire.logs \in Reply
    /\ shown \subseteq Entry /\ IsFiniteSet(shown)
    /\ CountedOnce

\* What the log sends is never more than was asked for.
LEMMA NewestReply == ASSUME LogInv PROVE Newest \in Reply
<1>. DEFINE T == {e \in Range(entries) : e.id > 0}
            q == Selected(entries, T)
            n == Len(q)
            m == IF n - Limit + 1 > 1 THEN n - Limit + 1 ELSE 1
<1>1. q \in Log
  BY SelectedLog DEF LogInv
<1>2. Newest = SubSeq(q, Max({1, n - Limit + 1}), n)
  BY DEF Newest, Snapshot, Later
<1>. HIDE DEF T, q
<1>3. n \in Nat /\ Limit \in Nat \ {0}
  BY <1>1, DashboardAssumption DEF Log
<1>. HIDE DEF n
<1>4. m \in 1..(n + 1) /\ n - m + 1 <= Limit
  BY <1>3
<1>5. Max({1, n - Limit + 1}) = m
  BY <1>3 DEF Max
<1>. HIDE DEF m
<1>6. SubSeq(q, m, n) \in Reply
  BY <1>1, <1>4, PartOfLog DEF n
<1>. QED
  BY <1>2, <1>5, <1>6

\* Entries are shown and counted together, those whose ids are new.
LEMMA Appended ==
    ASSUME BrowserInv, NEW es \in Reply, AppendLogs(es)
    PROVE  shown' \subseteq Entry /\ IsFiniteSet(shown') /\ CountedOnce'
<1>. DEFINE T == {e \in Range(es) : e.id \notin SeenIds}
            f == Fresh(es)
            R == Range(f)
<1>1. f \in Log /\ \A i \in 1..Len(f) : f[i] \in T
  BY SelectedLog DEF Fresh, Reply
<1>2. shown' = shown \cup R /\ logTotal' = logTotal + Len(f)
  BY DEF AppendLogs
<1>3. \A i \in 1..Len(f) : f[i].id \notin SeenIds
  BY <1>1
<1>. HIDE DEF T, f
<1>4. /\ IsFiniteSet(R) /\ Cardinality(R) = Len(f) /\ R \subseteq Entry
      /\ R = {f[i] : i \in 1..Len(f)} /\ Len(f) \in Nat
  <2>1. /\ IsFiniteSet(R) /\ Cardinality(R) = Len(f) /\ R \subseteq Entry
        /\ R = {f[i] : i \in 1..Len(f)}
    BY <1>1, CountOfLog, Zenon
  <2>2. Len(f) \in Nat
    BY <1>1 DEF Log
  <2>. QED
    BY <2>1, <2>2, Zenon
<1>. HIDE DEF R
<1>5. /\ IsFiniteSet(shown) /\ shown \subseteq Entry
      /\ logTotal = Cardinality(shown)
      /\ \A d, e \in shown : d.id = e.id => d = e
  BY Zenon DEF BrowserInv, CountedOnce
<1>6. \A e \in R : \E i \in 1..Len(f) : e = f[i]
  BY <1>4, Zenon
<1>7. \A d, e \in shown' : d.id = e.id => d = e
  <2>1. \A d \in shown, e \in R : d.id # e.id
    <3>. SUFFICES ASSUME NEW d \in shown, NEW e \in R PROVE d.id # e.id
      BY Zenon
    <3>1. e.id \notin SeenIds
      BY <1>3, <1>6, Zenon
    <3>2. d.id \in SeenIds
      BY Zenon DEF SeenIds
    <3>. QED
      BY <3>1, <3>2, Zenon
  <2>2. \A d, e \in R : d.id = e.id => d = e
    <3>. SUFFICES ASSUME NEW d \in R, NEW e \in R, d.id = e.id PROVE d = e
      BY Zenon
    <3>1. PICK i \in 1..Len(f) : d = f[i]
      BY <1>6, Zenon
    <3>2. PICK j \in 1..Len(f) : e = f[j]
      BY <1>6, Zenon
    <3>3. Distinct(f)
      BY <1>1, Zenon DEF Log
    <3>. QED
      BY <3>1, <3>2, <3>3, Zenon DEF Distinct
  <2>. QED
    BY <1>2, <1>5, <2>1, <2>2, Zenon
<1>8. shown \cap R = {}
  <2>. SUFFICES ASSUME NEW e \in shown, e \in R PROVE FALSE
    BY Zenon
  <2>1. e.id \notin SeenIds
    BY <1>3, <1>6, Zenon
  <2>2. e.id \in SeenIds
    BY Zenon DEF SeenIds
  <2>. QED
    BY <2>1, <2>2, Zenon
<1>9. /\ IsFiniteSet(shown')
      /\ Cardinality(shown') = Cardinality(shown) + Cardinality(R)
  <2>1. /\ IsFiniteSet(shown \cup R)
        /\ Cardinality(shown \cup R) = Cardinality(shown) + Cardinality(R)
                                       - Cardinality(shown \cap R)
    BY <1>4, <1>5, FS_Union, Zenon
  <2>2. Cardinality(shown \cap R) = 0
    BY <1>8, FS_EmptySet, Zenon
  <2>3. Cardinality(shown) \in Nat /\ Cardinality(R) \in Nat
    BY <1>4, <1>5, FS_CardinalityType, Zenon
  <2>4. shown' = shown \cup R
    BY <1>2
  <2>. DEFINE U == shown \cup R
  <2>. HIDE DEF U
  <2>5. IsFiniteSet(U) /\ Cardinality(U) = Cardinality(shown) + Cardinality(R)
    BY <2>1, <2>2, <2>3 DEF U
  <2>. QED
    BY <2>4, <2>5 DEF U
<1>10. logTotal' = Cardinality(shown')
  BY <1>2, <1>4, <1>5, <1>9, Zenon
<1>11. shown' \subseteq Entry
  BY <1>2, <1>4, <1>5, Zenon
<1>. QED
  BY <1>7, <1>9, <1>10, <1>11 DEF CountedOnce

\* What is on its way to the browser, or there, stays well formed.
LEMMA BrowserNext ==
    ASSUME BrowserInv, LogInv, Amounts, PoolInv, [Next]_vars
    PROVE  BrowserInv'
<1>1. version \in Nat /\ version' \in Nat /\ version <= version'
  BY AmountsNext DEF Amounts
<1>2. 0..version \subseteq 0..version' /\ 0 \in 0..version'
  BY <1>1
<1>3. CASE UNCHANGED browser
  BY <1>2, <1>3 DEF browser, feeds, BrowserInv, CountedOnce
<1>4. ASSUME UNCHANGED <<page, logReply, mapReply, wire, shown, logTotal, map>>,
             ws' \in {"closed", "idle", "read"}, read' \in 0..version'
      PROVE  BrowserInv'
  BY <1>2, <1>4 DEF BrowserInv, CountedOnce
<1>5. CASE ServiceStep \/ ConnectWS \/ ReadTables
  <2>1. UNCHANGED <<page, logReply, mapReply, wire, shown, logTotal, map>>
    BY <1>5 DEF ServiceStep, ConnectWS, ReadTables
  <2>2. ws' \in {"closed", "idle", "read"}
    BY <1>5 DEF ServiceStep, ConnectWS, ReadTables, BrowserInv
  <2>3. read' \in 0..version'
    BY <1>1, <1>2, <1>5 DEF ServiceStep, ConnectWS, ReadTables, BrowserInv,
                            service, dbVars
  <2>. QED
    BY <1>4, <2>1, <2>2, <2>3
<1>6. CASE DropWS
  BY <1>2, <1>6 DEF DropWS, dbVars, BrowserInv, CountedOnce
<1>7. ASSUME NEW i \in Slots, FetchLogs(i)
      PROVE  BrowserInv'
  <2>1. /\ UNCHANGED <<page, mapReply, ws, read, wire, shown, logTotal, map,
                     version>>
        /\ logReply' = [logReply EXCEPT ![i] = Newest]
    BY <1>7 DEF FetchLogs, service, dbVars
  <2>2. logReply' \in [Slots -> Reply \cup {Nothing}]
    BY <2>1, NewestReply DEF BrowserInv
  <2>. QED
    BY <2>1, <2>2 DEF BrowserInv, CountedOnce
<1>8. ASSUME NEW i \in Slots, ReceiveLogs(i)
      PROVE  BrowserInv'
  <2>1. /\ UNCHANGED <<page, mapReply, ws, read, wire, map, version>>
        /\ logReply' = [logReply EXCEPT ![i] = Nothing]
        /\ AppendLogs(logReply[i]) /\ logReply[i] \in Reply
    BY <1>8 DEF ReceiveLogs, service, dbVars, BrowserInv
  <2>2. logReply' \in [Slots -> Reply \cup {Nothing}]
    BY <2>1 DEF BrowserInv
  <2>3. shown' \subseteq Entry /\ IsFiniteSet(shown') /\ CountedOnce'
    BY <2>1, Appended
  <2>. QED
    BY <2>1, <2>2, <2>3 DEF BrowserInv
<1>9. CASE FetchMap \/ ReceiveMap
  <2>1. /\ UNCHANGED <<page, logReply, ws, read, wire, shown, logTotal,
                     version>>
        /\ mapReply' \in 0..version \cup {Nothing} /\ map' \in 0..version
    BY <1>1, <1>9 DEF FetchMap, ReceiveMap, service, dbVars, BrowserInv
  <2>. QED
    BY <2>1 DEF BrowserInv, CountedOnce
<1>10. CASE SendFrame
  <2>1. /\ UNCHANGED <<page, logReply, mapReply, shown, logTotal, map, version>>
        /\ ws' = "idle" /\ read' = 0
        /\ wire' = [traffic |-> read, logs |-> Newest]
    BY <1>10 DEF SendFrame, service, dbVars
  <2>2. wire'.traffic \in 0..version /\ wire'.logs \in Reply
    BY <2>1, NewestReply DEF BrowserInv
  <2>. QED
    BY <1>2, <2>1, <2>2 DEF BrowserInv, CountedOnce
<1>11. CASE ReceiveFrame
  <2>1. /\ UNCHANGED <<page, logReply, mapReply, ws, read, version>>
        /\ wire' = Nothing /\ map' \in 0..version
        /\ AppendLogs(wire.logs) /\ wire.logs \in Reply
    BY <1>11 DEF ReceiveFrame, service, dbVars, BrowserInv
  <2>2. shown' \subseteq Entry /\ IsFiniteSet(shown') /\ CountedOnce'
    BY <2>1, Appended
  <2>. QED
    BY <2>1, <2>2 DEF BrowserInv
<1>12. CASE LoadPage
  <2>1. /\ UNCHANGED <<logReply, mapReply, ws, read, wire, map, version>>
        /\ page' = "live"
        /\ AppendLogs(Newest) \/ UNCHANGED <<shown, logTotal>>
    BY <1>12 DEF LoadPage, service, dbVars
  <2>2. shown' \subseteq Entry /\ IsFiniteSet(shown') /\ CountedOnce'
    <3>1. CASE AppendLogs(Newest)
      BY <3>1, NewestReply, Appended
    <3>2. CASE UNCHANGED <<shown, logTotal>>
      BY <3>2 DEF BrowserInv, CountedOnce
    <3>. QED
      BY <2>1, <3>1, <3>2
  <2>. QED
    BY <2>1, <2>2 DEF BrowserInv
<1>13. CASE AbandonPage \/ OpenAgain
  <2>1. UNCHANGED feeds /\ version' = version
        /\ page' \in {"loading", "unreachable"}
    BY <1>13 DEF AbandonPage, OpenAgain, service, dbVars
  <2>. QED
    BY <2>1 DEF feeds, BrowserInv, CountedOnce
<1>. QED
  BY <1>3, <1>5, <1>6, <1>7, <1>8, <1>9, <1>10, <1>11, <1>12, <1>13
     DEF Next, Receive, vars
-----------------------------------------------------------------------------
(* Together.                                                               *)

ReadersInv ==
    /\ PoolInv /\ LabInv /\ LogInv /\ Flags /\ Amounts /\ LabPools
    /\ BrowserInv

\* What the readers rest on holds in every reachable state.
LEMMA ReadersInvariant == Spec => []ReadersInv
<1>1. Init => ReadersInv
  <2>. SUFFICES ASSUME Init PROVE ReadersInv
    OBVIOUS
  <2>1. PoolInv
    BY ServiceAssumption DEF Init, ServiceInit, PoolInv, ThreadsOK,
       PoolInPhase, AllIdle, NobodyOpens, Pools
  <2>2. LabInv
    BY DEF Init, ServiceInit, LabInv
  <2>3. LogInv
    <3>1. entries = <<>> /\ Len(entries) = 0 /\ entries \in Log
      BY DEF Init, ServiceInit, LogInit, Log, Distinct
    <3>2. 0 <= MaxEntries
      BY RingAssumption
    <3>. QED
      BY <3>1, <3>2 DEF Init, ServiceInit, LogInit, LogInv
  <2>4. Flags
    BY Zenon DEF Init, ServiceInit, Flags
  <2>5. Amounts
    BY DEF Init, ServiceInit, Amounts
  <2>6. LabPools
    <3>1. Openers = {} /\ open["ro"] = 0 /\ global = {}
      BY DEF Init, ServiceInit, Openers, Pools
    <3>. QED
      BY <3>1, CountThreads, FS_EmptySet DEF LabPools
  <2>7. BrowserInv
    <3>1. version = 0 /\ shown = {} /\ logTotal = 0
      BY DEF Init, ServiceInit
    <3>2. CountedOnce /\ IsFiniteSet(shown)
      BY <3>1, FS_EmptySet DEF CountedOnce
    <3>. QED
      BY <3>1, <3>2 DEF Init, BrowserInv
  <2>. QED
    BY <2>1, <2>2, <2>3, <2>4, <2>5, <2>6, <2>7 DEF ReadersInv
<1>2. ReadersInv /\ [Next]_vars => ReadersInv'
  BY PoolNext, LabNext, LogNext, FlagsNext, AmountsNext, LabPoolsNext,
     BrowserNext DEF ReadersInv
<1>. QED
  BY <1>1, <1>2, PTL DEF Spec

\* The states of the service, of the replies under way and of the browser
\* have the types that Dashboard declares: the ring never overflows, a reply
\* or a frame has no more entries than were asked for, no traffic is drawn
\* that was not committed, and there are never more pools of a kind than
\* threads (querylog.py:26-40, main.py:76-92, database.py:119-127).
THEOREM TypeCorrect == Spec => []TypeOK
<1>1. ReadersInv => TypeOK
  <2>. SUFFICES ASSUME ReadersInv PROVE TypeOK
    OBVIOUS
  <2>1. LogTypeOK
    BY DEF ReadersInv, LogInv, Log, LogTypeOK
  <2>2. open \in [Pools -> 0..Cardinality(Threads)]
    <3>1. open \in [Pools -> Int] /\ open["main"] \in 0..1
      BY DEF ReadersInv, PoolInv, ThreadsOK, PoolInPhase
    <3>2. Cardinality(Openers) \in Nat
      BY CountThreads DEF Openers
    <3>3. open["ro"] \in 0..Cardinality(Threads)
      BY <3>2, CountThreads DEF ReadersInv, LabPools
    <3>4. open["main"] \in 0..Cardinality(Threads)
      BY <3>1, CountThreads
    <3>. QED
      BY <3>1, <3>3, <3>4 DEF Pools
  <2>3. /\ phase \in {"down", "wait", "boot", "serving", "draining", "closed"}
        /\ pc \in [Threads -> {"idle", "check", "open", "work", "store"}]
        /\ uses \in [Threads -> Pools]
    BY DEF ReadersInv, PoolInv, ThreadsOK, PoolInPhase
  <2>4. at \in 1..Len(BootSteps) + 1
    BY Steps DEF ReadersInv, LabInv
  <2>5. ServiceTypeOK
    BY <2>1, <2>2, <2>3, <2>4, Zenon DEF ReadersInv, Flags, Amounts,
                                         ServiceTypeOK
  <2>6. \A i \in Slots : logReply[i] # Nothing => Len(logReply[i]) <= Limit
    BY DEF ReadersInv, BrowserInv, Reply
  <2>. QED
    BY <2>5, <2>6 DEF ReadersInv, BrowserInv, TypeOK
<1>. QED
  BY <1>1, ReadersInvariant, PTL

\* Every entry that the terminal shows is counted once and no id is shown
\* twice, for any threads that log, any number of replies under way and
\* any restarts of the API in between (app.js:211-232).
THEOREM EntriesCountedOnce == Spec => []CountedOnce
<1>1. ReadersInv => CountedOnce
  BY DEF ReadersInv, BrowserInv
<1>. QED
  BY <1>1, ReadersInvariant, PTL
=============================================================================
