------------------------------- MODULE Lemmas -------------------------------
(***************************************************************************)
(* Induction on natural numbers with a set in place of a predicate, and    *)
(* what it yields: a function defined by recursion exists and is the only  *)
(* one of its kind.  With these, what Selected returns.                    *)
(***************************************************************************)
EXTENDS Selection, Integers, Sequences, FiniteSets, NaturalsInduction,
        SequenceTheorems, WellFoundedInduction, TLAPS

\* A set of natural numbers that is not empty has a least element.
LEMMA LeastOf ==
    ASSUME NEW T \in SUBSET Nat, T # {}
    PROVE  \E m \in T : \A i \in T : m <= i
<1>. DEFINE R == OpToRel(<, Nat)
<1>1. IsWellFoundedOn(R, Nat)
  BY NatLessThanWellFounded
<1>. HIDE DEF R
<1>2. PICK m \in T : \A i \in T : <<i, m>> \notin R
  BY <1>1, WFMin
<1>3. \A i \in T : ~(i < m)
  BY <1>2 DEF R, OpToRel
<1>. QED
  BY <1>3

\* What holds of 0, and of each number's successor, holds of all of them.
LEMMA Induct ==
    ASSUME NEW T \in SUBSET Nat, 0 \in T, \A i \in T : i + 1 \in T
    PROVE  T = Nat
<1>. SUFFICES ASSUME Nat \ T # {} PROVE FALSE
  OBVIOUS
<1>1. PICK m \in Nat \ T : \A i \in Nat \ T : m <= i
  BY LeastOf
<1>2. m # 0 /\ m - 1 \in Nat /\ ~(m <= m - 1)
  OBVIOUS
<1>3. m - 1 \in T
  BY <1>1, <1>2
<1>4. (m - 1) + 1 \in T
  BY <1>3
<1>. QED
  BY <1>4

\* Up to n only.
LEMMA InductTo ==
    ASSUME NEW n \in Nat, NEW T, 0 \in T,
           \A i \in 1..n : i - 1 \in T => i \in T
    PROVE  \A i \in 0..n : i \in T
<1>. DEFINE U == {i \in Nat : i <= n => i \in T}
<1>1. 0 \in U
  OBVIOUS
<1>2. \A i \in U : i + 1 \in U
  <2>. SUFFICES ASSUME NEW i \in U, i + 1 <= n PROVE i + 1 \in T
    OBVIOUS
  <2>1. i + 1 \in 1..n /\ (i + 1) - 1 = i /\ i \in T
    OBVIOUS
  <2>. QED
    BY <2>1
<1>3. U = Nat
  <2>. HIDE DEF U
  <2>1. U \in SUBSET Nat
    BY DEF U
  <2>. QED
    BY <1>1, <1>2, <2>1, Induct
<1>. QED
  BY <1>3

\* g is base at 0, and step takes each of its values to the next, up to n.
Run(n, base, step, D, g) ==
    /\ g \in [0..n -> D] /\ g[0] = base
    /\ \A i \in 1..n : g[i] = step[<<i, g[i - 1]>>]

\* Each of n steps stays in D.
StaysIn(n, step, D) == \A i \in 1..n : \A d \in D : step[<<i, d>>] \in D

\* A run without an end.
Runs(base, step, D, f) ==
    /\ f \in [Nat -> D] /\ f[0] = base
    /\ \A i \in Nat \ {0} : f[i] = step[<<i, f[i - 1]>>]

\* Two runs agree as far as both go.
LEMMA RunsAgree ==
    ASSUME NEW D, NEW base, NEW step, NEW n \in Nat, NEW m \in Nat, n <= m,
           NEW g, NEW h, Run(n, base, step, D, g), Run(m, base, step, D, h)
    PROVE  \A i \in 0..n : g[i] = h[i]
<1>. DEFINE T == {i \in 0..n : g[i] = h[i]}
<1>1. 0 \in T
  BY DEF Run
<1>2. \A i \in 1..n : i - 1 \in T => i \in T
  <2>. TAKE i \in 1..n
  <2>1. i \in 1..m /\ i \in 0..n
    OBVIOUS
  <2>. QED
    BY <2>1 DEF Run
<1>3. \A i \in 0..n : i \in T
  <2>. HIDE DEF T
  <2>. QED
    BY <1>1, <1>2, InductTo
<1>. QED
  BY <1>3

\* There is a run of every length.
LEMMA RunExists ==
    ASSUME NEW D, NEW base \in D, NEW n \in Nat, NEW step, StaysIn(n, step, D)
    PROVE  \E g : Run(n, base, step, D, g)
<1>. USE DEF StaysIn
<1>. DEFINE T == {i \in 0..n : \E g : Run(i, base, step, D, g)}
<1>1. 0 \in T
  <2>1. Run(0, base, step, D, [i \in 0..0 |-> base])
    BY DEF Run
  <2>. QED
    BY <2>1
<1>2. \A i \in 1..n : i - 1 \in T => i \in T
  <2>. SUFFICES ASSUME NEW i \in 1..n, i - 1 \in T
                PROVE  \E g : Run(i, base, step, D, g)
    OBVIOUS
  <2>1. PICK g : Run(i - 1, base, step, D, g)
    OBVIOUS
  <2>. DEFINE h == [j \in 0..i |-> IF j = i THEN step[<<i, g[i - 1]>>]
                                   ELSE g[j]]
  <2>2. i - 1 \in 0..(i - 1) /\ g[i - 1] \in D
    BY <2>1 DEF Run
  <2>3. h \in [0..i -> D]
    <3>1. \A j \in 0..i : j = i \/ j \in 0..(i - 1)
      OBVIOUS
    <3>. QED
      BY <2>1, <2>2, <3>1 DEF Run
  <2>4. h[0] = base
    BY <2>1 DEF Run
  <2>5. \A j \in 1..i : h[j] = step[<<j, h[j - 1]>>]
    <3>. TAKE j \in 1..i
    <3>1. j \in 0..i /\ j - 1 \in 0..i /\ j - 1 # i
      OBVIOUS
    <3>2. CASE j = i
      BY <3>1, <3>2
    <3>3. CASE j # i
      <4>1. j \in 1..(i - 1)
        BY <3>3
      <4>. QED
        BY <2>1, <3>1, <3>3, <4>1 DEF Run
    <3>. QED
      BY <3>2, <3>3
  <2>. QED
    BY <2>3, <2>4, <2>5 DEF Run
<1>3. \A i \in 0..n : i \in T
  <2>. HIDE DEF T
  <2>. QED
    BY <1>1, <1>2, InductTo
<1>. QED
  BY <1>3

\* A function can be defined by recursion.
LEMMA Recursion ==
    ASSUME NEW D, NEW base \in D, NEW step, \A n \in Nat : StaysIn(n, step, D)
    PROVE  \E f : Runs(base, step, D, f)
<1>. DEFINE run == [n \in Nat |-> CHOOSE g : Run(n, base, step, D, g)]
            f == [n \in Nat |-> run[n][n]]
<1>1. \A n \in Nat : Run(n, base, step, D, run[n])
  <2>. TAKE n \in Nat
  <2>1. \E g : Run(n, base, step, D, g)
    BY RunExists
  <2>. QED
    BY <2>1
<1>. HIDE DEF run
<1>2. \A n \in Nat : n \in 0..n /\ f[n] = run[n][n] /\ run[n][n] \in D
  BY <1>1 DEF Run
<1>3. f \in [Nat -> D] /\ f[0] = base
  BY <1>1, <1>2 DEF Run
<1>4. \A i \in Nat \ {0} : f[i] = step[<<i, f[i - 1]>>]
  <2>. TAKE i \in Nat \ {0}
  <2>1. i \in 1..i /\ i - 1 \in Nat /\ i - 1 <= i /\ i - 1 \in 0..(i - 1)
    OBVIOUS
  <2>2. run[i - 1][i - 1] = run[i][i - 1]
    <3>. DEFINE j == i - 1
    <3>1. /\ j \in Nat /\ i \in Nat /\ j <= i /\ j \in 0..j
          /\ Run(j, base, step, D, run[j]) /\ Run(i, base, step, D, run[i])
      BY <1>1, <2>1
    <3>. HIDE DEF j
    <3>2. \A x \in 0..j : run[j][x] = run[i][x]
      <4>. DEFINE g == run[j]
                  h == run[i]
      <4>1. Run(j, base, step, D, g) /\ Run(i, base, step, D, h)
        BY <3>1
      <4>. HIDE DEF g, h
      <4>2. \A x \in 0..j : g[x] = h[x]
        BY <3>1, <4>1, RunsAgree
      <4>. QED
        BY <4>2 DEF g, h
    <3>. QED
      BY <3>1, <3>2 DEF j
  <2>. QED
    BY <1>1, <1>2, <2>1, <2>2 DEF Run
<1>. HIDE DEF f
<1>. QED
  BY <1>3, <1>4 DEF Runs
-----------------------------------------------------------------------------
(* Selected.                                                               *)

\* among[n] is what is selected from the first n elements of q.
Picks(S, q, T, among) ==
    /\ among \in [0..Len(q) -> Seq(S)] /\ among[0] = <<>>
    /\ \A n \in 1..Len(q) :
          among[n] = IF q[n] \in T THEN Append(among[n - 1], q[n])
                     ELSE among[n - 1]

\* Selected is the last of the sequences its recursion runs through.
LEMMA SelectedPicks ==
    ASSUME NEW S, NEW q \in Seq(S), NEW T
    PROVE  \E among : Picks(S, q, T, among)
                      /\ Selected(q, T) = among[Len(q)]
<1>. DEFINE n == Len(q)
            D == Seq(S)
            step == [x \in (1..n) \X D |->
                        IF q[x[1]] \in T THEN Append(x[2], q[x[1]])
                        ELSE x[2]]
<1>1. n \in Nat /\ <<>> \in D /\ \A i \in 1..n : q[i] \in S
  OBVIOUS
<1>2. \A i \in 1..n : \A d \in D :
         step[<<i, d>>] = IF q[i] \in T THEN Append(d, q[i]) ELSE d
  OBVIOUS
<1>3. StaysIn(n, step, D)
  <2>1. \A i \in 1..n : \A d \in D : Append(d, q[i]) \in D
    BY <1>1
  <2>. HIDE DEF step, D, n
  <2>2. \A i \in 1..n : \A d \in D : step[<<i, d>>] \in D
    <3>. TAKE i \in 1..n
    <3>. TAKE d \in D
    <3>1. step[<<i, d>>] = Append(d, q[i]) \/ step[<<i, d>>] = d
      BY <1>2
    <3>. QED
      BY <2>1, <3>1
  <2>. QED
    BY <2>2 DEF StaysIn
<1>. HIDE DEF step, D
<1>4. PICK g : Run(n, <<>>, step, D, g)
  <2>. HIDE DEF n
  <2>. QED
    BY <1>1, <1>3, RunExists
<1>5. g \in [0..n -> D] /\ g[0] = <<>>
  BY <1>4 DEF Run
<1>6. \A i \in 1..n :
         g[i] = IF q[i] \in T THEN Append(g[i - 1], q[i]) ELSE g[i - 1]
  <2>. TAKE i \in 1..n
  <2>1. i - 1 \in 0..n
    BY <1>1
  <2>2. g[i - 1] \in D
    BY <1>5, <2>1
  <2>3. g[i] = step[<<i, g[i - 1]>>]
    BY <1>4 DEF Run
  <2>. QED
    BY <1>2, <2>2, <2>3
<1>. DEFINE Solves(h) ==
        h = [i \in 0..n |->
                IF i = 0 THEN <<>>
                ELSE IF q[i] \in T THEN Append(h[i - 1], q[i])
                ELSE h[i - 1]]
<1>7. Solves(g)
  <2>1. \A i \in 0..n : i # 0 => i \in 1..n
    BY <1>1
  <2>. QED
    BY <1>5, <1>6, <2>1
<1>. DEFINE h == CHOOSE f : Solves(f)
<1>8. Solves(h)
  <2>. HIDE DEF Solves
  <2>. QED
    BY <1>7
<1>9. Selected(q, T) = h[n]
  BY DEF Selected
<1>. HIDE DEF h
<1>10. h[0] = <<>> /\ DOMAIN h = 0..n
  BY <1>1, <1>8
<1>11. \A i \in 1..n :
          h[i] = IF q[i] \in T THEN Append(h[i - 1], q[i]) ELSE h[i - 1]
  <2>1. \A i \in 1..n : i \in 0..n /\ i # 0
    BY <1>1
  <2>. QED
    BY <1>8, <2>1
<1>. HIDE DEF Solves
<1>12. \A i \in 0..n : h[i] \in D
  <2>. DEFINE U == {i \in 0..n : h[i] \in D}
  <2>1. 0 \in U
    BY <1>1, <1>10
  <2>2. \A i \in 1..n : i - 1 \in U => i \in U
    <3>. TAKE i \in 1..n
    <3>. HAVE i - 1 \in U
    <3>1. i \in 0..n /\ q[i] \in S
      BY <1>1
    <3>2. h[i] = Append(h[i - 1], q[i]) \/ h[i] = h[i - 1]
      BY <1>11
    <3>3. Append(h[i - 1], q[i]) \in D
      BY <3>1 DEF D
    <3>. QED
      BY <3>1, <3>2, <3>3
  <2>. HIDE DEF U
  <2>3. \A i \in 0..n : i \in U
    <3>. HIDE DEF n
    <3>. QED
      BY <1>1, <2>1, <2>2, InductTo
  <2>. QED
    BY <2>3 DEF U
<1>13. h \in [0..n -> D]
  <2>1. h = [i \in 0..n |-> h[i]]
    BY <1>8 DEF Solves
  <2>. QED
    BY <1>12, <2>1
<1>. QED
  BY <1>9, <1>10, <1>11, <1>13 DEF Picks, D

\* Increasing and complete: f gives the places of q that are selected into r.
Places(q, T, r, f) ==
    /\ f \in [1..Len(r) -> 1..Len(q)]
    /\ \A k \in 1..Len(r) : r[k] = q[f[k]] /\ r[k] \in T
    /\ \A j, k \in 1..Len(r) : j < k => f[j] < f[k]
    /\ \A i \in 1..Len(q) : q[i] \in T => \E k \in 1..Len(r) : f[k] = i

\* Selected keeps exactly the elements that are in T, in their order.
LEMMA SelectedPlaces ==
    ASSUME NEW S, NEW q \in Seq(S), NEW T
    PROVE  /\ Selected(q, T) \in Seq(S)
           /\ \E f : Places(q, T, Selected(q, T), f)
<1>1. PICK among : Picks(S, q, T, among) /\ Selected(q, T) = among[Len(q)]
  BY SelectedPicks
<1>. DEFINE n == Len(q)
            Upto(i, f) ==
                LET r == among[i] IN
                /\ f \in [1..Len(r) -> 1..i]
                /\ \A k \in 1..Len(r) : r[k] = q[f[k]] /\ r[k] \in T
                /\ \A j, k \in 1..Len(r) : j < k => f[j] < f[k]
                /\ \A m \in 1..i : q[m] \in T => \E k \in 1..Len(r) : f[k] = m
            U == {i \in 0..n : \E f : Upto(i, f)}
<1>2. n \in Nat /\ \A i \in 1..n : i \in 0..n /\ i - 1 \in 0..n /\ q[i] \in S
  OBVIOUS
<1>3. \A i \in 0..n : among[i] \in Seq(S) /\ Len(among[i]) \in Nat
  <2>1. \A r \in Seq(S) : Len(r) \in Nat
    OBVIOUS
  <2>2. among \in [0..n -> Seq(S)]
    BY <1>1 DEF Picks
  <2>. HIDE DEF n
  <2>3. \A i \in 0..n : among[i] \in Seq(S)
    BY <2>2
  <2>. QED
    BY <2>1, <2>3, Zenon
<1>4. 0 \in U
  <2>1. Len(among[0]) = 0
    BY <1>1 DEF Picks
  <2>2. Upto(0, [k \in 1..0 |-> 0]) /\ 0 \in 0..n
    BY <1>2, <2>1
  <2>. HIDE DEF Upto
  <2>. QED
    BY <2>2
<1>5. ASSUME NEW i \in 1..n, i - 1 \in U
      PROVE  i \in U
  <2>1. PICK f : Upto(i - 1, f)
    BY <1>5
  <2>. DEFINE r == among[i - 1]
              l == Len(r)
  <2>2. r \in Seq(S) /\ l \in Nat /\ i \in 0..n /\ q[i] \in S /\ i \in Nat
    BY <1>2, <1>3
  <2>3. \A m \in 1..i : m = i \/ m \in 1..(i - 1)
    BY <2>2
  <2>4. CASE q[i] \notin T
    <3>1. among[i] = r
      BY <1>1, <2>4 DEF Picks
    <3>2. f \in [1..l -> 1..i]
      BY <2>1, <2>2
    <3>3. Upto(i, f)
      BY <2>1, <2>3, <2>4, <3>1, <3>2
    <3>. HIDE DEF Upto
    <3>. QED
      BY <2>2, <3>3
  <2>5. CASE q[i] \in T
    <3>1. among[i] = Append(r, q[i])
      BY <1>1, <2>5 DEF Picks
    <3>2. /\ Len(among[i]) = l + 1 /\ among[i][l + 1] = q[i]
          /\ \A k \in 1..l : among[i][k] = r[k]
      BY <2>2, <3>1
    <3>. DEFINE g == [k \in 1..(l + 1) |-> IF k = l + 1 THEN i ELSE f[k]]
    <3>3. /\ f \in [1..l -> 1..(i - 1)]
          /\ \A k \in 1..l : r[k] = q[f[k]] /\ r[k] \in T
          /\ \A j, k \in 1..l : j < k => f[j] < f[k]
          /\ \A m \in 1..(i - 1) : q[m] \in T => \E k \in 1..l : f[k] = m
      BY <2>1
    <3>. HIDE DEF Upto, l, r
    <3>4. /\ \A k \in 1..(l + 1) : k = l + 1 \/ k \in 1..l
          /\ \A k \in 1..l : k # l + 1 /\ k \in 1..(l + 1) /\ k < l + 1
          /\ l + 1 \in 1..(l + 1)
      BY <2>2
    <3>5. g[l + 1] = i /\ \A k \in 1..l : g[k] = f[k] /\ g[k] \in 1..(i - 1)
      BY <3>3, <3>4
    <3>6. g \in [1..(l + 1) -> 1..i]
      <4>1. i \in 1..i /\ 1..(i - 1) \subseteq 1..i
        BY <2>2
      <4>2. \A k \in 1..(l + 1) : g[k] \in 1..i
        BY <3>4, <3>5, <4>1
      <4>. QED
        BY <4>2
    <3>. HIDE DEF g
    <3>7. \A k \in 1..(l + 1) : among[i][k] = q[g[k]] /\ among[i][k] \in T
      BY <2>5, <3>2, <3>3, <3>4, <3>5
    <3>8. \A j, k \in 1..(l + 1) : j < k => g[j] < g[k]
      <4>. SUFFICES ASSUME NEW j \in 1..(l + 1), NEW k \in 1..(l + 1), j < k
                    PROVE  g[j] < g[k]
        OBVIOUS
      <4>1. j \in 1..l
        BY <2>2, <3>4
      <4>2. CASE k = l + 1
        BY <2>2, <3>5, <4>1, <4>2
      <4>3. CASE k \in 1..l
        BY <3>3, <3>5, <4>1, <4>3
      <4>. QED
        BY <3>4, <4>2, <4>3
    <3>9. \A m \in 1..i : q[m] \in T => \E k \in 1..(l + 1) : g[k] = m
      <4>. SUFFICES ASSUME NEW m \in 1..i, q[m] \in T
                    PROVE  \E k \in 1..(l + 1) : g[k] = m
        OBVIOUS
      <4>1. CASE m = i
        BY <3>4, <3>5, <4>1
      <4>2. CASE m \in 1..(i - 1)
        <5>1. PICK k \in 1..l : f[k] = m
          BY <3>3, <4>2
        <5>. QED
          BY <3>4, <3>5, <5>1
      <4>. QED
        BY <2>3, <4>1, <4>2
    <3>10. Upto(i, g)
      BY <3>2, <3>6, <3>7, <3>8, <3>9 DEF Upto
    <3>. QED
      BY <2>2, <3>10
  <2>. QED
    BY <2>4, <2>5
<1>. HIDE DEF Upto
<1>6. \A i \in 0..n : i \in U
  <2>. HIDE DEF U, n
  <2>. QED
    BY <1>2, <1>4, <1>5, InductTo
<1>7. n \in 0..n
  BY <1>2
<1>8. PICK f : Upto(n, f)
  BY <1>6, <1>7
<1>9. Places(q, T, among[n], f)
  BY <1>8 DEF Upto, Places
<1>. QED
  BY <1>1, <1>3, <1>7, <1>9

\* Where everything is in T, everything is selected.
LEMMA SelectedAll ==
    ASSUME NEW S, NEW q \in Seq(S), NEW T, \A i \in 1..Len(q) : q[i] \in T
    PROVE  Selected(q, T) = q
<1>1. PICK among : Picks(S, q, T, among) /\ Selected(q, T) = among[Len(q)]
  BY SelectedPicks
<1>. DEFINE n == Len(q)
            Same(r, i) == Len(r) = i /\ \A k \in 1..i : r[k] = q[k]
            U == {i \in 0..n : Same(among[i], i)}
<1>2. n \in Nat /\ \A i \in 1..n : i \in 0..n /\ i - 1 \in 0..n /\ q[i] \in S
  OBVIOUS
<1>3. \A i \in 0..n : among[i] \in Seq(S) /\ Len(among[i]) \in Nat
  BY <1>1 DEF Picks
<1>4. 0 \in U
  BY <1>1, <1>2 DEF Picks
<1>5. ASSUME NEW i \in 1..n, i - 1 \in U
      PROVE  i \in U
  <2>1. among[i] = Append(among[i - 1], q[i])
    BY <1>1 DEF Picks
  <2>2. among[i - 1] \in Seq(S) /\ Len(among[i - 1]) = i - 1
        /\ \A k \in 1..(i - 1) : among[i - 1][k] = q[k]
    BY <1>2, <1>3, <1>5
  <2>3. \A k \in 1..i : k = i \/ k \in 1..(i - 1)
    BY <1>2
  <2>4. Len(among[i]) = i /\ among[i][i] = q[i]
        /\ \A k \in 1..(i - 1) : among[i][k] = q[k]
    BY <1>2, <2>1, <2>2
  <2>. QED
    BY <1>2, <2>3, <2>4
<1>6. \A i \in 0..n : i \in U
  <2>. HIDE DEF U, n
  <2>. QED
    BY <1>2, <1>4, <1>5, InductTo
<1>7. Same(among[n], n) /\ among[n] \in Seq(S)
  BY <1>2, <1>3, <1>6
<1>8. among[n] = q
  BY <1>2, <1>7, SeqEqual
<1>. QED
  BY <1>1, <1>8

\* Where only the first is not in T, the rest is selected.
LEMMA SelectedTail ==
    ASSUME NEW S, NEW q \in Seq(S), q # <<>>, NEW T, q[1] \notin T,
           \A i \in 2..Len(q) : q[i] \in T
    PROVE  Selected(q, T) = Tail(q)
<1>1. PICK among : Picks(S, q, T, among) /\ Selected(q, T) = among[Len(q)]
  BY SelectedPicks
<1>. DEFINE n == Len(q)
            Same(r, i) == /\ Len(r) = i - 1
                          /\ \A k \in 1..(i - 1) : r[k] = q[k + 1]
            U == {i \in 0..n : i # 0 => Same(among[i], i)}
<1>2. n \in Nat \ {0}
      /\ \A i \in 1..n : i \in 0..n /\ i - 1 \in 0..n /\ q[i] \in S
  BY EmptySeq
<1>3. \A i \in 0..n : among[i] \in Seq(S) /\ Len(among[i]) \in Nat
  BY <1>1 DEF Picks
<1>4. 0 \in U
  BY <1>2
<1>5. ASSUME NEW i \in 1..n, i - 1 \in U
      PROVE  i \in U
  <2>1. CASE i = 1
    <3>1. among[1] = <<>>
      BY <1>1, <2>1 DEF Picks
    <3>. QED
      BY <1>2, <2>1, <3>1
  <2>2. CASE i # 1
    <3>1. i \in 2..n /\ i - 1 # 0 /\ (i - 1) - 1 = i - 2
          /\ (i - 2) + 1 = i - 1 /\ (i - 1) + 1 = i
      BY <1>2, <2>2
    <3>2. among[i] = Append(among[i - 1], q[i])
      BY <1>1, <3>1 DEF Picks
    <3>3. among[i - 1] \in Seq(S) /\ Len(among[i - 1]) = i - 2
          /\ \A k \in 1..(i - 2) : among[i - 1][k] = q[k + 1]
      BY <1>2, <1>3, <1>5, <3>1
    <3>4. \A k \in 1..(i - 1) : k = i - 1 \/ k \in 1..(i - 2)
      BY <1>2
    <3>5. Len(among[i]) = i - 1 /\ among[i][i - 1] = q[i]
          /\ \A k \in 1..(i - 2) : among[i][k] = q[k + 1]
      BY <1>2, <3>1, <3>2, <3>3
    <3>. QED
      BY <1>2, <3>1, <3>4, <3>5
  <2>. QED
    BY <2>1, <2>2
<1>6. \A i \in 0..n : i \in U
  <2>. HIDE DEF U
  <2>1. n \in Nat /\ \A i \in 1..n : i - 1 \in U => i \in U
    BY <1>2, <1>5
  <2>. HIDE DEF n
  <2>. QED
    BY <1>4, <2>1, InductTo
<1>7. Same(among[n], n) /\ among[n] \in Seq(S)
  BY <1>2, <1>3, <1>6
<1>8. Tail(q) \in Seq(S) /\ Len(Tail(q)) = n - 1
      /\ \A k \in 1..(n - 1) : Tail(q)[k] = q[k + 1]
  BY HeadTailProperties
<1>9. among[n] = Tail(q)
  <2>. HIDE DEF n
  <2>. QED
    BY <1>2, <1>7, <1>8, SeqEqual
<1>. QED
  BY <1>1, <1>9
=============================================================================
