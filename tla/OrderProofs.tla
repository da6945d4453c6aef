---------------------------- MODULE OrderProofs ----------------------------
(***************************************************************************)
(* What the vector, the sort, the heap and the search tree of Library      *)
(* keep, for all values of the constants: an inductive invariant for each, *)
(* which is of interest only in behaviours that use this part.             *)
(***************************************************************************)
EXTENDS Library, ModuloFacts, FiniteSetTheorems

-----------------------------------------------------------------------------
(* The sort. *)

(* The items of a are those of b, in an order that leaves those outside of *)
(* the range where they are.                                               *)
Shuffled(a, b, D, range) ==
  \E f \in [D -> D] :
    /\ \A x, y \in D : f[x] = f[y] => x = y
    /\ \A y \in D : \E x \in D : f[x] = y
    /\ \A x \in D : x \notin range => f[x] = x
    /\ \A x \in D : x \in range => f[x] \in range
    /\ \A x \in D : a[x] = b[f[x]]

LEMMA ShuffledSame ==
  ASSUME NEW D, NEW range, NEW a
  PROVE  Shuffled(a, a, D, range)
<1> DEFINE f == [x \in D |-> x]
<1>1. f \in [D -> D] /\ \A x \in D : f[x] = x
  OBVIOUS
<1> HIDE DEF f
<1> QED BY <1>1 DEF Shuffled

LEMMA ShuffledAgain ==
  ASSUME NEW D, NEW range, NEW a, NEW b, NEW c, Shuffled(a, b, D, range), Shuffled(b, c, D, range)
  PROVE  Shuffled(a, c, D, range)
<1>1. PICK f \in [D -> D] :
        /\ \A x, y \in D : f[x] = f[y] => x = y
        /\ \A y \in D : \E x \in D : f[x] = y
        /\ \A x \in D : x \notin range => f[x] = x
        /\ \A x \in D : x \in range => f[x] \in range
        /\ \A x \in D : a[x] = b[f[x]]
  BY DEF Shuffled
<1>2. PICK g \in [D -> D] :
        /\ \A x, y \in D : g[x] = g[y] => x = y
        /\ \A y \in D : \E x \in D : g[x] = y
        /\ \A x \in D : x \notin range => g[x] = x
        /\ \A x \in D : x \in range => g[x] \in range
        /\ \A x \in D : b[x] = c[g[x]]
  BY DEF Shuffled
<1> DEFINE h == [x \in D |-> g[f[x]]]
<1>3. h \in [D -> D] /\ \A x \in D : f[x] \in D /\ h[x] = g[f[x]]
  OBVIOUS
<1> HIDE DEF h
<1>4. \A x, y \in D : h[x] = h[y] => x = y
  BY <1>1, <1>2, <1>3
<1>5. \A y \in D : \E x \in D : h[x] = y
  BY <1>1, <1>2, <1>3
<1>6. \A x \in D : /\ x \notin range => h[x] = x
                   /\ x \in range => h[x] \in range
                   /\ a[x] = c[h[x]]
  <2> SUFFICES ASSUME NEW x \in D
               PROVE  /\ x \notin range => h[x] = x
                      /\ x \in range => h[x] \in range
                      /\ a[x] = c[h[x]]
    OBVIOUS
  <2>1. f[x] \in D /\ h[x] = g[f[x]]
    BY <1>3
  <2>2. x \notin range => h[x] = x
    BY <1>1, <1>2, <2>1
  <2>3. x \in range => h[x] \in range
    BY <1>1, <1>2, <2>1
  <2>4. a[x] = c[h[x]]
    BY <1>1, <1>2, <2>1
  <2> QED BY <2>2, <2>3, <2>4
<1>7. \A x \in D : x \notin range => h[x] = x
  BY <1>6
<1>8. \A x \in D : x \in range => h[x] \in range
  BY <1>6
<1>9. \A x \in D : a[x] = c[h[x]]
  BY <1>6
<1> QED BY <1>3, <1>4, <1>5, <1>7, <1>8, <1>9, Zenon DEF Shuffled

LEMMA ShuffledWider ==
  ASSUME NEW D, NEW range, NEW a, NEW b, range \subseteq D, Shuffled(a, b, D, range)
  PROVE  Shuffled(a, b, D, D)
BY DEF Shuffled

AfterSwap(b, a, D, K, range, u, v) ==
  /\ b \in [D -> K] /\ b[u] = a[v] /\ b[v] = a[u]
  /\ \A x \in D : x # u /\ x # v => b[x] = a[x]
  /\ Shuffled(b, a, D, range)

LEMMA SwappedShuffled ==
  ASSUME NEW D, NEW K, NEW range, range \subseteq D, NEW a \in [D -> K],
         NEW u \in range, NEW v \in range
  PROVE  AfterSwap(Sort!Swapped(a, u, v), a, D, K, range, u, v)
<1> DEFINE b == Sort!Swapped(a, u, v)
           f == [x \in D |-> IF x = u THEN v ELSE IF x = v THEN u ELSE x]
<1>1. u \in D /\ v \in D
  OBVIOUS
<1>2. b \in [D -> K] /\ \A x \in D : b[x] = IF x = u THEN a[v] ELSE IF x = v THEN a[u] ELSE a[x]
  BY <1>1 DEF Sort!Swapped
<1>3. f \in [D -> D] /\ \A x \in D : f[x] = IF x = u THEN v ELSE IF x = v THEN u ELSE x
  BY <1>1
<1> HIDE DEF f, b
<1>4. /\ \A x, y \in D : f[x] = f[y] => x = y
      /\ \A y \in D : \E x \in D : f[x] = y
      /\ \A x \in D : x \notin range => f[x] = x
      /\ \A x \in D : x \in range => f[x] \in range
      /\ \A x \in D : b[x] = a[f[x]]
  <2>1. \A x, y \in D : f[x] = f[y] => x = y
    BY <1>3
  <2>2. \A y \in D : \E x \in D : f[x] = y
    <3> SUFFICES ASSUME NEW y \in D PROVE \E x \in D : f[x] = y
      OBVIOUS
    <3>1. f[f[y]] = y /\ f[y] \in D
      BY <1>1, <1>3
    <3> QED BY <3>1
  <2>3. \A x \in D : /\ x \notin range => f[x] = x
                     /\ x \in range => f[x] \in range
                     /\ b[x] = a[f[x]]
    BY <1>2, <1>3
  <2> QED BY <2>1, <2>2, <2>3
<1>5. Shuffled(b, a, D, range)
  BY <1>3, <1>4 DEF Shuffled
<1> QED BY <1>1, <1>2, <1>5 DEF b, AfterSwap

(* A shuffle keeps how often a key occurs. *)
Often(a, D, k) == Cardinality({x \in D : a[x] = k})

LEMMA ShuffledCounts ==
  ASSUME NEW D, NEW range, NEW a, NEW b, IsFiniteSet(D), Shuffled(a, b, D, range), NEW k
  PROVE  Often(a, D, k) = Often(b, D, k)
<1>1. PICK f \in [D -> D] :
        /\ \A x, y \in D : f[x] = f[y] => x = y
        /\ \A y \in D : \E x \in D : f[x] = y
        /\ \A x \in D : a[x] = b[f[x]]
  BY DEF Shuffled
<1> DEFINE S == {x \in D : a[x] = k}
           T == {x \in D : b[x] = k}
           g == [x \in S |-> f[x]]
<1>2. IsFiniteSet(T)
  BY FS_Subset
<1>3. g \in [S -> T] /\ \A x, y \in S : g[x] = g[y] => x = y
  BY <1>1
<1>4. \A t \in T : \E x \in S : g[x] = t
  <2> SUFFICES ASSUME NEW t \in T PROVE \E x \in S : f[x] = t
    OBVIOUS
  <2> QED BY <1>1
<1> HIDE DEF g, S, T
<1>5. Cardinality(S) = Cardinality(T)
  BY <1>2, <1>3, <1>4, SameCount
<1> QED BY <1>5 DEF S, T, Often

-----------------------------------------------------------------------------
(* What holds between two comparisons: the items before i are not greater  *)
(* than the pivot, and those behind j not less.                            *)
Between(s, item, D, first, last) ==
  /\ s \in [item : [D -> Keys], i : first .. last, j : first .. last, m : first .. last]
  /\ s.i <= s.m /\ s.m <= s.j
  /\ \A x \in first .. s.i - 1 : s.item[x] <= s.item[s.m]
  /\ \A x \in s.j + 1 .. last : s.item[s.m] <= s.item[x]
  /\ Shuffled(s.item, item, D, first .. last)

(* The comparisons that are left, at most: two may swap before i or j is   *)
(* moved on.                                                               *)
Swaps(s) ==
  IF s.i < s.m THEN (IF s.item[s.i] > s.item[s.m] THEN 2 ELSE 0)
  ELSE IF s.item[s.m] > s.item[s.j] THEN 1 ELSE 0
Comparisons(s) == 3 * (s.j - s.i) + Swaps(s)

LEMMA SortConstants == Keys \subseteq Int /\ MaxLen \in Nat /\ MaxLen # 0
BY LibraryAssumption DEF Sort!SortAssumption

LEMMA ComparedBetween ==
  ASSUME NEW n \in Nat, NEW D, D = 0 .. n - 1, NEW first \in D, NEW last \in D, NEW item,
         NEW s, Between(s, item, D, first, last), s.i < s.j,
         NEW t, t = Sort!Compared(s)
  PROVE  Between(t, item, D, first, last) /\ Comparisons(t) < Comparisons(s)
<1> DEFINE range == first .. last
<1>1. /\ s.item \in [D -> Keys] /\ s.i \in range /\ s.j \in range /\ s.m \in range
      /\ s = [item |-> s.item, i |-> s.i, j |-> s.j, m |-> s.m]
  BY DEF Between
<1>2. /\ s.i <= s.m /\ s.m <= s.j
      /\ \A x \in first .. s.i - 1 : s.item[x] <= s.item[s.m]
      /\ \A x \in s.j + 1 .. last : s.item[s.m] <= s.item[x]
      /\ Shuffled(s.item, item, D, range)
  BY DEF Between
<1>3. range \subseteq D /\ range \subseteq Int /\ first \in Int /\ last \in Int
  OBVIOUS
<1>4. \A x \in D : s.item[x] \in Int
  BY <1>1, SortConstants
<1>5. s.i \in Int /\ s.j \in Int /\ s.m \in Int /\ s.i \in D /\ s.j \in D /\ s.m \in D
  BY <1>1, <1>3
<1>6. first <= s.i /\ s.i <= last /\ first <= s.m /\ s.m <= last /\ first <= s.j /\ s.j <= last
  BY <1>1, <1>3, <1>5
<1>7. CASE s.i < s.m /\ s.item[s.i] > s.item[s.m]
  <2> DEFINE b == Sort!Swapped(s.item, s.i, s.m)
  <2>1. /\ b \in [D -> Keys] /\ b[s.i] = s.item[s.m] /\ b[s.m] = s.item[s.i]
        /\ \A x \in D : x # s.i /\ x # s.m => b[x] = s.item[x]
        /\ Shuffled(b, s.item, D, range)
    <3>1. AfterSwap(b, s.item, D, Keys, range, s.i, s.m)
      BY <1>1, <1>3, SwappedShuffled, Zenon
    <3> QED BY <3>1 DEF AfterSwap
  <2>2. t = [item |-> b, i |-> s.i, j |-> s.j, m |-> s.i]
    BY <1>1, <1>7 DEF Sort!Compared
  <2> HIDE DEF b
  <2>3. Shuffled(b, item, D, range)
    BY <1>2, <2>1, ShuffledAgain, Zenon
  <2>4. \A x \in first .. s.i - 1 : b[x] <= b[s.i]
    <3> SUFFICES ASSUME NEW x \in first .. s.i - 1 PROVE b[x] <= b[s.i]
      OBVIOUS
    <3>1. x \in D /\ x # s.i /\ x # s.m
      BY <1>2, <1>3, <1>5, <1>6, <1>7
    <3> QED BY <1>2, <2>1, <3>1
  <2>5. \A x \in s.j + 1 .. last : b[s.i] <= b[x]
    <3> SUFFICES ASSUME NEW x \in s.j + 1 .. last PROVE b[s.i] <= b[x]
      OBVIOUS
    <3>1. x \in D /\ x # s.i /\ x # s.m
      BY <1>2, <1>3, <1>5, <1>6, <1>7
    <3> QED BY <1>2, <2>1, <3>1
  <2>6. Between(t, item, D, first, last)
    BY <1>1, <1>2, <1>5, <2>1, <2>2, <2>3, <2>4, <2>5 DEF Between
  <2>7. Swaps(s) = 2 /\ (Swaps(t) = 0 \/ Swaps(t) = 1)
    BY <1>5, <1>7, <2>2 DEF Swaps
  <2> QED BY <1>5, <2>2, <2>6, <2>7 DEF Comparisons
<1>8. CASE s.i < s.m /\ ~(s.item[s.i] > s.item[s.m])
  <2>1. t = [item |-> s.item, i |-> s.i + 1, j |-> s.j, m |-> s.m]
    BY <1>1, <1>8 DEF Sort!Compared
  <2>2. s.i + 1 \in range /\ s.i + 1 <= s.m
    BY <1>5, <1>6, <1>8
  <2>3. \A x \in first .. (s.i + 1) - 1 : s.item[x] <= s.item[s.m]
    <3> SUFFICES ASSUME NEW x \in first .. (s.i + 1) - 1 PROVE s.item[x] <= s.item[s.m]
      OBVIOUS
    <3>1. x = s.i \/ x \in first .. s.i - 1
      BY <1>5
    <3> QED BY <1>2, <1>4, <1>5, <1>8, <3>1
  <2>4. Between(t, item, D, first, last)
    BY <1>1, <1>2, <2>1, <2>2, <2>3 DEF Between
  <2>5. Swaps(s) = 0 /\ Swaps(t) \in {0, 1, 2}
    BY <1>8 DEF Swaps
  <2> QED BY <1>5, <2>1, <2>4, <2>5 DEF Comparisons
<1>9. CASE ~(s.i < s.m) /\ s.item[s.m] > s.item[s.j]
  <2> DEFINE b == Sort!Swapped(s.item, s.j, s.m)
  <2>1. /\ b \in [D -> Keys] /\ b[s.j] = s.item[s.m] /\ b[s.m] = s.item[s.j]
        /\ \A x \in D : x # s.j /\ x # s.m => b[x] = s.item[x]
        /\ Shuffled(b, s.item, D, range)
    <3>1. AfterSwap(b, s.item, D, Keys, range, s.j, s.m)
      BY <1>1, <1>3, SwappedShuffled, Zenon
    <3> QED BY <3>1 DEF AfterSwap
  <2>2. t = [item |-> b, i |-> s.i, j |-> s.j, m |-> s.j]
    BY <1>1, <1>9 DEF Sort!Compared
  <2> HIDE DEF b
  <2>3. Shuffled(b, item, D, range)
    BY <1>2, <2>1, ShuffledAgain, Zenon
  <2>4. \A x \in first .. s.i - 1 : b[x] <= b[s.j]
    <3> SUFFICES ASSUME NEW x \in first .. s.i - 1 PROVE b[x] <= b[s.j]
      OBVIOUS
    <3>1. x \in D /\ x # s.j /\ x # s.m
      BY <1>2, <1>3, <1>5, <1>6
    <3> QED BY <1>2, <2>1, <3>1
  <2>5. \A x \in s.j + 1 .. last : b[s.j] <= b[x]
    <3> SUFFICES ASSUME NEW x \in s.j + 1 .. last PROVE b[s.j] <= b[x]
      OBVIOUS
    <3>1. x \in D /\ x # s.j /\ x # s.m
      BY <1>2, <1>3, <1>5, <1>6
    <3> QED BY <1>2, <2>1, <3>1
  <2>6. Between(t, item, D, first, last)
    BY <1>1, <1>2, <1>5, <2>1, <2>2, <2>3, <2>4, <2>5 DEF Between
  <2>7. s.i = s.m
    BY <1>2, <1>5, <1>9
  <2>8. ~(b[s.i] > b[s.j])
    BY <1>4, <1>5, <1>9, <2>1, <2>7
  <2>9. Swaps(s) = 1 /\ Swaps(t) = 0
    BY <1>5, <1>9, <2>2, <2>8 DEF Swaps
  <2> QED BY <1>5, <2>2, <2>6, <2>9 DEF Comparisons
<1>10. CASE ~(s.i < s.m) /\ ~(s.item[s.m] > s.item[s.j])
  <2>1. t = [item |-> s.item, i |-> s.i, j |-> s.j - 1, m |-> s.m]
    BY <1>1, <1>10 DEF Sort!Compared
  <2>2. s.j - 1 \in range /\ s.m <= s.j - 1
    BY <1>2, <1>5, <1>6, <1>10
  <2>3. \A x \in (s.j - 1) + 1 .. last : s.item[s.m] <= s.item[x]
    <3> SUFFICES ASSUME NEW x \in (s.j - 1) + 1 .. last PROVE s.item[s.m] <= s.item[x]
      OBVIOUS
    <3>1. x = s.j \/ x \in s.j + 1 .. last
      BY <1>5
    <3> QED BY <1>2, <1>4, <1>5, <1>10, <3>1
  <2>4. Between(t, item, D, first, last)
    BY <1>1, <1>2, <2>1, <2>2, <2>3 DEF Between
  <2>5. Swaps(s) = 0 /\ Swaps(t) \in {0, 1, 2}
    BY <1>10 DEF Swaps
  <2> QED BY <1>5, <2>1, <2>4, <2>5 DEF Comparisons
<1> QED BY <1>7, <1>8, <1>9, <1>10

(* The loop ends in time, with i and j at the pivot. *)
LEMMA PartitionDone ==
  ASSUME NEW n \in Nat, NEW D, D = 0 .. n - 1, NEW first \in D, NEW last \in D, first < last,
         NEW m \in first .. last, NEW item \in [D -> Keys],
         NEW p, p = Sort!Partition(item, first, last, m)
  PROVE  Between(p, item, D, first, last) /\ ~(p.i < p.j)
<1> DEFINE rounds == (last - first + 1) * (last - first + 1)
           s0 == [item |-> item, i |-> first, j |-> last, m |-> m]
           one(s) == IF s.i < s.j THEN Sort!Compared(s) ELSE s
           steps(g) == [k \in 0 .. rounds |-> IF k = 0 THEN s0 ELSE one(g[k - 1])]
           after == CHOOSE g : g = steps(g)
           range == first .. last
           S == {s \in [item : [D -> Keys], i : range, j : range, m : range] :
                   Between(s, item, D, first, last)}
<1>1. first \in Int /\ last \in Int /\ m \in Int /\ first <= m /\ m <= last
  OBVIOUS
<1>2. rounds \in Nat /\ rounds >= 3 * (last - first)
  <2> DEFINE l == last - first
  <2>1. l \in Nat /\ l >= 1
    BY <1>1
  <2>2. rounds = (l + 1) * (l + 1)
    OBVIOUS
  <2> HIDE DEF l
  <2>3. (l + 1) * (l + 1) \in Nat
    BY <2>1
  <2>4. (l + 1) * (l + 1) >= 3 * l
    <3>1. CASE l = 1
      BY <3>1
    <3>2. CASE l # 1
      <4>1. l - 2 \in Nat /\ l - 1 \in Nat
        BY <2>1, <3>2
      <4>2. (l - 2) * (l - 1) \in Nat
        BY <4>1
      <4>3. (l + 1) * (l + 1) = (l - 2) * (l - 1) + 5 * l - 1
        BY <2>1
      <4> QED BY <2>1, <4>2, <4>3
    <3> QED BY <3>1, <3>2
  <2> HIDE DEF rounds
  <2> QED BY <2>2, <2>3, <2>4 DEF l
<1> HIDE DEF rounds
<1>3. \A s : s \in S <=> Between(s, item, D, first, last)
  BY DEF Between
<1>4. s0 \in S
  <2>1. Shuffled(item, item, D, range)
    BY ShuffledSame
  <2>2. Between(s0, item, D, first, last)
    BY <1>1, <2>1 DEF Between
  <2> QED BY <1>3, <2>2
<1>5. ASSUME NEW s \in S PROVE one(s) \in S /\ (s.i < s.j => Comparisons(one(s)) < Comparisons(s))
  <2> HIDE DEF S
  <2>1. Between(s, item, D, first, last)
    BY <1>3
  <2>2. CASE s.i < s.j
    <3>1. Between(one(s), item, D, first, last) /\ Comparisons(one(s)) < Comparisons(s)
      BY <2>1, <2>2, ComparedBetween
    <3> HIDE DEF one
    <3> QED BY <1>3, <3>1
  <2>3. CASE ~(s.i < s.j)
    BY <2>3
  <2> QED BY <2>2, <2>3
<1> HIDE DEF S, s0, one
<1>6. after = steps(after)
  <2> DEFINE step == [k \in 1 .. rounds |-> [s \in S |-> one(s)]]
  <2>1. step \in [1 .. rounds -> [S -> S]]
    BY <1>5
  <2> HIDE DEF step
  <2>2. PICK f : Recursive(f, S, s0, rounds, step)
    BY <1>2, <1>4, <2>1, Recursion
  <2>3. f \in [0 .. rounds -> S] /\ f[0] = s0 /\ \A k \in 1 .. rounds : f[k] = step[k][f[k - 1]]
    BY <2>2 DEF Recursive
  <2>4. \A k \in 0 .. rounds : f[k] = IF k = 0 THEN s0 ELSE one(f[k - 1])
    <3> SUFFICES ASSUME NEW k \in 0 .. rounds, k # 0 PROVE f[k] = one(f[k - 1])
      BY <2>3
    <3>1. k \in 1 .. rounds /\ k - 1 \in 0 .. rounds
      BY <1>2
    <3>2. f[k - 1] \in S
      BY <2>3, <3>1
    <3> QED BY <2>3, <3>1, <3>2 DEF step
  <2>5. f = steps(f)
    BY <2>3, <2>4
  <2> HIDE DEF steps
  <2> QED BY <2>5
<1>7. \A k \in 0 .. rounds : after[k] = IF k = 0 THEN s0 ELSE one(after[k - 1])
  <2> HIDE DEF after
  <2> QED BY <1>6
<1>8. p = after[rounds]
  BY DEF Sort!Partition, after, s0, one, rounds
<1> HIDE DEF after
<1>9. \A s \in S : /\ s.i \in Int /\ s.j \in Int /\ Swaps(s) \in 0 .. 2
                   /\ s.j - s.i <= last - first /\ Comparisons(s) \in Int
  <2> SUFFICES ASSUME NEW s \in S
               PROVE  /\ s.i \in Int /\ s.j \in Int /\ Swaps(s) \in 0 .. 2
                      /\ s.j - s.i <= last - first /\ Comparisons(s) \in Int
    OBVIOUS
  <2>1. s.i \in first .. last /\ s.j \in first .. last
    BY DEF S
  <2>2. Swaps(s) \in 0 .. 2
    BY DEF Swaps
  <2> QED BY <1>1, <2>1, <2>2 DEF Comparisons
<1> DEFINE soon(s, k) == s.i < s.j => Comparisons(s) + k <= 3 * (last - first) + 2
           H == {k \in 0 .. rounds : after[k] \in S /\ soon(after[k], k)}
<1>10. 0 \in H
  <2>1. after[0] = s0 /\ s0.i = first /\ s0.j = last
    BY <1>2, <1>7 DEF s0
  <2>2. Comparisons(s0) + 0 <= 3 * (last - first) + 2
    BY <1>1, <1>4, <1>9, <2>1 DEF Comparisons
  <2> QED BY <1>2, <1>4, <2>1, <2>2
<1>11. ASSUME NEW k \in 1 .. rounds, k - 1 \in H PROVE k \in H
  <2> DEFINE s == after[k - 1]
  <2>1. after[k] = one(s) /\ s \in S /\ k \in Int
        /\ (s.i < s.j => Comparisons(s) + (k - 1) <= 3 * (last - first) + 2)
    <3>1. after[k] = one(s)
      BY <1>2, <1>7
    <3>2. s \in S /\ soon(s, k - 1)
      BY <1>11
    <3> QED BY <1>2, <3>1, <3>2
  <2> HIDE DEF s
  <2>2. one(s) \in S
    BY <1>5, <2>1
  <2>3. CASE ~(s.i < s.j)
    <3>1. one(s) = s
      BY <2>3 DEF one
    <3>2. soon(one(s), k)
      BY <2>3, <3>1
    <3> HIDE DEF soon
    <3> QED BY <1>2, <2>1, <2>2, <3>2
  <2>4. CASE s.i < s.j
    <3>1. Comparisons(one(s)) < Comparisons(s)
      BY <1>5, <2>1, <2>4
    <3>2. Comparisons(one(s)) \in Int /\ Comparisons(s) \in Int
      BY <1>9, <2>1, <2>2
    <3>3. Comparisons(one(s)) + k <= 3 * (last - first) + 2
      BY <1>1, <2>1, <2>4, <3>1, <3>2
    <3>4. soon(one(s), k)
      BY <3>3
    <3> HIDE DEF soon
    <3> QED BY <1>2, <2>1, <2>2, <3>4
  <2> QED BY <2>3, <2>4
<1>12. 0 .. rounds \subseteq H
  <2> HIDE DEF H
  <2> QED BY <1>2, <1>10, <1>11, UpTo
<1>13. p \in S /\ (p.i < p.j => Comparisons(p) + rounds <= 3 * (last - first) + 2)
  <2>1. rounds \in H
    <3> HIDE DEF H
    <3> QED BY <1>2, <1>12
  <2> QED BY <1>8, <2>1
<1>14. ~(p.i < p.j)
  <2> SUFFICES ASSUME p.i < p.j PROVE FALSE
    OBVIOUS
  <2>1. Comparisons(p) >= 3
    BY <1>9, <1>13 DEF Comparisons
  <2>2. Comparisons(p) \in Int
    BY <1>9, <1>13
  <2> QED BY <1>1, <1>2, <1>13, <2>1, <2>2
<1> QED BY <1>3, <1>13, <1>14

(* What the loop leaves: a pivot between what is not greater and what is   *)
(* not less.                                                               *)
Parted(p, item, D, first, last) ==
  /\ p.item \in [D -> Keys] /\ p.m \in first .. last
  /\ \A x \in first .. p.m : p.item[x] <= p.item[p.m]
  /\ \A x \in p.m .. last : p.item[p.m] <= p.item[x]
  /\ Shuffled(p.item, item, D, first .. last)

LEMMA PartitionParts ==
  ASSUME NEW n \in Nat, NEW D, D = 0 .. n - 1, NEW first \in D, NEW last \in D, first < last,
         NEW m \in first .. last, NEW item \in [D -> Keys],
         NEW p, p = Sort!Partition(item, first, last, m)
  PROVE  Parted(p, item, D, first, last)
<1>1. Between(p, item, D, first, last) /\ ~(p.i < p.j)
  BY PartitionDone
<1>2. /\ p.item \in [D -> Keys] /\ p.i \in first .. last /\ p.j \in first .. last
      /\ p.m \in first .. last /\ p.i <= p.m /\ p.m <= p.j
      /\ \A x \in first .. p.i - 1 : p.item[x] <= p.item[p.m]
      /\ \A x \in p.j + 1 .. last : p.item[p.m] <= p.item[x]
      /\ Shuffled(p.item, item, D, first .. last)
  BY <1>1 DEF Between
<1>3. p.i = p.m /\ p.j = p.m /\ p.m \in Int /\ first \in Int /\ last \in Int /\ p.m \in D
  BY <1>1, <1>2
<1>4. p.item[p.m] \in Int
  BY <1>2, <1>3, SortConstants
<1>5. ASSUME NEW x \in first .. p.m PROVE p.item[x] <= p.item[p.m]
  <2>1. x = p.m \/ x \in first .. p.i - 1
    BY <1>3
  <2> QED BY <1>2, <1>4, <2>1
<1>6. ASSUME NEW x \in p.m .. last PROVE p.item[p.m] <= p.item[x]
  <2>1. x = p.m \/ x \in p.j + 1 .. last
    BY <1>3
  <2> QED BY <1>2, <1>4, <2>1
<1> QED BY <1>2, <1>5, <1>6 DEF Parted

-----------------------------------------------------------------------------
(* The calls after one that parted its range at m: those of the two parts  *)
(* in front, which are left out when they have no item.                    *)
Made(q, calls, D, first, m, last, k) ==
  /\ q \in Seq(D \X D) /\ Len(q) = k + Len(calls) - 1
  /\ \A c \in k + 1 .. Len(q) : q[c] = calls[c - k + 1]
  /\ \A c \in 1 .. k : \/ first < m /\ q[c] = <<first, m - 1>>
                       \/ m < last /\ q[c] = <<m + 1, last>>
  /\ \A c, d \in 1 .. k : q[c] = q[d] => c = d
  /\ first < m => \E c \in 1 .. k : q[c] = <<first, m - 1>>
  /\ m < last => \E c \in 1 .. k : q[c] = <<m + 1, last>>

Two(q, P, l, r) == q \in Seq(P) /\ Len(q) = 2 /\ q[1] = l /\ q[2] = r

LEMMA JoinedTwo ==
  ASSUME NEW P, NEW l \in P, NEW r \in P
  PROVE  Two(<<l>> \o <<r>>, P, l, r)
<1> DEFINE u == <<l>>
           v == <<r>>
<1>1. /\ u \in Seq(P) /\ Len(u) = 1 /\ u[1] = l
      /\ v \in Seq(P) /\ Len(v) = 1 /\ v[1] = r
  OBVIOUS
<1> HIDE DEF u, v
<1>2. /\ u \o v \in Seq(P) /\ Len(u \o v) = Len(u) + Len(v)
      /\ \A c \in 1 .. Len(u) : (u \o v)[c] = u[c]
      /\ \A c \in Len(u) + 1 .. Len(u) + Len(v) : (u \o v)[c] = v[c - Len(u)]
  BY <1>1, JoinedAt, Zenon
<1>3. /\ 1 \in 1 .. Len(u) /\ 2 \in Len(u) + 1 .. Len(u) + Len(v)
      /\ 2 - Len(u) = 1 /\ Len(u) + Len(v) = 2
  BY <1>1
<1>4. (u \o v)[1] = u[1] /\ (u \o v)[2] = v[1]
  BY <1>2, <1>3
<1> QED BY <1>1, <1>2, <1>3, <1>4 DEF u, v, Two

ToCall(calls, first, m, last) ==
  LET left == IF first < m THEN << <<first, m - 1>> >> ELSE << >>
      right == IF m < last THEN << <<m + 1, last>> >> ELSE << >>
  IN  left \o right \o Tail(calls)

LEMMA CallsMade ==
  ASSUME NEW n \in Nat, NEW D, D = 0 .. n - 1, NEW calls \in Seq(D \X D), calls # << >>,
         NEW first \in D, NEW last \in D, NEW m \in first .. last
  PROVE  \E k \in 0 .. 2 : Made(ToCall(calls, first, m, last), calls, D, first, m, last, k)
<1> DEFINE left == IF first < m THEN << <<first, m - 1>> >> ELSE << >>
           right == IF m < last THEN << <<m + 1, last>> >> ELSE << >>
           a == left \o right
           b == Tail(calls)
           q == a \o b
           k == Len(a)
<1>1. first \in Int /\ last \in Int /\ m \in Int /\ first <= m /\ m <= last /\ m \in D
  OBVIOUS
<1>2. /\ first < m => <<first, m - 1>> \in D \X D
      /\ m < last => <<m + 1, last>> \in D \X D
      /\ <<first, m - 1>> # <<m + 1, last>>
  BY <1>1
<1>3. /\ a \in Seq(D \X D) /\ k \in 0 .. 2
      /\ \A c \in 1 .. k : \/ first < m /\ a[c] = <<first, m - 1>>
                           \/ m < last /\ a[c] = <<m + 1, last>>
      /\ \A c, d \in 1 .. k : a[c] = a[d] => c = d
      /\ first < m => \E c \in 1 .. k : a[c] = <<first, m - 1>>
      /\ m < last => \E c \in 1 .. k : a[c] = <<m + 1, last>>
  <2>1. CASE first < m /\ m < last
    <3> DEFINE l == <<first, m - 1>>
               r == <<m + 1, last>>
    <3>1. l \in D \X D /\ r \in D \X D /\ l # r
      BY <1>2, <2>1
    <3>2. a = <<l>> \o <<r>>
      BY <2>1
    <3> HIDE DEF l, r, a
    <3>4. a \in Seq(D \X D) /\ Len(a) = 2 /\ a[1] = l /\ a[2] = r
      <4> DEFINE P == D \X D
      <4>1. l \in P /\ r \in P
        BY <3>1
      <4> HIDE DEF P
      <4>2. Two(<<l>> \o <<r>>, P, l, r)
        BY <4>1, JoinedTwo
      <4> QED BY <3>2, <4>2 DEF P, Two
    <3> QED BY <2>1, <3>1, <3>4 DEF l, r
  <2>2. CASE first < m /\ ~(m < last)
    <3> DEFINE l == <<first, m - 1>>
    <3>1. l \in D \X D
      BY <1>2, <2>2
    <3>2. a = <<l>> \o << >>
      BY <2>2
    <3> HIDE DEF l, a
    <3>3. a \in Seq(D \X D) /\ Len(a) = 1 /\ a[1] = l
      BY <3>1, <3>2
    <3> QED BY <2>2, <3>1, <3>3 DEF l
  <2>3. CASE ~(first < m) /\ m < last
    <3> DEFINE r == <<m + 1, last>>
    <3>1. r \in D \X D
      BY <1>2, <2>3
    <3>2. a = << >> \o <<r>>
      BY <2>3
    <3> HIDE DEF r, a
    <3>3. a \in Seq(D \X D) /\ Len(a) = 1 /\ a[1] = r
      BY <3>1, <3>2
    <3> QED BY <2>3, <3>1, <3>3 DEF r
  <2>4. CASE ~(first < m) /\ ~(m < last)
    <3>1. a = << >> \o << >>
      BY <2>4
    <3> HIDE DEF a
    <3>2. a \in Seq(D \X D) /\ Len(a) = 0
      BY <3>1
    <3> QED BY <2>4, <3>2
  <2> QED BY <2>1, <2>2, <2>3, <2>4
<1>4. b \in Seq(D \X D) /\ Len(b) = Len(calls) - 1 /\ Len(calls) \in Nat
      /\ \A c \in 1 .. Len(b) : b[c] = calls[c + 1]
  <2> DEFINE P == D \X D
  <2>1. calls \in Seq(P)
    OBVIOUS
  <2> HIDE DEF P
  <2>2. b \in Seq(P) /\ Len(b) = Len(calls) - 1 /\ Len(calls) \in Nat
    BY <2>1
  <2>3. \A c \in 1 .. Len(b) : b[c] = calls[c + 1]
    BY <2>1, <2>2
  <2> QED BY <2>2, <2>3 DEF P
<1> HIDE DEF a, b
<1>5. /\ q \in Seq(D \X D) /\ Len(q) = k + Len(b)
      /\ \A c \in 1 .. k : q[c] = a[c]
      /\ \A c \in k + 1 .. Len(q) : q[c] = b[c - k]
  <2> DEFINE P == D \X D
  <2>1. a \in Seq(P) /\ b \in Seq(P)
    BY <1>3, <1>4
  <2> HIDE DEF P
  <2>2. a \o b \in Seq(P) /\ Len(a \o b) = Len(a) + Len(b)
    BY <2>1
  <2>3. \A c \in 1 .. Len(a) : (a \o b)[c] = a[c]
    BY <2>1
  <2>4. \A c \in Len(a) + 1 .. Len(a \o b) : (a \o b)[c] = b[c - Len(a)]
    BY <2>1
  <2> QED BY <2>2, <2>3, <2>4 DEF P
<1> HIDE DEF q, k
<1>6. \A c \in k + 1 .. Len(q) : q[c] = calls[c - k + 1]
  <2> SUFFICES ASSUME NEW c \in k + 1 .. Len(q) PROVE q[c] = calls[c - k + 1]
    OBVIOUS
  <2>1. c - k \in 1 .. Len(b)
    BY <1>3, <1>4, <1>5
  <2> QED BY <1>4, <1>5, <2>1
<1>7. Len(q) = k + Len(calls) - 1
  BY <1>3, <1>4, <1>5
<1>8. Made(q, calls, D, first, m, last, k)
  BY <1>3, <1>5, <1>6, <1>7 DEF Made
<1>9. q = ToCall(calls, first, m, last)
  BY DEF ToCall, q, a, b
<1> QED BY <1>3, <1>8, <1>9

Places == DOMAIN ghost
In(x, range) == range[1] <= x /\ x <= range[2]
Joint(calls, x, y) == \E c \in 1 .. Len(calls) : In(x, calls[c]) /\ In(y, calls[c])

SortType ==
  /\ \E n \in 1 .. MaxLen : Places = 0 .. n - 1
  /\ ghost \in [Places -> Keys]
  /\ object \in [item : [Places -> Keys], calls : Seq(Places \X Places)]

(* The ranges of the calls to be made have items, each its own. *)
SortCalls ==
  /\ \A c \in 1 .. Len(object.calls) : object.calls[c][1] <= object.calls[c][2]
  /\ \A c, d \in 1 .. Len(object.calls) : \A x \in Places :
       In(x, object.calls[c]) /\ In(x, object.calls[d]) => c = d

SortOrdered ==
  \A x, y \in Places : x < y /\ ~Joint(object.calls, x, y) => object.item[x] <= object.item[y]

SortInv ==
  SortType /\ Shuffled(object.item, ghost, Places, Places) /\ SortCalls /\ SortOrdered

LEMMA SortStarts == Sort!Init => SortInv
<1> SUFFICES ASSUME Sort!Init PROVE SortInv
  OBVIOUS
<1>1. PICK n \in 1 .. MaxLen : ghost \in [0 .. n - 1 -> Keys]
  BY DEF Sort!Init
<1>2. n \in Nat /\ n # 0 /\ Places = 0 .. n - 1
  BY <1>1, SortConstants DEF Places
<1>3. Sort!Cardinality(Places) = n
  <2>1. Sort!Cardinality(Places) = Cardinality(Places)
    BY DEF Sort!Cardinality, Cardinality, Sort!IsFiniteSet, IsFiniteSet
  <2>2. 0 \in Int /\ n - 1 \in Int /\ ~(0 > n - 1) /\ (n - 1) - 0 + 1 = n
    BY <1>2
  <2>3. Cardinality(0 .. n - 1) = IF 0 > n - 1 THEN 0 ELSE (n - 1) - 0 + 1
    BY <2>2, FS_Interval
  <2> QED BY <1>2, <2>1, <2>2, <2>3
<1>4. object = [item |-> ghost, calls |-> << <<0, n - 1>> >>]
  BY <1>3 DEF Sort!Init, Places
<1>5. /\ object.item = ghost /\ object.calls = << <<0, n - 1>> >> /\ Len(object.calls) = 1
      /\ object.calls[1] = <<0, n - 1>>
  BY <1>4
<1>6. SortType
  <2>1. <<0, n - 1>> \in Places \X Places
    BY <1>2
  <2>2. object.calls \in Seq(Places \X Places)
    <3> DEFINE P == Places \X Places
               r == <<0, n - 1>>
    <3>1. r \in P
      BY <2>1
    <3> HIDE DEF P, r
    <3>2. <<r>> \in Seq(P)
      BY <3>1
    <3> QED BY <1>5, <3>2 DEF P, r
  <2> QED BY <1>1, <1>2, <1>4, <2>2 DEF SortType
<1>7. Shuffled(object.item, ghost, Places, Places)
  BY <1>5, ShuffledSame
<1>8. SortCalls
  BY <1>2, <1>5 DEF SortCalls
<1>9. SortOrdered
  <2>1. \A x, y \in Places : Joint(object.calls, x, y)
    BY <1>2, <1>5 DEF Joint, In
  <2> QED BY <2>1 DEF SortOrdered
<1> QED BY <1>6, <1>7, <1>8, <1>9 DEF SortInv

(* A call parts its range and leaves its parts to be sorted. *)
LEMMA SortParts ==
  ASSUME SortInv, object.calls # << >>,
         NEW first, NEW last, first = object.calls[1][1], last = object.calls[1][2], first # last,
         NEW m \in first .. last, Sort!Sort(first, last, m), ghost' = ghost
  PROVE  SortInv'
<1> DEFINE D == Places
           p == Sort!Partition(object.item, first, last, m)
<1>1. /\ ghost \in [D -> Keys] /\ object.item \in [D -> Keys]
      /\ object.calls \in Seq(D \X D) /\ object = [item |-> object.item, calls |-> object.calls]
  BY DEF SortInv, SortType
<1>2. PICK n \in Nat : D = 0 .. n - 1
  BY SortConstants DEF SortInv, SortType
<1>3. /\ Len(object.calls) \in Nat /\ 1 \in 1 .. Len(object.calls)
      /\ \A c \in 1 .. Len(object.calls) : object.calls[c] \in D \X D
  <2> DEFINE P == D \X D
  <2>1. object.calls \in Seq(P)
    BY <1>1
  <2> HIDE DEF P
  <2>2. /\ Len(object.calls) \in Nat /\ 1 \in 1 .. Len(object.calls)
        /\ \A c \in 1 .. Len(object.calls) : object.calls[c] \in P
    BY <2>1
  <2> QED BY <2>2 DEF P
<1>4. /\ first \in D /\ last \in D /\ object.calls[1] = <<first, last>>
      /\ first \in Int /\ last \in Int
  BY <1>2, <1>3
<1>5. first < last /\ m \in Int /\ m \in D
  <2>1. first <= last
    BY <1>3 DEF SortInv, SortCalls
  <2> QED BY <1>2, <1>4, <2>1
<1>6. Parted(p, object.item, D, first, last)
  <2> HIDE DEF D, p
  <2>1. p = Sort!Partition(object.item, first, last, m)
    BY DEF p
  <2> QED BY <1>1, <1>2, <1>4, <1>5, <2>1, PartitionParts
<1>7. object' = [item |-> p.item, calls |-> ToCall(object.calls, first, p.m, last)]
  BY DEF Sort!Sort, ToCall
<1>8. /\ p.item \in [D -> Keys] /\ p.m \in first .. last
      /\ \A x \in first .. p.m : p.item[x] <= p.item[p.m]
      /\ \A x \in p.m .. last : p.item[p.m] <= p.item[x]
      /\ Shuffled(p.item, object.item, D, first .. last)
  BY <1>6 DEF Parted
<1>9. /\ object'.item = p.item /\ object'.calls = ToCall(object.calls, first, p.m, last)
      /\ Places' = D
  BY <1>7 DEF Places
<1>10. PICK k \in 0 .. 2 : Made(object'.calls, object.calls, D, first, p.m, last, k)
  <2> HIDE DEF D, p
  <2>1. /\ n \in Nat /\ D = 0 .. n - 1 /\ object.calls \in Seq(D \X D) /\ object.calls # << >>
        /\ first \in D /\ last \in D /\ p.m \in first .. last
    BY <1>1, <1>2, <1>4, <1>8
  <2>2. \E k \in 0 .. 2 :
          Made(ToCall(object.calls, first, p.m, last), object.calls, D, first, p.m, last, k)
    BY <2>1, CallsMade, Zenon
  <2> QED BY <1>9, <2>2
<1> HIDE DEF D, p
<1> DEFINE q == object'.calls
           pivot == p.m
           N == Len(object.calls)
<1>11. /\ q \in Seq(D \X D) /\ Len(q) = k + N - 1 /\ k \in Nat /\ N \in Nat
       /\ \A c \in k + 1 .. Len(q) : q[c] = object.calls[c - k + 1]
       /\ \A c \in 1 .. k : \/ first < pivot /\ q[c] = <<first, pivot - 1>>
                            \/ pivot < last /\ q[c] = <<pivot + 1, last>>
       /\ \A c, d \in 1 .. k : q[c] = q[d] => c = d
       /\ first < pivot => \E c \in 1 .. k : q[c] = <<first, pivot - 1>>
       /\ pivot < last => \E c \in 1 .. k : q[c] = <<pivot + 1, last>>
  <2>1. N \in Nat /\ k \in Nat
    BY <1>3
  <2>2. Made(q, object.calls, D, first, pivot, last, k)
    BY <1>10
  <2> HIDE DEF q, pivot
  <2>3. Len(q) = k + N - 1
    BY <2>2 DEF Made
  <2> QED BY <2>1, <2>2, <2>3 DEF Made, N
<1>12. pivot \in Int /\ first <= pivot /\ pivot <= last
  BY <1>4, <1>8
<1>13. \A x \in D : x \in Int
  BY <1>2
<1> HIDE DEF q, pivot, N
<1>14. \A c \in k + 1 .. Len(q) : c - k + 1 \in 2 .. N
  BY <1>11
<1>15. SortType'
  <2>1. object' \in [item : [D -> Keys], calls : Seq(D \X D)]
    BY <1>7, <1>8, <1>9, <1>11 DEF q
  <2> QED BY <1>1, <1>9, <2>1 DEF SortType, SortInv, D
<1>16. Shuffled(object.item, ghost, D, D)
  BY DEF SortInv, D
<1>17. Shuffled(p.item, ghost, D, D)
  <2>1. first .. last \subseteq D
    BY <1>2, <1>4
  <2>2. Shuffled(p.item, object.item, D, D)
    BY <1>8, <2>1, ShuffledWider, Zenon
  <2> QED BY <1>16, <2>2, ShuffledAgain, Zenon
<1>18. \A c \in 1 .. N : object.calls[c][1] <= object.calls[c][2]
  BY DEF SortInv, SortCalls, N
<1>19. \A c, d \in 1 .. N : \A x \in D : In(x, object.calls[c]) /\ In(x, object.calls[d]) => c = d
  BY DEF SortInv, SortCalls, N, D
<1>20. ASSUME NEW c \in 1 .. k, NEW x \in D, In(x, q[c])
       PROVE  In(x, object.calls[1]) /\ x # pivot
  <2>1. x \in Int /\ pivot \in Int /\ first \in Int /\ last \in Int
    BY <1>4, <1>12, <1>13
  <2>2. first <= x /\ x <= last /\ x # pivot
    <3>1. CASE first < pivot /\ q[c] = <<first, pivot - 1>>
      <4>1. first <= x /\ x <= pivot - 1
        BY <1>20, <3>1 DEF In
      <4> QED BY <1>12, <2>1, <4>1
    <3>2. CASE pivot < last /\ q[c] = <<pivot + 1, last>>
      <4>1. pivot + 1 <= x /\ x <= last
        BY <1>20, <3>2 DEF In
      <4> QED BY <1>12, <2>1, <4>1
    <3> QED BY <1>11, <3>1, <3>2
  <2> QED BY <1>4, <2>2 DEF In
<1>21. \A c, d \in 1 .. k : \A x \in D : In(x, q[c]) /\ In(x, q[d]) => c = d
  <2> SUFFICES ASSUME NEW c \in 1 .. k, NEW d \in 1 .. k, NEW x \in D, In(x, q[c]), In(x, q[d])
               PROVE  q[c] = q[d]
    BY <1>11
  <2>1. x \in Int
    BY <1>13
  <2>2. \/ first < pivot /\ q[c] = <<first, pivot - 1>>
        \/ pivot < last /\ q[c] = <<pivot + 1, last>>
    BY <1>11
  <2>3. \/ first < pivot /\ q[d] = <<first, pivot - 1>>
        \/ pivot < last /\ q[d] = <<pivot + 1, last>>
    BY <1>11
  <2>4. q[c] = <<first, pivot - 1>> => x < pivot
    BY <1>12, <2>1 DEF In
  <2>5. q[c] = <<pivot + 1, last>> => pivot < x
    BY <1>12, <2>1 DEF In
  <2>6. q[d] = <<first, pivot - 1>> => x < pivot
    BY <1>12, <2>1 DEF In
  <2>7. q[d] = <<pivot + 1, last>> => pivot < x
    BY <1>12, <2>1 DEF In
  <2>8. ~(x < pivot /\ pivot < x)
    BY <1>12, <2>1
  <2> QED BY <2>2, <2>3, <2>4, <2>5, <2>6, <2>7, <2>8
<1>22. SortCalls'
  <2>1. ASSUME NEW c \in 1 .. Len(q) PROVE q[c][1] <= q[c][2]
    <3>1. CASE c \in 1 .. k
      BY <1>4, <1>11, <1>12, <3>1
    <3>2. CASE c \notin 1 .. k
      <4>1. c \in k + 1 .. Len(q)
        BY <1>11, <3>2
      <4>2. c - k + 1 \in 1 .. N
        BY <1>11, <1>14, <4>1
      <4> QED BY <1>11, <1>18, <4>1, <4>2
    <3> QED BY <3>1, <3>2
  <2>2. ASSUME NEW c \in 1 .. Len(q), NEW d \in 1 .. Len(q), NEW x \in D,
               In(x, q[c]), In(x, q[d])
        PROVE  c = d
    <3>1. /\ c \notin 1 .. k => c \in k + 1 .. Len(q)
          /\ d \notin 1 .. k => d \in k + 1 .. Len(q)
      BY <1>11
    <3>2. \A e \in k + 1 .. Len(q) : e - k + 1 \in 1 .. N /\ e - k + 1 # 1 /\ e \in Int
      BY <1>11, <1>14
    <3>3. 1 \in 1 .. N
      BY <1>3 DEF N
    <3>4. CASE c \in 1 .. k /\ d \in 1 .. k
      BY <1>21, <2>2, <3>4
    <3>5. CASE c \in 1 .. k /\ d \notin 1 .. k
      <4>1. In(x, object.calls[1])
        BY <1>20, <2>2, <3>5
      <4>2. In(x, object.calls[d - k + 1])
        BY <1>11, <2>2, <3>1, <3>5
      <4> QED BY <1>19, <3>1, <3>2, <3>3, <3>5, <4>1, <4>2
    <3>6. CASE c \notin 1 .. k /\ d \in 1 .. k
      <4>1. In(x, object.calls[1])
        BY <1>20, <2>2, <3>6
      <4>2. In(x, object.calls[c - k + 1])
        BY <1>11, <2>2, <3>1, <3>6
      <4> QED BY <1>19, <3>1, <3>2, <3>3, <3>6, <4>1, <4>2
    <3>7. CASE c \notin 1 .. k /\ d \notin 1 .. k
      <4>1. In(x, object.calls[c - k + 1]) /\ In(x, object.calls[d - k + 1])
        BY <1>11, <2>2, <3>1, <3>7
      <4>2. c - k + 1 = d - k + 1
        BY <1>19, <3>1, <3>2, <3>7, <4>1
      <4> QED BY <1>11, <3>1, <3>2, <3>7, <4>2
    <3> QED BY <3>4, <3>5, <3>6, <3>7
  <2> QED BY <1>9, <2>1, <2>2 DEF SortCalls, q
<1>23. PICK f \in [D -> D] :
         /\ \A x \in D : x \notin first .. last => f[x] = x
         /\ \A x \in D : x \in first .. last => f[x] \in first .. last
         /\ \A x \in D : p.item[x] = object.item[f[x]]
  BY <1>8 DEF Shuffled
<1>24. \A x, y \in D : x < y /\ ~Joint(object.calls, x, y) => object.item[x] <= object.item[y]
  BY DEF SortInv, SortOrdered, D
<1>25. \A x \in D : x \in first .. last <=> In(x, object.calls[1])
  BY <1>4, <1>13 DEF In
<1>26. \A x, y \in D : Joint(object.calls, x, y) /\ x \in first .. last => y \in first .. last
  <2> SUFFICES ASSUME NEW x \in D, NEW y \in D, Joint(object.calls, x, y), x \in first .. last
               PROVE  y \in first .. last
    OBVIOUS
  <2>1. PICK c \in 1 .. N : In(x, object.calls[c]) /\ In(y, object.calls[c])
    BY DEF Joint, N
  <2>2. c = 1
    BY <1>3, <1>19, <1>25, <2>1 DEF N
  <2> QED BY <1>25, <2>1, <2>2
<1>27. \A x, y \in D : Joint(object.calls, x, y) <=> Joint(object.calls, y, x)
  BY DEF Joint
<1>28. ASSUME NEW x \in D, NEW y \in D, x < y, ~Joint(q, x, y)
       PROVE  p.item[x] <= p.item[y]
  <2>1. x \in Int /\ y \in Int /\ f[x] \in D /\ f[y] \in D
    BY <1>13
  <2>2. CASE x \in first .. last /\ y \in first .. last
    <3>1. p.item[x] \in Int /\ p.item[y] \in Int /\ p.item[pivot] \in Int
      <4>1. pivot \in D
        BY <1>2, <1>4, <1>12, SMTT(30)
      <4> QED BY <1>8, <4>1, SortConstants
    <3>2. ~(y < pivot)
      <4> SUFFICES ASSUME y < pivot PROVE FALSE
        OBVIOUS
      <4>1. first < pivot
        BY <1>4, <1>12, <1>28, <2>1, <2>2
      <4>2. PICK c \in 1 .. k : q[c] = <<first, pivot - 1>>
        BY <1>11, <4>1
      <4>3. In(x, q[c]) /\ In(y, q[c]) /\ c \in 1 .. Len(q)
        <5>1. c \in 1 .. Len(q)
          BY <1>3, <1>11 DEF N
        <5> QED BY <1>4, <1>12, <1>28, <2>1, <2>2, <4>2, <5>1 DEF In
      <4> QED BY <1>28, <4>3 DEF Joint
    <3>3. ~(pivot < x)
      <4> SUFFICES ASSUME pivot < x PROVE FALSE
        OBVIOUS
      <4>1. pivot < last
        BY <1>4, <1>12, <1>28, <2>1, <2>2
      <4>2. PICK c \in 1 .. k : q[c] = <<pivot + 1, last>>
        BY <1>11, <4>1
      <4>3. In(x, q[c]) /\ In(y, q[c]) /\ c \in 1 .. Len(q)
        <5>1. c \in 1 .. Len(q)
          BY <1>3, <1>11 DEF N
        <5> QED BY <1>4, <1>12, <1>28, <2>1, <2>2, <4>2, <5>1 DEF In
      <4> QED BY <1>28, <4>3 DEF Joint
    <3>4. x \in first .. pivot /\ y \in pivot .. last
      BY <1>4, <1>12, <2>1, <2>2, <3>2, <3>3
    <3>5. p.item[x] <= p.item[pivot] /\ p.item[pivot] <= p.item[y]
      BY <1>8, <3>4 DEF pivot
    <3> QED BY <3>1, <3>5
  <2>3. CASE x \in first .. last /\ y \notin first .. last
    <3>1. f[x] \in first .. last /\ f[y] = y
      BY <1>23, <2>3
    <3>2. f[x] < y
      BY <1>4, <1>28, <2>1, <2>3, <3>1
    <3>3. ~Joint(object.calls, f[x], y)
      BY <1>26, <2>1, <2>3, <3>1
    <3> QED BY <1>23, <1>24, <2>1, <3>1, <3>2, <3>3
  <2>4. CASE x \notin first .. last /\ y \in first .. last
    <3>1. f[y] \in first .. last /\ f[x] = x
      BY <1>23, <2>4
    <3>2. x < f[y]
      BY <1>4, <1>28, <2>1, <2>4, <3>1
    <3>3. ~Joint(object.calls, x, f[y])
      BY <1>26, <1>27, <2>1, <2>4, <3>1
    <3> QED BY <1>23, <1>24, <2>1, <3>1, <3>2, <3>3
  <2>5. CASE x \notin first .. last /\ y \notin first .. last
    <3>1. f[x] = x /\ f[y] = y
      BY <1>23, <2>5
    <3>2. ~Joint(object.calls, x, y)
      <4> SUFFICES ASSUME Joint(object.calls, x, y) PROVE FALSE
        OBVIOUS
      <4>1. PICK c \in 1 .. N : In(x, object.calls[c]) /\ In(y, object.calls[c])
        BY DEF Joint, N
      <4>2. c # 1
        BY <1>25, <2>5, <4>1
      <4>3. c + k - 1 \in k + 1 .. Len(q) /\ (c + k - 1) - k + 1 = c /\ c + k - 1 \in 1 .. Len(q)
        BY <1>11, <4>2
      <4>4. q[c + k - 1] = object.calls[c]
        BY <1>11, <4>3
      <4> QED BY <1>28, <4>1, <4>3, <4>4 DEF Joint
    <3> QED BY <1>23, <1>24, <1>28, <3>1, <3>2
  <2> QED BY <2>2, <2>3, <2>4, <2>5
<1>29. SortOrdered'
  BY <1>9, <1>28 DEF SortOrdered, q, Joint
<1> QED BY <1>9, <1>15, <1>17, <1>22, <1>29 DEF SortInv

(* A call of one item does nothing: a range of one place orders no pair.   *)
LEMMA SortOne ==
  ASSUME SortInv, object.calls # << >>, object.calls[1][1] = object.calls[1][2],
         object' = [object EXCEPT !.calls = Tail(@)], ghost' = ghost
  PROVE  SortInv'
<1> DEFINE D == Places
           q == object'.calls
           N == Len(object.calls)
<1>1. /\ ghost \in [D -> Keys] /\ object.item \in [D -> Keys]
      /\ object.calls \in Seq(D \X D) /\ object = [item |-> object.item, calls |-> object.calls]
  BY DEF SortInv, SortType
<1>2. \A x \in D : x \in Int
  BY SortConstants DEF SortInv, SortType
<1>3. object' = [item |-> object.item, calls |-> Tail(object.calls)] /\ q = Tail(object.calls)
  BY <1>1
<1> HIDE DEF D
<1>4. /\ N \in Nat /\ q \in Seq(D \X D) /\ Len(q) = N - 1
      /\ \A c \in 1 .. Len(q) : q[c] = object.calls[c + 1]
  <2> DEFINE P == D \X D
  <2>1. object.calls \in Seq(P)
    BY <1>1
  <2> HIDE DEF P
  <2>2. Tail(object.calls) \in Seq(P) /\ Len(Tail(object.calls)) = N - 1 /\ N \in Nat
    BY <2>1
  <2>3. \A c \in 1 .. Len(Tail(object.calls)) : Tail(object.calls)[c] = object.calls[c + 1]
    BY <2>1, <2>2
  <2> QED BY <1>3, <2>2, <2>3 DEF P
<1>5. Places' = D /\ object'.item = object.item
  BY <1>3 DEF Places, D
<1> HIDE DEF q, N
<1>6. SortType'
  <2>1. object' \in [item : [D -> Keys], calls : Seq(D \X D)]
    BY <1>1, <1>3, <1>4
  <2> QED BY <1>1, <1>5, <2>1 DEF SortType, SortInv, D
<1>7. \A c \in 1 .. Len(q) : c + 1 \in 1 .. N
  BY <1>4
<1>8. SortCalls'
  <2>1. ASSUME NEW c \in 1 .. Len(q) PROVE q[c][1] <= q[c][2]
    BY <1>4, <1>7 DEF SortInv, SortCalls, N
  <2>2. ASSUME NEW c \in 1 .. Len(q), NEW d \in 1 .. Len(q), NEW x \in D,
               In(x, q[c]), In(x, q[d])
        PROVE  c = d
    <3>1. In(x, object.calls[c + 1]) /\ In(x, object.calls[d + 1])
      BY <1>4, <2>2
    <3>2. c + 1 = d + 1
      BY <1>7, <3>1 DEF SortInv, SortCalls, N, D
    <3> QED BY <3>2
  <2> QED BY <1>5, <2>1, <2>2 DEF SortCalls, q
<1>9. ASSUME NEW x \in D, NEW y \in D, x < y, ~Joint(q, x, y)
      PROVE  object.item[x] <= object.item[y]
  <2>1. ~Joint(object.calls, x, y)
    <3> SUFFICES ASSUME Joint(object.calls, x, y) PROVE FALSE
      OBVIOUS
    <3>1. PICK c \in 1 .. N : In(x, object.calls[c]) /\ In(y, object.calls[c])
      BY DEF Joint, N
    <3>2. c # 1
      <4> SUFFICES ASSUME c = 1 PROVE FALSE
        OBVIOUS
      <4>1. object.calls[1] \in D \X D
        <5> DEFINE P == D \X D
        <5>1. object.calls \in Seq(P) /\ 1 \in 1 .. Len(object.calls)
          BY <1>1, <1>4, <3>1 DEF N
        <5> HIDE DEF P
        <5>2. object.calls[1] \in P
          BY <5>1
        <5> QED BY <5>2 DEF P
      <4>2. object.calls[1][1] \in Int /\ x \in Int /\ y \in Int
        BY <1>2, <4>1
      <4> QED BY <1>9, <3>1, <4>2 DEF In
    <3>3. c - 1 \in 1 .. Len(q) /\ (c - 1) + 1 = c
      BY <1>4, <3>2
    <3>4. q[c - 1] = object.calls[c]
      BY <1>4, <3>3
    <3> QED BY <1>9, <3>1, <3>3, <3>4 DEF Joint
  <2> QED BY <1>9, <2>1 DEF SortInv, SortOrdered, D
<1>10. SortOrdered'
  BY <1>5, <1>9 DEF SortOrdered, q, Joint
<1>11. Shuffled(object.item, ghost, Places, Places)'
  BY <1>5 DEF SortInv, D
<1> QED BY <1>5, <1>6, <1>8, <1>10, <1>11 DEF SortInv

LEMMA SortStep == SortInv /\ Sort!Next => SortInv'
<1> SUFFICES ASSUME SortInv, Sort!Next PROVE SortInv'
  OBVIOUS
<1>1. /\ object.calls # << >> /\ ghost' = ghost
      /\ IF object.calls[1][1] = object.calls[1][2]
         THEN object' = [object EXCEPT !.calls = Tail(@)]
         ELSE \E m \in object.calls[1][1] .. object.calls[1][2] :
                Sort!Sort(object.calls[1][1], object.calls[1][2], m)
  BY DEF Sort!Next, Sort!Call
<1>2. CASE object.calls[1][1] = object.calls[1][2]
  BY <1>1, <1>2, SortOne
<1>3. CASE object.calls[1][1] # object.calls[1][2]
  <2>1. PICK m \in object.calls[1][1] .. object.calls[1][2] :
               Sort!Sort(object.calls[1][1], object.calls[1][2], m)
    BY <1>1, <1>3
  <2> QED BY <1>1, <1>3, <2>1, SortParts
<1> QED BY <1>2, <1>3

LEMMA SortCardinality == \A S : Sort!Cardinality(S) = Cardinality(S)
BY DEF Sort!Cardinality, Cardinality, Sort!IsFiniteSet, IsFiniteSet

LEMMA SortImplies == SortInv => Sort!SortHolds
<1> SUFFICES ASSUME SortInv PROVE Sort!SortHolds
  OBVIOUS
<1>1. PICK n \in Nat : Places = 0 .. n - 1
  BY SortConstants DEF SortInv, SortType
<1>2. DOMAIN object.item = Places /\ \A x \in Places : x \in Int
  BY <1>1 DEF SortInv, SortType
<1>3. object.calls \in Seq(Places \X Places)
  BY DEF SortInv, SortType
<1>4. DOMAIN object.calls = 1 .. Len(object.calls)
  <2> DEFINE P == Places \X Places
  <2>1. object.calls \in Seq(P)
    BY <1>3
  <2> HIDE DEF P
  <2> QED BY <2>1
<1>5. \A c \in 1 .. Len(object.calls) : object.calls[c] \in Places \X Places
  <2> DEFINE P == Places \X Places
  <2>1. object.calls \in Seq(P)
    BY <1>3
  <2> HIDE DEF P
  <2>2. \A c \in 1 .. Len(object.calls) : object.calls[c] \in P
    BY <2>1
  <2> QED BY <2>2 DEF P
<1>6. ASSUME NEW k \in Keys
      PROVE  Sort!Cardinality({x \in DOMAIN ghost : ghost[x] = k})
               = Sort!Cardinality({x \in DOMAIN object.item : object.item[x] = k})
  <2>1. IsFiniteSet(Places)
    BY <1>1, FS_Interval
  <2>2. Shuffled(object.item, ghost, Places, Places)
    BY DEF SortInv
  <2>3. Often(object.item, Places, k) = Often(ghost, Places, k)
    <3> DEFINE a == object.item
               b == ghost
               D == Places
    <3>1. IsFiniteSet(D) /\ Shuffled(a, b, D, D)
      BY <2>1, <2>2
    <3> HIDE DEF a, b, D
    <3>2. Often(a, D, k) = Often(b, D, k)
      BY <3>1, ShuffledCounts
    <3> QED BY <3>2 DEF a, b, D
  <2> QED BY <1>2, <2>3, SortCardinality DEF Places, Often
<1>7. ASSUME NEW x \in Places, NEW y \in Places, x < y, ~Sort!Together(x, y)
      PROVE  object.item[x] <= object.item[y]
  <2>1. ~Joint(object.calls, x, y)
    <3> SUFFICES ASSUME NEW c \in 1 .. Len(object.calls),
                        In(x, object.calls[c]), In(y, object.calls[c])
                 PROVE  FALSE
      BY DEF Joint
    <3>1. object.calls[c][1] \in Int /\ object.calls[c][2] \in Int /\ x \in Int /\ y \in Int
      BY <1>2, <1>5
    <3>2. {x, y} \subseteq object.calls[c][1] .. object.calls[c][2]
      BY <3>1 DEF In
    <3> QED BY <1>4, <1>7, <3>2 DEF Sort!Together
  <2> QED BY <1>7, <2>1 DEF SortInv, SortOrdered
<1>8. \A c \in DOMAIN object.calls : object.calls[c][1] <= object.calls[c][2]
  BY <1>4 DEF SortInv, SortCalls
<1> QED BY <1>2, <1>6, <1>7, <1>8 DEF Sort!SortHolds

LEMMA LibrarySort == Spec => [](part = "sort" => SortInv)
<1> DEFINE Inv == part = "sort" => SortInv
<1>1. Init => Inv
  BY SortStarts DEF Init
<1>2. Inv /\ [Next]_vars => Inv'
  <2> SUFFICES ASSUME Inv, [Next]_vars, part' = "sort" PROVE SortInv'
    OBVIOUS
  <2>1. CASE UNCHANGED vars
    <3>1. object' = object /\ ghost' = ghost /\ part = "sort"
      BY <2>1 DEF vars
    <3>2. SortInv
      BY <3>1
    <3> QED BY <3>1, <3>2 DEF SortInv, SortType, SortCalls, SortOrdered, Joint, Places
  <2>2. CASE Next
    <3>1. part' = part /\ Sort!Next
      BY <2>2 DEF Next, UseHeap, UseVector, UseTree, UseMap, UseQueue, UseTimer, UseGetopt,
         UseHttp, UseSort, UseUrl, UseMd5, UseSerial
    <3> QED BY <3>1, SortStep
  <2> QED BY <2>1, <2>2
<1> QED BY <1>1, <1>2, PTL DEF Spec

(* Whatever the keys, however many and whichever pivots: at every call of  *)
(* bscl_qsort the container has the items it had, two of them that no call *)
(* still to be made has in its range are in order, so that all are when no *)
(* call is left, and no call is made of a range that ends before it begins *)
(* (what the assertion at its begin forbids).                              *)
THEOREM LibrarySortHolds == Spec => []SortHolds
<1>1. (part = "sort" => SortInv) => SortHolds
  BY SortImplies DEF SortHolds
<1> QED BY <1>1, LibrarySort, PTL

-----------------------------------------------------------------------------
(* The vector. *)
Size == object.size
Room == object.capacity
Cells(n) == 0 .. n - 1

Holding(data, size, capacity, items) ==
  /\ items \in Seq(Values) /\ size = Len(items) /\ size \in Nat
  /\ capacity \in Nat /\ capacity > 0 /\ size <= capacity
  /\ DOMAIN data = Cells(capacity)
  /\ \A i \in Cells(size) : data[i] = items[i + 1]

VectorInv ==
  /\ object = [size |-> Size, capacity |-> Room, data |-> object.data]
  /\ Holding(object.data, Size, Room, ghost)

LEMMA VectorConstants == MaxSize \in Nat /\ MaxCount \in Nat
BY LibraryAssumption DEF Vec!VectorAssumption

LEMMA HalfFacts ==
  ASSUME NEW n \in Nat
  PROVE  Vec!Half(n) \in Nat /\ Vec!Half(n) <= n
BY DEF Vec!Half

(* Doubling once for each item that is asked for is enough. *)
LEMMA GrownEnough ==
  ASSUME NEW c \in Nat, c > 0, NEW n \in Nat, NEW r, r = Vec!Grown(c, n)
  PROVE  r \in Nat /\ r > 0 /\ r >= n
<1> DEFINE one(d) == IF n > d THEN 2 * d ELSE d
           steps(g) == [k \in 0 .. n |-> IF k = 0 THEN c ELSE one(g[k - 1])]
           after == CHOOSE g : g = steps(g)
           P == Nat \ {0}
           step == [k \in 1 .. n |-> [d \in P |-> one(d)]]
<1>1. \A d \in P : one(d) \in P
  OBVIOUS
<1>2. step \in [1 .. n -> [P -> P]] /\ c \in P
  BY <1>1
<1> HIDE DEF P, step
<1>3. PICK f : Recursive(f, P, c, n, step)
  BY <1>2, Recursion
<1>4. f \in [0 .. n -> P] /\ f[0] = c /\ \A k \in 1 .. n : f[k] = step[k][f[k - 1]]
  BY <1>3 DEF Recursive
<1>5. f = steps(f)
  <2>1. ASSUME NEW k \in 0 .. n PROVE f[k] = IF k = 0 THEN c ELSE one(f[k - 1])
    <3>1. CASE k = 0
      BY <1>4, <3>1
    <3>2. CASE k # 0
      <4>1. k \in 1 .. n /\ k - 1 \in 0 .. n
        BY <3>2
      <4>2. f[k - 1] \in P /\ f[k] = step[k][f[k - 1]]
        BY <1>4, <4>1
      <4> HIDE DEF one
      <4>3. f[k] = one(f[k - 1])
        BY <4>1, <4>2 DEF step
      <4> QED BY <3>2, <4>3
    <3> QED BY <3>1, <3>2
  <2> HIDE DEF one
  <2> QED BY <1>4, <2>1
<1>6. after = steps(after)
  <2> HIDE DEF steps
  <2> QED BY <1>5
<1>7. r = after[n]
  BY DEF Vec!Grown, after, one
<1> HIDE DEF after
<1>8. \A k \in 0 .. n : after[k] = IF k = 0 THEN c ELSE one(after[k - 1])
  BY <1>6
<1> DEFINE good(d, k) == d \in Nat /\ d > 0 /\ (n > d => d > k)
           H == {k \in 0 .. n : good(after[k], k)}
<1>9. 0 \in H
  <2>1. after[0] = c
    BY <1>8
  <2> QED BY <2>1
<1>10. ASSUME NEW k \in 1 .. n, k - 1 \in H PROVE k \in H
  <2> DEFINE d == after[k - 1]
  <2>1. after[k] = one(d) /\ good(d, k - 1)
    BY <1>8, <1>10
  <2> HIDE DEF d
  <2>2. good(one(d), k)
    BY <2>1
  <2> HIDE DEF good, one
  <2> QED BY <2>1, <2>2
<1>11. n \in H
  <2> HIDE DEF H
  <2>1. 0 .. n \subseteq H
    BY <1>9, <1>10, UpTo
  <2> QED BY <2>1
<1>12. good(after[n], n)
  BY <1>11
<1> HIDE DEF good
<1>13. good(r, n)
  BY <1>7, <1>12
<1> QED BY <1>13 DEF good

LEMMA VectorStarts == Vec!Init => VectorInv
<1> SUFFICES ASSUME Vec!Init PROVE VectorInv
  OBVIOUS
<1>1. PICK n \in 0 .. MaxSize, v \in Values :
        /\ object = [size |-> n, capacity |-> Vec!FirstCapacity(n),
                     data |-> [i \in Vec!Cells(Vec!FirstCapacity(n)) |-> IF i < n THEN v ELSE JUNK]]
        /\ ghost = [i \in 1 .. n |-> v]
  BY DEF Vec!Init
<1>2. n \in Nat /\ ghost \in [1 .. n -> Values] /\ \A i \in 1 .. n : ghost[i] = v
  BY <1>1, VectorConstants
<1>3. ghost \in Seq(Values) /\ Len(ghost) = n
  BY <1>2, FunctionIsSeq
<1> DEFINE c == Vec!FirstCapacity(n)
<1>4. c \in Nat /\ c > 0 /\ n <= c
  <2>1. c = Vec!Grown(1, n + 1) /\ n + 1 \in Nat
    BY <1>2 DEF Vec!FirstCapacity
  <2> HIDE DEF c
  <2>2. c \in Nat /\ c > 0 /\ c >= n + 1
    BY <2>1, GrownEnough
  <2> QED BY <1>2, <2>2
<1> HIDE DEF c
<1> DEFINE data == [i \in Cells(c) |-> IF i < n THEN v ELSE JUNK]
<1>5. object = [size |-> n, capacity |-> c, data |-> data]
  BY <1>1 DEF c, Cells, Vec!Cells
<1>6. DOMAIN data = Cells(c) /\ \A i \in Cells(n) : data[i] = ghost[i + 1]
  <2>1. \A i \in Cells(n) : i \in Cells(c) /\ i < n /\ i + 1 \in 1 .. n
    BY <1>2, <1>4 DEF Cells
  <2> QED BY <1>2, <2>1
<1> HIDE DEF data
<1> QED BY <1>2, <1>3, <1>4, <1>5, <1>6 DEF VectorInv, Holding, Size, Room

LEMMA VectorBatch ==
  ASSUME NEW new \in Vec!Batches
  PROVE  new \in Seq(Values) /\ Len(new) \in Nat
<1>1. PICK n \in 1 .. MaxCount : new \in [1 .. n -> Values]
  BY DEF Vec!Batches
<1>2. n \in Nat
  BY VectorConstants
<1> QED BY <1>1, <1>2, FunctionIsSeq

LEMMA VectorSet ==
  ASSUME VectorInv, NEW start \in 0 .. MaxSize, NEW new \in Vec!Batches, Vec!Set(start, new)
  PROVE  VectorInv'
<1> DEFINE data == object.data
           l == Len(new)
<1>1. /\ object = [size |-> Size, capacity |-> Room, data |-> data]
      /\ ghost \in Seq(Values) /\ Size = Len(ghost) /\ Size \in Nat
      /\ Room \in Nat /\ Room > 0 /\ Size <= Room
      /\ DOMAIN data = Cells(Room)
      /\ \A i \in Cells(Size) : data[i] = ghost[i + 1]
  BY DEF VectorInv, Holding
<1>2. new \in Seq(Values) /\ l \in Nat /\ \A j \in 1 .. l : new[j] \in Values
  BY VectorBatch
<1>3. start \in Nat /\ start + l <= Size
  BY VectorConstants DEF Vec!Set, Size
<1> DEFINE data2 == [i \in Cells(Room) |-> IF i - start \in Cells(l) THEN new[i - start + 1] ELSE data[i]]
           items2 == [i \in 1 .. Size |-> IF i - start \in 1 .. l THEN new[i - start] ELSE ghost[i]]
<1>4. object' = [size |-> Size, capacity |-> Room, data |-> data2]
  <2> DEFINE data3 == [i \in DOMAIN data |-> IF i - start \in Vec!Cells(Len(new))
                                            THEN new[i - start + 1] ELSE data[i]]
  <2>1. object' = [object EXCEPT !.data = data3]
    BY DEF Vec!Set
  <2>2. data3 = data2
    BY <1>1 DEF Vec!Cells, Cells
  <2> HIDE DEF data2, data3
  <2> QED BY <1>1, <2>1, <2>2
<1>5. ghost' = items2
  BY <1>1 DEF Vec!Set
<1>6. items2 \in Seq(Values) /\ Len(items2) = Size
  <2>1. \A i \in 1 .. Size : ghost[i] \in Values
    BY <1>1
  <2>2. items2 \in [1 .. Size -> Values]
    BY <1>2, <2>1
  <2> HIDE DEF items2
  <2> QED BY <1>1, <2>2, FunctionIsSeq
<1>7. ASSUME NEW i \in Cells(Size) PROVE data2[i] = items2[i + 1]
  <2>1. i \in Cells(Room) /\ i + 1 \in 1 .. Size /\ i \in Int
    BY <1>1 DEF Cells
  <2>2. /\ (i - start \in Cells(l)) <=> ((i + 1) - start \in 1 .. l)
        /\ i - start + 1 = (i + 1) - start
    BY <1>2, <1>3, <2>1 DEF Cells
  <2>3. data[i] = ghost[i + 1]
    BY <1>1
  <2>4. data2[i] = IF i - start \in Cells(l) THEN new[i - start + 1] ELSE data[i]
    BY <2>1
  <2>5. items2[i + 1] = IF (i + 1) - start \in 1 .. l THEN new[(i + 1) - start] ELSE ghost[i + 1]
    BY <2>1
  <2> QED BY <2>2, <2>3, <2>4, <2>5
<1>8. DOMAIN data2 = Cells(Room)
  OBVIOUS
<1> HIDE DEF data2, items2, data
<1>9. Size' = Size /\ Room' = Room /\ object'.data = data2
  BY <1>4 DEF Size, Room
<1> QED BY <1>1, <1>4, <1>5, <1>6, <1>7, <1>8, <1>9 DEF VectorInv, Holding

LEMMA VectorInsert ==
  ASSUME VectorInv, NEW index \in 0 .. MaxSize, NEW new \in Vec!Batches, Vec!Insert(index, new)
  PROVE  VectorInv'
<1> DEFINE data == object.data
           l == Len(new)
           n == Size + l
           c == IF n > Room THEN Vec!Grown(Room, n) ELSE Room
<1>1. /\ object = [size |-> Size, capacity |-> Room, data |-> data]
      /\ ghost \in Seq(Values) /\ Size = Len(ghost) /\ Size \in Nat
      /\ Room \in Nat /\ Room > 0 /\ Size <= Room
      /\ DOMAIN data = Cells(Room)
      /\ \A i \in Cells(Size) : data[i] = ghost[i + 1]
  BY DEF VectorInv, Holding
<1>2. new \in Seq(Values) /\ l \in Nat /\ \A j \in 1 .. l : new[j] \in Values
  BY VectorBatch
<1>3. index \in Nat /\ index <= Size /\ n \in Nat
  BY <1>1, <1>2, VectorConstants DEF Vec!Insert, Size
<1>4. c \in Nat /\ c > 0 /\ n <= c
  <2>1. CASE n > Room
    <3>1. c = Vec!Grown(Room, n)
      BY <2>1
    <3> HIDE DEF c, n
    <3>2. c \in Nat /\ c > 0 /\ c >= n
      BY <1>1, <1>3, <3>1, GrownEnough
    <3> QED BY <1>3, <3>2
  <2>2. CASE ~(n > Room)
    BY <1>1, <1>3, <2>2
  <2> QED BY <2>1, <2>2
<1> DEFINE r == [i \in Cells(c) |-> IF i \in Cells(Room) THEN data[i] ELSE JUNK]
           data2 == [i \in Cells(c) |->
                       IF i - index \in Cells(l) THEN new[i - index + 1]
                       ELSE IF i - l \in index .. Size - 1 THEN r[i - l] ELSE r[i]]
           front == SubSeq(ghost, 1, index)
           back == SubSeq(ghost, index + 1, Size)
           items2 == front \o new \o back
<1>5. /\ object' = [size |-> n, capacity |-> c, data |-> data2] /\ ghost' = items2
  <2>1. object' = [size |-> n, capacity |-> c,
                   data |-> Vec!Inserted(Vec!Realloc(data, c), Size, index, new)]
    BY DEF Vec!Insert, Size, Room
  <2>2. Vec!Realloc(data, c) = r
    <3> HIDE DEF c, data
    <3> QED BY <1>1 DEF Vec!Realloc, Cells, Vec!Cells
  <2>3. DOMAIN r = Cells(c)
    OBVIOUS
  <2> HIDE DEF r, c, data, n
  <2>4. Vec!Inserted(r, Size, index, new) = data2
    BY <2>3 DEF Vec!Inserted, Cells, Vec!Cells
  <2>5. ghost' = items2
    BY <1>1 DEF Vec!Insert
  <2> QED BY <2>1, <2>2, <2>4, <2>5
<1>6. /\ front \in Seq(Values) /\ Len(front) = index /\ \A j \in 1 .. index : front[j] = ghost[j]
  <2>1. index \in 0 .. Len(ghost)
    BY <1>1, <1>3
  <2> HIDE DEF front
  <2>2. front \in Seq(Values) /\ Len(front) = index /\ front = [j \in 1 .. index |-> ghost[j]]
    BY <1>1, <2>1, PrefixFacts DEF front
  <2> QED BY <2>2
<1>7. /\ back \in Seq(Values) /\ Len(back) = Size - index
      /\ \A j \in 1 .. Size - index : back[j] = ghost[j + index]
  <2>1. index \in 0 .. Len(ghost) /\ Size - index \in Nat
    BY <1>1, <1>3
  <2>2. back = [j \in 1 .. Size - index |-> ghost[j + index]]
    BY <1>1, <2>1, SuffixAsFunction
  <2>3. \A j \in 1 .. Size - index : j + index \in 1 .. Size /\ ghost[j + index] \in Values
    BY <1>1, <1>3
  <2> HIDE DEF back
  <2>4. back \in [1 .. Size - index -> Values]
    BY <2>2, <2>3
  <2> QED BY <2>1, <2>2, <2>4, FunctionIsSeq
<1> HIDE DEF front, back
<1>8. /\ items2 \in Seq(Values) /\ Len(items2) = n
      /\ \A j \in 1 .. n : items2[j] = IF j <= index THEN ghost[j]
                                       ELSE IF j <= index + l THEN new[j - index]
                                       ELSE ghost[j - l]
  <2> DEFINE u == front \o new
             q == u \o back
  <2>1. /\ u \in Seq(Values) /\ Len(u) = index + l
        /\ \A j \in 1 .. index + l : u[j] = IF j <= index THEN front[j] ELSE new[j - index]
    BY <1>2, <1>6
  <2> HIDE DEF u
  <2>2. /\ q \in Seq(Values) /\ Len(q) = (index + l) + (Size - index)
        /\ \A j \in 1 .. (index + l) + (Size - index) :
             q[j] = IF j <= index + l THEN u[j] ELSE back[j - (index + l)]
    BY <1>7, <2>1
  <2>3. q = items2
    BY DEF u
  <2> HIDE DEF q, items2
  <2>4. (index + l) + (Size - index) = n
    BY <1>1, <1>2, <1>3
  <2>5. ASSUME NEW j \in 1 .. n
        PROVE  q[j] = IF j <= index THEN ghost[j]
                      ELSE IF j <= index + l THEN new[j - index] ELSE ghost[j - l]
    <3>1. q[j] = IF j <= index + l THEN u[j] ELSE back[j - (index + l)]
      BY <2>2, <2>4
    <3>2. CASE j <= index
      <4>1. j \in 1 .. index /\ j \in 1 .. index + l /\ j <= index + l
        BY <1>2, <1>3, <3>2
      <4> QED BY <1>6, <2>1, <3>1, <3>2, <4>1
    <3>3. CASE ~(j <= index) /\ j <= index + l
      <4>1. j \in 1 .. index + l
        BY <1>2, <1>3, <3>3
      <4> QED BY <2>1, <3>1, <3>3, <4>1
    <3>4. CASE ~(j <= index) /\ ~(j <= index + l)
      <4>1. j - (index + l) \in 1 .. Size - index /\ (j - (index + l)) + index = j - l
        BY <1>1, <1>2, <1>3, <3>4
      <4> QED BY <1>7, <3>1, <3>4, <4>1
    <3> QED BY <3>2, <3>3, <3>4
  <2> QED BY <2>2, <2>3, <2>4, <2>5
<1> HIDE DEF items2
<1>9. \A i \in Cells(Size) : r[i] = ghost[i + 1]
  <2>1. \A i \in Cells(Size) : i \in Cells(c) /\ i \in Cells(Room)
    <3> HIDE DEF c
    <3> QED BY <1>1, <1>2, <1>4 DEF Cells
  <2> QED BY <1>1, <2>1
<1> HIDE DEF r, c
<1>10. ASSUME NEW i \in Cells(n) PROVE data2[i] = items2[i + 1]
  <2>1. i \in Cells(c) /\ i + 1 \in 1 .. n /\ i \in Nat
    BY <1>1, <1>2, <1>3, <1>4 DEF Cells
  <2>2. data2[i] = IF i - index \in Cells(l) THEN new[i - index + 1]
                   ELSE IF i - l \in index .. Size - 1 THEN r[i - l] ELSE r[i]
    BY <2>1
  <2> HIDE DEF data2, n
  <2>3. items2[i + 1] = IF i + 1 <= index THEN ghost[i + 1]
                        ELSE IF i + 1 <= index + l THEN new[(i + 1) - index]
                        ELSE ghost[(i + 1) - l]
    BY <1>8, <2>1
  <2>4. CASE i + 1 <= index
    <3>1. i - index \notin Cells(l) /\ i - l \notin index .. Size - 1 /\ i \in Cells(Size)
      BY <1>1, <1>2, <1>3, <2>1, <2>4 DEF Cells
    <3> QED BY <1>9, <2>2, <2>3, <2>4, <3>1
  <2>5. CASE ~(i + 1 <= index) /\ i + 1 <= index + l
    <3>1. i - index \in Cells(l) /\ i - index + 1 = (i + 1) - index
      BY <1>1, <1>2, <1>3, <2>1, <2>5 DEF Cells
    <3> QED BY <2>2, <2>3, <2>5, <3>1
  <2>6. CASE ~(i + 1 <= index) /\ ~(i + 1 <= index + l)
    <3>1. /\ i - index \notin Cells(l) /\ i - l \in index .. Size - 1 /\ i - l \in Cells(Size)
          /\ (i - l) + 1 = (i + 1) - l
      BY <1>1, <1>2, <1>3, <2>1, <2>6 DEF Cells, n
    <3> QED BY <1>9, <2>2, <2>3, <2>6, <3>1
  <2> QED BY <2>4, <2>5, <2>6
<1>11. DOMAIN data2 = Cells(c)
  OBVIOUS
<1> HIDE DEF data2, n
<1>12. Size' = n /\ Room' = c /\ object'.data = data2
  BY <1>5 DEF Size, Room
<1> QED BY <1>3, <1>4, <1>5, <1>8, <1>10, <1>11, <1>12 DEF VectorInv, Holding

LEMMA VectorRemove ==
  ASSUME VectorInv, NEW index \in 0 .. MaxSize, NEW count \in 1 .. MaxCount,
         Vec!Remove(index, count)
  PROVE  VectorInv'
<1> DEFINE data == object.data
           n == Size - count
           c == IF n < Vec!Half(Room) THEN Vec!Half(Room) ELSE Room
<1>1. /\ object = [size |-> Size, capacity |-> Room, data |-> data]
      /\ ghost \in Seq(Values) /\ Size = Len(ghost) /\ Size \in Nat
      /\ Room \in Nat /\ Room > 0 /\ Size <= Room
      /\ DOMAIN data = Cells(Room)
      /\ \A i \in Cells(Size) : data[i] = ghost[i + 1]
  BY DEF VectorInv, Holding
<1>2. index \in Nat /\ count \in Nat /\ count > 0 /\ index + count <= Size
  BY VectorConstants DEF Vec!Remove, Size
<1>3. n \in Nat /\ index <= n /\ n < Size
  BY <1>1, <1>2
<1>4. c \in Nat /\ c > 0 /\ n <= c /\ c <= Room
  <2>1. Vec!Half(Room) \in Nat /\ Vec!Half(Room) <= Room
    BY <1>1, HalfFacts
  <2> HIDE DEF n
  <2> QED BY <1>1, <1>3, <2>1 DEF n
<1> DEFINE moved == [i \in Cells(Room) |-> IF i \in index .. n - 1 THEN data[i + count] ELSE data[i]]
           data2 == [i \in Cells(c) |-> IF i \in Cells(Room) THEN moved[i] ELSE JUNK]
           front == SubSeq(ghost, 1, index)
           back == SubSeq(ghost, (index + count) + 1, Size)
           items2 == front \o back
<1>5. /\ object' = [size |-> n, capacity |-> c, data |-> data2] /\ ghost' = items2
  <2> DEFINE moved3 == [i \in DOMAIN data |-> IF i \in index .. n - 1 THEN data[i + count] ELSE data[i]]
  <2>1. object' = [size |-> n, capacity |-> c, data |-> Vec!Realloc(moved3, c)]
    BY DEF Vec!Remove, Vec!Kept, Size, Room
  <2>2. moved3 = moved /\ DOMAIN moved = Cells(Room)
    BY <1>1
  <2> HIDE DEF moved, moved3, c, n
  <2>3. Vec!Realloc(moved, c) = data2
    BY <2>2 DEF Vec!Realloc, Cells, Vec!Cells
  <2>4. ghost' = items2
    BY <1>1 DEF Vec!Remove
  <2> HIDE DEF data2
  <2> QED BY <2>1, <2>2, <2>3, <2>4
<1>6. /\ front \in Seq(Values) /\ Len(front) = index /\ \A j \in 1 .. index : front[j] = ghost[j]
  <2>1. index \in 0 .. Len(ghost)
    BY <1>1, <1>2
  <2> HIDE DEF front
  <2>2. front \in Seq(Values) /\ Len(front) = index /\ front = [j \in 1 .. index |-> ghost[j]]
    BY <1>1, <2>1, PrefixFacts DEF front
  <2> QED BY <2>2
<1>7. /\ back \in Seq(Values) /\ Len(back) = n - index
      /\ \A j \in 1 .. n - index : back[j] = ghost[j + (index + count)]
  <2> DEFINE m == index + count
  <2>1. m \in 0 .. Len(ghost) /\ Size - m = n - index /\ n - index \in Nat
    BY <1>1, <1>2
  <2>2. back = [j \in 1 .. n - index |-> ghost[j + m]]
    <3> HIDE DEF m
    <3>1. SubSeq(ghost, m + 1, Len(ghost)) = [j \in 1 .. Len(ghost) - m |-> ghost[j + m]]
      BY <1>1, <2>1, SuffixAsFunction
    <3> QED BY <1>1, <2>1, <3>1 DEF m
  <2>3. \A j \in 1 .. n - index : j + m \in 1 .. Size /\ ghost[j + m] \in Values
    BY <1>1, <1>2
  <2> HIDE DEF back
  <2>4. back \in [1 .. n - index -> Values]
    BY <2>2, <2>3
  <2> QED BY <2>1, <2>2, <2>4, FunctionIsSeq
<1> HIDE DEF front, back
<1>8. /\ items2 \in Seq(Values) /\ Len(items2) = n
      /\ \A j \in 1 .. n : items2[j] = IF j <= index THEN ghost[j] ELSE ghost[j + count]
  <2>1. /\ items2 \in Seq(Values) /\ Len(items2) = index + (n - index)
        /\ \A j \in 1 .. index + (n - index) :
             items2[j] = IF j <= index THEN front[j] ELSE back[j - index]
    <3> DEFINE m == n - index
    <3>1. m \in Nat /\ index \in Nat /\ front \in Seq(Values) /\ Len(front) = index
          /\ back \in Seq(Values) /\ Len(back) = m
      BY <1>2, <1>3, <1>6, <1>7
    <3> HIDE DEF m
    <3>2. items2 = [j \in 1 .. index + m |-> IF j <= index THEN front[j] ELSE back[j - index]]
      BY <3>1, ConcatAsFunction
    <3>3. items2 \in Seq(Values) /\ Len(items2) = index + m
      BY <3>1
    <3> HIDE DEF items2
    <3> QED BY <3>2, <3>3 DEF m
  <2> HIDE DEF items2
  <2>2. index + (n - index) = n
    BY <1>2, <1>3
  <2>3. ASSUME NEW j \in 1 .. n PROVE items2[j] = IF j <= index THEN ghost[j] ELSE ghost[j + count]
    <3>1. items2[j] = IF j <= index THEN front[j] ELSE back[j - index]
      BY <2>1, <2>2
    <3>2. CASE j <= index
      <4>1. j \in 1 .. index
        BY <1>2, <3>2
      <4> QED BY <1>6, <3>1, <3>2, <4>1
    <3>3. CASE ~(j <= index)
      <4>1. j - index \in 1 .. n - index /\ (j - index) + (index + count) = j + count
        BY <1>2, <1>3, <3>3
      <4> QED BY <1>7, <3>1, <3>3, <4>1
    <3> QED BY <3>2, <3>3
  <2> QED BY <2>1, <2>2, <2>3
<1> HIDE DEF items2
<1>9. ASSUME NEW i \in Cells(n) PROVE data2[i] = items2[i + 1]
  <2> HIDE DEF c
  <2>1. /\ i \in Cells(c) /\ i \in Cells(Room) /\ i \in Cells(Size) /\ i + 1 \in 1 .. n /\ i \in Nat
    BY <1>1, <1>2, <1>3, <1>4 DEF Cells
  <2>2. data2[i] = IF i \in index .. n - 1 THEN data[i + count] ELSE data[i]
    BY <2>1
  <2> HIDE DEF data2, n
  <2>3. items2[i + 1] = IF i + 1 <= index THEN ghost[i + 1] ELSE ghost[(i + 1) + count]
    BY <1>8, <2>1
  <2>4. CASE i + 1 <= index
    <3>1. i \notin index .. n - 1
      BY <1>2, <2>1, <2>4
    <3> QED BY <1>1, <2>1, <2>2, <2>3, <2>4, <3>1
  <2>5. CASE ~(i + 1 <= index)
    <3>1. i \in index .. n - 1 /\ i + count \in Cells(Size) /\ (i + count) + 1 = (i + 1) + count
      <4>1. i + 1 <= n /\ n = Size - count
        BY <1>3, <2>1 DEF n
      <4>2. i \in index .. n - 1
        BY <1>2, <1>3, <2>1, <2>5, <4>1
      <4>3. i + count \in Nat /\ i + count <= Size - 1 /\ (i + count) + 1 = (i + 1) + count
        <5>1. i \in Nat /\ count \in Nat /\ Size \in Nat
          BY <1>1, <1>2, <2>1
        <5>2. i + 1 <= Size - count
          BY <4>1
        <5> QED BY <5>1, <5>2
      <4> QED BY <1>1, <4>2, <4>3 DEF Cells
    <3> QED BY <1>1, <2>2, <2>3, <2>5, <3>1
  <2> QED BY <2>4, <2>5
<1>10. DOMAIN data2 = Cells(c)
  OBVIOUS
<1> HIDE DEF data2, n, c
<1>11. Size' = n /\ Room' = c /\ object'.data = data2
  BY <1>5 DEF Size, Room
<1> QED BY <1>3, <1>4, <1>5, <1>8, <1>9, <1>10, <1>11 DEF VectorInv, Holding

LEMMA VectorStep == VectorInv /\ Vec!Next => VectorInv'
BY VectorSet, VectorInsert, VectorRemove DEF Vec!Next

LEMMA VectorImplies == VectorInv => Vec!VectorHolds
BY DEF VectorInv, Holding, Size, Room, Cells, Vec!Cells, Vec!VectorHolds

LEMMA LibraryVector == Spec => [](part = "vector" => VectorInv)
<1> DEFINE Inv == part = "vector" => VectorInv
<1>1. Init => Inv
  BY VectorStarts DEF Init
<1>2. Inv /\ [Next]_vars => Inv'
  <2> SUFFICES ASSUME Inv, [Next]_vars, part' = "vector" PROVE VectorInv'
    OBVIOUS
  <2>1. CASE UNCHANGED vars
    <3>1. object' = object /\ ghost' = ghost /\ part = "vector"
      BY <2>1 DEF vars
    <3>2. VectorInv
      BY <3>1
    <3> QED BY <3>1, <3>2 DEF VectorInv, Holding, Size, Room
  <2>2. CASE Next
    <3>1. part' = part /\ Vec!Next
      BY <2>2 DEF Next, UseHeap, UseVector, UseTree, UseMap, UseQueue, UseTimer, UseGetopt,
         UseHttp, UseSort, UseUrl, UseMd5, UseSerial
    <3> QED BY <3>1, VectorStep
  <2> QED BY <2>1, <2>2
<1> QED BY <1>1, <1>2, PTL DEF Spec

(* Whatever is set, inserted and removed, and however the block is doubled *)
(* and halved: it holds the items in order, has room for them, and is      *)
(* never so small that the doubling of bscl_vector_insert would not end.   *)
THEOREM LibraryVectorHolds == Spec => []VectorHolds
<1>1. (part = "vector" => VectorInv) => VectorHolds
  BY VectorImplies DEF VectorHolds
<1> QED BY <1>1, LibraryVector, PTL

-----------------------------------------------------------------------------
(* The heap. *)
Parent(i) == Heap!Parent(i)
HeapCells == Cells(Capacity)

Ordered(s, n) == \A x \in Cells(n) : s[Parent(x)] <= s[x]
RootLeast(s, n) == \A x \in Cells(n) : s[0] <= s[x]

LEMMA HeapConstants == Capacity \in Nat /\ Keys \subseteq Int
BY LibraryAssumption DEF Heap!HeapAssumption

LEMMA ParentFacts ==
  ASSUME NEW i \in Nat
  PROVE  /\ Parent(i) \in Nat /\ Parent(i) <= i /\ (i > 0 => Parent(i) < i)
         /\ i > 0 => i = 2 * Parent(i) + 1 \/ i = 2 * Parent(i) + 2
         /\ Parent(2 * i + 1) = i /\ Parent(2 * i + 2) = i
         /\ Parent(0) = 0
BY DEF Parent, Heap!Parent

(* A shuffle of a range is one of it alone. *)
LEMMA ShuffledWithin ==
  ASSUME NEW D, NEW range, NEW a, NEW b, range \subseteq D, Shuffled(a, b, D, range)
  PROVE  Shuffled(a, b, range, range)
<1>1. PICK f \in [D -> D] :
        /\ \A x, y \in D : f[x] = f[y] => x = y
        /\ \A y \in D : \E x \in D : f[x] = y
        /\ \A x \in D : x \notin range => f[x] = x
        /\ \A x \in D : x \in range => f[x] \in range
        /\ \A x \in D : a[x] = b[f[x]]
  BY DEF Shuffled
<1> DEFINE g == [x \in range |-> f[x]]
<1>2. g \in [range -> range] /\ \A x \in range : g[x] = f[x] /\ x \in D
  BY <1>1
<1> HIDE DEF g
<1>3. \A x, y \in range : g[x] = g[y] => x = y
  BY <1>1, <1>2
<1>4. \A y \in range : \E x \in range : g[x] = y
  <2> SUFFICES ASSUME NEW y \in range PROVE \E x \in range : g[x] = y
    OBVIOUS
  <2>1. PICK x \in D : f[x] = y
    BY <1>1, <1>2
  <2>2. x \in range
    BY <1>1, <2>1
  <2> QED BY <1>2, <2>1, <2>2
<1>5. \A x \in range : a[x] = b[g[x]]
  BY <1>1, <1>2
<1>6. \A x \in range : x \notin range => g[x] = x
  OBVIOUS
<1>7. \A x \in range : x \in range => g[x] \in range
  BY <1>2
<1> QED BY <1>2, <1>3, <1>4, <1>5, <1>6, <1>7, Zenon DEF Shuffled

(* One more cell, one more of its key *)
OftenMore(s, n, k) ==
  /\ Often(s, Cells(n), k) \in Nat
  /\ Often(s, Cells(n + 1), k) = Often(s, Cells(n), k) + (IF s[n] = k THEN 1 ELSE 0)

LEMMA OftenOneMore ==
  ASSUME NEW n \in Nat, NEW s, NEW k
  PROVE  OftenMore(s, n, k)
<1> DEFINE S == {x \in Cells(n) : s[x] = k}
           T == {x \in Cells(n + 1) : s[x] = k}
<1>1. IsFiniteSet(Cells(n))
  <2>1. 0 \in Int /\ n - 1 \in Int
    OBVIOUS
  <2> QED BY <2>1, FS_Interval DEF Cells
<1>2. IsFiniteSet(S) /\ Cardinality(S) \in Nat
  BY <1>1, FS_Subset, FS_CardinalityType
<1>3. T = IF s[n] = k THEN S \union {n} ELSE S
  <2>1. \A x : x \in Cells(n + 1) <=> x \in Cells(n) \/ x = n
    BY DEF Cells
  <2> QED BY <2>1
<1>4. n \notin S
  BY DEF Cells
<1> HIDE DEF S, T
<1>5. Cardinality(S \union {n}) = Cardinality(S) + 1
  BY <1>2, <1>4, FS_AddElement
<1>6. Cardinality(T) = Cardinality(S) + (IF s[n] = k THEN 1 ELSE 0)
  BY <1>2, <1>3, <1>5
<1> QED BY <1>2, <1>6 DEF OftenMore, Often, S, T

(* What one sift_down does: at most one swap, of c and its smaller child. *)
Sifted(r, s, n, c, l) ==
  /\ l \in Cells(n) /\ (l = c \/ l = 2 * c + 1 \/ l = 2 * c + 2)
  /\ r \in [HeapCells -> Keys] /\ Shuffled(r, s, HeapCells, Cells(n))
  /\ r[c] = s[l] /\ r[l] = s[c] /\ \A x \in HeapCells : x # c /\ x # l => r[x] = s[x]
  /\ r[c] <= s[c]
  /\ 2 * c + 1 < n => r[c] <= s[2 * c + 1]
  /\ 2 * c + 2 < n => r[c] <= s[2 * c + 2]

LEMMA SiftedDown ==
  ASSUME NEW n \in 0 .. Capacity, NEW s \in [HeapCells -> Keys], NEW c \in Cells(n),
         NEW r, r = Heap!SiftDown(s, n, c)
  PROVE  \E l \in Cells(n) : Sifted(r, s, n, c, l)
<1>1. Capacity \in Nat /\ n \in Nat /\ c \in Nat /\ c < n /\ n <= Capacity
  BY HeapConstants DEF Cells
<1>2. Cells(n) \subseteq HeapCells
  BY <1>1 DEF Cells, HeapCells
<1>3. \A x \in HeapCells : s[x] \in Int
  BY HeapConstants
<1> DEFINE least == Heap!Least(s, n, c)
<1>4. CASE 2 * c + 1 < n /\ s[c] > s[least]
  <2>1. least = 2 * c + 1 \/ least = 2 * c + 2
    BY DEF Heap!Least, Heap!Left, Heap!Right
  <2>2. least \in Cells(n) /\ 2 * c + 1 \in HeapCells /\ least \in HeapCells
    <3>1. least = 2 * c + 2 => 2 * c + 2 < n
      BY <1>1 DEF Heap!Least, Heap!Left, Heap!Right
    <3>2. 2 * c + 1 \in Cells(n)
      BY <1>1, <1>4 DEF Cells
    <3>3. 2 * c + 2 < n => 2 * c + 2 \in Cells(n)
      BY <1>1 DEF Cells
    <3> HIDE DEF least
    <3> QED BY <1>2, <2>1, <3>1, <3>2, <3>3
  <2>3. s[least] <= s[2 * c + 1] /\ (2 * c + 2 < n => s[least] <= s[2 * c + 2])
    <3>1. CASE 2 * c + 2 >= n \/ s[2 * c + 1] < s[2 * c + 2]
      <4>1. least = 2 * c + 1
        BY <3>1 DEF Heap!Least, Heap!Left, Heap!Right
      <4>2. 2 * c + 2 < n => 2 * c + 2 \in HeapCells
        BY <1>1, <1>2 DEF Cells
      <4> HIDE DEF least
      <4> QED BY <1>1, <1>3, <2>2, <3>1, <4>1, <4>2
    <3>2. CASE ~(2 * c + 2 >= n) /\ ~(s[2 * c + 1] < s[2 * c + 2])
      <4>1. least = 2 * c + 2
        BY <3>2 DEF Heap!Least, Heap!Left, Heap!Right
      <4> HIDE DEF least
      <4> QED BY <1>3, <2>2, <3>2, <4>1
    <3> QED BY <3>1, <3>2
  <2>4. r = Heap!Swapped(s, c, least)
    BY <1>4 DEF Heap!SiftDown, Heap!Left
  <2> HIDE DEF least
  <2>5. Heap!Swapped(s, c, least) = Sort!Swapped(s, c, least)
    BY DEF Heap!Swapped, Sort!Swapped
  <2>6. AfterSwap(r, s, HeapCells, Keys, Cells(n), c, least)
    BY <1>2, <2>2, <2>4, <2>5, SwappedShuffled
  <2>7. /\ r \in [HeapCells -> Keys] /\ r[c] = s[least] /\ r[least] = s[c]
        /\ \A x \in HeapCells : x # c /\ x # least => r[x] = s[x]
        /\ Shuffled(r, s, HeapCells, Cells(n))
    BY <2>6 DEF AfterSwap
  <2>8. r[c] <= s[c]
    BY <1>2, <1>3, <1>4, <2>2, <2>7
  <2> QED BY <2>1, <2>2, <2>3, <2>7, <2>8 DEF Sifted
<1>5. CASE ~(2 * c + 1 < n /\ s[c] > s[least])
  <2>1. r = s
    BY <1>5 DEF Heap!SiftDown, Heap!Left
  <2>2. Shuffled(r, s, HeapCells, Cells(n))
    BY <2>1, ShuffledSame
  <2>3. c \in HeapCells /\ (2 * c + 1 < n => 2 * c + 1 \in HeapCells)
        /\ (2 * c + 2 < n => 2 * c + 2 \in HeapCells)
    BY <1>1, <1>2 DEF Cells
  <2>4. 2 * c + 1 < n => s[c] <= s[2 * c + 1]
    <3> SUFFICES ASSUME 2 * c + 1 < n PROVE s[c] <= s[2 * c + 1]
      OBVIOUS
    <3>1. CASE 2 * c + 2 >= n \/ s[2 * c + 1] < s[2 * c + 2]
      <4>1. least = 2 * c + 1
        BY <3>1 DEF Heap!Least, Heap!Left, Heap!Right
      <4> HIDE DEF least
      <4> QED BY <1>3, <1>5, <2>3, <4>1
    <3>2. CASE ~(2 * c + 2 >= n) /\ ~(s[2 * c + 1] < s[2 * c + 2])
      <4>1. least = 2 * c + 2
        BY <3>2 DEF Heap!Least, Heap!Left, Heap!Right
      <4> HIDE DEF least
      <4>2. 2 * c + 2 < n
        BY <1>1, <3>2
      <4> QED BY <1>3, <1>5, <2>3, <3>2, <4>1, <4>2
    <3> QED BY <3>1, <3>2
  <2>5. 2 * c + 2 < n => s[c] <= s[2 * c + 2]
    <3> SUFFICES ASSUME 2 * c + 2 < n PROVE s[c] <= s[2 * c + 2]
      OBVIOUS
    <3>1. 2 * c + 1 < n /\ ~(2 * c + 2 >= n)
      BY <1>1
    <3>2. CASE s[2 * c + 1] < s[2 * c + 2]
      BY <1>3, <2>3, <2>4, <3>1, <3>2
    <3>3. CASE ~(s[2 * c + 1] < s[2 * c + 2])
      <4>1. least = 2 * c + 2
        BY <3>1, <3>3 DEF Heap!Least, Heap!Left, Heap!Right
      <4> HIDE DEF least
      <4> QED BY <1>3, <1>5, <2>3, <3>1, <4>1
    <3> QED BY <3>2, <3>3
  <2>6. s[c] <= s[c]
    BY <1>3, <2>3
  <2>7. Sifted(r, s, n, c, c)
    BY <2>1, <2>2, <2>4, <2>5, <2>6 DEF Sifted
  <2> QED BY <2>7
<1> QED BY <1>4, <1>5

(* Below i each tree is rooted in a least cell: what init has done when it *)
(* has come down to i.                                                     *)
Forest(s, cell, n, i) ==
  /\ s \in [HeapCells -> Keys] /\ Shuffled(s, cell, HeapCells, Cells(n))
  /\ \A x \in Cells(n) : x >= i =>
       \E j \in Cells(n) : j >= i /\ (j = 0 \/ Parent(j) < i) /\ s[j] <= s[x]

LEMMA ForestStep ==
  ASSUME NEW n \in 0 .. Capacity, NEW cell, NEW s, NEW i \in Cells(n), Forest(s, cell, n, i + 1),
         NEW r, r = Heap!SiftDown(s, n, i)
  PROVE  Forest(r, cell, n, i)
<1>1. Capacity \in Nat /\ n \in Nat /\ i \in Nat /\ i < n /\ n <= Capacity
  BY HeapConstants DEF Cells
<1>2. Cells(n) \subseteq HeapCells /\ Cells(n) \subseteq Nat
  BY <1>1 DEF Cells, HeapCells
<1>3. s \in [HeapCells -> Keys] /\ Shuffled(s, cell, HeapCells, Cells(n))
  BY DEF Forest
<1>4. PICK l \in Cells(n) : Sifted(r, s, n, i, l)
  BY <1>3, SiftedDown
<1>5. /\ l = i \/ l = 2 * i + 1 \/ l = 2 * i + 2
      /\ r \in [HeapCells -> Keys] /\ Shuffled(r, s, HeapCells, Cells(n))
      /\ r[i] = s[l] /\ r[l] = s[i] /\ \A x \in HeapCells : x # i /\ x # l => r[x] = s[x]
      /\ r[i] <= s[i]
      /\ 2 * i + 1 < n => r[i] <= s[2 * i + 1]
      /\ 2 * i + 2 < n => r[i] <= s[2 * i + 2]
  BY <1>4 DEF Sifted
<1>6. Shuffled(r, cell, HeapCells, Cells(n))
  BY <1>3, <1>5, ShuffledAgain
<1>7. \A x \in Cells(n) : s[x] \in Int /\ r[x] \in Int
  BY <1>2, <1>3, <1>5, HeapConstants
<1>8. \A j \in Cells(n) : j > i /\ Parent(j) = i => r[i] <= s[j]
  <2> SUFFICES ASSUME NEW j \in Cells(n), j > i, Parent(j) = i PROVE r[i] <= s[j]
    OBVIOUS
  <2>1. j \in Nat /\ j < n
    BY <1>1, <1>2 DEF Cells
  <2>2. j > 0 => j = 2 * Parent(j) + 1 \/ j = 2 * Parent(j) + 2
    BY <2>1, ParentFacts, Zenon
  <2>3. j = 2 * i + 1 \/ j = 2 * i + 2
    BY <1>1, <2>1, <2>2
  <2> QED BY <1>5, <2>1, <2>3
<1>9. \A j \in Cells(n) : j > i /\ Parent(j) < i => r[j] = s[j]
  <2> SUFFICES ASSUME NEW j \in Cells(n), j > i, Parent(j) < i PROVE r[j] = s[j]
    OBVIOUS
  <2>1. Parent(2 * i + 1) = i /\ Parent(2 * i + 2) = i
    BY <1>1, ParentFacts
  <2>2. Parent(j) # i /\ j # i /\ j \in HeapCells
    BY <1>1, <1>2
  <2> QED BY <1>5, <2>1, <2>2
<1>10. ASSUME NEW x \in Cells(n), x >= i
       PROVE  \E j \in Cells(n) : j >= i /\ (j = 0 \/ Parent(j) < i) /\ r[j] <= r[x]
  <2>1. i >= i /\ (i = 0 \/ Parent(i) < i)
    BY <1>1, ParentFacts
  <2>2. CASE r[i] <= r[x]
    BY <2>1, <2>2
  <2>3. CASE ~(r[i] <= r[x])
    <3>1. x # i /\ x # l /\ x \in HeapCells /\ x \in Nat
      BY <1>2, <1>5, <1>7, <2>3
    <3>2. r[x] = s[x] /\ x >= i + 1
      BY <1>1, <1>5, <1>10, <3>1
    <3>3. PICK j \in Cells(n) : j >= i + 1 /\ (j = 0 \/ Parent(j) < i + 1) /\ s[j] <= s[x]
      BY <3>2 DEF Forest
    <3>4. j \in Nat /\ j > i /\ Parent(j) \in Nat /\ Parent(j) <= i
      BY <1>1, <1>2, <3>3, ParentFacts
    <3>5. Parent(j) # i
      BY <1>7, <1>8, <2>3, <3>2, <3>3, <3>4
    <3>6. Parent(j) < i /\ j >= i
      BY <1>1, <3>4, <3>5
    <3>7. r[j] <= r[x]
      BY <1>9, <3>2, <3>3, <3>4, <3>6
    <3> QED BY <3>6, <3>7
  <2> QED BY <2>2, <2>3
<1> QED BY <1>5, <1>6, <1>10 DEF Forest

Filled(r, cell, n) ==
  r \in [HeapCells -> Keys] /\ Shuffled(r, cell, HeapCells, Cells(n)) /\ RootLeast(r, n)

LEMMA HeapifiedFilled ==
  ASSUME NEW n \in 0 .. Capacity, NEW cell \in [HeapCells -> Keys],
         NEW h, h = Heap!Heapified(cell, n)
  PROVE  Filled(h, cell, n)
<1>1. CASE n = 0
  <2>1. h = cell
    BY <1>1 DEF Heap!Heapified
  <2>2. Cells(n) = {}
    BY <1>1 DEF Cells
  <2> QED BY <2>1, <2>2, ShuffledSame DEF Filled, RootLeast
<1>2. CASE n # 0
  <2> DEFINE low(i) == i > Parent(n - 1)
             one(s, i) == IF low(i) THEN cell ELSE Heap!SiftDown(s, n, i)
             steps(g) == [i \in 0 .. n |-> IF low(i) THEN cell ELSE Heap!SiftDown(g[i + 1], n, i)]
             from == CHOOSE g : g = steps(g)
             A == [HeapCells -> Keys]
             step == [k \in 1 .. n |-> [s \in A |-> one(s, n - k)]]
  <2>1. n \in Nat /\ n > 0 /\ n - 1 \in Nat /\ Cells(n) = 0 .. n - 1 /\ low(n)
    <3>1. n \in Nat /\ n > 0 /\ n - 1 \in Nat
      BY <1>2, HeapConstants
    <3>2. Parent(n - 1) \in Nat /\ Parent(n - 1) <= n - 1
      BY <3>1, ParentFacts
    <3> QED BY <3>1, <3>2 DEF Cells
  <2>2. \A i \in Cells(n) : low(i) => \A x \in Cells(n) : x >= i => Parent(x) < i \/ x = 0
    <3> SUFFICES ASSUME NEW i \in Cells(n), low(i), NEW x \in Cells(n), x >= i
                 PROVE  Parent(x) < i \/ x = 0
      OBVIOUS
    <3>1. x \in Nat /\ i \in Nat /\ x <= n - 1
      BY <2>1
    <3>2. Parent(x) <= Parent(n - 1)
      BY <2>1, <3>1 DEF Parent, Heap!Parent
    <3>3. Parent(x) \in Nat /\ Parent(n - 1) \in Nat
      BY <2>1, <3>1, ParentFacts
    <3> QED BY <3>1, <3>2, <3>3
  <2>3. h = from[0]
    BY <1>2 DEF Heap!Heapified, Parent
  <2> HIDE DEF low
  <2>4. \A s \in A, i \in Cells(n) : one(s, i) \in A
    <3> SUFFICES ASSUME NEW s \in A, NEW i \in Cells(n) PROVE one(s, i) \in A
      OBVIOUS
    <3>1. PICK l \in Cells(n) : Sifted(Heap!SiftDown(s, n, i), s, n, i, l)
      BY SiftedDown
    <3> QED BY <3>1 DEF Sifted
  <2> HIDE DEF A, one
  <2>5. step \in [1 .. n -> [A -> A]] /\ cell \in A
    <3>1. \A k \in 1 .. n : n - k \in Cells(n)
      BY <2>1
    <3> QED BY <2>4, <3>1 DEF A
  <2> HIDE DEF step
  <2>6. PICK f : Recursive(f, A, cell, n, step)
    BY <2>1, <2>5, Recursion
  <2>7. f \in [0 .. n -> A] /\ f[0] = cell /\ \A k \in 1 .. n : f[k] = step[k][f[k - 1]]
    BY <2>6 DEF Recursive
  <2>8. \A k \in 1 .. n : f[k - 1] \in A /\ f[k] = one(f[k - 1], n - k)
    <3> SUFFICES ASSUME NEW k \in 1 .. n PROVE f[k - 1] \in A /\ f[k] = one(f[k - 1], n - k)
      OBVIOUS
    <3>1. k - 1 \in 0 .. n
      BY <2>1
    <3>2. f[k - 1] \in A
      BY <2>7, <3>1
    <3> QED BY <2>7, <3>2 DEF step
  <2> DEFINE g == [i \in 0 .. n |-> f[n - i]]
  <2>9. g = steps(g)
    <3>1. ASSUME NEW i \in 0 .. n
          PROVE  f[n - i] = IF low(i) THEN cell ELSE Heap!SiftDown(g[i + 1], n, i)
      <4>1. CASE i = n
        <5>1. n - i = 0
          BY <2>1, <4>1
        <5> QED BY <2>1, <2>7, <4>1, <5>1
      <4>2. CASE i # n
        <5>1. n - i \in 1 .. n /\ i + 1 \in 0 .. n /\ n - (n - i) = i /\ (n - i) - 1 = n - (i + 1)
          BY <2>1, <4>2
        <5>2. g[i + 1] = f[(n - i) - 1]
          BY <5>1
        <5>3. f[n - i] = one(f[(n - i) - 1], i)
          BY <2>8, <5>1
        <5> HIDE DEF g
        <5> QED BY <5>2, <5>3 DEF one
      <4> QED BY <4>1, <4>2
    <3> QED BY <3>1
  <2>10. from = steps(from)
    <3> HIDE DEF steps, g
    <3> QED BY <2>9
  <2> HIDE DEF from
  <2>11. \A i \in 0 .. n : from[i] = one(from[i + 1], i)
    BY <2>10 DEF one
  <2> DEFINE H == {k \in 0 .. n : Forest(from[n - k], cell, n, n - k)}
  <2>12. 0 \in H
    <3>1. from[n] = cell
      BY <2>1, <2>11 DEF one
    <3>2. \A x \in Cells(n) : ~(x >= n)
      BY <2>1
    <3>3. Forest(cell, cell, n, n)
      BY <3>2, ShuffledSame DEF Forest
    <3>4. n - 0 = n
      BY <2>1
    <3> QED BY <2>1, <3>1, <3>3, <3>4
  <2>13. ASSUME NEW k \in 1 .. n, k - 1 \in H PROVE k \in H
    <3> DEFINE i == n - k
    <3>1. i \in Cells(n) /\ i + 1 = n - (k - 1) /\ i \in 0 .. n
      BY <2>1
    <3>2. Forest(from[i + 1], cell, n, i + 1)
      BY <2>13, <3>1
    <3>3. from[i] = one(from[i + 1], i)
      BY <2>11, <3>1
    <3> HIDE DEF i
    <3>4. Forest(from[i], cell, n, i)
      <4>1. CASE low(i)
        <5>1. \A x \in Cells(n) : x >= i => Parent(x) < i \/ x = 0
          BY <2>2, <3>1, <4>1
        <5>2. \A x \in Cells(n) : cell[x] <= cell[x]
          <6>1. \A x \in Cells(n) : cell[x] \in Int
            <7>1. Cells(n) \subseteq HeapCells
              BY <2>1, HeapConstants DEF HeapCells, Cells
            <7> QED BY <7>1, HeapConstants
          <6> QED BY <6>1
        <5>3. from[i] = cell
          BY <3>3, <4>1 DEF one
        <5>4. Forest(cell, cell, n, i)
          BY <5>1, <5>2, ShuffledSame DEF Forest
        <5> QED BY <5>3, <5>4
      <4>2. CASE ~low(i)
        <5>1. from[i] = Heap!SiftDown(from[i + 1], n, i)
          BY <3>3, <4>2 DEF one
        <5> QED BY <3>1, <3>2, <5>1, ForestStep
      <4> QED BY <4>1, <4>2
    <3> QED BY <3>4 DEF i
  <2>14. n \in H
    <3> HIDE DEF H
    <3>1. 0 .. n \subseteq H
      BY <2>1, <2>12, <2>13, UpTo
    <3> QED BY <2>1, <3>1
  <2>15. Forest(h, cell, n, 0)
    <3>1. n - n = 0
      BY <2>1
    <3> QED BY <2>3, <2>14, <3>1
  <2>16. \A x \in Cells(n) : h[0] <= h[x]
    <3> SUFFICES ASSUME NEW x \in Cells(n) PROVE h[0] <= h[x]
      OBVIOUS
    <3>1. x >= 0
      BY <2>1
    <3>2. PICK j \in Cells(n) : (j = 0 \/ Parent(j) < 0) /\ h[j] <= h[x]
      BY <2>15, <3>1 DEF Forest
    <3>3. j \in Nat
      BY <2>1
    <3>5. Parent(j) \in Nat
      BY <3>3, ParentFacts
    <3>4. j = 0
      BY <3>2, <3>5
    <3> QED BY <3>2, <3>4
  <2> QED BY <2>15, <2>16 DEF Filled, Forest, RootLeast
<1> QED BY <1>1, <1>2

(* On its way up the key of cell c is at u; but for it all is in order.    *)
Climbed(s, cell, c, u) ==
  /\ s \in [HeapCells -> Keys] /\ u \in Cells(c + 1) /\ s[u] = cell[c]
  /\ Shuffled(s, cell, HeapCells, Cells(c + 1))
  /\ \A x \in Cells(c + 1) : x < u => s[x] = cell[x]
  /\ u = c \/ cell[c] < cell[u]
  /\ Ordered(cell, c) =>
       /\ \A x \in Cells(c + 1) : x # u => s[Parent(x)] <= s[x]
       /\ u > 0 => \A x \in Cells(c + 1) : Parent(x) = u => s[Parent(u)] <= s[x]

LEMMA ClimbStarts ==
  ASSUME NEW c \in HeapCells, NEW cell \in [HeapCells -> Keys]
  PROVE  Climbed(cell, cell, c, c)
<1>1. c \in Nat /\ c \in Cells(c + 1)
  BY HeapConstants DEF HeapCells, Cells
<1>2. \A x \in Cells(c + 1) : x \in Nat /\ x <= c /\ (x # c => x \in Cells(c))
  BY <1>1 DEF Cells
<1>3. ASSUME c > 0, NEW x \in Cells(c + 1), Parent(x) = c PROVE FALSE
  <2>1. x \in Nat /\ x <= c
    BY <1>2
  <2>2. Parent(x) <= x /\ (x > 0 => Parent(x) < x)
    BY <2>1, ParentFacts
  <2> QED BY <1>1, <1>3, <2>1, <2>2
<1> QED BY <1>1, <1>2, <1>3, ShuffledSame DEF Climbed, Ordered

LEMMA ClimbStep ==
  ASSUME NEW c \in HeapCells, NEW cell \in [HeapCells -> Keys], NEW s, NEW u, Climbed(s, cell, c, u),
         u > 0, cell[c] < cell[Parent(u)],
         NEW r, r = Heap!Swapped(s, u, Parent(u))
  PROVE  Climbed(r, cell, c, Parent(u))
<1> DEFINE p == Parent(u)
           D == Cells(c + 1)
<1>1. c \in Nat /\ D \subseteq HeapCells /\ \A x \in D : x \in Nat /\ x <= c
  BY HeapConstants DEF HeapCells, Cells
<1>2. /\ s \in [HeapCells -> Keys] /\ u \in D /\ s[u] = cell[c]
      /\ Shuffled(s, cell, HeapCells, D)
      /\ \A x \in D : x < u => s[x] = cell[x]
      /\ Ordered(cell, c) =>
           /\ \A x \in D : x # u => s[Parent(x)] <= s[x]
           /\ \A x \in D : Parent(x) = u => s[p] <= s[x]
  BY DEF Climbed
<1>3. u \in Nat /\ p \in Nat /\ p < u
  BY <1>1, <1>2, ParentFacts
<1>4. p \in D
  BY <1>1, <1>2, <1>3 DEF Cells
<1>5. \A x \in D : Parent(x) \in D
  <2> SUFFICES ASSUME NEW x \in D PROVE Parent(x) \in D
    OBVIOUS
  <2>1. x \in Nat /\ x <= c
    BY <1>1
  <2>2. Parent(x) \in Nat /\ Parent(x) <= x
    BY <2>1, ParentFacts
  <2> QED BY <1>1, <2>1, <2>2 DEF Cells
<1>6. \A x \in D : x > 0 => Parent(x) < x
  BY <1>1, ParentFacts
<1>7. r = Sort!Swapped(s, u, p)
  BY DEF Heap!Swapped, Sort!Swapped
<1> HIDE DEF p, D
<1>8. AfterSwap(r, s, HeapCells, Keys, D, u, p)
  <2>1. AfterSwap(Sort!Swapped(s, u, p), s, HeapCells, Keys, D, u, p)
    BY <1>1, <1>2, <1>4, SwappedShuffled, Zenon
  <2> QED BY <1>7, <2>1
<1>9. /\ r \in [HeapCells -> Keys] /\ r[u] = s[p] /\ r[p] = s[u]
      /\ \A x \in D : x # u /\ x # p => r[x] = s[x]
      /\ Shuffled(r, s, HeapCells, D)
  BY <1>1, <1>8 DEF AfterSwap
<1>10. Shuffled(r, cell, HeapCells, D)
  BY <1>2, <1>9, ShuffledAgain
<1>11. \A x \in D : x < p => r[x] = cell[x]
  <2> SUFFICES ASSUME NEW x \in D, x < p PROVE r[x] = cell[x]
    OBVIOUS
  <2>1. x \in Nat /\ x # p /\ x # u /\ x < u
    BY <1>1, <1>3
  <2> QED BY <1>2, <1>9, <2>1
<1>12. \A x \in D : s[x] \in Int /\ cell[x] \in Int
  BY <1>1, <1>2, HeapConstants
<1>13. s[p] = cell[p] /\ s[u] < s[p] /\ c \in D
  <2>1. cell[c] < cell[p]
    BY DEF p
  <2>2. c \in D
    BY <1>1 DEF D, Cells
  <2> QED BY <1>2, <1>3, <1>4, <2>1, <2>2
<1>14. ASSUME Ordered(cell, c), NEW x \in D, x # p
       PROVE  r[Parent(x)] <= r[x]
  <2>1. x # u => s[Parent(x)] <= s[x]
    BY <1>2, <1>14
  <2>2. Parent(x) \in D
    BY <1>5
  <2>3. CASE x = u
    <3>1. Parent(x) = p
      BY <2>3 DEF p
    <3> QED BY <1>4, <1>2, <1>9, <1>12, <1>13, <2>3, <3>1
  <2>4. CASE x # u /\ Parent(x) = p
    BY <1>2, <1>4, <1>9, <1>12, <1>13, <1>14, <2>1, <2>4
  <2>5. CASE x # u /\ Parent(x) = u
    BY <1>2, <1>9, <1>14, <2>5
  <2>6. CASE x # u /\ Parent(x) # u /\ Parent(x) # p
    BY <1>9, <1>14, <2>1, <2>2, <2>6
  <2> QED BY <2>3, <2>4, <2>5, <2>6
<1>15. ASSUME Ordered(cell, c), p > 0, NEW x \in D, Parent(x) = p
       PROVE  r[Parent(p)] <= r[x]
  <2> DEFINE q == Parent(p)
  <2>1. q \in D /\ q < p
    BY <1>4, <1>5, <1>6, <1>15
  <2> HIDE DEF q
  <2>2. q # p /\ q # u /\ p # u /\ q \in Nat
    BY <1>1, <1>3, <2>1
  <2>3. s[q] <= s[p]
    BY <1>2, <1>4, <1>15, <2>2 DEF q
  <2>4. r[q] = s[q]
    BY <1>9, <2>1, <2>2
  <2>5. CASE x = u
    BY <1>9, <2>3, <2>4, <2>5 DEF q
  <2>6. CASE x # u
    <3>1. x # p
      BY <1>15, <2>2 DEF q
    <3>2. s[p] <= s[x]
      BY <1>2, <1>15, <2>6
    <3>3. r[x] = s[x]
      BY <1>9, <2>6, <3>1
    <3> QED BY <1>4, <1>12, <2>1, <2>3, <2>4, <3>2, <3>3 DEF q
  <2> QED BY <2>5, <2>6
<1>16. r[p] = cell[c] /\ cell[c] < cell[p]
  BY <1>2, <1>9, <1>13
<1> QED BY <1>4, <1>9, <1>10, <1>11, <1>14, <1>15, <1>16 DEF Climbed, p, D

(* What one insertion does to the cells *)
SiftedUp(r, cell, c) ==
  /\ r \in [HeapCells -> Keys] /\ Shuffled(r, cell, HeapCells, Cells(c + 1))
  /\ Ordered(cell, c) => Ordered(r, c + 1)
  /\ RootLeast(cell, c) => RootLeast(r, c + 1)

LEMMA ClimbEnds ==
  ASSUME NEW c \in HeapCells, NEW cell \in [HeapCells -> Keys], NEW s, NEW u, Climbed(s, cell, c, u),
         u = 0 \/ ~(cell[c] < cell[Parent(u)])
  PROVE  SiftedUp(s, cell, c)
<1> DEFINE D == Cells(c + 1)
<1>1. c \in Nat /\ c \in D /\ 0 \in D /\ D \subseteq HeapCells
      /\ \A x \in D : x \in Nat /\ x <= c /\ (x # c => x \in Cells(c))
  BY HeapConstants DEF HeapCells, Cells
<1>2. /\ s \in [HeapCells -> Keys] /\ u \in D /\ s[u] = cell[c]
      /\ Shuffled(s, cell, HeapCells, D)
      /\ \A x \in D : x < u => s[x] = cell[x]
      /\ u = c \/ cell[c] < cell[u]
      /\ Ordered(cell, c) => \A x \in D : x # u => s[Parent(x)] <= s[x]
  BY DEF Climbed
<1>3. Parent(u) \in Nat /\ (u > 0 => Parent(u) < u) /\ Parent(0) = 0 /\ u \in Nat /\ u <= c
  BY <1>1, <1>2, ParentFacts
<1>4. Parent(u) \in D
  BY <1>1, <1>3 DEF Cells
<1> HIDE DEF D
<1>5. \A x \in D : s[x] \in Int /\ cell[x] \in Int
  BY <1>1, <1>2, HeapConstants
<1>6. u = 0 \/ (s[Parent(u)] = cell[Parent(u)] /\ cell[Parent(u)] <= cell[c])
  BY <1>1, <1>2, <1>3, <1>4, <1>5
<1>7. ASSUME Ordered(cell, c) PROVE Ordered(s, c + 1)
  <2> SUFFICES ASSUME NEW x \in D PROVE s[Parent(x)] <= s[x]
    BY DEF Ordered, D
  <2>1. CASE x = u
    BY <1>2, <1>3, <1>5, <1>6, <2>1
  <2>2. CASE x # u
    BY <1>2, <1>7, <2>2
  <2> QED BY <2>1, <2>2
<1>8. ASSUME RootLeast(cell, c) PROVE RootLeast(s, c + 1)
  <2>1. \A y \in D : s[0] <= cell[y]
    <3> SUFFICES ASSUME NEW y \in D PROVE s[0] <= cell[y]
      OBVIOUS
    <3>1. y # c => cell[0] <= cell[y]
      BY <1>1, <1>8 DEF RootLeast
    <3>2. CASE u = 0
      <4>1. s[0] = cell[c]
        BY <1>2, <3>2
      <4>2. CASE c = 0
        BY <1>1, <1>5, <4>1, <4>2
      <4>3. CASE c # 0
        BY <1>1, <1>2, <1>5, <3>1, <3>2, <4>1, <4>3
      <4> QED BY <4>2, <4>3
    <3>3. CASE u # 0
      <4> DEFINE p == Parent(u)
      <4>1. 0 < u /\ p \in Cells(c)
        BY <1>1, <1>3, <1>4, <3>3
      <4>2. s[0] = cell[0] /\ cell[0] <= cell[p] /\ cell[p] <= cell[c]
        BY <1>1, <1>2, <1>6, <1>8, <3>3, <4>1 DEF RootLeast
      <4>3. p \in D
        BY <1>4
      <4> HIDE DEF p
      <4> QED BY <1>1, <1>5, <3>1, <4>2, <4>3
    <3> QED BY <3>2, <3>3
  <2>2. PICK f \in [HeapCells -> HeapCells] :
          /\ \A x \in HeapCells : x \in D => f[x] \in D
          /\ \A x \in HeapCells : s[x] = cell[f[x]]
    BY <1>2 DEF Shuffled
  <2>3. \A x \in D : s[0] <= s[x]
    BY <1>1, <2>1, <2>2
  <2> QED BY <2>3 DEF RootLeast, D
<1> QED BY <1>2, <1>7, <1>8 DEF SiftedUp, D

LEMMA SiftUpDone ==
  ASSUME NEW c \in HeapCells, NEW cell \in [HeapCells -> Keys], NEW h, h = Heap!SiftUp(cell, c)
  PROVE  SiftedUp(h, cell, c)
<1> DEFINE N == Capacity
           A == [HeapCells -> Keys]
           upSteps(g) == [i \in 0 .. N |-> IF i = 0 THEN c ELSE Parent(g[i - 1])]
           up == CHOOSE g : g = upSteps(g)
           upStep == [i \in 1 .. N |-> [d \in Nat |-> Parent(d)]]
           steps == {i \in 0 .. c : \A j \in 1 .. i : up[j - 1] > 0 /\ cell[c] < cell[up[j]]}
           one(s, i) == Heap!Swapped(s, up[i - 1], up[i])
           climbSteps(g) == [i \in steps |-> IF i = 0 THEN cell ELSE one(g[i - 1], i)]
           climb == CHOOSE g : g = climbSteps(g)
           last == CHOOSE i \in steps : \A j \in steps : j <= i
<1>1. N \in Nat /\ c \in Nat /\ c < N
  BY HeapConstants DEF HeapCells, Cells
<1>2. h = climb[last]
  BY DEF Heap!SiftUp, Parent
<1> HIDE DEF climb, last, N
<1>3. \A i \in 0 .. N : up[i] = IF i = 0 THEN c ELSE Parent(up[i - 1])
  <2>1. upStep \in [1 .. N -> [Nat -> Nat]]
    BY ParentFacts
  <2> HIDE DEF upStep
  <2>2. PICK f : Recursive(f, Nat, c, N, upStep)
    BY <1>1, <2>1, Recursion
  <2>3. f \in [0 .. N -> Nat] /\ f[0] = c /\ \A i \in 1 .. N : f[i] = upStep[i][f[i - 1]]
    BY <2>2 DEF Recursive
  <2>4. f = upSteps(f)
    <3>1. ASSUME NEW i \in 0 .. N PROVE f[i] = IF i = 0 THEN c ELSE Parent(f[i - 1])
      <4>1. CASE i = 0
        BY <2>3, <4>1
      <4>2. CASE i # 0
        <5>1. i \in 1 .. N /\ i - 1 \in 0 .. N
          BY <1>1, <4>2
        <5>2. f[i - 1] \in Nat /\ f[i] = upStep[i][f[i - 1]]
          BY <2>3, <5>1
        <5> QED BY <4>2, <5>1, <5>2 DEF upStep
      <4> QED BY <4>1, <4>2
    <3> QED BY <2>3, <3>1
  <2>5. up = upSteps(up)
    <3> HIDE DEF upSteps
    <3> QED BY <2>4
  <2> HIDE DEF up
  <2> QED BY <2>5
<1> HIDE DEF up
<1> DEFINE high(i) == up[i] \in Nat /\ (i \in steps => up[i] + i <= c)
           U == {i \in 0 .. c : high(i)}
<1>4. 0 \in U
  BY <1>1, <1>3
<1>5. \A i \in steps : i \in 0 .. c /\ \A j \in 1 .. i : up[j - 1] > 0 /\ cell[c] < cell[up[j]]
  OBVIOUS
<1>6. \A i \in 1 .. c : i \in steps => i - 1 \in steps
  BY <1>1
<1>7. \A i \in 1 .. c : i - 1 \in steps /\ up[i - 1] > 0 /\ cell[c] < cell[up[i]] => i \in steps
  <2> SUFFICES ASSUME NEW i \in 1 .. c, i - 1 \in steps, up[i - 1] > 0, cell[c] < cell[up[i]],
                      NEW j \in 1 .. i
               PROVE  up[j - 1] > 0 /\ cell[c] < cell[up[j]]
    BY <1>1
  <2>1. CASE j = i
    BY <2>1
  <2>2. CASE j # i
    <3>1. j \in 1 .. i - 1
      BY <2>2
    <3> HIDE DEF steps
    <3> QED BY <1>5, <3>1
  <2> QED BY <2>1, <2>2
<1>8. 0 \in steps
  BY <1>1
<1> HIDE DEF steps
<1>9. ASSUME NEW i \in 1 .. c, i - 1 \in U PROVE i \in U
  <2>1. i \in 0 .. N /\ i # 0 /\ i \in 0 .. c /\ i \in 1 .. i
    BY <1>1
  <2>2. up[i] = Parent(up[i - 1]) /\ up[i - 1] \in Nat
    BY <1>3, <1>9, <2>1
  <2>3. up[i] \in Nat /\ (up[i - 1] > 0 => up[i] < up[i - 1])
    BY <2>2, ParentFacts
  <2>4. i \in steps => up[i - 1] > 0 /\ up[i - 1] + (i - 1) <= c
    BY <1>5, <1>6, <1>9, <2>1
  <2>5. i \in steps => up[i] + i <= c
    BY <1>1, <2>2, <2>3, <2>4
  <2> QED BY <2>1, <2>3, <2>5
<1>10. \A i \in 0 .. c : high(i)
  <2> HIDE DEF U
  <2>1. 0 .. c \subseteq U
    BY <1>1, <1>4, <1>9, UpTo
  <2> QED BY <2>1 DEF U
<1> DEFINE H == {i \in 1 .. c : i \in steps}
           m == Cardinality(H)
<1>11. m \in 0 .. c /\ H = 1 .. m
  <2>1. H \subseteq 1 .. c /\ \A i \in H : i # 1 => i - 1 \in H
    BY <1>1, <1>6
  <2> HIDE DEF H
  <2> QED BY <1>1, <2>1, Downward
<1>12. steps = 0 .. m
  <2>1. \A i : i \in steps <=> i \in 0 .. m
    <3> SUFFICES ASSUME NEW i PROVE i \in steps <=> i \in 0 .. m
      OBVIOUS
    <3>1. i \in steps <=> i = 0 \/ i \in H
      BY <1>1, <1>5, <1>8
    <3> HIDE DEF H, m
    <3> QED BY <1>1, <1>11, <3>1
  <2> QED BY <2>1
<1> HIDE DEF H, m
<1>13. last = m
  <2>1. m \in 0 .. m /\ \A j \in 0 .. m : j <= m
    BY <1>1, <1>11
  <2>2. \A i \in 0 .. m : (\A j \in 0 .. m : j <= i) => i = m
    BY <1>1, <1>11
  <2> QED BY <1>12, <2>1, <2>2 DEF last
<1>14. m = c \/ ~(up[m] > 0 /\ cell[c] < cell[up[m + 1]])
  <2>1. m # c => m + 1 \in 1 .. c /\ (m + 1) - 1 = m /\ m + 1 \notin 0 .. m
    BY <1>1, <1>11
  <2>2. m \in steps
    BY <1>1, <1>11, <1>12
  <2> QED BY <1>7, <1>12, <2>1, <2>2
<1>15. up[m] = 0 \/ ~(cell[c] < cell[Parent(up[m])])
  <2>1. m \in 0 .. c /\ m \in steps
    BY <1>1, <1>11, <1>12
  <2>2. up[m] \in Nat /\ up[m] + m <= c
    BY <1>10, <2>1
  <2>3. CASE m = c
    BY <1>1, <2>2, <2>3
  <2>4. CASE m # c
    <3>1. m + 1 \in 0 .. N /\ m + 1 # 0 /\ (m + 1) - 1 = m
      BY <1>1, <1>11, <2>4
    <3>2. up[m + 1] = Parent(up[m])
      BY <1>3, <3>1
    <3> QED BY <1>14, <2>2, <2>4, <3>2
  <2> QED BY <2>3, <2>4
<1>16. \A i \in 1 .. m : /\ up[i] = Parent(up[i - 1]) /\ up[i - 1] > 0
                         /\ cell[c] < cell[Parent(up[i - 1])]
                         /\ up[i - 1] \in HeapCells /\ up[i] \in HeapCells
  <2> SUFFICES ASSUME NEW i \in 1 .. m
               PROVE  /\ up[i] = Parent(up[i - 1]) /\ up[i - 1] > 0
                      /\ cell[c] < cell[Parent(up[i - 1])]
                      /\ up[i - 1] \in HeapCells /\ up[i] \in HeapCells
    OBVIOUS
  <2>1. i \in Nat /\ i <= c /\ i - 1 \in 0 .. c /\ i \in 0 .. c /\ i \in 0 .. N /\ i # 0 /\ i \in 1 .. i
    BY <1>1, <1>11
  <2>2. i \in steps /\ i - 1 \in steps
    BY <1>1, <1>11, <1>12
  <2>3. up[i] = Parent(up[i - 1])
    BY <1>3, <2>1
  <2>4. up[i - 1] > 0 /\ cell[c] < cell[up[i]]
    BY <1>5, <2>1, <2>2
  <2>5. up[i - 1] \in Nat /\ up[i] \in Nat /\ up[i] + i <= c /\ up[i - 1] + (i - 1) <= c
    BY <1>10, <2>1, <2>2
  <2>6. up[i - 1] < N /\ up[i] < N
    BY <1>1, <2>1, <2>5
  <2>7. up[i - 1] \in HeapCells /\ up[i] \in HeapCells
    BY <1>1, <2>5, <2>6 DEF HeapCells, Cells, N
  <2> QED BY <2>3, <2>4, <2>7
<1> DEFINE climbStep == [i \in 1 .. m |-> [s \in A |-> one(s, i)]]
<1>17. climb = climbSteps(climb)
  <2>1. \A i \in 1 .. m, s \in A : one(s, i) \in A
    <3> SUFFICES ASSUME NEW i \in 1 .. m, NEW s \in A PROVE one(s, i) \in A
      OBVIOUS
    <3>1. up[i - 1] \in HeapCells /\ up[i] \in HeapCells
      BY <1>16
    <3> QED BY <3>1 DEF Heap!Swapped
  <2> HIDE DEF A, one
  <2>2. climbStep \in [1 .. m -> [A -> A]] /\ cell \in A
    BY <2>1 DEF A
  <2> HIDE DEF climbStep
  <2>3. m \in Nat
    BY <1>1, <1>11
  <2>4. PICK f : Recursive(f, A, cell, m, climbStep)
    BY <2>2, <2>3, Recursion
  <2>5. f \in [0 .. m -> A] /\ f[0] = cell /\ \A i \in 1 .. m : f[i] = climbStep[i][f[i - 1]]
    BY <2>4 DEF Recursive
  <2>6. f = climbSteps(f)
    <3>1. ASSUME NEW i \in 0 .. m PROVE f[i] = IF i = 0 THEN cell ELSE one(f[i - 1], i)
      <4>1. CASE i = 0
        BY <2>5, <4>1
      <4>2. CASE i # 0
        <5>1. i \in 1 .. m /\ i - 1 \in 0 .. m
          BY <2>3, <4>2
        <5>2. f[i - 1] \in A /\ f[i] = climbStep[i][f[i - 1]]
          BY <2>5, <5>1
        <5> QED BY <4>2, <5>1, <5>2 DEF climbStep
      <4> QED BY <4>1, <4>2
    <3> QED BY <1>12, <2>5, <3>1
  <2> HIDE DEF climbSteps
  <2> QED BY <2>6 DEF climb
<1>18. \A i \in 0 .. m : climb[i] = IF i = 0 THEN cell ELSE one(climb[i - 1], i)
  BY <1>12, <1>17
<1> HIDE DEF climb, climbStep
<1> DEFINE P == {i \in 0 .. m : Climbed(climb[i], cell, c, up[i])}
<1>19. 0 \in P
  <2>1. climb[0] = cell /\ up[0] = c /\ 0 \in 0 .. m
    BY <1>1, <1>3, <1>11, <1>18
  <2>2. Climbed(cell, cell, c, c)
    BY ClimbStarts
  <2> QED BY <2>1, <2>2
<1>20. ASSUME NEW i \in 1 .. m, i - 1 \in P PROVE i \in P
  <2>1. Climbed(climb[i - 1], cell, c, up[i - 1])
    BY <1>20
  <2>2. i \in 0 .. m /\ i # 0
    BY <1>1, <1>11
  <2>3. climb[i] = Heap!Swapped(climb[i - 1], up[i - 1], Parent(up[i - 1]))
    BY <1>16, <1>18, <2>2
  <2>4. Climbed(climb[i], cell, c, Parent(up[i - 1]))
    BY <1>16, <2>1, <2>3, ClimbStep
  <2> QED BY <1>16, <2>2, <2>4
<1>21. Climbed(climb[m], cell, c, up[m])
  <2> HIDE DEF P
  <2>1. m \in Nat /\ m \in 0 .. m
    BY <1>1, <1>11
  <2>2. 0 .. m \subseteq P
    BY <1>19, <1>20, <2>1, UpTo
  <2> QED BY <2>1, <2>2 DEF P
<1> QED BY <1>2, <1>13, <1>15, <1>21, ClimbEnds

LEMMA CellKeys ==
  ASSUME NEW n \in 0 .. Capacity, NEW s \in [HeapCells -> Keys]
  PROVE  n \in Nat /\ Cells(n) \subseteq Nat /\ \A y \in Cells(n) : y < n /\ s[y] \in Int
<1>1. n \in Nat /\ Cells(n) \subseteq HeapCells
  BY HeapConstants DEF HeapCells, Cells
<1>2. Cells(n) \subseteq Nat /\ \A y \in Cells(n) : y < n
  BY <1>1 DEF Cells
<1>3. \A y \in Cells(n) : s[y] \in Int
  BY <1>1, HeapConstants
<1> QED BY <1>1, <1>2, <1>3

(* Under the root of an ordered heap are at most two cells, and one of     *)
(* them is not greater than any given cell further down.                   *)
LEMMA OrderedTops ==
  ASSUME NEW n \in 0 .. Capacity, NEW s \in [HeapCells -> Keys], Ordered(s, n), NEW x \in Cells(n), x > 0
  PROVE  \E t \in Cells(n) : (t = 1 \/ t = 2) /\ s[t] <= s[x]
<1> DEFINE top(y) == \E t \in Cells(n) : (t = 1 \/ t = 2) /\ s[t] <= s[y]
           H == {k \in 0 .. n : \A y \in Cells(n) : y > 0 /\ y < k + 1 => top(y)}
<1>1. n \in Nat /\ Cells(n) \subseteq Nat /\ \A y \in Cells(n) : y < n /\ s[y] \in Int
  BY CellKeys
<1>2. 0 \in H
  BY <1>1
<1>3. ASSUME NEW k \in 1 .. n, k - 1 \in H PROVE k \in H
  <2> SUFFICES ASSUME NEW y \in Cells(n), y > 0, y < k + 1 PROVE top(y)
    OBVIOUS
  <2>1. y \in Nat /\ y < n /\ s[y] \in Int
    BY <1>1
  <2>2. /\ Parent(y) \in Nat /\ Parent(y) < y
        /\ y = 2 * Parent(y) + 1 \/ y = 2 * Parent(y) + 2
    BY <2>1, ParentFacts
  <2>3. CASE Parent(y) = 0
    <3>1. y = 1 \/ y = 2
      BY <2>2, <2>3
    <3> QED BY <2>1, <3>1
  <2>4. CASE Parent(y) # 0
    <3> DEFINE p == Parent(y)
    <3>1. p \in Cells(n) /\ p > 0 /\ p < (k - 1) + 1
      BY <1>1, <2>1, <2>2, <2>4 DEF Cells
    <3>2. PICK t \in Cells(n) : (t = 1 \/ t = 2) /\ s[t] <= s[p]
      BY <1>3, <3>1
    <3>3. s[p] <= s[y]
      BY DEF Ordered
    <3> HIDE DEF p
    <3>4. s[t] <= s[y]
      BY <1>1, <3>1, <3>2, <3>3
    <3> QED BY <3>2, <3>4
  <2> QED BY <2>3, <2>4
<1> HIDE DEF top
<1>4. n \in H
  <2> HIDE DEF H
  <2>1. 0 .. n \subseteq H
    BY <1>1, <1>2, <1>3, UpTo
  <2> QED BY <1>1, <2>1
<1>5. x < n + 1
  BY <1>1
<1>6. top(x)
  BY <1>4, <1>5
<1> QED BY <1>6 DEF top

(* What a shuffle of the first n cells does not change *)
LEMMA CellsShuffled ==
  ASSUME NEW n \in 0 .. Capacity, NEW r, NEW s, Shuffled(r, s, HeapCells, Cells(n))
  PROVE  /\ \A k : Often(r, Cells(n), k) = Often(s, Cells(n), k)
         /\ \A x \in Cells(n) : \E y \in Cells(n) : r[x] = s[y]
<1>1. Cells(n) \subseteq HeapCells /\ IsFiniteSet(Cells(n))
  <2>1. n \in Int /\ 0 \in Int /\ n - 1 \in Int /\ Capacity \in Nat /\ n <= Capacity
    BY HeapConstants
  <2> QED BY <2>1, FS_Interval DEF HeapCells, Cells
<1>2. Shuffled(r, s, Cells(n), Cells(n))
  BY <1>1, ShuffledWithin, Zenon
<1>3. \A k : Often(r, Cells(n), k) = Often(s, Cells(n), k)
  BY <1>1, <1>2, ShuffledCounts
<1>4. \A x \in Cells(n) : \E y \in Cells(n) : r[x] = s[y]
  BY <1>2 DEF Shuffled
<1> QED BY <1>3, <1>4

(* What one removal does to the cells *)
TakenOut(r, cell, n, last) ==
  /\ r \in [HeapCells -> Keys]
  /\ \A k : /\ Often(r, Cells(last), k) \in Nat
            /\ Often(cell, Cells(last + 1), k)
                 = Often(r, Cells(last), k) + (IF cell[n] = k THEN 1 ELSE 0)
  /\ Ordered(cell, last + 1) => RootLeast(r, last)

LEMMA OrderedRoot ==
  ASSUME NEW n \in 0 .. Capacity, NEW s \in [HeapCells -> Keys], Ordered(s, n)
  PROVE  RootLeast(s, n)
<1>1. n \in Nat /\ Cells(n) \subseteq Nat /\ \A y \in Cells(n) : y < n /\ s[y] \in Int
  BY CellKeys
<1>2. ASSUME NEW x \in Cells(n) PROVE s[0] <= s[x]
  <2>1. CASE x = 0
    BY <1>1, <1>2, <2>1
  <2>2. CASE x # 0
    <3>1. x > 0
      BY <1>1, <1>2, <2>2
    <3>2. PICK t \in Cells(n) : (t = 1 \/ t = 2) /\ s[t] <= s[x]
      BY <1>2, <3>1, OrderedTops
    <3>3. Parent(t) = 0 /\ 0 \in Cells(n)
      BY <1>1, <3>2 DEF Parent, Heap!Parent, Cells
    <3>4. s[0] <= s[t]
      BY <3>3 DEF Ordered
    <3> QED BY <1>1, <1>2, <3>2, <3>3, <3>4
  <2> QED BY <2>1, <2>2
<1> QED BY <1>2 DEF RootLeast

LEMMA TakenOutLast ==
  ASSUME NEW last \in HeapCells, NEW cell \in [HeapCells -> Keys]
  PROVE  TakenOut(cell, cell, last, last)
<1>1. last \in Nat /\ last + 1 \in 0 .. Capacity /\ Cells(last) \subseteq Cells(last + 1)
  BY HeapConstants DEF HeapCells, Cells
<1>2. \A k : OftenMore(cell, last, k)
  BY <1>1, OftenOneMore
<1>3. Ordered(cell, last + 1) => RootLeast(cell, last)
  BY <1>1, OrderedRoot DEF RootLeast
<1> QED BY <1>2, <1>3 DEF TakenOut, OftenMore

LEMMA TakenOutSifted ==
  ASSUME NEW last \in HeapCells, NEW cell \in [HeapCells -> Keys], NEW n \in Cells(last),
         NEW t, t = Heap!Swapped(cell, n, last), NEW r, r = Heap!SiftDown(t, last, n)
  PROVE  TakenOut(r, cell, n, last)
<1> DEFINE size == last + 1
<1>1. /\ last \in Nat /\ n \in Nat /\ n < last /\ last \in 0 .. Capacity /\ size \in 0 .. Capacity
      /\ Cells(last) \subseteq Cells(size) /\ Cells(size) \subseteq HeapCells
      /\ n \in Cells(size) /\ last \in Cells(size) /\ 0 \in Cells(last) /\ last \notin Cells(last)
      /\ Cells(last) \subseteq Nat
  BY HeapConstants DEF HeapCells, Cells
<1> HIDE DEF size
<1>2. AfterSwap(Sort!Swapped(cell, n, last), cell, HeapCells, Keys, Cells(size), n, last)
  BY <1>1, SwappedShuffled, Zenon
<1>3. AfterSwap(t, cell, HeapCells, Keys, Cells(size), n, last)
  BY <1>2 DEF Heap!Swapped, Sort!Swapped
<1>4. /\ t \in [HeapCells -> Keys] /\ t[n] = cell[last] /\ t[last] = cell[n]
      /\ \A x \in HeapCells : x # n /\ x # last => t[x] = cell[x]
      /\ Shuffled(t, cell, HeapCells, Cells(size))
  BY <1>3 DEF AfterSwap
<1>5. PICK l \in Cells(last) : Sifted(r, t, last, n, l)
  BY <1>1, <1>4, SiftedDown
<1>6. /\ l = n \/ l = 2 * n + 1 \/ l = 2 * n + 2
      /\ r \in [HeapCells -> Keys] /\ Shuffled(r, t, HeapCells, Cells(last))
      /\ \A x \in HeapCells : x # n /\ x # l => r[x] = t[x]
      /\ r[n] <= t[n]
      /\ 2 * n + 1 < last => r[n] <= t[2 * n + 1]
      /\ 2 * n + 2 < last => r[n] <= t[2 * n + 2]
  BY <1>5 DEF Sifted
<1>7. \A k : /\ Often(r, Cells(last), k) \in Nat
             /\ Often(cell, Cells(size), k)
                  = Often(r, Cells(last), k) + (IF cell[n] = k THEN 1 ELSE 0)
  <2> SUFFICES ASSUME NEW k
               PROVE  /\ Often(r, Cells(last), k) \in Nat
                      /\ Often(cell, Cells(size), k)
                           = Often(r, Cells(last), k) + (IF cell[n] = k THEN 1 ELSE 0)
    OBVIOUS
  <2>1. Often(t, Cells(size), k) = Often(cell, Cells(size), k)
    BY <1>1, <1>4, CellsShuffled
  <2>2. Often(r, Cells(last), k) = Often(t, Cells(last), k)
    BY <1>1, <1>6, CellsShuffled
  <2>3. OftenMore(t, last, k)
    BY <1>1, OftenOneMore
  <2> QED BY <1>4, <2>1, <2>2, <2>3 DEF OftenMore, size
<1>8. \A x \in Cells(size) : cell[x] \in Int /\ t[x] \in Int /\ r[x] \in Int
  BY <1>1, <1>4, <1>6, HeapConstants
<1>9. ASSUME Ordered(cell, size) PROVE RootLeast(r, last)
  <2>1. \A x \in Cells(last) : r[0] <= t[x]
    <3> SUFFICES ASSUME NEW x \in Cells(last) PROVE r[0] <= t[x]
      OBVIOUS
    <3>1. CASE n = 0
      <4>1. CASE x = 0
        BY <1>6, <3>1, <4>1
      <4>2. CASE x # 0
        <5>1. x \in Cells(size) /\ x > 0 /\ x < last /\ x \in Nat
          BY <1>1, <4>2 DEF Cells
        <5>2. PICK y \in Cells(size) : (y = 1 \/ y = 2) /\ cell[y] <= cell[x]
          BY <1>1, <1>4, <1>9, <5>1, OrderedTops
        <5>3. t[x] = cell[x]
          BY <1>1, <1>4, <3>1, <5>1
        <5>4. CASE y = last
          <6>1. r[0] <= t[0] /\ t[0] = cell[y]
            BY <1>4, <1>6, <3>1, <5>4
          <6> QED BY <1>1, <1>8, <5>1, <5>2, <5>3, <6>1
        <5>5. CASE y # last
          <6>1. y \in HeapCells /\ y < last /\ y # n
            BY <1>1, <3>1, <5>2, <5>5 DEF size, Cells
          <6>2. t[y] = cell[y]
            BY <1>4, <5>5, <6>1
          <6>3. r[0] <= t[y]
            BY <1>6, <3>1, <5>2, <6>1
          <6> QED BY <1>1, <1>8, <5>1, <5>2, <5>3, <6>2, <6>3
        <5> QED BY <5>4, <5>5
      <4> QED BY <4>1, <4>2
    <3>2. CASE n # 0
      <4>1. 0 # n /\ 0 # l /\ 0 # last /\ 0 \in HeapCells
        BY <1>1, <1>6, <3>2
      <4>2. r[0] = cell[0]
        BY <1>4, <1>6, <4>1
      <4>3. \A z \in Cells(size) : cell[0] <= cell[z]
        BY <1>1, <1>9, OrderedRoot DEF RootLeast
      <4>4. \E z \in Cells(size) : t[x] = cell[z]
        BY <1>1, <1>4, CellsShuffled
      <4> QED BY <4>2, <4>3, <4>4
    <3> QED BY <3>1, <3>2
  <2>2. \A x \in Cells(last) : \E y \in Cells(last) : r[x] = t[y]
    BY <1>1, <1>6, CellsShuffled
  <2> QED BY <2>1, <2>2 DEF RootLeast
<1> QED BY <1>6, <1>7, <1>9 DEF TakenOut, size

(* The invariant of the heap: the history counts what is in it, and the    *)
(* order that one swap at a time keeps.                                    *)
Heaped(cell, size, count, built, removed) ==
  /\ cell \in [HeapCells -> Keys] /\ size \in 0 .. Capacity
  /\ \A k \in Keys : count[k] = Often(cell, Cells(size), k) /\ count[k] \in Nat
  /\ removed = 0 => RootLeast(cell, size)
  /\ removed = 0 /\ built <= 3 => Ordered(cell, size)
  /\ removed = 1 /\ built <= 3 => RootLeast(cell, size)

HeapInv ==
  /\ object = [cell |-> object.cell, size |-> object.size]
  /\ ghost = [count |-> ghost.count, built |-> ghost.built, removed |-> ghost.removed]
  /\ ghost.count \in [Keys -> Nat] /\ ghost.built \in Nat /\ ghost.removed \in 0 .. 2
  /\ Heaped(object.cell, object.size, ghost.count, ghost.built, ghost.removed)

LEMMA HeapCardinality == \A S : Heap!Cardinality(S) = Cardinality(S)
BY DEF Heap!Cardinality, Cardinality, Heap!IsFiniteSet, IsFiniteSet

LEMMA OftenNat ==
  ASSUME NEW n \in Nat, NEW s, NEW k
  PROVE  Often(s, Cells(n), k) \in Nat
BY OftenOneMore DEF OftenMore

LEMMA HeapCount ==
  ASSUME NEW cell, NEW n
  PROVE  Heap!Count(cell, n) = [k \in Keys |-> Often(cell, Cells(n), k)]
BY HeapCardinality DEF Heap!Count, Often, Cells

LEMMA HeapStarts == Heap!Init => HeapInv
<1> SUFFICES ASSUME Heap!Init PROVE HeapInv
  OBVIOUS
<1>1. PICK n \in 0 .. Capacity, cell \in [0 .. Capacity - 1 -> Keys] :
        /\ object = [cell |-> Heap!Heapified(cell, n), size |-> n]
        /\ ghost = [count |-> Heap!Count(cell, n), built |-> n, removed |-> 0]
  BY DEF Heap!Init
<1>2. cell \in [HeapCells -> Keys] /\ n \in Nat
  BY HeapConstants DEF HeapCells, Cells
<1> DEFINE h == Heap!Heapified(cell, n)
           count == Heap!Count(cell, n)
<1>3. Filled(h, cell, n)
  BY <1>2, HeapifiedFilled
<1>4. count = [k \in Keys |-> Often(cell, Cells(n), k)]
  BY HeapCount
<1> HIDE DEF h, count
<1>5. h \in [HeapCells -> Keys] /\ Shuffled(h, cell, HeapCells, Cells(n)) /\ RootLeast(h, n)
  BY <1>3 DEF Filled
<1>6. \A k \in Keys : count[k] = Often(h, Cells(n), k) /\ count[k] \in Nat
  BY <1>2, <1>4, <1>5, CellsShuffled, OftenNat
<1>7. n <= 3 => Ordered(h, n)
  <2> SUFFICES ASSUME n <= 3, NEW x \in Cells(n) PROVE h[Parent(x)] <= h[x]
    BY DEF Ordered
  <2>1. x \in Nat /\ x < n
    BY <1>2, <1>5, CellKeys
  <2>2. Parent(x) = 0
    BY <1>2, <2>1 DEF Parent, Heap!Parent
  <2> QED BY <1>5, <2>2 DEF RootLeast
<1>8. Heaped(h, n, count, n, 0)
  BY <1>5, <1>6, <1>7 DEF Heaped
<1>9. count \in [Keys -> Nat]
  BY <1>4, <1>6
<1>10. object = [cell |-> h, size |-> n] /\ ghost = [count |-> count, built |-> n, removed |-> 0]
  BY <1>1 DEF h, count
<1> QED BY <1>2, <1>8, <1>9, <1>10 DEF HeapInv

LEMMA HeapInsert ==
  ASSUME HeapInv, NEW k \in Keys, Heap!Insert(k)
  PROVE  HeapInv'
<1> DEFINE c == object.size
           cell == object.cell
           count == ghost.count
           built == ghost.built
           removed == ghost.removed
           set == [cell EXCEPT ![c] = k]
           h == Heap!SiftUp(set, c)
           count2 == [count EXCEPT ![k] = @ + 1]
<1>1. /\ Heaped(cell, c, count, built, removed)
      /\ ghost = [count |-> count, built |-> built, removed |-> removed]
      /\ count \in [Keys -> Nat] /\ built \in Nat /\ removed \in 0 .. 2
  BY DEF HeapInv
<1>2. c < Capacity /\ object' = [cell |-> h, size |-> c + 1]
      /\ ghost' = [ghost EXCEPT !.count[k] = @ + 1]
  BY DEF Heap!Insert
<1>3. ghost' = [count |-> count2, built |-> built, removed |-> removed]
  BY <1>1, <1>2
<1> HIDE DEF c, cell, count, built, removed
<1>4. /\ cell \in [HeapCells -> Keys] /\ c \in Nat /\ c \in 0 .. Capacity /\ c + 1 \in 0 .. Capacity
      /\ c \in HeapCells /\ c \notin Cells(c) /\ Cells(c) \subseteq HeapCells
  <2>1. cell \in [HeapCells -> Keys] /\ c \in 0 .. Capacity
    BY <1>1 DEF Heaped
  <2> QED BY <1>2, <2>1, HeapConstants DEF HeapCells, Cells
<1>5. set \in [HeapCells -> Keys] /\ set[c] = k /\ \A x \in Cells(c) : set[x] = cell[x]
  BY <1>4
<1>6. count2[k] = count[k] + 1 /\ (\A j \in Keys : j # k => count2[j] = count[j])
      /\ count2 = [j \in Keys |-> count2[j]]
  BY <1>1
<1> HIDE DEF set, count2
<1>7. SiftedUp(h, set, c)
  BY <1>4, <1>5, SiftUpDone
<1> HIDE DEF h
<1>8. ASSUME NEW j \in Keys
      PROVE  count2[j] = Often(h, Cells(c + 1), j) /\ count2[j] \in Nat
  <2>1. Often(h, Cells(c + 1), j) = Often(set, Cells(c + 1), j)
    BY <1>4, <1>7, CellsShuffled DEF SiftedUp
  <2>2. OftenMore(set, c, j)
    BY <1>4, OftenOneMore
  <2>3. Often(set, Cells(c), j) = Often(cell, Cells(c), j)
    <3>1. {x \in Cells(c) : set[x] = j} = {x \in Cells(c) : cell[x] = j}
      BY <1>5
    <3> QED BY <3>1 DEF Often
  <2>4. count[j] = Often(cell, Cells(c), j) /\ count[j] \in Nat
    BY <1>1 DEF Heaped
  <2>5. CASE j = k
    BY <1>5, <1>6, <2>1, <2>2, <2>3, <2>4, <2>5 DEF OftenMore
  <2>6. CASE j # k
    BY <1>5, <1>6, <2>1, <2>2, <2>3, <2>4, <2>6 DEF OftenMore
  <2> QED BY <2>5, <2>6
<1>9. RootLeast(cell, c) => RootLeast(h, c + 1)
  <2> SUFFICES ASSUME RootLeast(cell, c) PROVE RootLeast(set, c)
    BY <1>7 DEF SiftedUp
  <2>1. \A x \in Cells(c) : 0 \in Cells(c)
    BY <1>4 DEF Cells
  <2> QED BY <1>5, <2>1 DEF RootLeast
<1>10. Ordered(cell, c) => Ordered(h, c + 1)
  <2> SUFFICES ASSUME Ordered(cell, c) PROVE Ordered(set, c)
    BY <1>7 DEF SiftedUp
  <2> SUFFICES ASSUME NEW x \in Cells(c) PROVE set[Parent(x)] <= set[x]
    BY DEF Ordered
  <2>1. x \in Nat /\ x < c
    BY <1>4, CellKeys
  <2>2. Parent(x) \in Nat /\ Parent(x) <= x
    BY <2>1, ParentFacts
  <2>3. Parent(x) \in Cells(c)
    BY <1>4, <2>1, <2>2 DEF Cells
  <2> QED BY <1>5, <2>3 DEF Ordered
<1>11. Heaped(h, c + 1, count2, built, removed)
  BY <1>1, <1>4, <1>7, <1>8, <1>9, <1>10 DEF Heaped, SiftedUp
<1>12. object' = [cell |-> h, size |-> c + 1]
  BY <1>2 DEF h, set, c, cell
<1>13. count2 \in [Keys -> Nat]
  BY <1>6, <1>8
<1> QED BY <1>1, <1>3, <1>11, <1>12, <1>13 DEF HeapInv

LEMMA HeapRemove ==
  ASSUME HeapInv, NEW n \in 0 .. Capacity - 1, Heap!Remove(n)
  PROVE  HeapInv'
<1> DEFINE c == object.size
           last == c - 1
           cell == object.cell
           count == ghost.count
           built == ghost.built
           removed == ghost.removed
           h == IF n < last THEN Heap!SiftDown(Heap!Swapped(cell, n, last), last, n) ELSE cell
           count2 == [count EXCEPT ![cell[n]] = @ - 1]
           removed2 == IF removed < 2 THEN removed + 1 ELSE 2
<1>1. /\ Heaped(cell, c, count, built, removed)
      /\ ghost = [count |-> count, built |-> built, removed |-> removed]
      /\ count \in [Keys -> Nat] /\ built \in Nat /\ removed \in 0 .. 2
  BY DEF HeapInv
<1>2. n <= last /\ object' = [cell |-> h, size |-> last]
      /\ ghost' = [ghost EXCEPT !.count[cell[n]] = @ - 1, !.removed = IF @ < 2 THEN @ + 1 ELSE 2]
  BY DEF Heap!Remove
<1>3. ghost' = [count |-> count2, built |-> built, removed |-> removed2]
  BY <1>1, <1>2
<1> HIDE DEF c, cell, count, built, removed
<1>4. /\ cell \in [HeapCells -> Keys] /\ c \in 0 .. Capacity /\ last + 1 = c
      /\ last \in Nat /\ last \in 0 .. Capacity /\ last \in HeapCells /\ n \in HeapCells
  <2>1. cell \in [HeapCells -> Keys] /\ c \in 0 .. Capacity
    BY <1>1 DEF Heaped
  <2> QED BY <1>2, <2>1, HeapConstants DEF HeapCells, Cells
<1> HIDE DEF last
<1>5. TakenOut(h, cell, n, last)
  <2>1. CASE n < last
    <3>1. n \in Cells(last)
      BY <1>4, <2>1 DEF Cells
    <3>2. h = Heap!SiftDown(Heap!Swapped(cell, n, last), last, n)
      BY <2>1
    <3> QED BY <1>4, <3>1, <3>2, TakenOutSifted
  <2>2. CASE ~(n < last)
    <3>1. h = cell /\ n = last
      BY <1>2, <1>4, <2>2
    <3> QED BY <1>4, <3>1, TakenOutLast
  <2> QED BY <2>1, <2>2
<1> HIDE DEF h
<1>6. cell[n] \in Keys
  BY <1>4
<1>7. count2[cell[n]] = count[cell[n]] - 1 /\ (\A j \in Keys : j # cell[n] => count2[j] = count[j])
      /\ count2 = [j \in Keys |-> count2[j]]
  BY <1>1, <1>6
<1> HIDE DEF count2
<1>8. ASSUME NEW j \in Keys
      PROVE  count2[j] = Often(h, Cells(last), j) /\ count2[j] \in Nat
  <2>1. /\ Often(h, Cells(last), j) \in Nat
        /\ Often(cell, Cells(c), j) = Often(h, Cells(last), j) + (IF cell[n] = j THEN 1 ELSE 0)
    BY <1>4, <1>5 DEF TakenOut
  <2>2. count[j] = Often(cell, Cells(c), j) /\ count[j] \in Nat
    BY <1>1 DEF Heaped
  <2>3. CASE j = cell[n]
    BY <1>7, <2>1, <2>2, <2>3
  <2>4. CASE j # cell[n]
    BY <1>7, <2>1, <2>2, <2>4
  <2> QED BY <2>3, <2>4
<1>9. removed2 \in 0 .. 2 /\ removed2 # 0 /\ (removed2 = 1 => removed = 0)
  BY <1>1
<1> HIDE DEF removed2
<1>10. removed2 = 1 /\ built <= 3 => RootLeast(h, last)
  <2>1. removed = 0 /\ built <= 3 => Ordered(cell, last + 1)
    BY <1>1, <1>4 DEF Heaped
  <2> QED BY <1>5, <1>9, <2>1 DEF TakenOut
<1>11. Heaped(h, last, count2, built, removed2)
  BY <1>4, <1>5, <1>8, <1>9, <1>10 DEF Heaped, TakenOut
<1>12. object' = [cell |-> h, size |-> last]
  BY <1>2 DEF h, last, c, cell
<1>13. count2 \in [Keys -> Nat]
  BY <1>7, <1>8
<1> QED BY <1>1, <1>3, <1>9, <1>11, <1>12, <1>13 DEF HeapInv

LEMMA HeapStep == HeapInv /\ Heap!Next => HeapInv'
BY HeapInsert, HeapRemove DEF Heap!Next

LEMMA HeapImplies == HeapInv => Heap!HeapHolds
<1> SUFFICES ASSUME HeapInv PROVE Heap!HeapHolds
  OBVIOUS
<1> DEFINE cell == object.cell
           size == object.size
           count == ghost.count
<1>1. Heaped(cell, size, count, ghost.built, ghost.removed) /\ count \in [Keys -> Nat]
  BY DEF HeapInv
<1>2. Heap!Count(cell, size) = [k \in Keys |-> Often(cell, Cells(size), k)]
  BY HeapCount
<1>3. \A k \in Keys : count[k] = Often(cell, Cells(size), k)
  BY <1>1 DEF Heaped
<1>4. count = Heap!Count(cell, size)
  <2> HIDE DEF cell, size, count
  <2>1. count = [k \in Keys |-> count[k]]
    BY <1>1
  <2>2. [k \in Keys |-> count[k]] = [k \in Keys |-> Often(cell, Cells(size), k)]
    BY <1>3
  <2> QED BY <1>2, <2>1, <2>2
<1> QED BY <1>1, <1>4 DEF Heaped, Heap!HeapHolds, Heap!RootIsLeast, RootLeast, Ordered, Cells, Parent

LEMMA LibraryHeap == Spec => [](part = "heap" => HeapInv)
<1> DEFINE Inv == part = "heap" => HeapInv
<1>1. Init => Inv
  BY HeapStarts DEF Init
<1>2. Inv /\ [Next]_vars => Inv'
  <2> SUFFICES ASSUME Inv, [Next]_vars, part' = "heap" PROVE HeapInv'
    OBVIOUS
  <2>1. CASE UNCHANGED vars
    <3>1. object' = object /\ ghost' = ghost /\ part = "heap"
      BY <2>1 DEF vars
    <3>2. HeapInv
      BY <3>1
    <3> QED BY <3>1, <3>2 DEF HeapInv
  <2>2. CASE Next
    <3>1. part' = part /\ Heap!Next
      BY <2>2 DEF Next, UseHeap, UseVector, UseTree, UseMap, UseQueue, UseTimer, UseGetopt,
         UseHttp, UseSort, UseUrl, UseMd5, UseSerial
    <3> QED BY <3>1, HeapStep
  <2> QED BY <2>1, <2>2
<1> QED BY <1>1, <1>2, PTL DEF Spec

(* Whatever is inserted and removed: the heap has the keys put in and not  *)
(* taken out, each as often.  Until something is removed its first cell is *)
(* the least one, and if it was not built of more than three cells each    *)
(* cell is not less than its parent, so that one removal wherever it is    *)
(* leaves the least cell in front: the one swap of bscl_bheap_sift_down is *)
(* enough for that.                                                        *)
THEOREM LibraryHeapHolds == Spec => []HeapHolds
<1>1. (part = "heap" => HeapInv) => HeapHolds
  BY HeapImplies DEF HeapHolds
<1> QED BY <1>1, LibraryHeap, PTL

-----------------------------------------------------------------------------
(* The search tree. *)
(* Induction along a measure *)
LEMMA ByMeasure ==
  ASSUME NEW D, NEW N \in Nat, NEW m \in [D -> 0 .. N], NEW G,
         \A x \in D : (\A y \in D : m[y] < m[x] => y \in G) => x \in G
  PROVE  D \subseteq G
<1> DEFINE H == {j \in 0 .. N : \A x \in D : m[x] <= j => x \in G}
<1>1. \A x \in D : m[x] \in 0 .. N
  OBVIOUS
<1>2. 0 \in H
  <2>1. ASSUME NEW x \in D, m[x] <= 0 PROVE x \in G
    <3>1. \A y \in D : ~(m[y] < m[x])
      BY <1>1, <2>1
    <3> QED BY <3>1
  <2> QED BY <2>1
<1>3. ASSUME NEW j \in 1 .. N, j - 1 \in H PROVE j \in H
  <2>1. ASSUME NEW x \in D, m[x] <= j PROVE x \in G
    <3>1. ASSUME NEW y \in D, m[y] < m[x] PROVE y \in G
      <4>1. m[y] <= j - 1
        BY <1>1, <2>1, <3>1
      <4> QED BY <1>3, <4>1
    <3> QED BY <3>1
  <2> QED BY <2>1
<1>4. 0 .. N \subseteq H
  <2> HIDE DEF H
  <2> QED BY <1>2, <1>3, UpTo
<1>5. N \in H
  <2> HIDE DEF H
  <2> QED BY <1>4
<1> QED BY <1>1, <1>5

(* A walk that comes nearer to its end with every step defines a function. *)
Walking(f, D, stop, out, next) == \A x \in D : f[x] = IF x \in stop THEN out[x] ELSE f[next[x]]

LEMMA Iteration ==
  ASSUME NEW D, NEW R, NEW N \in Nat, NEW m \in [D -> 0 .. N], NEW stop,
         NEW out \in [D -> R], NEW next \in [D -> D],
         \A x \in D \ stop : m[next[x]] < m[x]
  PROVE  \E f \in [D -> R] : Walking(f, D, stop, out, next)
<1> DEFINE Good(f, j) == \A x \in D : m[x] <= j =>
                           f[x] = IF x \in stop THEN out[x] ELSE f[next[x]]
           H == {j \in 0 .. N : \E f \in [D -> R] : Good(f, j)}
<1>1. \A x \in D : m[x] \in 0 .. N /\ next[x] \in D /\ out[x] \in R
  OBVIOUS
<1>2. 0 \in H
  <2>1. Good(out, 0)
    <3>1. ASSUME NEW x \in D, m[x] <= 0 PROVE x \in stop
      BY <1>1, <3>1
    <3> QED BY <3>1
  <2> HIDE DEF Good
  <2> QED BY <2>1
<1>3. ASSUME NEW j \in 1 .. N, j - 1 \in H PROVE j \in H
  <2>1. PICK f \in [D -> R] : Good(f, j - 1)
    BY <1>3
  <2> DEFINE g == [x \in D |-> IF m[x] = j THEN (IF x \in stop THEN out[x] ELSE f[next[x]]) ELSE f[x]]
  <2>2. g \in [D -> R]
    BY <1>1
  <2>3. Good(g, j)
    <3>1. ASSUME NEW x \in D, m[x] <= j
          PROVE  g[x] = IF x \in stop THEN out[x] ELSE g[next[x]]
      <4>1. CASE x \in stop
        <5>1. CASE m[x] = j
          BY <4>1, <5>1
        <5>2. CASE m[x] # j
          <6>1. m[x] <= j - 1
            BY <1>1, <3>1, <5>2
          <6>2. f[x] = out[x]
            BY <2>1, <4>1, <6>1
          <6> QED BY <4>1, <5>2, <6>2
        <5> QED BY <5>1, <5>2
      <4>2. CASE x \notin stop
        <5>1. m[next[x]] < m[x] /\ next[x] \in D
          BY <1>1, <4>2
        <5>2. m[next[x]] # j
          BY <1>1, <3>1, <5>1
        <5>3. g[next[x]] = f[next[x]]
          BY <5>1, <5>2
        <5>4. CASE m[x] = j
          BY <4>2, <5>3, <5>4
        <5>5. CASE m[x] # j
          <6>1. m[x] <= j - 1
            BY <1>1, <3>1, <5>5
          <6>2. f[x] = f[next[x]]
            BY <2>1, <4>2, <6>1
          <6> QED BY <4>2, <5>3, <5>5, <6>2
        <5> QED BY <5>4, <5>5
      <4> QED BY <4>1, <4>2
    <3> HIDE DEF g
    <3> QED BY <3>1
  <2> HIDE DEF Good, g
  <2> QED BY <2>2, <2>3
<1>4. 0 .. N \subseteq H
  <2> HIDE DEF H
  <2> QED BY <1>2, <1>3, UpTo
<1>5. N \in H
  <2> HIDE DEF H
  <2> QED BY <1>4
<1>6. PICK f \in [D -> R] : Good(f, N)
  <2> HIDE DEF Good
  <2> QED BY <1>5
<1>7. Walking(f, D, stop, out, next)
  BY <1>1, <1>6 DEF Walking
<1> QED BY <1>7

(* The nodes and their keys *)
KeyOfNode == [x \in Tree!Nodes |-> Tree!KeyOf(x)]

LEMMA TreeConstants ==
  /\ TreeKeys \subseteq Int /\ IsFiniteSet(Tree!Nodes) /\ NULL \notin Tree!Nodes
  /\ Copies \in Nat /\ Copies # 0
  /\ \A x \in Tree!Nodes : Tree!KeyOf(x) \in TreeKeys
  /\ KeyOfNode \in [Tree!Nodes -> Int]
<1>1. TreeKeys \subseteq Int /\ IsFiniteSet(TreeKeys) /\ NULL \notin Tree!Nodes
      /\ Copies \in Nat /\ Copies # 0
  BY LibraryAssumption DEF Tree!TreeAssumption, Tree!IsFiniteSet, IsFiniteSet
<1>2. IsFiniteSet(1 .. Copies)
  BY <1>1, FS_Interval
<1>3. IsFiniteSet(Tree!Nodes)
  BY <1>1, <1>2, FS_Product DEF Tree!Nodes
<1>4. \A x \in Tree!Nodes : Tree!KeyOf(x) \in TreeKeys
  BY DEF Tree!Nodes, Tree!KeyOf
<1> QED BY <1>1, <1>3, <1>4 DEF KeyOfNode

(* The tree in terms of the order of its nodes: pos tells the place of each, *)
(* lo and hi those of the first and the last node below it.  side and opp  *)
(* are the pointers to the right and to the left, or the other way round.  *)
Linked(side, opp, up, us, root) ==
  /\ us \subseteq Tree!Nodes /\ root \in us \union {NULL}
  /\ side \in [Tree!Nodes -> us \union {NULL}] /\ opp \in [Tree!Nodes -> us \union {NULL}]
  /\ up \in [Tree!Nodes -> us \union {NULL}]
  /\ \A x \in Tree!Nodes \ us : side[x] = NULL /\ opp[x] = NULL /\ up[x] = NULL

Numbered(us, n, pos, key) ==
  /\ n \in Nat /\ pos \in [Tree!Nodes -> Int]
  /\ \A x \in us : 1 <= pos[x] /\ pos[x] <= n
  /\ \A i \in 1 .. n : \E x \in us : pos[x] = i
  /\ \A x, y \in us : pos[x] = pos[y] => x = y
  /\ \A x, y \in us : pos[x] < pos[y] => key[x] <= key[y]

Below(side, opp, up, pos, lo, hi, x) ==
  /\ 1 <= lo[x] /\ lo[x] <= pos[x] /\ pos[x] <= hi[x]
  /\ side[x] = NULL => hi[x] = pos[x]
  /\ side[x] # NULL => up[side[x]] = x /\ hi[side[x]] = hi[x] /\ lo[side[x]] = pos[x] + 1
  /\ opp[x] = NULL => lo[x] = pos[x]
  /\ opp[x] # NULL => up[opp[x]] = x /\ lo[opp[x]] = lo[x] /\ hi[opp[x]] = pos[x] - 1

ChildOf(side, opp, us, x, y) == y \in us /\ (side[y] = x \/ opp[y] = x)

Spanned(side, opp, up, us, root, n, pos, lo, hi) ==
  /\ lo \in [Tree!Nodes -> Int] /\ hi \in [Tree!Nodes -> Int]
  /\ \A x \in us : Below(side, opp, up, pos, lo, hi, x) /\ hi[x] <= n
  /\ \A x \in us : x # root => ChildOf(side, opp, us, x, up[x])
  /\ IF root = NULL THEN n = 0 ELSE lo[root] = 1 /\ hi[root] = n /\ up[root] = NULL

Ranked(side, opp, up, us, root, key, n, pos, lo, hi) ==
  /\ Linked(side, opp, up, us, root) /\ Numbered(us, n, pos, key)
  /\ Spanned(side, opp, up, us, root, n, pos, lo, hi)

Sorted(side, opp, up, us, root, key) ==
  \E n, pos, lo, hi : Ranked(side, opp, up, us, root, key, n, pos, lo, hi)

(* The other way round *)
Turned(n, f) == [x \in Tree!Nodes |-> n - f[x]]

LEMMA TurnedRanked ==
  ASSUME NEW side, NEW opp, NEW up, NEW us, NEW root, NEW key \in [Tree!Nodes -> Int],
         NEW n, NEW pos, NEW lo, NEW hi, Ranked(side, opp, up, us, root, key, n, pos, lo, hi)
  PROVE  Ranked(opp, side, up, us, root, Turned(0, key), n,
                Turned(n + 1, pos), Turned(n + 1, hi), Turned(n + 1, lo))
<1> DEFINE k2 == Turned(0, key)
           p2 == Turned(n + 1, pos)
           l2 == Turned(n + 1, hi)
           h2 == Turned(n + 1, lo)
<1>1. Linked(side, opp, up, us, root) /\ Numbered(us, n, pos, key)
      /\ Spanned(side, opp, up, us, root, n, pos, lo, hi)
  BY DEF Ranked
<1>2. n \in Nat /\ pos \in [Tree!Nodes -> Int] /\ lo \in [Tree!Nodes -> Int] /\ hi \in [Tree!Nodes -> Int]
      /\ us \subseteq Tree!Nodes
  BY <1>1 DEF Numbered, Spanned, Linked
<1>3. /\ k2 \in [Tree!Nodes -> Int] /\ p2 \in [Tree!Nodes -> Int]
      /\ l2 \in [Tree!Nodes -> Int] /\ h2 \in [Tree!Nodes -> Int]
  BY <1>2 DEF Turned
<1>4. \A x \in us : k2[x] = 0 - key[x] /\ p2[x] = n + 1 - pos[x] /\ l2[x] = n + 1 - hi[x] /\ h2[x] = n + 1 - lo[x]
  BY <1>2 DEF Turned
<1>5. \A x \in us : key[x] \in Int /\ pos[x] \in Int /\ lo[x] \in Int /\ hi[x] \in Int
  BY <1>2
<1> HIDE DEF k2, p2, l2, h2
<1>6. Linked(opp, side, up, us, root)
  BY <1>1 DEF Linked
<1>7. Numbered(us, n, p2, k2)
  <2>1. ASSUME NEW x \in us PROVE 1 <= p2[x] /\ p2[x] <= n
    <3>1. 1 <= pos[x] /\ pos[x] <= n
      BY <1>1 DEF Numbered
    <3> QED BY <1>2, <1>4, <1>5, <3>1
  <2>2. ASSUME NEW i \in 1 .. n PROVE \E x \in us : p2[x] = i
    <3>1. n + 1 - i \in 1 .. n
      BY <1>2
    <3>2. PICK x \in us : pos[x] = n + 1 - i
      BY <1>1, <3>1 DEF Numbered
    <3>3. p2[x] = i
      BY <1>2, <1>4, <1>5, <3>2
    <3> QED BY <3>3
  <2>3. ASSUME NEW x \in us, NEW y \in us
        PROVE  /\ p2[x] = p2[y] => x = y
               /\ p2[x] < p2[y] => k2[x] <= k2[y]
    <3>1. (pos[y] = pos[x] => x = y) /\ (pos[y] < pos[x] => key[y] <= key[x])
      BY <1>1 DEF Numbered
    <3> QED BY <1>2, <1>4, <1>5, <3>1
  <2> QED BY <1>2, <1>3, <2>1, <2>2, <2>3 DEF Numbered
<1>8. Spanned(opp, side, up, us, root, n, p2, l2, h2)
  <2>1. ASSUME NEW x \in us PROVE Below(opp, side, up, p2, l2, h2, x) /\ h2[x] <= n
    <3>1. Below(side, opp, up, pos, lo, hi, x) /\ hi[x] <= n
      BY <1>1 DEF Spanned
    <3>2. side[x] \in us \union {NULL} /\ opp[x] \in us \union {NULL}
      BY <1>1, <1>2 DEF Linked
    <3>3. 1 <= l2[x] /\ l2[x] <= p2[x] /\ p2[x] <= h2[x] /\ h2[x] <= n
      BY <1>2, <1>4, <1>5, <3>1 DEF Below
    <3>4. side[x] = NULL => l2[x] = p2[x]
      BY <1>4, <3>1 DEF Below
    <3>5. opp[x] = NULL => h2[x] = p2[x]
      BY <1>4, <3>1 DEF Below
    <3>6. ASSUME side[x] # NULL
          PROVE  up[side[x]] = x /\ l2[side[x]] = l2[x] /\ h2[side[x]] = p2[x] - 1
      <4>1. side[x] \in us
        BY <3>2, <3>6
      <4>2. up[side[x]] = x /\ hi[side[x]] = hi[x] /\ lo[side[x]] = pos[x] + 1
        BY <3>1, <3>6 DEF Below
      <4> QED BY <1>2, <1>4, <1>5, <4>1, <4>2
    <3>7. ASSUME opp[x] # NULL
          PROVE  up[opp[x]] = x /\ h2[opp[x]] = h2[x] /\ l2[opp[x]] = p2[x] + 1
      <4>1. opp[x] \in us
        BY <3>2, <3>7
      <4>2. up[opp[x]] = x /\ lo[opp[x]] = lo[x] /\ hi[opp[x]] = pos[x] - 1
        BY <3>1, <3>7 DEF Below
      <4> QED BY <1>2, <1>4, <1>5, <4>1, <4>2
    <3> QED BY <3>3, <3>4, <3>5, <3>6, <3>7 DEF Below
  <2>2. ASSUME NEW x \in us, x # root PROVE ChildOf(opp, side, us, x, up[x])
    BY <1>1, <2>2 DEF Spanned, ChildOf
  <2>3. IF root = NULL THEN n = 0 ELSE l2[root] = 1 /\ h2[root] = n /\ up[root] = NULL
    <3>1. root \in us \union {NULL} /\ IF root = NULL THEN n = 0 ELSE lo[root] = 1 /\ hi[root] = n /\ up[root] = NULL
      BY <1>1 DEF Spanned, Linked
    <3>2. CASE root = NULL
      BY <3>1, <3>2
    <3>3. CASE root # NULL
      <4>1. root \in us /\ lo[root] = 1 /\ hi[root] = n /\ up[root] = NULL
        BY <3>1, <3>3
      <4>2. l2[root] = n + 1 - n /\ h2[root] = n + 1 - 1
        BY <1>4, <4>1
      <4>3. n + 1 - n = 1 /\ n + 1 - 1 = n
        BY <1>2
      <4> QED BY <3>3, <4>1, <4>2, <4>3
    <3> QED BY <3>2, <3>3
  <2> QED BY <1>3, <2>1, <2>2, <2>3 DEF Spanned
<1>9. Ranked(opp, side, up, us, root, k2, n, p2, l2, h2)
  BY <1>6, <1>7, <1>8 DEF Ranked
<1> QED BY <1>9 DEF k2, p2, l2, h2

LEMMA TurnedBack ==
  ASSUME NEW key \in [Tree!Nodes -> Int]
  PROVE  Turned(0, Turned(0, key)) = key /\ Turned(0, key) \in [Tree!Nodes -> Int]
<1>1. \A x \in Tree!Nodes : 0 - (0 - key[x]) = key[x] /\ 0 - key[x] \in Int
  OBVIOUS
<1> QED BY <1>1 DEF Turned

LEMMA TurnedSorted ==
  ASSUME NEW side, NEW opp, NEW up, NEW us, NEW root, NEW key \in [Tree!Nodes -> Int],
         Sorted(side, opp, up, us, root, Turned(0, key))
  PROVE  Sorted(opp, side, up, us, root, key)
<1> DEFINE k2 == Turned(0, key)
<1>1. k2 \in [Tree!Nodes -> Int] /\ Turned(0, k2) = key
  BY TurnedBack
<1>2. PICK n, pos, lo, hi : Ranked(side, opp, up, us, root, k2, n, pos, lo, hi)
  BY DEF Sorted
<1> HIDE DEF k2
<1>3. Ranked(opp, side, up, us, root, Turned(0, k2), n, Turned(n + 1, pos), Turned(n + 1, hi), Turned(n + 1, lo))
  BY <1>1, <1>2, TurnedRanked
<1> QED BY <1>1, <1>3 DEF Sorted

(* The node at a place *)
Nth(us, pos, i) == CHOOSE x \in us : pos[x] = i

LEMMA NthFacts ==
  ASSUME NEW us, NEW n, NEW pos, NEW key, Numbered(us, n, pos, key)
  PROVE  /\ \A i \in 1 .. n : Nth(us, pos, i) \in us /\ pos[Nth(us, pos, i)] = i
         /\ \A x \in us : Nth(us, pos, pos[x]) = x
<1>1. ASSUME NEW i \in 1 .. n PROVE Nth(us, pos, i) \in us /\ pos[Nth(us, pos, i)] = i
  <2>1. \E x \in us : pos[x] = i
    BY DEF Numbered
  <2> QED BY <2>1 DEF Nth
<1>2. ASSUME NEW x \in us PROVE Nth(us, pos, pos[x]) = x
  <2>1. Nth(us, pos, pos[x]) \in us /\ pos[Nth(us, pos, pos[x])] = pos[x]
    BY DEF Nth
  <2> QED BY <2>1 DEF Numbered
<1> QED BY <1>1, <1>2

(* What a node and the one above it know of each other *)
LEMMA RankedFacts ==
  ASSUME NEW side, NEW opp, NEW up, NEW us, NEW root, NEW key,
         NEW n, NEW pos, NEW lo, NEW hi, Ranked(side, opp, up, us, root, key, n, pos, lo, hi)
  PROVE  /\ n \in Nat /\ us \subseteq Tree!Nodes /\ NULL \notin us /\ root \in us \union {NULL}
         /\ \A x \in us : /\ pos[x] \in Int /\ lo[x] \in Int /\ hi[x] \in Int /\ 1 <= lo[x]
                          /\ lo[x] <= pos[x] /\ pos[x] <= hi[x] /\ hi[x] <= n
         /\ \A x \in us : side[x] \in us \union {NULL} /\ opp[x] \in us \union {NULL} /\ up[x] \in us \union {NULL}
         /\ \A x \in us : /\ side[x] = NULL => hi[x] = pos[x]
                          /\ side[x] # NULL => /\ up[side[x]] = x /\ hi[side[x]] = hi[x]
                                               /\ lo[side[x]] = pos[x] + 1
         /\ \A x \in us : /\ opp[x] = NULL => lo[x] = pos[x]
                          /\ opp[x] # NULL => /\ up[opp[x]] = x /\ lo[opp[x]] = lo[x]
                                              /\ hi[opp[x]] = pos[x] - 1
         /\ \A x \in us : x # root => up[x] \in us /\ (side[up[x]] = x \/ opp[up[x]] = x)
         /\ root \in us => lo[root] = 1 /\ hi[root] = n /\ up[root] = NULL
         /\ root = NULL => n = 0 /\ us = {}
         /\ \A x \in Tree!Nodes \ us : side[x] = NULL /\ opp[x] = NULL /\ up[x] = NULL
<1>1. Linked(side, opp, up, us, root) /\ Numbered(us, n, pos, key)
      /\ Spanned(side, opp, up, us, root, n, pos, lo, hi)
  BY DEF Ranked
<1>2. /\ n \in Nat /\ us \subseteq Tree!Nodes /\ NULL \notin us /\ root \in us \union {NULL}
      /\ pos \in [Tree!Nodes -> Int] /\ lo \in [Tree!Nodes -> Int] /\ hi \in [Tree!Nodes -> Int]
      /\ side \in [Tree!Nodes -> us \union {NULL}] /\ opp \in [Tree!Nodes -> us \union {NULL}]
      /\ up \in [Tree!Nodes -> us \union {NULL}]
  <2>1. NULL \notin Tree!Nodes
    BY TreeConstants
  <2> QED BY <1>1, <2>1 DEF Linked, Numbered, Spanned
<1>3. ASSUME NEW x \in us
      PROVE  /\ pos[x] \in Int /\ lo[x] \in Int /\ hi[x] \in Int
             /\ side[x] \in us \union {NULL} /\ opp[x] \in us \union {NULL} /\ up[x] \in us \union {NULL}
  BY <1>2
<1>4. \A x \in us : Below(side, opp, up, pos, lo, hi, x) /\ hi[x] <= n
  BY <1>1 DEF Spanned
<1>5. \A x \in us : x # root => up[x] \in us /\ (side[up[x]] = x \/ opp[up[x]] = x)
  BY <1>1 DEF Spanned, ChildOf
<1>6. root \in us => lo[root] = 1 /\ hi[root] = n /\ up[root] = NULL
  BY <1>1, <1>2 DEF Spanned
<1>7. root = NULL => n = 0 /\ us = {}
  <2> SUFFICES ASSUME root = NULL PROVE n = 0 /\ us = {}
    OBVIOUS
  <2>1. n = 0
    BY <1>1 DEF Spanned
  <2>2. \A x \in us : 1 <= pos[x] /\ pos[x] <= 0
    BY <1>1, <2>1 DEF Numbered
  <2>3. \A x \in us : FALSE
    BY <1>3, <2>2
  <2> QED BY <2>1, <2>3
<1>8. \A x \in Tree!Nodes \ us : side[x] = NULL /\ opp[x] = NULL /\ up[x] = NULL
  BY <1>1 DEF Linked
<1>9. ASSUME NEW x \in us
      PROVE  /\ 1 <= lo[x] /\ lo[x] <= pos[x] /\ pos[x] <= hi[x] /\ hi[x] <= n
             /\ side[x] = NULL => hi[x] = pos[x]
             /\ side[x] # NULL => up[side[x]] = x /\ hi[side[x]] = hi[x] /\ lo[side[x]] = pos[x] + 1
             /\ opp[x] = NULL => lo[x] = pos[x]
             /\ opp[x] # NULL => up[opp[x]] = x /\ lo[opp[x]] = lo[x] /\ hi[opp[x]] = pos[x] - 1
  BY <1>4 DEF Below
<1> QED BY <1>2, <1>3, <1>5, <1>6, <1>7, <1>8, <1>9

(* bscl_bstree_minimum and bscl_bstree_maximum *)
LEMMA UtmostIs ==
  ASSUME NEW side, NEW opp, NEW up, NEW us, NEW root, NEW key,
         NEW n, NEW pos, NEW lo, NEW hi, Ranked(side, opp, up, us, root, key, n, pos, lo, hi)
  PROVE  \A x \in us : /\ Tree!Utmost(opp, x) \in us /\ pos[Tree!Utmost(opp, x)] = lo[x]
                       /\ opp[Tree!Utmost(opp, x)] = NULL
<1>1. Numbered(us, n, pos, key) /\ n \in Nat /\ us \subseteq Tree!Nodes /\ NULL \notin us
  BY RankedFacts DEF Ranked
<1>2. \A x \in us : /\ pos[x] \in Int /\ lo[x] \in Int /\ hi[x] \in Int /\ 1 <= lo[x]
                    /\ lo[x] <= pos[x] /\ pos[x] <= hi[x] /\ hi[x] <= n
  BY RankedFacts
<1>3. \A x \in us : /\ opp[x] = NULL => lo[x] = pos[x]
                    /\ opp[x] # NULL => opp[x] \in us /\ lo[opp[x]] = lo[x] /\ hi[opp[x]] = pos[x] - 1
  BY RankedFacts
<1>4. \A x \in Tree!Nodes \ us : opp[x] = NULL
  BY RankedFacts
<1>5. \A x \in us : Nth(us, pos, pos[x]) = x
  BY <1>1, NthFacts
<1> DEFINE f == [y \in Tree!Nodes |-> IF y \in us THEN Nth(us, pos, lo[y]) ELSE y]
           steps(g) == [y \in Tree!Nodes |-> IF opp[y] = NULL THEN y ELSE g[opp[y]]]
           from == CHOOSE g : g = steps(g)
<1>6. f = steps(f)
  <2>1. ASSUME NEW y \in Tree!Nodes PROVE f[y] = IF opp[y] = NULL THEN y ELSE f[opp[y]]
    <3>1. CASE y \notin us
      BY <1>4, <3>1
    <3>2. CASE y \in us /\ opp[y] = NULL
      BY <1>3, <1>5, <3>2
    <3>3. CASE y \in us /\ opp[y] # NULL
      <4>1. opp[y] \in us /\ opp[y] \in Tree!Nodes /\ lo[opp[y]] = lo[y]
        BY <1>1, <1>3, <3>3
      <4> QED BY <3>3, <4>1
    <3> QED BY <3>1, <3>2, <3>3
  <2> HIDE DEF f
  <2>2. f = [y \in Tree!Nodes |-> f[y]]
    BY DEF f
  <2> QED BY <2>1, <2>2
<1>7. from = steps(from)
  <2> HIDE DEF f, steps
  <2>1. \E g : g = steps(g)
    BY <1>6
  <2> QED BY <2>1
<1> HIDE DEF from, f
<1>8. \A y \in Tree!Nodes : from[y] = IF opp[y] = NULL THEN y ELSE from[opp[y]]
  BY <1>7
<1> DEFINE m == [y \in us |-> pos[y]]
           G == {y \in us : from[y] \in us /\ pos[from[y]] = lo[y] /\ opp[from[y]] = NULL}
<1>9. us \subseteq G
  <2>1. m \in [us -> 0 .. n]
    BY <1>1, <1>2
  <2>2. ASSUME NEW y \in us, \A z \in us : m[z] < m[y] => z \in G
        PROVE  y \in G
    <3>1. CASE opp[y] = NULL
      BY <1>1, <1>3, <1>8, <3>1
    <3>2. CASE opp[y] # NULL
      <4>1. opp[y] \in us /\ lo[opp[y]] = lo[y] /\ hi[opp[y]] = pos[y] - 1
        BY <1>3, <3>2
      <4>2. pos[opp[y]] < pos[y]
        BY <1>2, <4>1
      <4>3. opp[y] \in G
        BY <2>2, <4>1, <4>2
      <4>4. from[y] = from[opp[y]]
        BY <1>1, <1>8, <3>2
      <4> QED BY <4>1, <4>3, <4>4
    <3> QED BY <3>1, <3>2
  <2> HIDE DEF m, G
  <2> QED BY <1>1, <2>1, <2>2, ByMeasure
<1>10. \A x \in us : Tree!Utmost(opp, x) = from[x]
  BY <1>1 DEF Tree!Utmost, from
<1> QED BY <1>9, <1>10

(* bscl_bstree_successor, and bscl_bstree_predecessor the other way round *)
Next1(us, n, pos, x, z) == IF pos[x] = n THEN z = NULL ELSE z \in us /\ pos[z] = pos[x] + 1

LEMMA NeighbourIs ==
  ASSUME NEW side, NEW opp, NEW up, NEW us, NEW root, NEW key,
         NEW n, NEW pos, NEW lo, NEW hi, Ranked(side, opp, up, us, root, key, n, pos, lo, hi)
  PROVE  \A x \in us : Next1(us, n, pos, x, Tree!Neighbour(side, opp, up, x))
<1>1. Numbered(us, n, pos, key) /\ n \in Nat /\ us \subseteq Tree!Nodes /\ NULL \notin us
  BY RankedFacts DEF Ranked
<1>2. \A x \in us : /\ pos[x] \in Int /\ lo[x] \in Int /\ hi[x] \in Int /\ 1 <= lo[x]
                    /\ lo[x] <= pos[x] /\ pos[x] <= hi[x] /\ hi[x] <= n
  BY RankedFacts
<1>3. \A x \in us : /\ side[x] = NULL => hi[x] = pos[x]
                    /\ side[x] # NULL => /\ side[x] \in us /\ hi[side[x]] = hi[x]
                                         /\ lo[side[x]] = pos[x] + 1
  BY RankedFacts
<1>4. \A x \in us : opp[x] # NULL => hi[opp[x]] = pos[x] - 1
  BY RankedFacts
<1>5. \A x \in us : x # root => up[x] \in us /\ (side[up[x]] = x \/ opp[up[x]] = x)
  BY RankedFacts
<1>6. root \in us => hi[root] = n /\ up[root] = NULL
  BY RankedFacts
<1>7. \A x \in Tree!Nodes \ us : up[x] = NULL
  BY RankedFacts
<1>8. /\ \A i \in 1 .. n : Nth(us, pos, i) \in us /\ pos[Nth(us, pos, i)] = i
      /\ \A x \in us : Nth(us, pos, pos[x]) = x
  BY <1>1, NthFacts
<1> DEFINE after(y) == IF hi[y] = n THEN NULL ELSE Nth(us, pos, hi[y] + 1)
           f == [y \in Tree!Nodes |-> IF y \in us THEN after(y) ELSE NULL]
           steps(g) == [y \in Tree!Nodes |-> IF up[y] # NULL /\ y = side[up[y]] THEN g[up[y]] ELSE up[y]]
           from == CHOOSE g : g = steps(g)
<1>9. \A y \in us : IF up[y] # NULL /\ y = side[up[y]]
                    THEN up[y] \in us /\ after(y) = after(up[y])
                    ELSE after(y) = up[y]
  <2> SUFFICES ASSUME NEW y \in us
               PROVE  IF up[y] # NULL /\ y = side[up[y]]
                      THEN up[y] \in us /\ after(y) = after(up[y])
                      ELSE after(y) = up[y]
    OBVIOUS
  <2>1. CASE y = root
    BY <1>6, <2>1
  <2>2. CASE y # root /\ side[up[y]] = y
    <3>1. up[y] \in us /\ up[y] # NULL
      BY <1>1, <1>5, <2>2
    <3>2. hi[y] = hi[up[y]]
      BY <1>1, <1>3, <2>2, <3>1
    <3> QED BY <2>2, <3>1, <3>2
  <2>3. CASE y # root /\ side[up[y]] # y
    <3>1. up[y] \in us /\ up[y] # NULL /\ opp[up[y]] = y
      BY <1>1, <1>5, <2>3
    <3>2. hi[y] = pos[up[y]] - 1
      BY <1>1, <1>4, <3>1
    <3>3. hi[y] # n /\ hi[y] + 1 = pos[up[y]]
      BY <1>1, <1>2, <3>1, <3>2
    <3> QED BY <1>8, <2>3, <3>1, <3>3
  <2> QED BY <2>1, <2>2, <2>3
<1> HIDE DEF after
<1>10. f = steps(f)
  <2>1. ASSUME NEW y \in Tree!Nodes
        PROVE  f[y] = IF up[y] # NULL /\ y = side[up[y]] THEN f[up[y]] ELSE up[y]
    <3>1. CASE y \notin us
      BY <1>7, <3>1
    <3>2. CASE y \in us
      BY <1>1, <1>9, <3>2
    <3> QED BY <3>1, <3>2
  <2> HIDE DEF f
  <2>2. f = [y \in Tree!Nodes |-> f[y]]
    BY DEF f
  <2> QED BY <2>1, <2>2
<1>11. from = steps(from)
  <2> HIDE DEF f, steps
  <2>1. \E g : g = steps(g)
    BY <1>10
  <2> QED BY <2>1
<1> HIDE DEF from, f
<1>12. \A y \in Tree!Nodes : from[y] = IF up[y] # NULL /\ y = side[up[y]] THEN from[up[y]] ELSE up[y]
  BY <1>11
<1> DEFINE m == [y \in us |-> n - (hi[y] - lo[y])]
           G == {y \in us : from[y] = after(y)}
<1>13. us \subseteq G
  <2>1. m \in [us -> 0 .. n]
    BY <1>1, <1>2
  <2>2. ASSUME NEW y \in us, \A z \in us : m[z] < m[y] => z \in G
        PROVE  y \in G
    <3>1. CASE up[y] # NULL /\ y = side[up[y]]
      <4>1. up[y] \in us /\ after(y) = after(up[y])
        BY <1>9, <3>1
      <4>2. hi[y] = hi[up[y]] /\ lo[y] = pos[up[y]] + 1
        BY <1>1, <1>3, <3>1, <4>1
      <4>3. m[up[y]] < m[y]
        BY <1>1, <1>2, <4>1, <4>2
      <4>4. up[y] \in G
        BY <2>2, <4>1, <4>3
      <4>5. from[y] = from[up[y]]
        BY <1>1, <1>12, <3>1
      <4> QED BY <4>1, <4>4, <4>5
    <3>2. CASE ~(up[y] # NULL /\ y = side[up[y]])
      BY <1>1, <1>9, <1>12, <3>2
    <3> QED BY <3>1, <3>2
  <2> HIDE DEF m, G
  <2> QED BY <1>1, <2>1, <2>2, ByMeasure
<1>14. ASSUME NEW x \in us PROVE Next1(us, n, pos, x, Tree!Neighbour(side, opp, up, x))
  <2>1. Tree!Neighbour(side, opp, up, x) = IF side[x] # NULL THEN Tree!Utmost(opp, side[x]) ELSE from[x]
    BY DEF Tree!Neighbour, from
  <2>2. CASE side[x] # NULL
    <3>1. side[x] \in us /\ lo[side[x]] = pos[x] + 1
      BY <1>3, <2>2
    <3>2. Tree!Utmost(opp, side[x]) \in us /\ pos[Tree!Utmost(opp, side[x])] = pos[x] + 1
      BY <3>1, UtmostIs
    <3>3. pos[x] # n
      BY <1>1, <1>2, <3>1
    <3> QED BY <2>1, <2>2, <3>2, <3>3 DEF Next1
  <2>3. CASE side[x] = NULL
    <3>1. from[x] = after(x) /\ hi[x] = pos[x]
      BY <1>3, <1>13, <2>3
    <3>2. pos[x] # n => pos[x] + 1 \in 1 .. n
      BY <1>1, <1>2
    <3> QED BY <1>8, <2>1, <2>3, <3>1, <3>2 DEF Next1, after
  <2> QED BY <2>2, <2>3
<1> QED BY <1>14

(* A new node between a node and what is below it on one side *)
HungOpp(opp, x, at) ==
  [y \in Tree!Nodes |-> IF y = x THEN opp[at] ELSE IF y = at THEN x ELSE opp[y]]
HungUp(opp, up, x, at) ==
  [y \in Tree!Nodes |-> IF y = x THEN at ELSE IF y = opp[at] THEN x ELSE up[y]]

LEMMA Hung ==
  ASSUME NEW side, NEW opp, NEW up, NEW us, NEW root, NEW key \in [Tree!Nodes -> Int],
         NEW n, NEW pos, NEW lo, NEW hi, Ranked(side, opp, up, us, root, key, n, pos, lo, hi),
         NEW x \in Tree!Nodes, x \notin us, NEW at \in us,
         \A y \in us : pos[y] < pos[at] => key[y] <= key[x],
         \A y \in us : pos[at] <= pos[y] => key[x] <= key[y]
  PROVE  Sorted(side, HungOpp(opp, x, at), HungUp(opp, up, x, at), us \union {x}, root, key)
<1> DEFINE o2 == HungOpp(opp, x, at)
           u2 == HungUp(opp, up, x, at)
           us2 == us \union {x}
           p == pos[at]
           p2 == [y \in Tree!Nodes |-> IF y = x THEN p ELSE IF pos[y] >= p THEN pos[y] + 1 ELSE pos[y]]
           l2 == [y \in Tree!Nodes |-> IF y = x THEN lo[at] ELSE IF lo[y] > p THEN lo[y] + 1 ELSE lo[y]]
           h2 == [y \in Tree!Nodes |-> IF y = x THEN p ELSE IF hi[y] >= p THEN hi[y] + 1 ELSE hi[y]]
<1>1. /\ n \in Nat /\ us \subseteq Tree!Nodes /\ NULL \notin us /\ root \in us \union {NULL}
      /\ Linked(side, opp, up, us, root) /\ Numbered(us, n, pos, key)
      /\ Spanned(side, opp, up, us, root, n, pos, lo, hi)
      /\ NULL \notin Tree!Nodes /\ x # NULL /\ x # at /\ at # NULL
  BY RankedFacts, TreeConstants DEF Ranked
<1>2. \A y \in us : /\ pos[y] \in Int /\ lo[y] \in Int /\ hi[y] \in Int /\ 1 <= lo[y]
                    /\ lo[y] <= pos[y] /\ pos[y] <= hi[y] /\ hi[y] <= n
  BY RankedFacts
<1>3. \A y \in us : /\ side[y] \in us \union {NULL} /\ opp[y] \in us \union {NULL}
                    /\ up[y] \in us \union {NULL}
  BY RankedFacts
<1>4. \A y \in us : /\ side[y] = NULL => hi[y] = pos[y]
                    /\ side[y] # NULL => /\ up[side[y]] = y /\ hi[side[y]] = hi[y]
                                         /\ lo[side[y]] = pos[y] + 1
  BY RankedFacts
<1>5. \A y \in us : /\ opp[y] = NULL => lo[y] = pos[y]
                    /\ opp[y] # NULL => /\ up[opp[y]] = y /\ lo[opp[y]] = lo[y]
                                        /\ hi[opp[y]] = pos[y] - 1
  BY RankedFacts
<1>6. \A y \in us : y # root => up[y] \in us /\ (side[up[y]] = y \/ opp[up[y]] = y)
  BY RankedFacts
<1>7. root \in us /\ lo[root] = 1 /\ hi[root] = n /\ up[root] = NULL
  BY RankedFacts
<1>8. \A y \in Tree!Nodes \ us : side[y] = NULL /\ opp[y] = NULL /\ up[y] = NULL
  BY RankedFacts
<1>9. /\ pos \in [Tree!Nodes -> Int] /\ lo \in [Tree!Nodes -> Int] /\ hi \in [Tree!Nodes -> Int]
      /\ side \in [Tree!Nodes -> us \union {NULL}] /\ opp \in [Tree!Nodes -> us \union {NULL}]
      /\ up \in [Tree!Nodes -> us \union {NULL}]
  BY <1>1 DEF Linked, Numbered, Spanned
<1>10. p \in Int /\ 1 <= p /\ p <= n /\ lo[at] \in Int /\ 1 <= lo[at] /\ lo[at] <= p
  BY <1>1, <1>2
<1>11. /\ o2[x] = opp[at] /\ o2[at] = x /\ u2[x] = at
       /\ \A y \in us : /\ y # at => o2[y] = opp[y]
                        /\ y = opp[at] => u2[y] = x
                        /\ y # opp[at] => u2[y] = up[y]
  BY <1>1 DEF HungOpp, HungUp
<1>12. /\ p2[x] = p /\ l2[x] = lo[at] /\ h2[x] = p
       /\ \A y \in us : /\ p2[y] = IF pos[y] >= p THEN pos[y] + 1 ELSE pos[y]
                        /\ l2[y] = IF lo[y] > p THEN lo[y] + 1 ELSE lo[y]
                        /\ h2[y] = IF hi[y] >= p THEN hi[y] + 1 ELSE hi[y]
  BY <1>1
<1>13. p2 \in [Tree!Nodes -> Int] /\ l2 \in [Tree!Nodes -> Int] /\ h2 \in [Tree!Nodes -> Int]
  BY <1>9, <1>10
<1>14. Linked(side, o2, u2, us2, root)
  <2>1. o2 \in [Tree!Nodes -> us2 \union {NULL}] /\ u2 \in [Tree!Nodes -> us2 \union {NULL}]
    <3>1. opp[at] \in us \union {NULL}
      BY <1>3
    <3> QED BY <1>1, <1>9, <3>1 DEF HungOpp, HungUp
  <2>2. side \in [Tree!Nodes -> us2 \union {NULL}]
    BY <1>9
  <2>3. ASSUME NEW y \in Tree!Nodes \ us2 PROVE side[y] = NULL /\ o2[y] = NULL /\ u2[y] = NULL
    <3>1. y # x /\ y # at /\ y # opp[at] /\ y \in Tree!Nodes \ us
      BY <1>1, <1>3
    <3> QED BY <1>8, <3>1 DEF HungOpp, HungUp
  <2> HIDE DEF o2, u2
  <2> QED BY <1>1, <2>1, <2>2, <2>3 DEF Linked
<1> HIDE DEF o2, u2, p2, l2, h2, p
<1>15. Numbered(us2, n + 1, p2, key)
  <2>1. ASSUME NEW y \in us2 PROVE 1 <= p2[y] /\ p2[y] <= n + 1
    BY <1>1, <1>2, <1>10, <1>12
  <2>2. ASSUME NEW i \in 1 .. n + 1 PROVE \E y \in us2 : p2[y] = i
    <3>1. CASE i = p
      BY <1>12, <3>1
    <3>2. CASE i < p
      <4>1. i \in 1 .. n
        BY <1>1, <1>10, <3>2
      <4>2. PICK y \in us : pos[y] = i
        BY <1>1, <4>1 DEF Numbered
      <4>3. p2[y] = i
        BY <1>10, <1>12, <3>2, <4>2
      <4> QED BY <4>3
    <3>3. CASE i > p
      <4>1. i - 1 \in 1 .. n
        BY <1>1, <1>10, <3>3
      <4>2. PICK y \in us : pos[y] = i - 1
        BY <1>1, <4>1 DEF Numbered
      <4>3. p2[y] = i
        BY <1>10, <1>12, <3>3, <4>2
      <4> QED BY <4>3
    <3> QED BY <1>10, <3>1, <3>2, <3>3
  <2>3. ASSUME NEW y \in us2, NEW z \in us2
        PROVE  (p2[y] = p2[z] => y = z) /\ (p2[y] < p2[z] => key[y] <= key[z])
    <3>1. CASE y = x /\ z = x
      <4>1. ~(p2[y] < p2[z])
        BY <1>10, <1>12, <3>1
      <4> QED BY <3>1, <4>1
    <3>2. CASE y = x /\ z # x
      <4>1. z \in us /\ pos[z] \in Int
        BY <1>2, <3>2
      <4>2. p2[y] # p2[z] /\ (p2[y] < p2[z] => p <= pos[z])
        BY <1>10, <1>12, <3>2, <4>1
      <4> QED BY <3>2, <4>1, <4>2 DEF p
    <3>3. CASE y # x /\ z = x
      <4>1. y \in us /\ pos[y] \in Int
        BY <1>2, <3>3
      <4>2. p2[y] # p2[z] /\ (p2[y] < p2[z] => pos[y] < p)
        BY <1>10, <1>12, <3>3, <4>1
      <4> QED BY <3>3, <4>1, <4>2 DEF p
    <3>4. CASE y # x /\ z # x
      <4>1. y \in us /\ z \in us /\ pos[y] \in Int /\ pos[z] \in Int
        BY <1>2, <3>4
      <4>2. (p2[y] = p2[z] => pos[y] = pos[z]) /\ (p2[y] < p2[z] => pos[y] < pos[z])
        BY <1>10, <1>12, <4>1
      <4> QED BY <1>1, <4>1, <4>2 DEF Numbered
    <3> QED BY <3>1, <3>2, <3>3, <3>4
  <2>4. n + 1 \in Nat
    BY <1>1
  <2> QED BY <1>13, <2>1, <2>2, <2>3, <2>4 DEF Numbered
<1>16. Spanned(side, o2, u2, us2, root, n + 1, p2, l2, h2)
  <2>1. Below(side, o2, u2, p2, l2, h2, x) /\ h2[x] <= n + 1
    <3>1. side[x] = NULL
      BY <1>8
    <3>2. 1 <= l2[x] /\ l2[x] <= p2[x] /\ p2[x] <= h2[x] /\ h2[x] = p2[x] /\ h2[x] <= n + 1
      BY <1>1, <1>10, <1>12
    <3>3. CASE opp[at] = NULL
      <4>1. o2[x] = NULL /\ l2[x] = p2[x]
        BY <1>5, <1>11, <1>12, <3>3 DEF p
      <4> QED BY <3>1, <3>2, <4>1 DEF Below
    <3>4. CASE opp[at] # NULL
      <4> DEFINE c == opp[at]
      <4>1. c \in us /\ lo[c] = lo[at] /\ hi[c] = p - 1 /\ o2[x] = c /\ u2[c] = x /\ c # NULL
        BY <1>3, <1>5, <1>11, <3>4 DEF p
      <4> HIDE DEF c
      <4>2. l2[c] = l2[x] /\ h2[c] = p2[x] - 1
        BY <1>10, <1>12, <4>1
      <4> QED BY <3>1, <3>2, <4>1, <4>2 DEF Below
    <3> QED BY <3>3, <3>4
  <2>2. Below(side, o2, u2, p2, l2, h2, at)
    <3>1. o2[at] = x /\ u2[x] = at /\ l2[x] = l2[at] /\ h2[x] = p2[at] - 1
      BY <1>10, <1>11, <1>12 DEF p
    <3>2. 1 <= l2[at] /\ l2[at] <= p2[at] /\ p2[at] <= h2[at]
      BY <1>2, <1>10, <1>12 DEF p
    <3>3. side[at] = NULL => h2[at] = p2[at]
      BY <1>4, <1>12
    <3>4. ASSUME side[at] # NULL
          PROVE  u2[side[at]] = at /\ h2[side[at]] = h2[at] /\ l2[side[at]] = p2[at] + 1
      <4> DEFINE c == side[at]
      <4>1. c \in us /\ up[c] = at /\ hi[c] = hi[at] /\ lo[c] = p + 1
        BY <1>3, <1>4, <3>4 DEF p
      <4>2. c # opp[at]
        <5> SUFFICES ASSUME c = opp[at] PROVE FALSE
          OBVIOUS
        <5>1. hi[c] = p - 1 /\ lo[c] <= hi[c] /\ hi[c] \in Int
          BY <1>2, <1>5, <3>4, <4>1 DEF p
        <5> HIDE DEF c
        <5> QED BY <1>10, <4>1, <5>1
      <4> HIDE DEF c
      <4>3. u2[c] = at /\ h2[c] = h2[at]
        BY <1>11, <1>12, <4>1, <4>2
      <4>4. l2[c] = p2[at] + 1
        BY <1>10, <1>12, <4>1 DEF p
      <4> QED BY <4>3, <4>4 DEF c
    <3> QED BY <1>1, <3>1, <3>2, <3>3, <3>4 DEF Below
  <2>3. ASSUME NEW y \in us, y # at PROVE Below(side, o2, u2, p2, l2, h2, y)
    <3>1. o2[y] = opp[y] /\ pos[y] # p
      <4>1. pos[y] # p
        BY <1>1, <2>3 DEF Numbered, p
      <4> QED BY <1>11, <2>3, <4>1
    <3>2. 1 <= l2[y] /\ l2[y] <= p2[y] /\ p2[y] <= h2[y]
      BY <1>2, <1>10, <1>12
    <3>3. (side[y] = NULL => h2[y] = p2[y]) /\ (opp[y] = NULL => l2[y] = p2[y])
      BY <1>2, <1>4, <1>5, <1>10, <1>12, <3>1
    <3>4. ASSUME side[y] # NULL
          PROVE  u2[side[y]] = y /\ h2[side[y]] = h2[y] /\ l2[side[y]] = p2[y] + 1
      <4> DEFINE c == side[y]
      <4>1. c \in us /\ up[c] = y /\ hi[c] = hi[y] /\ lo[c] = pos[y] + 1
        BY <1>3, <1>4, <3>4
      <4>2. c # opp[at]
        BY <1>1, <1>5, <2>3, <4>1
      <4> HIDE DEF c
      <4>3. u2[c] = y /\ h2[c] = h2[y]
        BY <1>11, <1>12, <4>1, <4>2
      <4>4. l2[c] = p2[y] + 1
        BY <1>2, <1>10, <1>12, <3>1, <4>1
      <4> QED BY <4>3, <4>4 DEF c
    <3>5. ASSUME opp[y] # NULL
          PROVE  u2[opp[y]] = y /\ l2[opp[y]] = l2[y] /\ h2[opp[y]] = p2[y] - 1
      <4> DEFINE c == opp[y]
      <4>1. c \in us /\ up[c] = y /\ lo[c] = lo[y] /\ hi[c] = pos[y] - 1
        BY <1>3, <1>5, <3>5
      <4>2. c # opp[at]
        BY <1>1, <1>5, <2>3, <4>1
      <4> HIDE DEF c
      <4>3. u2[c] = y /\ l2[c] = l2[y]
        BY <1>11, <1>12, <4>1, <4>2
      <4>4. h2[c] = p2[y] - 1
        BY <1>2, <1>10, <1>12, <3>1, <4>1
      <4> QED BY <4>3, <4>4 DEF c
    <3> QED BY <3>1, <3>2, <3>3, <3>4, <3>5 DEF Below
  <2>4. ASSUME NEW y \in us2 PROVE Below(side, o2, u2, p2, l2, h2, y) /\ h2[y] <= n + 1
    <3>1. CASE y = x
      BY <2>1, <3>1
    <3>2. CASE y # x
      <4>1. y \in us
        BY <3>2
      <4>2. h2[y] <= n + 1
        BY <1>1, <1>2, <1>12, <4>1
      <4> QED BY <2>2, <2>3, <4>1, <4>2
    <3> QED BY <3>1, <3>2
  <2>5. ASSUME NEW y \in us2, y # root PROVE ChildOf(side, o2, us2, y, u2[y])
    <3>1. CASE y = x
      BY <1>11, <3>1 DEF ChildOf
    <3>2. CASE y # x /\ y = opp[at]
      BY <1>11, <3>2 DEF ChildOf
    <3>3. CASE y # x /\ y # opp[at]
      <4>1. y \in us /\ up[y] \in us /\ (side[up[y]] = y \/ opp[up[y]] = y) /\ u2[y] = up[y]
        BY <1>6, <1>11, <2>5, <3>3
      <4>2. opp[up[y]] = y => o2[up[y]] = y
        BY <1>11, <3>3, <4>1
      <4> QED BY <4>1, <4>2 DEF ChildOf
    <3> QED BY <3>1, <3>2, <3>3
  <2>6. root # NULL /\ l2[root] = 1 /\ h2[root] = n + 1 /\ u2[root] = NULL
    <3>1. root # opp[at]
      BY <1>1, <1>5, <1>7
    <3> QED BY <1>1, <1>7, <1>10, <1>11, <1>12, <3>1
  <2> QED BY <1>13, <2>4, <2>5, <2>6 DEF Spanned
<1>17. Ranked(side, o2, u2, us2, root, key, n + 1, p2, l2, h2)
  BY <1>14, <1>15, <1>16 DEF Ranked
<1> QED BY <1>17 DEF Sorted, o2, u2

(* A node is taken out that has nothing below it on one side; what is below *)
(* it on the other gets its place.                                         *)
Cleared(f, x, c) ==
  [y \in Tree!Nodes |-> IF y = x THEN NULL ELSE IF f[y] = x THEN c ELSE f[y]]
ClearedUp(up, x, c) ==
  [y \in Tree!Nodes |-> IF y = x THEN NULL ELSE IF y = c THEN up[x] ELSE up[y]]

SameOrder(us, pos, pos2) == \A y, z \in us : pos2[y] < pos2[z] => pos[y] < pos[z]

DroppedFrom(side, opp, up, us, root, key, pos, x) ==
  \E n2, pos2, lo2, hi2 :
    /\ Ranked(Cleared(side, x, side[x]), Cleared(opp, x, side[x]), ClearedUp(up, x, side[x]),
              us \ {x}, IF root = x THEN side[x] ELSE root, key, n2, pos2, lo2, hi2)
    /\ SameOrder(us \ {x}, pos, pos2)

LEMMA Dropped ==
  ASSUME NEW side, NEW opp, NEW up, NEW us, NEW root, NEW key \in [Tree!Nodes -> Int],
         NEW n, NEW pos, NEW lo, NEW hi, Ranked(side, opp, up, us, root, key, n, pos, lo, hi),
         NEW x \in us, opp[x] = NULL
  PROVE  DroppedFrom(side, opp, up, us, root, key, pos, x)
<1> DEFINE c == side[x]
           s2 == Cleared(side, x, c)
           o2 == Cleared(opp, x, c)
           u2 == ClearedUp(up, x, c)
           us2 == us \ {x}
           root2 == IF root = x THEN c ELSE root
           p == pos[x]
           p2 == [y \in Tree!Nodes |-> IF pos[y] > p THEN pos[y] - 1 ELSE pos[y]]
           l2 == [y \in Tree!Nodes |-> IF lo[y] > p THEN lo[y] - 1 ELSE lo[y]]
           h2 == [y \in Tree!Nodes |-> IF hi[y] >= p THEN hi[y] - 1 ELSE hi[y]]
<1>1. /\ n \in Nat /\ us \subseteq Tree!Nodes /\ NULL \notin us /\ root \in us \union {NULL}
      /\ Linked(side, opp, up, us, root) /\ Numbered(us, n, pos, key)
      /\ Spanned(side, opp, up, us, root, n, pos, lo, hi)
      /\ NULL \notin Tree!Nodes /\ x # NULL /\ x \in Tree!Nodes
  BY RankedFacts, TreeConstants DEF Ranked
<1>2. \A y \in us : /\ pos[y] \in Int /\ lo[y] \in Int /\ hi[y] \in Int /\ 1 <= lo[y]
                    /\ lo[y] <= pos[y] /\ pos[y] <= hi[y] /\ hi[y] <= n
  BY RankedFacts
<1>3. \A y \in us : /\ side[y] \in us \union {NULL} /\ opp[y] \in us \union {NULL}
                    /\ up[y] \in us \union {NULL}
  BY RankedFacts
<1>4. \A y \in us : /\ side[y] = NULL => hi[y] = pos[y]
                    /\ side[y] # NULL => /\ up[side[y]] = y /\ hi[side[y]] = hi[y]
                                         /\ lo[side[y]] = pos[y] + 1
  BY RankedFacts
<1>5. \A y \in us : /\ opp[y] = NULL => lo[y] = pos[y]
                    /\ opp[y] # NULL => /\ up[opp[y]] = y /\ lo[opp[y]] = lo[y]
                                        /\ hi[opp[y]] = pos[y] - 1
  BY RankedFacts
<1>6. \A y \in us : y # root => up[y] \in us /\ (side[up[y]] = y \/ opp[up[y]] = y)
  BY RankedFacts
<1>7. root \in us /\ lo[root] = 1 /\ hi[root] = n /\ up[root] = NULL
  BY RankedFacts
<1>8. \A y \in Tree!Nodes \ us : side[y] = NULL /\ opp[y] = NULL /\ up[y] = NULL
  BY RankedFacts
<1>9. /\ pos \in [Tree!Nodes -> Int] /\ lo \in [Tree!Nodes -> Int] /\ hi \in [Tree!Nodes -> Int]
      /\ side \in [Tree!Nodes -> us \union {NULL}] /\ opp \in [Tree!Nodes -> us \union {NULL}]
      /\ up \in [Tree!Nodes -> us \union {NULL}]
  BY <1>1 DEF Linked, Numbered, Spanned
<1>10. p \in Int /\ 1 <= p /\ p <= n /\ lo[x] = p
  BY <1>1, <1>2, <1>5
<1>11. /\ c \in us2 \union {NULL}
       /\ c = NULL => hi[x] = p
       /\ c # NULL => c \in us /\ up[c] = x /\ hi[c] = hi[x] /\ lo[c] = p + 1
  <2>1. c = NULL => hi[x] = p
    BY <1>4
  <2>2. ASSUME c # NULL PROVE c \in us /\ up[c] = x /\ hi[c] = hi[x] /\ lo[c] = p + 1
    BY <1>3, <1>4, <2>2
  <2>3. c # x
    <3>1. ASSUME c = x PROVE FALSE
      <4>1. lo[x] = p + 1
        BY <1>1, <2>2, <3>1
      <4> QED BY <1>10, <4>1
    <3> QED BY <3>1
  <2> QED BY <1>3, <2>1, <2>2, <2>3
<1>12. up[x] # x
  <2> SUFFICES ASSUME up[x] = x PROVE FALSE
    OBVIOUS
  <2>1. x # root /\ (side[x] = x \/ opp[x] = x)
    BY <1>1, <1>6, <1>7
  <2> QED BY <1>1, <1>11, <2>1
<1>13. \A y \in us2 : /\ side[y] # x => s2[y] = side[y]
                      /\ side[y] = x => s2[y] = c
                      /\ opp[y] # x => o2[y] = opp[y]
                      /\ opp[y] = x => o2[y] = c
                      /\ y = c => u2[y] = up[x]
                      /\ y # c => u2[y] = up[y]
  BY <1>1 DEF Cleared, ClearedUp
<1>14. \A y \in us : /\ p2[y] = IF pos[y] > p THEN pos[y] - 1 ELSE pos[y]
                     /\ l2[y] = IF lo[y] > p THEN lo[y] - 1 ELSE lo[y]
                     /\ h2[y] = IF hi[y] >= p THEN hi[y] - 1 ELSE hi[y]
  BY <1>1
<1>15. p2 \in [Tree!Nodes -> Int] /\ l2 \in [Tree!Nodes -> Int] /\ h2 \in [Tree!Nodes -> Int]
  BY <1>9, <1>10
<1>16. root2 \in us2 \union {NULL}
  BY <1>7, <1>11
<1>17. \A y \in us2 : pos[y] # p
  BY <1>1 DEF Numbered
<1>18. Linked(s2, o2, u2, us2, root2)
  <2>1. ASSUME NEW y \in Tree!Nodes
        PROVE  s2[y] \in us2 \union {NULL} /\ o2[y] \in us2 \union {NULL}
    <3>1. side[y] \in us \union {NULL} /\ opp[y] \in us \union {NULL}
      BY <1>9
    <3> HIDE DEF c
    <3>2. s2[y] = (IF y = x THEN NULL ELSE IF side[y] = x THEN c ELSE side[y])
          /\ o2[y] = (IF y = x THEN NULL ELSE IF opp[y] = x THEN c ELSE opp[y])
      BY DEF Cleared
    <3> HIDE DEF s2, o2
    <3> QED BY <1>11, <3>1, <3>2
  <2>2. ASSUME NEW y \in Tree!Nodes
        PROVE  u2[y] \in us2 \union {NULL}
    <3>1. u2[y] = IF y = x THEN NULL ELSE IF y = c THEN up[x] ELSE up[y]
      BY DEF ClearedUp
    <3>2. CASE y = x
      BY <3>1, <3>2
    <3>3. CASE y # x /\ y = c
      BY <1>3, <1>12, <3>1, <3>3
    <3>4. CASE y # x /\ y # c
      <4>1. up[y] # x
        <5> SUFFICES ASSUME up[y] = x PROVE FALSE
          OBVIOUS
        <5>1. y \in us /\ y # root
          BY <1>1, <1>7, <1>8
        <5>2. side[x] = y \/ opp[x] = y
          BY <1>6, <5>1
        <5> QED BY <1>1, <3>4, <5>1, <5>2
      <4>2. up[y] \in us \union {NULL}
        BY <1>9
      <4> QED BY <3>1, <3>4, <4>1, <4>2
    <3> QED BY <3>2, <3>3, <3>4
  <2>3. ASSUME NEW y \in Tree!Nodes \ us2 PROVE s2[y] = NULL /\ o2[y] = NULL /\ u2[y] = NULL
    <3>1. CASE y = x
      BY <3>1 DEF Cleared, ClearedUp
    <3>2. CASE y # x
      <4>1. y \in Tree!Nodes \ us
        BY <3>2
      <4>2. side[y] = NULL /\ opp[y] = NULL /\ up[y] = NULL
        BY <1>8, <4>1
      <4>3. y # c
        <5> HIDE DEF c
        <5> QED BY <1>1, <1>11, <4>1
      <4> QED BY <1>1, <3>2, <4>2, <4>3 DEF Cleared, ClearedUp
    <3> QED BY <3>1, <3>2
  <2>4. /\ s2 = [y \in Tree!Nodes |-> s2[y]] /\ o2 = [y \in Tree!Nodes |-> o2[y]]
        /\ u2 = [y \in Tree!Nodes |-> u2[y]]
    BY DEF Cleared, ClearedUp
  <2>5. us2 \subseteq Tree!Nodes
    BY <1>1
  <2> HIDE DEF s2, o2, u2, us2, root2
  <2>6. s2 \in [Tree!Nodes -> us2 \union {NULL}] /\ o2 \in [Tree!Nodes -> us2 \union {NULL}]
        /\ u2 \in [Tree!Nodes -> us2 \union {NULL}]
    BY <2>1, <2>2, <2>4
  <2> QED BY <1>16, <2>3, <2>5, <2>6 DEF Linked
<1> HIDE DEF s2, o2, u2, p2, l2, h2, p, c
<1>19. Numbered(us2, n - 1, p2, key)
  <2>1. ASSUME NEW y \in us2 PROVE 1 <= p2[y] /\ p2[y] <= n - 1
    <3>1. y \in us /\ pos[y] \in Int /\ 1 <= pos[y] /\ pos[y] <= n /\ pos[y] # p
      BY <1>1, <1>2, <1>17
    <3> QED BY <1>1, <1>10, <1>14, <3>1
  <2>2. ASSUME NEW i \in 1 .. n - 1 PROVE \E y \in us2 : p2[y] = i
    <3>1. CASE i < p
      <4>1. i \in 1 .. n
        BY <1>1
      <4>2. PICK y \in us : pos[y] = i
        BY <1>1, <4>1 DEF Numbered
      <4>3. p2[y] = i /\ y # x
        BY <1>10, <1>14, <3>1, <4>2 DEF p
      <4> QED BY <4>3
    <3>2. CASE i >= p
      <4>1. i + 1 \in 1 .. n
        BY <1>1
      <4>2. PICK y \in us : pos[y] = i + 1
        BY <1>1, <4>1 DEF Numbered
      <4>3. p2[y] = i /\ y # x
        BY <1>10, <1>14, <3>2, <4>2 DEF p
      <4> QED BY <4>3
    <3> QED BY <1>10, <3>1, <3>2
  <2>3. ASSUME NEW y \in us2, NEW z \in us2
        PROVE  (p2[y] = p2[z] => y = z) /\ (p2[y] < p2[z] => key[y] <= key[z])
    <3>1. y \in us /\ z \in us /\ pos[y] \in Int /\ pos[z] \in Int /\ pos[y] # p /\ pos[z] # p
      BY <1>2, <1>17
    <3>2. (p2[y] = p2[z] => pos[y] = pos[z]) /\ (p2[y] < p2[z] => pos[y] < pos[z])
      BY <1>10, <1>14, <3>1
    <3> QED BY <1>1, <3>1, <3>2 DEF Numbered
  <2>4. n - 1 \in Nat
    BY <1>1, <1>10
  <2> QED BY <1>15, <2>1, <2>2, <2>3, <2>4 DEF Numbered
<1>20. Spanned(s2, o2, u2, us2, root2, n - 1, p2, l2, h2)
  <2>1. ASSUME NEW y \in us2 PROVE Below(s2, o2, u2, p2, l2, h2, y) /\ h2[y] <= n - 1
    <3>1. /\ y \in us /\ y # x /\ pos[y] \in Int /\ lo[y] \in Int /\ hi[y] \in Int /\ pos[y] # p
          /\ 1 <= lo[y] /\ lo[y] <= pos[y] /\ pos[y] <= hi[y] /\ hi[y] <= n
      BY <1>2, <1>17
    <3>2. 1 <= l2[y] /\ l2[y] <= p2[y] /\ p2[y] <= h2[y] /\ h2[y] <= n - 1
      BY <1>1, <1>10, <1>14, <3>1
    <3>3. /\ s2[y] = NULL => h2[y] = p2[y]
          /\ s2[y] # NULL => u2[s2[y]] = y /\ h2[s2[y]] = h2[y] /\ l2[s2[y]] = p2[y] + 1
      <4>1. CASE side[y] = NULL
        <5>1. s2[y] = NULL /\ hi[y] = pos[y]
          BY <1>1, <1>4, <1>13, <4>1
        <5> QED BY <1>10, <1>14, <3>1, <5>1
      <4>2. CASE side[y] = x
        <5>1. s2[y] = c /\ up[x] = y /\ hi[x] = hi[y] /\ p = pos[y] + 1
          BY <1>1, <1>4, <1>10, <1>13, <3>1, <4>2
        <5>2. CASE c = NULL
          <6>1. hi[y] = p
            BY <1>11, <5>1, <5>2
          <6> QED BY <1>10, <1>14, <3>1, <5>1, <5>2, <6>1
        <5>3. CASE c # NULL
          <6>1. c \in us /\ c \in us2 /\ hi[c] = hi[y] /\ lo[c] = p + 1
            BY <1>11, <5>1, <5>3
          <6>2. u2[c] = y /\ h2[c] = h2[y]
            BY <1>13, <1>14, <3>1, <5>1, <6>1
          <6>3. l2[c] = p2[y] + 1
            BY <1>10, <1>14, <3>1, <5>1, <6>1
          <6> QED BY <5>1, <5>3, <6>2, <6>3
        <5> QED BY <5>2, <5>3
      <4>3. CASE side[y] # NULL /\ side[y] # x
        <5> DEFINE d == side[y]
        <5>1. d \in us2 /\ d \in us /\ up[d] = y /\ hi[d] = hi[y] /\ lo[d] = pos[y] + 1 /\ s2[y] = d /\ d # NULL
          BY <1>3, <1>4, <1>13, <3>1, <4>3
        <5>2. d # c
          BY <1>11, <3>1, <5>1
        <5> HIDE DEF d
        <5>3. u2[d] = y /\ h2[d] = h2[y]
          BY <1>13, <1>14, <3>1, <5>1, <5>2
        <5>4. l2[d] = p2[y] + 1
          BY <1>10, <1>14, <3>1, <5>1
        <5> QED BY <5>1, <5>3, <5>4
      <4> QED BY <4>1, <4>2, <4>3
    <3>4. /\ o2[y] = NULL => l2[y] = p2[y]
          /\ o2[y] # NULL => u2[o2[y]] = y /\ l2[o2[y]] = l2[y] /\ h2[o2[y]] = p2[y] - 1
      <4>1. CASE opp[y] = NULL
        <5>1. o2[y] = NULL /\ lo[y] = pos[y]
          BY <1>1, <1>5, <1>13, <4>1
        <5> QED BY <1>10, <1>14, <3>1, <5>1
      <4>2. CASE opp[y] = x
        <5>1. o2[y] = c /\ up[x] = y /\ lo[y] = p /\ hi[x] = pos[y] - 1 /\ hi[x] \in Int /\ p <= hi[x]
          BY <1>1, <1>2, <1>5, <1>10, <1>13, <3>1, <4>2 DEF p
        <5>2. CASE c = NULL
          <6>1. hi[x] = p
            BY <1>11, <5>2
          <6> QED BY <1>10, <1>14, <3>1, <5>1, <5>2, <6>1
        <5>3. CASE c # NULL
          <6>1. c \in us /\ c \in us2 /\ hi[c] = pos[y] - 1 /\ lo[c] = p + 1 /\ lo[c] <= hi[c]
            BY <1>2, <1>11, <5>1, <5>3
          <6>2. u2[c] = y
            BY <1>13, <5>1, <6>1
          <6>3. l2[c] = l2[y]
            BY <1>10, <1>14, <3>1, <5>1, <6>1
          <6>4. h2[c] = p2[y] - 1
            BY <1>10, <1>14, <3>1, <5>1, <6>1
          <6> QED BY <5>1, <5>3, <6>2, <6>3, <6>4
        <5> QED BY <5>2, <5>3
      <4>3. CASE opp[y] # NULL /\ opp[y] # x
        <5> DEFINE d == opp[y]
        <5>1. d \in us2 /\ d \in us /\ up[d] = y /\ lo[d] = lo[y] /\ hi[d] = pos[y] - 1 /\ o2[y] = d /\ d # NULL
          BY <1>3, <1>5, <1>13, <3>1, <4>3
        <5>2. d # c
          BY <1>11, <3>1, <5>1
        <5> HIDE DEF d
        <5>3. u2[d] = y /\ l2[d] = l2[y]
          BY <1>13, <1>14, <3>1, <5>1, <5>2
        <5>4. h2[d] = p2[y] - 1
          BY <1>10, <1>14, <3>1, <5>1
        <5> QED BY <5>1, <5>3, <5>4
      <4> QED BY <4>1, <4>2, <4>3
    <3> QED BY <3>2, <3>3, <3>4 DEF Below
  <2>2. ASSUME NEW y \in us2, y # root2 PROVE ChildOf(s2, o2, us2, y, u2[y])
    <3>1. CASE y = c
      <4>1. root # x /\ u2[y] = up[x]
        BY <1>13, <2>2, <3>1
      <4>2. up[x] \in us2 /\ (side[up[x]] = x \/ opp[up[x]] = x)
        BY <1>6, <1>12, <4>1
      <4>3. s2[up[x]] = c \/ o2[up[x]] = c
        BY <1>13, <4>2
      <4> QED BY <3>1, <4>1, <4>2, <4>3 DEF ChildOf
    <3>2. CASE y # c
      <4>1. y \in us /\ y # root /\ y # x
        BY <2>2
      <4>2. up[y] \in us /\ (side[up[y]] = y \/ opp[up[y]] = y) /\ u2[y] = up[y]
        BY <1>6, <1>13, <3>2, <4>1
      <4>3. up[y] # x
        BY <1>1, <3>2, <4>1, <4>2 DEF c
      <4>4. up[y] \in us2
        BY <4>2, <4>3
      <4>5. s2[up[y]] = y \/ o2[up[y]] = y
        BY <1>13, <4>1, <4>2, <4>4
      <4> QED BY <4>2, <4>4, <4>5 DEF ChildOf
    <3> QED BY <3>1, <3>2
  <2>3. IF root2 = NULL THEN n - 1 = 0 ELSE l2[root2] = 1 /\ h2[root2] = n - 1 /\ u2[root2] = NULL
    <3>1. CASE root = x /\ c = NULL
      <4>1. n - 1 = 0
        BY <1>1, <1>7, <1>10, <1>11, <3>1
      <4> QED BY <3>1, <4>1
    <3>2. CASE root = x /\ c # NULL
      <4>1. c \in us2 /\ c \in us /\ hi[c] = n /\ lo[c] = p + 1 /\ p = 1 /\ root2 = c /\ u2[c] = NULL
        BY <1>7, <1>10, <1>11, <1>13, <3>2
      <4>2. l2[c] = 1 /\ h2[c] = n - 1
        BY <1>1, <1>10, <1>14, <4>1
      <4> QED BY <3>2, <4>1, <4>2
    <3>3. CASE root # x
      <4>1. root2 = root /\ root \in us2 /\ root # c /\ root # NULL
        BY <1>1, <1>7, <1>11, <3>3
      <4>2. u2[root] = NULL
        BY <1>7, <1>13, <4>1
      <4>3. l2[root] = 1 /\ h2[root] = n - 1
        BY <1>1, <1>7, <1>10, <1>14
      <4> QED BY <4>1, <4>2, <4>3
    <3> QED BY <3>1, <3>2, <3>3
  <2> HIDE DEF root2, us2
  <2> QED BY <1>15, <2>1, <2>2, <2>3 DEF Spanned
<1>21. Ranked(s2, o2, u2, us2, root2, key, n - 1, p2, l2, h2)
  BY <1>18, <1>19, <1>20 DEF Ranked
<1>22. SameOrder(us2, pos, p2)
  <2>1. ASSUME NEW y \in us2, NEW z \in us2, p2[y] < p2[z] PROVE pos[y] < pos[z]
    <3>1. pos[y] \in Int /\ pos[z] \in Int /\ pos[y] # p /\ pos[z] # p
      BY <1>2, <1>17
    <3> QED BY <1>10, <1>14, <2>1, <3>1
  <2> QED BY <2>1 DEF SameOrder
<1> QED BY <1>21, <1>22 DEF s2, o2, u2, c, DroppedFrom

(* A node gets the place of another one. *)
Renamed(f, a, x) ==
  [y \in Tree!Nodes |-> IF y = a THEN NULL ELSE IF y = x THEN f[a]
                        ELSE IF f[y] = a THEN x ELSE f[y]]

LEMMA Exchanged ==
  ASSUME NEW side, NEW opp, NEW up, NEW us, NEW root, NEW key \in [Tree!Nodes -> Int],
         NEW n, NEW pos, NEW lo, NEW hi, Ranked(side, opp, up, us, root, key, n, pos, lo, hi),
         NEW a \in us, NEW x \in Tree!Nodes, x \notin us,
         \A y \in us : pos[y] < pos[a] => key[y] <= key[x],
         \A y \in us : pos[a] < pos[y] => key[x] <= key[y]
  PROVE  Sorted(Renamed(side, a, x), Renamed(opp, a, x), Renamed(up, a, x), (us \ {a}) \union {x},
                IF root = a THEN x ELSE root, key)
<1> DEFINE s2 == Renamed(side, a, x)
           o2 == Renamed(opp, a, x)
           u2 == Renamed(up, a, x)
           us2 == (us \ {a}) \union {x}
           root2 == IF root = a THEN x ELSE root
           old(y) == IF y = x THEN a ELSE y
           new(z) == IF z = a THEN x ELSE z
           p2 == [y \in Tree!Nodes |-> pos[old(y)]]
           l2 == [y \in Tree!Nodes |-> lo[old(y)]]
           h2 == [y \in Tree!Nodes |-> hi[old(y)]]
<1>1. /\ n \in Nat /\ us \subseteq Tree!Nodes /\ NULL \notin us /\ root \in us \union {NULL}
      /\ Linked(side, opp, up, us, root) /\ Numbered(us, n, pos, key)
      /\ Spanned(side, opp, up, us, root, n, pos, lo, hi)
      /\ NULL \notin Tree!Nodes /\ x # NULL /\ a # NULL /\ x # a /\ a \in Tree!Nodes
  BY RankedFacts, TreeConstants DEF Ranked
<1>2. \A y \in us : /\ pos[y] \in Int /\ lo[y] \in Int /\ hi[y] \in Int /\ 1 <= lo[y]
                    /\ lo[y] <= pos[y] /\ pos[y] <= hi[y] /\ hi[y] <= n
  BY RankedFacts
<1>3. \A y \in us : /\ side[y] \in us \union {NULL} /\ opp[y] \in us \union {NULL}
                    /\ up[y] \in us \union {NULL}
  BY RankedFacts
<1>4. \A y \in us : /\ side[y] = NULL => hi[y] = pos[y]
                    /\ side[y] # NULL => /\ up[side[y]] = y /\ hi[side[y]] = hi[y]
                                         /\ lo[side[y]] = pos[y] + 1
  BY RankedFacts
<1>5. \A y \in us : /\ opp[y] = NULL => lo[y] = pos[y]
                    /\ opp[y] # NULL => /\ up[opp[y]] = y /\ lo[opp[y]] = lo[y]
                                        /\ hi[opp[y]] = pos[y] - 1
  BY RankedFacts
<1>6. \A y \in us : y # root => up[y] \in us /\ (side[up[y]] = y \/ opp[up[y]] = y)
  BY RankedFacts
<1>7. root \in us /\ lo[root] = 1 /\ hi[root] = n /\ up[root] = NULL
  BY RankedFacts
<1>8. \A y \in Tree!Nodes \ us : side[y] = NULL /\ opp[y] = NULL /\ up[y] = NULL
  BY RankedFacts
<1>9. /\ pos \in [Tree!Nodes -> Int] /\ lo \in [Tree!Nodes -> Int] /\ hi \in [Tree!Nodes -> Int]
      /\ side \in [Tree!Nodes -> us \union {NULL}] /\ opp \in [Tree!Nodes -> us \union {NULL}]
      /\ up \in [Tree!Nodes -> us \union {NULL}]
  BY <1>1 DEF Linked, Numbered, Spanned
(* No node is next to itself. *)
<1>10. side[a] # a /\ opp[a] # a /\ up[a] # a
  <2>1. side[a] # a
    <3> SUFFICES ASSUME side[a] = a PROVE FALSE
      OBVIOUS
    <3>1. lo[a] = pos[a] + 1
      BY <1>1, <1>4
    <3> QED BY <1>2, <3>1
  <2>2. opp[a] # a
    <3> SUFFICES ASSUME opp[a] = a PROVE FALSE
      OBVIOUS
    <3>1. hi[a] = pos[a] - 1
      BY <1>1, <1>5
    <3> QED BY <1>2, <3>1
  <2>3. up[a] # a
    <3> SUFFICES ASSUME up[a] = a PROVE FALSE
      OBVIOUS
    <3>1. a # root
      BY <1>1, <1>7
    <3> QED BY <1>6, <2>1, <2>2, <3>1
  <2> QED BY <2>1, <2>2, <2>3
<1>11. \A y \in us2 : /\ old(y) \in us /\ new(old(y)) = y
                      /\ s2[y] = new(side[old(y)]) /\ o2[y] = new(opp[old(y)]) /\ u2[y] = new(up[old(y)])
                      /\ p2[y] = pos[old(y)] /\ l2[y] = lo[old(y)] /\ h2[y] = hi[old(y)]
  <2> SUFFICES ASSUME NEW y \in us2
               PROVE  /\ old(y) \in us /\ new(old(y)) = y
                      /\ s2[y] = new(side[old(y)]) /\ o2[y] = new(opp[old(y)]) /\ u2[y] = new(up[old(y)])
                      /\ p2[y] = pos[old(y)] /\ l2[y] = lo[old(y)] /\ h2[y] = hi[old(y)]
    OBVIOUS
  <2>1. CASE y = x
    BY <1>1, <1>10, <2>1 DEF Renamed
  <2>2. CASE y # x
    BY <1>1, <2>2 DEF Renamed
  <2> QED BY <2>1, <2>2
<1>12. \A z \in us : new(z) \in us2 /\ old(new(z)) = z /\ new(z) # NULL
  BY <1>1
<1>13. new(NULL) = NULL
  BY <1>1
<1>14. p2 \in [Tree!Nodes -> Int] /\ l2 \in [Tree!Nodes -> Int] /\ h2 \in [Tree!Nodes -> Int]
  <2>1. \A y \in Tree!Nodes : old(y) \in Tree!Nodes
    BY <1>1
  <2> HIDE DEF old
  <2> QED BY <1>9, <2>1
<1>15. us2 \subseteq Tree!Nodes /\ root2 = new(root) /\ root2 \in us2
  BY <1>1, <1>7
<1>16. Linked(s2, o2, u2, us2, root2)
  <2>1. ASSUME NEW y \in Tree!Nodes \ us2 PROVE s2[y] = NULL /\ o2[y] = NULL /\ u2[y] = NULL
    <3>1. CASE y = a
      BY <3>1 DEF Renamed
    <3>2. CASE y # a
      <4>1. y # x /\ y \in Tree!Nodes \ us
        BY <3>2
      <4>2. side[y] = NULL /\ opp[y] = NULL /\ up[y] = NULL
        BY <1>8, <4>1
      <4> QED BY <1>1, <3>2, <4>1, <4>2 DEF Renamed
    <3> QED BY <3>1, <3>2
  <2>2. ASSUME NEW y \in us2
        PROVE  s2[y] \in us2 \union {NULL} /\ o2[y] \in us2 \union {NULL} /\ u2[y] \in us2 \union {NULL}
    <3> HIDE DEF new, old, us2, s2, o2, u2
    <3>1. \A v \in us \union {NULL} : new(v) \in us2 \union {NULL}
      BY <1>12, <1>13
    <3>2. old(y) \in us /\ s2[y] = new(side[old(y)]) /\ o2[y] = new(opp[old(y)]) /\ u2[y] = new(up[old(y)])
      BY <1>11
    <3>3. side[old(y)] \in us \union {NULL} /\ opp[old(y)] \in us \union {NULL} /\ up[old(y)] \in us \union {NULL}
      BY <1>3, <3>2
    <3> QED BY <3>1, <3>2, <3>3
  <2>3. /\ s2 = [y \in Tree!Nodes |-> s2[y]] /\ o2 = [y \in Tree!Nodes |-> o2[y]]
        /\ u2 = [y \in Tree!Nodes |-> u2[y]]
    BY DEF Renamed
  <2> HIDE DEF s2, o2, u2, us2, root2, new, old
  <2>4. \A y \in Tree!Nodes : /\ s2[y] \in us2 \union {NULL} /\ o2[y] \in us2 \union {NULL}
                              /\ u2[y] \in us2 \union {NULL}
    BY <2>1, <2>2
  <2>5. s2 \in [Tree!Nodes -> us2 \union {NULL}] /\ o2 \in [Tree!Nodes -> us2 \union {NULL}]
        /\ u2 \in [Tree!Nodes -> us2 \union {NULL}]
    BY <2>3, <2>4
  <2> QED BY <1>15, <2>1, <2>5 DEF Linked
<1>17. Numbered(us2, n, p2, key)
  <2>1. ASSUME NEW y \in us2 PROVE 1 <= p2[y] /\ p2[y] <= n
    <3> HIDE DEF new, old, us2, p2
    <3> QED BY <1>1, <1>11 DEF Numbered
  <2>2. ASSUME NEW i \in 1 .. n PROVE \E y \in us2 : p2[y] = i
    <3>1. PICK z \in us : pos[z] = i
      BY <1>1 DEF Numbered
    <3> HIDE DEF new, old, us2, p2
    <3>2. new(z) \in us2 /\ p2[new(z)] = i
      BY <1>11, <1>12, <3>1
    <3> QED BY <3>2
  <2>3. ASSUME NEW y \in us2, NEW z \in us2, p2[y] = p2[z] PROVE y = z
    <3> HIDE DEF new, old, us2, p2
    <3>1. old(y) \in us /\ old(z) \in us /\ pos[old(y)] = pos[old(z)]
          /\ new(old(y)) = y /\ new(old(z)) = z
      BY <1>11, <2>3
    <3>2. old(y) = old(z)
      BY <1>1, <3>1 DEF Numbered
    <3> QED BY <3>1, <3>2
  <2>4. ASSUME NEW y \in us2, NEW z \in us2, p2[y] < p2[z] PROVE key[y] <= key[z]
    <3>1. CASE y = x /\ z = x
      BY <1>11, <1>2, <2>4, <3>1
    <3>2. CASE y = x /\ z # x
      <4>1. z \in us /\ pos[a] < pos[z]
        BY <1>11, <2>4, <3>2
      <4> QED BY <3>2, <4>1
    <3>3. CASE y # x /\ z = x
      <4>1. y \in us /\ pos[y] < pos[a]
        BY <1>11, <2>4, <3>3
      <4> QED BY <3>3, <4>1
    <3>4. CASE y # x /\ z # x
      <4>1. y \in us /\ z \in us /\ pos[y] < pos[z]
        BY <1>11, <2>4, <3>4
      <4> QED BY <1>1, <4>1 DEF Numbered
    <3> QED BY <3>1, <3>2, <3>3, <3>4
  <2> HIDE DEF us2, p2
  <2> QED BY <1>1, <1>14, <2>1, <2>2, <2>3, <2>4 DEF Numbered
<1> HIDE DEF new, old, us2, s2, o2, u2, p2, l2, h2, root2
<1>18. Spanned(s2, o2, u2, us2, root2, n, p2, l2, h2)
  <2>1. ASSUME NEW y \in us2 PROVE Below(s2, o2, u2, p2, l2, h2, y) /\ h2[y] <= n
    <3> DEFINE z == old(y)
               d == side[z]
               e == opp[z]
    <3>1. /\ z \in us /\ new(z) = y /\ s2[y] = new(d) /\ o2[y] = new(e)
          /\ p2[y] = pos[z] /\ l2[y] = lo[z] /\ h2[y] = hi[z]
      BY <1>11
    <3>2. /\ pos[z] \in Int /\ lo[z] \in Int /\ hi[z] \in Int /\ 1 <= lo[z]
          /\ lo[z] <= pos[z] /\ pos[z] <= hi[z] /\ hi[z] <= n
      BY <1>2, <3>1
    <3>3. d \in us \union {NULL} /\ e \in us \union {NULL}
      BY <1>3, <3>1
    <3>4. /\ d = NULL => hi[z] = pos[z]
          /\ d # NULL => up[d] = z /\ hi[d] = hi[z] /\ lo[d] = pos[z] + 1
          /\ e = NULL => lo[z] = pos[z]
          /\ e # NULL => up[e] = z /\ lo[e] = lo[z] /\ hi[e] = pos[z] - 1
      BY <1>4, <1>5, <3>1
    <3> HIDE DEF z, d, e
    <3>5. \A v \in us : /\ u2[new(v)] = new(up[v]) /\ l2[new(v)] = lo[v] /\ h2[new(v)] = hi[v]
      BY <1>11, <1>12
    <3>6. /\ s2[y] = NULL => h2[y] = p2[y]
          /\ s2[y] # NULL => u2[s2[y]] = y /\ h2[s2[y]] = h2[y] /\ l2[s2[y]] = p2[y] + 1
      BY <1>12, <1>13, <3>1, <3>3, <3>4, <3>5
    <3>7. /\ o2[y] = NULL => l2[y] = p2[y]
          /\ o2[y] # NULL => u2[o2[y]] = y /\ l2[o2[y]] = l2[y] /\ h2[o2[y]] = p2[y] - 1
      BY <1>12, <1>13, <3>1, <3>3, <3>4, <3>5
    <3> QED BY <3>1, <3>2, <3>6, <3>7 DEF Below
  <2>2. ASSUME NEW y \in us2, y # root2 PROVE ChildOf(s2, o2, us2, y, u2[y])
    <3> DEFINE z == old(y)
               v == up[z]
    <3>1. z \in us /\ new(z) = y /\ u2[y] = new(v) /\ z # root
      BY <1>11, <1>15, <2>2
    <3>2. v \in us /\ (side[v] = z \/ opp[v] = z)
      BY <1>6, <3>1
    <3> HIDE DEF z, v
    <3>3. new(v) \in us2 /\ s2[new(v)] = new(side[v]) /\ o2[new(v)] = new(opp[v])
      BY <1>11, <1>12, <3>2
    <3> QED BY <3>1, <3>2, <3>3 DEF ChildOf
  <2>3. root2 # NULL /\ l2[root2] = 1 /\ h2[root2] = n /\ u2[root2] = NULL
    <3>1. l2[new(root)] = lo[root] /\ h2[new(root)] = hi[root] /\ u2[new(root)] = new(up[root])
      BY <1>7, <1>11, <1>12
    <3> QED BY <1>7, <1>12, <1>13, <1>15, <3>1
  <2> QED BY <1>14, <2>1, <2>2, <2>3 DEF Spanned
<1>19. Ranked(s2, o2, u2, us2, root2, key, n, p2, l2, h2)
  BY <1>16, <1>17, <1>18 DEF Ranked
<1> QED BY <1>19 DEF Sorted, s2, o2, u2, us2, root2

(* bscl_bstree_find *)
LEMMA FindIs ==
  ASSUME NEW t, NEW n, NEW pos, NEW lo, NEW hi, NEW k \in Int,
         Ranked(t.right, t.left, t.parent, t.used, t.root, KeyOfNode, n, pos, lo, hi)
  PROVE  \/ Tree!Find(t, k) = NULL /\ \A y \in t.used : Tree!KeyOf(y) # k
         \/ Tree!Find(t, k) \in t.used /\ Tree!KeyOf(Tree!Find(t, k)) = k
<1> DEFINE us == t.used
           left == t.left
           right == t.right
           key(x) == Tree!KeyOf(x)
           D == Tree!Nodes \union {NULL}
           steps(g) == [x \in D |-> IF x = NULL THEN NULL
                                    ELSE IF k < key(x) THEN g[left[x]]
                                    ELSE IF k > key(x) THEN g[right[x]] ELSE x]
           from == CHOOSE g : g = steps(g)
           stop == {x \in D : x = NULL \/ (~(k < key(x)) /\ ~(k > key(x)))}
           next == [x \in D |-> IF x = NULL THEN NULL ELSE IF k < key(x) THEN left[x] ELSE right[x]]
           m == [x \in D |-> IF x = NULL THEN 0 ELSE IF x \in us THEN hi[x] - lo[x] + 1 ELSE 1]
<1>1. /\ n \in Nat /\ us \subseteq Tree!Nodes /\ NULL \notin us /\ t.root \in us \union {NULL}
      /\ NULL \notin Tree!Nodes /\ Numbered(us, n, pos, KeyOfNode)
  BY RankedFacts, TreeConstants DEF Ranked
<1>2. \A y \in us : /\ pos[y] \in Int /\ lo[y] \in Int /\ hi[y] \in Int /\ 1 <= lo[y]
                    /\ lo[y] <= pos[y] /\ pos[y] <= hi[y] /\ hi[y] <= n
  BY RankedFacts
<1>3. \A y \in us : /\ right[y] \in us \union {NULL} /\ left[y] \in us \union {NULL}
                    /\ right[y] = NULL => hi[y] = pos[y]
                    /\ right[y] # NULL => hi[right[y]] = hi[y] /\ lo[right[y]] = pos[y] + 1
                    /\ left[y] = NULL => lo[y] = pos[y]
                    /\ left[y] # NULL => lo[left[y]] = lo[y] /\ hi[left[y]] = pos[y] - 1
  BY RankedFacts
<1>4. \A y \in Tree!Nodes \ us : right[y] = NULL /\ left[y] = NULL
  BY RankedFacts
<1>5. t.root \in us => lo[t.root] = 1 /\ hi[t.root] = n
  BY RankedFacts
<1>6. t.root = NULL => us = {}
  BY RankedFacts
<1>7. \A y \in Tree!Nodes : key(y) \in Int
  BY TreeConstants
<1>8. \A y, z \in us : /\ pos[y] < pos[z] => key(y) <= key(z)
                       /\ pos[y] = pos[z] => y = z
  <2>1. ASSUME NEW y \in us, NEW z \in us
        PROVE  (pos[y] < pos[z] => key(y) <= key(z)) /\ (pos[y] = pos[z] => y = z)
    <3>1. KeyOfNode[y] = key(y) /\ KeyOfNode[z] = key(z)
      BY <1>1 DEF KeyOfNode
    <3> QED BY <1>1, <3>1 DEF Numbered
  <2> QED BY <2>1
<1>9. \E f : f = steps(f)
  <2>1. n + 1 \in Nat /\ m \in [D -> 0 .. n + 1]
    BY <1>1, <1>2
  <2>2. next \in [D -> D]
    <3>1. \A x \in Tree!Nodes : left[x] \in D /\ right[x] \in D
      BY <1>1, <1>3, <1>4
    <3> QED BY <3>1
  <2>3. ASSUME NEW x \in D \ stop PROVE m[next[x]] < m[x]
    <3>1. x \in Tree!Nodes /\ next[x] \in {left[x], right[x]}
      BY <1>1
    <3>2. CASE x \in us
      <4>1. m[x] = hi[x] - lo[x] + 1
        BY <1>1, <3>2
      <4>2. \A z \in us : m[z] = hi[z] - lo[z] + 1
        BY <1>1
      <4>3. m[NULL] = 0
        OBVIOUS
      <4> HIDE DEF m, next
      <4>4. CASE next[x] = NULL
        BY <1>2, <3>2, <4>1, <4>3, <4>4
      <4>5. CASE next[x] # NULL
        <5>1. next[x] \in us
          BY <1>3, <3>1, <3>2, <4>5
        <5>2. CASE next[x] = left[x]
          BY <1>2, <1>3, <3>2, <4>1, <4>2, <4>5, <5>1, <5>2
        <5>3. CASE next[x] = right[x]
          BY <1>2, <1>3, <3>2, <4>1, <4>2, <4>5, <5>1, <5>3
        <5> QED BY <3>1, <5>2, <5>3
      <4> QED BY <4>4, <4>5
    <3>3. CASE x \notin us
      <4>1. next[x] = NULL
        BY <1>4, <3>1, <3>3
      <4>2. m[NULL] = 0 /\ m[x] = 1
        BY <1>1, <3>1, <3>3
      <4> HIDE DEF m, next
      <4> QED BY <4>1, <4>2
    <3> QED BY <3>2, <3>3
  <2> DEFINE out == [x \in D |-> x]
  <2>4. out \in [D -> D]
    OBVIOUS
  <2>5. \A x \in D : /\ out[x] = x
                     /\ x \in stop => (x = NULL \/ (~(k < key(x)) /\ ~(k > key(x))))
                     /\ x \notin stop => /\ x # NULL /\ (k < key(x) \/ k > key(x))
                                         /\ next[x] = IF k < key(x) THEN left[x] ELSE right[x]
    BY <1>1
  <2> HIDE DEF stop, out, next, m, D
  <2>6. PICK f \in [D -> D] : Walking(f, D, stop, out, next)
    BY <2>1, <2>2, <2>3, <2>4, Iteration
  <2>7. \A x \in D : f[x] = IF x = NULL THEN NULL
                            ELSE IF k < key(x) THEN f[left[x]]
                            ELSE IF k > key(x) THEN f[right[x]] ELSE x
    <3> SUFFICES ASSUME NEW x \in D
                 PROVE  f[x] = IF x = NULL THEN NULL
                               ELSE IF k < key(x) THEN f[left[x]]
                               ELSE IF k > key(x) THEN f[right[x]] ELSE x
      OBVIOUS
    <3>1. f[x] = IF x \in stop THEN out[x] ELSE f[next[x]]
      BY <2>6 DEF Walking
    <3>2. CASE x \in stop
      BY <2>5, <3>1, <3>2
    <3>3. CASE x \notin stop
      <4>1. x # NULL /\ (k < key(x) \/ k > key(x)) /\ next[x] = IF k < key(x) THEN left[x] ELSE right[x]
        BY <2>5, <3>3
      <4> QED BY <3>1, <3>3, <4>1
    <3> QED BY <3>2, <3>3
  <2>8. f = steps(f)
    BY <2>6, <2>7
  <2> HIDE DEF steps
  <2> QED BY <2>8
<1>10. from = steps(from)
  <2> HIDE DEF steps
  <2> QED BY <1>9
<1>11. Tree!Find(t, k) = from[t.root]
  BY DEF Tree!Find
<1> HIDE DEF from
<1>12. from[NULL] = NULL /\ \A x \in us : from[x] = IF k < key(x) THEN from[left[x]]
                                                    ELSE IF k > key(x) THEN from[right[x]] ELSE x
  BY <1>1, <1>10
<1> DEFINE Found(x) == \/ /\ from[x] = NULL
                          /\ \A y \in us : lo[x] <= pos[y] /\ pos[y] <= hi[x] => key(y) # k
                       \/ from[x] \in us /\ key(from[x]) = k
           G == {x \in us : Found(x)}
           m2 == [x \in us |-> hi[x] - lo[x]]
<1>13. us \subseteq G
  <2>1. m2 \in [us -> 0 .. n]
    BY <1>1, <1>2
  <2>2. ASSUME NEW x \in us, \A z \in us : m2[z] < m2[x] => z \in G
        PROVE  Found(x)
    <3>0. key(x) \in Int /\ \A y \in us : key(y) \in Int
      BY <1>1, <1>7
    <3>1. CASE k < key(x)
      <4>1. from[x] = from[left[x]]
        BY <1>12, <3>1
      <4>2. \A y \in us : pos[x] <= pos[y] => key(y) # k
        <5> SUFFICES ASSUME NEW y \in us, pos[x] <= pos[y] PROVE key(y) # k
          OBVIOUS
        <5>1. pos[x] \in Int /\ pos[y] \in Int
          BY <1>2
        <5>2. key(x) <= key(y)
          <6>1. CASE pos[x] < pos[y]
            BY <1>8, <6>1
          <6>2. CASE pos[x] = pos[y]
            BY <1>8, <3>0, <6>2
          <6> QED BY <5>1, <6>1, <6>2
        <5> HIDE DEF key
        <5> QED BY <3>0, <3>1, <5>2
      <4>3. CASE left[x] = NULL
        <5>1. lo[x] = pos[x]
          BY <1>3, <4>3
        <5> QED BY <1>12, <4>1, <4>2, <4>3, <5>1
      <4>4. CASE left[x] # NULL
        <5> DEFINE c == left[x]
        <5>1. c \in us /\ lo[c] = lo[x] /\ hi[c] = pos[x] - 1
          BY <1>3, <4>4
        <5> HIDE DEF c
        <5>2. m2[c] < m2[x]
          BY <1>2, <5>1
        <5>3. Found(c)
          BY <2>2, <5>1, <5>2
        <5>4. \A y \in us : pos[x] <= pos[y] \/ pos[y] <= hi[c]
          BY <1>2, <5>1
        <5>5. from[x] = from[c]
          BY <4>1 DEF c
        <5> HIDE DEF key
        <5> QED BY <4>2, <5>1, <5>3, <5>4, <5>5
      <4> QED BY <4>3, <4>4
    <3>2. CASE k > key(x)
      <4>1. from[x] = from[right[x]]
        BY <1>12, <3>0, <3>2
      <4>2. \A y \in us : pos[y] <= pos[x] => key(y) # k
        <5> SUFFICES ASSUME NEW y \in us, pos[y] <= pos[x] PROVE key(y) # k
          OBVIOUS
        <5>1. pos[x] \in Int /\ pos[y] \in Int
          BY <1>2
        <5>2. key(y) <= key(x)
          <6>1. CASE pos[y] < pos[x]
            BY <1>8, <6>1
          <6>2. CASE pos[x] = pos[y]
            BY <1>8, <3>0, <6>2
          <6> QED BY <5>1, <6>1, <6>2
        <5> HIDE DEF key
        <5> QED BY <3>0, <3>2, <5>2
      <4>3. CASE right[x] = NULL
        <5>1. hi[x] = pos[x]
          BY <1>3, <4>3
        <5> QED BY <1>12, <4>1, <4>2, <4>3, <5>1
      <4>4. CASE right[x] # NULL
        <5> DEFINE c == right[x]
        <5>1. c \in us /\ hi[c] = hi[x] /\ lo[c] = pos[x] + 1
          BY <1>3, <4>4
        <5> HIDE DEF c
        <5>2. m2[c] < m2[x]
          BY <1>2, <5>1
        <5>3. Found(c)
          BY <2>2, <5>1, <5>2
        <5>4. \A y \in us : pos[y] <= pos[x] \/ lo[c] <= pos[y]
          BY <1>2, <5>1
        <5>5. from[x] = from[c]
          BY <4>1 DEF c
        <5> HIDE DEF key
        <5> QED BY <4>2, <5>1, <5>3, <5>4, <5>5
      <4> QED BY <4>3, <4>4
    <3>3. CASE ~(k < key(x)) /\ ~(k > key(x))
      <4>1. from[x] = x
        BY <1>12, <3>3
      <4>2. key(x) = k
        <5> HIDE DEF key
        <5> QED BY <3>0, <3>3
      <4> QED BY <4>1, <4>2
    <3> QED BY <3>1, <3>2, <3>3
  <2>3. ASSUME NEW x \in us, \A z \in us : m2[z] < m2[x] => z \in G
        PROVE  x \in G
    BY <2>2, <2>3
  <2> HIDE DEF m2, G
  <2> QED BY <1>1, <2>1, <2>3, ByMeasure
<1>14. CASE t.root = NULL
  BY <1>6, <1>11, <1>12, <1>14
<1>15. CASE t.root # NULL
  <2>1. t.root \in us /\ Found(t.root)
    BY <1>1, <1>13, <1>15
  <2>2. \A y \in us : lo[t.root] <= pos[y] /\ pos[y] <= hi[t.root]
    <3>1. lo[t.root] = 1 /\ hi[t.root] = n
      BY <1>5, <2>1
    <3> QED BY <1>1, <3>1 DEF Numbered
  <2> HIDE DEF key
  <2> QED BY <1>11, <2>1, <2>2 DEF key
<1> QED BY <1>14, <1>15

(* Where bscl_bstree_insert ends *)
InOrderAt(us, pos, at, k) ==
  /\ \A y \in us : pos[y] < pos[at] => Tree!KeyOf(y) <= k
  /\ \A y \in us : pos[at] < pos[y] => k <= Tree!KeyOf(y)

LEMMA PlaceIs ==
  ASSUME NEW t, NEW n, NEW pos, NEW lo, NEW hi, NEW k \in Int, t.root # NULL,
         Ranked(t.right, t.left, t.parent, t.used, t.root, KeyOfNode, n, pos, lo, hi)
  PROVE  /\ Tree!Place(t, k) \in t.used /\ InOrderAt(t.used, pos, Tree!Place(t, k), k)
         /\ k < Tree!KeyOf(Tree!Place(t, k)) => t.left[Tree!Place(t, k)] = NULL
         /\ k > Tree!KeyOf(Tree!Place(t, k)) => t.right[Tree!Place(t, k)] = NULL
<1> DEFINE us == t.used
           left == t.left
           right == t.right
           key(x) == Tree!KeyOf(x)
           D == Tree!Nodes
           goL(x) == k < key(x) /\ left[x] # NULL
           goR(x) == k > key(x) /\ right[x] # NULL
           steps(g) == [x \in D |-> IF k < key(x) /\ left[x] # NULL THEN g[left[x]]
                                    ELSE IF k > key(x) /\ right[x] # NULL THEN g[right[x]] ELSE x]
           from == CHOOSE g : g = steps(g)
           stop == {x \in D : ~goL(x) /\ ~goR(x)}
           next == [x \in D |-> IF goL(x) THEN left[x] ELSE IF goR(x) THEN right[x] ELSE x]
           m == [x \in D |-> IF x \in us THEN hi[x] - lo[x] ELSE 0]
<1>1. /\ n \in Nat /\ us \subseteq Tree!Nodes /\ NULL \notin us /\ t.root \in us
      /\ NULL \notin Tree!Nodes /\ Numbered(us, n, pos, KeyOfNode)
  BY RankedFacts, TreeConstants DEF Ranked
<1>2. \A y \in us : /\ pos[y] \in Int /\ lo[y] \in Int /\ hi[y] \in Int /\ 1 <= lo[y]
                    /\ lo[y] <= pos[y] /\ pos[y] <= hi[y] /\ hi[y] <= n
  BY RankedFacts
<1>3. \A y \in us : /\ right[y] \in us \union {NULL} /\ left[y] \in us \union {NULL}
                    /\ right[y] = NULL => hi[y] = pos[y]
                    /\ right[y] # NULL => hi[right[y]] = hi[y] /\ lo[right[y]] = pos[y] + 1
                    /\ left[y] = NULL => lo[y] = pos[y]
                    /\ left[y] # NULL => lo[left[y]] = lo[y] /\ hi[left[y]] = pos[y] - 1
  BY RankedFacts
<1>4. \A y \in Tree!Nodes \ us : right[y] = NULL /\ left[y] = NULL
  BY RankedFacts
<1>5. lo[t.root] = 1 /\ hi[t.root] = n
  BY <1>1, RankedFacts
<1>7. \A y \in us : key(y) \in Int
  BY <1>1, TreeConstants
<1>8. \A y, z \in us : /\ pos[y] < pos[z] => key(y) <= key(z)
                       /\ pos[y] = pos[z] => y = z
  <2>1. ASSUME NEW y \in us, NEW z \in us
        PROVE  (pos[y] < pos[z] => key(y) <= key(z)) /\ (pos[y] = pos[z] => y = z)
    <3>1. KeyOfNode[y] = key(y) /\ KeyOfNode[z] = key(z)
      BY <1>1 DEF KeyOfNode
    <3> QED BY <1>1, <3>1 DEF Numbered
  <2> QED BY <2>1
<1>9. \E f : f = steps(f)
  <2>1. n \in Nat /\ m \in [D -> 0 .. n]
    BY <1>1, <1>2
  <2>2. next \in [D -> D]
    <3>1. \A x \in D : left[x] \in D \union {NULL} /\ right[x] \in D \union {NULL}
      BY <1>1, <1>3, <1>4
    <3> QED BY <3>1
  <2>3. ASSUME NEW x \in D \ stop PROVE m[next[x]] < m[x]
    <3>1. x \in us
      BY <1>4
    <3>2. next[x] \in us /\ (next[x] = left[x] \/ next[x] = right[x]) /\ next[x] # NULL
      BY <1>1, <1>3, <3>1
    <3>3. m[x] = hi[x] - lo[x] /\ m[next[x]] = hi[next[x]] - lo[next[x]]
      BY <1>1, <3>1, <3>2
    <3> HIDE DEF m, next
    <3>4. CASE next[x] = left[x]
      BY <1>2, <1>3, <3>1, <3>2, <3>3, <3>4
    <3>5. CASE next[x] = right[x]
      BY <1>2, <1>3, <3>1, <3>2, <3>3, <3>5
    <3> QED BY <3>2, <3>4, <3>5
  <2> DEFINE out == [x \in D |-> x]
  <2>4. out \in [D -> D]
    OBVIOUS
  <2>5. \A x \in D : /\ out[x] = x
                     /\ x \in stop <=> ~goL(x) /\ ~goR(x)
                     /\ next[x] = IF goL(x) THEN left[x] ELSE IF goR(x) THEN right[x] ELSE x
    OBVIOUS
  <2> HIDE DEF stop, out, next, m, D, goL, goR
  <2>6. PICK f \in [D -> D] : Walking(f, D, stop, out, next)
    BY <2>1, <2>2, <2>3, <2>4, Iteration
  <2>7. \A x \in D : f[x] = IF goL(x) THEN f[left[x]] ELSE IF goR(x) THEN f[right[x]] ELSE x
    <3> SUFFICES ASSUME NEW x \in D
                 PROVE  f[x] = IF goL(x) THEN f[left[x]] ELSE IF goR(x) THEN f[right[x]] ELSE x
      OBVIOUS
    <3>1. f[x] = IF x \in stop THEN out[x] ELSE f[next[x]]
      BY <2>6 DEF Walking
    <3>2. CASE x \in stop
      BY <2>5, <3>1, <3>2
    <3>3. CASE x \notin stop
      BY <2>5, <3>1, <3>3
    <3> QED BY <3>2, <3>3
  <2>8. f = steps(f)
    BY <2>6, <2>7 DEF goL, goR
  <2> HIDE DEF steps
  <2> QED BY <2>8
<1>10. from = steps(from)
  <2> HIDE DEF steps
  <2> QED BY <1>9
<1>11. Tree!Place(t, k) = from[t.root]
  BY DEF Tree!Place
<1> HIDE DEF from
<1>12. \A x \in us : from[x] = IF k < key(x) /\ left[x] # NULL THEN from[left[x]]
                               ELSE IF k > key(x) /\ right[x] # NULL THEN from[right[x]] ELSE x
  BY <1>1, <1>10
<1> DEFINE Out(x) == /\ \A y \in us : pos[y] < lo[x] => key(y) <= k
                     /\ \A y \in us : hi[x] < pos[y] => k <= key(y)
           Good(x) == /\ x \in us /\ InOrderAt(us, pos, x, k)
                      /\ k < key(x) => left[x] = NULL
                      /\ k > key(x) => right[x] = NULL
           G == {x \in us : Out(x) => Good(from[x])}
           m2 == [x \in us |-> hi[x] - lo[x]]
<1>13. us \subseteq G
  <2>1. m2 \in [us -> 0 .. n]
    BY <1>1, <1>2
  <2>2. ASSUME NEW x \in us, \A z \in us : m2[z] < m2[x] => z \in G, Out(x)
        PROVE  Good(from[x])
    <3>1. CASE k < key(x) /\ left[x] # NULL
      <4> DEFINE c == left[x]
      <4>1. c \in us /\ lo[c] = lo[x] /\ hi[c] = pos[x] - 1 /\ from[x] = from[c]
        BY <1>3, <1>12, <3>1
      <4> HIDE DEF c
      <4>2. m2[c] < m2[x]
        BY <1>2, <4>1
      <4>3. Out(c)
        <5>1. ASSUME NEW y \in us, hi[c] < pos[y] PROVE k <= key(y)
          <6>1. pos[x] <= pos[y] /\ pos[x] \in Int /\ pos[y] \in Int
            BY <1>2, <4>1, <5>1
          <6>2. key(x) <= key(y)
            <7>1. CASE pos[x] < pos[y]
              BY <1>8, <7>1
            <7>2. CASE pos[x] = pos[y]
              BY <1>7, <1>8, <7>2
            <7> QED BY <6>1, <7>1, <7>2
          <6>3. key(x) \in Int /\ key(y) \in Int
            BY <1>7
          <6> HIDE DEF key
          <6> QED BY <3>1, <6>2, <6>3
        <5>2. \A y \in us : pos[y] < lo[c] => key(y) <= k
          BY <2>2, <4>1
        <5> QED BY <5>1, <5>2
      <4> HIDE DEF Out, Good, m2
      <4> QED BY <2>2, <4>1, <4>2, <4>3
    <3>2. CASE k > key(x) /\ right[x] # NULL
      <4> DEFINE c == right[x]
      <4>0. ~(k < key(x))
        <5>1. key(x) \in Int
          BY <1>7
        <5> HIDE DEF key
        <5> QED BY <3>2, <5>1
      <4>1. c \in us /\ hi[c] = hi[x] /\ lo[c] = pos[x] + 1 /\ from[x] = from[c]
        BY <1>3, <1>12, <3>2, <4>0
      <4> HIDE DEF c
      <4>2. m2[c] < m2[x]
        BY <1>2, <4>1
      <4>3. Out(c)
        <5>1. ASSUME NEW y \in us, pos[y] < lo[c] PROVE key(y) <= k
          <6>1. pos[y] <= pos[x] /\ pos[x] \in Int /\ pos[y] \in Int
            BY <1>2, <4>1, <5>1
          <6>2. key(y) <= key(x)
            <7>1. CASE pos[y] < pos[x]
              BY <1>8, <7>1
            <7>2. CASE pos[x] = pos[y]
              BY <1>7, <1>8, <7>2
            <7> QED BY <6>1, <7>1, <7>2
          <6>3. key(x) \in Int /\ key(y) \in Int
            BY <1>7
          <6> HIDE DEF key
          <6> QED BY <3>2, <6>2, <6>3
        <5>2. \A y \in us : hi[c] < pos[y] => k <= key(y)
          BY <2>2, <4>1
        <5> QED BY <5>1, <5>2
      <4> HIDE DEF Out, Good, m2
      <4> QED BY <2>2, <4>1, <4>2, <4>3
    <3>3. CASE ~(k < key(x) /\ left[x] # NULL) /\ ~(k > key(x) /\ right[x] # NULL)
      <4>1. from[x] = x
        BY <1>12, <3>3
      <4>2. ASSUME NEW y \in us, pos[y] < pos[x] PROVE key(y) <= k
        <5>1. key(y) <= key(x) /\ key(y) \in Int /\ key(x) \in Int
          BY <1>7, <1>8, <4>2
        <5>2. CASE k < key(x)
          <6>1. lo[x] = pos[x]
            BY <1>3, <3>3, <5>2
          <6> QED BY <2>2, <4>2, <6>1
        <5>3. CASE ~(k < key(x))
          <6> HIDE DEF key
          <6> QED BY <5>1, <5>3
        <5> QED BY <5>2, <5>3
      <4>3. ASSUME NEW y \in us, pos[x] < pos[y] PROVE k <= key(y)
        <5>1. key(x) <= key(y) /\ key(y) \in Int /\ key(x) \in Int
          BY <1>7, <1>8, <4>3
        <5>2. CASE k > key(x)
          <6>1. hi[x] = pos[x]
            BY <1>3, <3>3, <5>2
          <6> QED BY <2>2, <4>3, <6>1
        <5>3. CASE ~(k > key(x))
          <6> HIDE DEF key
          <6> QED BY <5>1, <5>3
        <5> QED BY <5>2, <5>3
      <4>4. InOrderAt(us, pos, x, k)
        BY <4>2, <4>3 DEF InOrderAt
      <4>5. Good(x)
        BY <3>3, <4>4
      <4> HIDE DEF Good
      <4> QED BY <4>1, <4>5
    <3> QED BY <3>1, <3>2, <3>3
  <2>3. ASSUME NEW x \in us, \A z \in us : m2[z] < m2[x] => z \in G
        PROVE  x \in G
    BY <2>2, <2>3
  <2> HIDE DEF m2, G
  <2> QED BY <1>1, <2>1, <2>3, ByMeasure
<1>14. Out(t.root)
  <2>1. \A y \in us : lo[t.root] <= pos[y] /\ pos[y] <= hi[t.root]
    BY <1>1, <1>5 DEF Numbered
  <2>2. lo[t.root] \in Int /\ hi[t.root] \in Int
    BY <1>1, <1>2
  <2> HIDE DEF key
  <2> QED BY <1>2, <2>1, <2>2
<1>15. Good(from[t.root])
  BY <1>1, <1>13, <1>14
<1> QED BY <1>11, <1>15

(* The nodes as they are kept *)
TreeRecords ==
  [root : Tree!Nodes \union {NULL}, used : SUBSET Tree!Nodes,
   left : [Tree!Nodes -> Tree!Nodes \union {NULL}], right : [Tree!Nodes -> Tree!Nodes \union {NULL}],
   parent : [Tree!Nodes -> Tree!Nodes \union {NULL}]]

TreeRecord(r, u, l, ri, p) == [root |-> r, used |-> u, left |-> l, right |-> ri, parent |-> p]

TreeGood(t) ==
  t \in TreeRecords /\ Sorted(t.right, t.left, t.parent, t.used, t.root, KeyOfNode)

LEMMA GoodRecord ==
  ASSUME NEW r, NEW u, NEW l, NEW ri, NEW p, Sorted(ri, l, p, u, r, KeyOfNode)
  PROVE  TreeGood(TreeRecord(r, u, l, ri, p))
<1>1. Linked(ri, l, p, u, r)
  BY DEF Sorted, Ranked
<1>2. /\ r \in Tree!Nodes \union {NULL} /\ u \in SUBSET Tree!Nodes
      /\ l \in [Tree!Nodes -> Tree!Nodes \union {NULL}]
      /\ ri \in [Tree!Nodes -> Tree!Nodes \union {NULL}]
      /\ p \in [Tree!Nodes -> Tree!Nodes \union {NULL}]
  BY <1>1 DEF Linked
<1> QED BY <1>2 DEF TreeGood, TreeRecord, TreeRecords

(* The memory for a new node *)
LEMMA FreshIs ==
  ASSUME NEW t, NEW k \in TreeKeys, Tree!Unused(t, k) # {}
  PROVE  /\ Tree!Fresh(t, k) \in Tree!Nodes /\ Tree!Fresh(t, k) \notin t.used
         /\ Tree!KeyOf(Tree!Fresh(t, k)) = k
<1> DEFINE S == Tree!Unused(t, k)
           n == CHOOSE i \in S : \A j \in S : i <= j
<1>1. S \subseteq Nat /\ S \subseteq 1 .. Copies
  BY TreeConstants DEF Tree!Unused
<1>2. n \in S
  BY <1>1, ChosenMinimum
<1>3. n \in 1 .. Copies /\ <<k, n>> \notin t.used
  BY <1>2 DEF Tree!Unused
<1>4. Tree!Fresh(t, k) = <<k, n>>
  BY DEF Tree!Fresh
<1> HIDE DEF n
<1> QED BY <1>3, <1>4 DEF Tree!Nodes, Tree!KeyOf

(* What an insertion makes of the fields *)
Put(f, x, v) == [f EXCEPT ![x] = v]

InsertedLeft(l, x, at, k) ==
  IF k > Tree!KeyOf(at) THEN Put(l, x, NULL)
  ELSE IF k < Tree!KeyOf(at) THEN Put(Put(l, x, NULL), at, x)
  ELSE Put(Put(l, x, l[at]), at, x)
InsertedRight(ri, x, at, k) ==
  IF k > Tree!KeyOf(at) THEN Put(Put(ri, x, NULL), at, x) ELSE Put(ri, x, NULL)
InsertedParent(p, l, x, at, k) ==
  IF k > Tree!KeyOf(at) \/ k < Tree!KeyOf(at) THEN Put(p, x, at)
  ELSE Tree!Store(Put(p, x, at), l[at], x)

Fields(t, l, ri, p) == [t EXCEPT !.left = l, !.right = ri, !.parent = p]
Leaf(t, x, at) == [t EXCEPT !.left[x] = NULL, !.right[x] = NULL, !.parent[x] = at]

LEMMA NewFields ==
  ASSUME NEW r, NEW u, NEW l, NEW ri, NEW p, NEW l1, NEW ri1, NEW p1, NEW t,
         t = TreeRecord(r, u, l, ri, p)
  PROVE  Fields(t, l1, ri1, p1) = TreeRecord(r, u, l1, ri1, p1)
<1>1. Fields(t, l1, ri1, p1)
        = [[[t EXCEPT !.left = l1] EXCEPT !.right = ri1] EXCEPT !.parent = p1]
  BY DEF TreeRecord, Fields
<1>2. [t EXCEPT !.left = l1] = TreeRecord(r, u, l1, ri, p)
  BY DEF TreeRecord
<1>3. [TreeRecord(r, u, l1, ri, p) EXCEPT !.right = ri1] = TreeRecord(r, u, l1, ri1, p)
  BY DEF TreeRecord
<1>4. [TreeRecord(r, u, l1, ri1, p) EXCEPT !.parent = p1] = TreeRecord(r, u, l1, ri1, p1)
  BY DEF TreeRecord
<1> QED BY <1>1, <1>2, <1>3, <1>4, Zenon

LEMMA LeafParts ==
  ASSUME NEW r, NEW u, NEW l, NEW ri, NEW p, NEW x, NEW at, NEW t,
         t = TreeRecord(r, u, l, ri, p)
  PROVE  Leaf(t, x, at)
           = TreeRecord(r, u, Put(l, x, NULL), Put(ri, x, NULL), Put(p, x, at))
<1> DEFINE l1 == Put(l, x, NULL)
           ri1 == Put(ri, x, NULL)
           p1 == Put(p, x, at)
<1>1. t.left = l /\ t.right = ri /\ t.parent = p
  BY DEF TreeRecord
<1>2. Leaf(t, x, at) = Fields(t, l1, ri1, p1)
  BY <1>1 DEF Leaf, Fields, Put
<1> HIDE DEF l1, ri1, p1
<1>3. Fields(t, l1, ri1, p1) = TreeRecord(r, u, l1, ri1, p1)
  BY NewFields
<1> QED BY <1>2, <1>3 DEF l1, ri1, p1

LEMMA InsertParts ==
  ASSUME NEW r, NEW u, NEW l, NEW ri, NEW p, NEW k \in Int, NEW t, t = TreeRecord(r, u, l, ri, p),
         NEW x, x = Tree!Fresh(t, k), NEW at, at = Tree!Place(t, k), Tree!KeyOf(at) \in Int
  PROVE  Tree!InsertItem(t, k)
           = TreeRecord(r, u \union {x}, InsertedLeft(l, x, at, k), InsertedRight(ri, x, at, k),
                        InsertedParent(p, l, x, at, k))
<1> DEFINE j == Tree!KeyOf(at)
           alloc == [t EXCEPT !.used = @ \union {x}]
           leaf == Leaf(alloc, x, at)
<1>0. j \in Int
  OBVIOUS
<1>1. Tree!InsertItem(t, k) = CASE k < j -> [leaf EXCEPT !.left[at] = x]
                                [] k > j -> [leaf EXCEPT !.right[at] = x]
                                [] OTHER -> Tree!InsertEqual(alloc, x, at)
  BY DEF Tree!InsertItem, Leaf
<1>2. alloc = TreeRecord(r, u \union {x}, l, ri, p)
  BY DEF TreeRecord
<1>3. leaf = TreeRecord(r, u \union {x}, Put(l, x, NULL), Put(ri, x, NULL), Put(p, x, at))
  <2> HIDE DEF alloc
  <2> QED BY <1>2, LeafParts
<1> HIDE DEF alloc, leaf
<1>4. CASE k < j
  <2> DEFINE l1 == Put(l, x, NULL)
             ri1 == Put(ri, x, NULL)
             p1 == Put(p, x, at)
             l2 == Put(l1, at, x)
  <2>1. ~(k > j)
    <3> HIDE DEF j
    <3> QED BY <1>0, <1>4
  <2>2. InsertedLeft(l, x, at, k) = l2 /\ InsertedRight(ri, x, at, k) = ri1 /\ InsertedParent(p, l, x, at, k) = p1
    BY <1>4, <2>1 DEF InsertedLeft, InsertedRight, InsertedParent
  <2>3. Tree!InsertItem(t, k) = [leaf EXCEPT !.left[at] = x]
    BY <1>1, <1>4
  <2> HIDE DEF l1, ri1, p1
  <2>4. leaf = TreeRecord(r, u \union {x}, l1, ri1, p1)
    BY <1>3 DEF l1, ri1, p1
  <2>5. [leaf EXCEPT !.left[at] = x] = TreeRecord(r, u \union {x}, l2, ri1, p1)
    BY <2>4 DEF TreeRecord, Put
  <2> HIDE DEF l2
  <2> QED BY <2>2, <2>3, <2>5
<1>5. CASE k > j
  <2> DEFINE l1 == Put(l, x, NULL)
             ri1 == Put(ri, x, NULL)
             p1 == Put(p, x, at)
             ri2 == Put(ri1, at, x)
  <2>1. ~(k < j)
    <3> HIDE DEF j
    <3> QED BY <1>0, <1>5
  <2>2. InsertedLeft(l, x, at, k) = l1 /\ InsertedRight(ri, x, at, k) = ri2 /\ InsertedParent(p, l, x, at, k) = p1
    BY <1>5, <2>1 DEF InsertedLeft, InsertedRight, InsertedParent
  <2>3. Tree!InsertItem(t, k) = [leaf EXCEPT !.right[at] = x]
    BY <1>1, <1>5, <2>1
  <2> HIDE DEF l1, ri1, p1
  <2>4. leaf = TreeRecord(r, u \union {x}, l1, ri1, p1)
    BY <1>3 DEF l1, ri1, p1
  <2>5. [leaf EXCEPT !.right[at] = x] = TreeRecord(r, u \union {x}, l1, ri2, p1)
    BY <2>4 DEF TreeRecord, Put
  <2> HIDE DEF ri2
  <2> QED BY <2>2, <2>3, <2>5
<1>6. CASE ~(k < j) /\ ~(k > j)
  <2> DEFINE l2 == Put(Put(l, x, l[at]), at, x)
             ri1 == Put(ri, x, NULL)
             p1 == Put(p, x, at)
             p2 == Tree!Store(p1, l[at], x)
  <2>2. InsertedLeft(l, x, at, k) = l2 /\ InsertedRight(ri, x, at, k) = ri1 /\ InsertedParent(p, l, x, at, k) = p2
    BY <1>6 DEF InsertedLeft, InsertedRight, InsertedParent
  <2>3. Tree!InsertItem(t, k) = Tree!InsertEqual(alloc, x, at)
    BY <1>1, <1>6
  <2>4. alloc.left = l /\ alloc.right = ri /\ alloc.parent = p
    BY <1>2 DEF TreeRecord
  <2>5. Tree!InsertEqual(alloc, x, at) = Fields(alloc, l2, ri1, p2)
    BY <2>4 DEF Tree!InsertEqual, Put, Fields
  <2>6. Fields(alloc, l2, ri1, p2) = TreeRecord(r, u \union {x}, l2, ri1, p2)
    <3> HIDE DEF l2, ri1, p1, p2
    <3> QED BY <1>2, NewFields
  <2> HIDE DEF l2, ri1, p1, p2
  <2> QED BY <2>2, <2>3, <2>5, <2>6
<1> QED BY <1>4, <1>5, <1>6

(* bscl_bstree_insert keeps the order. *)
LEMMA PutNull ==
  ASSUME NEW f, NEW S, f \in [Tree!Nodes -> S], NEW x, f[x] = NULL
  PROVE  Put(f, x, NULL) = f
BY DEF Put

LEMMA InsertGood ==
  ASSUME NEW t, TreeGood(t), t.root # NULL, NEW k \in TreeKeys, Tree!Unused(t, k) # {}
  PROVE  /\ TreeGood(Tree!InsertItem(t, k))
         /\ Tree!InsertItem(t, k).used = t.used \union {Tree!Fresh(t, k)}
<1> DEFINE r == t.root
           u == t.used
           l == t.left
           ri == t.right
           p == t.parent
           x == Tree!Fresh(t, k)
           at == Tree!Place(t, k)
           l2 == InsertedLeft(l, x, at, k)
           ri2 == InsertedRight(ri, x, at, k)
           p2 == InsertedParent(p, l, x, at, k)
           u2 == u \union {x}
           j == Tree!KeyOf(at)
<1>1. t = TreeRecord(r, u, l, ri, p)
  BY DEF TreeGood, TreeRecords, TreeRecord
<1>2. k \in Int /\ KeyOfNode \in [Tree!Nodes -> Int] /\ NULL \notin Tree!Nodes
      /\ \A y \in Tree!Nodes : Tree!KeyOf(y) \in Int /\ KeyOfNode[y] = Tree!KeyOf(y)
  BY TreeConstants DEF KeyOfNode
<1>3. x \in Tree!Nodes /\ x \notin u /\ Tree!KeyOf(x) = k
  BY FreshIs
<1>4. PICK n, pos, lo, hi : Ranked(ri, l, p, u, r, KeyOfNode, n, pos, lo, hi)
  BY DEF TreeGood, Sorted
<1>5. /\ at \in u /\ InOrderAt(u, pos, at, k)
      /\ k < j => l[at] = NULL
      /\ k > j => ri[at] = NULL
  BY <1>2, <1>4, PlaceIs
<1>6. /\ u \subseteq Tree!Nodes /\ n \in Nat /\ \A y \in u : pos[y] \in Int
      /\ \A y \in Tree!Nodes \ u : l[y] = NULL /\ ri[y] = NULL /\ p[y] = NULL
      /\ \A y \in u : l[y] \in u \union {NULL}
  BY <1>4, RankedFacts
<1>7. at \in Tree!Nodes /\ at # x /\ at # NULL /\ j \in Int
  BY <1>2, <1>3, <1>5, <1>6
<1>8. /\ l \in [Tree!Nodes -> Tree!Nodes \union {NULL}]
      /\ ri \in [Tree!Nodes -> Tree!Nodes \union {NULL}]
      /\ p \in [Tree!Nodes -> Tree!Nodes \union {NULL}]
  BY DEF TreeGood, TreeRecords
<1>9. Tree!InsertItem(t, k) = TreeRecord(r, u2, l2, ri2, p2)
  BY <1>1, <1>2, <1>7, InsertParts
<1>10. \A y, z \in u : pos[y] < pos[z] => Tree!KeyOf(y) <= Tree!KeyOf(z)
  BY <1>2, <1>4, <1>6 DEF Ranked, Numbered
<1>11. \A y, z \in u : pos[y] = pos[z] => y = z
  BY <1>4 DEF Ranked, Numbered
<1>12. Sorted(ri2, l2, p2, u2, r, KeyOfNode)
  <2> HIDE DEF x, at, r, u, l, ri, p
  <2>1. Put(l, x, NULL) = l /\ Put(ri, x, NULL) = ri
    BY <1>3, <1>6, <1>8, PutNull
  <2>2. CASE k > j
    <3>1. ri2 = HungOpp(ri, x, at)
      <4>1. ri2 = Put(ri, at, x)
        BY <2>1, <2>2 DEF InsertedRight
      <4> QED BY <1>3, <1>5, <1>6, <1>7, <1>8, <2>2, <4>1 DEF HungOpp, Put
    <3>2. l2 = l
      BY <2>1, <2>2 DEF InsertedLeft
    <3>3. p2 = HungUp(ri, p, x, at)
      <4>1. p2 = Put(p, x, at)
        BY <2>2 DEF InsertedParent
      <4>2. ri[at] = NULL
        BY <1>5, <2>2
      <4>3. \A y \in Tree!Nodes : y # ri[at]
        BY <1>2, <4>2
      <4> QED BY <1>3, <1>7, <1>8, <4>1, <4>3 DEF HungUp, Put
    <3> DEFINE back == Turned(0, KeyOfNode)
               bpos == Turned(n + 1, pos)
    <3>4. Ranked(l, ri, p, u, r, back, n, bpos, Turned(n + 1, hi), Turned(n + 1, lo))
      BY <1>2, <1>4, TurnedRanked
    <3>5. back \in [Tree!Nodes -> Int]
      BY <1>2, TurnedBack
    <3>6. \A y \in u : bpos[y] = n + 1 - pos[y]
      BY <1>6 DEF Turned
    <3>7. \A y \in Tree!Nodes : back[y] = 0 - Tree!KeyOf(y)
      BY <1>2 DEF Turned
    <3>8. ASSUME NEW y \in u, bpos[y] < bpos[at] PROVE back[y] <= back[x]
      <4>1. pos[at] < pos[y]
        BY <1>5, <1>6, <3>6, <3>8
      <4>2. k <= Tree!KeyOf(y)
        BY <1>5, <4>1 DEF InOrderAt
      <4>3. back[y] = 0 - Tree!KeyOf(y) /\ back[x] = 0 - k /\ Tree!KeyOf(y) \in Int
        BY <1>2, <1>3, <1>6, <3>7
      <4> HIDE DEF back
      <4> QED BY <1>2, <4>2, <4>3
    <3>9. ASSUME NEW y \in u, bpos[at] <= bpos[y] PROVE back[x] <= back[y]
      <4>1. pos[y] <= pos[at]
        BY <1>5, <1>6, <3>6, <3>9
      <4>2. Tree!KeyOf(y) <= k
        <5>1. CASE pos[y] < pos[at]
          BY <1>5, <5>1 DEF InOrderAt
        <5>2. CASE pos[y] = pos[at]
          <6>1. y = at
            BY <1>5, <1>11, <5>2
          <6> HIDE DEF j
          <6> QED BY <1>2, <1>7, <2>2, <6>1 DEF j
        <5> QED BY <1>5, <1>6, <4>1, <5>1, <5>2
      <4>3. back[y] = 0 - Tree!KeyOf(y) /\ back[x] = 0 - k /\ Tree!KeyOf(y) \in Int
        BY <1>2, <1>3, <1>6, <3>7
      <4> HIDE DEF back
      <4> QED BY <1>2, <4>2, <4>3
    <3> HIDE DEF back, bpos, ri2, l2, p2, u2
    <3>10. Sorted(l, HungOpp(ri, x, at), HungUp(ri, p, x, at), u \union {x}, r, back)
      BY <1>3, <1>5, <3>4, <3>5, <3>8, <3>9, Hung
    <3>11. Sorted(HungOpp(ri, x, at), l, HungUp(ri, p, x, at), u \union {x}, r, KeyOfNode)
      BY <1>2, <3>10, TurnedSorted DEF back
    <3> QED BY <3>1, <3>2, <3>3, <3>11 DEF u2
  <2>3. CASE ~(k > j)
    <3>1. ri2 = ri
      BY <2>1, <2>3 DEF InsertedRight
    <3>2. l2 = HungOpp(l, x, at)
      <4>1. l2 = Put(Put(l, x, l[at]), at, x)
        <5>1. CASE k < j
          BY <1>5, <2>3, <5>1 DEF InsertedLeft
        <5>2. CASE ~(k < j)
          BY <2>3, <5>2 DEF InsertedLeft
        <5> QED BY <5>1, <5>2
      <4> QED BY <1>3, <1>7, <1>8, <4>1 DEF HungOpp, Put
    <3>3. p2 = HungUp(l, p, x, at)
      <4>1. l[at] # x
        BY <1>3, <1>5, <1>6, <1>2
      <4>2. CASE l[at] = NULL
        <5>1. p2 = Put(p, x, at)
          BY <4>2 DEF InsertedParent, Tree!Store, Put
        <5> QED BY <1>2, <1>3, <1>7, <1>8, <4>2, <5>1 DEF HungUp, Put
      <4>3. CASE l[at] # NULL
        <5>1. ~(k < j)
          BY <1>5, <4>3
        <5>2. p2 = Put(Put(p, x, at), l[at], x)
          BY <2>3, <4>3, <5>1 DEF InsertedParent, Tree!Store, Put
        <5> QED BY <1>3, <1>7, <1>8, <4>1, <5>2 DEF HungUp, Put
      <4> QED BY <4>2, <4>3
    <3>4. ASSUME NEW y \in u, pos[y] < pos[at] PROVE KeyOfNode[y] <= KeyOfNode[x]
      BY <1>2, <1>3, <1>5, <1>6, <3>4 DEF InOrderAt
    <3>5. ASSUME NEW y \in u, pos[at] <= pos[y] PROVE KeyOfNode[x] <= KeyOfNode[y]
      <4>1. k <= Tree!KeyOf(y)
        <5>1. CASE pos[at] < pos[y]
          BY <1>5, <5>1 DEF InOrderAt
        <5>2. CASE pos[at] = pos[y]
          <6>1. y = at
            BY <1>5, <1>11, <5>2
          <6> HIDE DEF j
          <6> QED BY <1>2, <1>7, <2>3, <6>1 DEF j
        <5> QED BY <1>5, <1>6, <3>5, <5>1, <5>2
      <4> QED BY <1>2, <1>3, <1>6, <4>1
    <3> HIDE DEF ri2, l2, p2, u2
    <3>6. Sorted(ri, HungOpp(l, x, at), HungUp(l, p, x, at), u \union {x}, r, KeyOfNode)
      BY <1>2, <1>3, <1>4, <1>5, <3>4, <3>5, Hung
    <3> QED BY <3>1, <3>2, <3>3, <3>6 DEF u2
  <2> QED BY <2>2, <2>3
<1> HIDE DEF l2, ri2, p2, u2
<1>13. TreeGood(TreeRecord(r, u2, l2, ri2, p2))
  BY <1>12, GoodRecord
<1>14. TreeRecord(r, u2, l2, ri2, p2).used = u2
  BY DEF TreeRecord
<1> QED BY <1>9, <1>13, <1>14 DEF u2

(* What a removal makes of the fields *)
Blanked(t, u, l, ri, p) == [t EXCEPT !.used = u, !.parent = p, !.left = l, !.right = ri]

LEMMA BlankedFields ==
  ASSUME NEW r, NEW u, NEW l, NEW ri, NEW p, NEW u1, NEW l1, NEW ri1, NEW p1, NEW t,
         t = TreeRecord(r, u, l, ri, p)
  PROVE  Blanked(t, u1, l1, ri1, p1) = TreeRecord(r, u1, l1, ri1, p1)
<1>1. Blanked(t, u1, l1, ri1, p1)
        = [[[[t EXCEPT !.used = u1] EXCEPT !.parent = p1] EXCEPT !.left = l1] EXCEPT !.right = ri1]
  BY DEF TreeRecord, Blanked
<1>2. [t EXCEPT !.used = u1] = TreeRecord(r, u1, l, ri, p)
  BY DEF TreeRecord
<1>3. [TreeRecord(r, u1, l, ri, p) EXCEPT !.parent = p1] = TreeRecord(r, u1, l, ri, p1)
  BY DEF TreeRecord
<1>4. [TreeRecord(r, u1, l, ri, p1) EXCEPT !.left = l1] = TreeRecord(r, u1, l1, ri, p1)
  BY DEF TreeRecord
<1>5. [TreeRecord(r, u1, l1, ri, p1) EXCEPT !.right = ri1] = TreeRecord(r, u1, l1, ri1, p1)
  BY DEF TreeRecord
<1> QED BY <1>1, <1>2, <1>3, <1>4, <1>5, Zenon

ReplacedRoot(r, a, c) == IF a = r THEN c ELSE r
ReplacedLeft(r, l, p, a, c) == Put(IF a # r /\ l[p[a]] = a THEN Put(l, p[a], c) ELSE l, a, NULL)
ReplacedRight(r, l, ri, p, a, c) == Put(IF a # r /\ l[p[a]] # a THEN Put(ri, p[a], c) ELSE ri, a, NULL)
ReplacedParent(p, a, c) == Put(Tree!Store(p, c, p[a]), a, NULL)

LEMMA ReplaceParts ==
  ASSUME NEW r, NEW u, NEW l, NEW ri, NEW p, NEW a, NEW c, NEW t, t = TreeRecord(r, u, l, ri, p)
  PROVE  Tree!Replace(t, a, c)
           = TreeRecord(ReplacedRoot(r, a, c), u \ {a}, ReplacedLeft(r, l, p, a, c),
                        ReplacedRight(r, l, ri, p, a, c), ReplacedParent(p, a, c))
<1> DEFINE r2 == ReplacedRoot(r, a, c)
           l1 == IF a # r /\ l[p[a]] = a THEN Put(l, p[a], c) ELSE l
           ri1 == IF a # r /\ l[p[a]] # a THEN Put(ri, p[a], c) ELSE ri
           up == t.parent[a]
           placed == IF a = t.root THEN [t EXCEPT !.root = c]
                     ELSE IF t.left[up] = a THEN [t EXCEPT !.left[up] = c]
                     ELSE [t EXCEPT !.right[up] = c]
           l2 == Put(l1, a, NULL)
           ri2 == Put(ri1, a, NULL)
           p2 == ReplacedParent(p, a, c)
           u2 == u \ {a}
<1>1. t.root = r /\ t.used = u /\ t.left = l /\ t.right = ri /\ t.parent = p /\ up = p[a]
  BY DEF TreeRecord
<1>2. placed = TreeRecord(r2, u, l1, ri1, p)
  <2>1. CASE a = r
    <3>1. placed = [t EXCEPT !.root = c]
      BY <1>1, <2>1
    <3>2. [t EXCEPT !.root = c] = TreeRecord(c, u, l, ri, p)
      BY DEF TreeRecord
    <3>3. r2 = c /\ l1 = l /\ ri1 = ri
      BY <2>1 DEF ReplacedRoot
    <3> HIDE DEF placed, r2, l1, ri1
    <3> QED BY <3>1, <3>2, <3>3
  <2>2. CASE a # r /\ l[p[a]] = a
    <3>1. placed = [t EXCEPT !.left[p[a]] = c]
      BY <1>1, <2>2
    <3>2. [t EXCEPT !.left[p[a]] = c] = TreeRecord(r, u, Put(l, p[a], c), ri, p)
      BY DEF TreeRecord, Put
    <3>3. r2 = r /\ l1 = Put(l, p[a], c) /\ ri1 = ri
      BY <2>2 DEF ReplacedRoot
    <3> HIDE DEF placed, r2, l1, ri1
    <3> QED BY <3>1, <3>2, <3>3
  <2>3. CASE a # r /\ l[p[a]] # a
    <3>1. placed = [t EXCEPT !.right[p[a]] = c]
      BY <1>1, <2>3
    <3>2. [t EXCEPT !.right[p[a]] = c] = TreeRecord(r, u, l, Put(ri, p[a], c), p)
      BY DEF TreeRecord, Put
    <3>3. r2 = r /\ l1 = l /\ ri1 = Put(ri, p[a], c)
      BY <2>3 DEF ReplacedRoot
    <3> HIDE DEF placed, r2, l1, ri1
    <3> QED BY <3>1, <3>2, <3>3
  <2> QED BY <2>1, <2>2, <2>3
<1>3. Tree!Replace(t, a, c)
        = [placed EXCEPT !.used = @ \ {a}, !.parent = [Tree!Store(@, c, up) EXCEPT ![a] = NULL],
                         !.left[a] = NULL, !.right[a] = NULL]
  BY DEF Tree!Replace
<1> HIDE DEF placed, l1, ri1, up, r2
<1>4. placed.used = u /\ placed.left = l1 /\ placed.right = ri1 /\ placed.parent = p
  BY <1>2 DEF TreeRecord
<1>5. Tree!Replace(t, a, c) = Blanked(placed, u2, l2, ri2, p2)
  BY <1>1, <1>3, <1>4 DEF Blanked, Put, ReplacedParent
<1> HIDE DEF l2, ri2, p2, u2
<1>6. Tree!Replace(t, a, c) = TreeRecord(r2, u2, l2, ri2, p2)
  BY <1>2, <1>5, BlankedFields
<1>7. l2 = ReplacedLeft(r, l, p, a, c) /\ ri2 = ReplacedRight(r, l, ri, p, a, c)
  BY DEF ReplacedLeft, ReplacedRight, l1, ri1, l2, ri2
<1> QED BY <1>6, <1>7 DEF r2, u2, p2

(* A node is the child of the one above it, on one side, and of no other. *)
OneAbove(side, opp, up, us, root, x) ==
  /\ \A y \in Tree!Nodes : side[y] = x \/ opp[y] = x => y = up[x] /\ y \in us /\ x # root
  /\ x # root => up[x] \in us /\ (side[up[x]] = x <=> opp[up[x]] # x)

LEMMA HeldOnce ==
  ASSUME NEW side, NEW opp, NEW up, NEW us, NEW root, NEW key,
         NEW n, NEW pos, NEW lo, NEW hi, Ranked(side, opp, up, us, root, key, n, pos, lo, hi),
         NEW x \in us
  PROVE  OneAbove(side, opp, up, us, root, x)
<1>1. us \subseteq Tree!Nodes /\ NULL \notin us
  BY RankedFacts
<1>2. \A y \in us : pos[y] \in Int /\ lo[y] \in Int /\ hi[y] \in Int /\ lo[y] <= hi[y]
  BY RankedFacts
<1>3. \A y \in us : /\ side[y] # NULL => up[side[y]] = y /\ lo[side[y]] = pos[y] + 1
                    /\ opp[y] # NULL => up[opp[y]] = y /\ hi[opp[y]] = pos[y] - 1
  BY RankedFacts
<1>4. x # root => up[x] \in us /\ (side[up[x]] = x \/ opp[up[x]] = x)
  BY RankedFacts
<1>5. x = root => up[x] = NULL
  BY RankedFacts
<1>6. \A y \in Tree!Nodes \ us : side[y] = NULL /\ opp[y] = NULL
  BY RankedFacts
<1>7. ASSUME NEW y \in Tree!Nodes, side[y] = x \/ opp[y] = x
      PROVE  y = up[x] /\ y \in us /\ x # root
  <2>1. y \in us
    BY <1>1, <1>6, <1>7
  <2>2. up[x] = y
    BY <1>1, <1>3, <1>7, <2>1
  <2> QED BY <1>1, <1>5, <2>1, <2>2
<1>8. ASSUME x # root PROVE ~(side[up[x]] = x /\ opp[up[x]] = x)
  <2> SUFFICES ASSUME side[up[x]] = x, opp[up[x]] = x PROVE FALSE
    OBVIOUS
  <2>1. lo[x] = pos[up[x]] + 1 /\ hi[x] = pos[up[x]] - 1 /\ up[x] \in us
    BY <1>1, <1>3, <1>4, <1>8
  <2> QED BY <1>2, <2>1
<1> QED BY <1>4, <1>7, <1>8 DEF OneAbove

(* A node with at most one child is removed. *)
LEMMA DropFields ==
  ASSUME NEW r, NEW u, NEW l, NEW ri, NEW p, NEW n, NEW pos, NEW lo, NEW hi,
         Ranked(ri, l, p, u, r, KeyOfNode, n, pos, lo, hi),
         NEW a \in u, NEW c, c \in u \union {NULL}, c # a
  PROVE  /\ ReplacedLeft(r, l, p, a, c) = Cleared(l, a, c)
         /\ ReplacedRight(r, l, ri, p, a, c) = Cleared(ri, a, c)
         /\ ReplacedParent(p, a, c) = ClearedUp(p, a, c)
<1>1. u \subseteq Tree!Nodes /\ NULL \notin u /\ NULL \notin Tree!Nodes /\ a \in Tree!Nodes
  BY RankedFacts, TreeConstants
<1>2. /\ \A y \in Tree!Nodes : ri[y] = a \/ l[y] = a => y = p[a] /\ y \in u /\ a # r
      /\ a # r => p[a] \in u /\ (ri[p[a]] = a <=> l[p[a]] # a)
  BY HeldOnce DEF OneAbove
<1>3. l \in [Tree!Nodes -> u \union {NULL}] /\ ri \in [Tree!Nodes -> u \union {NULL}]
      /\ p \in [Tree!Nodes -> u \union {NULL}]
  BY DEF Ranked, Linked
<1>4. ReplacedLeft(r, l, p, a, c) = Cleared(l, a, c)
  <2>1. CASE a # r /\ l[p[a]] = a
    <3>1. ReplacedLeft(r, l, p, a, c) = Put(Put(l, p[a], c), a, NULL)
      BY <2>1 DEF ReplacedLeft
    <3> QED BY <1>1, <1>2, <1>3, <2>1, <3>1 DEF Cleared, Put
  <2>2. CASE ~(a # r /\ l[p[a]] = a)
    <3>1. ReplacedLeft(r, l, p, a, c) = Put(l, a, NULL)
      BY <2>2 DEF ReplacedLeft
    <3>2. \A y \in Tree!Nodes : l[y] # a
      BY <1>2, <2>2
    <3> QED BY <1>3, <3>1, <3>2 DEF Cleared, Put
  <2> QED BY <2>1, <2>2
<1>5. ReplacedRight(r, l, ri, p, a, c) = Cleared(ri, a, c)
  <2>1. CASE a # r /\ l[p[a]] # a
    <3>1. ReplacedRight(r, l, ri, p, a, c) = Put(Put(ri, p[a], c), a, NULL)
      BY <2>1 DEF ReplacedRight
    <3>2. ri[p[a]] = a /\ p[a] \in Tree!Nodes
      BY <1>1, <1>2, <2>1
    <3> QED BY <1>1, <1>2, <1>3, <3>1, <3>2 DEF Cleared, Put
  <2>2. CASE ~(a # r /\ l[p[a]] # a)
    <3>1. ReplacedRight(r, l, ri, p, a, c) = Put(ri, a, NULL)
      BY <2>2 DEF ReplacedRight
    <3>2. \A y \in Tree!Nodes : ri[y] # a
      BY <1>2, <2>2
    <3> QED BY <1>3, <3>1, <3>2 DEF Cleared, Put
  <2> QED BY <2>1, <2>2
<1>6. ReplacedParent(p, a, c) = ClearedUp(p, a, c)
  <2>1. CASE c = NULL
    <3>1. ReplacedParent(p, a, c) = Put(p, a, NULL)
      BY <2>1 DEF ReplacedParent, Tree!Store
    <3>2. \A y \in Tree!Nodes : y # c
      BY <1>1, <2>1
    <3> QED BY <1>3, <3>1, <3>2 DEF ClearedUp, Put
  <2>2. CASE c # NULL
    <3>1. ReplacedParent(p, a, c) = Put(Put(p, c, p[a]), a, NULL)
      BY <2>2 DEF ReplacedParent, Tree!Store, Put
    <3> QED BY <1>3, <3>1 DEF ClearedUp, Put
  <2> QED BY <2>1, <2>2
<1> QED BY <1>4, <1>5, <1>6

LEMMA DropGood ==
  ASSUME NEW t, TreeGood(t), NEW a \in t.used, NEW c,
         \/ t.left[a] = NULL /\ c = t.right[a]
         \/ t.right[a] = NULL /\ c = t.left[a]
  PROVE  TreeGood(Tree!Replace(t, a, c)) /\ Tree!Replace(t, a, c).used = t.used \ {a}
<1> DEFINE r == t.root
           u == t.used
           l == t.left
           ri == t.right
           p == t.parent
           r2 == ReplacedRoot(r, a, c)
           l2 == ReplacedLeft(r, l, p, a, c)
           ri2 == ReplacedRight(r, l, ri, p, a, c)
           p2 == ReplacedParent(p, a, c)
           u2 == u \ {a}
<1>1. t = TreeRecord(r, u, l, ri, p)
  BY DEF TreeGood, TreeRecords, TreeRecord
<1>2. KeyOfNode \in [Tree!Nodes -> Int] /\ NULL \notin Tree!Nodes
  BY TreeConstants
<1>3. PICK n, pos, lo, hi : Ranked(ri, l, p, u, r, KeyOfNode, n, pos, lo, hi)
  BY DEF TreeGood, Sorted
<1>4. c \in u \union {NULL} /\ c # a
  <2>1. l[a] \in u \union {NULL} /\ ri[a] \in u \union {NULL} /\ NULL \notin u /\ u \subseteq Tree!Nodes
    BY <1>3, RankedFacts
  <2>4. l[a] # a /\ ri[a] # a
    <3>1. pos[a] \in Int /\ lo[a] \in Int /\ hi[a] \in Int /\ lo[a] <= pos[a] /\ pos[a] <= hi[a]
      BY <1>3, RankedFacts
    <3>2. (ri[a] # NULL => lo[ri[a]] = pos[a] + 1) /\ (l[a] # NULL => hi[l[a]] = pos[a] - 1)
      BY <1>3, RankedFacts
    <3>3. a # NULL
      BY <2>1
    <3>4. ri[a] = a => lo[a] = pos[a] + 1
      BY <3>2, <3>3
    <3>5. l[a] = a => hi[a] = pos[a] - 1
      BY <3>2, <3>3
    <3> QED BY <3>1, <3>4, <3>5
  <2> QED BY <2>1, <2>4
<1> HIDE DEF r, u, l, ri, p
<1>5. a \in u /\ ((l[a] = NULL /\ c = ri[a]) \/ (ri[a] = NULL /\ c = l[a]))
  BY DEF u, l, ri
<1>6. l2 = Cleared(l, a, c) /\ ri2 = Cleared(ri, a, c) /\ p2 = ClearedUp(p, a, c)
  BY <1>3, <1>4, <1>5, DropFields
<1>7. r2 = IF r = a THEN c ELSE r
  BY DEF ReplacedRoot
<1>8. Sorted(Cleared(ri, a, c), Cleared(l, a, c), ClearedUp(p, a, c), u2, IF r = a THEN c ELSE r, KeyOfNode)
  <2>1. CASE l[a] = NULL /\ c = ri[a]
    <3>1. DroppedFrom(ri, l, p, u, r, KeyOfNode, pos, a)
      BY <1>2, <1>3, <1>5, <2>1, Dropped
    <3> QED BY <2>1, <3>1 DEF Sorted, DroppedFrom
  <2>2. CASE ri[a] = NULL /\ c = l[a]
    <3> DEFINE back == Turned(0, KeyOfNode)
               bpos == Turned(n + 1, pos)
               blo == Turned(n + 1, hi)
               bhi == Turned(n + 1, lo)
    <3>1. Ranked(l, ri, p, u, r, back, n, bpos, blo, bhi)
      BY <1>2, <1>3, TurnedRanked
    <3>2. back \in [Tree!Nodes -> Int]
      BY <1>2, TurnedBack
    <3> HIDE DEF back, bpos, blo, bhi
    <3>3. DroppedFrom(l, ri, p, u, r, back, bpos, a)
      BY <1>5, <2>2, <3>1, <3>2, Dropped
    <3>4. Sorted(Cleared(l, a, c), Cleared(ri, a, c), ClearedUp(p, a, c), u2, IF r = a THEN c ELSE r, back)
      BY <2>2, <3>3 DEF Sorted, DroppedFrom
    <3> QED BY <1>2, <3>4, TurnedSorted DEF back
  <2> QED BY <1>5, <2>1, <2>2
<1> HIDE DEF r2, l2, ri2, p2, u2
<1>9. TreeGood(TreeRecord(r2, u2, l2, ri2, p2))
  BY <1>6, <1>7, <1>8, GoodRecord
<1>10. Tree!Replace(t, a, c) = TreeRecord(r2, u2, l2, ri2, p2)
  BY <1>1, ReplaceParts DEF r2, u2, l2, ri2, p2
<1>11. TreeRecord(r2, u2, l2, ri2, p2).used = u2
  BY DEF TreeRecord
<1> QED BY <1>9, <1>10, <1>11 DEF u2, u

(* The node after one with two children takes its place. *)
TakenLeft(l, ri, p, a, x) ==
  IF x = ri[a] THEN Put(l, x, l[a]) ELSE Put(Put(l, p[x], ri[x]), x, l[a])
TakenRight(ri, a, x) == IF x = ri[a] THEN ri ELSE Put(ri, x, ri[a])
TakenParent(l, ri, p, a, x) ==
  IF x = ri[a] THEN Tree!Store(p, l[a], x)
  ELSE Tree!Store(Put(Tree!Store(p, ri[x], p[x]), ri[a], x), l[a], x)

LEMMA TakeOutParts ==
  ASSUME NEW r, NEW u, NEW l, NEW ri, NEW p, NEW a, NEW x, NEW t, t = TreeRecord(r, u, l, ri, p)
  PROVE  Tree!TakeOut(t, a, x)
           = TreeRecord(r, u, TakenLeft(l, ri, p, a, x), TakenRight(ri, a, x), TakenParent(l, ri, p, a, x))
<1> DEFINE l1 == Put(l, p[x], ri[x])
           ri1 == Put(ri, x, ri[a])
           p1 == Tree!Store(p, ri[x], p[x])
           p2 == Put(p1, ri[a], x)
           lifted == [t EXCEPT !.parent = Tree!Store(@, t.right[x], t.parent[x]),
                               !.left = [@ EXCEPT ![t.parent[x]] = t.right[x]],
                               !.right[x] = t.right[a]]
           apart == IF x = t.right[a] THEN t ELSE [lifted EXCEPT !.parent[t.right[a]] = x]
           la == IF x = ri[a] THEN l ELSE l1
           ria == IF x = ri[a] THEN ri ELSE ri1
           pa == IF x = ri[a] THEN p ELSE p2
           l3 == Put(la, x, l[a])
           p3 == Tree!Store(pa, l[a], x)
<1>1. t.root = r /\ t.used = u /\ t.left = l /\ t.right = ri /\ t.parent = p
  BY DEF TreeRecord
<1>2. lifted = Blanked(t, u, l1, ri1, p1)
  BY <1>1 DEF Blanked, Put, TreeRecord
<1>3. lifted = TreeRecord(r, u, l1, ri1, p1)
  <2> HIDE DEF lifted, l1, ri1, p1
  <2> QED BY <1>2, BlankedFields
<1> HIDE DEF lifted
<1>4. apart = TreeRecord(r, u, la, ria, pa)
  <2>1. CASE x = ri[a]
    <3>1. apart = t /\ la = l /\ ria = ri /\ pa = p
      BY <1>1, <2>1
    <3> HIDE DEF apart, la, ria, pa
    <3> QED BY <3>1
  <2>2. CASE x # ri[a]
    <3>1. apart = [lifted EXCEPT !.parent[ri[a]] = x] /\ la = l1 /\ ria = ri1 /\ pa = p2
      BY <1>1, <2>2
    <3> HIDE DEF apart, la, ria, pa, l1, ri1, p1
    <3>2. [lifted EXCEPT !.parent[ri[a]] = x] = TreeRecord(r, u, l1, ri1, p2)
      BY <1>3 DEF TreeRecord, Put
    <3> HIDE DEF p2
    <3> QED BY <3>1, <3>2
  <2> QED BY <2>1, <2>2
<1>5. Tree!TakeOut(t, a, x) = [apart EXCEPT !.left[x] = t.left[a], !.parent = Tree!Store(@, t.left[a], x)]
  BY DEF Tree!TakeOut, lifted
<1> HIDE DEF apart, la, ria, pa
<1>6. apart.left = la /\ apart.right = ria /\ apart.parent = pa /\ apart.used = u
  BY <1>4 DEF TreeRecord
<1>7. Tree!TakeOut(t, a, x) = Blanked(apart, u, l3, ria, p3)
  BY <1>1, <1>4, <1>5, <1>6 DEF Blanked, Put, TreeRecord
<1>8. Tree!TakeOut(t, a, x) = TreeRecord(r, u, l3, ria, p3)
  <2> HIDE DEF l3, p3
  <2> QED BY <1>4, <1>7, BlankedFields
<1>9. l3 = TakenLeft(l, ri, p, a, x)
  BY DEF TakenLeft, la
<1>10. ria = TakenRight(ri, a, x)
  BY DEF TakenRight, ria
<1>11. p3 = TakenParent(l, ri, p, a, x)
  BY DEF TakenParent, pa
<1> HIDE DEF l3, p3
<1> QED BY <1>8, <1>9, <1>10, <1>11

(* How a node with two children and the one after it lie *)
Followed(r, u, l, ri, p, a, x) ==
  /\ a \in u /\ x \in u /\ x # a /\ l[x] = NULL /\ x # r
  /\ l[a] \in u /\ ri[a] \in u /\ l[a] # ri[a] /\ l[a] # x /\ l[a] # a /\ ri[a] # a
  /\ p[l[a]] = a /\ p[ri[a]] = a /\ (ri[x] # NULL => p[ri[x]] = x)
  /\ ri[x] \notin {a, x, l[a], ri[a]}
  /\ \A y \in Tree!Nodes : p[y] = a => y = l[a] \/ y = ri[a]
  /\ \A y \in Tree!Nodes : l[y] = a \/ ri[y] = a => y = p[a] /\ a # r
  /\ \A y \in Tree!Nodes : l[y] = x \/ ri[y] = x => y = p[x]
  /\ x = ri[a] => \A y \in Tree!Nodes : l[y] # x
  /\ x # ri[a] => l[p[x]] = x /\ p[x] \in u /\ p[x] # a /\ p[x] # x /\ p[x] # p[a]
                  /\ \A y \in Tree!Nodes : ri[y] # x
  /\ a # r => p[a] \in u /\ p[a] # x /\ p[a] # a /\ (ri[p[a]] = a <=> l[p[a]] # a)

LEMMA FollowedIs ==
  ASSUME NEW r, NEW u, NEW l, NEW ri, NEW p, NEW n, NEW pos, NEW lo, NEW hi,
         Ranked(ri, l, p, u, r, KeyOfNode, n, pos, lo, hi),
         NEW a \in u, l[a] # NULL, ri[a] # NULL, NEW x \in u, l[x] = NULL, pos[x] = pos[a] + 1
  PROVE  Followed(r, u, l, ri, p, a, x)
<1>1. u \subseteq Tree!Nodes /\ NULL \notin u /\ NULL \notin Tree!Nodes /\ a \in Tree!Nodes /\ x \in Tree!Nodes
  BY RankedFacts, TreeConstants
<1>2. \A y \in u : /\ pos[y] \in Int /\ lo[y] \in Int /\ hi[y] \in Int /\ 1 <= lo[y]
                   /\ lo[y] <= pos[y] /\ pos[y] <= hi[y] /\ hi[y] <= n
  BY RankedFacts
<1>3. \A y \in u : /\ ri[y] \in u \union {NULL} /\ l[y] \in u \union {NULL}
                   /\ ri[y] # NULL => p[ri[y]] = y /\ lo[ri[y]] = pos[y] + 1
                   /\ l[y] = NULL => lo[y] = pos[y]
                   /\ l[y] # NULL => p[l[y]] = y /\ hi[l[y]] = pos[y] - 1
  BY RankedFacts
<1>4. \A y \in u : y # r => p[y] \in u /\ (ri[p[y]] = y \/ l[p[y]] = y)
  BY RankedFacts
<1>5. \A y \in Tree!Nodes \ u : p[y] = NULL
  BY RankedFacts
<1>6. /\ \A y \in Tree!Nodes : ri[y] = a \/ l[y] = a => y = p[a] /\ y \in u /\ a # r
      /\ a # r => p[a] \in u /\ (ri[p[a]] = a <=> l[p[a]] # a)
  BY HeldOnce DEF OneAbove
<1>7. /\ \A y \in Tree!Nodes : ri[y] = x \/ l[y] = x => y = p[x] /\ y \in u /\ x # r
      /\ x # r => p[x] \in u /\ (ri[p[x]] = x <=> l[p[x]] # x)
  BY HeldOnce DEF OneAbove
<1>8. \A y, z \in u : pos[y] = pos[z] => y = z
  BY DEF Ranked, Numbered
<1>9. r \in u => lo[r] = 1 /\ p[r] = NULL
  BY RankedFacts
<1>10. r \in u
  <2>1. r \in u \union {NULL} /\ (r = NULL => u = {})
    BY RankedFacts
  <2> QED BY <2>1
<1>11. x # a
  <2>1. pos[a] \in Int
    BY <1>2
  <2> QED BY <2>1
<1>12. l[a] \in u /\ ri[a] \in u /\ p[l[a]] = a /\ p[ri[a]] = a
       /\ hi[l[a]] = pos[a] - 1 /\ lo[ri[a]] = pos[a] + 1
  BY <1>3
<1>13. l[a] # x /\ l[a] # ri[a] /\ l[a] # a /\ ri[a] # a
  <2>1. pos[l[a]] < pos[a] /\ pos[ri[a]] > pos[a] /\ pos[x] > pos[a]
    BY <1>2, <1>12
  <2>2. pos[a] \in Int /\ pos[x] \in Int /\ pos[l[a]] \in Int /\ pos[ri[a]] \in Int
    BY <1>2, <1>12
  <2> QED BY <2>1, <2>2
<1>14. x # r
  <2>1. lo[x] = pos[a] + 1 /\ 1 <= pos[a] /\ pos[a] \in Int
    BY <1>2, <1>3
  <2> QED BY <1>9, <2>1
<1>15. ri[x] # NULL => p[ri[x]] = x /\ ri[x] \in u
  BY <1>3
<1>16. ri[x] \notin {a, x, l[a], ri[a]}
  <2>1. ri[x] # l[a] /\ ri[x] # ri[a]
    BY <1>1, <1>11, <1>12, <1>15
  <2>2. ri[x] # a /\ ri[x] # x
    <3>1. ri[x] # NULL => lo[ri[x]] = pos[x] + 1
      BY <1>3
    <3>2. lo[a] <= pos[a] /\ lo[x] <= pos[x] /\ lo[a] \in Int /\ lo[x] \in Int /\ pos[a] \in Int /\ pos[x] \in Int
      BY <1>2
    <3>3. a # NULL /\ x # NULL
      BY <1>1
    <3>4. ri[x] = a => lo[a] = pos[a] + 1 + 1
      BY <3>1, <3>3
    <3>5. ri[x] = x => lo[x] = pos[x] + 1
      BY <3>1, <3>3
    <3> QED BY <3>2, <3>4, <3>5
  <2> QED BY <2>1, <2>2
<1>17. ASSUME NEW y \in Tree!Nodes, p[y] = a PROVE y = l[a] \/ y = ri[a]
  <2>1. y \in u
    BY <1>1, <1>5, <1>17
  <2>2. y # r
    BY <1>1, <1>9, <1>10, <1>17
  <2> QED BY <1>4, <1>17, <2>1, <2>2
<1>18. x = ri[a] => \A y \in Tree!Nodes : l[y] # x
  <2> SUFFICES ASSUME x = ri[a], NEW y \in Tree!Nodes, l[y] = x PROVE FALSE
    OBVIOUS
  <2>1. y = p[x] /\ y = a
    BY <1>7, <1>12
  <2> QED BY <1>13, <2>1
<1>19. ASSUME x # ri[a]
       PROVE  l[p[x]] = x /\ p[x] \in u /\ p[x] # a /\ p[x] # x /\ p[x] # p[a]
              /\ \A y \in Tree!Nodes : ri[y] # x
  <2>1. p[x] \in u /\ (ri[p[x]] = x \/ l[p[x]] = x)
    BY <1>4, <1>14
  <2>2. p[x] # a
    BY <1>1, <1>13, <1>19, <2>1
  <2>3. ri[p[x]] # x
    <3> SUFFICES ASSUME ri[p[x]] = x PROVE FALSE
      OBVIOUS
    <3>1. lo[x] = pos[p[x]] + 1 /\ lo[x] = pos[x]
      BY <1>1, <1>3, <2>1
    <3>2. pos[p[x]] = pos[a]
      BY <1>2, <2>1, <3>1
    <3> QED BY <1>8, <2>1, <2>2, <3>2
  <2>4. l[p[x]] = x
    BY <2>1, <2>3
  <2>5. p[x] # x
    BY <1>1, <2>4
  <2>6. p[x] # p[a]
    <3> SUFFICES ASSUME p[x] = p[a] PROVE FALSE
      OBVIOUS
    <3>1. a # r /\ ri[p[a]] = a
      <4>1. a # r
        BY <1>1, <1>9, <2>1
      <4> QED BY <1>4, <1>11, <2>4, <4>1
    <3>2. lo[a] = pos[p[x]] + 1 /\ hi[x] = pos[p[x]] - 1
      BY <1>1, <1>3, <2>1, <2>4, <3>1
    <3>3. lo[a] <= pos[a] /\ pos[x] <= hi[x] /\ lo[a] \in Int /\ hi[x] \in Int /\ pos[a] \in Int /\ pos[p[x]] \in Int
      BY <1>2, <2>1
    <3> HIDE DEF Followed
    <3> QED BY <3>2, <3>3
  <2>7. ASSUME NEW y \in Tree!Nodes, ri[y] = x PROVE FALSE
    BY <1>7, <2>3, <2>7
  <2> QED BY <2>1, <2>2, <2>4, <2>5, <2>6, <2>7
<1>20. ASSUME a # r PROVE p[a] \in u /\ p[a] # x /\ p[a] # a /\ (ri[p[a]] = a <=> l[p[a]] # a)
  <2>1. p[a] \in u /\ (ri[p[a]] = a <=> l[p[a]] # a)
    BY <1>6, <1>20
  <2>2. p[a] # x
    BY <1>1, <1>16, <2>1
  <2>3. p[a] # a
    BY <1>13, <2>1
  <2> QED BY <2>1, <2>2, <2>3
<1>21. /\ \A y \in Tree!Nodes : l[y] = a \/ ri[y] = a => y = p[a] /\ a # r
       /\ \A y \in Tree!Nodes : l[y] = x \/ ri[y] = x => y = p[x]
  BY <1>6, <1>7
<1> QED BY <1>11, <1>12, <1>13, <1>14, <1>15, <1>16, <1>17, <1>18, <1>19, <1>20, <1>21 DEF Followed

(* With x taken out and put in the place of a, the fields are those of a   *)
(* tree without x in which x has got the place of a.                       *)
LEMMA TwoFields ==
  ASSUME NEW r, NEW u, NEW l, NEW ri, NEW p, NEW n, NEW pos, NEW lo, NEW hi,
         Ranked(ri, l, p, u, r, KeyOfNode, n, pos, lo, hi),
         NEW a \in u, NEW x \in u, Followed(r, u, l, ri, p, a, x),
         NEW tl, tl = TakenLeft(l, ri, p, a, x),
         NEW tr, tr = TakenRight(ri, a, x), NEW tp, tp = TakenParent(l, ri, p, a, x)
  PROVE  /\ ReplacedLeft(r, tl, tp, a, x) = Renamed(Cleared(l, x, ri[x]), a, x)
         /\ ReplacedRight(r, tl, tr, tp, a, x) = Renamed(Cleared(ri, x, ri[x]), a, x)
         /\ ReplacedParent(tp, a, x) = Renamed(ClearedUp(p, x, ri[x]), a, x)
<1>1. /\ u \subseteq Tree!Nodes /\ NULL \notin u /\ NULL \notin Tree!Nodes
      /\ a \in Tree!Nodes /\ x \in Tree!Nodes /\ a # NULL /\ x # NULL
  BY RankedFacts, TreeConstants
<1>2. l \in [Tree!Nodes -> u \union {NULL}] /\ ri \in [Tree!Nodes -> u \union {NULL}]
      /\ p \in [Tree!Nodes -> u \union {NULL}]
  BY DEF Ranked, Linked
<1>3. /\ x # a /\ l[x] = NULL /\ x # r
      /\ l[a] \in u /\ ri[a] \in u /\ l[a] # ri[a] /\ l[a] # x /\ l[a] # a /\ ri[a] # a
      /\ p[l[a]] = a /\ p[ri[a]] = a /\ (ri[x] # NULL => p[ri[x]] = x)
      /\ ri[x] \notin {a, x, l[a], ri[a]}
  BY DEF Followed
<1>4. /\ \A y \in Tree!Nodes : p[y] = a => y = l[a] \/ y = ri[a]
      /\ \A y \in Tree!Nodes : l[y] = a \/ ri[y] = a => y = p[a] /\ a # r
      /\ \A y \in Tree!Nodes : l[y] = x \/ ri[y] = x => y = p[x]
  BY DEF Followed
<1>5. /\ x = ri[a] => \A y \in Tree!Nodes : l[y] # x
      /\ x # ri[a] => l[p[x]] = x /\ p[x] \in u /\ p[x] # a /\ p[x] # x /\ p[x] # p[a]
                      /\ \A y \in Tree!Nodes : ri[y] # x
      /\ a # r => p[a] \in u /\ p[a] # x /\ p[a] # a /\ (ri[p[a]] = a <=> l[p[a]] # a)
  BY DEF Followed
<1>6. l[a] \in Tree!Nodes /\ ri[a] \in Tree!Nodes /\ l[a] # NULL /\ ri[a] # NULL
      /\ (ri[x] # NULL => ri[x] \in Tree!Nodes)
  BY <1>1, <1>2, <1>3
(* The fields with x taken out, node by node *)
<1>7. \A y \in Tree!Nodes : tl[y] = IF y = x THEN l[a]
                                   ELSE IF x # ri[a] /\ y = p[x] THEN ri[x] ELSE l[y]
  <2>1. CASE x = ri[a]
    BY <1>2, <2>1 DEF TakenLeft, Put
  <2>2. CASE x # ri[a]
    BY <1>2, <2>2 DEF TakenLeft, Put
  <2> QED BY <2>1, <2>2
<1>8. \A y \in Tree!Nodes : tr[y] = IF x # ri[a] /\ y = x THEN ri[a] ELSE ri[y]
  <2>1. CASE x = ri[a]
    BY <2>1 DEF TakenRight
  <2>2. CASE x # ri[a]
    BY <1>2, <2>2 DEF TakenRight, Put
  <2> QED BY <2>1, <2>2
<1>9. \A y \in Tree!Nodes : tp[y] = IF y = l[a] \/ (x # ri[a] /\ y = ri[a]) THEN x
                                   ELSE IF x # ri[a] /\ y = ri[x] THEN p[x] ELSE p[y]
  <2>1. CASE x = ri[a]
    BY <1>2, <1>6, <2>1 DEF TakenParent, Tree!Store
  <2>2. CASE x # ri[a]
    <3>1. CASE ri[x] = NULL
      <4>1. tp = Put(Put(p, ri[a], x), l[a], x)
        BY <1>6, <2>2, <3>1 DEF TakenParent, Tree!Store, Put
      <4>2. \A y \in Tree!Nodes : y # ri[x]
        BY <1>1, <3>1
      <4> QED BY <1>2, <2>2, <4>1, <4>2 DEF Put
    <3>2. CASE ri[x] # NULL
      <4>1. tp = Put(Put(Put(p, ri[x], p[x]), ri[a], x), l[a], x)
        BY <1>6, <2>2, <3>2 DEF TakenParent, Tree!Store, Put
      <4> QED BY <1>2, <2>2, <4>1 DEF Put
    <3> QED BY <3>1, <3>2
  <2> QED BY <2>1, <2>2
<1>10. /\ tl \in [Tree!Nodes -> u \union {NULL}] /\ tr \in [Tree!Nodes -> u \union {NULL}]
       /\ tp \in [Tree!Nodes -> u \union {NULL}]
  <2>1. DOMAIN tl = Tree!Nodes /\ tl = [y \in DOMAIN tl |-> tl[y]]
    BY <1>2 DEF TakenLeft, Put
  <2>2. DOMAIN tr = Tree!Nodes /\ tr = [y \in DOMAIN tr |-> tr[y]]
    BY <1>2 DEF TakenRight, Put
  <2>3. DOMAIN tp = Tree!Nodes /\ tp = [y \in DOMAIN tp |-> tp[y]]
    BY <1>2 DEF TakenParent, Put, Tree!Store
  <2>4. \A y \in Tree!Nodes : tl[y] \in u \union {NULL} /\ tr[y] \in u \union {NULL} /\ tp[y] \in u \union {NULL}
    BY <1>1, <1>2, <1>3, <1>7, <1>8, <1>9
  <2> QED BY <2>1, <2>2, <2>3, <2>4
<1>11. tp[a] = p[a]
  BY <1>1, <1>3, <1>9
<1>12. a # r => tl[p[a]] = l[p[a]] /\ p[a] \in Tree!Nodes
  BY <1>1, <1>5, <1>7
<1>13. ReplacedLeft(r, tl, tp, a, x) = Renamed(Cleared(l, x, ri[x]), a, x)
  <2> DEFINE f == ReplacedLeft(r, tl, tp, a, x)
             g == Renamed(Cleared(l, x, ri[x]), a, x)
  <2>1. DOMAIN f = Tree!Nodes /\ f = [y \in DOMAIN f |-> f[y]]
    BY <1>10 DEF ReplacedLeft, Put
  <2>2. DOMAIN g = Tree!Nodes /\ g = [y \in DOMAIN g |-> g[y]]
    BY DEF Renamed
  <2>3. ASSUME NEW y \in Tree!Nodes PROVE f[y] = g[y]
    <3>1. f[y] = IF y = a THEN NULL ELSE IF a # r /\ l[p[a]] = a /\ y = p[a] THEN x ELSE tl[y]
      <4>1. CASE a # r /\ l[p[a]] = a
        <5>1. f = Put(Put(tl, p[a], x), a, NULL)
          BY <1>11, <1>12, <4>1 DEF ReplacedLeft
        <5> HIDE DEF f
        <5> QED BY <1>10, <4>1, <5>1 DEF Put
      <4>2. CASE ~(a # r /\ l[p[a]] = a)
        <5>1. f = Put(tl, a, NULL)
          BY <1>11, <1>12, <4>2 DEF ReplacedLeft
        <5> HIDE DEF f
        <5> QED BY <1>10, <4>2, <5>1 DEF Put
      <4> QED BY <4>1, <4>2
    <3>2. g[y] = IF y = a THEN NULL ELSE IF y = x THEN l[a]
                 ELSE IF l[y] = x THEN ri[x] ELSE IF l[y] = a THEN x ELSE l[y]
      BY <1>1, <1>3 DEF Renamed, Cleared
    <3>3. a # r /\ l[p[a]] = a /\ y = p[a] <=> l[y] = a
      BY <1>4
    <3>4. l[y] = x <=> x # ri[a] /\ y = p[x]
      BY <1>4, <1>5
    <3> HIDE DEF f, g
    <3> QED BY <1>1, <1>3, <1>4, <1>5, <1>7, <3>1, <3>2, <3>3, <3>4
  <2> HIDE DEF f, g
  <2>4. f = g
    BY <2>1, <2>2, <2>3
  <2> QED BY <2>4 DEF f, g
<1>14. ReplacedRight(r, tl, tr, tp, a, x) = Renamed(Cleared(ri, x, ri[x]), a, x)
  <2> DEFINE f == ReplacedRight(r, tl, tr, tp, a, x)
             g == Renamed(Cleared(ri, x, ri[x]), a, x)
  <2>1. DOMAIN f = Tree!Nodes /\ f = [y \in DOMAIN f |-> f[y]]
    BY <1>10 DEF ReplacedRight, Put
  <2>2. DOMAIN g = Tree!Nodes /\ g = [y \in DOMAIN g |-> g[y]]
    BY DEF Renamed
  <2>3. ASSUME NEW y \in Tree!Nodes PROVE f[y] = g[y]
    <3>1. f[y] = IF y = a THEN NULL ELSE IF a # r /\ l[p[a]] # a /\ y = p[a] THEN x ELSE tr[y]
      <4>1. CASE a # r /\ l[p[a]] # a
        <5>1. f = Put(Put(tr, p[a], x), a, NULL)
          BY <1>11, <1>12, <4>1 DEF ReplacedRight
        <5> HIDE DEF f
        <5> QED BY <1>10, <4>1, <5>1 DEF Put
      <4>2. CASE ~(a # r /\ l[p[a]] # a)
        <5>1. f = Put(tr, a, NULL)
          BY <1>11, <1>12, <4>2 DEF ReplacedRight
        <5> HIDE DEF f
        <5> QED BY <1>10, <4>2, <5>1 DEF Put
      <4> QED BY <4>1, <4>2
    <3>2. g[y] = IF y = a THEN NULL
                 ELSE IF y = x THEN (IF ri[a] = x THEN ri[x] ELSE ri[a])
                 ELSE IF ri[y] = x THEN (IF ri[x] = a THEN x ELSE ri[x])
                 ELSE IF ri[y] = a THEN x ELSE ri[y]
      BY <1>1, <1>3 DEF Renamed, Cleared
    <3>3. a # r /\ l[p[a]] # a /\ y = p[a] <=> ri[y] = a
      BY <1>4, <1>5
    <3>4. y # a => ri[y] # x
      BY <1>3, <1>4, <1>5
    <3> HIDE DEF f, g
    <3> QED BY <1>1, <1>3, <1>4, <1>5, <1>8, <3>1, <3>2, <3>3, <3>4
  <2> HIDE DEF f, g
  <2>4. f = g
    BY <2>1, <2>2, <2>3
  <2> QED BY <2>4 DEF f, g
<1>15. ReplacedParent(tp, a, x) = Renamed(ClearedUp(p, x, ri[x]), a, x)
  <2> DEFINE f == ReplacedParent(tp, a, x)
             g == Renamed(ClearedUp(p, x, ri[x]), a, x)
  <2>0. f = Put(Put(tp, x, p[a]), a, NULL)
    BY <1>1, <1>11 DEF ReplacedParent, Tree!Store, Put
  <2>1. DOMAIN f = Tree!Nodes /\ f = [y \in DOMAIN f |-> f[y]]
    <3> HIDE DEF f
    <3> QED BY <1>10, <2>0 DEF Put
  <2>2. DOMAIN g = Tree!Nodes /\ g = [y \in DOMAIN g |-> g[y]]
    BY DEF Renamed
  <2>3. ASSUME NEW y \in Tree!Nodes PROVE f[y] = g[y]
    <3>1. f[y] = IF y = a THEN NULL ELSE IF y = x THEN p[a] ELSE tp[y]
      <4> HIDE DEF f
      <4> QED BY <1>10, <2>0 DEF Put
    <3>2. g[y] = IF y = a THEN NULL ELSE IF y = x THEN p[a]
                 ELSE IF y = ri[x] THEN (IF p[x] = a THEN x ELSE p[x])
                 ELSE IF p[y] = a THEN x ELSE p[y]
      BY <1>1, <1>3 DEF Renamed, ClearedUp
    <3>3. y # l[a] /\ y # ri[a] => p[y] # a
      BY <1>4
    <3>4. x = ri[a] => p[x] = a
      BY <1>3
    <3>5. y = ri[x] => ri[x] # NULL /\ p[y] = x
      BY <1>1, <1>3
    <3> HIDE DEF f, g
    <3> QED BY <1>1, <1>3, <1>5, <1>9, <3>1, <3>2, <3>3, <3>4, <3>5
  <2> HIDE DEF f, g
  <2>4. f = g
    BY <2>1, <2>2, <2>3
  <2> QED BY <2>4 DEF f, g
<1> QED BY <1>13, <1>14, <1>15

(* bscl_bstree_remove_item *)
LEMMA TwoGood ==
  ASSUME NEW t, TreeGood(t), NEW a \in t.used, t.left[a] # NULL, t.right[a] # NULL
  PROVE  TreeGood(Tree!RemoveItem(t, a)) /\ Tree!RemoveItem(t, a).used = t.used \ {a}
<1> DEFINE r == t.root
           u == t.used
           l == t.left
           ri == t.right
           p == t.parent
           x == Tree!Minimum(t, t.right[a])
           tl == TakenLeft(l, ri, p, a, x)
           tr == TakenRight(ri, a, x)
           tp == TakenParent(l, ri, p, a, x)
           r2 == ReplacedRoot(r, a, x)
           l2 == ReplacedLeft(r, tl, tp, a, x)
           ri2 == ReplacedRight(r, tl, tr, tp, a, x)
           p2 == ReplacedParent(tp, a, x)
           u2 == u \ {a}
           u1 == u \ {x}
           l1 == Cleared(l, x, ri[x])
           ri1 == Cleared(ri, x, ri[x])
           p1 == ClearedUp(p, x, ri[x])
           r1 == IF r = x THEN ri[x] ELSE r
<1>1. t = TreeRecord(r, u, l, ri, p)
  BY DEF TreeGood, TreeRecords, TreeRecord
<1>2. KeyOfNode \in [Tree!Nodes -> Int] /\ NULL \notin Tree!Nodes
  BY TreeConstants
<1>3. PICK n, pos, lo, hi : Ranked(ri, l, p, u, r, KeyOfNode, n, pos, lo, hi)
  BY DEF TreeGood, Sorted
<1>4. u \subseteq Tree!Nodes /\ NULL \notin u /\ ri[a] \in u /\ lo[ri[a]] = pos[a] + 1
  BY <1>3, RankedFacts
<1>5. x \in u /\ pos[x] = pos[a] + 1 /\ l[x] = NULL
  <2>1. x = Tree!Utmost(l, ri[a])
    BY DEF Tree!Minimum
  <2> HIDE DEF x
  <2> QED BY <1>3, <1>4, <2>1, UtmostIs
<1>6. Tree!RemoveItem(t, a) = Tree!Replace(Tree!TakeOut(t, a, x), a, x)
  BY DEF Tree!RemoveItem
<1> HIDE DEF r, u, l, ri, p, x
<1>7. a \in u /\ l[a] # NULL /\ ri[a] # NULL
  BY DEF u, l, ri
<1>8. Followed(r, u, l, ri, p, a, x)
  BY <1>3, <1>5, <1>7, FollowedIs
<1>9. x # a /\ x # r /\ x \in Tree!Nodes
  BY <1>4, <1>5, <1>8 DEF Followed
<1>10. l2 = Renamed(l1, a, x) /\ ri2 = Renamed(ri1, a, x) /\ p2 = Renamed(p1, a, x)
  BY <1>3, <1>5, <1>7, <1>8, TwoFields
<1>11. r1 = r /\ r2 = (IF r1 = a THEN x ELSE r1)
  BY <1>9 DEF ReplacedRoot
<1>12. DroppedFrom(ri, l, p, u, r, KeyOfNode, pos, x)
  BY <1>2, <1>3, <1>5, Dropped
<1>13. PICK n1, pos1, lo1, hi1 :
         Ranked(ri1, l1, p1, u1, r1, KeyOfNode, n1, pos1, lo1, hi1) /\ SameOrder(u1, pos, pos1)
  BY <1>12 DEF DroppedFrom
<1>14. /\ \A y \in u : pos[y] \in Int
       /\ \A y, z \in u : pos[y] < pos[z] => KeyOfNode[y] <= KeyOfNode[z]
       /\ \A y, z \in u : pos[y] = pos[z] => y = z
  BY <1>3, RankedFacts DEF Ranked, Numbered
<1>15. ASSUME NEW y \in u1, pos1[y] < pos1[a] PROVE KeyOfNode[y] <= KeyOfNode[x]
  <2>1. pos[y] < pos[a] /\ y \in u
    BY <1>7, <1>9, <1>13, <1>15 DEF SameOrder
  <2>2. pos[y] < pos[x]
    BY <1>5, <1>7, <1>14, <2>1
  <2> QED BY <1>5, <1>14, <2>1, <2>2
<1>16. ASSUME NEW y \in u1, pos1[a] < pos1[y] PROVE KeyOfNode[x] <= KeyOfNode[y]
  <2>1. pos[a] < pos[y] /\ y \in u /\ y # x
    BY <1>7, <1>9, <1>13, <1>16 DEF SameOrder
  <2>2. pos[x] < pos[y]
    <3>1. pos[y] # pos[x]
      BY <1>5, <1>14, <2>1
    <3> QED BY <1>5, <1>7, <1>14, <2>1, <3>1
  <2> QED BY <1>5, <1>14, <2>1, <2>2
<1>17. (u1 \ {a}) \union {x} = u2 /\ a \in u1 /\ x \notin u1
  BY <1>5, <1>7, <1>9
<1>18. Sorted(ri2, l2, p2, u2, r2, KeyOfNode)
  <2> HIDE DEF u1, u2, l1, ri1, p1, r1, l2, ri2, p2, r2
  <2>1. Sorted(Renamed(ri1, a, x), Renamed(l1, a, x), Renamed(p1, a, x), (u1 \ {a}) \union {x},
               IF r1 = a THEN x ELSE r1, KeyOfNode)
    BY <1>2, <1>9, <1>13, <1>15, <1>16, <1>17, Exchanged
  <2> QED BY <1>10, <1>11, <1>17, <2>1
<1> HIDE DEF tl, tr, tp, r2, l2, ri2, p2, u2
<1>19. TreeGood(TreeRecord(r2, u2, l2, ri2, p2))
  BY <1>18, GoodRecord
<1>20. Tree!TakeOut(t, a, x) = TreeRecord(r, u, tl, tr, tp)
  BY <1>1, TakeOutParts DEF tl, tr, tp
<1>21. Tree!RemoveItem(t, a) = TreeRecord(r2, u2, l2, ri2, p2)
  <2>1. Tree!Replace(Tree!TakeOut(t, a, x), a, x) = TreeRecord(r2, u2, l2, ri2, p2)
    BY <1>20, ReplaceParts DEF r2, u2, l2, ri2, p2
  <2> QED BY <1>6, <2>1
<1>22. TreeRecord(r2, u2, l2, ri2, p2).used = u2
  BY DEF TreeRecord
<1> QED BY <1>19, <1>21, <1>22 DEF u2, u

LEMMA RemoveGood ==
  ASSUME NEW t, TreeGood(t), NEW a \in t.used
  PROVE  TreeGood(Tree!RemoveItem(t, a)) /\ Tree!RemoveItem(t, a).used = t.used \ {a}
<1>1. CASE t.left[a] = NULL
  <2>1. Tree!RemoveItem(t, a) = Tree!Replace(t, a, t.right[a])
    BY <1>1 DEF Tree!RemoveItem
  <2> QED BY <1>1, <2>1, DropGood
<1>2. CASE t.left[a] # NULL /\ t.right[a] = NULL
  <2>1. Tree!RemoveItem(t, a) = Tree!Replace(t, a, t.left[a])
    BY <1>2 DEF Tree!RemoveItem
  <2> QED BY <1>2, <2>1, DropGood
<1>3. CASE t.left[a] # NULL /\ t.right[a] # NULL
  BY <1>3, TwoGood
<1> QED BY <1>1, <1>2, <1>3

(* bscl_bstree_remove *)
OfKey(us, k) == {x \in us : Tree!KeyOf(x) = k}
NotOfKey(us, k) == {x \in us : Tree!KeyOf(x) # k}

LEMMA FewOfKey ==
  ASSUME NEW us, us \subseteq Tree!Nodes, NEW k
  PROVE  /\ IsFiniteSet(OfKey(us, k)) /\ Cardinality(OfKey(us, k)) \in Nat
         /\ Cardinality(OfKey(us, k)) <= Copies
<1> DEFINE f == [i \in 1 .. Copies |-> <<k, i>>]
           T == {<<k, i>> : i \in 1 .. Copies}
<1>1. Copies \in Nat /\ Copies # 0
  BY TreeConstants
<1>2. IsFiniteSet(1 .. Copies) /\ Cardinality(1 .. Copies) = Copies
  BY <1>1, FS_Interval
<1>3. f \in Surjection(1 .. Copies, T)
  BY DEF Surjection
<1>4. IsFiniteSet(T) /\ Cardinality(T) <= Copies
  <2> HIDE DEF f, T
  <2> QED BY <1>2, <1>3, FS_Surjection
<1>5. OfKey(us, k) \in SUBSET T
  BY DEF OfKey, Tree!Nodes, Tree!KeyOf
<1> HIDE DEF T
<1>6. IsFiniteSet(OfKey(us, k)) /\ Cardinality(OfKey(us, k)) <= Cardinality(T)
  BY <1>4, <1>5, FS_Subset
<1>7. Cardinality(OfKey(us, k)) \in Nat /\ Cardinality(T) \in Nat
  BY <1>4, <1>6, FS_CardinalityType
<1> QED BY <1>1, <1>4, <1>6, <1>7

LEMMA FindGood ==
  ASSUME NEW t, TreeGood(t), NEW k \in Int
  PROVE  \/ Tree!Find(t, k) = NULL /\ OfKey(t.used, k) = {}
         \/ Tree!Find(t, k) \in OfKey(t.used, k) /\ Tree!Find(t, k) # NULL
<1>1. PICK n, pos, lo, hi : Ranked(t.right, t.left, t.parent, t.used, t.root, KeyOfNode, n, pos, lo, hi)
  BY DEF TreeGood, Sorted
<1>2. NULL \notin t.used
  BY <1>1, RankedFacts
<1>3. \/ Tree!Find(t, k) = NULL /\ \A y \in t.used : Tree!KeyOf(y) # k
      \/ Tree!Find(t, k) \in t.used /\ Tree!KeyOf(Tree!Find(t, k)) = k
  BY <1>1, FindIs
<1> QED BY <1>2, <1>3 DEF OfKey

LEMMA GoodNodes ==
  ASSUME NEW t, TreeGood(t)
  PROVE  t.used \subseteq Tree!Nodes /\ t \in TreeRecords
BY DEF TreeGood, TreeRecords

LEMMA RemoveAllGood ==
  ASSUME NEW t, TreeGood(t), NEW k \in TreeKeys
  PROVE  TreeGood(Tree!RemoveAll(t, k)) /\ Tree!RemoveAll(t, k).used = NotOfKey(t.used, k)
<1> DEFINE S == {s \in TreeRecords : TreeGood(s)}
           one(s) == IF Tree!Find(s, k) = NULL THEN s ELSE Tree!RemoveItem(s, Tree!Find(s, k))
           steps(g) == [n \in 0 .. Copies |-> IF n = 0 THEN t
                          ELSE IF Tree!Find(g[n - 1], k) = NULL THEN g[n - 1]
                          ELSE Tree!RemoveItem(g[n - 1], Tree!Find(g[n - 1], k))]
           after == CHOOSE g : g = steps(g)
           step == [i \in 1 .. Copies |-> [s \in S |-> one(s)]]
<1>1. k \in Int /\ Copies \in Nat /\ Copies # 0
  BY TreeConstants
<1>2. \A s : s \in S <=> TreeGood(s)
  BY GoodNodes
<1>3. ASSUME NEW s \in S
      PROVE  /\ one(s) \in S
             /\ \/ one(s) = s /\ OfKey(s.used, k) = {}
                \/ \E x \in OfKey(s.used, k) : one(s).used = s.used \ {x}
  <2>1. TreeGood(s)
    BY <1>2
  <2>2. CASE Tree!Find(s, k) = NULL
    <3>1. OfKey(s.used, k) = {}
      BY <1>1, <2>1, <2>2, FindGood
    <3> QED BY <2>2, <3>1
  <2>3. CASE Tree!Find(s, k) # NULL
    <3>1. Tree!Find(s, k) \in OfKey(s.used, k)
      BY <1>1, <2>1, <2>3, FindGood
    <3>2. Tree!Find(s, k) \in s.used
      BY <3>1 DEF OfKey
    <3>3. TreeGood(Tree!RemoveItem(s, Tree!Find(s, k)))
          /\ Tree!RemoveItem(s, Tree!Find(s, k)).used = s.used \ {Tree!Find(s, k)}
      BY <2>1, <3>2, RemoveGood
    <3>4. one(s) = Tree!RemoveItem(s, Tree!Find(s, k))
      BY <2>3
    <3> HIDE DEF one, S
    <3> QED BY <1>2, <3>1, <3>3, <3>4
  <2> QED BY <2>2, <2>3
<1>4. t \in S
  BY <1>2
<1> HIDE DEF S
<1>5. step \in [1 .. Copies -> [S -> S]]
  <2> HIDE DEF one
  <2> QED BY <1>3
<1>6. \E g : g = steps(g)
  <2>1. PICK g : Recursive(g, S, t, Copies, step)
    <3> HIDE DEF step
    <3> QED BY <1>1, <1>4, <1>5, Recursion
  <2>2. ASSUME NEW n \in 0 .. Copies
        PROVE  g[n] = IF n = 0 THEN t ELSE one(g[n - 1])
    <3>1. CASE n = 0
      BY <2>1, <3>1 DEF Recursive
    <3>2. CASE n # 0
      <4>1. n \in 1 .. Copies /\ n - 1 \in 0 .. Copies
        BY <1>1, <3>2
      <4>2. g[n] = step[n][g[n - 1]] /\ g[n - 1] \in S
        BY <2>1, <4>1 DEF Recursive
      <4>3. step[n][g[n - 1]] = one(g[n - 1])
        <5> HIDE DEF one
        <5> QED BY <4>1, <4>2
      <4> HIDE DEF step, one
      <4> QED BY <3>2, <4>2, <4>3
    <3> QED BY <3>1, <3>2
  <2>3. g \in [0 .. Copies -> S]
    BY <2>1 DEF Recursive
  <2>4. g = steps(g)
    BY <2>2, <2>3
  <2> HIDE DEF steps
  <2> QED BY <2>4
<1>7. after = steps(after)
  <2> HIDE DEF steps
  <2> QED BY <1>6
<1>8. Tree!RemoveAll(t, k) = after[Copies]
  BY DEF Tree!RemoveAll
<1> HIDE DEF after, step
<1>9. after[0] = t /\ \A n \in 1 .. Copies : after[n] = one(after[n - 1])
  <2>1. 0 \in 0 .. Copies
    BY <1>1
  <2>2. after[0] = t
    BY <1>7, <2>1
  <2>3. ASSUME NEW n \in 1 .. Copies PROVE after[n] = one(after[n - 1])
    <3>1. n \in 0 .. Copies /\ n # 0
      BY <1>1
    <3> QED BY <1>7, <3>1
  <2> QED BY <2>2, <2>3
<1> DEFINE Done(n) == /\ after[n] \in S
                      /\ NotOfKey(after[n].used, k) = NotOfKey(t.used, k)
                      /\ Cardinality(OfKey(after[n].used, k)) <= Copies - n
           H == {n \in 0 .. Copies : Done(n)}
<1> HIDE DEF steps, one
<1>10. 0 \in H
  <2>1. Cardinality(OfKey(t.used, k)) <= Copies
    BY FewOfKey, GoodNodes
  <2>2. Copies - 0 = Copies /\ 0 \in 0 .. Copies
    BY <1>1
  <2> QED BY <1>4, <1>9, <2>1, <2>2
<1>11. ASSUME NEW n \in 1 .. Copies, n - 1 \in H PROVE n \in H
  <2> DEFINE s == after[n - 1]
             s2 == after[n]
  <2>1. Done(n - 1)
    BY <1>11
  <2>2. s2 = one(s) /\ s \in S
    BY <1>9, <2>1
  <2>3. TreeGood(s) /\ s.used \subseteq Tree!Nodes
    BY <1>2, <2>2, GoodNodes
  <2>4. /\ IsFiniteSet(OfKey(s.used, k)) /\ Cardinality(OfKey(s.used, k)) \in Nat
    BY <2>3, FewOfKey
  <2>5. s2 \in S
    BY <1>3, <2>2
  <2>6. /\ NotOfKey(s2.used, k) = NotOfKey(s.used, k)
        /\ Cardinality(OfKey(s2.used, k)) <= Copies - n
    <3>1. CASE s2 = s /\ OfKey(s.used, k) = {}
      <4>1. Cardinality(OfKey(s2.used, k)) = 0
        BY <3>1, FS_EmptySet
      <4> QED BY <1>1, <3>1, <4>1
    <3>2. CASE \E x \in OfKey(s.used, k) : s2.used = s.used \ {x}
      <4>1. PICK x \in OfKey(s.used, k) : s2.used = s.used \ {x}
        BY <3>2
      <4>2. OfKey(s2.used, k) = OfKey(s.used, k) \ {x}
        BY <4>1 DEF OfKey
      <4>3. NotOfKey(s2.used, k) = NotOfKey(s.used, k)
        BY <4>1 DEF OfKey, NotOfKey
      <4>4. Cardinality(OfKey(s2.used, k)) = Cardinality(OfKey(s.used, k)) - 1
        BY <2>4, <4>1, <4>2, FS_RemoveElement
      <4>5. Cardinality(OfKey(s.used, k)) <= Copies - (n - 1)
        BY <2>1
      <4> HIDE DEF s, s2
      <4> QED BY <1>1, <2>4, <4>3, <4>4, <4>5
    <3> QED BY <1>3, <2>2, <3>1, <3>2
  <2>7. NotOfKey(s.used, k) = NotOfKey(t.used, k)
    BY <2>1
  <2>8. Done(n)
    BY <2>5, <2>6, <2>7
  <2>9. n \in 0 .. Copies
    BY <1>1
  <2> HIDE DEF Done
  <2> QED BY <2>8, <2>9
<1>12. Done(Copies)
  <2> HIDE DEF Done
  <2>1. 0 .. Copies \subseteq H
    <3> HIDE DEF H
    <3> QED BY <1>1, <1>10, <1>11, UpTo
  <2>2. Copies \in 0 .. Copies
    BY <1>1
  <2> QED BY <2>1, <2>2
<1>13. TreeGood(after[Copies])
  BY <1>2, <1>12
<1>14. OfKey(after[Copies].used, k) = {}
  <2>1. after[Copies].used \subseteq Tree!Nodes
    BY <1>13, GoodNodes
  <2>2. IsFiniteSet(OfKey(after[Copies].used, k)) /\ Cardinality(OfKey(after[Copies].used, k)) \in Nat
    BY <2>1, FewOfKey
  <2>3. Cardinality(OfKey(after[Copies].used, k)) = 0
    BY <1>1, <1>12, <2>2
  <2> QED BY <2>2, <2>3, FS_EmptySet
<1>15. after[Copies].used = NotOfKey(after[Copies].used, k)
  BY <1>14 DEF OfKey, NotOfKey
<1> QED BY <1>8, <1>12, <1>13, <1>15

TreeInv(t, c) == TreeGood(t) /\ c = [k \in TreeKeys |-> Cardinality(OfKey(t.used, k))]

LEMMA OfKeyAdded ==
  ASSUME NEW us, us \subseteq Tree!Nodes, NEW x, x \notin us, NEW k
  PROVE  Cardinality(OfKey(us \union {x}, k))
           = IF Tree!KeyOf(x) = k THEN Cardinality(OfKey(us, k)) + 1 ELSE Cardinality(OfKey(us, k))
<1>1. IsFiniteSet(OfKey(us, k)) /\ x \notin OfKey(us, k)
  BY FewOfKey DEF OfKey
<1>2. CASE Tree!KeyOf(x) = k
  <2>1. OfKey(us \union {x}, k) = OfKey(us, k) \union {x}
    BY <1>2 DEF OfKey
  <2> QED BY <1>1, <1>2, <2>1, FS_AddElement
<1>3. CASE Tree!KeyOf(x) # k
  <2>1. OfKey(us \union {x}, k) = OfKey(us, k)
    BY <1>3 DEF OfKey
  <2> QED BY <1>3, <2>1
<1> QED BY <1>2, <1>3

LEMMA TreeStarts == Tree!Init => TreeInv(object, ghost)
<1> SUFFICES ASSUME NEW k \in TreeKeys, object = Tree!NewTree(k),
                    ghost = [j \in TreeKeys |-> IF j = k THEN 1 ELSE 0]
             PROVE  TreeInv(object, ghost)
  BY DEF Tree!Init
<1> DEFINE x == <<k, 1>>
           none == [y \in Tree!Nodes |-> NULL]
           one == [y \in Tree!Nodes |-> 1]
<1>1. x \in Tree!Nodes /\ Tree!KeyOf(x) = k /\ NULL \notin Tree!Nodes
  <2>1. 1 \in 1 .. Copies /\ NULL \notin Tree!Nodes
    BY TreeConstants
  <2> QED BY <2>1 DEF Tree!Nodes, Tree!KeyOf
<1>2. object = TreeRecord(x, {x}, none, none, none)
  BY DEF Tree!NewTree, TreeRecord
<1> HIDE DEF x
<1>3. Ranked(none, none, none, {x}, x, KeyOfNode, 1, one, one, one)
  <2>0. \A y \in Tree!Nodes : none[y] = NULL /\ one[y] = 1
    OBVIOUS
  <2>1. Linked(none, none, none, {x}, x)
    BY <1>1 DEF Linked
  <2>2. Numbered({x}, 1, one, KeyOfNode)
    <3>1. one \in [Tree!Nodes -> Int]
      OBVIOUS
    <3>2. \A i \in 1 .. 1 : i = 1
      OBVIOUS
    <3> HIDE DEF one, none
    <3> QED BY <1>1, <2>0, <3>1, <3>2 DEF Numbered
  <2>3. Spanned(none, none, none, {x}, x, 1, one, one, one)
    <3>1. one \in [Tree!Nodes -> Int]
      OBVIOUS
    <3>2. x # NULL
      BY <1>1
    <3> HIDE DEF one, none
    <3> QED BY <1>1, <2>0, <3>1, <3>2 DEF Spanned, Below
  <2> QED BY <2>1, <2>2, <2>3 DEF Ranked
<1>4. TreeGood(object)
  BY <1>2, <1>3, GoodRecord DEF Sorted
<1>5. object.used = {x}
  BY <1>2 DEF TreeRecord
<1>6. ASSUME NEW j \in TreeKeys PROVE Cardinality(OfKey({x}, j)) = IF j = k THEN 1 ELSE 0
  <2>1. Cardinality({}) = 0 /\ OfKey({}, j) = {}
    BY FS_EmptySet DEF OfKey
  <2>2. {} \union {x} = {x} /\ {} \subseteq Tree!Nodes /\ x \notin {}
    OBVIOUS
  <2>3. Cardinality(OfKey({} \union {x}, j))
          = IF Tree!KeyOf(x) = j THEN Cardinality(OfKey({}, j)) + 1 ELSE Cardinality(OfKey({}, j))
    BY <2>2, OfKeyAdded
  <2> QED BY <1>1, <2>1, <2>2, <2>3
<1>7. ghost = [j \in TreeKeys |-> Cardinality(OfKey(object.used, j))]
  BY <1>5, <1>6
<1> QED BY <1>4, <1>7 DEF TreeInv

LEMMA InsertKeeps ==
  ASSUME NEW t, NEW c, TreeInv(t, c), NEW k \in TreeKeys, t.root # NULL, Tree!Unused(t, k) # {}
  PROVE  TreeInv(Tree!InsertItem(t, k), [c EXCEPT ![k] = @ + 1])
<1> DEFINE x == Tree!Fresh(t, k)
           t2 == Tree!InsertItem(t, k)
           c2 == [c EXCEPT ![k] = @ + 1]
<1>1. TreeGood(t) /\ c = [j \in TreeKeys |-> Cardinality(OfKey(t.used, j))]
  BY DEF TreeInv
<1>2. TreeGood(t2) /\ t2.used = t.used \union {x}
  BY <1>1, InsertGood
<1>3. x \notin t.used /\ Tree!KeyOf(x) = k /\ t.used \subseteq Tree!Nodes
  BY <1>1, FreshIs, GoodNodes
<1> HIDE DEF x, t2
<1>4. ASSUME NEW j \in TreeKeys PROVE c2[j] = Cardinality(OfKey(t2.used, j))
  <2>1. Cardinality(OfKey(t2.used, j))
          = IF k = j THEN Cardinality(OfKey(t.used, j)) + 1 ELSE Cardinality(OfKey(t.used, j))
    BY <1>2, <1>3, OfKeyAdded
  <2>2. c2[j] = IF j = k THEN c[j] + 1 ELSE c[j]
    BY <1>1
  <2>3. c[j] = Cardinality(OfKey(t.used, j))
    BY <1>1
  <2> HIDE DEF c2
  <2> QED BY <2>1, <2>2, <2>3
<1>5. c2 = [j \in TreeKeys |-> Cardinality(OfKey(t2.used, j))]
  <2>1. DOMAIN c2 = TreeKeys /\ c2 = [j \in DOMAIN c2 |-> c2[j]]
    BY <1>1
  <2> HIDE DEF c2
  <2> QED BY <1>4, <2>1
<1> QED BY <1>2, <1>5 DEF TreeInv, t2

LEMMA RemoveKeeps ==
  ASSUME NEW t, NEW c, TreeInv(t, c), NEW k \in TreeKeys
  PROVE  TreeInv(Tree!RemoveAll(t, k), [c EXCEPT ![k] = 0])
<1> DEFINE t2 == Tree!RemoveAll(t, k)
           c2 == [c EXCEPT ![k] = 0]
<1>1. TreeGood(t) /\ c = [j \in TreeKeys |-> Cardinality(OfKey(t.used, j))]
  BY DEF TreeInv
<1>2. TreeGood(t2) /\ t2.used = NotOfKey(t.used, k)
  BY <1>1, RemoveAllGood
<1> HIDE DEF t2
<1>3. ASSUME NEW j \in TreeKeys PROVE c2[j] = Cardinality(OfKey(t2.used, j))
  <2>1. c2[j] = IF j = k THEN 0 ELSE Cardinality(OfKey(t.used, j))
    BY <1>1
  <2>2. CASE j = k
    <3>1. OfKey(t2.used, j) = {}
      BY <1>2, <2>2 DEF OfKey, NotOfKey
    <3> QED BY <2>1, <2>2, <3>1, FS_EmptySet
  <2>3. CASE j # k
    <3>1. OfKey(t2.used, j) = OfKey(t.used, j)
      BY <1>2, <2>3 DEF OfKey, NotOfKey
    <3> QED BY <2>1, <2>3, <3>1
  <2> QED BY <2>2, <2>3
<1>4. c2 = [j \in TreeKeys |-> Cardinality(OfKey(t2.used, j))]
  <2>1. DOMAIN c2 = TreeKeys /\ c2 = [j \in DOMAIN c2 |-> c2[j]]
    BY <1>1
  <2> HIDE DEF c2
  <2> QED BY <1>3, <2>1
<1> QED BY <1>2, <1>4 DEF TreeInv, t2

LEMMA TreeStep == TreeInv(object, ghost) /\ Tree!Next => TreeInv(object', ghost')
<1> SUFFICES ASSUME TreeInv(object, ghost), NEW k \in TreeKeys, Tree!Insert(k) \/ Tree!Remove(k)
             PROVE  TreeInv(object', ghost')
  BY DEF Tree!Next
<1>1. CASE Tree!Insert(k)
  <2>1. /\ object.root # NULL /\ Tree!Unused(object, k) # {}
        /\ object' = Tree!InsertItem(object, k) /\ ghost' = [ghost EXCEPT ![k] = @ + 1]
    BY <1>1 DEF Tree!Insert
  <2>2. TreeInv(Tree!InsertItem(object, k), [ghost EXCEPT ![k] = @ + 1])
    BY <2>1, InsertKeeps
  <2> QED BY <2>1, <2>2
<1>2. CASE Tree!Remove(k)
  <2>1. object' = Tree!RemoveAll(object, k) /\ ghost' = [ghost EXCEPT ![k] = 0]
    BY <1>2 DEF Tree!Remove
  <2>2. TreeInv(Tree!RemoveAll(object, k), [ghost EXCEPT ![k] = 0])
    BY RemoveKeeps
  <2> QED BY <2>1, <2>2
<1> QED BY <1>1, <1>2

LEMMA FindImplied == TreeInv(object, ghost) => Tree!FindHolds
<1> SUFFICES ASSUME TreeInv(object, ghost), NEW k \in TreeKeys
             PROVE  ghost[k] > 0 <=> Tree!Find(object, k) # NULL
  BY DEF Tree!FindHolds
<1>1. TreeGood(object) /\ ghost[k] = Cardinality(OfKey(object.used, k))
  BY DEF TreeInv
<1>2. k \in Int
  BY TreeConstants
<1>3. IsFiniteSet(OfKey(object.used, k)) /\ Cardinality(OfKey(object.used, k)) \in Nat
  BY <1>1, FewOfKey, GoodNodes
<1>4. Cardinality(OfKey(object.used, k)) = 0 <=> OfKey(object.used, k) = {}
  BY <1>3, FS_EmptySet
<1>5. Tree!Find(object, k) = NULL <=> OfKey(object.used, k) = {}
  BY <1>1, <1>2, FindGood
<1> QED BY <1>1, <1>3, <1>4, <1>5

(* The walks from one neighbour to the next *)
LEMMA TreeCardinality == \A S : Tree!Cardinality(S) = Cardinality(S)
BY DEF Tree!Cardinality, Cardinality, Tree!IsFiniteSet, IsFiniteSet

TreeWalk(side, opp, up, root, n) ==
  LET at[i \in 1 .. n + 1] ==
        IF i = 1 THEN Tree!Utmost(opp, root)
        ELSE IF at[i - 1] = NULL THEN NULL ELSE Tree!Neighbour(side, opp, up, at[i - 1])
      met == {i \in 1 .. n + 1 : at[i] # NULL}
  IN  [i \in 1 .. Tree!Cardinality(met) |-> at[i]]

NodesInOrder(us, pos, n) == [i \in 1 .. n |-> Nth(us, pos, i)]

LEMMA TreeWalkIs ==
  ASSUME NEW side, NEW opp, NEW up, NEW us, NEW root, NEW key,
         NEW n, NEW pos, NEW lo, NEW hi, Ranked(side, opp, up, us, root, key, n, pos, lo, hi)
  PROVE  TreeWalk(side, opp, up, root, n) = NodesInOrder(us, pos, n)
<1> DEFINE f == [i \in 1 .. n + 1 |-> IF i <= n THEN Nth(us, pos, i) ELSE NULL]
           steps(g) == [i \in 1 .. n + 1 |->
                          IF i = 1 THEN Tree!Utmost(opp, root)
                          ELSE IF g[i - 1] = NULL THEN NULL ELSE Tree!Neighbour(side, opp, up, g[i - 1])]
           at == CHOOSE g : g = steps(g)
           met == {i \in 1 .. n + 1 : at[i] # NULL}
<1>1. Numbered(us, n, pos, key) /\ n \in Nat /\ us \subseteq Tree!Nodes /\ NULL \notin us
      /\ root \in us \union {NULL}
  BY RankedFacts DEF Ranked
<1>2. /\ \A i \in 1 .. n : Nth(us, pos, i) \in us /\ pos[Nth(us, pos, i)] = i
      /\ \A x \in us : Nth(us, pos, pos[x]) = x
  BY <1>1, NthFacts
<1>3. f = steps(f)
  <2>1. ASSUME NEW i \in 1 .. n + 1
        PROVE  f[i] = IF i = 1 THEN Tree!Utmost(opp, root)
                      ELSE IF f[i - 1] = NULL THEN NULL ELSE Tree!Neighbour(side, opp, up, f[i - 1])
    <3>1. CASE i = 1 /\ root = NULL
      <4>1. n = 0
        BY <3>1, RankedFacts
      <4>2. Tree!Utmost(opp, root) = NULL
        BY <3>1 DEF Tree!Utmost
      <4>3. f[i] = NULL
        BY <3>1, <4>1
      <4> HIDE DEF f
      <4> QED BY <3>1, <4>2, <4>3
    <3>2. CASE i = 1 /\ root # NULL
      <4>1. root \in us /\ lo[root] = 1 /\ hi[root] = n /\ lo[root] <= hi[root]
        <5>1. root \in us
          BY <1>1, <3>2
        <5>2. lo[root] = 1 /\ hi[root] = n
          BY <5>1, RankedFacts
        <5>3. /\ lo[root] \in Int /\ pos[root] \in Int /\ hi[root] \in Int
              /\ lo[root] <= pos[root] /\ pos[root] <= hi[root]
          BY <5>1, RankedFacts
        <5> QED BY <5>1, <5>2, <5>3
      <4>2. Tree!Utmost(opp, root) \in us /\ pos[Tree!Utmost(opp, root)] = 1
        BY <4>1, UtmostIs
      <4>3. Tree!Utmost(opp, root) = Nth(us, pos, 1)
        BY <1>2, <4>2
      <4>4. f[i] = Nth(us, pos, 1)
        BY <1>1, <3>2, <4>1
      <4> HIDE DEF f
      <4> QED BY <3>2, <4>3, <4>4
    <3>3. CASE i # 1
      <4> DEFINE x == Nth(us, pos, i - 1)
      <4>1. i - 1 \in 1 .. n /\ i - 1 <= n /\ i - 1 \in 1 .. n + 1
        BY <1>1, <3>3
      <4>2. x \in us /\ pos[x] = i - 1 /\ x # NULL /\ f[i - 1] = x
        BY <1>1, <1>2, <4>1
      <4> HIDE DEF x
      <4>3. Next1(us, n, pos, x, Tree!Neighbour(side, opp, up, x))
        BY <4>2, NeighbourIs
      <4>4. f[i] = Tree!Neighbour(side, opp, up, x)
        <5>1. CASE i - 1 = n
          <6>1. f[i] = NULL
            BY <1>1, <5>1
          <6>2. Tree!Neighbour(side, opp, up, x) = NULL
            BY <4>2, <4>3, <5>1 DEF Next1
          <6> QED BY <6>1, <6>2
        <5>2. CASE i - 1 # n
          <6>1. i <= n
            BY <1>1, <5>2
          <6>2. f[i] = Nth(us, pos, i)
            BY <6>1
          <6>3. Tree!Neighbour(side, opp, up, x) \in us /\ pos[Tree!Neighbour(side, opp, up, x)] = i
            BY <4>2, <4>3, <5>2 DEF Next1
          <6>4. Nth(us, pos, i) = Tree!Neighbour(side, opp, up, x)
            BY <1>2, <6>3
          <6> QED BY <6>2, <6>4
        <5> QED BY <5>1, <5>2
      <4> HIDE DEF f
      <4> QED BY <3>3, <4>2, <4>4
    <3> QED BY <3>1, <3>2, <3>3
  <2>2. f = [i \in 1 .. n + 1 |-> f[i]]
    BY DEF f
  <2> HIDE DEF f
  <2> QED BY <2>1, <2>2
<1>4. at = steps(at)
  <2> HIDE DEF f, steps
  <2>1. \E g : g = steps(g)
    BY <1>3
  <2> QED BY <2>1
<1> HIDE DEF at
<1> DEFINE H == {i \in 0 .. n + 1 : i = 0 \/ at[i] = f[i]}
<1>5. \A i \in 1 .. n + 1 : at[i] = f[i]
  <2>0. n + 1 \in Nat
    BY <1>1
  <2>1. 0 \in H
    BY <1>1
  <2>2. ASSUME NEW i \in 1 .. n + 1, i - 1 \in H PROVE i \in H
    <3>1. /\ at[i] = IF i = 1 THEN Tree!Utmost(opp, root)
                     ELSE IF at[i - 1] = NULL THEN NULL ELSE Tree!Neighbour(side, opp, up, at[i - 1])
          /\ f[i] = IF i = 1 THEN Tree!Utmost(opp, root)
                    ELSE IF f[i - 1] = NULL THEN NULL ELSE Tree!Neighbour(side, opp, up, f[i - 1])
      <4> HIDE DEF f
      <4> QED BY <1>3, <1>4
    <3>2. i # 1 => at[i - 1] = f[i - 1]
      <4> HIDE DEF f
      <4> QED BY <1>1, <2>2
    <3>3. i \in 0 .. n + 1
      BY <1>1
    <3> HIDE DEF f
    <3> QED BY <3>1, <3>2, <3>3
  <2>3. 0 .. n + 1 \subseteq H
    <3> HIDE DEF H
    <3> QED BY <2>0, <2>1, <2>2, UpTo
  <2>4. \A i \in 1 .. n + 1 : i \in 0 .. n + 1 /\ i # 0
    BY <1>1
  <2> HIDE DEF f
  <2> QED BY <2>3, <2>4
<1>6. met = 1 .. n
  <2>1. \A i \in 1 .. n + 1 : f[i] # NULL <=> i \in 1 .. n
    BY <1>1, <1>2
  <2>2. 1 .. n \subseteq 1 .. n + 1
    BY <1>1
  <2> HIDE DEF f
  <2> QED BY <1>5, <2>1, <2>2
<1>7. Tree!Cardinality(met) = n
  <2>1. Cardinality(1 .. n) = n
    BY <1>1, FS_Interval
  <2> HIDE DEF met
  <2> QED BY <1>6, <2>1, TreeCardinality
<1>8. TreeWalk(side, opp, up, root, n) = [i \in 1 .. Tree!Cardinality(met) |-> at[i]]
  BY DEF TreeWalk, at
<1>9. \A i \in 1 .. n : at[i] = Nth(us, pos, i)
  <2>1. \A i \in 1 .. n : i \in 1 .. n + 1 /\ i <= n
    BY <1>1
  <2> QED BY <1>5, <2>1
<1> HIDE DEF met
<1> QED BY <1>7, <1>8, <1>9 DEF NodesInOrder

LEMMA EachOnce ==
  ASSUME NEW I, NEW O, NEW f \in [I -> O], NEW b, \A x \in O : b[x] \in I /\ f[b[x]] = x,
         \A i, j \in I : f[i] = f[j] => i = j
  PROVE  ExistsBijection(I, O)
<1>1. f \in Injection(I, O)
  BY DEF Injection, IsInjective
<1>2. \A x \in O : \E i \in I : f[i] = x
  OBVIOUS
<1>3. f \in Surjection(I, O)
  BY <1>2 DEF Surjection
<1> QED BY <1>1, <1>3 DEF Bijection, ExistsBijection

LEMMA CountedNodes ==
  ASSUME NEW us, NEW n, NEW pos, NEW key, Numbered(us, n, pos, key), us \subseteq Tree!Nodes
  PROVE  /\ Cardinality(us) = n
         /\ \A k : Cardinality({i \in 1 .. n : Tree!KeyOf(Nth(us, pos, i)) = k}) = Cardinality(OfKey(us, k))
<1>1. n \in Nat /\ \A x \in us : 1 <= pos[x] /\ pos[x] <= n /\ pos[x] \in Int
  BY DEF Numbered
<1>2. /\ \A i \in 1 .. n : Nth(us, pos, i) \in us /\ pos[Nth(us, pos, i)] = i
      /\ \A x \in us : Nth(us, pos, pos[x]) = x
  BY NthFacts
<1>3. \A x \in us : pos[x] \in 1 .. n
  BY <1>1
<1>4. Cardinality(us) = n
  <2> DEFINE f == [i \in 1 .. n |-> Nth(us, pos, i)]
  <2>1. f \in [1 .. n -> us] /\ (\A x \in us : pos[x] \in 1 .. n /\ f[pos[x]] = x)
    BY <1>2, <1>3
  <2>2. ExistsBijection(1 .. n, us)
    <3>1. \A i, j \in 1 .. n : f[i] = f[j] => i = j
      BY <1>2
    <3> DEFINE I == 1 .. n
    <3>2. f \in [I -> us] /\ (\A x \in us : pos[x] \in I /\ f[pos[x]] = x)
      BY <2>1
    <3>3. \A i, j \in I : f[i] = f[j] => i = j
      BY <3>1
    <3>4. ExistsBijection(I, us)
      <4> HIDE DEF f, I
      <4> QED BY <3>2, <3>3, EachOnce
    <3> QED BY <3>4
  <2>3. IsFiniteSet(1 .. n) /\ Cardinality(1 .. n) = n
    BY <1>1, FS_Interval
  <2> QED BY <2>2, <2>3, FS_Bijection
<1>5. ASSUME NEW k
      PROVE  Cardinality({i \in 1 .. n : Tree!KeyOf(Nth(us, pos, i)) = k}) = Cardinality(OfKey(us, k))
  <2> DEFINE I == {i \in 1 .. n : Tree!KeyOf(Nth(us, pos, i)) = k}
             f == [i \in I |-> Nth(us, pos, i)]
             O == OfKey(us, k)
  <2>2. ExistsBijection(I, O)
    <3>1. \A i \in I : f[i] \in O
      BY <1>2 DEF OfKey
    <3>2. \A x \in O : pos[x] \in I /\ f[pos[x]] = x
      BY <1>2, <1>3 DEF OfKey
    <3>3. \A i, j \in I : f[i] = f[j] => i = j
      BY <1>2
    <3>4. f \in [I -> O]
      BY <3>1
    <3> HIDE DEF f, I, O
    <3> QED BY <3>2, <3>3, <3>4, EachOnce
  <2>3. IsFiniteSet(I)
    <3>1. IsFiniteSet(1 .. n) /\ I \in SUBSET (1 .. n)
      BY <1>1, FS_Interval
    <3> QED BY <3>1, FS_Subset
  <2> HIDE DEF I, O
  <2>4. Cardinality(O) = Cardinality(I)
    BY <2>2, <2>3, FS_Bijection
  <2> QED BY <2>4 DEF I, O
<1> QED BY <1>4, <1>5

LEMMA TreeImplied == TreeInv(object, ghost) => Tree!TreeHolds
<1> SUFFICES ASSUME TreeInv(object, ghost) PROVE Tree!TreeHolds
  OBVIOUS
<1> DEFINE us == object.used
           asc == Tree!Ascending
           desc == Tree!Descending
<1>1. TreeGood(object) /\ ghost = [k \in TreeKeys |-> Cardinality(OfKey(us, k))]
  BY DEF TreeInv
<1>2. PICK n, pos, lo, hi :
        Ranked(object.right, object.left, object.parent, us, object.root, KeyOfNode, n, pos, lo, hi)
  BY <1>1 DEF TreeGood, Sorted
<1>3. Numbered(us, n, pos, KeyOfNode) /\ n \in Nat /\ us \subseteq Tree!Nodes
  BY <1>2, RankedFacts DEF Ranked
<1>4. Tree!Cardinality(us) = n
  BY <1>3, CountedNodes, TreeCardinality
<1>5. /\ \A i \in 1 .. n : Nth(us, pos, i) \in us /\ pos[Nth(us, pos, i)] = i
      /\ \A x \in us : Nth(us, pos, pos[x]) = x
  BY <1>3, NthFacts
<1>6. asc = NodesInOrder(us, pos, n)
  <2>1. asc = TreeWalk(object.right, object.left, object.parent, object.root, Tree!Cardinality(us))
    BY DEF Tree!Ascending, Tree!InTurn, Tree!Up, Tree!Successor, Tree!Minimum, TreeWalk
  <2> QED BY <1>2, <1>4, <2>1, TreeWalkIs
<1>7. \A i \in 1 .. n : asc[i] = Nth(us, pos, i)
  BY <1>6 DEF NodesInOrder
<1>8. Len(asc) = n
  BY <1>3, <1>6 DEF NodesInOrder
<1> DEFINE bpos == Turned(n + 1, pos)
           back == Turned(0, KeyOfNode)
<1>9. desc = NodesInOrder(us, bpos, n)
  <2>1. desc = TreeWalk(object.left, object.right, object.parent, object.root, Tree!Cardinality(us))
    BY DEF Tree!Descending, Tree!InTurn, Tree!Down, Tree!Predecessor, Tree!Maximum, TreeWalk
  <2>2. KeyOfNode \in [Tree!Nodes -> Int]
    BY TreeConstants
  <2>3. Ranked(object.left, object.right, object.parent, us, object.root, back, n, bpos,
               Turned(n + 1, hi), Turned(n + 1, lo))
    BY <1>2, <2>2, TurnedRanked
  <2> HIDE DEF bpos, back
  <2> QED BY <1>4, <2>1, <2>3, TreeWalkIs
<1> HIDE DEF asc, desc, us
<1>10. ASSUME NEW k \in TreeKeys
       PROVE  Tree!Cardinality({i \in 1 .. n : Tree!KeyOf(asc[i]) = k}) = ghost[k]
  <2>1. {i \in 1 .. n : Tree!KeyOf(asc[i]) = k} = {i \in 1 .. n : Tree!KeyOf(Nth(us, pos, i)) = k}
    BY <1>7
  <2>2. Cardinality({i \in 1 .. n : Tree!KeyOf(Nth(us, pos, i)) = k}) = Cardinality(OfKey(us, k))
    BY <1>3, CountedNodes
  <2> QED BY <1>1, <2>1, <2>2, TreeCardinality
<1>11. {asc[i] : i \in 1 .. n} = us
  <2>1. \A x \in us : pos[x] \in 1 .. n
    BY <1>3 DEF Numbered
  <2> QED BY <1>5, <1>7, <2>1
<1>12. ASSUME NEW i \in 1 .. n - 1 PROVE Tree!KeyOf(asc[i]) <= Tree!KeyOf(asc[i + 1])
  <2>1. i \in 1 .. n /\ i + 1 \in 1 .. n /\ i < i + 1
    BY <1>3
  <2>2. asc[i] \in us /\ asc[i + 1] \in us /\ pos[asc[i]] < pos[asc[i + 1]]
    BY <1>5, <1>7, <2>1
  <2>3. KeyOfNode[asc[i]] <= KeyOfNode[asc[i + 1]]
    BY <1>3, <2>2 DEF Numbered
  <2> QED BY <1>3, <2>2, <2>3 DEF KeyOfNode
<1>13. desc = [i \in 1 .. n |-> asc[n + 1 - i]]
  <2>1. ASSUME NEW i \in 1 .. n PROVE Nth(us, bpos, i) = asc[n + 1 - i]
    <3>1. n + 1 - i \in 1 .. n
      BY <1>3
    <3> DEFINE x == Nth(us, pos, n + 1 - i)
    <3>2. x \in us /\ pos[x] = n + 1 - i /\ asc[n + 1 - i] = x
      BY <1>5, <1>7, <3>1
    <3> HIDE DEF x
    <3>3. bpos[x] = i
      BY <1>3, <3>2 DEF Turned
    <3>4. \A y \in us : bpos[y] = i => y = x
      <4>1. ASSUME NEW y \in us, bpos[y] = i PROVE y = x
        <5>1. bpos[y] = n + 1 - pos[y] /\ pos[y] \in Int
          BY <1>3 DEF Turned, Numbered
        <5>2. pos[y] = pos[x]
          BY <1>3, <3>2, <4>1, <5>1
        <5> QED BY <1>5, <3>2, <5>2
      <4> QED BY <4>1
    <3> HIDE DEF bpos
    <3>5. Nth(us, bpos, i) = x
      BY <3>2, <3>3, <3>4 DEF Nth
    <3> QED BY <3>2, <3>5
  <2> HIDE DEF bpos
  <2> QED BY <1>9, <2>1 DEF NodesInOrder
<1>14. n = Tree!Cardinality(object.used) /\ {asc[i] : i \in 1 .. n} = object.used
  BY <1>4, <1>11 DEF us
<1> QED BY <1>8, <1>10, <1>12, <1>13, <1>14 DEF Tree!TreeHolds, asc, desc

LEMMA LibraryTree == Spec => [](part = "tree" => TreeInv(object, ghost))
<1> DEFINE Inv == part = "tree" => TreeInv(object, ghost)
<1>1. Init => Inv
  BY TreeStarts DEF Init
<1>2. Inv /\ [Next]_vars => Inv'
  <2> SUFFICES ASSUME Inv, [Next]_vars, part' = "tree" PROVE TreeInv(object', ghost')
    OBVIOUS
  <2>1. CASE UNCHANGED vars
    <3>1. object' = object /\ ghost' = ghost /\ part = "tree"
      BY <2>1 DEF vars
    <3>2. TreeInv(object, ghost)
      BY <3>1
    <3> QED BY <3>1, <3>2
  <2>2. CASE Next
    <3>1. part = "tree" /\ Tree!Next
      BY <2>2 DEF Next, UseHeap, UseVector, UseTree, UseMap, UseQueue, UseTimer, UseGetopt,
         UseHttp, UseSort, UseUrl, UseMd5, UseSerial
    <3> QED BY <3>1, TreeStep
  <2> QED BY <2>1, <2>2
<1> QED BY <1>1, <1>2, PTL DEF Spec

(* After any insertions and removals the walk by bscl_bstree_successor     *)
(* from the minimum meets each item in the tree once and in order, and the *)
(* walk by bscl_bstree_predecessor the same ones backwards, for any number *)
(* of nodes: the fields of the nodes are those of one order of them.       *)
THEOREM LibraryTreeHolds == Spec => []TreeHolds
<1>1. (part = "tree" => TreeInv(object, ghost)) => TreeHolds
  BY TreeImplied DEF TreeHolds
<1> QED BY <1>1, LibraryTree, PTL

(* bscl_bstree_find finds an item of a key if and only if one was inserted *)
(* since the key was last removed, wherever equal items are in the tree.   *)
THEOREM LibraryFindHolds == Spec => []FindHolds
<1>1. (part = "tree" => TreeInv(object, ghost)) => FindHolds
  BY FindImplied DEF FindHolds
<1> QED BY <1>1, LibraryTree, PTL
=============================================================================
