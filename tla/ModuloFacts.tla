---------------------------- MODULE ModuloFacts ----------------------------
(***************************************************************************)
(* Lemmas about remainders, which free-running counters and the masks that *)
(* make positions of them rest on, about sequences as functions, about how *)
(* many members a set has, and the induction that the proofs need: as the  *)
(* provers take no operator for an argument, it is stated for a set of     *)
(* numbers.                                                                *)
(***************************************************************************)
EXTENDS Integers, Sequences, FiniteSetTheorems, WellFoundedInduction, TLAPS

(* Euclid's division, as the provers know it for a positive divisor. *)
LEMMA ModRange ==
  ASSUME NEW a \in Int, NEW n \in Nat \ {0}
  PROVE  a % n \in 0 .. n - 1
OBVIOUS

LEMMA DivMod ==
  ASSUME NEW a \in Int, NEW n \in Nat \ {0}
  PROVE  (a \div n) \in Int /\ a = n * (a \div n) + (a % n)
OBVIOUS

LEMMA ModUnique ==
  ASSUME NEW n \in Nat \ {0}, NEW q \in Int, NEW r \in 0 .. n - 1
  PROVE  (n * q + r) % n = r
OBVIOUS

LEMMA ModSmall ==
  ASSUME NEW n \in Nat \ {0}, NEW r \in 0 .. n - 1
  PROVE  r % n = r
OBVIOUS

(* Adding a multiple of the modulus changes no remainder. *)
LEMMA ModShift ==
  ASSUME NEW n \in Nat \ {0}, NEW a \in Int, NEW q \in Int
  PROVE  (a + n * q) % n = a % n
<1> DEFINE d == a \div n
           r == a % n
<1>1. d \in Int /\ r \in 0 .. n - 1 /\ a = n * d + r
  BY DivMod, ModRange
<1>2. a + n * q = n * (d + q) + r
  <2>1. n * (d + q) = n * d + n * q
    BY <1>1
  <2> HIDE DEF d, r
  <2> QED BY <1>1, <2>1
<1>3. (n * (d + q) + r) % n = r
  <2> HIDE DEF d, r
  <2> QED BY <1>1, ModUnique
<1> QED BY <1>2, <1>3

(* A remainder may be taken before or after an addition. *)
LEMMA ModAdd ==
  ASSUME NEW n \in Nat \ {0}, NEW a \in Int, NEW b \in Int
  PROVE  ((a % n) + b) % n = (a + b) % n
<1> DEFINE d == a \div n
           r == a % n
<1>1. d \in Int /\ r \in Int /\ a = n * d + r
  BY DivMod, ModRange
<1>2. a + b = (r + b) + n * d
  <2> HIDE DEF d, r
  <2> QED BY <1>1
<1>3. ((r + b) + n * d) % n = (r + b) % n
  <2> HIDE DEF d, r
  <2>1. r + b \in Int
    BY <1>1
  <2> QED BY <1>1, <2>1, ModShift
<1> QED BY <1>2, <1>3

LEMMA ModSub ==
  ASSUME NEW n \in Nat \ {0}, NEW a \in Int, NEW b \in Int
  PROVE  (b - (a % n)) % n = (b - a) % n
<1> DEFINE d == a \div n
           r == a % n
<1>1. d \in Int /\ r \in Int /\ a = n * d + r
  BY DivMod, ModRange
<1>2. b - r = (b - a) + n * d
  <2> HIDE DEF d, r
  <2> QED BY <1>1
<1>3. ((b - a) + n * d) % n = (b - a) % n
  <2> HIDE DEF d, r
  <2>1. b - a \in Int
    OBVIOUS
  <2> QED BY <1>1, <2>1, ModShift
<1> QED BY <1>2, <1>3

(* A remainder of a multiple of m keeps the remainder by m. *)
LEMMA ModOfMod ==
  ASSUME NEW m \in Nat \ {0}, NEW k \in Nat \ {0}, NEW n, n = k * m, NEW x \in Int
  PROVE  (x % n) % m = x % m
<1>1. n \in Nat \ {0}
  BY n = k * m
<1> DEFINE d == x \div n
           r == x % n
<1>2. d \in Int /\ r \in Int /\ x = n * d + r
  <2>1. d \in Int /\ x = n * d + r
    BY <1>1, DivMod, Zenon
  <2>2. r \in 0 .. n - 1
    BY <1>1, ModRange, Zenon
  <2> HIDE DEF d, r
  <2> QED BY <1>1, <2>1, <2>2
<1> HIDE DEF d, r
<1>3. n * d = m * (k * d) /\ k * d \in Int
  BY <1>2
<1>4. (r + m * (k * d)) % m = r % m
  BY <1>2, <1>3, ModShift
<1>5. x = r + m * (k * d)
  BY <1>1, <1>2, <1>3
<1> QED BY <1>4, <1>5 DEF r

(* The position d further on, d less than one turn. *)
LEMMA ModStep ==
  ASSUME NEW n \in Nat \ {0}, NEW x \in Int, NEW d \in 0 .. n - 1
  PROVE  /\ x % n \in 0 .. n - 1
         /\ (x + d) % n = IF (x % n) + d < n THEN (x % n) + d ELSE (x % n) + d - n
<1> DEFINE o == x % n
<1>1. o \in 0 .. n - 1
  BY ModRange
<1>2. (x + d) % n = (o + d) % n
  <2>1. d \in Int
    OBVIOUS
  <2> QED BY <2>1, ModAdd
<1> HIDE DEF o
<1>3. CASE o + d < n
  <2>1. o + d \in 0 .. n - 1
    BY <1>1, <1>3
  <2> QED BY <2>1, <1>2, <1>3, <1>1, ModSmall DEF o
<1>4. CASE ~(o + d < n)
  <2>1. o + d - n \in 0 .. n - 1
    BY <1>1, <1>4
  <2>2. (n * 1 + (o + d - n)) % n = o + d - n
    BY <2>1, ModUnique
  <2>3. n * 1 + (o + d - n) = o + d
    BY <1>1
  <2> QED BY <2>2, <2>3, <1>2, <1>4, <1>1 DEF o
<1> QED BY <1>3, <1>4

(* Moving the front counter on by k, modulo n, moves the distance up, *)
LEMMA DistanceUp ==
  ASSUME NEW n \in Nat \ {0}, NEW w \in Int, NEW r \in Int, NEW k \in Nat,
         ((w - r) % n) + k < n
  PROVE  (((w + k) % n) - r) % n = ((w - r) % n) + k
<1> DEFINE c == (w - r) % n
           v == (w + k) % n
<1>1. c \in 0 .. n - 1 /\ v \in Int
  <2>1. w - r \in Int /\ w + k \in Int
    OBVIOUS
  <2> QED BY <2>1, ModRange
<1>2. (v + (-r)) % n = ((w + k) + (-r)) % n
  <2>1. w + k \in Int /\ -r \in Int
    OBVIOUS
  <2> QED BY <2>1, ModAdd
<1>3. (c + k) % n = ((w - r) + k) % n
  <2>1. w - r \in Int /\ k \in Int
    OBVIOUS
  <2> QED BY <2>1, ModAdd
<1> HIDE DEF c, v
<1>4. (w + k) + (-r) = (w - r) + k /\ v + (-r) = v - r
  BY <1>1
<1>5. (c + k) % n = c + k
  <2>1. c + k \in 0 .. n - 1
    BY <1>1 DEF c
  <2> QED BY <2>1, ModSmall
<1> QED BY <1>2, <1>3, <1>4, <1>5 DEF c, v

(* and moving the rear one moves it down. *)
LEMMA DistanceDown ==
  ASSUME NEW n \in Nat \ {0}, NEW w \in Int, NEW r \in Int,
         NEW k \in 0 .. (w - r) % n
  PROVE  (w - ((r + k) % n)) % n = ((w - r) % n) - k
<1> DEFINE c == (w - r) % n
<1>1. c \in 0 .. n - 1
  <2>1. w - r \in Int
    OBVIOUS
  <2> QED BY <2>1, ModRange
<1>2. k \in 0 .. c
  OBVIOUS
<1>3. (w - ((r + k) % n)) % n = (w - (r + k)) % n
  <2>1. r + k \in Int
    BY <1>1, <1>2
  <2> QED BY <2>1, ModSub
<1>4. (c + (-k)) % n = ((w - r) + (-k)) % n
  <2>1. w - r \in Int /\ -k \in Int
    BY <1>1, <1>2
  <2> QED BY <2>1, ModAdd
<1> HIDE DEF c
<1>5. w - (r + k) = (w - r) + (-k) /\ c + (-k) = c - k
  BY <1>1, <1>2
<1>6. (c - k) % n = c - k
  <2>1. c - k \in 0 .. n - 1
    BY <1>1, <1>2
  <2> QED BY <2>1, ModSmall
<1> QED BY <1>3, <1>4, <1>5, <1>6 DEF c

(* The front counter and the rear one with the distance added agree. *)
LEMMA FrontIsRear ==
  ASSUME NEW n \in Nat \ {0}, NEW w \in Int, NEW r \in Int
  PROVE  (r + ((w - r) % n)) % n = w % n
<1> DEFINE c == (w - r) % n
<1>1. c \in Int /\ w - r \in Int
  <2>1. w - r \in Int
    OBVIOUS
  <2> QED BY <2>1, ModRange
<1>2. (c + r) % n = ((w - r) + r) % n
  BY <1>1, ModAdd
<1> HIDE DEF c
<1>3. (w - r) + r = w /\ c + r = r + c
  BY <1>1
<1> QED BY <1>2, <1>3 DEF c

LEMMA SeqAsFunction ==
  ASSUME NEW S, NEW s \in Seq(S), NEW n \in Nat, Len(s) = n
  PROVE  s = [i \in 1 .. n |-> s[i]]
OBVIOUS

LEMMA FunctionIsSeq ==
  ASSUME NEW S, NEW n \in Nat, NEW f \in [1 .. n -> S]
  PROVE  f \in Seq(S) /\ Len(f) = n
OBVIOUS

LEMMA PrefixFacts ==
  ASSUME NEW S, NEW s \in Seq(S), NEW n \in 0 .. Len(s)
  PROVE  /\ SubSeq(s, 1, n) \in Seq(S) /\ Len(SubSeq(s, 1, n)) = n
         /\ SubSeq(s, 1, n) \in [1 .. n -> S]
         /\ SubSeq(s, 1, n) = [i \in 1 .. n |-> s[i]]
<1>1. Len(s) \in Nat /\ \A i \in 1 .. Len(s) : s[i] \in S
  OBVIOUS
<1>2. SubSeq(s, 1, n) = [i \in 1 .. n |-> s[i]]
  OBVIOUS
<1>3. [i \in 1 .. n |-> s[i]] \in [1 .. n -> S]
  BY <1>1
<1> DEFINE f == [i \in 1 .. n |-> s[i]]
<1>4. f \in [1 .. n -> S] /\ n \in Nat
  BY <1>1, <1>3
<1> HIDE DEF f
<1>5. f \in Seq(S) /\ Len(f) = n
  BY <1>4, FunctionIsSeq
<1> QED BY <1>2, <1>4, <1>5 DEF f

LEMMA SuffixAsFunction ==
  ASSUME NEW S, NEW s \in Seq(S), NEW m \in 0 .. Len(s)
  PROVE  SubSeq(s, m + 1, Len(s)) = [i \in 1 .. Len(s) - m |-> s[i + m]]
OBVIOUS

LEMMA ConcatAsFunction ==
  ASSUME NEW S, NEW s \in Seq(S), NEW t \in Seq(S), NEW m, m = Len(s), NEW n, n = Len(t)
  PROVE  s \o t = [i \in 1 .. m + n |-> IF i <= m THEN s[i] ELSE t[i - m]]
<1>1. s \o t \in Seq(S) /\ Len(s \o t) = Len(s) + Len(t)
  OBVIOUS
<1>2. \A i \in 1 .. Len(s) + Len(t) :
        (s \o t)[i] = IF i <= Len(s) THEN s[i] ELSE t[i - Len(s)]
  OBVIOUS
<1>3. m + n \in Nat
  OBVIOUS
<1> DEFINE x == s \o t
<1>4. x \in Seq(S) /\ Len(x) = m + n
  BY <1>1
<1>5. \A i \in 1 .. m + n : x[i] = IF i <= m THEN s[i] ELSE t[i - m]
  BY <1>2
<1> HIDE DEF x
<1>6. x = [i \in 1 .. m + n |-> x[i]]
  BY <1>3, <1>4, SeqAsFunction
<1>7. x = [i \in 1 .. m + n |-> IF i <= m THEN s[i] ELSE t[i - m]]
  BY <1>5, <1>6
<1> QED BY <1>7 DEF x

LEMMA AppendFacts ==
  ASSUME NEW S, NEW s \in Seq(S), NEW e \in S, NEW t, t = Append(s, e)
  PROVE  /\ t \in Seq(S) /\ Len(t) = Len(s) + 1
         /\ \A i \in 1 .. Len(s) + 1 : t[i] = IF i <= Len(s) THEN s[i] ELSE e
OBVIOUS

-----------------------------------------------------------------------------
(* Every set of numbers has a least one, *)
LEMMA Minimum ==
  ASSUME NEW T, T \subseteq Nat, T # {}
  PROVE  \E d \in T : \A e \in T : d <= e
<1> DEFINE R == OpToRel(<, Nat)
<1>1. IsWellFoundedOn(R, Nat)
  BY NatLessThanWellFounded
<1>2. \A x, y \in Nat : y < x => <<y, x>> \in R
  BY DEF OpToRel
<1> HIDE DEF R
<1>3. PICK d \in T : \A e \in T : ~(<<e, d>> \in R)
  BY <1>1, WFMin
<1>4. ASSUME NEW e \in T PROVE d <= e
  <2>1. d \in Nat /\ e \in Nat
    OBVIOUS
  <2>2. ~(e < d)
    BY <1>2, <1>3, <2>1
  <2> QED BY <2>1, <2>2
<1> QED BY <1>4

(* and CHOOSE finds it. *)
LEMMA ChosenMinimum ==
  ASSUME NEW T, T \subseteq Nat, T # {},
         NEW m, m = CHOOSE i \in T : \A j \in T : i <= j
  PROVE  m \in T /\ \A j \in T : m <= j
BY Minimum

(* A set that has 0 and with i - 1 also i has all numbers up to n: a least *)
(* one that it lacks would follow one that it has.                         *)
LEMMA UpTo ==
  ASSUME NEW n \in Nat, NEW H, 0 \in H,
         \A i \in 1 .. n : i - 1 \in H => i \in H
  PROVE  0 .. n \subseteq H
<1> DEFINE T == {i \in 0 .. n : i \notin H}
<1> SUFFICES ASSUME T # {} PROVE FALSE
  OBVIOUS
<1>1. PICK m \in T : \A e \in T : m <= e
  <2>1. T \subseteq Nat
    OBVIOUS
  <2> HIDE DEF T
  <2> QED BY <2>1, Minimum
<1>2. m \in 1 .. n
  <2>1. m # 0
    OBVIOUS
  <2> QED BY <2>1
<1>3. m - 1 \notin T
  BY <1>1, <1>2
<1>4. m - 1 \in H
  BY <1>2, <1>3
<1> QED BY <1>2, <1>4

(* A set of numbers with a bound has a greatest one. *)
LEMMA Maximum ==
  ASSUME NEW n \in Nat, NEW T, T \subseteq 0 .. n, T # {}
  PROVE  \E m \in T : \A e \in T : e <= m
<1> DEFINE U == {n - i : i \in T}
<1>1. U \subseteq Nat /\ U # {}
  <2>1. \A i \in T : i \in Nat /\ i <= n
    OBVIOUS
  <2>2. \A i \in T : n - i \in Nat
    BY <2>1
  <2>3. PICK i \in T : TRUE
    OBVIOUS
  <2> QED BY <2>2, <2>3
<1>2. PICK d \in U : \A e \in U : d <= e
  <2> HIDE DEF U
  <2> QED BY <1>1, Minimum
<1>3. PICK m \in T : d = n - m
  OBVIOUS
<1>4. ASSUME NEW e \in T PROVE e <= m
  <2>1. n - e \in U
    OBVIOUS
  <2>2. d <= n - e
    BY <1>2, <2>1
  <2>3. m \in Nat /\ e \in Nat
    OBVIOUS
  <2> HIDE DEF U
  <2> QED BY <1>3, <2>2, <2>3
<1> QED BY <1>4

(* Recursion along 0 .. n from a table of its steps defines a function. *)
Recursive(f, S, s0, n, step) ==
  /\ f \in [0 .. n -> S] /\ f[0] = s0
  /\ \A i \in 1 .. n : f[i] = step[i][f[i - 1]]

LEMMA Recursion ==
  ASSUME NEW S, NEW s0 \in S, NEW n \in Nat, NEW step \in [1 .. n -> [S -> S]]
  PROVE  \E f : Recursive(f, S, s0, n, step)
<1> DEFINE Good(f, k) == /\ f \in [0 .. k -> S] /\ f[0] = s0
                         /\ \A i \in 1 .. k : f[i] = step[i][f[i - 1]]
           H == {k \in 0 .. n : \E f \in [0 .. k -> S] : Good(f, k)}
<1>1. 0 \in H
  <2> DEFINE f == [i \in 0 .. 0 |-> s0]
  <2>1. f \in [0 .. 0 -> S] /\ Good(f, 0)
    OBVIOUS
  <2> HIDE DEF f, Good
  <2> QED BY <2>1
<1>2. ASSUME NEW k \in 1 .. n, k - 1 \in H
      PROVE  k \in H
  <2>1. PICK f \in [0 .. k - 1 -> S] : Good(f, k - 1)
    BY <1>2
  <2> DEFINE g == [i \in 0 .. k |-> IF i = k THEN step[k][f[k - 1]] ELSE f[i]]
  <2>2. step[k][f[k - 1]] \in S
    <3>1. k - 1 \in 0 .. k - 1
      OBVIOUS
    <3>2. f[k - 1] \in S
      BY <3>1
    <3> QED BY <3>2
  <2>3. g \in [0 .. k -> S]
    <3>1. ASSUME NEW i \in 0 .. k, i # k PROVE f[i] \in S
      <4>1. i \in 0 .. k - 1
        BY <3>1
      <4> QED BY <4>1
    <3> QED BY <2>2, <3>1
  <2>4. g[0] = s0
    BY <2>1
  <2>5. ASSUME NEW i \in 1 .. k PROVE g[i] = step[i][g[i - 1]]
    <3>1. i - 1 \in 0 .. k /\ i - 1 # k /\ i \in 0 .. k
      OBVIOUS
    <3>2. g[i - 1] = f[i - 1]
      BY <3>1
    <3>3. CASE i = k
      BY <3>1, <3>2, <3>3
    <3>4. CASE i # k
      <4>1. i \in 1 .. k - 1
        BY <3>4
      <4> QED BY <2>1, <3>1, <3>2, <3>4, <4>1
    <3> QED BY <3>3, <3>4
  <2>6. Good(g, k)
    <3> HIDE DEF g
    <3> QED BY <2>3, <2>4, <2>5
  <2> HIDE DEF g, Good
  <2> QED BY <2>3, <2>6
<1> HIDE DEF Good
<1>3. 0 .. n \subseteq H
  <2> HIDE DEF H
  <2> QED BY <1>1, <1>2, UpTo
<1>4. n \in H
  <2> HIDE DEF H
  <2> QED BY <1>3
<1> QED BY <1>4 DEF Good, Recursive

(* Two sequences joined, place by place *)
LEMMA JoinedAt ==
  ASSUME NEW P, NEW u \in Seq(P), NEW v \in Seq(P)
  PROVE  /\ u \o v \in Seq(P) /\ Len(u \o v) = Len(u) + Len(v)
         /\ \A c \in 1 .. Len(u) : (u \o v)[c] = u[c]
         /\ \A c \in Len(u) + 1 .. Len(u) + Len(v) : (u \o v)[c] = v[c - Len(u)]
OBVIOUS

(* A function that takes each value once *)
LEMMA SameCount ==
  ASSUME NEW S, NEW T, NEW f \in [S -> T], IsFiniteSet(T),
         \A x, y \in S : f[x] = f[y] => x = y,
         \A t \in T : \E x \in S : f[x] = t
  PROVE  IsFiniteSet(S) /\ Cardinality(S) = Cardinality(T)
<1>1. f \in Injection(S, T) /\ f \in Surjection(S, T)
  BY DEF Injection, IsInjective, Surjection
<1> QED BY <1>1, FS_Injection

(* A set of places that has with each the one before is an interval. *)
LEMMA Downward ==
  ASSUME NEW n \in Nat, NEW H, H \subseteq 1 .. n, \A i \in H : i # 1 => i - 1 \in H
  PROVE  Cardinality(H) \in 0 .. n /\ H = 1 .. Cardinality(H)
<1> DEFINE upto(k, m) == m \in 0 .. k /\ \A i \in 1 .. k : i \in H <=> i <= m
           P == {k \in 0 .. n : \E m \in 0 .. k : upto(k, m)}
<1>1. 0 \in P
  OBVIOUS
<1>2. ASSUME NEW k \in 1 .. n, k - 1 \in P PROVE k \in P
  <2>1. PICK m \in 0 .. k - 1 : \A i \in 1 .. k - 1 : i \in H <=> i <= m
    BY <1>2
  <2>2. CASE k \notin H
    <3>1. upto(k, m)
      BY <2>1, <2>2
    <3> QED BY <3>1
  <2>3. CASE k \in H
    <3>1. k = 1 \/ k - 1 \in H
      BY <2>3
    <3>2. m = k - 1
      BY <2>1, <3>1
    <3>3. upto(k, k)
      BY <2>1, <2>3, <3>2
    <3> QED BY <3>3
  <2> QED BY <2>2, <2>3
<1>3. 0 .. n \subseteq P
  <2> HIDE DEF P
  <2> QED BY <1>1, <1>2, UpTo
<1>4. PICK m \in 0 .. n : \A i \in 1 .. n : i \in H <=> i <= m
  <2>1. n \in P
    <3> HIDE DEF P
    <3>1. n \in 0 .. n
      OBVIOUS
    <3> QED BY <1>3, <3>1
  <2> QED BY <2>1
<1>5. H = 1 .. m
  <2>1. \A i : i \in H <=> i \in 1 .. m
    <3> SUFFICES ASSUME NEW i PROVE i \in H <=> i \in 1 .. m
      OBVIOUS
    <3>1. CASE i \in 1 .. n
      BY <1>4, <3>1
    <3>2. CASE i \notin 1 .. n
      <4>1. 1 .. m \subseteq 1 .. n
        OBVIOUS
      <4> QED BY <3>2, <4>1
    <3> QED BY <3>1, <3>2
  <2> QED BY <2>1
<1>6. Cardinality(1 .. m) = m
  <2>1. 1 \in Int /\ m \in Int /\ (1 > m <=> m = 0) /\ m - 1 + 1 = m
    OBVIOUS
  <2>2. Cardinality(1 .. m) = IF 1 > m THEN 0 ELSE m - 1 + 1
    BY <2>1, FS_Interval
  <2> QED BY <2>1, <2>2
<1> QED BY <1>5, <1>6

=============================================================================
