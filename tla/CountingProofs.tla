---------------------------- MODULE CountingProofs ----------------------------
(***************************************************************************)
(* The facts about numbers, sums and finite sets that the proofs of the    *)
(* components share. They rest on induction over the natural numbers,      *)
(* stated for sets so that the provers can use it.                         *)
(***************************************************************************)
EXTENDS PrefixSums, FiniteSets, NaturalsInduction, WellFoundedInduction, FiniteSetTheorems, TLAPS

-----------------------------------------------------------------------------
(* Induction                                                                 *)

LEMMA LeastNumber ==
    ASSUME NEW T, T \subseteq Nat, T # {}
    PROVE  \E x \in T : \A y \in T : x <= y
<1>1. IsWellFoundedOn(OpToRel(<, Nat), Nat)  BY NatLessThanWellFounded
<1>2. \E x \in T : \A y \in T : ~(<<y, x>> \in OpToRel(<, Nat))
      BY <1>1, WFMin
<1>3. \A x, y \in T : <<y, x>> \in OpToRel(<, Nat) <=> y < x
      BY DEF OpToRel
<1>4. \E x \in T : \A y \in T : ~(y < x)  BY <1>2, <1>3, Zenon
<1> QED BY <1>4

\* Induction for the property of being in S, up to a bound.
LEMMA Induction ==
    ASSUME NEW n \in Nat, NEW S, 0 \in S, \A k \in 0 .. n - 1 : k \in S => k + 1 \in S
    PROVE  0 .. n \subseteq S
<1> SUFFICES ASSUME (0 .. n) \ S # {} PROVE FALSE  OBVIOUS
<1> DEFINE T == (0 .. n) \ S
<1>1. T \subseteq Nat /\ T # {}  OBVIOUS
<1> HIDE DEF T
<1>2. PICK x \in T : \A y \in T : x <= y  BY <1>1, LeastNumber
<1> USE DEF T
<1>3. x # 0 /\ x - 1 \in 0 .. n - 1 /\ x - 1 \in S  BY <1>2
<1> QED BY <1>3

-----------------------------------------------------------------------------
(* The sums                                                                  *)

\* The loop's sums exist and are what each turn makes of the one before.
LEMMA SumUnfolds ==
    ASSUME NEW n \in Nat, NEW f \in [0 .. n - 1 -> Nat]
    PROVE  /\ PrefixSum(f, n) \in [0 .. n -> Nat]
           /\ PrefixSum(f, n)[0] = 0
           /\ \A k \in 0 .. n - 1 : PrefixSum(f, n)[k + 1] = PrefixSum(f, n)[k] + f[k]
<1> DEFINE Adds(g, m) == /\ g \in [0 .. m -> Nat] /\ g[0] = 0
                         /\ \A k \in 0 .. m - 1 : g[k + 1] = g[k] + f[k]
           S == {m \in 0 .. n : \E g : Adds(g, m)}
<1>1. 0 \in S
  <2>1. Adds([k \in 0 .. 0 |-> 0], 0)  OBVIOUS
  <2>2. 0 \in 0 .. n  OBVIOUS
  <2> HIDE DEF Adds
  <2> QED BY <2>1, <2>2
<1>2. ASSUME NEW m \in 0 .. n - 1, m \in S
      PROVE  m + 1 \in S
  <2>1. PICK g : Adds(g, m)  BY <1>2
  <2> DEFINE h == [k \in 0 .. m + 1 |-> IF k = m + 1 THEN g[m] + f[m] ELSE g[k]]
  <2>2. g[m] + f[m] \in Nat  BY <2>1
  <2>3. h \in [0 .. m + 1 -> Nat]  BY <2>1, <2>2
  <2>4. h[0] = 0  BY <2>1
  <2>5. \A k \in 0 .. m : h[k + 1] = h[k] + f[k]
    <3> SUFFICES ASSUME NEW k \in 0 .. m PROVE h[k + 1] = h[k] + f[k]  OBVIOUS
    <3>1. k + 1 \in 0 .. m + 1 /\ k \in 0 .. m + 1 /\ k # m + 1  OBVIOUS
    <3>2. CASE k = m  BY <3>1, <3>2
    <3>3. CASE k # m
      <4>1. k \in 0 .. m - 1 /\ k + 1 # m + 1  BY <3>3
      <4>2. h[k + 1] = g[k + 1] /\ h[k] = g[k]  BY <3>1, <4>1
      <4> QED BY <2>1, <4>1, <4>2
    <3> QED BY <3>2, <3>3
  <2>6. (m + 1) - 1 = m /\ m + 1 \in 0 .. n  OBVIOUS
  <2> HIDE DEF h
  <2>7. Adds(h, m + 1)  BY <2>3, <2>4, <2>5, <2>6
  <2> HIDE DEF Adds
  <2> QED BY <2>6, <2>7
<1>3. n \in S
  <2> HIDE DEF S
  <2>1. 0 .. n \subseteq S  BY <1>1, <1>2, Induction
  <2> QED BY <2>1
<1>4. PICK g : Adds(g, n)  BY <1>3
<1>5. g = [k \in 0 .. n |-> IF k = 0 THEN 0 ELSE g[k - 1] + f[k - 1]]
  <2>1. \A k \in 0 .. n : g[k] = IF k = 0 THEN 0 ELSE g[k - 1] + f[k - 1]
    <3> SUFFICES ASSUME NEW k \in 0 .. n, k # 0 PROVE g[k] = g[k - 1] + f[k - 1]
        BY <1>4
    <3>1. k - 1 \in 0 .. n - 1 /\ (k - 1) + 1 = k  OBVIOUS
    <3> QED BY <1>4, <3>1
  <2> QED BY <1>4, <2>1
<1> DEFINE P == PrefixSum(f, n)
<1>6. P = [k \in 0 .. n |-> IF k = 0 THEN 0 ELSE P[k - 1] + f[k - 1]]
      BY <1>5 DEF PrefixSum
<1> HIDE DEF P
<1>7. P[0] = 0  BY <1>6
<1>8. \A k \in 0 .. n - 1 : P[k + 1] = P[k] + f[k]
  <2> SUFFICES ASSUME NEW k \in 0 .. n - 1 PROVE P[k + 1] = P[k] + f[k]  OBVIOUS
  <2>1. k + 1 \in 0 .. n /\ k + 1 # 0 /\ (k + 1) - 1 = k  OBVIOUS
  <2> QED BY <1>6, <2>1
<1>9. P \in [0 .. n -> Nat]
  <2> DEFINE T == {k \in 0 .. n : P[k] \in Nat}
  <2>1. 0 \in T  BY <1>7
  <2>2. \A k \in 0 .. n - 1 : k \in T => k + 1 \in T  BY <1>8
  <2>3. 0 .. n \subseteq T
    <3> HIDE DEF T
    <3> QED BY <2>1, <2>2, Induction
  <2> QED BY <1>6, <2>3
<1> QED BY <1>7, <1>8, <1>9 DEF P

\* Counters that only grow make the later part of a sum grow at least as much
\* as the earlier, so every sum grows.
LEMMA SumGrows ==
    ASSUME NEW n \in Nat, NEW f \in [0 .. n - 1 -> Nat], NEW g \in [0 .. n - 1 -> Nat],
           \A k \in 0 .. n - 1 : f[k] <= g[k],
           NEW a \in 0 .. n
    PROVE  /\ PrefixSum(f, n)[a] <= PrefixSum(g, n)[a]
           /\ PrefixSum(f, n)[n] + PrefixSum(g, n)[a] <= PrefixSum(f, n)[a] + PrefixSum(g, n)[n]
<1> DEFINE P == PrefixSum(f, n)
           Q == PrefixSum(g, n)
<1>1. /\ P \in [0 .. n -> Nat] /\ Q \in [0 .. n -> Nat]
      /\ P[0] = 0 /\ Q[0] = 0
      /\ \A k \in 0 .. n - 1 : P[k + 1] = P[k] + f[k] /\ Q[k + 1] = Q[k] + g[k]
      BY SumUnfolds
<1> HIDE DEF P, Q
<1> DEFINE S == {b \in 0 .. n : P[b] <= Q[b] /\ (a <= b => P[b] + Q[a] <= P[a] + Q[b])}
<1>2. 0 \in S
  <2>1. a <= 0 => a = 0  OBVIOUS
  <2> QED BY <1>1, <2>1
<1>3. ASSUME NEW b \in 0 .. n - 1, b \in S
      PROVE  b + 1 \in S
  <2>0. b \in 0 .. n /\ b + 1 \in 0 .. n  OBVIOUS
  <2>1. /\ P[b] \in Nat /\ Q[b] \in Nat /\ P[a] \in Nat /\ Q[a] \in Nat
        /\ P[b + 1] = P[b] + f[b] /\ Q[b + 1] = Q[b] + g[b]
        /\ f[b] \in Nat /\ g[b] \in Nat /\ f[b] <= g[b]
        BY <1>1, <2>0
  <2>2. P[b] <= Q[b] /\ (a <= b => P[b] + Q[a] <= P[a] + Q[b])  BY <1>3
  <2>3. a <= b + 1 => a <= b \/ a = b + 1  OBVIOUS
  <2>4. P[b + 1] <= Q[b + 1]  BY <2>1, <2>2
  <2>5. CASE a <= b
    <3>1. \A p, q, u, v, x, y \in Nat :
              p + q <= u + v /\ x <= y => (p + x) + q <= u + (v + y)
          OBVIOUS
    <3>2. P[b + 1] + Q[a] <= P[a] + Q[b + 1]  BY <2>1, <2>2, <2>5, <3>1
    <3> QED BY <2>0, <2>4, <3>2
  <2>6. CASE a = b + 1
    <3>1. P[b + 1] + Q[a] <= P[a] + Q[b + 1]  BY <2>1, <2>6
    <3> QED BY <2>0, <2>4, <3>1
  <2>7. CASE ~(a <= b + 1)  BY <2>0, <2>4, <2>7
  <2> QED BY <2>3, <2>5, <2>6, <2>7
<1>4. 0 .. n \subseteq S
  <2> HIDE DEF S
  <2> QED BY <1>2, <1>3, Induction
<1>5. a \in S /\ n \in S  BY <1>4
<1> QED BY <1>5 DEF P, Q

\* A sum is about the counters it has read and no other.
LEMMA SumAgrees ==
    ASSUME NEW n \in Nat, NEW f \in [0 .. n - 1 -> Nat], NEW g \in [0 .. n - 1 -> Nat],
           NEW a \in 0 .. n, \A k \in 0 .. a - 1 : f[k] = g[k]
    PROVE  PrefixSum(f, n)[a] = PrefixSum(g, n)[a]
<1> DEFINE P == PrefixSum(f, n)
           Q == PrefixSum(g, n)
<1>1. /\ P[0] = 0 /\ Q[0] = 0
      /\ \A k \in 0 .. n - 1 : P[k + 1] = P[k] + f[k] /\ Q[k + 1] = Q[k] + g[k]
      BY SumUnfolds
<1> HIDE DEF P, Q
<1> DEFINE S == {b \in 0 .. n : P[b] = Q[b]}
<1>2. 0 \in S  BY <1>1
<1>3. ASSUME NEW b \in 0 .. a - 1, b \in S
      PROVE  b + 1 \in S
  <2>1. b \in 0 .. n - 1 /\ b + 1 \in 0 .. n  OBVIOUS
  <2> QED BY <1>1, <1>3, <2>1
<1>4. a \in Nat  OBVIOUS
<1>5. a \in S
  <2> HIDE DEF S
  <2>1. 0 .. a \subseteq S  BY <1>2, <1>3, <1>4, Induction
  <2> QED BY <1>4, <2>1
<1> QED BY <1>5 DEF P, Q

\* A sum c that a tick of an observer has taken over the first k counters, and
\* the sum p of the tick before: c is not ahead of the counters as they now
\* stand, and what is still to be read makes up for what c lacks of p.
Underway(f, n, p, c, k) ==
    /\ c <= PrefixSum(f, n)[k]
    /\ p + PrefixSum(f, n)[k] <= c + PrefixSum(f, n)[n]

\* Threads that count on during a tick do it no harm.
LEMMA Undisturbed ==
    ASSUME NEW n \in Nat, NEW f \in [0 .. n - 1 -> Nat], NEW g \in [0 .. n - 1 -> Nat],
           \A t \in 0 .. n - 1 : f[t] <= g[t],
           NEW p \in Nat, NEW c \in Nat, NEW k \in 0 .. n
    PROVE  /\ p <= PrefixSum(f, n)[n] => p <= PrefixSum(g, n)[n]
           /\ Underway(f, n, p, c, k) => Underway(g, n, p, c, k)
<1> DEFINE Fk == PrefixSum(f, n)[k]
           Fn == PrefixSum(f, n)[n]
           Gk == PrefixSum(g, n)[k]
           Gn == PrefixSum(g, n)[n]
<1>1. n \in 0 .. n  OBVIOUS
<1>2. Fk <= Gk /\ Fn + Gk <= Fk + Gn /\ Fn <= Gn
      BY <1>1, SumGrows
<1>3. Fk \in Nat /\ Fn \in Nat /\ Gk \in Nat /\ Gn \in Nat
      BY <1>1, SumUnfolds
<1> HIDE DEF Fk, Fn, Gk, Gn
<1>4. p <= Fn => p <= Gn  BY <1>2, <1>3
<1>5. c <= Fk /\ p + Fk <= c + Fn => c <= Gk /\ p + Gk <= c + Gn
      BY <1>2, <1>3
<1> QED BY <1>4, <1>5 DEF Underway, Fk, Fn, Gk, Gn

\* A tick begins with nothing, a turn of its loop reads one counter, and at the
\* end its sum lies between the last tick's and the counters'.
LEMMA Reading ==
    ASSUME NEW n \in Nat, NEW f \in [0 .. n - 1 -> Nat], NEW p \in Nat, NEW c \in Nat
    PROVE  /\ p <= PrefixSum(f, n)[n] => Underway(f, n, p, 0, 0)
           /\ \A k \in 0 .. n - 1 :
                 Underway(f, n, p, c, k) => Underway(f, n, p, c + f[k], k + 1)
           /\ Underway(f, n, p, c, n) => p <= c /\ c <= PrefixSum(f, n)[n]
<1> DEFINE P == PrefixSum(f, n)
           F == P[n]
<1>1. /\ P \in [0 .. n -> Nat]
      /\ P[0] = 0
      /\ \A k \in 0 .. n - 1 : P[k + 1] = P[k] + f[k]
      BY SumUnfolds
<1>2. n \in 0 .. n /\ \A k \in 0 .. n - 1 : k \in 0 .. n  OBVIOUS
<1>d. \A q, x, k : Underway(f, n, q, x, k) <=> x <= P[k] /\ q + P[k] <= x + F
      BY DEF Underway
<1> HIDE DEF P
<1>3. P[n] \in Nat  BY <1>1, <1>2
<1>f. F \in Nat /\ F = P[n]  BY <1>3
<1> HIDE DEF F
<1>4. ASSUME p <= F PROVE Underway(f, n, p, 0, 0)
  <2>1. 0 <= P[0] /\ p + P[0] <= 0 + F  BY <1>1, <1>4, <1>f
  <2> QED BY <1>d, <2>1
<1>5. ASSUME NEW k \in 0 .. n - 1, Underway(f, n, p, c, k)
      PROVE  Underway(f, n, p, c + f[k], k + 1)
  <2>1. \A s, x \in Nat : c <= s /\ p + s <= c + F
                             => c + x <= s + x /\ p + (s + x) <= (c + x) + F
        BY <1>f
  <2>2. P[k] \in Nat /\ f[k] \in Nat  BY <1>1, <1>2
  <2> QED BY <1>1, <1>5, <1>d, <2>1, <2>2
<1>6. Underway(f, n, p, c, n) => p <= c /\ c <= F
      BY <1>f, <1>d
<1> QED BY <1>4, <1>5, <1>6 DEF F, P

LEMMA DisjointUnion ==
    ASSUME NEW S, NEW T, IsFiniteSet(S), IsFiniteSet(T), S \cap T = {}
    PROVE  /\ IsFiniteSet(S \cup T)
           /\ Cardinality(S \cup T) = Cardinality(S) + Cardinality(T)
<1>1. /\ IsFiniteSet(S \cup T)
      /\ Cardinality(S \cup T) = Cardinality(S) + Cardinality(T) - Cardinality(S \cap T)
      BY FS_Union
<1>2. Cardinality(S \cap T) = 0  BY FS_EmptySet
<1>3. Cardinality(S) \in Nat /\ Cardinality(T) \in Nat  BY FS_CardinalityType
<1> QED BY <1>1, <1>2, <1>3

\* The union of the first n of a family of sets.
Joint(S, n) == UNION {S[k] : k \in 0 .. n - 1}

\* The sizes of sets that do not overlap add up to the size of their union.
LEMMA SumOfSizes ==
    ASSUME NEW n \in Nat, NEW f \in [0 .. n - 1 -> Nat], NEW S,
           \A k \in 0 .. n - 1 : IsFiniteSet(S[k]) /\ f[k] = Cardinality(S[k]),
           \A k, m \in 0 .. n - 1 : k # m => S[k] \cap S[m] = {}
    PROVE  IsFiniteSet(Joint(S, n)) /\ PrefixSum(f, n)[n] = Cardinality(Joint(S, n))
<1> DEFINE P == PrefixSum(f, n)
           U(k) == Joint(S, k)
           T == {k \in 0 .. n : IsFiniteSet(U(k)) /\ P[k] = Cardinality(U(k))}
<1>1. P[0] = 0 /\ \A k \in 0 .. n - 1 : P[k + 1] = P[k] + f[k]
      BY SumUnfolds
<1> HIDE DEF P
<1>2. 0 \in T
  <2>1. U(0) = {}  BY DEF Joint
  <2>2. IsFiniteSet(U(0)) /\ Cardinality(U(0)) = 0  BY <2>1, FS_EmptySet
  <2> HIDE DEF U
  <2> QED BY <1>1, <2>2
<1>3. ASSUME NEW k \in 0 .. n - 1, k \in T
      PROVE  k + 1 \in T
  <2>1. U(k + 1) = U(k) \cup S[k]
    <3>1. \A i : i \in 0 .. (k + 1) - 1 <=> i \in 0 .. k - 1 \/ i = k  OBVIOUS
    <3> QED BY <3>1 DEF Joint
  <2>2. U(k) \cap S[k] = {}
    <3>1. \A i \in 0 .. k - 1 : i \in 0 .. n - 1 /\ i # k  OBVIOUS
    <3> QED BY <3>1 DEF Joint
  <2>3. k + 1 \in 0 .. n  OBVIOUS
  <2>4. IsFiniteSet(U(k)) /\ P[k] = Cardinality(U(k))  BY <1>3
  <2> HIDE DEF U
  <2>5. /\ IsFiniteSet(U(k) \cup S[k])
        /\ Cardinality(U(k) \cup S[k]) = Cardinality(U(k)) + Cardinality(S[k])
        BY <2>2, <2>4, DisjointUnion
  <2> QED BY <1>1, <2>1, <2>3, <2>4, <2>5
<1>4. n \in T
  <2> HIDE DEF T
  <2>1. 0 .. n \subseteq T  BY <1>2, <1>3, Induction
  <2> QED BY <2>1
<1> QED BY <1>4 DEF P

-----------------------------------------------------------------------------
(* Division                                                                  *)

LEMMA DivMod ==
    ASSUME NEW a \in Nat, NEW b \in Nat \ {0}
    PROVE  /\ a \div b \in Nat /\ a % b \in 0 .. b - 1
           /\ a = b * (a \div b) + (a % b)
BY SMT

\* Quotient and remainder are the only ones.
LEMMA DivModUnique ==
    ASSUME NEW b \in Nat \ {0}, NEW q \in Nat, NEW r \in 0 .. b - 1,
           NEW p \in Nat, NEW s \in 0 .. b - 1, b * q + r = b * p + s
    PROVE  q = p /\ r = s
<1>1. ASSUME NEW x \in Nat, NEW y \in Nat, x < y
      PROVE  b * x + b <= b * y
  <2>1. PICK d \in Nat : y = x + 1 + d
    <3>1. y - x - 1 \in Nat /\ y = x + 1 + (y - x - 1)  BY <1>1
    <3> QED BY <3>1
  <2>2. b * y = b * x + b + b * d  BY <2>1
  <2>3. b * d \in Nat /\ b * x \in Nat  BY <2>1
  <2> QED BY <2>2, <2>3
<1>2. b * q \in Nat /\ b * p \in Nat  OBVIOUS
<1>3. ~(q < p)  BY <1>1, <1>2
<1>4. ~(p < q)  BY <1>1, <1>2
<1>5. q = p  BY <1>3, <1>4
<1> QED BY <1>2, <1>5

\* The residues of the numbers a stride of b visits.
LEMMA Residues ==
    ASSUME NEW b \in Nat \ {0}
    PROVE  /\ \A x \in Nat : x % b \in 0 .. b - 1
           /\ \A x \in 0 .. b - 1 : x % b = x
           /\ \A x \in Nat : (x + b) % b = x % b
           /\ \A x, y \in Nat : x % b = y % b /\ x <= y /\ y < x + b => x = y
<1>1. \A x \in Nat : x % b \in 0 .. b - 1  BY DivMod
<1>2. ASSUME NEW x \in 0 .. b - 1 PROVE x % b = x
  <2>1. x = b * (x \div b) + (x % b) /\ x = b * 0 + x  BY DivMod
  <2> QED BY <2>1, DivMod, DivModUnique
<1>3. ASSUME NEW x \in Nat PROVE (x + b) % b = x % b
  <2>1. x = b * (x \div b) + (x % b) /\ x \div b \in Nat /\ x % b \in 0 .. b - 1
        BY DivMod
  <2>2. b * (x \div b + 1) = b * (x \div b) + b  BY <2>1
  <2>3. x + b = b * (x \div b + 1) + (x % b)  BY <2>1, <2>2
  <2>4. x + b \in Nat /\ x \div b + 1 \in Nat  BY <2>1
  <2>5. x + b = b * ((x + b) \div b) + ((x + b) % b)
        /\ (x + b) \div b \in Nat /\ (x + b) % b \in 0 .. b - 1
        BY <2>4, DivMod
  <2>6. b * ((x + b) \div b) + ((x + b) % b) = b * (x \div b + 1) + (x % b)
        BY <2>3, <2>5
  <2> DEFINE q == (x + b) \div b
             r == (x + b) % b
             p == x \div b + 1
             s == x % b
  <2>7. q \in Nat /\ r \in 0 .. b - 1 /\ p \in Nat /\ s \in 0 .. b - 1
        /\ b * q + r = b * p + s
        BY <2>1, <2>4, <2>5, <2>6
  <2> HIDE DEF q, r, p, s
  <2>8. r = s  BY <2>7, DivModUnique
  <2> QED BY <2>8 DEF r, s
<1>4. ASSUME NEW x \in Nat, NEW y \in Nat, x % b = y % b, x <= y, y < x + b
      PROVE  x = y
  <2>1. x = b * (x \div b) + (x % b) /\ x \div b \in Nat /\ x % b \in 0 .. b - 1
        BY DivMod
  <2>2. y = b * (y \div b) + (y % b) /\ y \div b \in Nat
        BY DivMod
  <2>3. y - x \in 0 .. b - 1  BY <1>4
  <2> DEFINE p == x \div b
             q == y \div b
  <2> HIDE DEF p, q
  <2>4. b * p + (y - x) = b * q + 0
    <3>1. b * p \in Nat /\ b * q \in Nat  BY <2>1, <2>2 DEF p, q
    <3> QED BY <1>4, <2>1, <2>2, <3>1 DEF p, q
  <2>5. 0 \in 0 .. b - 1 /\ p \in Nat /\ q \in Nat  BY <2>1, <2>2 DEF p, q
  <2>6. y - x = 0  BY <2>3, <2>4, <2>5, DivModUnique
  <2> QED BY <2>6
<1> QED BY <1>1, <1>2, <1>3, <1>4

-----------------------------------------------------------------------------
(* Ranks                                                                     *)

\* How many members of a finite set of numbers are below one of them: no two
\* have as many, and the larger has more.
Rank(T, c) == Cardinality({d \in T : d < c})

LEMMA RankInSet ==
    ASSUME NEW T, T \subseteq Nat, IsFiniteSet(T), NEW c \in T
    PROVE  /\ Rank(T, c) \in 0 .. Cardinality(T) - 1 /\ Cardinality(T) \in Nat
           /\ IsFiniteSet({d \in T : d < c})
<1> DEFINE B == {d \in T : d < c}
<1>1. B \in SUBSET T /\ c \notin B  OBVIOUS
<1>2. Rank(T, c) = Cardinality(B)  BY DEF Rank
<1>3. IsFiniteSet(B) => IsFiniteSet({d \in T : d < c})  OBVIOUS
<1> HIDE DEF B
<1>4. IsFiniteSet(B) /\ Cardinality(B) <= Cardinality(T) /\ Cardinality(B) # Cardinality(T)
      BY <1>1, FS_Subset
<1>5. Cardinality(B) \in Nat /\ Cardinality(T) \in Nat  BY <1>4, FS_CardinalityType
<1> QED BY <1>2, <1>3, <1>4, <1>5

LEMMA RankOrder ==
    ASSUME NEW T, T \subseteq Nat, IsFiniteSet(T)
    PROVE  /\ \A c, d \in T : c < d => Rank(T, c) < Rank(T, d)
           /\ \A c, d \in T : Rank(T, c) = Rank(T, d) => c = d
<1> DEFINE B(c) == {d \in T : d < c}
<1>1. ASSUME NEW c \in T, NEW d \in T, c < d PROVE Rank(T, c) < Rank(T, d)
  <2>1. c \in B(d) /\ c \notin B(c)  BY <1>1
  <2>2. B(c) \in SUBSET B(d)
    <3>1. \A x \in T : x < c => x < d  BY <1>1
    <3> QED BY <3>1
  <2>3. B(c) # B(d)  BY <2>1
  <2>4. Rank(T, c) = Cardinality(B(c)) /\ Rank(T, d) = Cardinality(B(d))  BY DEF Rank
  <2>5. IsFiniteSet(B(d)) /\ Rank(T, c) \in Nat /\ Rank(T, d) \in Nat
    <3>1. IsFiniteSet(B(d))  BY RankInSet
    <3>2. Rank(T, c) \in 0 .. Cardinality(T) - 1 /\ Rank(T, d) \in 0 .. Cardinality(T) - 1
          /\ Cardinality(T) \in Nat
          BY RankInSet
    <3> QED BY <3>1, <3>2
  <2> HIDE DEF B
  <2>6. Cardinality(B(c)) <= Cardinality(B(d)) /\ Cardinality(B(d)) # Cardinality(B(c))
        BY <2>2, <2>3, <2>5, FS_Subset
  <2> QED BY <2>4, <2>5, <2>6
<1>2. ASSUME NEW c \in T, NEW d \in T, Rank(T, c) = Rank(T, d), c # d PROVE FALSE
  <2>1. c < d \/ d < c  BY <1>2
  <2>2. Rank(T, c) < Rank(T, d) \/ Rank(T, d) < Rank(T, c)  BY <1>1, <2>1
  <2>3. Rank(T, c) \in Nat
    <3>1. Rank(T, c) \in 0 .. Cardinality(T) - 1 /\ Cardinality(T) \in Nat  BY RankInSet
    <3> QED BY <3>1
  <2> QED BY <1>2, <2>2, <2>3
<1> QED BY <1>1, <1>2
=============================================================================
