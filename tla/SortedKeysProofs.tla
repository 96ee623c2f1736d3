--------------------------- MODULE SortedKeysProofs ---------------------------
(***************************************************************************)
(* Facts the other proofs share.  A lower bound exists and is unique, so   *)
(* that the CHOOSE in LowerBound names the one index that has the          *)
(* property; the powers of two double, and no odd number but 1 divides one.*)
(***************************************************************************)
EXTENDS SortedKeys, Powers, WellFoundedInduction, TLAPS

LessThan == {pair \in Nat \X Nat : pair[1] < pair[2]}

(* The library's theorem that < is well founded on the naturals, for the   *)
(* relation as a set of pairs, which the provers can handle.               *)
LEMMA LessThanWellFounded == IsWellFoundedOn(LessThan, Nat)
BY NatLessThanWellFounded DEF OpToRel, LessThan

(* Every set of naturals that is not empty has a least element.            *)
LEMMA LeastElement ==
  ASSUME NEW S \in SUBSET Nat, S # {}
  PROVE  \E m \in S : \A k \in S : m <= k
<1>1. PICK m \in S : \A y \in S : ~ (<<y, m>> \in LessThan)
  BY LessThanWellFounded, WFMin
<1>2. \A y \in S : ~ (y < m)
  BY <1>1 DEF LessThan
<1>3. m \in Nat /\ \A y \in S : y \in Nat
  OBVIOUS
<1>4. \A y \in S : m <= y
  BY <1>2, <1>3
<1> QED BY <1>4

(* A lower bound exists: the least index that has no smaller key at it.    *)
LEMMA LowerBoundExists ==
  ASSUME NEW m, NEW n \in Nat, NEW key
  PROVE  \E i \in 0 .. n : IsLowerBound(m, n, key, i)
<1> DEFINE S == {i \in 0 .. n : i < n => ~ (m[i] < key)}
<1>1. n \in S /\ S \in SUBSET Nat
  OBVIOUS
<1>2. PICK i \in S : \A k \in S : i <= k
  BY <1>1, LeastElement
<1>3. i \in 0 .. n /\ (i < n => ~ (m[i] < key))
  BY <1>2
<1>4. ASSUME NEW j \in 0 .. (i - 1)
      PROVE  m[j] < key
  <2>1. j \in 0 .. n /\ j < n /\ ~ (i <= j)
    BY <1>3
  <2>2. j \notin S
    BY <1>2, <2>1
  <2> QED BY <2>1, <2>2
<1> QED BY <1>3, <1>4 DEF IsLowerBound

(* What the operations of the btree use of LowerBound.                     *)
LEMMA LowerBoundProperty ==
  ASSUME NEW m, NEW n \in Nat, NEW key
  PROVE  /\ LowerBound(m, n, key) \in 0 .. n
         /\ IsLowerBound(m, n, key, LowerBound(m, n, key))
BY LowerBoundExists DEF LowerBound

(* A lower bound is the only one there is.                                 *)
LEMMA LowerBoundUnique ==
  ASSUME NEW m, NEW n \in Nat, NEW key,
         NEW i \in 0 .. n, IsLowerBound(m, n, key, i)
  PROVE  i = LowerBound(m, n, key)
<1> DEFINE b == LowerBound(m, n, key)
<1>1. b \in 0 .. n /\ IsLowerBound(m, n, key, b)
  BY LowerBoundProperty
<1>2. ~ (i < b)
  <2>1. SUFFICES ASSUME i < b PROVE FALSE
    OBVIOUS
  <2>2. i \in 0 .. (b - 1) /\ i < n
    BY <1>1, <2>1
  <2>3. m[i] < key /\ ~ (m[i] < key)
    BY <1>1, <2>2 DEF IsLowerBound
  <2> QED BY <2>3
<1>3. ~ (b < i)
  <2>1. SUFFICES ASSUME b < i PROVE FALSE
    OBVIOUS
  <2>2. b \in 0 .. (i - 1) /\ b < n
    BY <1>1, <2>1
  <2>3. m[b] < key /\ ~ (m[b] < key)
    BY <1>1, <2>2 DEF IsLowerBound
  <2> QED BY <2>3
<1> QED BY <1>1, <1>2, <1>3

-----------------------------------------------------------------------------
(* Powers of two.                                                          *)

(* The first m + 1 powers of two.                                          *)
PowersUpTo(g, m) == g = [n \in 0 .. m |-> IF n = 0 THEN 1 ELSE 2 * g[n - 1]]

LEMMA PowersUpToValues ==
  ASSUME NEW m \in Nat, NEW g
  PROVE  PowersUpTo(g, m) <=> /\ DOMAIN g = 0 .. m
                              /\ g = [n \in 0 .. m |-> g[n]]
                              /\ \A n \in 0 .. m : g[n] = IF n = 0 THEN 1 ELSE 2 * g[n - 1]
BY DEF PowersUpTo

LEMMA PowersExist ==
  ASSUME NEW last \in Nat
  PROVE  \E g : PowersUpTo(g, last)
<1> DEFINE S == {m \in Nat : ~ \E g : PowersUpTo(g, m)}
<1>1. SUFFICES ASSUME S # {} PROVE FALSE
  OBVIOUS
<1>2. PICK m \in S : \A k \in S : m <= k
  <2>1. S \in SUBSET Nat
    OBVIOUS
  <2> QED BY <1>1, <2>1, LeastElement
<1>3. m \in Nat /\ ~ \E g : PowersUpTo(g, m)
  BY <1>2
<1>4. m # 0
  <2> DEFINE g == [n \in 0 .. 0 |-> 1]
  <2>1. DOMAIN g = 0 .. 0 /\ g = [n \in 0 .. 0 |-> g[n]]
        /\ \A n \in 0 .. 0 : g[n] = IF n = 0 THEN 1 ELSE 2 * g[n - 1]
    OBVIOUS
  <2> HIDE DEF g
  <2>2. PowersUpTo(g, 0)
    BY <2>1, PowersUpToValues
  <2> QED BY <1>3, <2>2
<1>5. m - 1 \in Nat /\ m - 1 \notin S
  BY <1>2, <1>3, <1>4
<1>6. PICK g : PowersUpTo(g, m - 1)
  BY <1>5
<1> DEFINE h == [n \in 0 .. m |-> IF n = m THEN 2 * g[m - 1] ELSE g[n]]
<1>7. \A n \in 0 .. (m - 1) : g[n] = IF n = 0 THEN 1 ELSE 2 * g[n - 1]
  BY <1>5, <1>6, PowersUpToValues
<1>8. ASSUME NEW n \in 0 .. m
      PROVE  h[n] = IF n = 0 THEN 1 ELSE 2 * h[n - 1]
  <2>1. CASE n = m
    <3>1. n - 1 \in 0 .. m /\ n - 1 # m
      BY <1>3, <1>4, <2>1
    <3>2. h[n - 1] = g[m - 1] /\ h[n] = 2 * g[m - 1]
      BY <2>1, <3>1
    <3> QED BY <1>4, <2>1, <3>2
  <2>2. CASE n # m
    <3>1. n \in 0 .. (m - 1) /\ h[n] = g[n]
      BY <1>3, <2>2
    <3>2. CASE n = 0
      BY <1>7, <3>1, <3>2
    <3>3. CASE n # 0
      <4>1. n - 1 \in 0 .. m /\ n - 1 # m
        BY <1>3, <3>1, <3>3
      <4>2. h[n - 1] = g[n - 1]
        BY <4>1
      <4> QED BY <1>7, <3>1, <3>3, <4>2
    <3> QED BY <3>2, <3>3
  <2> QED BY <2>1, <2>2
<1>9. DOMAIN h = 0 .. m /\ h = [n \in 0 .. m |-> h[n]]
  OBVIOUS
<1> HIDE DEF h
<1>10. PowersUpTo(h, m)
  BY <1>3, <1>8, <1>9, PowersUpToValues
<1> QED BY <1>3, <1>10

(* Two lists of the powers agree where both have an entry.                 *)
LEMMA PowersUnique ==
  ASSUME NEW m \in Nat, NEW g, PowersUpTo(g, m),
         NEW l \in Nat, NEW h, PowersUpTo(h, l),
         NEW n \in Nat, n <= m, n <= l
  PROVE  g[n] = h[n]
<1> DEFINE S == {i \in 0 .. n : g[i] # h[i]}
<1>1. SUFFICES ASSUME S # {} PROVE FALSE
  OBVIOUS
<1>2. PICK i \in S : \A j \in S : i <= j
  <2>1. S \in SUBSET Nat
    OBVIOUS
  <2> QED BY <1>1, <2>1, LeastElement
<1>3. i \in 0 .. n /\ g[i] # h[i]
  BY <1>2
<1>4. i \in 0 .. m /\ i \in 0 .. l
  BY <1>3
<1>5. g[i] = (IF i = 0 THEN 1 ELSE 2 * g[i - 1]) /\ h[i] = (IF i = 0 THEN 1 ELSE 2 * h[i - 1])
  BY <1>4, PowersUpToValues
<1>6. i # 0
  BY <1>3, <1>5
<1>7. i - 1 \in 0 .. n /\ ~ (i <= i - 1)
  BY <1>3, <1>6
<1>8. g[i - 1] = h[i - 1]
  BY <1>2, <1>7
<1> QED BY <1>3, <1>5, <1>8

LEMMA TwoToSteps ==
  /\ TwoTo[0] = 1
  /\ \A n \in Nat : TwoTo[n + 1] = 2 * TwoTo[n]
<1> DEFINE upTo(n) == CHOOSE g : PowersUpTo(g, n)
           f == [n \in Nat |-> upTo(n)[n]]
<1>1. ASSUME NEW n \in Nat
      PROVE  PowersUpTo(upTo(n), n)
  BY PowersExist
<1>2. ASSUME NEW n \in Nat
      PROVE  f[n] = IF n = 0 THEN 1 ELSE 2 * f[n - 1]
  <2>1. f[n] = upTo(n)[n]
    OBVIOUS
  <2> DEFINE g == upTo(n)
  <2>2. PowersUpTo(g, n)
    BY <1>1
  <2> HIDE DEF g
  <2>3. n \in 0 .. n
    OBVIOUS
  <2>4. g[n] = IF n = 0 THEN 1 ELSE 2 * g[n - 1]
    BY <2>2, <2>3, PowersUpToValues
  <2>5. ASSUME n # 0
        PROVE  g[n - 1] = f[n - 1]
    <3> DEFINE l == n - 1
               h == upTo(n - 1)
    <3>1. l \in Nat /\ l <= n /\ l <= l
      BY <2>5
    <3>2. PowersUpTo(h, l)
      BY <1>1, <3>1
    <3>3. f[l] = h[l]
      BY <3>1
    <3> HIDE DEF l, h
    <3>4. g[l] = h[l]
      BY <2>2, <3>1, <3>2, PowersUnique
    <3> QED BY <3>3, <3>4 DEF l
  <2> QED BY <2>1, <2>4, <2>5 DEF g
<1>3. f = [n \in Nat |-> f[n]]
  OBVIOUS
<1> HIDE DEF f
<1>4. f = [n \in Nat |-> IF n = 0 THEN 1 ELSE 2 * f[n - 1]]
  BY <1>2, <1>3
<1>5. TwoTo = CHOOSE g : g = [n \in Nat |-> IF n = 0 THEN 1 ELSE 2 * g[n - 1]]
  BY DEF TwoTo
<1>6. TwoTo = [n \in Nat |-> IF n = 0 THEN 1 ELSE 2 * TwoTo[n - 1]]
  BY <1>4, <1>5
<1>7. \A n \in Nat : TwoTo[n] = IF n = 0 THEN 1 ELSE 2 * TwoTo[n - 1]
  BY <1>6
<1>8. TwoTo[0] = 1
  BY <1>7
<1>9. ASSUME NEW n \in Nat
      PROVE  TwoTo[n + 1] = 2 * TwoTo[n]
  <2>1. n + 1 \in Nat /\ n + 1 # 0 /\ (n + 1) - 1 = n
    OBVIOUS
  <2> QED BY <1>7, <2>1
<1> QED BY <1>8, <1>9

(* Every power of two is a number, and not 0.                              *)
LEMMA TwoToPositive == \A n \in Nat : TwoTo[n] \in Nat \ {0}
<1> DEFINE S == {n \in Nat : TwoTo[n] \notin Nat \ {0}}
<1>1. SUFFICES ASSUME S # {} PROVE FALSE
  OBVIOUS
<1>2. PICK n \in S : \A k \in S : n <= k
  <2>1. S \in SUBSET Nat
    OBVIOUS
  <2> QED BY <1>1, <2>1, LeastElement
<1>3. n \in Nat /\ TwoTo[n] \notin Nat \ {0}
  BY <1>2
<1>4. n # 0
  BY <1>3, TwoToSteps
<1>5. n - 1 \in Nat /\ ~ (n <= n - 1) /\ (n - 1) + 1 = n
  BY <1>3, <1>4
<1>6. TwoTo[n - 1] \in Nat \ {0}
  BY <1>2, <1>5
<1>7. TwoTo[n] = 2 * TwoTo[n - 1]
  BY <1>5, TwoToSteps
<1> QED BY <1>3, <1>6, <1>7

Divides(d, m) == \E q \in Nat : m = d * q

(* An even multiple of an odd number is that of an even one.               *)
LEMMA OddTimes ==
  ASSUME NEW d \in Nat, d % 2 = 1, NEW q \in Nat, (d * q) % 2 = 0
  PROVE  q % 2 = 0
<1>1. SUFFICES ASSUME q % 2 # 0 PROVE FALSE
  OBVIOUS
<1> DEFINE a == d \div 2
           b == q \div 2
<1>2. a \in Nat /\ b \in Nat /\ d = 2 * a + 1 /\ q = 2 * b + 1
  BY <1>1
<1> HIDE DEF a, b
<1>3. d * q = (2 * a + 1) * (2 * b + 1)
  BY <1>2
<1>4. (2 * a + 1) * (2 * b + 1) = 2 * (2 * (a * b) + a + b) + 1
  BY <1>2
<1> DEFINE c == 2 * (a * b) + a + b
<1>5. c \in Nat
  <2>1. a * b \in Nat
    BY <1>2
  <2> QED BY <1>2, <2>1
<1>6. d * q = 2 * c + 1
  BY <1>3, <1>4
<1> HIDE DEF c
<1>7. (2 * c + 1) % 2 = 1
  BY <1>5
<1> QED BY <1>6, <1>7

(* No odd number but 1 divides a power of two.                             *)
LEMMA OddDivisor ==
  ASSUME NEW n \in Nat, NEW d \in Nat, d % 2 = 1, Divides(d, TwoTo[n])
  PROVE  d = 1
<1> DEFINE S == {m \in Nat : Divides(d, TwoTo[m])}
<1>1. PICK m \in S : \A k \in S : m <= k
  <2>1. S \in SUBSET Nat /\ n \in S
    OBVIOUS
  <2>2. S # {}
    BY <2>1
  <2> HIDE DEF S
  <2> QED BY <2>1, <2>2, LeastElement
<1>2. m \in Nat /\ Divides(d, TwoTo[m])
  BY <1>1
<1>3. PICK q \in Nat : TwoTo[m] = d * q
  BY <1>2 DEF Divides
<1>4. CASE m = 0
  <2>1. d * q = 1
    BY <1>3, <1>4, TwoToSteps
  <2>2. d >= 2 => d * q = 0 \/ d * q >= 2
    OBVIOUS
  <2> QED BY <2>1, <2>2
<1>5. CASE m # 0
  <2>1. m - 1 \in Nat /\ ~ (m <= m - 1) /\ (m - 1) + 1 = m
    BY <1>2, <1>5
  <2> DEFINE p == TwoTo[m - 1]
  <2>2. p \in Nat /\ d * q = 2 * p
    BY <1>3, <2>1, TwoToSteps, TwoToPositive
  <2> HIDE DEF p
  <2>3. (2 * p) % 2 = 0
    BY <2>2
  <2>4. q % 2 = 0
    BY <2>2, <2>3, OddTimes
  <2> DEFINE r == q \div 2
  <2>5. r \in Nat /\ q = 2 * r
    BY <2>4
  <2> HIDE DEF r
  <2>6. d * q = 2 * (d * r)
    BY <2>5
  <2>7. d * r \in Nat
    BY <2>5
  <2>8. p = d * r
    BY <2>2, <2>6, <2>7
  <2>9. m - 1 \in S
    BY <2>1, <2>5, <2>8 DEF Divides, p
  <2> QED BY <1>1, <2>1, <2>9
<1> QED BY <1>4, <1>5

(* A power of two that divides a product with an odd factor divides the    *)
(* other factor.  The least d for which it divides d * b divides every     *)
(* other such d: the odd factor and the power itself.                      *)
LEMMA OddFactorGoes ==
  ASSUME NEW n \in Nat, NEW a \in Nat, a % 2 = 1, NEW b \in Nat, Divides(TwoTo[n], a * b)
  PROVE  Divides(TwoTo[n], b)
<1> DEFINE m == TwoTo[n]
           S == {d \in Nat \ {0} : Divides(m, d * b)}
<1>1. m \in Nat /\ m # 0
  BY TwoToPositive
<1>2. Divides(m, a * b) /\ a # 0
  OBVIOUS
<1>3. \A d \in Nat : d % 2 = 1 /\ Divides(d, m) => d = 1
  BY OddDivisor
<1> HIDE DEF m
<1>4. m \in S /\ a \in S
  <2>1. Divides(m, m * b)
    BY <1>1 DEF Divides
  <2> QED BY <1>1, <1>2, <2>1
<1>5. PICK least \in S : \A d \in S : least <= d
  <2>1. S \in SUBSET Nat /\ S # {}
    BY <1>4
  <2> HIDE DEF S
  <2> QED BY <2>1, LeastElement
<1>6. least \in Nat /\ least # 0 /\ Divides(m, least * b)
  BY <1>5
<1>7. PICK y \in Nat : least * b = m * y
  BY <1>6 DEF Divides
<1>8. ASSUME NEW d \in S
      PROVE  Divides(least, d)
  <2> DEFINE q == d \div least
             r == d % least
  <2>1. d \in Nat /\ q \in Nat /\ r \in Nat /\ d = least * q + r /\ r < least
    BY <1>6
  <2>2. PICK x \in Nat : d * b = m * x
    BY <1>8 DEF Divides
  <2> HIDE DEF q, r
  <2>3. CASE r = 0
    <3>1. d = least * q
      BY <1>6, <2>1, <2>3
    <3> QED BY <2>1, <3>1 DEF Divides
  <2>4. CASE r # 0
    <3>1. d * b = (least * b) * q + r * b
      <4>1. d * b = (least * q + r) * b
        BY <2>1
      <4>2. (least * q + r) * b = (least * b) * q + r * b
        BY <1>6, <2>1
      <4> QED BY <4>1, <4>2
    <3>2. r * b = m * x - (m * y) * q
      <4>1. r * b \in Nat /\ (least * b) * q \in Nat /\ d * b \in Nat
        BY <1>6, <2>1
      <4>2. m * x = (m * y) * q + r * b
        BY <1>7, <2>2, <3>1
      <4>3. (m * y) * q \in Nat /\ m * x \in Nat
        BY <1>1, <2>1
      <4> QED BY <4>1, <4>2, <4>3
    <3>3. m * x - (m * y) * q = m * (x - y * q)
      BY <1>1, <2>1
    <3> DEFINE z == x - y * q
    <3>4. z \in Int
      <4>1. y * q \in Int
        BY <2>1
      <4> QED BY <4>1
    <3>5. r * b = m * z
      BY <3>2, <3>3
    <3> HIDE DEF z
    <3>6. z \in Nat
      <4>1. SUFFICES ASSUME z <= -1 PROVE FALSE
        BY <3>4
      <4>2. m * z <= -m
        BY <1>1, <3>4, <4>1
      <4>3. r * b >= 0
        BY <2>1
      <4>4. m > 0
        BY <1>1
      <4>5. m * z \in Int
        BY <1>1, <3>4
      <4> QED BY <1>1, <3>5, <4>2, <4>3, <4>4, <4>5
    <3>7. r \in S
      BY <2>1, <2>4, <3>5, <3>6 DEF Divides
    <3>8. least <= r
      BY <1>5, <3>7
    <3> QED BY <1>6, <2>1, <3>8
  <2> QED BY <2>3, <2>4
<1>9. least % 2 = 1
  <2>1. PICK c \in Nat : a = least * c
    BY <1>4, <1>8 DEF Divides
  <2>2. SUFFICES ASSUME least % 2 = 0 PROVE FALSE
    BY <1>6
  <2> DEFINE l == least \div 2
  <2>3. l \in Nat /\ least = 2 * l
    BY <1>6, <2>2
  <2> HIDE DEF l
  <2>4. least * c = 2 * (l * c) /\ l * c \in Nat
    BY <2>3
  <2> DEFINE e == l * c
  <2>5. a = 2 * e /\ e \in Nat
    BY <2>1, <2>4
  <2> HIDE DEF e
  <2> QED BY <2>5
<1>10. least = 1
  BY <1>3, <1>4, <1>6, <1>8, <1>9
<1>11. b = m * y
  BY <1>7, <1>10
<1> QED BY <1>11 DEF Divides, m
=============================================================================
