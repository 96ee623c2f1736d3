-------------------------- MODULE MemoryReportProofs --------------------------
(***************************************************************************)
(* What holds of the memory accounting for any addresses, block sizes and  *)
(* growth of the report, whichever allocations fail.                       *)
(*                                                                         *)
(* The bytes in use are compared with a sum over the report, a fold that   *)
(* picks the entries one by one: the first part shows that the order of    *)
(* picking does not matter, and what an entry more or less does to the     *)
(* sum.  The second part is the inductive invariant and its steps.         *)
(***************************************************************************)
EXTENDS MemoryReport, FiniteSetTheorems, SortedKeysProofs

-----------------------------------------------------------------------------
(* Sums over a function.                                                   *)

Chosen(s) == CHOOSE x \in s : TRUE

(* g sums f over the members of T, a set of sets.                          *)
Summing(f, T, g) ==
  g = [s \in T |-> IF s = {} THEN 0 ELSE f[Chosen(s)] + g[s \ {Chosen(s)}]]

Partial(f) == CHOOSE g : Summing(f, SUBSET (DOMAIN f), g)

LEMMA SumIsPartial ==
  ASSUME NEW f
  PROVE  SumFunction(f) = Partial(f)[DOMAIN f]
BY DEF SumFunction, SumFunctionOnSet, FoldFunctionOnSet, MapThenFoldSet, Partial, Summing, Chosen

LEMMA SummingValues ==
  ASSUME NEW f, NEW T, NEW g
  PROVE  Summing(f, T, g) <=>
           /\ g = [s \in T |-> g[s]]
           /\ \A s \in T : g[s] = IF s = {} THEN 0 ELSE f[Chosen(s)] + g[s \ {Chosen(s)}]
BY DEF Summing

(* One element less.                                                       *)
LEMMA OneLess ==
  ASSUME NEW D, IsFiniteSet(D), NEW s \in SUBSET D, NEW p \in s
  PROVE  /\ IsFiniteSet(s) /\ Cardinality(s) \in Nat \ {0}
         /\ s \ {p} \in SUBSET D
         /\ Cardinality(s \ {p}) = Cardinality(s) - 1
<1>1. IsFiniteSet(s)
  BY FS_Subset
<1>2. Cardinality(s \ {p}) = Cardinality(s) - 1
  BY <1>1, FS_RemoveElement
<1>3. Cardinality(s) \in Nat /\ (Cardinality(s) = 0 <=> s = {})
  BY <1>1, FS_CardinalityType, FS_EmptySet
<1> QED BY <1>1, <1>2, <1>3

LEMMA ChosenIn ==
  ASSUME NEW s, s # {}
  PROVE  Chosen(s) \in s
BY DEF Chosen

Small(D, m) == {s \in SUBSET D : Cardinality(s) <= m}

(* A sum exists over the subsets of every size.                            *)
LEMMA SummingExists ==
  ASSUME NEW f, NEW D, IsFiniteSet(D), NEW last \in Nat
  PROVE  \E g : Summing(f, Small(D, last), g)
<1> DEFINE Upto(m) == Small(D, m)
           Bad == {m \in Nat : ~ \E g : Summing(f, Upto(m), g)}
<1>0. \A m : Upto(m) = {s \in SUBSET D : Cardinality(s) <= m}
  BY DEF Small
<1>1. SUFFICES ASSUME Bad # {} PROVE FALSE
  OBVIOUS
<1> HIDE DEF Upto
<1>2. PICK m \in Bad : \A k \in Bad : m <= k
  <2>1. Bad \in SUBSET Nat
    OBVIOUS
  <2> HIDE DEF Bad
  <2> QED BY <1>1, <2>1, LeastElement
<1>3. m \in Nat /\ ~ \E g : Summing(f, Upto(m), g)
  BY <1>2
(* From g for smaller sets, if there are any, to h for sets of size m.     *)
<1>4. ASSUME NEW g, m # 0 => Summing(f, Upto(m - 1), g)
      PROVE  \E h : Summing(f, Upto(m), h)
  <2> DEFINE h == [s \in Upto(m) |-> IF s = {} THEN 0 ELSE f[Chosen(s)] + g[s \ {Chosen(s)}]]
  <2>1. h = [s \in Upto(m) |-> h[s]]
    OBVIOUS
  <2>2. ASSUME NEW s \in Upto(m), m # 0, s \in Upto(m - 1)
        PROVE  h[s] = g[s]
    <3>1. g[s] = IF s = {} THEN 0 ELSE f[Chosen(s)] + g[s \ {Chosen(s)}]
      BY <1>4, <2>2, SummingValues
    <3> QED BY <3>1
  <2>3. ASSUME NEW s \in Upto(m)
        PROVE  h[s] = IF s = {} THEN 0 ELSE f[Chosen(s)] + h[s \ {Chosen(s)}]
    <3>1. CASE s = {}
      BY <3>1
    <3>2. CASE s # {}
      <4> DEFINE t == s \ {Chosen(s)}
      <4>1. /\ t \in SUBSET D
            /\ Cardinality(t) = Cardinality(s) - 1
            /\ Cardinality(s) \in Nat \ {0}
        BY <1>0, <3>2, ChosenIn, OneLess
      <4>2. Cardinality(s) <= m
        BY <1>0
      <4> HIDE DEF t
      <4>3. m # 0 /\ Cardinality(t) <= m - 1 /\ Cardinality(t) <= m
        BY <1>3, <4>1, <4>2
      <4>4. t \in Upto(m) /\ t \in Upto(m - 1)
        BY <1>0, <4>1, <4>3
      <4>5. h[t] = g[t]
        BY <2>2, <4>3, <4>4
      <4>6. h[s] = f[Chosen(s)] + g[t]
        BY <3>2 DEF t
      <4> QED BY <3>2, <4>5, <4>6 DEF t
    <3> QED BY <3>1, <3>2
  <2> HIDE DEF h
  <2>4. Summing(f, Upto(m), h)
    BY <2>1, <2>3, SummingValues
  <2> QED BY <2>4
<1>5. CASE m = 0
  BY <1>3, <1>4, <1>5
<1>6. CASE m # 0
  <2>1. m - 1 \in Nat /\ ~ (m <= m - 1)
    BY <1>3, <1>6
  <2>2. m - 1 \notin Bad
    <3> HIDE DEF Bad
    <3> QED BY <1>2, <2>1
  <2>3. PICK g : Summing(f, Upto(m - 1), g)
    BY <2>1, <2>2
  <2> QED BY <1>3, <1>4, <2>3
<1> QED BY <1>5, <1>6

(* A function of which a sum can be taken.                                 *)
Summable(f) ==
  /\ IsFiniteSet(DOMAIN f)
  /\ f = [x \in DOMAIN f |-> f[x]]
  /\ \A x \in DOMAIN f : f[x] \in Nat

LEMMA PartialSteps ==
  ASSUME NEW f, Summable(f)
  PROVE  /\ Partial(f)[{}] = 0
         /\ \A s \in SUBSET (DOMAIN f) : s # {} =>
              Partial(f)[s] = f[Chosen(s)] + Partial(f)[s \ {Chosen(s)}]
<1> DEFINE D == DOMAIN f
           n == Cardinality(D)
           g == Partial(f)
<1>1. IsFiniteSet(D) /\ n \in Nat
  BY FS_CardinalityType DEF Summable
<1>2. \A s \in SUBSET D : Cardinality(s) <= n
  BY <1>1, FS_Subset
<1>3. Small(D, n) = SUBSET D
  BY <1>2 DEF Small
<1> HIDE DEF n
<1>4. \E h : Summing(f, SUBSET D, h)
  <2> HIDE DEF D
  <2>1. \E h : Summing(f, Small(D, n), h)
    BY <1>1, SummingExists
  <2> QED BY <1>3, <2>1
<1>5. Summing(f, SUBSET D, g)
  BY <1>4 DEF Partial
<1> HIDE DEF D, g
<1>6. \A s \in SUBSET D : g[s] = IF s = {} THEN 0 ELSE f[Chosen(s)] + g[s \ {Chosen(s)}]
  BY <1>5, SummingValues
<1>7. {} \in SUBSET D
  OBVIOUS
<1>8. g[{}] = 0
  BY <1>6, <1>7
<1>9. \A s \in SUBSET D : s # {} => g[s] = f[Chosen(s)] + g[s \ {Chosen(s)}]
  BY <1>6
<1> QED BY <1>8, <1>9 DEF D, g

(* The smallest of a collection of subsets of a finite set.                *)
LEMMA SmallestSubset ==
  ASSUME NEW D, IsFiniteSet(D), NEW T \in SUBSET (SUBSET D), T # {}
  PROVE  \E s \in T : \A t \in T : Cardinality(s) <= Cardinality(t)
<1> DEFINE N == {Cardinality(s) : s \in T}
<1>1. \A s \in T : Cardinality(s) \in Nat
  BY FS_Subset, FS_CardinalityType
<1>2. N \in SUBSET Nat /\ N # {}
  BY <1>1
<1>3. PICK n \in N : \A k \in N : n <= k
  <2> HIDE DEF N
  <2> QED BY <1>2, LeastElement
<1>4. PICK s \in T : n = Cardinality(s)
  OBVIOUS
<1> QED BY <1>3, <1>4

LEMMA PartialNat ==
  ASSUME NEW f, Summable(f), NEW s \in SUBSET (DOMAIN f)
  PROVE  Partial(f)[s] \in Nat
<1> DEFINE D == DOMAIN f
           Bad == {t \in SUBSET D : Partial(f)[t] \notin Nat}
<1>0. IsFiniteSet(D) /\ \A x \in D : f[x] \in Nat
  BY DEF Summable
<1>1. SUFFICES ASSUME Bad # {} PROVE FALSE
  OBVIOUS
<1>2. PICK t \in Bad : \A u \in Bad : Cardinality(t) <= Cardinality(u)
  <2>1. Bad \in SUBSET (SUBSET D)
    OBVIOUS
  <2> HIDE DEF Bad, D
  <2> QED BY <1>0, <1>1, <2>1, SmallestSubset
<1>3. t \in SUBSET D /\ Partial(f)[t] \notin Nat
  BY <1>2
<1>4. t # {}
  <2>1. Partial(f)[{}] = 0
    BY PartialSteps
  <2> QED BY <1>3, <2>1
<1> DEFINE x == Chosen(t)
<1>5. x \in t
  BY <1>4, ChosenIn
<1>6. /\ t \ {x} \in SUBSET D
      /\ Cardinality(t \ {x}) = Cardinality(t) - 1
      /\ Cardinality(t) \in Nat
  BY <1>0, <1>3, <1>5, OneLess
<1>7. Partial(f)[t] = f[x] + Partial(f)[t \ {x}]
  BY <1>3, <1>4, PartialSteps
<1> HIDE DEF x
<1>8. t \ {x} \notin Bad
  <2>1. ~ (Cardinality(t) <= Cardinality(t \ {x}))
    BY <1>6
  <2> QED BY <1>2, <2>1
<1>9. Partial(f)[t \ {x}] \in Nat
  BY <1>6, <1>8
<1>10. f[x] \in Nat
  BY <1>0, <1>3, <1>5
<1> QED BY <1>3, <1>7, <1>9, <1>10

(* Any entry may be taken out of the sum, not only the one chosen: of a    *)
(* smallest set for which it may not, the chosen one could be taken out    *)
(* too.                                                                    *)
LEMMA PartialAny ==
  ASSUME NEW f, Summable(f), NEW s \in SUBSET (DOMAIN f), NEW p \in s
  PROVE  Partial(f)[s] = f[p] + Partial(f)[s \ {p}]
<1> DEFINE D == DOMAIN f
           g == Partial(f)
           Bad == {t \in SUBSET D : \E q \in t : g[t] # f[q] + g[t \ {q}]}
<1>0. IsFiniteSet(D) /\ \A x \in D : f[x] \in Nat
  BY DEF Summable
<1>1. SUFFICES ASSUME Bad # {} PROVE FALSE
  OBVIOUS
<1>2. PICK t \in Bad : \A u \in Bad : Cardinality(t) <= Cardinality(u)
  <2>1. Bad \in SUBSET (SUBSET D)
    OBVIOUS
  <2> HIDE DEF Bad, D
  <2> QED BY <1>0, <1>1, <2>1, SmallestSubset
<1>3. t \in SUBSET D
  BY <1>2
<1>4. PICK q \in t : g[t] # f[q] + g[t \ {q}]
  BY <1>2
<1> DEFINE x == Chosen(t)
<1>5. x \in t
  BY <1>4, ChosenIn
<1>6. g[t] = f[x] + g[t \ {x}]
  BY <1>3, <1>4, PartialSteps
<1> HIDE DEF x
<1>7. q # x
  BY <1>4, <1>6
<1>8. ASSUME NEW y \in t
      PROVE  /\ t \ {y} \in SUBSET D
             /\ \A z \in t \ {y} : g[t \ {y}] = f[z] + g[(t \ {y}) \ {z}]
  <2>1. /\ t \ {y} \in SUBSET D
        /\ Cardinality(t \ {y}) = Cardinality(t) - 1
        /\ Cardinality(t) \in Nat
    BY <1>0, <1>3, OneLess
  <2>2. ~ (Cardinality(t) <= Cardinality(t \ {y}))
    BY <2>1
  <2>3. t \ {y} \notin Bad
    BY <1>2, <2>2
  <2> QED BY <2>1, <2>3
<1>9. g[t \ {x}] = f[q] + g[(t \ {x}) \ {q}]
  BY <1>5, <1>7, <1>8
<1>10. g[t \ {q}] = f[x] + g[(t \ {q}) \ {x}]
  BY <1>5, <1>7, <1>8
<1>11. (t \ {x}) \ {q} = (t \ {q}) \ {x}
  OBVIOUS
<1> DEFINE rest == g[(t \ {q}) \ {x}]
<1>12. rest \in Nat
  <2>1. (t \ {q}) \ {x} \in SUBSET D
    BY <1>3
  <2> QED BY <2>1, PartialNat
<1>13. f[x] \in Nat /\ f[q] \in Nat
  BY <1>0, <1>3, <1>5
<1>14. g[t \ {x}] = f[q] + rest /\ g[t \ {q}] = f[x] + rest
  BY <1>9, <1>10, <1>11
<1> HIDE DEF rest, g
<1>15. f[x] + (f[q] + rest) = f[q] + (f[x] + rest)
  BY <1>12, <1>13
<1> QED BY <1>4, <1>6, <1>14, <1>15

(* The sums of functions that agree on a set agree there.                  *)
LEMMA PartialSame ==
  ASSUME NEW f, Summable(f), NEW g, Summable(g),
         NEW s \in SUBSET (DOMAIN f), s \in SUBSET (DOMAIN g), \A x \in s : f[x] = g[x]
  PROVE  Partial(f)[s] = Partial(g)[s]
<1> DEFINE Bad == {t \in SUBSET s : Partial(f)[t] # Partial(g)[t]}
<1>0. IsFiniteSet(s)
  BY FS_Subset DEF Summable
<1>1. SUFFICES ASSUME Bad # {} PROVE FALSE
  OBVIOUS
<1>2. PICK t \in Bad : \A u \in Bad : Cardinality(t) <= Cardinality(u)
  <2>1. Bad \in SUBSET (SUBSET s)
    OBVIOUS
  <2> HIDE DEF Bad
  <2> QED BY <1>0, <1>1, <2>1, SmallestSubset
<1>3. /\ t \in SUBSET s /\ t \in SUBSET (DOMAIN f) /\ t \in SUBSET (DOMAIN g)
      /\ Partial(f)[t] # Partial(g)[t]
  BY <1>2
<1>4. t # {}
  BY <1>3, PartialSteps
<1> DEFINE x == Chosen(t)
<1>5. x \in t
  BY <1>4, ChosenIn
<1>6. Partial(f)[t] = f[x] + Partial(f)[t \ {x}] /\ Partial(g)[t] = g[x] + Partial(g)[t \ {x}]
  BY <1>3, <1>4, PartialSteps
<1> HIDE DEF x
<1>7. f[x] = g[x]
  BY <1>3, <1>5
<1>8. /\ t \ {x} \in SUBSET s
      /\ ~ (Cardinality(t) <= Cardinality(t \ {x}))
  BY <1>0, <1>3, <1>5, OneLess
<1>9. t \ {x} \notin Bad
  BY <1>2, <1>8
<1>10. Partial(f)[t \ {x}] = Partial(g)[t \ {x}]
  BY <1>8, <1>9
<1> QED BY <1>3, <1>6, <1>7, <1>10

LEMMA EmptySummable == Summable(Empty) /\ DOMAIN Empty = {} /\ SumFunction(Empty) = 0
<1>1. DOMAIN Empty = {} /\ Empty = [x \in DOMAIN Empty |-> Empty[x]]
  BY DEF Empty
<1>2. Summable(Empty)
  BY <1>1, FS_EmptySet DEF Summable
<1>3. Partial(Empty)[{}] = 0
  BY <1>2, PartialSteps
<1> QED BY <1>1, <1>2, <1>3, SumIsPartial

LEMMA SumNat ==
  ASSUME NEW f, Summable(f)
  PROVE  SumFunction(f) \in Nat
BY PartialNat, SumIsPartial

(* An entry more.                                                          *)
LEMMA SumWith ==
  ASSUME NEW f, Summable(f), NEW p, p \notin DOMAIN f, NEW n \in Nat
  PROVE  /\ Summable(With(f, p, n))
         /\ DOMAIN With(f, p, n) = DOMAIN f \cup {p}
         /\ With(f, p, n)[p] = n
         /\ \A q \in DOMAIN f : With(f, p, n)[q] = f[q]
         /\ SumFunction(With(f, p, n)) = SumFunction(f) + n
<1> DEFINE g == With(f, p, n)
           D == DOMAIN f
<1>1. /\ DOMAIN g = D \cup {p}
      /\ g = [x \in DOMAIN g |-> g[x]]
      /\ g[p] = n
      /\ \A q \in D : g[q] = f[q]
  BY DEF With
<1> HIDE DEF g
<1>2. IsFiniteSet(D) /\ \A q \in D : f[q] \in Nat
  BY DEF Summable
<1>3. IsFiniteSet(D \cup {p})
  BY <1>2, FS_AddElement
<1>4. Summable(g)
  BY <1>1, <1>2, <1>3 DEF Summable
<1>5. D \cup {p} \in SUBSET (DOMAIN g) /\ D \in SUBSET (DOMAIN g) /\ p \in D \cup {p} /\ D \in SUBSET (DOMAIN f)
  BY <1>1
<1>6. Partial(g)[D \cup {p}] = g[p] + Partial(g)[(D \cup {p}) \ {p}]
  BY <1>4, <1>5, PartialAny
<1>7. (D \cup {p}) \ {p} = D
  OBVIOUS
<1>8. Partial(g)[D] = Partial(f)[D]
  BY <1>1, <1>4, <1>5, PartialSame
<1>9. SumFunction(g) = n + SumFunction(f)
  BY <1>1, <1>6, <1>7, <1>8, SumIsPartial
<1>10. SumFunction(f) \in Nat
  BY SumNat
<1>11. SumFunction(g) = SumFunction(f) + n
  BY <1>9, <1>10
<1> QED BY <1>1, <1>4, <1>11 DEF g

(* An entry less.                                                          *)
LEMMA WithoutShape ==
  ASSUME NEW f, NEW p
  PROVE  /\ DOMAIN Without(f, p) = DOMAIN f \ {p}
         /\ \A q \in DOMAIN f \ {p} : Without(f, p)[q] = f[q]
         /\ Without(f, p) = [x \in DOMAIN Without(f, p) |-> Without(f, p)[x]]
BY DEF Without, Restrict

LEMMA WithoutNothing ==
  ASSUME NEW f, Summable(f), NEW p, p \notin DOMAIN f
  PROVE  Without(f, p) = f
<1>1. DOMAIN f \ {p} = DOMAIN f
  OBVIOUS
<1>2. Without(f, p) = [x \in DOMAIN f |-> f[x]]
  BY <1>1 DEF Without, Restrict
<1> QED BY <1>2 DEF Summable

LEMMA SumWithout ==
  ASSUME NEW f, Summable(f), NEW p
  PROVE  /\ Summable(Without(f, p))
         /\ p \in DOMAIN f => SumFunction(f) = SumFunction(Without(f, p)) + f[p]
         /\ p \notin DOMAIN f => SumFunction(f) = SumFunction(Without(f, p))
<1> DEFINE g == Without(f, p)
           D == DOMAIN f
<1>1. /\ DOMAIN g = D \ {p}
      /\ \A q \in D \ {p} : g[q] = f[q]
      /\ g = [x \in DOMAIN g |-> g[x]]
  BY WithoutShape
<1>2. p \notin D => g = f
  BY WithoutNothing
<1> HIDE DEF g
<1>3. IsFiniteSet(D) /\ \A q \in D : f[q] \in Nat
  BY DEF Summable
<1>4. IsFiniteSet(D \ {p})
  BY <1>3, FS_RemoveElement
<1>5. Summable(g)
  BY <1>1, <1>3, <1>4 DEF Summable
<1>6. ASSUME p \in D
      PROVE  SumFunction(f) = SumFunction(g) + f[p]
  <2>1. Partial(f)[D] = f[p] + Partial(f)[D \ {p}]
    BY <1>6, PartialAny
  <2>2. D \ {p} \in SUBSET (DOMAIN f) /\ D \ {p} \in SUBSET (DOMAIN g)
    BY <1>1
  <2>3. Partial(f)[D \ {p}] = Partial(g)[D \ {p}]
    BY <1>1, <1>5, <2>2, PartialSame
  <2>4. SumFunction(f) = f[p] + SumFunction(g)
    BY <1>1, <2>1, <2>3, SumIsPartial
  <2>5. SumFunction(g) \in Nat /\ f[p] \in Nat
    BY <1>3, <1>5, <1>6, SumNat
  <2> QED BY <2>4, <2>5
<1> QED BY <1>2, <1>5, <1>6 DEF g

(* A finite function has one entry more or less.                           *)
LEMMA CountWith ==
  ASSUME NEW f, Summable(f), NEW p, p \notin DOMAIN f
  PROVE  Cardinality(DOMAIN f \cup {p}) = Cardinality(DOMAIN f) + 1
BY FS_AddElement DEF Summable

LEMMA CountWithout ==
  ASSUME NEW f, Summable(f), NEW p \in DOMAIN f
  PROVE  Cardinality(DOMAIN f \ {p}) = Cardinality(DOMAIN f) - 1
BY FS_RemoveElement DEF Summable

-----------------------------------------------------------------------------
(* The inductive invariant.                                                *)

(* The blocks hp and the report rep of them, with the bytes said to be in  *)
(* use and what has gone wrong.  Also the moments in the middle of realloc *)
(* and free are described so, when the old entry is gone already.          *)
Consistent(hp, rep, bytes, wrong) ==
  /\ Summable(hp) /\ DOMAIN hp \subseteq Address
  /\ Summable(rep)
  /\ \A p \in DOMAIN rep \ {NullPointer} : p \in DOMAIN hp /\ rep[p] = hp[p]
  /\ NullPointer \in DOMAIN rep => wrong \cap {"realloc", "realloc null"} # {}
  /\ wrong = {} => DOMAIN rep = DOMAIN hp
  /\ bytes \in Nat /\ SumFunction(rep) <= bytes
  /\ wrong = {} => bytes = SumFunction(rep)

(* Every block and what the report allocated for itself, less what it      *)
(* freed again, one storage apart, is a block in use.                      *)
Balanced ==
  "realloc null" \notin mishaps => g_allocations = 1 + d_deallocations + Cardinality(DOMAIN heap)

Counters ==
  /\ g_allocations \in Nat
  /\ d_deallocations \in Nat
  /\ g_bytes_in_use \in Nat
  /\ g_bytes_in_use_peak \in Nat
  /\ g_bytes_in_use <= g_bytes_in_use_peak

(* Nothing is left of a report that is closed; an open one is consistent   *)
(* with the heap, balanced, and its storage is nobody's block.             *)
MInv ==
  /\ Counters
  /\ storage = NullPointer => heap = Empty /\ report = Empty
  /\ storage # NullPointer =>
       /\ storage \in Address \ DOMAIN heap
       /\ Consistent(heap, report, g_bytes_in_use, mishaps)
       /\ Balanced

LEMMA NullIsNoAddress == NullPointer \notin Address
BY NullPointerAssumption

LEMMA SizesAreNat == Sizes \subseteq Nat
BY SizesAssumption

(* What an insertion into the report may come to.                          *)
LEMMA InsertedOutcomes ==
  ASSUME NEW rep, NEW room, NEW p, NEW n, NEW out \in Inserted(rep, room, p, n)
  PROVE  /\ out.storage \in room \cup {storage}
         /\ out.nested \in Nat
         /\ \/ ~ out.taken /\ out.report = rep
            \/ out.taken /\ out.report = With(rep, p, n) /\ p \notin DOMAIN rep
<1>1. ASSUME NEW s \in room \cup {storage}, NEW tc, NEW k \in {0, 1}, out = Entered(rep, s, tc, k, p, n)
      PROVE  /\ out.storage \in room \cup {storage}
             /\ out.nested \in Nat
             /\ \/ ~ out.taken /\ out.report = rep
                \/ out.taken /\ out.report = With(rep, p, n) /\ p \notin DOMAIN rep
  BY <1>1 DEF Entered, Outcome
<1>2. CASE out \in {Entered(rep, storage, table_count, 0, p, n)}
  BY <1>1, <1>2
<1>3. CASE out \in {Outcome(rep, storage, table_count, 0, FALSE)}
  BY <1>3 DEF Outcome
<1>4. CASE out \in {Entered(rep, s, table_count * ExpandFactor, 1, p, n) : s \in room}
  BY <1>1, <1>4
<1> QED BY <1>2, <1>3, <1>4 DEF Inserted

(* `allocated` allocations, and some of the report's own that were freed.  *)
Nested(allocated) ==
  \E k \in Nat : /\ g_allocations' = g_allocations + allocated + k
                 /\ d_deallocations' = d_deallocations + k

(* Counting and recording a block leaves the sums right, whether the       *)
(* report takes the entry or refuses it.                                   *)
LEMMA RecordCounts ==
  ASSUME NEW rep, Summable(rep), NEW bytes \in Nat, SumFunction(rep) <= bytes,
         NEW room, NEW p, NEW n \in Nat, NEW allocated \in Nat, NEW mishap, Counters,
         Record(rep, bytes, room, p, n, allocated, mishap)
  PROVE  /\ Counters'
         /\ storage' \in room \cup {storage}
         /\ mishaps \cup mishap \subseteq mishaps'
         /\ Summable(report')
         /\ SumFunction(report') <= g_bytes_in_use'
         /\ bytes = SumFunction(rep) /\ mishaps' = {} => g_bytes_in_use' = SumFunction(report')
         /\ \/ report' = rep /\ mishaps' # {}
            \/ report' = With(rep, p, n) /\ p \notin DOMAIN rep
         /\ Nested(allocated)
<1>1. PICK out \in Inserted(rep, room, p, n) :
           /\ report' = out.report
           /\ storage' = out.storage
           /\ g_allocations' = g_allocations + allocated + out.nested
           /\ d_deallocations' = d_deallocations + out.nested
           /\ mishaps' = mishaps \cup mishap \cup (IF out.taken THEN {} ELSE {"record"})
  BY DEF Record
<1>2. /\ out.storage \in room \cup {storage}
      /\ out.nested \in Nat
      /\ \/ ~ out.taken /\ out.report = rep
         \/ out.taken /\ out.report = With(rep, p, n) /\ p \notin DOMAIN rep
  BY InsertedOutcomes
<1>3. \/ report' = rep /\ mishaps' # {}
      \/ report' = With(rep, p, n) /\ p \notin DOMAIN rep
  BY <1>1, <1>2
<1>4. Nested(allocated)
  BY <1>1, <1>2 DEF Nested
<1>5. /\ g_bytes_in_use' = bytes + n
      /\ g_bytes_in_use_peak' = IF g_bytes_in_use_peak < bytes + n THEN bytes + n ELSE g_bytes_in_use_peak
  BY DEF Record
<1>6. Counters'
  BY <1>1, <1>2, <1>5 DEF Counters
<1>7. SumFunction(rep) \in Nat
  BY SumNat
<1>8. CASE report' = rep /\ mishaps' # {}
  <2>1. SumFunction(report') <= g_bytes_in_use'
    BY <1>5, <1>7, <1>8
  <2> QED BY <1>1, <1>2, <1>4, <1>6, <1>8, <2>1
<1>9. CASE report' = With(rep, p, n) /\ p \notin DOMAIN rep
  <2>1. Summable(report') /\ SumFunction(report') = SumFunction(rep) + n
    BY <1>9, SumWith
  <2>2. /\ SumFunction(report') <= g_bytes_in_use'
        /\ bytes = SumFunction(rep) => g_bytes_in_use' = SumFunction(report')
    BY <1>5, <1>7, <2>1
  <2> QED BY <1>1, <1>2, <1>4, <1>6, <1>9, <2>1, <2>2
<1> QED BY <1>3, <1>8, <1>9

(* A new block p of the heap hp is recorded.                               *)
LEMMA BlockRecorded ==
  ASSUME NEW hp, NEW rep, NEW bytes, Consistent(hp, rep, bytes, mishaps),
         NEW room, NEW p \in Address, p \notin DOMAIN hp,
         NEW n \in Nat, NEW allocated \in Nat, Counters,
         Record(rep, bytes, room, p, n, allocated, {}),
         heap' = With(hp, p, n)
  PROVE  /\ Counters'
         /\ Consistent(heap', report', g_bytes_in_use', mishaps')
         /\ DOMAIN heap' = DOMAIN hp \cup {p}
         /\ Cardinality(DOMAIN heap') = Cardinality(DOMAIN hp) + 1
<1>1. /\ Summable(hp) /\ DOMAIN hp \subseteq Address
      /\ Summable(rep)
      /\ \A q \in DOMAIN rep \ {NullPointer} : q \in DOMAIN hp /\ rep[q] = hp[q]
      /\ NullPointer \in DOMAIN rep => mishaps \cap {"realloc", "realloc null"} # {}
      /\ mishaps = {} => DOMAIN rep = DOMAIN hp
      /\ bytes \in Nat /\ SumFunction(rep) <= bytes
      /\ mishaps = {} => bytes = SumFunction(rep)
  BY DEF Consistent
<1>2. /\ Counters'
      /\ mishaps \subseteq mishaps'
      /\ Summable(report')
      /\ SumFunction(report') <= g_bytes_in_use'
      /\ bytes = SumFunction(rep) /\ mishaps' = {} => g_bytes_in_use' = SumFunction(report')
      /\ \/ report' = rep /\ mishaps' # {}
         \/ report' = With(rep, p, n) /\ p \notin DOMAIN rep
  BY <1>1, RecordCounts
<1>3. /\ Summable(heap')
      /\ DOMAIN heap' = DOMAIN hp \cup {p}
      /\ heap'[p] = n
      /\ \A q \in DOMAIN hp : heap'[q] = hp[q]
  <2>1. Summable(heap')
    BY <1>1, SumWith
  <2>2. heap' = [q \in DOMAIN hp \cup {p} |-> IF q = p THEN n ELSE hp[q]]
    BY DEF With
  <2>3. /\ DOMAIN heap' = DOMAIN hp \cup {p}
        /\ heap'[p] = n
        /\ \A q \in DOMAIN hp : heap'[q] = hp[q]
    BY ONLY <2>2, p \notin DOMAIN hp
  <2> QED BY <2>1, <2>3
<1>4. Cardinality(DOMAIN heap') = Cardinality(DOMAIN hp) + 1
  BY <1>1, <1>3, CountWith
<1>5. /\ p # NullPointer
      /\ g_bytes_in_use' \in Nat
  BY <1>2, NullIsNoAddress DEF Counters
<1>6. CASE report' = rep /\ mishaps' # {}
  <2>1. \A q \in DOMAIN report' \ {NullPointer} : q \in DOMAIN heap' /\ report'[q] = heap'[q]
    BY <1>1, <1>3, <1>6
  <2>2. NullPointer \in DOMAIN report' => mishaps' \cap {"realloc", "realloc null"} # {}
    BY <1>1, <1>2, <1>6
  <2>3. Consistent(heap', report', g_bytes_in_use', mishaps')
    BY <1>1, <1>2, <1>3, <1>5, <1>6, <2>1, <2>2 DEF Consistent
  <2> QED BY <1>2, <1>3, <1>4, <2>3
<1>7. CASE report' = With(rep, p, n) /\ p \notin DOMAIN rep
  <2>1. /\ DOMAIN report' = DOMAIN rep \cup {p}
        /\ report'[p] = n
        /\ \A q \in DOMAIN rep : report'[q] = rep[q]
    <3>1. report' = [q \in DOMAIN rep \cup {p} |-> IF q = p THEN n ELSE rep[q]]
      BY <1>7 DEF With
    <3> QED BY ONLY <1>7, <3>1
  <2>2. \A q \in DOMAIN report' \ {NullPointer} : q \in DOMAIN heap' /\ report'[q] = heap'[q]
    BY <1>1, <1>3, <2>1
  <2>3. NullPointer \in DOMAIN report' => mishaps' \cap {"realloc", "realloc null"} # {}
    BY <1>1, <1>2, <1>5, <2>1
  <2>4. mishaps' = {} => DOMAIN report' = DOMAIN heap' /\ g_bytes_in_use' = SumFunction(report')
    BY <1>1, <1>2, <1>3, <2>1
  <2>5. Consistent(heap', report', g_bytes_in_use', mishaps')
    BY <1>1, <1>2, <1>3, <1>5, <2>2, <2>3, <2>4 DEF Consistent
  <2> QED BY <1>2, <1>3, <1>4, <2>5
<1> QED BY <1>2, <1>6, <1>7

(* The null pointer is recorded in place of a block.                       *)
LEMMA NullRecorded ==
  ASSUME NEW rep, NEW bytes \in Nat, Summable(rep), SumFunction(rep) <= bytes,
         Summable(heap), DOMAIN heap \subseteq Address,
         \A q \in DOMAIN rep \ {NullPointer} : q \in DOMAIN heap /\ rep[q] = heap[q],
         NEW n \in Nat, NEW room, NEW allocated \in Nat, Counters,
         NEW mishap \in {"realloc", "realloc null"},
         Record(rep, bytes, room, NullPointer, n, allocated, {mishap}),
         heap' = heap
  PROVE  /\ Counters'
         /\ Consistent(heap', report', g_bytes_in_use', mishaps')
<1>1. /\ Counters'
      /\ mishaps \cup {mishap} \subseteq mishaps'
      /\ Summable(report')
      /\ SumFunction(report') <= g_bytes_in_use'
      /\ \/ report' = rep /\ mishaps' # {}
         \/ report' = With(rep, NullPointer, n) /\ NullPointer \notin DOMAIN rep
  BY RecordCounts
<1>2. g_bytes_in_use' \in Nat
  BY <1>1 DEF Counters
<1>3. mishaps' \cap {"realloc", "realloc null"} # {} /\ mishaps' # {}
  BY <1>1
<1>4. \A q \in DOMAIN report' \ {NullPointer} : q \in DOMAIN heap' /\ report'[q] = heap'[q]
  <2>1. CASE report' = rep
    BY <2>1
  <2>2. CASE report' = With(rep, NullPointer, n) /\ NullPointer \notin DOMAIN rep
    <3>1. /\ DOMAIN report' = DOMAIN rep \cup {NullPointer}
          /\ \A q \in DOMAIN rep : report'[q] = rep[q]
      <4>1. report' = [q \in DOMAIN rep \cup {NullPointer} |-> IF q = NullPointer THEN n ELSE rep[q]]
        BY <2>2 DEF With
      <4> QED BY ONLY <2>2, <4>1
    <3> QED BY <3>1
  <2> QED BY <1>1, <2>1, <2>2
<1> QED BY <1>1, <1>2, <1>3, <1>4 DEF Consistent

(* The entry and the block of p go; the null pointer has no block.         *)
LEMMA BlockErased ==
  ASSUME NEW p \in DOMAIN heap \cup {NullPointer},
         Consistent(heap, report, g_bytes_in_use, mishaps)
  PROVE  /\ Consistent(Without(heap, p), Without(report, p), BytesWithout(p), mishaps)
         /\ BytesWithout(p) <= g_bytes_in_use
<1>1. /\ Summable(heap) /\ DOMAIN heap \subseteq Address
      /\ Summable(report)
      /\ \A q \in DOMAIN report \ {NullPointer} : q \in DOMAIN heap /\ report[q] = heap[q]
      /\ NullPointer \in DOMAIN report => mishaps \cap {"realloc", "realloc null"} # {}
      /\ mishaps = {} => DOMAIN report = DOMAIN heap
      /\ g_bytes_in_use \in Nat /\ SumFunction(report) <= g_bytes_in_use
      /\ mishaps = {} => g_bytes_in_use = SumFunction(report)
  BY DEF Consistent
<1> DEFINE hp == Without(heap, p)
           rep == Without(report, p)
           bytes == BytesWithout(p)
<1>2. /\ DOMAIN hp = DOMAIN heap \ {p}
      /\ \A q \in DOMAIN heap \ {p} : hp[q] = heap[q]
      /\ DOMAIN rep = DOMAIN report \ {p}
      /\ \A q \in DOMAIN report \ {p} : rep[q] = report[q]
  BY WithoutShape
<1>3. /\ Summable(hp)
      /\ Summable(rep)
      /\ p \in DOMAIN report => SumFunction(report) = SumFunction(rep) + report[p]
      /\ p \notin DOMAIN report => SumFunction(report) = SumFunction(rep)
  BY <1>1, SumWithout
<1>4. /\ p \in DOMAIN report => bytes = g_bytes_in_use - report[p]
      /\ p \notin DOMAIN report => bytes = g_bytes_in_use
  BY DEF BytesWithout
<1> HIDE DEF hp, rep, bytes
<1>5. SumFunction(rep) \in Nat
  BY <1>3, SumNat
<1>6. p \in DOMAIN report => report[p] \in Nat
  BY <1>1 DEF Summable
<1>7. /\ bytes \in Nat /\ bytes <= g_bytes_in_use
      /\ SumFunction(rep) <= bytes
      /\ mishaps = {} => bytes = SumFunction(rep)
  <2> DEFINE sum == SumFunction(report)
             less == SumFunction(rep)
  <2>0. /\ less \in Nat /\ g_bytes_in_use \in Nat /\ sum <= g_bytes_in_use
        /\ mishaps = {} => g_bytes_in_use = sum
    BY <1>1, <1>5
  <2>1. CASE p \in DOMAIN report
    <3> DEFINE n == report[p]
    <3>1. n \in Nat /\ sum = less + n /\ bytes = g_bytes_in_use - n
      BY <1>3, <1>4, <1>6, <2>1
    <3> HIDE DEF n, sum, less
    <3> QED BY <2>0, <3>1 DEF less
  <2>2. CASE p \notin DOMAIN report
    <3>1. sum = less /\ bytes = g_bytes_in_use
      BY <1>3, <1>4, <2>2
    <3> HIDE DEF sum
    <3> QED BY <2>0, <3>1
  <2> QED BY <2>1, <2>2
<1>8. \A q \in DOMAIN rep \ {NullPointer} : q \in DOMAIN hp /\ rep[q] = hp[q]
  BY <1>1, <1>2
<1>9. /\ NullPointer \in DOMAIN rep => mishaps \cap {"realloc", "realloc null"} # {}
      /\ mishaps = {} => DOMAIN rep = DOMAIN hp
      /\ DOMAIN hp \subseteq Address
  BY <1>1, <1>2
<1>10. Consistent(hp, rep, bytes, mishaps)
  BY <1>3, <1>7, <1>8, <1>9 DEF Consistent
<1> QED BY <1>7, <1>10 DEF hp, rep, bytes

(* Where the report may be after an allocation.                            *)
LEMMA StorageMoves ==
  ASSUME NEW rep, Summable(rep), NEW bytes \in Nat, SumFunction(rep) <= bytes,
         NEW room, NEW p, NEW n \in Nat, NEW allocated \in Nat, NEW mishap, Counters,
         Record(rep, bytes, room, p, n, allocated, mishap),
         storage # NullPointer,
         storage \in Address \ DOMAIN heap', room \subseteq Address \ DOMAIN heap'
  PROVE  storage' # NullPointer /\ storage' \in Address \ DOMAIN heap'
<1>1. storage' \in room \cup {storage}
  BY RecordCounts
<1> QED BY <1>1, NullIsNoAddress

(* The balance after a block more, or none more, in the heap.              *)
LEMMA StaysBalanced ==
  ASSUME NEW rep, Summable(rep), NEW bytes \in Nat, SumFunction(rep) <= bytes,
         NEW room, NEW p, NEW n \in Nat, NEW allocated \in Nat, NEW mishap, Counters,
         Record(rep, bytes, room, p, n, allocated, mishap),
         Balanced, Cardinality(DOMAIN heap) \in Nat,
         \/ Cardinality(DOMAIN heap') = Cardinality(DOMAIN heap) + allocated
         \/ "realloc null" \in mishap
  PROVE  Balanced'
<1>1. mishaps \cup mishap \subseteq mishaps'
  BY RecordCounts
<1>2. SUFFICES ASSUME "realloc null" \notin mishaps'
               PROVE  g_allocations' = 1 + d_deallocations' + Cardinality(DOMAIN heap')
  BY DEF Balanced
<1> DEFINE c == Cardinality(DOMAIN heap)
           d == Cardinality(DOMAIN heap')
<1>3. g_allocations = 1 + d_deallocations + c /\ d = c + allocated
  BY <1>1, <1>2 DEF Balanced
<1>4. c \in Nat /\ g_allocations \in Nat /\ d_deallocations \in Nat
  BY DEF Counters
<1>5. PICK k \in Nat : /\ g_allocations' = g_allocations + allocated + k
                       /\ d_deallocations' = d_deallocations + k
  <2>1. Nested(allocated)
    BY RecordCounts
  <2> QED BY <2>1 DEF Nested
<1> HIDE DEF c, d
<1>6. g_allocations' = 1 + d_deallocations' + d
  BY ONLY <1>3, <1>4, <1>5, k \in Nat, allocated \in Nat
<1> QED BY <1>6 DEF d

(* What the invariant says while the report is open.                       *)
LEMMA OpenState ==
  ASSUME MInv, IsOpen
  PROVE  /\ Counters /\ Balanced
         /\ storage # NullPointer /\ storage \in Address \ DOMAIN heap
         /\ Consistent(heap, report, g_bytes_in_use, mishaps)
         /\ Summable(heap) /\ DOMAIN heap \subseteq Address
         /\ Cardinality(DOMAIN heap) \in Nat
<1>1. /\ Counters /\ Balanced
      /\ storage # NullPointer /\ storage \in Address \ DOMAIN heap
      /\ Consistent(heap, report, g_bytes_in_use, mishaps)
  BY DEF MInv, IsOpen
<1>2. Summable(heap) /\ DOMAIN heap \subseteq Address
  BY <1>1 DEF Consistent
<1>3. Cardinality(DOMAIN heap) \in Nat
  BY <1>2, FS_CardinalityType DEF Summable
<1> QED BY <1>1, <1>2, <1>3

LEMMA MallocKeeps ==
  ASSUME MInv, NEW n \in Sizes, Malloc(n)
  PROVE  MInv'
<1>1. n \in Nat
  BY SizesAreNat
<1>2. IsOpen
  BY DEF Malloc
<1>3. /\ Counters /\ Balanced
      /\ storage # NullPointer /\ storage \in Address \ DOMAIN heap
      /\ Consistent(heap, report, g_bytes_in_use, mishaps)
      /\ Summable(heap) /\ DOMAIN heap \subseteq Address
      /\ Cardinality(DOMAIN heap) \in Nat
  BY <1>2, OpenState
<1>4. CASE UNCHANGED <<heap, table, counters, mishaps>>
  BY <1>4 DEF MInv, Counters, Balanced, table, counters
<1>5. ASSUME NEW p \in Free,
             heap' = With(heap, p, n),
             Record(report, g_bytes_in_use, Free \ {p}, p, n, 1, {})
      PROVE  MInv'
  <2>1. p \in Address /\ p \notin DOMAIN heap /\ p # storage
    BY DEF Free
  <2>2. /\ Summable(report) /\ g_bytes_in_use \in Nat
        /\ SumFunction(report) <= g_bytes_in_use
    BY <1>3 DEF Consistent
  <2>3. /\ Counters'
        /\ Consistent(heap', report', g_bytes_in_use', mishaps')
        /\ DOMAIN heap' = DOMAIN heap \cup {p}
        /\ Cardinality(DOMAIN heap') = Cardinality(DOMAIN heap) + 1
    BY <1>1, <1>3, <1>5, <2>1, BlockRecorded
  <2>4. storage \in Address \ DOMAIN heap' /\ Free \ {p} \subseteq Address \ DOMAIN heap'
    BY <1>3, <2>1, <2>3 DEF Free
  <2>5. storage' # NullPointer /\ storage' \in Address \ DOMAIN heap'
    BY <1>1, <1>3, <1>5, <2>2, <2>4, StorageMoves
  <2>6. Balanced'
    BY <1>1, <1>3, <1>5, <2>2, <2>3, StaysBalanced
  <2> QED BY <2>3, <2>5, <2>6 DEF MInv
<1> QED BY <1>4, <1>5 DEF Malloc

(* The second half of realloc, the old block old_p and its entry being     *)
(* gone, if there were any.                                                *)
LEMMA ReallocatedKeeps ==
  ASSUME MInv, IsOpen, NEW n \in Nat, NEW old_p \in DOMAIN heap \cup {NullPointer},
         NEW rep, NEW bytes, Consistent(Without(heap, old_p), rep, bytes, mishaps),
         Reallocated(old_p, n, rep, bytes)
  PROVE  MInv'
<1> DEFINE room == (Free \cup {old_p}) \ {NullPointer}
           allocated == IF old_p = NullPointer THEN 1 ELSE 0
           hp == Without(heap, old_p)
<1>1. /\ Counters /\ Balanced
      /\ storage # NullPointer /\ storage \in Address \ DOMAIN heap
      /\ Summable(heap) /\ DOMAIN heap \subseteq Address
      /\ Cardinality(DOMAIN heap) \in Nat
  BY OpenState
<1>2. /\ Summable(hp) /\ Summable(rep) /\ bytes \in Nat
      /\ SumFunction(rep) <= bytes
      /\ \A q \in DOMAIN rep \ {NullPointer} : q \in DOMAIN hp /\ rep[q] = hp[q]
  BY DEF Consistent
<1>3. /\ DOMAIN hp = DOMAIN heap \ {old_p}
      /\ \A q \in DOMAIN heap \ {old_p} : hp[q] = heap[q]
  BY WithoutShape
<1>4. allocated \in Nat
  OBVIOUS
<1>5. NullPointer \notin DOMAIN heap
  BY <1>1, NullIsNoAddress
<1>6. /\ room \subseteq Address \ ((DOMAIN heap \ {old_p}) \cup {storage})
      /\ Free \subseteq Address \ DOMAIN heap
  BY <1>1 DEF Free
<1>7. Cardinality(DOMAIN hp) + 1 = Cardinality(DOMAIN heap) + allocated
  <2>1. CASE old_p = NullPointer
    <3>1. DOMAIN hp = DOMAIN heap
      BY <1>3, <1>5, <2>1
    <3> QED BY <2>1, <3>1
  <2>2. CASE old_p # NullPointer
    <3>1. Cardinality(DOMAIN heap \ {old_p}) = Cardinality(DOMAIN heap) - 1
      BY <1>1, <2>2, CountWithout
    <3> QED BY <1>1, <1>3, <2>2, <3>1
  <2> QED BY <2>1, <2>2
<1>8. ASSUME NEW p \in room,
             heap' = With(hp, p, n),
             Record(rep, bytes, room \ {p}, p, n, allocated, {})
      PROVE  MInv'
  <2>1. p \in Address /\ p \notin DOMAIN hp /\ p # storage
    BY <1>3, <1>6
  <2> HIDE DEF room, allocated, hp
  <2>2. /\ Counters'
        /\ Consistent(heap', report', g_bytes_in_use', mishaps')
        /\ DOMAIN heap' = DOMAIN hp \cup {p}
        /\ Cardinality(DOMAIN heap') = Cardinality(DOMAIN hp) + 1
    <3>1. Consistent(hp, rep, bytes, mishaps)
      BY DEF hp
    <3> QED BY <1>1, <1>4, <1>8, <2>1, <3>1, BlockRecorded
  <2>3. storage \in Address \ DOMAIN heap' /\ room \ {p} \subseteq Address \ DOMAIN heap'
    BY <1>1, <1>3, <1>6, <2>1, <2>2
  <2>4. storage' # NullPointer /\ storage' \in Address \ DOMAIN heap'
    BY <1>1, <1>2, <1>4, <1>8, <2>3, StorageMoves
  <2>5. Balanced'
    BY <1>1, <1>2, <1>4, <1>7, <1>8, <2>2, StaysBalanced
  <2> QED BY <2>2, <2>4, <2>5 DEF MInv
<1>9. ASSUME heap' = heap,
             Record(rep, bytes, Free, NullPointer, n, allocated,
                    {IF old_p = NullPointer THEN "realloc null" ELSE "realloc"})
      PROVE  MInv'
  <2> DEFINE mishap == IF old_p = NullPointer THEN "realloc null" ELSE "realloc"
  <2>1. mishap \in {"realloc", "realloc null"}
    OBVIOUS
  <2>2. \A q \in DOMAIN rep \ {NullPointer} : q \in DOMAIN heap /\ rep[q] = heap[q]
    BY <1>2, <1>3
  <2>3. Cardinality(DOMAIN heap') = Cardinality(DOMAIN heap) + allocated \/ "realloc null" \in {mishap}
    <3>1. old_p # NullPointer => allocated = 0
      OBVIOUS
    <3>2. old_p = NullPointer => mishap = "realloc null"
      OBVIOUS
    <3>3. DOMAIN heap' = DOMAIN heap
      BY <1>9
    <3> HIDE DEF allocated, mishap
    <3>4. CASE old_p = NullPointer
      BY <3>2, <3>4
    <3>5. CASE old_p # NullPointer
      <4>1. Cardinality(DOMAIN heap) + allocated = Cardinality(DOMAIN heap)
        BY ONLY <1>1, <3>1, <3>5
      <4>2. Cardinality(DOMAIN heap') = Cardinality(DOMAIN heap)
        BY <3>3
      <4> QED BY <4>1, <4>2
    <3> QED BY <3>4, <3>5
  <2>4. storage \in Address \ DOMAIN heap' /\ Free \subseteq Address \ DOMAIN heap'
    BY <1>1, <1>6, <1>9
  <2> HIDE DEF mishap, allocated
  <2>5. Record(rep, bytes, Free, NullPointer, n, allocated, {mishap})
    BY <1>9 DEF mishap
  <2>6. /\ Counters'
        /\ Consistent(heap', report', g_bytes_in_use', mishaps')
    BY <1>1, <1>2, <1>4, <1>9, <2>1, <2>2, <2>5, NullRecorded
  <2>7. storage' # NullPointer /\ storage' \in Address \ DOMAIN heap'
    BY <1>1, <1>2, <1>4, <2>4, <2>5, StorageMoves
  <2>8. Balanced'
    BY <1>1, <1>2, <1>4, <2>3, <2>5, StaysBalanced
  <2> QED BY <2>6, <2>7, <2>8 DEF MInv
<1> QED BY <1>8, <1>9 DEF Reallocated

LEMMA ReallocKeeps ==
  ASSUME MInv, NEW n \in Sizes, NEW p \in DOMAIN heap \cup {NullPointer}, Realloc(p, n)
  PROVE  MInv'
<1>1. n \in Nat
  BY SizesAreNat
<1>2. IsOpen
  BY DEF Realloc
<1>3. /\ Consistent(heap, report, g_bytes_in_use, mishaps)
      /\ Summable(heap) /\ DOMAIN heap \subseteq Address
  BY <1>2, OpenState
<1>4. CASE p = NullPointer
  <2>1. Without(heap, p) = heap
    BY <1>3, <1>4, NullIsNoAddress, WithoutNothing
  <2>2. Reallocated(p, n, report, g_bytes_in_use)
    BY <1>4 DEF Realloc
  <2> QED BY <1>1, <1>2, <1>3, <2>1, <2>2, ReallocatedKeeps
<1>5. CASE p # NullPointer
  <2>1. Consistent(Without(heap, p), Without(report, p), BytesWithout(p), mishaps)
    BY <1>3, BlockErased
  <2>2. Reallocated(p, n, Without(report, p), BytesWithout(p))
    BY <1>5 DEF Realloc
  <2> QED BY <1>1, <1>2, <2>1, <2>2, ReallocatedKeeps
<1> QED BY <1>4, <1>5

LEMMA FreeBlockKeeps ==
  ASSUME MInv, NEW p \in DOMAIN heap \cup {NullPointer}, FreeBlock(p)
  PROVE  MInv'
<1>1. IsOpen
  BY DEF FreeBlock
<1>2. /\ Counters /\ Balanced
      /\ storage # NullPointer /\ storage \in Address \ DOMAIN heap
      /\ Consistent(heap, report, g_bytes_in_use, mishaps)
      /\ Summable(heap) /\ DOMAIN heap \subseteq Address
      /\ Cardinality(DOMAIN heap) \in Nat
  BY <1>1, OpenState
<1>3. /\ Consistent(Without(heap, p), Without(report, p), BytesWithout(p), mishaps)
      /\ BytesWithout(p) <= g_bytes_in_use
  BY <1>2, BlockErased
<1>4. /\ heap' = Without(heap, p)
      /\ report' = Without(report, p)
      /\ g_bytes_in_use' = BytesWithout(p)
      /\ d_deallocations' = d_deallocations + (IF p = NullPointer THEN 0 ELSE 1)
      /\ UNCHANGED <<storage, g_allocations, g_bytes_in_use_peak, mishaps>>
  BY DEF FreeBlock
<1>5. Consistent(heap', report', g_bytes_in_use', mishaps')
  BY <1>3, <1>4
<1>6. Counters'
  <2>1. g_bytes_in_use' \in Nat
    BY <1>5 DEF Consistent
  <2> QED BY <1>2, <1>3, <1>4, <2>1 DEF Counters
<1>7. DOMAIN heap' = DOMAIN heap \ {p}
  BY <1>4, WithoutShape
<1>8. Balanced'
  <2> DEFINE c == Cardinality(DOMAIN heap)
             d == Cardinality(DOMAIN heap')
  <2>1. d = c - (IF p = NullPointer THEN 0 ELSE 1)
    <3>1. CASE p = NullPointer
      <4>1. DOMAIN heap' = DOMAIN heap
        BY <1>2, <1>7, <3>1, NullIsNoAddress
      <4> QED BY <1>2, <3>1, <4>1
    <3>2. CASE p # NullPointer
      BY <1>2, <1>7, <3>2, CountWithout
    <3> QED BY <3>1, <3>2
  <2>2. c \in Nat /\ g_allocations \in Nat /\ d_deallocations \in Nat
    BY <1>2 DEF Counters
  <2>3. "realloc null" \notin mishaps' => g_allocations = 1 + d_deallocations + c
    BY <1>2, <1>4 DEF Balanced
  <2> HIDE DEF c, d
  <2>4. "realloc null" \notin mishaps' => g_allocations' = 1 + d_deallocations' + d
    <3>1. CASE p = NullPointer
      <4>1. d = c /\ d_deallocations' = d_deallocations /\ g_allocations' = g_allocations
        BY <1>4, <2>1, <2>2, <3>1
      <4> QED BY <2>3, <4>1
    <3>2. CASE p # NullPointer
      <4>1. d = c - 1 /\ d_deallocations' = d_deallocations + 1 /\ g_allocations' = g_allocations
        BY <1>4, <2>1, <3>2
      <4>2. 1 + d_deallocations' + d = 1 + d_deallocations + c
        BY ONLY <2>2, <4>1
      <4> QED BY <2>3, <4>1, <4>2
    <3> QED BY <3>1, <3>2
  <2> QED BY <2>4 DEF Balanced, d
<1> QED BY <1>2, <1>4, <1>5, <1>6, <1>7, <1>8 DEF MInv

(* A report just opened: nothing in it, and one allocation behind it.      *)
LEMMA MemoryInitKeeps ==
  ASSUME MInv, MemoryInit
  PROVE  MInv'
<1>1. /\ heap = Empty /\ heap' = Empty /\ report' = Empty
      /\ d_deallocations' = 0 /\ g_bytes_in_use' = 0 /\ g_bytes_in_use_peak' = 0
      /\ mishaps' = {}
  BY DEF MInv, MemoryInit
<1>2. Summable(Empty) /\ DOMAIN Empty = {} /\ SumFunction(Empty) = 0
  BY EmptySummable
<1>3. Cardinality(DOMAIN Empty) = 0
  BY <1>2, FS_EmptySet
<1>4. CASE storage' = NullPointer /\ g_allocations' = 0
  BY <1>1, <1>4 DEF MInv, Counters
<1>5. CASE storage' \in Free /\ g_allocations' = 1
  <2>1. Counters'
    BY <1>1, <1>5 DEF Counters
  <2>2. Consistent(heap', report', g_bytes_in_use', mishaps')
    BY <1>1, <1>2 DEF Consistent
  <2>3. Balanced'
    <3>1. Cardinality(DOMAIN heap') = 0
      BY <1>1, <1>3
    <3> QED BY <1>1, <1>5, <3>1 DEF Balanced
  <2>4. storage' \in Address \ DOMAIN heap' /\ storage' # NullPointer
    BY <1>1, <1>2, <1>5, NullIsNoAddress DEF Free
  <2> QED BY <2>1, <2>2, <2>3, <2>4 DEF MInv
<1> QED BY <1>4, <1>5 DEF MemoryInit

LEMMA MemoryDeinitKeeps ==
  ASSUME MInv, MemoryDeinit
  PROVE  MInv'
<1>1. CASE heap' = Empty /\ storage' = NullPointer /\ report' = Empty /\ d_deallocations' = d_deallocations + 1
  BY <1>1 DEF MInv, Counters, MemoryDeinit
<1>2. CASE UNCHANGED <<heap, storage, report, d_deallocations>>
  BY <1>2 DEF MInv, Counters, Balanced, MemoryDeinit
<1> QED BY <1>1, <1>2 DEF MemoryDeinit

(* The invariant holds of every behaviour of the program.                  *)
THEOREM MInvHolds == Spec => []MInv
<1>1. Init => MInv
  BY DEF Init, MInv, Counters
<1>2. MInv /\ [Next]_vars => MInv'
  <2> SUFFICES ASSUME MInv, [Next]_vars PROVE MInv'
    OBVIOUS
  <2>1. CASE MemoryInit
    BY <2>1, MemoryInitKeeps
  <2>2. ASSUME NEW n \in Sizes, Malloc(n) PROVE MInv'
    BY <2>2, MallocKeeps
  <2>3. ASSUME NEW p \in DOMAIN heap \cup {NullPointer}, NEW n \in Sizes, Realloc(p, n) PROVE MInv'
    BY <2>3, ReallocKeeps
  <2>4. ASSUME NEW p \in DOMAIN heap \cup {NullPointer}, FreeBlock(p) PROVE MInv'
    BY <2>4, FreeBlockKeeps
  <2>5. CASE MemoryDeinit
    BY <2>5, MemoryDeinitKeeps
  <2>6. CASE UNCHANGED vars
    BY <2>6 DEF MInv, Counters, Balanced, vars, table, counters
  <2> QED BY <2>1, <2>2, <2>3, <2>4, <2>5, <2>6 DEF Next, Ended
<1> QED BY <1>1, <1>2, PTL DEF Spec

-----------------------------------------------------------------------------
(* The theorems.                                                           *)

(* The counters of memory.c are never driven below 0, the bytes in use     *)
(* included, from which free and realloc subtract what the report says.    *)
THEOREM TypeCorrect == Spec => []TypeOK
<1>1. MInv => TypeOK
  <2> SUFFICES ASSUME MInv PROVE TypeOK
    OBVIOUS
  <2>1. Counters
    BY DEF MInv
  <2>2. DOMAIN heap \subseteq Address /\ DOMAIN report \subseteq Pointer /\ storage \in Pointer
    <3>1. CASE storage = NullPointer
      BY <3>1, EmptySummable DEF MInv, Pointer
    <3>2. CASE storage # NullPointer
      BY <3>2 DEF MInv, Consistent, Pointer
    <3> QED BY <3>1, <3>2
  <2> QED BY <2>1, <2>2 DEF TypeOK, Counters
<1> QED BY <1>1, MInvHolds, PTL

(* The report of malloc, realloc and free lists only blocks in use, with   *)
(* their sizes, and every one until an insertion or a realloc has failed.  *)
THEOREM ReportIsOfBlocks == Spec => []ReportMatchesHeap
<1>1. MInv => ReportMatchesHeap
  <2> SUFFICES ASSUME MInv PROVE ReportMatchesHeap
    OBVIOUS
  <2>1. CASE storage = NullPointer
    BY <2>1, EmptySummable DEF MInv, ReportMatchesHeap
  <2>2. CASE storage # NullPointer
    BY <2>2 DEF MInv, Consistent, ReportMatchesHeap
  <2> QED BY <2>1, <2>2
<1> QED BY <1>1, MInvHolds, PTL

(* g_bytes_in_use is the sum of what the report lists, or more once an     *)
(* entry was refused, and the peak is not below it.                        *)
THEOREM BytesAreCovered == Spec => []BytesCoverReport
<1>1. MInv => BytesCoverReport
  <2> SUFFICES ASSUME MInv PROVE BytesCoverReport
    OBVIOUS
  <2>1. Counters
    BY DEF MInv
  <2>2. CASE storage = NullPointer
    <3>1. SumFunction(report) = 0
      BY <2>2, EmptySummable DEF MInv
    <3> QED BY <2>1, <2>2, <3>1 DEF BytesCoverReport, Counters
  <2>3. CASE storage # NullPointer
    BY <2>1, <2>3 DEF MInv, Consistent, BytesCoverReport, Counters
  <2> QED BY <2>2, <2>3
<1> QED BY <1>1, MInvHolds, PTL

(* The report's own storage is not in the report, wherever growing moves   *)
(* it.                                                                     *)
THEOREM StorageIsNotReported == Spec => []ReportOmitsItself
<1>1. MInv => ReportOmitsItself
  <2> SUFFICES ASSUME MInv PROVE ReportOmitsItself
    OBVIOUS
  <2>1. CASE storage = NullPointer
    BY <2>1 DEF ReportOmitsItself
  <2>2. CASE storage # NullPointer
    BY <2>2 DEF MInv, Consistent, ReportOmitsItself
  <2> QED BY <2>1, <2>2
<1> QED BY <1>1, MInvHolds, PTL

(* memory_deinit answers the blocks in use, but after a realloc of the     *)
(* null pointer that failed.                                               *)
THEOREM LeaksAreCounted == Spec => []LeaksAreBlocksInUse
<1>1. MInv => LeaksAreBlocksInUse
  <2> SUFFICES ASSUME MInv, storage # NullPointer, "realloc null" \notin mishaps
               PROVE  Leaks = Cardinality(DOMAIN heap)
    BY DEF LeaksAreBlocksInUse
  <2> DEFINE c == Cardinality(DOMAIN heap)
  <2>1. c \in Nat
    BY FS_CardinalityType DEF MInv, Consistent, Summable
  <2>2. /\ g_allocations = 1 + d_deallocations + c
        /\ g_allocations \in Nat /\ d_deallocations \in Nat
    BY DEF MInv, Balanced, Counters
  <2> HIDE DEF c
  <2>3. g_allocations - 1 = d_deallocations + c
    BY ONLY <2>1, <2>2
  <2>4. Leaks = IF d_deallocations + c > d_deallocations THEN (d_deallocations + c) - d_deallocations
                                                         ELSE d_deallocations - (d_deallocations + c)
    BY ONLY <2>3 DEF Leaks
  <2>5. Leaks = c
    BY ONLY <2>1, <2>2, <2>4
  <2> QED BY <2>5 DEF c
<1> QED BY <1>1, MInvHolds, PTL
=============================================================================
