-------------------------- MODULE BinarySearchProofs --------------------------
(***************************************************************************)
(* The loop of btree_find_lower_bound() returns the lower bound, for       *)
(* arrays of every length.                                                 *)
(***************************************************************************)
EXTENDS BinarySearch, SortedKeysProofs

Inv == TypeOK /\ Narrowing

LEMMA InitInv == Init => Inv
<1> SUFFICES ASSUME Init PROVE Inv
  OBVIOUS
<1>1. count \in Nat /\ keys \in [0 .. (count - 1) -> Nat] /\ key \in Nat
  BY BoundsAssumption DEF Init
<1>2. TypeOK
  BY <1>1 DEF Init, TypeOK
<1>3. Narrowing
  BY <1>1 DEF Init, Narrowing
<1> QED BY <1>2, <1>3 DEF Inv

(* The middle lies in the range.                                           *)
LEMMA MiddleInRange ==
  ASSUME Inv, len > 0
  PROVE  /\ half \in Nat /\ half < len
         /\ middle \in 0 .. (count - 1)
         /\ middle < found + len
         /\ keys[middle] \in Nat
<1>1. half \in Nat /\ half < len
  BY DEF Inv, TypeOK, half
<1> QED BY <1>1 DEF Inv, TypeOK, Narrowing, middle

LEMMA GoRightInv ==
  ASSUME Inv, GoRight
  PROVE  Inv'
<1>1. /\ half \in Nat /\ half < len /\ middle \in 0 .. (count - 1)
      /\ middle < found + len /\ middle = found + half
  BY MiddleInRange DEF GoRight, middle
<1>2. count \in Nat /\ key \in Nat /\ found \in Nat /\ len \in Nat /\ turns \in Nat
  BY DEF Inv, TypeOK
<1>3. found' = middle + 1 /\ len' = len - half - 1 /\ found' + len' = found + len
  BY <1>1, <1>2 DEF GoRight
<1>4. TypeOK'
  BY <1>1, <1>2, <1>3 DEF Inv, TypeOK, GoRight, input
<1>5. ASSUME NEW i \in 0 .. (found' - 1)
      PROVE  keys[i] < key
  <2>1. i <= middle /\ i \in 0 .. (count - 1)
    BY <1>1, <1>2, <1>3
  <2>2. keys[i] \in Nat /\ keys[middle] \in Nat /\ keys[middle] < key
    BY <1>1, <2>1 DEF Inv, TypeOK, GoRight
  <2>3. i < middle => keys[i] < keys[middle]
    BY <1>1, <2>1 DEF Inv, Narrowing, Ascending
  <2> QED BY <1>1, <1>2, <2>1, <2>2, <2>3
<1>6. Narrowing'
  BY <1>2, <1>3, <1>5 DEF Inv, Narrowing, TypeOK, GoRight, input
<1> QED BY <1>4, <1>6 DEF Inv

LEMMA GoLeftInv ==
  ASSUME Inv, GoLeft
  PROVE  Inv'
<1>1. /\ half \in Nat /\ half < len /\ middle \in 0 .. (count - 1)
      /\ middle < found + len /\ middle = found + half
  BY MiddleInRange DEF GoLeft, middle
<1>2. count \in Nat /\ key \in Nat /\ found \in Nat /\ len \in Nat /\ turns \in Nat
  BY DEF Inv, TypeOK
<1>3. found' = found /\ len' = half /\ found' + len' = middle
  BY <1>1, <1>2 DEF GoLeft
<1>4. TypeOK'
  BY <1>1, <1>2, <1>3 DEF Inv, TypeOK, GoLeft, input
<1>5. ASSUME NEW i \in middle .. (count - 1)
      PROVE  ~ (keys[i] < key)
  <2>1. middle <= i /\ i \in 0 .. (count - 1)
    BY <1>1
  <2>2. keys[i] \in Nat /\ keys[middle] \in Nat /\ ~ (keys[middle] < key)
    BY <1>1, <2>1 DEF Inv, TypeOK, GoLeft
  <2>3. middle < i => keys[middle] < keys[i]
    BY <1>1, <2>1 DEF Inv, Narrowing, Ascending
  <2> QED BY <1>1, <1>2, <2>1, <2>2, <2>3
<1>6. Narrowing'
  BY <1>1, <1>2, <1>3, <1>5 DEF Inv, Narrowing, TypeOK, GoLeft, input
<1> QED BY <1>4, <1>6 DEF Inv

LEMMA ReturnInv ==
  ASSUME Inv, Return
  PROVE  Inv'
BY DEF Inv, TypeOK, Narrowing, Return, input

LEMMA NextInv == Inv /\ [Next]_vars => Inv'
<1> SUFFICES ASSUME Inv, [Next]_vars PROVE Inv'
  OBVIOUS
<1>1. CASE GoRight
  BY <1>1, GoRightInv
<1>2. CASE GoLeft
  BY <1>2, GoLeftInv
<1>3. CASE Return
  BY <1>3, ReturnInv
<1>4. CASE UNCHANGED vars
  BY <1>4 DEF vars, Inv, TypeOK, Narrowing
<1> QED BY <1>1, <1>2, <1>3, <1>4 DEF Next

(* Where the range is empty, the index at which it lies is the lower       *)
(* bound.                                                                  *)
LEMMA InvReturns == Inv => ReturnsLowerBound
<1> SUFFICES ASSUME Inv, result # NoIndex PROVE result = LowerBound(keys, count, key)
  BY DEF ReturnsLowerBound
<1>1. len = 0 /\ result = found /\ count \in Nat /\ result \in 0 .. count
  BY DEF Inv, TypeOK, Narrowing
<1>2. IsLowerBound(keys, count, key, result)
  BY <1>1 DEF Inv, TypeOK, Narrowing, IsLowerBound
<1> QED BY <1>1, <1>2, LowerBoundUnique

(* The range searched stays inside the array and closes in on the place of *)
(* the key: no turn of btree_find_lower_bound reads outside the keys.      *)
THEOREM NarrowingHolds == Spec => [](TypeOK /\ Narrowing)
<1>1. Spec => []Inv
  BY InitInv, NextInv, PTL DEF Spec
<1> QED BY <1>1, PTL DEF Inv

(* btree_find_lower_bound returns the first index whose key is not less    *)
(* than the key searched for, for arrays of every length.                  *)
THEOREM SearchIsCorrect == Spec => []ReturnsLowerBound
<1>1. Spec => []Inv
  BY InitInv, NextInv, PTL DEF Spec
<1> QED BY <1>1, InvReturns, PTL

(* The types: the index computed stays a natural number although the       *)
(* length is decremented by half of it and one more.                       *)
THEOREM TypeCorrect == Spec => []TypeOK
<1>1. Spec => []Inv
  BY InitInv, NextInv, PTL DEF Spec
<1> QED BY <1>1, PTL DEF Inv

LEMMA InitHalves == Init => HalvesEachTurn
<1>1. SUFFICES ASSUME Init PROVE len * TwoTo[turns] <= count
  BY DEF HalvesEachTurn
<1>2. len = count /\ turns = 0 /\ count \in Nat
  BY <1>1, BoundsAssumption DEF Init
<1> QED BY <1>2, TwoToSteps

LEMMA NextHalves == Inv /\ HalvesEachTurn /\ [Next]_vars => HalvesEachTurn'
<1>1. SUFFICES ASSUME Inv, HalvesEachTurn, [Next]_vars
              PROVE  len' * TwoTo[turns'] <= count'
  BY DEF HalvesEachTurn
<1>2. len \in Nat /\ turns \in Nat /\ count \in Nat
  BY <1>1 DEF Inv, TypeOK
<1>3. CASE GoRight \/ GoLeft
  <2>1. turns' = turns + 1 /\ count' = count
    BY <1>3 DEF GoRight, GoLeft, input
  <2>2. len' \in Nat /\ 2 * len' <= len
    BY <1>2, <1>3 DEF GoRight, GoLeft, half
  <2> DEFINE p == TwoTo[turns]
             l == len'
  <2>3. p \in Nat /\ TwoTo[turns'] = 2 * p
    BY <1>2, <2>1, TwoToSteps, TwoToPositive
  <2>4. len * p <= count
    BY <1>1 DEF HalvesEachTurn
  <2>5. l \in Nat /\ 2 * l <= len
    BY <2>2
  <2> HIDE DEF p, l
  <2>6. (2 * l) * p <= len * p
    BY <1>2, <2>3, <2>5
  <2>7. l * (2 * p) = (2 * l) * p /\ l * (2 * p) \in Nat /\ len * p \in Nat
    BY <1>2, <2>3, <2>5
  <2>8. l * (2 * p) <= count
    BY <1>2, <2>4, <2>6, <2>7
  <2> QED BY <2>1, <2>3, <2>8 DEF l
<1>4. CASE Return \/ UNCHANGED vars
  <2>1. len' = len /\ turns' = turns /\ count' = count
    BY <1>4 DEF Return, input, vars
  <2> QED BY <1>1, <2>1 DEF HalvesEachTurn
<1> QED BY <1>1, <1>3, <1>4 DEF Next

(* Each turn at least halves the range: after t turns it is 2 ^ t times    *)
(* shorter than the array, which is the logarithm btree.h promises.        *)
THEOREM SearchIsLogarithmic == Spec => []HalvesEachTurn
<1>1. Spec => []Inv
  BY InitInv, NextInv, PTL DEF Spec
<1> QED BY <1>1, InitHalves, NextHalves, PTL DEF Spec
=============================================================================
