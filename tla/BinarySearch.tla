---------------------------- MODULE BinarySearch ----------------------------
(***************************************************************************)
(* The loop of btree_find_lower_bound() in src/cstructures/src/btree.c,    *)
(* one turn per step.  Module Btree states its operations with LowerBound; *)
(* here the loop is shown to return it.                                    *)
(***************************************************************************)
EXTENDS SortedKeys, Powers

CONSTANTS
  MaxCount,   \* bound: the longest array searched
  MaxWord,    \* keys are 0 .. MaxWord
  NoIndex     \* the result before the loop has ended

ASSUME BoundsAssumption == MaxCount \in Nat /\ MaxWord \in Nat
ASSUME NoIndexAssumption == NoIndex \notin Nat

VARIABLES
  keys,     \* the array searched
  count,    \* its length
  key,      \* the key searched for
  found,    \* first index of the range still searched
  len,      \* length of that range
  turns,    \* turns of the loop so far
  result    \* the index returned

vars == <<keys, count, key, found, len, turns, result>>
input == <<keys, count, key>>

Init ==
  /\ count \in 0 .. MaxCount
  /\ keys \in [0 .. (count - 1) -> 0 .. MaxWord]
  /\ Ascending(keys, count)
  /\ key \in 0 .. MaxWord
  /\ found = 0
  /\ len = count
  /\ turns = 0
  /\ result = NoIndex

half == len \div 2
middle == found + half

(* Slips of the pen the properties must catch; Next has none of them.      *)
GoRightTooShort ==
  /\ len > 0
  /\ keys[middle] < key
  /\ found' = middle + 1
  /\ len' = len - half - 2
  /\ turns' = turns + 1
  /\ UNCHANGED <<input, result>>

GoRightKeepsMiddle ==
  /\ len > 0
  /\ keys[middle] < key
  /\ found' = middle
  /\ len' = len - half - 1
  /\ turns' = turns + 1
  /\ UNCHANGED <<input, result>>

GoRightOnEqual ==
  /\ len > 0
  /\ keys[middle] <= key
  /\ found' = middle + 1
  /\ len' = len - half - 1
  /\ turns' = turns + 1
  /\ UNCHANGED <<input, result>>

GoLeftKeepsMiddle ==
  /\ len > 0
  /\ ~ (keys[middle] < key)
  /\ len' = half + 1
  /\ UNCHANGED <<input, found, turns, result>>

GoLeftByOne ==
  /\ len > 0
  /\ ~ (keys[middle] < key)
  /\ len' = len - 1
  /\ turns' = turns + 1
  /\ UNCHANGED <<input, found, result>>

(* *middle < key: go on behind middle.                                     *)
GoRight ==
  /\ len > 0
  /\ keys[middle] < key
  /\ found' = middle + 1
  /\ len' = len - half - 1
  /\ turns' = turns + 1
  /\ UNCHANGED <<input, result>>

(* Otherwise middle and what is behind it are out of the range.            *)
GoLeft ==
  /\ len > 0
  /\ ~ (keys[middle] < key)
  /\ len' = half
  /\ turns' = turns + 1
  /\ UNCHANGED <<input, found, result>>

Return ==
  /\ len = 0
  /\ result = NoIndex
  /\ result' = found
  /\ UNCHANGED <<input, found, len, turns>>

Next == GoRight \/ GoLeft \/ Return

Spec == Init /\ [][Next]_vars

(* The loop is straight-line code: it runs on until it returns.            *)
FairSpec == Spec /\ WF_vars(Next)

-----------------------------------------------------------------------------
(* The range searched stays inside the array, keys before it are less than *)
(* the key and keys behind it are not.                                     *)
TypeOK ==
  /\ count \in Nat
  /\ keys \in [0 .. (count - 1) -> Nat]
  /\ key \in Nat
  /\ found \in Nat
  /\ len \in Nat
  /\ turns \in Nat
  /\ result \in Nat \cup {NoIndex}

Narrowing ==
  /\ Ascending(keys, count)
  /\ found + len <= count
  /\ \A i \in 0 .. (found - 1) : keys[i] < key
  /\ \A i \in (found + len) .. (count - 1) : ~ (keys[i] < key)
  /\ result # NoIndex => len = 0 /\ result = found

(* The index returned by btree_find_lower_bound is the lower bound: every  *)
(* insertion point and every hit or miss of the btree follows from it.     *)
ReturnsLowerBound == result # NoIndex => result = LowerBound(keys, count, key)

(* "Complexity is O(log2(n))" in btree.h: each turn at least halves the    *)
(* range, so that the loop takes at most log2(n) + 1 turns.                *)
HalvesEachTurn == len * TwoTo[turns] <= count

(* The loop ends whatever the keys and the key searched for.               *)
Terminates == <>(result # NoIndex)
=============================================================================
