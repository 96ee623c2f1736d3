----------------------------- MODULE SortedKeys -----------------------------
(***************************************************************************)
(* What the btree's flat key array promises: the first n cells of a block  *)
(* hold strictly ascending keys, and a lower bound is the first of them    *)
(* that is not less than the key searched for.  Btree states its           *)
(* operations with these operators; BinarySearch shows that the loop of    *)
(* btree_find_lower_bound() computes LowerBound.                           *)
(***************************************************************************)
EXTENDS Integers

(* The cells 0 .. n-1 of block m are numbers in strictly ascending order.  *)
Ascending(m, n) ==
  /\ 0 .. (n - 1) \subseteq DOMAIN m
  /\ \A i \in 0 .. (n - 1) : m[i] \in Nat
  /\ \A i, j \in 0 .. (n - 1) : i < j => m[i] < m[j]

(* Index i is the first of 0 .. n whose key is not less than key; n plays  *)
(* the part of BTREE_KEY_END, the cell after the last key.                 *)
IsLowerBound(m, n, key, i) ==
  /\ \A j \in 0 .. (i - 1) : m[j] < key
  /\ i < n => ~ (m[i] < key)

LowerBound(m, n, key) == CHOOSE i \in 0 .. n : IsLowerBound(m, n, key, i)
=============================================================================
