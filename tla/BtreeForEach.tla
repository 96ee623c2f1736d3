---------------------------- MODULE BtreeForEach ----------------------------
(***************************************************************************)
(* The loops of btree.h: BTREE_FOR_EACH, BTREE_KEYS_FOR_EACH and           *)
(* BTREE_ERASE_CURRENT_ITEM_IN_FOR_LOOP.  The macros open a for statement  *)
(* over an index into the live btree, and erasing the current item steps   *)
(* that index back below the item that has just moved into its place, from *)
(* 0 to the largest index there is.  Between two loops the btree takes any *)
(* operation; within one, the body may keep, change or erase the current   *)
(* item.                                                                   *)
(***************************************************************************)
EXTENDS Btree

CONSTANT MaxIndex    \* the largest value of a cs_btree_size

ASSUME MaxIndexAssumption == MaxIndex \in Nat /\ MaxCapacity <= MaxIndex

VARIABLES
  phase,     \* "outside" a loop, in its "body", or at its "increment"
  idx,       \* idx_##k
  current,   \* the key k of the current item
  visited,   \* the keys the body has run for
  before,    \* the entries when the loop began
  expected   \* the entries the body should have left by now

loop == <<phase, idx, current, visited, before, expected>>
allvars == <<vars, loop>>

ForEachInit ==
  /\ Init
  /\ phase = "outside"
  /\ idx = 0
  /\ current = Nothing
  /\ visited = {}
  /\ before = Contents
  /\ expected = Contents

(* idx != count, and if so the current key is read.                        *)
TestAndLoad(i) ==
  \/ /\ i # count
     /\ phase' = "body"
     /\ current' = data[i]
     /\ visited' = visited \cup {data[i]}
     /\ UNCHANGED <<before, expected>>
  \/ /\ i = count
     /\ phase' = "outside"
     /\ current' = Nothing
     /\ visited' = {}
     /\ before' = [k \in {} |-> Nothing]
     /\ expected' = [k \in {} |-> Nothing]

(* The first test of the for statement; an empty btree ends the loop here. *)
Begin ==
  /\ phase = "outside"
  /\ count # 0
  /\ idx' = 0
  /\ phase' = "body"
  /\ current' = data[0]
  /\ visited' = {data[0]}
  /\ before' = Contents
  /\ expected' = Contents
  /\ UNCHANGED vars

KeepItem ==
  /\ phase = "body"
  /\ phase' = "increment"
  /\ UNCHANGED <<vars, idx, current, visited, before, expected>>

(* A store through v, the pointer to the value of the current item.        *)
ChangeItem(v) ==
  /\ phase = "body"
  /\ ValueSize > 0
  /\ data' = StoreValue(data, ValueAddr(idx, capacity), v)
  /\ phase' = "increment"
  /\ expected' = [expected EXCEPT ![current] = v]
  /\ UNCHANGED <<base, count, capacity, ret, idx, current, visited, before>>

(* Slip: the index is not stepped back.                                    *)
EraseItemKeepsIndex ==
  /\ phase = "body"
  /\ EraseIndex(idx)
  /\ UNCHANGED idx
  /\ phase' = "increment"
  /\ expected' = [k \in DOMAIN expected \ {current} |-> expected[k]]
  /\ UNCHANGED <<current, visited, before>>

(* Slip: erases the item behind the current one.                           *)
EraseItemBehind ==
  /\ phase = "body"
  /\ EraseIndex(IF idx + 1 < count THEN idx + 1 ELSE idx)
  /\ idx' = (idx + MaxIndex) % (MaxIndex + 1)
  /\ phase' = "increment"
  /\ expected' = [k \in DOMAIN expected \ {current} |-> expected[k]]
  /\ UNCHANGED <<current, visited, before>>

(* BTREE_ERASE_CURRENT_ITEM_IN_FOR_LOOP; idx-- of 0 is the largest index.  *)
EraseItem ==
  /\ phase = "body"
  /\ EraseIndex(idx)
  /\ idx' = (idx + MaxIndex) % (MaxIndex + 1)
  /\ phase' = "increment"
  /\ expected' = [k \in DOMAIN expected \ {current} |-> expected[k]]
  /\ UNCHANGED <<current, visited, before>>

(* Slip: steps over the test for the end.                                  *)
IncrementTwice ==
  /\ phase = "increment"
  /\ idx' = (idx + 2) % (MaxIndex + 1)
  /\ TestAndLoad(idx')
  /\ UNCHANGED vars

(* ++idx, then the test.                                                   *)
Increment ==
  /\ phase = "increment"
  /\ idx' = (idx + 1) % (MaxIndex + 1)
  /\ TestAndLoad(idx')
  /\ UNCHANGED vars

Body == KeepItem \/ EraseItem \/ \E v \in Value : ChangeItem(v)

Outside ==
  /\ phase = "outside"
  /\ Next
  /\ UNCHANGED loop

ForEachNext == Outside \/ Begin \/ Body \/ Increment

(* A loop that has begun is sequential code and goes on to its end, if its *)
(* body does.                                                              *)
ForEachSpec ==
  /\ ForEachInit
  /\ [][ForEachNext]_allvars
  /\ WF_allvars(Body)
  /\ WF_allvars(Increment)

-----------------------------------------------------------------------------
(* The current item is the one the index names for as long as the body     *)
(* runs, and the index is in range there.                                  *)
IndexNamesCurrent == phase = "body" => idx < count /\ data[idx] = current

(* What the body does to the current item is all that happens to the       *)
(* entries during a loop: erasing one never takes another with it.         *)
OnlyCurrentTouched == phase # "outside" => Contents = expected

(* The body runs for the keys in ascending order, never twice for one.     *)
VisitsInOrder ==
  [][phase = "increment" /\ phase' = "body" => \A k \in visited : k < current']_allvars

(* When a loop ends the body has run for every key there was when it       *)
(* began, also behind items erased on the way.                             *)
VisitsAll ==
  [][phase # "outside" /\ phase' = "outside"
       => visited = DOMAIN before]_allvars

(* Every loop ends, also one that erases each item it meets.               *)
LoopEnds == phase # "outside" ~> phase = "outside"
=============================================================================
