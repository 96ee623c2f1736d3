-------------------------- MODULE BtreeForEachProofs --------------------------
(***************************************************************************)
(* The loops of btree.h meet every item once and in order, also while      *)
(* their body erases: for every key and value size and every width of the  *)
(* index, as long as the counts fit it.                                    *)
(*                                                                         *)
(* The index wraps below 0 and comes back, so that what the loop has left  *)
(* to do is not what lies behind idx but behind After(idx), the index of   *)
(* the next test.  LoopInv says of the keys from there on that they are    *)
(* larger than those visited and, with them, all there were at the start.  *)
(***************************************************************************)
EXTENDS BtreeForEach, BtreeProofs

(* The index after ++idx.                                                  *)
After(i) == (i + 1) % (MaxIndex + 1)

(* The keys from index i on.                                               *)
KeysFrom(i) == {data[j] : j \in i .. (count - 1)}

InBody ==
  /\ idx \in 0 .. (count - 1)
  /\ data[idx] = current
  /\ current \in visited
  /\ \A k \in visited : k \in Nat /\ k <= current
  /\ DOMAIN before = visited \cup KeysFrom(idx)

AtIncrement ==
  /\ idx \in 0 .. MaxIndex
  /\ After(idx) \in 0 .. count
  /\ \A k \in visited : k \in Nat /\ \A j \in After(idx) .. (count - 1) : k < data[j]
  /\ DOMAIN before = visited \cup KeysFrom(After(idx))

LoopInv ==
  /\ Inv
  /\ capacity <= MaxCapacity
  /\ phase \in {"outside", "body", "increment"}
  /\ phase = "body" => InBody
  /\ phase = "increment" => AtIncrement
  /\ phase # "outside" => Contents = expected

(* The arithmetic of the index.                                            *)
LEMMA AfterInRange ==
  ASSUME NEW i \in Nat, i < MaxIndex
  PROVE  After(i) = i + 1
BY MaxIndexAssumption DEF After

LEMMA AfterStepBack ==
  ASSUME NEW i \in 0 .. MaxIndex
  PROVE  LET back == (i + MaxIndex) % (MaxIndex + 1)
         IN  back \in 0 .. MaxIndex /\ After(back) = i
<1> DEFINE back == (i + MaxIndex) % (MaxIndex + 1)
<1>1. MaxIndex \in Nat
  BY MaxIndexAssumption
<1>2. CASE i = 0
  <2>1. back = MaxIndex
    BY <1>1, <1>2
  <2>2. (MaxIndex + 1) % (MaxIndex + 1) = 0
    BY <1>1
  <2> QED BY <1>1, <1>2, <2>1, <2>2 DEF After
<1>3. CASE i > 0
  <2>1. i + MaxIndex = (i - 1) + (MaxIndex + 1) /\ i - 1 \in 0 .. MaxIndex
    BY <1>1, <1>3
  <2>2. back = i - 1
    BY <1>1, <2>1
  <2>3. After(i - 1) = i
    BY <1>1, <1>3, AfterInRange
  <2> QED BY <2>1, <2>2, <2>3
<1> QED BY <1>2, <1>3

-----------------------------------------------------------------------------
(* Between loops.                                                          *)

LEMMA LoopInitInv == ForEachInit => LoopInv
<1> SUFFICES ASSUME ForEachInit PROVE LoopInv
  OBVIOUS
<1>1. Inv
  BY InitInv DEF ForEachInit
<1>2. capacity = 0 /\ phase = "outside"
  BY DEF ForEachInit, Init
<1> QED BY <1>1, <1>2, MaxCapacityAssumption DEF LoopInv

(* The model's bound on the capacity.                                      *)
LEMMA NextBounded ==
  ASSUME Inv, capacity <= MaxCapacity, Next
  PROVE  capacity' <= MaxCapacity
<1>0. capacity \in Nat /\ count \in Nat /\ MaxCapacity \in Nat
  BY InvFacts, MaxCapacityAssumption
<1>1. ASSUME NEW n \in Nat, InBounds(n), NEW block \in Reallocated(n),
             capacity' = block.capacity
      PROVE  capacity' <= MaxCapacity
  BY <1>0, <1>1, ReallocatedCapacity DEF InBounds
<1>2. CASE \E key \in Word, v \in Value : InsertNew(key, v) \/ InsertOrGet(key, v)
  <2>1. PICK block \in RoomForOne :
          /\ capacity' = block.capacity
          /\ NeedsRealloc => InBounds(capacity * ExpandFactor)
    BY <1>2 DEF InsertNew, InsertOrGet, Became
  <2>2. CASE NeedsRealloc
    <3> DEFINE wanted == capacity * ExpandFactor
    <3>1. ExpandFactor \in Nat
      BY ExpandFactorAssumption
    <3>2. wanted \in Nat
      BY <1>0, <3>1
    <3>3. block \in Reallocated(wanted) /\ InBounds(wanted)
      BY <2>1, <2>2 DEF RoomForOne
    <3> HIDE DEF wanted
    <3> QED BY <1>1, <2>1, <3>2, <3>3
  <2>3. CASE ~ NeedsRealloc
    BY <2>1, <2>3 DEF RoomForOne, SameBlock, Block
  <2> QED BY <2>2, <2>3
<1>3. CASE UNCHANGED capacity
  BY <1>3
<1>4. CASE capacity' = 0
  BY <1>0, <1>4
<1>5. CASE Compact
  BY <1>0, <1>1, <1>4, <1>5 DEF Compact, Became
<1>6. CASE \E size \in 0 .. MaxCapacity : Reserve(size)
  BY <1>0, <1>1, <1>3, <1>6 DEF Reserve, Became
<1>7. \/ \E key \in Word, v \in Value : InsertNew(key, v) \/ InsertOrGet(key, v)
      \/ UNCHANGED capacity
      \/ capacity' = 0
      \/ Compact
      \/ \E size \in 0 .. MaxCapacity : Reserve(size)
  BY DEF Next, SetExisting, Erase, EraseValue, EraseIndex, EraseInternalValue, Clear,
         RemoveAt, Deinit
<1> QED BY <1>2, <1>3, <1>4, <1>5, <1>6, <1>7

LEMMA OutsideInv ==
  ASSUME LoopInv, Outside
  PROVE  LoopInv'
<1>1. Inv' /\ capacity' <= MaxCapacity
  BY NextInv, NextBounded DEF Outside, LoopInv
<1>2. phase' = "outside"
  BY DEF Outside, loop
<1> QED BY <1>1, <1>2 DEF LoopInv

-----------------------------------------------------------------------------
(* The steps of a loop.                                                    *)

(* What they all start from.                                               *)
LEMMA LoopFacts ==
  ASSUME LoopInv
  PROVE  /\ GoodBlock(data, capacity, count)
         /\ count \in Nat /\ capacity \in Nat /\ count <= capacity
         /\ Ascending(data, count)
         /\ MaxIndex \in Nat /\ count <= MaxIndex
         /\ \A i \in 0 .. (count - 1) : data[i] \in Nat
         /\ DOMAIN Contents = KeysFrom(0)
<1>1. /\ GoodBlock(data, capacity, count)
      /\ count \in Nat /\ capacity \in Nat /\ count <= capacity
      /\ Ascending(data, count)
  BY InvFacts DEF LoopInv
<1>2. MaxIndex \in Nat /\ count <= MaxIndex
  BY <1>1, MaxIndexAssumption, MaxCapacityAssumption DEF LoopInv
<1>3. DOMAIN Contents = KeysFrom(0)
  BY ContentsIsDictOf, DictOfDomain DEF KeysFrom
<1> QED BY <1>1, <1>2, <1>3 DEF Ascending

(* The keys from an index on are that key and those behind it.             *)
LEMMA KeysFromNext ==
  ASSUME count \in Nat, NEW i \in 0 .. (count - 1)
  PROVE  KeysFrom(i) = {data[i]} \cup KeysFrom(i + 1)
<1>1. i .. (count - 1) = {i} \cup ((i + 1) .. (count - 1))
  OBVIOUS
<1> QED BY <1>1 DEF KeysFrom

LEMMA BeginInv ==
  ASSUME LoopInv, Begin
  PROVE  LoopInv'
<1>0. /\ count \in Nat /\ count # 0 /\ UNCHANGED vars /\ DOMAIN Contents = KeysFrom(0)
      /\ \A i \in 0 .. (count - 1) : data[i] \in Nat
  BY LoopFacts DEF Begin
<1>1. UNCHANGED <<data, count, capacity, ret>>
  BY <1>0 DEF vars
<1>2. Inv' /\ capacity' <= MaxCapacity
  BY <1>1 DEF LoopInv, Inv
<1>3. Contents' = Contents /\ KeysFrom(0)' = KeysFrom(0)
  BY <1>1, UnchangedContents DEF KeysFrom
<1>4. 0 \in 0 .. (count - 1)
  BY <1>0
<1>5. data[0] \in KeysFrom(0)
  BY <1>4 DEF KeysFrom
<1>6. phase' = "body" /\ idx' = 0 /\ current' = data[0] /\ visited' = {data[0]}
      /\ before' = Contents /\ expected' = Contents
  BY DEF Begin
<1>7. InBody'
  <2>1. idx' \in 0 .. (count' - 1) /\ data'[idx'] = current' /\ current' \in visited'
    BY <1>1, <1>4, <1>6
  <2>2. \A k \in visited' : k \in Nat /\ k <= current'
    BY <1>0, <1>4, <1>6
  <2>3. KeysFrom(idx)' = KeysFrom(0)
    BY <1>3, <1>6 DEF KeysFrom
  <2>4. DOMAIN before' = visited' \cup KeysFrom(idx)'
    BY <1>0, <1>5, <1>6, <2>3
  <2> QED BY <2>1, <2>2, <2>4 DEF InBody
<1> QED BY <1>2, <1>3, <1>6, <1>7 DEF LoopInv

(* After the body has run, whether or not it changed the value, the keys   *)
(* behind the current one are left.                                        *)
LEMMA ItemDone ==
  ASSUME LoopInv, phase = "body", UNCHANGED <<count, idx, visited, before>>,
         \A i \in 0 .. (count - 1) : data'[i] = data[i]
  PROVE  AtIncrement'
<1>0. /\ count \in Nat /\ MaxIndex \in Nat /\ count <= MaxIndex /\ Ascending(data, count)
      /\ \A i \in 0 .. (count - 1) : data[i] \in Nat
  BY LoopFacts
<1>1. InBody
  BY DEF LoopInv
<1>2. idx \in 0 .. (count - 1) /\ idx \in Nat /\ idx < MaxIndex /\ data[idx] = current
  BY <1>0, <1>1 DEF InBody
<1>3. After(idx) = idx + 1
  BY <1>2, AfterInRange
<1>4. After(idx)' = idx + 1
  BY <1>3 DEF After
<1>5. idx' \in 0 .. MaxIndex /\ idx + 1 \in 0 .. count'
  BY <1>0, <1>2
<1>6. ASSUME NEW k \in visited'
      PROVE  k \in Nat /\ \A j \in (idx + 1) .. (count' - 1) : k < data'[j]
  <2>1. k \in Nat /\ k <= data[idx]
    BY <1>1, <1>2 DEF InBody
  <2>2. ASSUME NEW j \in (idx + 1) .. (count' - 1)
        PROVE  k < data'[j]
    <3>1. j \in 0 .. (count - 1) /\ idx < j
      BY <1>0, <1>2
    <3>2. data[idx] < data[j] /\ data[idx] \in Nat /\ data[j] \in Nat /\ data'[j] = data[j]
      BY <1>0, <1>2, <3>1 DEF Ascending
    <3> QED BY <2>1, <3>2
  <2> QED BY <2>1, <2>2
<1>7. DOMAIN before' = visited' \cup {data'[j] : j \in (idx + 1) .. (count' - 1)}
  <2>1. KeysFrom(idx) = {data[idx]} \cup KeysFrom(idx + 1)
    BY <1>0, <1>2, KeysFromNext
  <2>2. data[idx] \in visited
    BY <1>1, <1>2 DEF InBody
  <2>3. DOMAIN before = visited \cup KeysFrom(idx + 1)
    BY <1>1, <2>1, <2>2 DEF InBody
  <2>4. \A j \in (idx + 1) .. (count - 1) : data'[j] = data[j]
    BY <1>0, <1>2
  <2> QED BY <2>3, <2>4 DEF KeysFrom
<1> QED BY <1>4, <1>5, <1>6, <1>7 DEF AtIncrement, KeysFrom

LEMMA KeepItemInv ==
  ASSUME LoopInv, KeepItem
  PROVE  LoopInv'
<1>1. UNCHANGED <<data, count, capacity, ret>>
  BY DEF KeepItem, vars
<1>2. AtIncrement'
  BY <1>1, ItemDone DEF KeepItem
<1>3. Inv' /\ capacity' <= MaxCapacity
  BY <1>1 DEF LoopInv, Inv
<1>4. Contents' = expected'
  BY <1>1, UnchangedContents DEF KeepItem, LoopInv
<1> QED BY <1>2, <1>3, <1>4 DEF KeepItem, LoopInv

LEMMA ChangeItemInv ==
  ASSUME LoopInv, NEW v \in Value, ChangeItem(v)
  PROVE  LoopInv'
<1>0. /\ GoodBlock(data, capacity, count) /\ count \in Nat /\ capacity \in Nat
      /\ count <= capacity
  BY LoopFacts
<1>1. /\ phase = "body" /\ phase' = "increment"
      /\ data' = StoreValue(data, ValueAddr(idx, capacity), v)
      /\ expected' = [expected EXCEPT ![current] = v]
      /\ UNCHANGED <<count, capacity, ret, idx, current, visited, before>>
  BY DEF ChangeItem
<1>2. /\ idx \in 0 .. (count - 1) /\ data[idx] = current /\ Contents = expected
  BY <1>1 DEF LoopInv, InBody
<1>3. /\ GoodBlock(data', capacity, count)
      /\ \A i \in 0 .. (capacity - 1) : data'[i] = data[i]
  BY <1>0, <1>1, <1>2, StoreValueGood
<1>4. Inv' /\ capacity' <= MaxCapacity
  BY <1>1, <1>3 DEF LoopInv, Inv, GoodBlock
<1>5. AtIncrement'
  <2>1. \A i \in 0 .. (count - 1) : data'[i] = data[i]
    BY <1>0, <1>3
  <2> QED BY <1>1, <2>1, ItemDone
<1>6. Contents' = expected'
  <2> DEFINE D == DictOf(data, capacity, count)
  <2>1. DictOf(data', capacity, count)
          = [x \in DOMAIN D \cup {data[idx]} |-> IF x = data[idx] THEN v ELSE D[x]]
    <3>1. idx \in 0 .. (count - 1)
      BY <1>2
    <3>2. DictOf(StoreValue(data, ValueAddr(idx, capacity), v), capacity, count)
            = [x \in DOMAIN D \cup {data[idx]} |-> IF x = data[idx] THEN v ELSE D[x]]
      BY <1>0, <3>1, DictStored
    <3> QED BY <1>1, <3>2
  <2>2. Contents = D /\ Contents' = DictOf(data', capacity', count')
    BY ContentsIsDictOf
  <2> HIDE DEF D
  <2>3. data[idx] \in DOMAIN Contents
    BY <1>2, ContentsAt DEF LoopInv
  <2>4. Contents' = [x \in DOMAIN Contents |-> IF x = current THEN v ELSE Contents[x]]
    BY <1>1, <1>2, <2>1, <2>2, <2>3
  <2>5. Contents' = [Contents EXCEPT ![current] = v]
    BY <2>4
  <2> QED BY <1>1, <1>2, <2>5
<1> QED BY <1>1, <1>4, <1>5, <1>6 DEF LoopInv

(* Erasing moves the keys behind the current one to where it was, and the  *)
(* index is stepped back so that the next test looks there.                *)
LEMMA EraseItemInv ==
  ASSUME LoopInv, EraseItem
  PROVE  LoopInv'
<1>0. /\ GoodBlock(data, capacity, count) /\ count \in Nat /\ capacity \in Nat
      /\ count <= capacity /\ Ascending(data, count)
      /\ MaxIndex \in Nat /\ count <= MaxIndex
      /\ \A i \in 0 .. (count - 1) : data[i] \in Nat
  BY LoopFacts
<1>1. /\ phase = "body" /\ phase' = "increment"
      /\ EraseIndex(idx)
      /\ idx' = (idx + MaxIndex) % (MaxIndex + 1)
      /\ expected' = [k \in DOMAIN expected \ {current} |-> expected[k]]
      /\ UNCHANGED <<current, visited, before>>
  BY DEF EraseItem
<1>2. InBody /\ Contents = expected
  BY <1>1 DEF LoopInv
<1>3. idx \in 0 .. (count - 1) /\ idx \in 0 .. MaxIndex /\ data[idx] = current
  BY <1>0, <1>2 DEF InBody
<1>4. RemoveAt(idx)
  BY <1>1 DEF EraseIndex
<1>5. /\ count' = count - 1 /\ capacity' = capacity
      /\ \A a \in 0 .. (count - 2) : data'[a] = IF a < idx THEN data[a] ELSE data[a + 1]
  BY <1>0, <1>3, <1>4, EntryErasedGood DEF RemoveAt
<1>6. Inv' /\ capacity' <= MaxCapacity
  BY <1>1, <1>3, <1>5, EraseIndexInv DEF LoopInv
<1>7. idx' \in 0 .. MaxIndex /\ After(idx) ' = idx
  <2>1. /\ (idx + MaxIndex) % (MaxIndex + 1) \in 0 .. MaxIndex
        /\ After((idx + MaxIndex) % (MaxIndex + 1)) = idx
    BY <1>3, AfterStepBack
  <2>2. After(idx)' = After((idx + MaxIndex) % (MaxIndex + 1))
    BY <1>1 DEF After
  <2> QED BY <1>1, <2>1, <2>2
<1>8. \A j \in idx .. (count' - 1) :
        j + 1 \in 0 .. (count - 1) /\ idx < j + 1 /\ data'[j] = data[j + 1]
  <2> TAKE j \in idx .. (count' - 1)
  <2>1. j \in 0 .. (count - 2) /\ ~ (j < idx) /\ j + 1 \in 0 .. (count - 1) /\ idx < j + 1
    BY <1>0, <1>3, <1>5
  <2> QED BY <1>5, <2>1
<1>9. AtIncrement'
  <2>1. idx \in 0 .. count'
    BY <1>0, <1>3, <1>5
  <2>2. ASSUME NEW k \in visited'
        PROVE  k \in Nat /\ \A j \in idx .. (count' - 1) : k < data'[j]
    <3>1. k \in Nat /\ k <= data[idx] /\ data[idx] \in Nat
      BY <1>0, <1>1, <1>2, <1>3 DEF InBody
    <3>2. ASSUME NEW j \in idx .. (count' - 1)
          PROVE  k < data'[j]
      <4>1. j + 1 \in 0 .. (count - 1) /\ idx < j + 1 /\ data'[j] = data[j + 1]
        BY <1>8
      <4>2. data[idx] < data[j + 1] /\ data[j + 1] \in Nat
        BY <1>0, <1>3, <4>1 DEF Ascending
      <4> QED BY <3>1, <4>1, <4>2
    <3> QED BY <3>1, <3>2
  <2>3. DOMAIN before' = visited' \cup {data'[j] : j \in idx .. (count' - 1)}
    <3>1. KeysFrom(idx) = {data[idx]} \cup KeysFrom(idx + 1)
      BY <1>0, <1>3, KeysFromNext
    <3>2. data[idx] \in visited
      BY <1>2, <1>3 DEF InBody
    <3>3. DOMAIN before = visited \cup KeysFrom(idx + 1)
      BY <1>2, <3>1, <3>2 DEF InBody
    <3>4. {data'[j] : j \in idx .. (count' - 1)} = KeysFrom(idx + 1)
      <4>1. ASSUME NEW j \in idx .. (count' - 1)
            PROVE  data'[j] \in KeysFrom(idx + 1)
        <5>1. data'[j] = data[j + 1] /\ j + 1 \in (idx + 1) .. (count - 1)
          BY <1>0, <1>3, <1>5, <1>8
        <5> QED BY <5>1 DEF KeysFrom
      <4>2. ASSUME NEW i \in (idx + 1) .. (count - 1)
            PROVE  data[i] \in {data'[j] : j \in idx .. (count' - 1)}
        <5>1. i - 1 \in idx .. (count' - 1) /\ (i - 1) + 1 = i
          BY <1>0, <1>3, <1>5
        <5>2. data'[i - 1] = data[(i - 1) + 1]
          BY <1>8, <5>1
        <5> QED BY <5>1, <5>2
      <4> QED BY <4>1, <4>2 DEF KeysFrom
    <3> QED BY <1>1, <3>3, <3>4
  <2> QED BY <1>7, <2>1, <2>2, <2>3 DEF AtIncrement, KeysFrom
<1>10. Contents' = expected'
  <2>1. Contents' = Abstract!Drop(data[idx])
    BY <1>3, <1>4, RemoveAtDrops DEF LoopInv
  <2> QED BY <1>1, <1>2, <1>3, <2>1 DEF Abstract!Drop, Abstract!Present
<1> QED BY <1>1, <1>6, <1>9, <1>10 DEF LoopInv

LEMMA IncrementInv ==
  ASSUME LoopInv, Increment
  PROVE  LoopInv'
<1>0. /\ count \in Nat /\ \A i \in 0 .. (count - 1) : data[i] \in Nat
  BY LoopFacts
<1>1. /\ phase = "increment" /\ idx' = After(idx) /\ TestAndLoad(idx') /\ UNCHANGED vars
  BY DEF Increment, After
<1>2. AtIncrement /\ Contents = expected
  BY <1>1 DEF LoopInv
<1>3. UNCHANGED <<data, count, capacity, ret>>
  BY <1>1 DEF vars
<1>4. Inv' /\ capacity' <= MaxCapacity
  BY <1>3 DEF LoopInv, Inv
<1>5. CASE idx' = count
  <2>1. phase' = "outside"
    BY <1>1, <1>5 DEF TestAndLoad
  <2> QED BY <1>4, <2>1 DEF LoopInv
<1>6. CASE idx' # count
  <2>1. /\ phase' = "body" /\ current' = data[idx'] /\ visited' = visited \cup {data[idx']}
        /\ UNCHANGED <<before, expected>>
    BY <1>1, <1>6 DEF TestAndLoad
  <2>2. idx' \in 0 .. (count - 1)
    BY <1>0, <1>1, <1>2, <1>6 DEF AtIncrement
  <2>3. Contents' = expected'
    BY <1>2, <1>3, <2>1, UnchangedContents
  <2>4. ASSUME NEW k \in visited'
        PROVE  k \in Nat /\ k <= current'
    <3>1. CASE k \in visited
      <4>1. k \in Nat /\ \A j \in idx' .. (count - 1) : k < data[j]
        BY <1>1, <1>2, <3>1 DEF AtIncrement
      <4>2. idx' \in idx' .. (count - 1) /\ data[idx'] \in Nat
        BY <1>0, <2>2
      <4> QED BY <2>1, <4>1, <4>2
    <3>2. CASE k = data[idx']
      BY <1>0, <2>1, <2>2, <3>2
    <3> QED BY <2>1, <3>1, <3>2
  <2>5. DOMAIN before' = visited' \cup KeysFrom(idx)'
    <3>1. KeysFrom(idx)' = KeysFrom(After(idx))
      BY <1>1, <1>3 DEF KeysFrom
    <3>2. data[idx'] \in KeysFrom(After(idx))
      BY <1>0, <1>1, <2>2 DEF KeysFrom
    <3> QED BY <1>2, <2>1, <3>1, <3>2 DEF AtIncrement
  <2>6. InBody'
    BY <1>3, <2>1, <2>2, <2>4, <2>5 DEF InBody
  <2> QED BY <1>4, <2>1, <2>3, <2>6 DEF LoopInv
<1> QED BY <1>5, <1>6

LEMMA LoopNextInv == LoopInv /\ [ForEachNext]_allvars => LoopInv'
<1> SUFFICES ASSUME LoopInv, [ForEachNext]_allvars PROVE LoopInv'
  OBVIOUS
<1>1. CASE UNCHANGED allvars
  <2>1. UNCHANGED <<data, count, capacity, ret, phase, idx, current, visited, before, expected>>
    BY <1>1 DEF allvars, vars, loop
  <2>2. Contents' = Contents
    BY <2>1, UnchangedContents
  <2>3. InBody' <=> InBody
    BY <2>1 DEF InBody, KeysFrom
  <2>4. AtIncrement' <=> AtIncrement
    BY <2>1 DEF AtIncrement, KeysFrom, After
  <2>5. Inv'
    BY <2>1 DEF LoopInv, Inv
  <2> QED BY <2>1, <2>2, <2>3, <2>4, <2>5 DEF LoopInv
<1> QED BY <1>1, OutsideInv, BeginInv, KeepItemInv, ChangeItemInv, EraseItemInv, IncrementInv
        DEF ForEachNext, Body

THEOREM LoopInvHolds == ForEachSpec => []LoopInv
BY LoopInitInv, LoopNextInv, PTL DEF ForEachSpec

-----------------------------------------------------------------------------
(* What the macros promise.                                                *)

(* While the body runs the index is in range and names the current item,   *)
(* also after items were erased on the way.                                *)
THEOREM IndexNamesCurrentItem == ForEachSpec => []IndexNamesCurrent
<1>1. LoopInv => IndexNamesCurrent
  BY LoopFacts DEF LoopInv, InBody, IndexNamesCurrent
<1> QED BY <1>1, LoopInvHolds, PTL

(* Erasing the current item in a loop, or storing through its value, never *)
(* touches another entry.                                                  *)
THEOREM BodyTouchesCurrentOnly == ForEachSpec => []OnlyCurrentTouched
<1>1. LoopInv => OnlyCurrentTouched
  BY DEF LoopInv, OnlyCurrentTouched
<1> QED BY <1>1, LoopInvHolds, PTL

LEMMA StepInOrder ==
  LoopInv /\ [ForEachNext]_allvars
    => [phase = "increment" /\ phase' = "body" => \A k \in visited : k < current']_allvars
<1> SUFFICES ASSUME LoopInv, ForEachNext, phase = "increment", phase' = "body",
                    NEW k \in visited
             PROVE  k < current'
  OBVIOUS
<1>1. Increment
  BY DEF ForEachNext, Outside, Begin, Body, KeepItem, EraseItem, ChangeItem
<1>2. /\ idx' = After(idx) /\ idx' # count /\ current' = data[idx']
  BY <1>1 DEF Increment, After, TestAndLoad
<1>3. AtIncrement /\ count \in Nat
  BY LoopFacts DEF LoopInv
<1>4. idx' \in idx' .. (count - 1)
  BY <1>2, <1>3 DEF AtIncrement
<1> QED BY <1>2, <1>3, <1>4 DEF AtIncrement

(* The body runs for the keys in ascending order and never twice for one.  *)
THEOREM LoopVisitsInOrder == ForEachSpec => VisitsInOrder
BY LoopInvHolds, StepInOrder, PTL DEF ForEachSpec, VisitsInOrder

LEMMA StepVisitsAll ==
  LoopInv /\ [ForEachNext]_allvars
    => [phase # "outside" /\ phase' = "outside" => visited = DOMAIN before]_allvars
<1> SUFFICES ASSUME LoopInv, ForEachNext, phase # "outside", phase' = "outside"
             PROVE  visited = DOMAIN before
  OBVIOUS
<1>1. Increment
  BY DEF ForEachNext, Outside, Begin, Body, KeepItem, EraseItem, ChangeItem
<1>2. idx' = After(idx) /\ idx' = count /\ phase = "increment"
  BY <1>1 DEF Increment, After, TestAndLoad
<1>3. AtIncrement /\ count \in Nat
  BY <1>2, LoopFacts DEF LoopInv
<1>4. KeysFrom(After(idx)) = {}
  BY <1>2, <1>3 DEF KeysFrom
<1> QED BY <1>3, <1>4 DEF AtIncrement

(* A loop that ends has run its body for every key there was when it       *)
(* began, whatever it erased on the way.                                   *)
THEOREM LoopVisitsAll == ForEachSpec => VisitsAll
BY LoopInvHolds, StepVisitsAll, PTL DEF ForEachSpec, VisitsAll
=============================================================================
