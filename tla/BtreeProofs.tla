----------------------------- MODULE BtreeProofs -----------------------------
(***************************************************************************)
(* The btree's keys stay ascending and its entries inside its block, for   *)
(* every key and value size, every growth policy and every pattern of      *)
(* failing allocations; and it is a dictionary: its entries, found in the  *)
(* block by their index, are the entries the same calls leave in a         *)
(* dictionary, and the queries answer from them.                           *)
(*                                                                         *)
(* The conjunction of TypeOK, KeysAscending and RoomForEntries is          *)
(* inductive.  GoodBlock states it for any block, so that it can be        *)
(* followed through the steps of one operation: reallocation, shift and    *)
(* store.  ValueOf is the value of the entry at an index of a block.  What *)
(* each step of an operation does to the keys and to the values, index by  *)
(* index, comes second; that the keys ascend makes a function of the two.  *)
(***************************************************************************)
EXTENDS Btree, SortedKeysProofs

GoodBlock(m, cap, n) ==
  /\ n \in Nat /\ cap \in Nat
  /\ DOMAIN m \subseteq Nat
  /\ \A a \in DOMAIN m : m[a] \in Cell
  /\ Ascending(m, n)
  /\ n <= cap
  /\ 0 .. (cap * KvSize - 1) \subseteq DOMAIN m
  /\ cap = 0 <=> m = Null

Inv == GoodBlock(data, capacity, count) /\ ret.status \in Status

(* Where the block is matters to nothing but the pointers into it.         *)
Somewhere == base \in Place \cup {Nothing}

LEMMA InvIsTheInvariants == Inv /\ Somewhere <=> TypeOK /\ KeysAscending /\ RoomForEntries
BY DEF Inv, Somewhere, GoodBlock, TypeOK, KeysAscending, RoomForEntries

-----------------------------------------------------------------------------
(* Sizes and addresses.                                                    *)

LEMMA ProductNat ==
  ASSUME NEW i \in Nat
  PROVE  ValueSize * i \in Nat
BY ValueSizeAssumption

(* The key area, cap cells, lies inside the block.                         *)
LEMMA KeysInsideBlock ==
  ASSUME NEW cap \in Nat
  PROVE  cap * KvSize \in Nat /\ cap <= cap * KvSize
<1>1. cap * KvSize = cap + ValueSize * cap
  BY ValueSizeAssumption DEF KvSize
<1> QED BY <1>1, ProductNat

LEMMA NoCapacityNoCells == 0 .. (0 * KvSize - 1) = {}
<1>1. KvSize \in Nat
  BY ValueSizeAssumption DEF KvSize
<1>2. 0 * KvSize = 0
  BY <1>1
<1> QED BY <1>2

(* The value area lies behind it.                                          *)
LEMMA ValuesBehindKeys ==
  ASSUME NEW cap \in Nat, NEW i \in Nat
  PROVE  ValueAddr(i, cap) \in Nat /\ cap <= ValueAddr(i, cap)
BY ProductNat DEF ValueAddr

(* Less capacity needs no larger block.                                    *)
LEMMA SizeMonotone ==
  ASSUME NEW c \in Nat, NEW d \in Nat, c <= d
  PROVE  c * KvSize <= d * KvSize
<1>1. d - c \in Nat
  OBVIOUS
<1>2. (d - c) * KvSize \in Nat
  BY <1>1, KeysInsideBlock
<1>3. d * KvSize = c * KvSize + (d - c) * KvSize
  BY ValueSizeAssumption DEF KvSize
<1> QED BY <1>2, <1>3, KeysInsideBlock

LEMMA ClampBounds ==
  ASSUME NEW n \in Nat
  PROVE  Clamp(n) \in Nat /\ Clamp(n) >= 1 /\ Clamp(n) >= n
BY MinCapacityAssumption DEF Clamp

-----------------------------------------------------------------------------
(* What moving cells does to a block.                                      *)

LEMMA FetchCell ==
  ASSUME NEW m, NEW a, \A b \in DOMAIN m : m[b] \in Cell
  PROVE  Fetch(m, a) \in Cell
BY DEF Fetch, Cell

LEMMA MemmoveShape ==
  ASSUME NEW m, NEW dst, NEW src, NEW n, \A b \in DOMAIN m : m[b] \in Cell
  PROVE  /\ DOMAIN Memmove(m, dst, src, n) = DOMAIN m
         /\ \A a \in DOMAIN m : Memmove(m, dst, src, n)[a] \in Cell
BY FetchCell DEF Memmove

(* A move into the value area leaves the keys alone.                       *)
LEMMA MemmoveKeeps ==
  ASSUME NEW m, NEW dst \in Int, NEW src, NEW n, NEW a \in DOMAIN m, a \in Int, a < dst
  PROVE  Memmove(m, dst, src, n)[a] = m[a]
BY DEF Memmove

LEMMA ResizeShape ==
  ASSUME NEW m, NEW n \in Nat, \A b \in DOMAIN m : m[b] \in Cell
  PROVE  /\ DOMAIN Resize(m, n) = 0 .. (n - 1)
         /\ \A a \in 0 .. (n - 1) : Resize(m, n)[a] \in Cell
         /\ \A a \in 0 .. (n - 1) : a \in DOMAIN m => Resize(m, n)[a] = m[a]
BY FetchCell DEF Resize, Fetch

(* Keys that did not change are still ascending.                           *)
LEMMA AscendingKept ==
  ASSUME NEW m, NEW w, NEW n \in Nat, Ascending(m, n),
         0 .. (n - 1) \subseteq DOMAIN w,
         \A a \in 0 .. (n - 1) : w[a] = m[a]
  PROVE  Ascending(w, n)
BY DEF Ascending

-----------------------------------------------------------------------------
(* The four outcomes of btree_realloc.                                     *)
LEMMA ReallocatedOutcomes ==
  ASSUME NEW n, NEW block \in Reallocated(n)
  PROVE  LET cap == Clamp(n)
             size == cap * KvSize
             Moved(m) == Memmove(m, cap, capacity, capacity * ValueSize)
         IN  \/ cap >= capacity /\ block = Block(data, base, capacity, "OOM")
             \/ /\ cap >= capacity
                /\ \E place \in Place : block = Block(Moved(Resize(data, size)), place, cap, "OK")
             \/ ~ (cap >= capacity) /\ block = Block(Moved(data), base, cap, "OK")
             \/ /\ ~ (cap >= capacity)
                /\ \E place \in Place : block = Block(Resize(Moved(data), size), place, cap, "OK")
<1> DEFINE cap == Clamp(n)
<1>1. CASE cap >= capacity
  BY <1>1 DEF Reallocated, SameBlock, Placed
<1>2. CASE ~ (cap >= capacity)
  BY <1>2 DEF Reallocated, SameBlock, Placed
<1> QED BY <1>1, <1>2

(* btree_realloc keeps a block good, whether the allocator grants the      *)
(* request or not, as long as the entries fit the new capacity.            *)
LEMMA ReallocatedGood ==
  ASSUME GoodBlock(data, capacity, count),
         NEW new_capacity \in Nat, count <= Clamp(new_capacity),
         NEW block \in Reallocated(new_capacity)
  PROVE  /\ GoodBlock(block.data, block.capacity, count)
         /\ block.status = "OK" => block.capacity = Clamp(new_capacity)
         /\ block.status \in {"OK", "OOM"}
<1> DEFINE cap == Clamp(new_capacity)
           size == cap * KvSize
           Moved(m) == Memmove(m, cap, capacity, capacity * ValueSize)
<1>0. /\ count \in Nat /\ capacity \in Nat /\ count <= capacity
      /\ DOMAIN data \subseteq Nat
      /\ \A a \in DOMAIN data : data[a] \in Cell
      /\ 0 .. (capacity * KvSize - 1) \subseteq DOMAIN data
      /\ Ascending(data, count)
  BY DEF GoodBlock
<1>1. cap \in Nat /\ cap >= 1 /\ count <= cap /\ size \in Nat /\ cap <= size
  BY ClampBounds, KeysInsideBlock
<1>2. 0 .. (count - 1) \subseteq DOMAIN data
  BY <1>0 DEF Ascending
<1> HIDE DEF cap, size
<1>3. /\ DOMAIN Resize(data, size) = 0 .. (size - 1)
      /\ \A a \in 0 .. (size - 1) : Resize(data, size)[a] \in Cell
      /\ \A a \in 0 .. (size - 1) : a \in DOMAIN data => Resize(data, size)[a] = data[a]
  BY <1>0, <1>1, ResizeShape
<1>4. ASSUME cap >= capacity
      PROVE  GoodBlock(Moved(Resize(data, size)), cap, count)
  <2> DEFINE w == Moved(Resize(data, size))
  <2>1. DOMAIN w = 0 .. (size - 1) /\ \A a \in DOMAIN w : w[a] \in Cell
    BY <1>3, MemmoveShape
  <2>2. ASSUME NEW a \in 0 .. (count - 1)
        PROVE  a \in DOMAIN w /\ w[a] = data[a]
    <3>1. a \in 0 .. (size - 1) /\ a \in DOMAIN data /\ a < cap /\ a \in Int
      BY <1>0, <1>1, <1>2
    <3>2. w[a] = Resize(data, size)[a]
      BY <1>1, <1>3, <3>1, MemmoveKeeps
    <3> QED BY <1>3, <2>1, <3>1, <3>2
  <2>3. Ascending(w, count)
    BY <1>0, <2>2, AscendingKept
  <2>4. w # Null
    BY <1>1, <2>1 DEF Null
  <2> HIDE DEF w
  <2>5. GoodBlock(w, cap, count)
    BY <1>0, <1>1, <2>1, <2>3, <2>4 DEF GoodBlock, size
  <2> QED BY <2>5 DEF w
<1>5. ASSUME cap < capacity
      PROVE  /\ GoodBlock(Moved(data), cap, count)
             /\ GoodBlock(Resize(Moved(data), size), cap, count)
  <2> DEFINE w == Moved(data)
             r == Resize(w, size)
  <2>1. DOMAIN w = DOMAIN data /\ \A a \in DOMAIN w : w[a] \in Cell
    BY <1>0, MemmoveShape
  <2>2. ASSUME NEW a \in 0 .. (count - 1)
        PROVE  a \in DOMAIN w /\ w[a] = data[a]
    <3>1. a \in DOMAIN data /\ a < cap /\ a \in Int
      BY <1>0, <1>1, <1>2
    <3> QED BY <1>1, <2>1, <3>1, MemmoveKeeps
  <2>3. Ascending(w, count)
    BY <1>0, <2>2, AscendingKept
  <2>4. size <= capacity * KvSize /\ capacity * KvSize \in Nat
    BY <1>0, <1>1, <1>5, SizeMonotone, KeysInsideBlock DEF size
  <2>5. 0 .. (size - 1) \subseteq DOMAIN w
    BY <1>0, <1>1, <2>1, <2>4
  <2>6. w # Null
    BY <1>1, <2>5 DEF Null
  <2> HIDE DEF w
  <2>7. GoodBlock(w, cap, count)
    BY <1>0, <1>1, <2>1, <2>3, <2>5, <2>6 DEF GoodBlock, size
  <2>8. /\ DOMAIN r = 0 .. (size - 1)
        /\ \A a \in DOMAIN r : r[a] \in Cell
        /\ \A a \in 0 .. (size - 1) : a \in DOMAIN w => r[a] = w[a]
    BY <1>1, <2>1, ResizeShape
  <2>9. ASSUME NEW a \in 0 .. (count - 1)
        PROVE  a \in DOMAIN r /\ r[a] = w[a]
    BY <1>0, <1>1, <2>2, <2>8
  <2>10. Ascending(r, count)
    BY <1>0, <2>3, <2>9, AscendingKept
  <2>11. r # Null
    BY <1>1, <2>8 DEF Null
  <2> HIDE DEF r
  <2>12. GoodBlock(r, cap, count)
    BY <1>0, <1>1, <2>8, <2>10, <2>11 DEF GoodBlock, size
  <2> QED BY <2>7, <2>12 DEF w, r
<1>6. \E place :
        \/ block = Block(data, place, capacity, "OOM")
        \/ cap >= capacity /\ block = Block(Moved(Resize(data, size)), place, cap, "OK")
        \/ cap < capacity /\ block = Block(Moved(data), place, cap, "OK")
        \/ cap < capacity /\ block = Block(Resize(Moved(data), size), place, cap, "OK")
  BY <1>0, <1>1, ReallocatedOutcomes DEF cap, size
<1> QED BY <1>4, <1>5, <1>6 DEF Block, cap

(* The room an insertion makes is room for one entry more.                 *)
LEMMA RoomForOneGood ==
  ASSUME GoodBlock(data, capacity, count), NEW block \in RoomForOne
  PROVE  /\ GoodBlock(block.data, block.capacity, count)
         /\ block.status \in {"OK", "OOM"}
         /\ block.status = "OK" => count < block.capacity
<1>1. count \in Nat /\ capacity \in Nat /\ count <= capacity
  BY DEF GoodBlock
<1>2. CASE ~ NeedsRealloc
  BY <1>1, <1>2 DEF RoomForOne, NeedsRealloc, SameBlock, Block
<1>3. CASE NeedsRealloc
  <2> DEFINE wanted == capacity * ExpandFactor
  <2>1. ExpandFactor \in Nat /\ ExpandFactor >= 2
    BY ExpandFactorAssumption
  <2>2. wanted \in Nat /\ wanted >= capacity /\ (capacity > 0 => wanted > capacity)
    BY <1>1, <2>1
  <2>3. Clamp(wanted) \in Nat /\ Clamp(wanted) >= 1 /\ Clamp(wanted) >= wanted
    BY <2>2, ClampBounds
  <2>4. count < Clamp(wanted)
    BY <1>1, <1>3, <2>2, <2>3 DEF NeedsRealloc
  <2>5. block \in Reallocated(wanted)
    BY <1>3 DEF RoomForOne
  <2> HIDE DEF wanted
  <2> QED BY <1>1, <2>2, <2>3, <2>4, <2>5, ReallocatedGood
<1> QED BY <1>2, <1>3

-----------------------------------------------------------------------------
(* Storing a key, a value; adding and erasing an entry.                    *)

LEMMA StoreValueGood ==
  ASSUME NEW m, NEW cap, NEW n, GoodBlock(m, cap, n),
         NEW i \in Nat, NEW v \in Value
  PROVE  /\ GoodBlock(StoreValue(m, ValueAddr(i, cap), v), cap, n)
         /\ \A a \in 0 .. (cap - 1) : StoreValue(m, ValueAddr(i, cap), v)[a] = m[a]
<1> DEFINE addr == ValueAddr(i, cap)
           w == StoreValue(m, addr, v)
<1>1. n \in Nat /\ cap \in Nat /\ n <= cap /\ DOMAIN m \subseteq Nat
  BY DEF GoodBlock
<1>2. addr \in Nat /\ cap <= addr
  BY <1>1, ValuesBehindKeys
<1> HIDE DEF addr
<1>3. DOMAIN w = DOMAIN m
  BY DEF StoreValue
<1>4. ASSUME NEW a \in DOMAIN w
      PROVE  w[a] \in Cell
  <2>1. a \in Nat /\ m[a] \in Cell
    BY <1>1, <1>3 DEF GoodBlock
  <2>2. CASE addr <= a /\ a < addr + ValueSize
    <3>1. a - addr \in 0 .. (ValueSize - 1)
      BY <1>2, <2>1, <2>2, ValueSizeAssumption
    <3>2. v[a - addr] \in Cell
      BY <3>1, ValueAssumption DEF Cell
    <3> QED BY <1>3, <2>2, <3>2 DEF StoreValue
  <2>3. CASE ~ (addr <= a /\ a < addr + ValueSize)
    BY <1>3, <2>1, <2>3 DEF StoreValue
  <2> QED BY <2>2, <2>3
<1>5. 0 .. (cap - 1) \subseteq DOMAIN m
  <2>1. 0 .. (cap * KvSize - 1) \subseteq DOMAIN m /\ cap <= cap * KvSize /\ cap * KvSize \in Nat
    BY <1>1, KeysInsideBlock DEF GoodBlock
  <2> QED BY <1>1, <2>1
<1>6. ASSUME NEW a \in 0 .. (cap - 1)
      PROVE  w[a] = m[a]
  BY <1>1, <1>2, <1>5 DEF StoreValue
<1>7. Ascending(w, n)
  <2>1. 0 .. (n - 1) \subseteq 0 .. (cap - 1)
    BY <1>1
  <2>2. Ascending(m, n)
    BY DEF GoodBlock
  <2> HIDE DEF w
  <2> QED BY <1>1, <1>3, <1>5, <1>6, <2>1, <2>2, AscendingKept
<1>8. cap = 0 <=> w = Null
  <2>1. cap = 0 => w = Null
    BY <1>3 DEF GoodBlock, Null, StoreValue
  <2>2. w = Null => cap = 0
    BY <1>1, <1>3, <1>5 DEF Null
  <2> QED BY <2>1, <2>2
<1> HIDE DEF w
<1>9. GoodBlock(w, cap, n)
  BY <1>1, <1>3, <1>4, <1>7, <1>8 DEF GoodBlock
<1> QED BY <1>6, <1>9 DEF w, addr

(* insert_new and insert_or_get put the key where it belongs and keep the  *)
(* order.                                                                  *)
LEMMA EntryAddedGood ==
  ASSUME NEW m, NEW cap, GoodBlock(m, cap, count), count < cap,
         NEW k \in Word, NEW v \in Value,
         ~ Hits(m, count, k)
  PROVE  LET i == LowerBound(m, count, k)
             w == EntryAdded(m, cap, i, k, v)
         IN  /\ GoodBlock(w, cap, count + 1)
             /\ \A a \in 0 .. count :
                  w[a] = IF a < i THEN m[a] ELSE IF a = i THEN k ELSE m[a - 1]
<1> DEFINE i == LowerBound(m, count, k)
           moved == count - i
           ku == Memmove(m, i + 1, i, moved)
           bu == Memmove(ku, ValueAddr(i + 1, cap), ValueAddr(i, cap), moved * ValueSize)
           st == StoreKey(bu, i, k)
<1>1. /\ count \in Nat /\ cap \in Nat /\ DOMAIN m \subseteq Nat /\ k \in Nat
      /\ \A a \in DOMAIN m : m[a] \in Cell
      /\ 0 .. (cap * KvSize - 1) \subseteq DOMAIN m
      /\ Ascending(m, count)
  BY MaxWordAssumption DEF GoodBlock, Word
<1>2. i \in 0 .. count /\ IsLowerBound(m, count, k, i) /\ (i < count => m[i] # k)
  BY <1>1, LowerBoundProperty DEF Hits
<1> HIDE DEF i
<1>3. 0 .. (cap - 1) \subseteq DOMAIN m
  BY <1>1, KeysInsideBlock
<1>4. /\ DOMAIN ku = DOMAIN m
      /\ \A a \in DOMAIN ku : ku[a] \in Cell
  BY <1>1, MemmoveShape
<1>5. /\ DOMAIN bu = DOMAIN m
      /\ \A a \in DOMAIN bu : bu[a] \in Cell
  BY <1>4, MemmoveShape
<1>6. /\ DOMAIN st = DOMAIN m
      /\ \A a \in DOMAIN st : st[a] \in Cell
  <2>1. k \in Cell
    BY DEF Cell
  <2> HIDE DEF bu
  <2> QED BY <1>5, <2>1 DEF StoreKey
<1>7. ASSUME NEW a \in 0 .. count
      PROVE  ku[a] = IF a <= i THEN m[a] ELSE m[a - 1]
  <2>1. a \in DOMAIN m /\ a \in Int
    BY <1>1, <1>3
  <2>2. CASE a <= i
    BY <1>1, <1>2, <2>1, <2>2 DEF Memmove
  <2>3. CASE i < a
    <3>1. i + 1 <= a /\ a < i + 1 + moved /\ i + (a - (i + 1)) = a - 1
      BY <1>1, <1>2, <2>1, <2>3
    <3>2. a - 1 \in DOMAIN m
      BY <1>1, <1>2, <1>3, <2>3
    <3>3. ku[a] = Fetch(m, a - 1)
      BY <2>1, <3>1 DEF Memmove
    <3> QED BY <1>1, <1>2, <2>1, <2>3, <3>2, <3>3 DEF Fetch
  <2> QED BY <1>2, <2>1, <2>2, <2>3
<1>8. ASSUME NEW a \in 0 .. count
      PROVE  bu[a] = ku[a]
  <2>1. a \in DOMAIN ku /\ a \in Int /\ a < cap
    BY <1>1, <1>3, <1>4
  <2>2. ValueAddr(i + 1, cap) \in Nat /\ cap <= ValueAddr(i + 1, cap)
    <3>1. i + 1 \in Nat
      BY <1>2
    <3> QED BY <1>1, <3>1, ValuesBehindKeys
  <2> HIDE DEF ku
  <2> QED BY <1>1, <2>1, <2>2, MemmoveKeeps
<1>9. ASSUME NEW a \in 0 .. count
      PROVE  st[a] = IF a < i THEN m[a] ELSE IF a = i THEN k ELSE m[a - 1]
  <2>1. a \in DOMAIN bu
    BY <1>1, <1>3, <1>5
  <2>2. st[a] = IF a = i THEN k ELSE bu[a]
    BY <2>1 DEF StoreKey
  <2> HIDE DEF st, bu, ku
  <2> QED BY <1>1, <1>2, <1>7, <1>8, <2>2
<1> HIDE DEF ku, bu, st
<1>10. Ascending(st, count + 1)
  <2>1. 0 .. ((count + 1) - 1) = 0 .. count
    BY <1>1
  <2>2. 0 .. count \subseteq DOMAIN st
    BY <1>1, <1>3, <1>6
  <2>3. \A a \in 0 .. (count - 1) : m[a] \in Nat
    BY <1>1 DEF Ascending
  <2>4. ASSUME NEW a \in 0 .. count
        PROVE  st[a] \in Nat
    BY <1>1, <1>2, <1>9, <2>3
  <2>5. ASSUME NEW a \in 0 .. count, NEW b \in 0 .. count, a < b
        PROVE  st[a] < st[b]
    <3>1. CASE b < i
      BY <1>1, <1>2, <1>9, <2>5, <3>1 DEF Ascending
    <3>2. CASE b = i
      BY <1>1, <1>2, <1>9, <2>5, <3>2 DEF IsLowerBound
    <3>3. CASE i < b
      <4>1. st[b] = m[b - 1] /\ b - 1 \in 0 .. (count - 1) /\ i <= b - 1 /\ i < count
        BY <1>1, <1>2, <1>9, <3>3
      <4>2. m[i] \in Nat /\ m[b - 1] \in Nat /\ i \in 0 .. (count - 1)
        BY <1>1, <1>2, <2>3, <4>1
      <4>3. k < m[i]
        BY <1>1, <1>2, <4>1, <4>2 DEF IsLowerBound
      <4>4. m[i] <= m[b - 1]
        BY <1>1, <4>1, <4>2 DEF Ascending
      <4>5. CASE a = i
        BY <1>1, <1>9, <4>1, <4>2, <4>3, <4>4, <4>5
      <4>6. CASE a < i
        <5>1. st[a] = m[a] /\ a \in 0 .. (count - 1) /\ a < b - 1
          BY <1>1, <1>2, <1>9, <4>1, <4>6
        <5> QED BY <1>1, <4>1, <5>1 DEF Ascending
      <4>7. CASE i < a
        <5>1. st[a] = m[a - 1] /\ a - 1 \in 0 .. (count - 1) /\ a - 1 < b - 1
          BY <1>1, <1>2, <1>9, <2>5, <4>7
        <5> QED BY <1>1, <4>1, <5>1 DEF Ascending
      <4> QED BY <1>2, <4>5, <4>6, <4>7
    <3> QED BY <1>2, <3>1, <3>2, <3>3
  <2> QED BY <2>1, <2>2, <2>4, <2>5 DEF Ascending
<1>11. GoodBlock(st, cap, count + 1)
  <2>1. cap # 0 /\ count + 1 <= cap /\ st # Null
    BY <1>1, <1>3, <1>6 DEF Null
  <2> QED BY <1>1, <1>6, <1>10, <2>1 DEF GoodBlock
<1> DEFINE w == StoreValue(st, ValueAddr(i, cap), v)
<1>12. GoodBlock(w, cap, count + 1) /\ \A a \in 0 .. (cap - 1) : w[a] = st[a]
  BY <1>2, <1>11, StoreValueGood
<1>13. w = EntryAdded(m, cap, i, k, v)
  BY DEF EntryAdded, st, bu, ku
<1> HIDE DEF w
<1>14. ASSUME NEW a \in 0 .. count
       PROVE  w[a] = IF a < i THEN m[a] ELSE IF a = i THEN k ELSE m[a - 1]
  <2>1. a \in 0 .. (cap - 1)
    BY <1>1
  <2> QED BY <1>9, <1>12, <2>1
<1> QED BY <1>12, <1>13, <1>14 DEF i

(* Erasing closes the gap; the cells it fetches from behind the last entry *)
(* stay behind the last entry.                                             *)
LEMMA EntryErasedGood ==
  ASSUME GoodBlock(data, capacity, count), NEW idx \in 0 .. (count - 1)
  PROVE  LET w == EntryErased(idx)
         IN  /\ GoodBlock(w, capacity, count - 1)
             /\ \A a \in 0 .. (count - 2) :
                  w[a] = IF a < idx THEN data[a] ELSE data[a + 1]
<1> DEFINE moved == count - idx
           kd == Memmove(data, idx, idx + 1, moved)
           w == Memmove(kd, ValueAddr(idx, capacity), ValueAddr(idx + 1, capacity),
                        moved * ValueSize)
<1>1. /\ count \in Nat /\ capacity \in Nat /\ count <= capacity /\ DOMAIN data \subseteq Nat
      /\ \A a \in DOMAIN data : data[a] \in Cell
      /\ 0 .. (capacity * KvSize - 1) \subseteq DOMAIN data
      /\ Ascending(data, count)
      /\ idx \in Nat /\ idx < count /\ count - 1 \in Nat
  BY DEF GoodBlock
<1>2. 0 .. (capacity - 1) \subseteq DOMAIN data
  BY <1>1, KeysInsideBlock
<1>3. /\ DOMAIN kd = DOMAIN data
      /\ \A a \in DOMAIN kd : kd[a] \in Cell
  BY <1>1, MemmoveShape
<1>4. /\ DOMAIN w = DOMAIN data
      /\ \A a \in DOMAIN w : w[a] \in Cell
  BY <1>3, MemmoveShape
<1>5. ASSUME NEW a \in 0 .. (count - 2)
      PROVE  w[a] = IF a < idx THEN data[a] ELSE data[a + 1]
  <2>1. a \in DOMAIN data /\ a \in Int /\ a < capacity /\ a + 1 \in DOMAIN data
    BY <1>1, <1>2
  <2>2. ValueAddr(idx, capacity) \in Nat /\ capacity <= ValueAddr(idx, capacity)
    BY <1>1, ValuesBehindKeys
  <2>3. w[a] = kd[a]
    <3> HIDE DEF kd
    <3> QED BY <1>1, <1>3, <2>1, <2>2, MemmoveKeeps
  <2>4. CASE a < idx
    BY <1>1, <2>1, <2>3, <2>4 DEF Memmove
  <2>5. CASE idx <= a
    <3>1. a < idx + moved /\ idx + 1 + (a - idx) = a + 1
      BY <1>1, <2>1, <2>5
    <3>2. kd[a] = Fetch(data, a + 1)
      BY <1>1, <2>1, <2>5, <3>1 DEF Memmove
    <3> HIDE DEF w, kd
    <3> QED BY <1>1, <2>1, <2>3, <2>5, <3>2 DEF Fetch
  <2> QED BY <1>1, <2>1, <2>4, <2>5
<1> HIDE DEF kd, w
<1>6. Ascending(w, count - 1)
  <2>1. 0 .. ((count - 1) - 1) = 0 .. (count - 2)
    BY <1>1
  <2>2. 0 .. (count - 2) \subseteq DOMAIN w
    BY <1>1, <1>2, <1>4
  <2>3. \A a \in 0 .. (count - 1) : data[a] \in Nat
    BY <1>1 DEF Ascending
  <2>4. ASSUME NEW a \in 0 .. (count - 2)
        PROVE  w[a] \in Nat
    BY <1>1, <1>5, <2>3
  <2>5. ASSUME NEW a \in 0 .. (count - 2), NEW b \in 0 .. (count - 2), a < b
        PROVE  w[a] < w[b]
    <3>1. CASE b < idx
      BY <1>1, <1>5, <2>5, <3>1 DEF Ascending
    <3>2. CASE idx <= b /\ a < idx
      <4>1. w[a] = data[a] /\ w[b] = data[b + 1] /\ a < b + 1
        BY <1>1, <1>5, <2>5, <3>2
      <4>2. a \in 0 .. (count - 1) /\ b + 1 \in 0 .. (count - 1)
        BY <1>1
      <4> QED BY <1>1, <4>1, <4>2 DEF Ascending
    <3>3. CASE idx <= a
      <4>1. w[a] = data[a + 1] /\ w[b] = data[b + 1] /\ a + 1 < b + 1
        BY <1>1, <1>5, <2>5, <3>3
      <4>2. a + 1 \in 0 .. (count - 1) /\ b + 1 \in 0 .. (count - 1)
        BY <1>1
      <4> QED BY <1>1, <4>1, <4>2 DEF Ascending
    <3> QED BY <1>1, <2>5, <3>1, <3>2, <3>3
  <2> QED BY <2>1, <2>2, <2>4, <2>5 DEF Ascending
<1>7. capacity # 0 /\ count - 1 <= capacity /\ w # Null
  BY <1>1, <1>2, <1>4 DEF Null
<1>8. GoodBlock(w, capacity, count - 1)
  BY <1>1, <1>4, <1>6, <1>7 DEF GoodBlock
<1> QED BY <1>5, <1>8 DEF EntryErased, w, kd

-----------------------------------------------------------------------------
(* Every operation keeps the invariant.                                    *)

LEMMA InitInv == Init => Inv
<1> SUFFICES ASSUME Init PROVE Inv
  OBVIOUS
<1>1. DOMAIN Null = {}
  BY DEF Null
<1>2. Ascending(data, 0)
  BY <1>1 DEF Init, Ascending
<1>3. 0 .. (0 * KvSize - 1) = {}
  BY NoCapacityNoCells
<1> QED BY <1>1, <1>2, <1>3 DEF Init, Inv, GoodBlock, Answer, Status

LEMMA InsertNewInv ==
  ASSUME Inv, NEW k \in Word, NEW v \in Value, InsertNew(k, v)
  PROVE  Inv'
<1>1. PICK block \in RoomForOne :
        \/ /\ Became(block)
           /\ UNCHANGED count
           /\ ret'.status \in Status
        \/ /\ block.status = "OK"
           /\ ~ Hits(block.data, count, k)
           /\ data' = EntryAdded(block.data, block.capacity,
                                 LowerBound(block.data, count, k), k, v)
           /\ capacity' = block.capacity
           /\ count' = count + 1
           /\ ret'.status \in Status
  BY DEF InsertNew, Answer, Status
<1>2. /\ GoodBlock(block.data, block.capacity, count)
      /\ block.status = "OK" => count < block.capacity
  BY RoomForOneGood DEF Inv
<1>3. CASE Became(block) /\ UNCHANGED count /\ ret'.status \in Status
  BY <1>2, <1>3 DEF Became, Inv, GoodBlock
<1>4. CASE /\ block.status = "OK"
           /\ ~ Hits(block.data, count, k)
           /\ data' = EntryAdded(block.data, block.capacity,
                                 LowerBound(block.data, count, k), k, v)
           /\ capacity' = block.capacity
           /\ count' = count + 1
           /\ ret'.status \in Status
  <2>1. GoodBlock(data', capacity', count')
    BY <1>2, <1>4, EntryAddedGood
  <2> QED BY <1>4, <2>1 DEF Inv, GoodBlock
<1> QED BY <1>1, <1>3, <1>4

LEMMA InsertOrGetInv ==
  ASSUME Inv, NEW k \in Word, NEW v \in Value, InsertOrGet(k, v)
  PROVE  Inv'
<1>1. PICK block \in RoomForOne :
        \/ /\ Became(block)
           /\ UNCHANGED count
           /\ ret'.status \in Status
        \/ /\ block.status = "OK"
           /\ ~ Hits(block.data, count, k)
           /\ data' = EntryAdded(block.data, block.capacity,
                                 LowerBound(block.data, count, k), k, v)
           /\ capacity' = block.capacity
           /\ count' = count + 1
           /\ ret'.status \in Status
  BY DEF InsertOrGet, Answer, Status
<1>2. /\ GoodBlock(block.data, block.capacity, count)
      /\ block.status = "OK" => count < block.capacity
  BY RoomForOneGood DEF Inv
<1>3. CASE Became(block) /\ UNCHANGED count /\ ret'.status \in Status
  BY <1>2, <1>3 DEF Became, Inv, GoodBlock
<1>4. CASE /\ block.status = "OK"
           /\ ~ Hits(block.data, count, k)
           /\ data' = EntryAdded(block.data, block.capacity,
                                 LowerBound(block.data, count, k), k, v)
           /\ capacity' = block.capacity
           /\ count' = count + 1
           /\ ret'.status \in Status
  <2>1. GoodBlock(data', capacity', count')
    BY <1>2, <1>4, EntryAddedGood
  <2> QED BY <1>4, <2>1 DEF Inv, GoodBlock
<1> QED BY <1>1, <1>3, <1>4

LEMMA SetExistingInv ==
  ASSUME Inv, NEW k \in Word, NEW v \in Value, SetExisting(k, v)
  PROVE  Inv'
<1>1. UNCHANGED <<count, capacity>> /\ ret'.status \in Status
  BY DEF SetExisting, Answer, Status
<1>2. CASE KeyExists(k) /\ data' = StoreValue(data, Find(k), v)
  <2>1. LowerBound(data, count, k) \in Nat
    BY LowerBoundProperty DEF Inv, GoodBlock
  <2>2. data' = StoreValue(data, ValueAddr(LowerBound(data, count, k), capacity), v)
    BY <1>2 DEF Find
  <2>3. GoodBlock(data', capacity, count)
    BY <2>1, <2>2, StoreValueGood DEF Inv
  <2> QED BY <1>1, <2>3 DEF Inv, GoodBlock
<1>3. CASE UNCHANGED data
  BY <1>1, <1>3 DEF Inv, GoodBlock
<1> QED BY <1>2, <1>3 DEF SetExisting

(* What the operations that erase have in common.                          *)
LEMMA RemoveAtInv ==
  ASSUME Inv, NEW idx \in 0 .. (count - 1), RemoveAt(idx), ret'.status \in Status
  PROVE  Inv'
<1>1. GoodBlock(data', capacity', count')
  BY EntryErasedGood DEF RemoveAt, Inv
<1> QED BY <1>1 DEF Inv, GoodBlock

LEMMA NothingErasedInv ==
  ASSUME Inv, UNCHANGED <<data, count, capacity>>, ret'.status \in Status
  PROVE  Inv'
BY DEF Inv, GoodBlock

LEMMA EraseInv ==
  ASSUME Inv, NEW k \in Word, Erase(k)
  PROVE  Inv'
<1>1. ret'.status \in Status
  BY DEF Erase, Answer, Status
<1>2. CASE KeyExists(k) /\ RemoveAt(LowerBound(data, count, k))
  <2>1. count \in Nat /\ LowerBound(data, count, k) \in 0 .. count
    BY LowerBoundProperty DEF Inv, GoodBlock
  <2>2. LowerBound(data, count, k) \in 0 .. (count - 1)
    BY <1>2, <2>1 DEF KeyExists, Hits
  <2> QED BY <1>1, <1>2, <2>2, RemoveAtInv
<1>3. CASE UNCHANGED <<data, base, count, capacity>>
  BY <1>1, <1>3, NothingErasedInv
<1> QED BY <1>2, <1>3 DEF Erase

(* The first index whose value matches is an index, and its value matches. *)
LEMMA FirstMatchingMatches ==
  ASSUME NEW v, Matching(v) # {}, count \in Nat
  PROVE  FirstMatching(v) \in 0 .. (count - 1) /\ FirstMatching(v) \in Matching(v)
<1>1. Matching(v) \in SUBSET Nat /\ Matching(v) \subseteq 0 .. (count - 1)
  BY DEF Matching
<1>2. \E i \in Matching(v) : \A j \in Matching(v) : i <= j
  BY <1>1, LeastElement
<1>3. FirstMatching(v) \in Matching(v)
  BY <1>2 DEF FirstMatching
<1> QED BY <1>1, <1>3

LEMMA EraseValueInv ==
  ASSUME Inv, NEW v \in Value, EraseValue(v)
  PROVE  Inv'
<1>1. ret'.status \in Status
  BY DEF EraseValue, Answer, Status
<1>2. CASE Matching(v) # {} /\ RemoveAt(FirstMatching(v))
  <2>1. FirstMatching(v) \in 0 .. (count - 1)
    BY <1>2, FirstMatchingMatches DEF Inv, GoodBlock
  <2> QED BY <1>1, <1>2, <2>1, RemoveAtInv
<1>3. CASE UNCHANGED <<data, base, count, capacity>>
  BY <1>1, <1>3, NothingErasedInv
<1> QED BY <1>2, <1>3 DEF EraseValue

LEMMA EraseIndexInv ==
  ASSUME Inv, NEW idx \in 0 .. (count - 1), EraseIndex(idx)
  PROVE  Inv'
<1>1. ret'.status \in Status
  BY DEF EraseIndex, Answer, Status
<1> QED BY <1>1, RemoveAtInv DEF EraseIndex

(* BTREE_VALUE_TO_IDX of an address inside a value is the index of that    *)
(* value.                                                                  *)
LEMMA AddressToIndex ==
  ASSUME capacity \in Nat, count \in Nat, ValueSize > 0,
         NEW addr \in Nat,
         ValueAddr(0, capacity) <= addr, addr < ValueAddr(count, capacity)
  PROVE  (addr - capacity) \div ValueSize \in 0 .. (count - 1)
<1> DEFINE offset == addr - capacity
           idx == offset \div ValueSize
<1>1. ValueSize \in Nat
  BY ValueSizeAssumption
<1>2. offset \in Nat /\ offset < ValueSize * count
  BY <1>1 DEF ValueAddr
<1> HIDE DEF offset
<1>3. idx \in Nat /\ ValueSize * idx <= offset
  BY <1>1, <1>2
<1> HIDE DEF idx
<1>4. ValueSize * idx < ValueSize * count
  BY <1>1, <1>2, <1>3
<1>5. idx < count
  <2>1. SUFFICES ASSUME count <= idx PROVE FALSE
    BY <1>3
  <2>2. idx - count \in Nat
    BY <1>3, <2>1
  <2>3. ValueSize * (idx - count) \in Nat
    BY <2>2, ProductNat
  <2>4. ValueSize * idx = ValueSize * count + ValueSize * (idx - count)
    BY <1>1, <1>3
  <2> QED BY <1>1, <1>3, <1>4, <2>3, <2>4
<1>6. idx \in 0 .. (count - 1)
  BY <1>3, <1>5
<1> QED BY <1>6 DEF idx, offset

LEMMA EraseInternalValueInv ==
  ASSUME Inv, NEW addr \in Nat, EraseInternalValue(addr)
  PROVE  Inv'
<1> DEFINE idx == (addr - capacity) \div ValueSize
<1>1. RemoveAt(idx) /\ ret'.status \in Status
  BY DEF EraseInternalValue, Answer, Status
<1>2. idx \in 0 .. (count - 1)
  BY AddressToIndex DEF EraseInternalValue, Inv, GoodBlock
<1> HIDE DEF idx
<1> QED BY <1>1, <1>2, RemoveAtInv

LEMMA ClearInv ==
  ASSUME Inv, Clear
  PROVE  Inv'
<1>1. Ascending(data, 0)
  BY DEF Ascending
<1> QED BY <1>1 DEF Clear, Inv, GoodBlock, Answer, Status

(* An object that was given back is as good as a new one.                  *)
LEMMA NullInv ==
  ASSUME data' = Null, count' = 0, capacity' = 0, ret'.status \in Status
  PROVE  Inv'
<1>1. DOMAIN Null = {}
  BY DEF Null
<1>2. Ascending(Null, 0)
  BY <1>1 DEF Ascending
<1>3. 0 .. (0 * KvSize - 1) = {}
  BY NoCapacityNoCells
<1>4. GoodBlock(Null, 0, 0)
  BY <1>1, <1>2, <1>3 DEF GoodBlock
<1>5. GoodBlock(data', capacity', count')
  BY <1>4
<1> QED BY <1>5 DEF Inv, GoodBlock

LEMMA CompactInv ==
  ASSUME Inv, Compact
  PROVE  Inv'
<1>1. UNCHANGED count /\ ret'.status \in Status
  BY DEF Compact, Answer, Status
<1>2. CASE count = 0 /\ data' = Null /\ capacity' = 0
  BY <1>1, <1>2, NullInv
<1>3. CASE \E block \in Reallocated(count) : Became(block)
  <2>1. PICK block \in Reallocated(count) : Became(block)
    BY <1>3
  <2>2. count \in Nat /\ count <= Clamp(count)
    BY ClampBounds DEF Inv, GoodBlock
  <2>3. GoodBlock(block.data, block.capacity, count)
    BY <2>2, ReallocatedGood DEF Inv
  <2> QED BY <1>1, <2>1, <2>3 DEF Became, Inv, GoodBlock
<1> QED BY <1>2, <1>3 DEF Compact

LEMMA ReserveInv ==
  ASSUME Inv, NEW size \in Nat, Reserve(size)
  PROVE  Inv'
<1>1. UNCHANGED count
  BY DEF Reserve
<1>2. CASE /\ capacity < size
           /\ \E block \in Reallocated(size) :
                /\ Became(block)
                /\ ret' = Answer("reserve", Nothing, Nothing, block.status, Nothing)
  <2>1. PICK block \in Reallocated(size) :
          /\ Became(block)
          /\ ret' = Answer("reserve", Nothing, Nothing, block.status, Nothing)
    BY <1>2
  <2>2. count \in Nat /\ capacity \in Nat /\ count <= capacity
    BY DEF Inv, GoodBlock
  <2>3. count <= Clamp(size)
    BY <1>2, <2>2, ClampBounds
  <2>4. GoodBlock(block.data, block.capacity, count) /\ block.status \in {"OK", "OOM"}
    BY <2>3, ReallocatedGood DEF Inv
  <2>5. ret'.status \in Status
    BY <2>1, <2>4 DEF Answer, Status
  <2> QED BY <1>1, <2>1, <2>4, <2>5 DEF Became, Inv, GoodBlock
<1>3. CASE /\ UNCHANGED <<data, capacity>>
           /\ ret' = Answer("reserve", Nothing, Nothing, "OK", Nothing)
  BY <1>1, <1>3 DEF Inv, GoodBlock, Answer, Status
<1> QED BY <1>2, <1>3 DEF Reserve

LEMMA DeinitInv ==
  ASSUME Inv, Deinit
  PROVE  Inv'
BY NullInv DEF Deinit, Answer, Status

LEMMA NextInv == Inv /\ [Next]_vars => Inv'
<1> SUFFICES ASSUME Inv, [Next]_vars PROVE Inv'
  OBVIOUS
<1>1. CASE \E k \in Word, v \in Value : InsertNew(k, v)
  BY <1>1, InsertNewInv
<1>2. CASE \E k \in Word, v \in Value : InsertOrGet(k, v)
  BY <1>2, InsertOrGetInv
<1>3. CASE \E k \in Word, v \in Value : SetExisting(k, v)
  BY <1>3, SetExistingInv
<1>4. CASE \E k \in Word : Erase(k)
  BY <1>4, EraseInv
<1>5. CASE \E v \in Value : EraseValue(v)
  BY <1>5, EraseValueInv
<1>6. CASE \E idx \in 0 .. (count - 1) : EraseIndex(idx)
  BY <1>6, EraseIndexInv
<1>7. CASE \E addr \in 0 .. (capacity * KvSize) : EraseInternalValue(addr)
  <2>1. PICK addr \in 0 .. (capacity * KvSize) : EraseInternalValue(addr)
    BY <1>7
  <2>2. addr \in Nat
    BY KeysInsideBlock DEF Inv, GoodBlock
  <2> QED BY <2>1, <2>2, EraseInternalValueInv
<1>8. CASE Clear
  BY <1>8, ClearInv
<1>9. CASE Compact
  BY <1>9, CompactInv
<1>10. CASE \E size \in 0 .. MaxCapacity : Reserve(size)
  <2>1. PICK size \in 0 .. MaxCapacity : Reserve(size)
    BY <1>10
  <2>2. size \in Nat
    BY MaxCapacityAssumption
  <2> QED BY <2>1, <2>2, ReserveInv
<1>11. CASE Deinit
  BY <1>11, DeinitInv
<1>12. CASE UNCHANGED vars
  BY <1>12 DEF vars, Inv, GoodBlock
<1> QED BY <1>1, <1>2, <1>3, <1>4, <1>5, <1>6, <1>7, <1>8, <1>9, <1>10, <1>11, <1>12 DEF Next

(* The inductive invariant: order, room and types hold together at every   *)
(* step of every operation of btree.c.                                     *)
THEOREM InvHolds == Spec => []Inv
BY InitInv, NextInv, PTL DEF Spec

LEMMA NextSomewhere == Somewhere /\ [Next]_vars => Somewhere'
<1> SUFFICES ASSUME Somewhere, [Next]_vars PROVE Somewhere'
  OBVIOUS
<1>1. ASSUME NEW n, NEW block \in Reallocated(n)
      PROVE  block.base \in Place \cup {Nothing}
  BY ReallocatedOutcomes DEF Block, Somewhere
<1>2. ASSUME NEW block \in RoomForOne
      PROVE  block.base \in Place \cup {Nothing}
  BY <1>1, <1>2 DEF RoomForOne, SameBlock, Block, Somewhere
<1>3. \/ UNCHANGED base
      \/ base' = Nothing
      \/ \E n : \E block \in Reallocated(n) : base' = block.base
      \/ \E block \in RoomForOne : base' = block.base
  BY DEF Next, vars, InsertNew, InsertOrGet, SetExisting, Erase, EraseValue, EraseIndex,
         EraseInternalValue, Clear, Compact, Reserve, Deinit, RemoveAt, Became
<1> QED BY <1>1, <1>2, <1>3 DEF Somewhere

(* The block of a btree holds words and is where an allocation put it, and *)
(* its counters are naturals.                                              *)
THEOREM TypeCorrect == Spec => []TypeOK
<1>1. Init => Somewhere
  BY DEF Init, Somewhere
<1> QED BY <1>1, NextSomewhere, InvHolds, InvIsTheInvariants, PTL DEF Spec

(* The keys btree_find_lower_bound searches are always strictly ascending, *)
(* for every value size, growth factor and pattern of failing allocations. *)
THEOREM KeysStayAscending == Spec => []KeysAscending
<1>1. Inv => KeysAscending
  BY DEF Inv, GoodBlock, KeysAscending
<1> QED BY <1>1, InvHolds, PTL

(* The entries always fit the capacity and the capacity the heap block.    *)
THEOREM EntriesHaveRoom == Spec => []RoomForEntries
<1>1. Inv => RoomForEntries
  BY DEF Inv, GoodBlock, RoomForEntries
<1> QED BY <1>1, InvHolds, PTL
-----------------------------------------------------------------------------
(* The entries of the block, as a dictionary sees them.                    *)

ValueOf(m, cap, i) == LoadValue(m, ValueAddr(i, cap))

(* The words of value i lie behind those of the values before it.          *)
LEMMA ValueWords ==
  ASSUME NEW i \in Nat, NEW n \in Nat, i < n
  PROVE  ValueSize * i + ValueSize <= ValueSize * n /\ ValueSize * i \in Nat /\ ValueSize * n \in Nat
<1>1. n - (i + 1) \in Nat /\ ValueSize \in Nat
  BY ValueSizeAssumption
<1>2. ValueSize * (n - (i + 1)) \in Nat
  BY <1>1, ProductNat
<1>3. ValueSize * n = ValueSize * i + ValueSize + ValueSize * (n - (i + 1))
  BY <1>1
<1> QED BY <1>1, <1>2, <1>3, ProductNat

LEMMA NextValueAddr ==
  ASSUME NEW i \in Nat, NEW cap \in Nat
  PROVE  ValueAddr(i + 1, cap) = ValueAddr(i, cap) + ValueSize
BY ValueSizeAssumption DEF ValueAddr

(* Values lie one behind the other ...                                     *)
LEMMA ValuesApart ==
  ASSUME NEW i \in Nat, NEW n \in Nat, NEW cap \in Nat, i < n
  PROVE  ValueAddr(i, cap) + ValueSize <= ValueAddr(n, cap)
BY ValueWords, ValueSizeAssumption DEF ValueAddr

(* ... and inside the block.                                               *)
LEMMA ValueInsideBlock ==
  ASSUME NEW i \in Nat, NEW cap \in Nat, i < cap, NEW b \in 0 .. (ValueSize - 1)
  PROVE  /\ ValueAddr(i, cap) + b \in 0 .. (cap * KvSize - 1)
         /\ cap <= ValueAddr(i, cap) + b
<1>1. cap * KvSize = cap + ValueSize * cap /\ ValueSize \in Nat
  BY ValueSizeAssumption DEF KvSize
<1>2. ValueSize * i + ValueSize <= ValueSize * cap /\ ValueSize * i \in Nat /\ ValueSize * cap \in Nat
  BY ValueWords
<1> QED BY <1>1, <1>2 DEF ValueAddr

LEMMA BlockCells ==
  ASSUME NEW m, NEW cap, NEW n, GoodBlock(m, cap, n), NEW i \in 0 .. (cap - 1)
  PROVE  /\ i \in DOMAIN m
         /\ \A b \in 0 .. (ValueSize - 1) :
              ValueAddr(i, cap) + b \in DOMAIN m /\ cap <= ValueAddr(i, cap) + b
<1>1. cap \in Nat /\ 0 .. (cap * KvSize - 1) \subseteq DOMAIN m
  BY DEF GoodBlock
<1>2. i \in 0 .. (cap * KvSize - 1)
  BY <1>1, KeysInsideBlock
<1> QED BY <1>1, <1>2, ValueInsideBlock

(* Two blocks with the same words at two addresses hold the same value     *)
(* there.                                                                  *)
LEMMA SameWords ==
  ASSUME NEW w, NEW a, NEW m, NEW c,
         \A b \in 0 .. (ValueSize - 1) : Fetch(w, a + b) = Fetch(m, c + b)
  PROVE  LoadValue(w, a) = LoadValue(m, c)
BY DEF LoadValue

-----------------------------------------------------------------------------
(* What the steps of an operation do to the entries.                       *)

SameEntries(w, c, m, cap, n) ==
  \A i \in 0 .. (n - 1) : w[i] = m[i] /\ ValueOf(w, c, i) = ValueOf(m, cap, i)

(* btree_realloc: the values have moved with the capacity, and no entry    *)
(* has changed.                                                            *)
LEMMA ReallocatedEntries ==
  ASSUME GoodBlock(data, capacity, count),
         NEW new_capacity \in Nat, count <= Clamp(new_capacity),
         NEW block \in Reallocated(new_capacity)
  PROVE  SameEntries(block.data, block.capacity, data, capacity, count)
<1> DEFINE cap == Clamp(new_capacity)
           size == cap * KvSize
           len == capacity * ValueSize
           Moved(m) == Memmove(m, cap, capacity, len)
<1>0. /\ count \in Nat /\ capacity \in Nat /\ count <= capacity
      /\ DOMAIN data \subseteq Nat
      /\ \A a \in DOMAIN data : data[a] \in Cell
      /\ ValueSize \in Nat
  BY ValueSizeAssumption DEF GoodBlock
<1>1. cap \in Nat /\ count <= cap /\ size \in Nat /\ cap <= size
  BY ClampBounds, KeysInsideBlock
<1>2. len = ValueSize * capacity /\ len \in Nat
  BY <1>0, ProductNat
<1> HIDE DEF cap, size, len
<1>3. ASSUME NEW i \in 0 .. (count - 1)
      PROVE  i \in 0 .. (cap - 1) /\ i \in 0 .. (capacity - 1) /\ i \in DOMAIN data
  BY <1>0, <1>1, BlockCells
(* Word b of value i, before and after the move.                           *)
<1>4. ASSUME NEW i \in 0 .. (count - 1), NEW b \in 0 .. (ValueSize - 1)
      PROVE  /\ ValueAddr(i, capacity) + b \in DOMAIN data
             /\ cap <= ValueAddr(i, cap) + b
             /\ ValueAddr(i, cap) + b < cap + len
             /\ capacity + (ValueAddr(i, cap) + b - cap) = ValueAddr(i, capacity) + b
             /\ ValueAddr(i, cap) + b \in 0 .. (size - 1)
  <2>1. ValueSize * i + ValueSize <= ValueSize * capacity /\ ValueSize * i \in Nat
    BY <1>0, <1>3, ValueWords
  <2>2. ValueAddr(i, capacity) + b \in DOMAIN data
    BY <1>3, BlockCells
  <2>3. ValueAddr(i, cap) + b \in 0 .. (size - 1)
    <3>1. i \in Nat /\ i < cap
      BY <1>0, <1>1
    <3> QED BY <1>1, <3>1, ValueInsideBlock DEF size
  <2> QED BY <1>0, <1>1, <1>2, <2>1, <2>2, <2>3 DEF ValueAddr
<1>5. ASSUME cap >= capacity
      PROVE  SameEntries(Moved(Resize(data, size)), cap, data, capacity, count)
  <2> DEFINE r == Resize(data, size)
             w == Moved(r)
  <2>1. /\ DOMAIN r = 0 .. (size - 1)
        /\ \A a \in 0 .. (size - 1) : a \in DOMAIN data => r[a] = data[a]
    BY <1>0, <1>1, ResizeShape
  <2>2. DOMAIN w = 0 .. (size - 1)
    BY <2>1 DEF Memmove
  <2> HIDE DEF r
  <2>3. ASSUME NEW i \in 0 .. (count - 1)
        PROVE  w[i] = data[i]
    <3>1. i \in 0 .. (size - 1) /\ i < cap /\ i \in Int
      BY <1>0, <1>1
    <3>2. w[i] = r[i]
      BY <1>1, <2>1, <3>1, MemmoveKeeps
    <3> QED BY <1>3, <2>1, <3>1, <3>2
  <2>4. ASSUME NEW i \in 0 .. (count - 1), NEW b \in 0 .. (ValueSize - 1)
        PROVE  Fetch(w, ValueAddr(i, cap) + b) = Fetch(data, ValueAddr(i, capacity) + b)
    <3> DEFINE a == ValueAddr(i, cap) + b
               c == ValueAddr(i, capacity) + b
    <3>1. /\ c \in DOMAIN data
          /\ cap <= a
          /\ a < cap + len
          /\ capacity + (a - cap) = c
          /\ a \in 0 .. (size - 1)
      <4>0. i \in Nat /\ cap \in Nat /\ capacity \in Nat
        BY <1>0, <1>1
      <4>1. ValueAddr(i, cap) \in Nat /\ ValueAddr(i, capacity) \in Nat
        BY ONLY <4>0, ValuesBehindKeys
      <4> QED BY ONLY <1>0, <1>1, <1>2, <1>4, <4>1, ValueSizeAssumption DEF a, c
    <3> HIDE DEF a, c
    <3>2. w[a] = Fetch(r, c)
      BY <2>1, <3>1 DEF Memmove
    <3>3. c \in 0 .. (size - 1)
      <4>1. c \in Nat /\ a \in Nat /\ c <= a
        BY <1>0, <1>1, <1>5, <3>1
      <4> QED BY <1>1, <3>1, <4>1
    <3>4. Fetch(r, c) = data[c]
      BY <2>1, <3>1, <3>3 DEF Fetch
    <3>5. Fetch(w, a) = w[a]
      <4> HIDE DEF w
      <4> QED BY <2>2, <3>1 DEF Fetch
    <3>6. Fetch(data, c) = data[c]
      BY <3>1 DEF Fetch
    <3> QED BY <3>2, <3>4, <3>5, <3>6 DEF a, c
  <2> HIDE DEF w
  <2>5. ASSUME NEW i \in 0 .. (count - 1)
        PROVE  ValueOf(w, cap, i) = ValueOf(data, capacity, i)
    BY <2>4, SameWords DEF ValueOf
  <2> QED BY <2>3, <2>5 DEF SameEntries, w, r
<1>6. ASSUME cap < capacity
      PROVE  /\ SameEntries(Moved(data), cap, data, capacity, count)
             /\ SameEntries(Resize(Moved(data), size), cap, data, capacity, count)
  <2> DEFINE w == Moved(data)
             r == Resize(w, size)
  <2>1. /\ DOMAIN w = DOMAIN data
        /\ \A a \in DOMAIN w : w[a] \in Cell
    BY <1>0, MemmoveShape
  <2>2. /\ DOMAIN r = 0 .. (size - 1)
        /\ \A a \in 0 .. (size - 1) : a \in DOMAIN w => r[a] = w[a]
    <3> HIDE DEF w
    <3> QED BY <1>1, <2>1, ResizeShape
  <2> HIDE DEF r
  <2>3. 0 .. (size - 1) \subseteq DOMAIN data
    <3>1. size <= capacity * KvSize /\ capacity * KvSize \in Nat
      BY <1>0, <1>1, <1>6, SizeMonotone, KeysInsideBlock DEF size
    <3>2. 0 .. (capacity * KvSize - 1) \subseteq DOMAIN data
      BY DEF GoodBlock
    <3> QED BY <1>1, <3>1, <3>2
  <2>4. ASSUME NEW i \in 0 .. (count - 1)
        PROVE  w[i] = data[i] /\ r[i] = data[i]
    <3>1. i \in 0 .. (size - 1) /\ i < cap /\ i \in Int /\ i \in DOMAIN data
      BY <1>0, <1>1, <1>3
    <3>2. w[i] = data[i]
      BY <1>1, <3>1, MemmoveKeeps
    <3> HIDE DEF w
    <3> QED BY <2>1, <2>2, <3>1, <3>2
  <2>5. ASSUME NEW i \in 0 .. (count - 1), NEW b \in 0 .. (ValueSize - 1)
        PROVE  /\ Fetch(w, ValueAddr(i, cap) + b) = Fetch(data, ValueAddr(i, capacity) + b)
               /\ Fetch(r, ValueAddr(i, cap) + b) = Fetch(data, ValueAddr(i, capacity) + b)
    <3> DEFINE a == ValueAddr(i, cap) + b
               c == ValueAddr(i, capacity) + b
    <3>1. /\ c \in DOMAIN data
          /\ cap <= a
          /\ a < cap + len
          /\ capacity + (a - cap) = c
          /\ a \in 0 .. (size - 1)
      <4>0. i \in Nat /\ cap \in Nat /\ capacity \in Nat
        BY <1>0, <1>1
      <4>1. ValueAddr(i, cap) \in Nat /\ ValueAddr(i, capacity) \in Nat
        BY ONLY <4>0, ValuesBehindKeys
      <4> QED BY ONLY <1>0, <1>1, <1>2, <1>4, <4>1, ValueSizeAssumption DEF a, c
    <3> HIDE DEF a, c
    <3>2. a \in DOMAIN data
      BY <2>3, <3>1
    <3>3. w[a] = Fetch(data, c)
      BY <3>1, <3>2 DEF Memmove
    <3> HIDE DEF w
    <3>4. Fetch(w, a) = w[a] /\ Fetch(r, a) = w[a]
      BY <2>1, <2>2, <3>1, <3>2 DEF Fetch
    <3> QED BY <3>3, <3>4 DEF a, c
  <2> HIDE DEF w
  <2>6. ASSUME NEW i \in 0 .. (count - 1)
        PROVE  /\ ValueOf(w, cap, i) = ValueOf(data, capacity, i)
               /\ ValueOf(r, cap, i) = ValueOf(data, capacity, i)
    BY <2>5, SameWords DEF ValueOf
  <2> QED BY <2>4, <2>6 DEF SameEntries, w, r
<1>7. \E place :
        \/ block = Block(data, place, capacity, "OOM")
        \/ cap >= capacity /\ block = Block(Moved(Resize(data, size)), place, cap, "OK")
        \/ cap < capacity /\ block = Block(Moved(data), place, cap, "OK")
        \/ cap < capacity /\ block = Block(Resize(Moved(data), size), place, cap, "OK")
  BY <1>0, <1>1, ReallocatedOutcomes DEF cap, size, len
<1>8. SameEntries(data, capacity, data, capacity, count)
  BY DEF SameEntries
<1> QED BY <1>5, <1>6, <1>7, <1>8 DEF Block, cap

(* The room an insertion makes leaves the entries alone.                   *)
LEMMA RoomForOneEntries ==
  ASSUME GoodBlock(data, capacity, count), NEW block \in RoomForOne
  PROVE  SameEntries(block.data, block.capacity, data, capacity, count)
<1>1. count \in Nat /\ capacity \in Nat /\ count <= capacity
  BY DEF GoodBlock
<1>2. CASE ~ NeedsRealloc
  BY <1>1, <1>2 DEF RoomForOne, NeedsRealloc, SameBlock, Block, SameEntries
<1>3. CASE NeedsRealloc
  <2> DEFINE wanted == capacity * ExpandFactor
  <2>1. ExpandFactor \in Nat /\ ExpandFactor >= 2
    BY ExpandFactorAssumption
  <2>2. wanted \in Nat /\ wanted >= capacity
    BY <1>1, <2>1
  <2>3. count <= Clamp(wanted)
    BY <1>1, <2>2, ClampBounds
  <2>4. block \in Reallocated(wanted)
    BY <1>3 DEF RoomForOne
  <2> HIDE DEF wanted
  <2> QED BY <2>2, <2>3, <2>4, ReallocatedEntries
<1> QED BY <1>2, <1>3

(* All words of value j are cells of block m.                              *)
HasValue(m, cap, j) == \A b \in 0 .. (ValueSize - 1) : ValueAddr(j, cap) + b \in DOMAIN m

(* Moving n values from index s to index d.                                *)
LEMMA MovedValues ==
  ASSUME NEW m, NEW cap \in Nat, NEW d \in Nat, NEW s \in Nat, NEW n \in Nat,
         NEW j \in Nat, HasValue(m, cap, j)
  PROVE  LET w == Memmove(m, ValueAddr(d, cap), ValueAddr(s, cap), n * ValueSize)
         IN  /\ d <= j /\ j < d + n => ValueOf(w, cap, j) = ValueOf(m, cap, s + (j - d))
             /\ j < d \/ d + n <= j => ValueOf(w, cap, j) = ValueOf(m, cap, j)
<1> DEFINE to == ValueAddr(d, cap)
           from == ValueAddr(s, cap)
           len == n * ValueSize
           w == Memmove(m, to, from, len)
           at == ValueAddr(j, cap)
<1>1. /\ ValueSize \in Nat /\ to \in Nat /\ from \in Nat /\ at \in Nat
      /\ len \in Nat /\ len = ValueSize * n
  <2>1. ValueSize \in Nat /\ to \in Nat /\ from \in Nat /\ at \in Nat
    BY ValueSizeAssumption, ValuesBehindKeys
  <2>2. ValueSize * n \in Nat /\ n * ValueSize = ValueSize * n
    BY <2>1, ProductNat
  <2> QED BY <2>1, <2>2
<1>2. to + len = ValueAddr(d + n, cap)
  BY <1>1 DEF ValueAddr
<1>3. ASSUME d <= j, j < d + n
      PROVE  /\ to <= at /\ at + ValueSize <= to + len
             /\ from + (at - to) = ValueAddr(s + (j - d), cap)
  <2>1. at + ValueSize <= ValueAddr(d + n, cap)
    BY <1>3, ValuesApart
  <2>2. to <= at
    <3>1. CASE d = j
      BY <1>1, <3>1
    <3>2. CASE d < j
      BY <1>1, <3>2, ValuesApart
    <3> QED BY <1>3, <3>1, <3>2
  <2>3. ValueSize * (s + (j - d)) = ValueSize * s + ValueSize * j - ValueSize * d
    BY <1>1
  <2> QED BY <1>1, <1>2, <2>1, <2>2, <2>3 DEF ValueAddr
<1>4. ASSUME j < d
      PROVE  at + ValueSize <= to
  BY <1>4, ValuesApart
<1>5. ASSUME d + n <= j
      PROVE  to + len <= at
  <2>1. CASE d + n = j
    BY <1>1, <1>2, <2>1
  <2>2. CASE d + n < j
    BY <1>1, <1>2, <2>2, ValuesApart
  <2> QED BY <1>5, <2>1, <2>2
<1> HIDE DEF to, from, len, at
<1>6. \A b \in 0 .. (ValueSize - 1) : at + b \in DOMAIN m
  BY DEF HasValue, at
<1>7. DOMAIN w = DOMAIN m
  BY DEF Memmove
<1>8. ASSUME d <= j, j < d + n
      PROVE  ValueOf(w, cap, j) = ValueOf(m, cap, s + (j - d))
  <2>1. ASSUME NEW b \in 0 .. (ValueSize - 1)
        PROVE  Fetch(w, at + b) = Fetch(m, (from + (at - to)) + b)
    <3>1. to <= at + b /\ at + b < to + len /\ from + ((at + b) - to) = (from + (at - to)) + b
      BY <1>1, <1>3, <1>8
    <3>2. w[at + b] = Fetch(m, from + ((at + b) - to))
      BY <1>6, <3>1 DEF Memmove
    <3>3. Fetch(w, at + b) = w[at + b]
      <4> HIDE DEF w
      <4> QED BY <1>6, <1>7 DEF Fetch
    <3> QED BY <3>1, <3>2, <3>3
  <2> DEFINE origin == from + (at - to)
  <2>2. origin = ValueAddr(s + (j - d), cap)
    BY <1>3, <1>8
  <2> HIDE DEF w, origin
  <2>3. LoadValue(w, at) = LoadValue(m, origin)
    BY <2>1, SameWords DEF origin
  <2> QED BY <2>2, <2>3 DEF ValueOf, at
<1>9. ASSUME j < d \/ d + n <= j
      PROVE  ValueOf(w, cap, j) = ValueOf(m, cap, j)
  <2>1. ASSUME NEW b \in 0 .. (ValueSize - 1)
        PROVE  Fetch(w, at + b) = Fetch(m, at + b)
    <3>1. ~ (to <= at + b /\ at + b < to + len)
      BY <1>1, <1>4, <1>5, <1>9
    <3>2. w[at + b] = m[at + b]
      BY <1>6, <3>1 DEF Memmove
    <3> HIDE DEF w
    <3> QED BY <1>6, <1>7, <3>2 DEF Fetch
  <2> HIDE DEF w
  <2> QED BY <2>1, SameWords DEF ValueOf, at
<1> QED BY <1>8, <1>9 DEF w, to, from, len

(* A block that differs from another in the key area only holds the same   *)
(* values.                                                                 *)
LEMMA KeptValue ==
  ASSUME NEW m, NEW w, NEW cap \in Nat, NEW j \in Nat, HasValue(m, cap, j),
         DOMAIN w = DOMAIN m,
         \A a \in DOMAIN m : cap <= a => w[a] = m[a]
  PROVE  ValueOf(w, cap, j) = ValueOf(m, cap, j)
<1>1. ASSUME NEW b \in 0 .. (ValueSize - 1)
      PROVE  Fetch(w, ValueAddr(j, cap) + b) = Fetch(m, ValueAddr(j, cap) + b)
  <2>1. ValueAddr(j, cap) \in Nat /\ cap <= ValueAddr(j, cap)
    BY ValuesBehindKeys
  <2>2. cap <= ValueAddr(j, cap) + b
    BY <2>1
  <2>3. ValueAddr(j, cap) + b \in DOMAIN m
    BY DEF HasValue
  <2> QED BY <2>2, <2>3 DEF Fetch
<1> QED BY <1>1, SameWords DEF ValueOf

(* Storing a value changes that value only.                                *)
LEMMA StoredValues ==
  ASSUME NEW m, NEW cap \in Nat, NEW i \in Nat, NEW v \in Value,
         NEW j \in Nat, HasValue(m, cap, j)
  PROVE  ValueOf(StoreValue(m, ValueAddr(i, cap), v), cap, j)
           = IF j = i THEN v ELSE ValueOf(m, cap, j)
<1> DEFINE addr == ValueAddr(i, cap)
           w == StoreValue(m, addr, v)
           at == ValueAddr(j, cap)
<1>1. ValueSize \in Nat /\ addr \in Nat /\ at \in Nat
  BY ValueSizeAssumption, ValuesBehindKeys
<1>2. /\ j < i => at + ValueSize <= addr
      /\ i < j => addr + ValueSize <= at
      /\ j = i => at = addr
  BY ValuesApart
<1> HIDE DEF addr, at
<1>3. \A b \in 0 .. (ValueSize - 1) : at + b \in DOMAIN m
  BY DEF HasValue, at
<1>4. DOMAIN w = DOMAIN m
  BY DEF StoreValue
<1>5. CASE j = i
  <2>1. ASSUME NEW b \in 0 .. (ValueSize - 1)
        PROVE  Fetch(w, at + b) = v[b]
    <3>1. addr <= at + b /\ at + b < addr + ValueSize /\ (at + b) - addr = b
      BY <1>1, <1>2, <1>5
    <3>2. w[at + b] = v[(at + b) - addr]
      BY <1>3, <3>1 DEF StoreValue
    <3> HIDE DEF w
    <3> QED BY <1>3, <1>4, <3>1, <3>2 DEF Fetch
  <2>2. v = [b \in 0 .. (ValueSize - 1) |-> v[b]]
    BY ValueAssumption
  <2> HIDE DEF w
  <2>3. LoadValue(w, at) = [b \in 0 .. (ValueSize - 1) |-> v[b]]
    BY <2>1 DEF LoadValue
  <2> QED BY <1>5, <2>2, <2>3 DEF ValueOf, w, at, addr
<1>6. CASE j # i
  <2>1. ASSUME NEW b \in 0 .. (ValueSize - 1)
        PROVE  Fetch(w, at + b) = Fetch(m, at + b)
    <3>1. ~ (addr <= at + b /\ at + b < addr + ValueSize)
      BY <1>1, <1>2, <1>6
    <3>2. w[at + b] = m[at + b]
      BY <1>3, <3>1 DEF StoreValue
    <3> HIDE DEF w
    <3> QED BY <1>3, <1>4, <3>2 DEF Fetch
  <2> HIDE DEF w
  <2>2. LoadValue(w, at) = LoadValue(m, at)
    BY <2>1, SameWords
  <2> QED BY <1>6, <2>2 DEF ValueOf, w, at, addr
<1> QED BY <1>5, <1>6

LEMMA GoodValues ==
  ASSUME NEW m, NEW cap, NEW n, GoodBlock(m, cap, n), NEW j \in 0 .. (cap - 1)
  PROVE  HasValue(m, cap, j)
BY BlockCells DEF HasValue

(* insert_new and insert_or_get: the entries from the new one on are one   *)
(* index further up, keys and values alike.                                *)
LEMMA EntryAddedEntries ==
  ASSUME NEW m, NEW cap, GoodBlock(m, cap, count), count < cap,
         NEW i \in 0 .. count, NEW k, NEW v \in Value, NEW j \in 0 .. count
  PROVE  ValueOf(EntryAdded(m, cap, i, k, v), cap, j)
           = IF j < i THEN ValueOf(m, cap, j)
             ELSE IF j = i THEN v ELSE ValueOf(m, cap, j - 1)
<1> DEFINE moved == count - i
           ku == Memmove(m, i + 1, i, moved)
           bu == Memmove(ku, ValueAddr(i + 1, cap), ValueAddr(i, cap), moved * ValueSize)
           st == StoreKey(bu, i, k)
           w == StoreValue(st, ValueAddr(i, cap), v)
<1>1. /\ count \in Nat /\ cap \in Nat /\ DOMAIN m \subseteq Nat
      /\ i \in Nat /\ i <= count /\ j \in Nat /\ j <= count /\ i + 1 \in Nat
      /\ moved \in Nat /\ i + moved = count
  BY DEF GoodBlock
<1> HIDE DEF moved
<1>2. DOMAIN ku = DOMAIN m /\ \A a \in DOMAIN m : cap <= a => ku[a] = m[a]
  BY <1>1 DEF Memmove
<1> HIDE DEF ku
<1>3. ASSUME NEW x \in 0 .. count
      PROVE  /\ HasValue(m, cap, x) /\ HasValue(ku, cap, x)
             /\ ValueOf(ku, cap, x) = ValueOf(m, cap, x)
  <2>1. x \in 0 .. (cap - 1) /\ x \in Nat
    BY <1>1
  <2>2. HasValue(m, cap, x)
    BY <2>1, GoodValues
  <2>3. HasValue(ku, cap, x)
    BY <1>2, <2>2 DEF HasValue
  <2>4. ValueOf(ku, cap, x) = ValueOf(m, cap, x)
    BY <1>1, <1>2, <2>1, <2>2, KeptValue
  <2> QED BY <2>2, <2>3, <2>4
<1>4. /\ i + 1 <= j => ValueOf(bu, cap, j) = ValueOf(ku, cap, i + (j - (i + 1)))
      /\ j < i + 1 => ValueOf(bu, cap, j) = ValueOf(ku, cap, j)
  <2> DEFINE to == i + 1
  <2>1. to \in Nat /\ to + moved = count + 1
    BY <1>1
  <2>2. HasValue(ku, cap, j)
    BY <1>3
  <2> HIDE DEF to
  <2>3. LET b == Memmove(ku, ValueAddr(to, cap), ValueAddr(i, cap), moved * ValueSize)
        IN  /\ to <= j /\ j < to + moved => ValueOf(b, cap, j) = ValueOf(ku, cap, i + (j - to))
            /\ j < to \/ to + moved <= j => ValueOf(b, cap, j) = ValueOf(ku, cap, j)
    BY <1>1, <2>1, <2>2, MovedValues
  <2>4. to <= j => j < to + moved
    BY <1>1, <2>1
  <2> QED BY <2>3, <2>4 DEF to
<1>5. ValueOf(bu, cap, j) = IF j <= i THEN ValueOf(m, cap, j) ELSE ValueOf(m, cap, j - 1)
  <2> HIDE DEF bu
  <2>1. CASE j <= i
    BY <1>1, <1>3, <1>4, <2>1
  <2>2. CASE i < j
    <3>1. i + (j - (i + 1)) = j - 1 /\ j - 1 \in 0 .. count /\ i + 1 <= j
      BY <1>1, <2>2
    <3>2. ValueOf(bu, cap, j) = ValueOf(ku, cap, j - 1)
      BY <1>4, <3>1
    <3>3. ValueOf(ku, cap, j - 1) = ValueOf(m, cap, j - 1)
      BY <1>3, <3>1
    <3>4. ~ (j <= i)
      BY <1>1, <2>2
    <3> QED BY <3>2, <3>3, <3>4
  <2> QED BY <1>1, <2>1, <2>2
<1>6. DOMAIN bu = DOMAIN m
  BY <1>2 DEF Memmove
<1> HIDE DEF bu
<1>7. DOMAIN st = DOMAIN m /\ \A a \in DOMAIN m : cap <= a => st[a] = bu[a]
  <2>1. \A a \in DOMAIN m : cap <= a => a # i
    BY <1>1
  <2> QED BY <1>6, <2>1 DEF StoreKey
<1> HIDE DEF st
<1>8. HasValue(bu, cap, j) /\ HasValue(st, cap, j)
  BY <1>3, <1>6, <1>7 DEF HasValue
<1>9. ValueOf(st, cap, j) = ValueOf(bu, cap, j)
  BY <1>1, <1>6, <1>7, <1>8, KeptValue
<1>10. ValueOf(w, cap, j) = IF j = i THEN v ELSE ValueOf(st, cap, j)
  BY <1>1, <1>8, StoredValues
<1>11. w = EntryAdded(m, cap, i, k, v)
  BY DEF EntryAdded, st, bu, ku, moved
<1> HIDE DEF w
<1>12. ValueOf(w, cap, j)
         = IF j < i THEN ValueOf(m, cap, j) ELSE IF j = i THEN v ELSE ValueOf(m, cap, j - 1)
  BY <1>1, <1>5, <1>9, <1>10
<1> QED BY <1>11, <1>12

(* btree_erase_index: the entries behind the erased one are one index      *)
(* further down.                                                           *)
LEMMA EntryErasedEntries ==
  ASSUME GoodBlock(data, capacity, count), NEW idx \in 0 .. (count - 1),
         NEW j \in 0 .. (count - 2)
  PROVE  ValueOf(EntryErased(idx), capacity, j)
           = IF j < idx THEN ValueOf(data, capacity, j) ELSE ValueOf(data, capacity, j + 1)
<1> DEFINE moved == count - idx
           kd == Memmove(data, idx, idx + 1, moved)
           w == Memmove(kd, ValueAddr(idx, capacity), ValueAddr(idx + 1, capacity),
                        moved * ValueSize)
<1>1. /\ count \in Nat /\ capacity \in Nat /\ count <= capacity /\ DOMAIN data \subseteq Nat
      /\ idx \in Nat /\ idx < count /\ j \in Nat /\ j + 1 < count
      /\ moved \in Nat /\ idx + moved = count
  BY DEF GoodBlock
<1> HIDE DEF moved
<1>2. DOMAIN kd = DOMAIN data /\ \A a \in DOMAIN data : capacity <= a => kd[a] = data[a]
  BY <1>1 DEF Memmove
<1> HIDE DEF kd
<1>3. ASSUME NEW x \in 0 .. (count - 1)
      PROVE  HasValue(kd, capacity, x) /\ ValueOf(kd, capacity, x) = ValueOf(data, capacity, x)
  <2>1. x \in 0 .. (capacity - 1) /\ x \in Nat
    BY <1>1
  <2>2. HasValue(data, capacity, x)
    BY <2>1, GoodValues
  <2>3. HasValue(kd, capacity, x)
    BY <1>2, <2>2 DEF HasValue
  <2>4. ValueOf(kd, capacity, x) = ValueOf(data, capacity, x)
    BY <1>1, <1>2, <2>1, <2>2, KeptValue
  <2> QED BY <2>3, <2>4
<1>4. /\ idx <= j => ValueOf(w, capacity, j) = ValueOf(kd, capacity, (idx + 1) + (j - idx))
      /\ j < idx => ValueOf(w, capacity, j) = ValueOf(kd, capacity, j)
  <2> DEFINE from == idx + 1
  <2>1. from \in Nat
    BY <1>1
  <2>2. HasValue(kd, capacity, j)
    BY <1>1, <1>3
  <2> HIDE DEF from
  <2>3. LET b == Memmove(kd, ValueAddr(idx, capacity), ValueAddr(from, capacity), moved * ValueSize)
        IN  /\ idx <= j /\ j < idx + moved
                 => ValueOf(b, capacity, j) = ValueOf(kd, capacity, from + (j - idx))
            /\ j < idx \/ idx + moved <= j
                 => ValueOf(b, capacity, j) = ValueOf(kd, capacity, j)
    BY <1>1, <2>1, <2>2, MovedValues
  <2>4. j < idx + moved
    BY <1>1
  <2> QED BY <2>3, <2>4 DEF from
<1>5. w = EntryErased(idx)
  BY DEF EntryErased, kd, moved
<1> HIDE DEF w
<1>6. CASE j < idx
  <2>1. ValueOf(kd, capacity, j) = ValueOf(data, capacity, j)
    BY <1>1, <1>3
  <2> QED BY <1>4, <1>5, <1>6, <2>1
<1>7. CASE idx <= j
  <2>1. (idx + 1) + (j - idx) = j + 1 /\ j + 1 \in 0 .. (count - 1) /\ ~ (j < idx)
    BY <1>1, <1>7
  <2>2. ValueOf(kd, capacity, j + 1) = ValueOf(data, capacity, j + 1)
    BY <1>3, <2>1
  <2>3. ValueOf(w, capacity, j) = ValueOf(kd, capacity, j + 1)
    BY <1>4, <1>7, <2>1
  <2> QED BY <1>5, <2>1, <2>2, <2>3
<1> QED BY <1>1, <1>6, <1>7

-----------------------------------------------------------------------------
(* The entries as a function.                                              *)

DictOf(m, cap, n) ==
  [k \in {m[i] : i \in 0 .. (n - 1)} |->
     ValueOf(m, cap, CHOOSE i \in 0 .. (n - 1) : m[i] = k)]

LEMMA ContentsIsDictOf ==
  /\ Contents = DictOf(data, capacity, count)
  /\ Contents' = DictOf(data', capacity', count')
BY DEF Contents, DictOf, Keys, IndexOf, ValueOf

(* Ascending keys are all different: an entry has the value of its index.  *)
LEMMA DictOfEntry ==
  ASSUME NEW m, NEW cap, NEW n \in Nat, Ascending(m, n), NEW i \in 0 .. (n - 1)
  PROVE  m[i] \in DOMAIN DictOf(m, cap, n) /\ DictOf(m, cap, n)[m[i]] = ValueOf(m, cap, i)
<1> DEFINE j == CHOOSE x \in 0 .. (n - 1) : m[x] = m[i]
<1>1. j \in 0 .. (n - 1) /\ m[j] = m[i]
  OBVIOUS
<1>2. j = i
  <2> HIDE DEF j
  <2> QED BY <1>1 DEF Ascending
<1>3. DictOf(m, cap, n)[m[i]] = ValueOf(m, cap, j)
  BY DEF DictOf
<1> QED BY <1>2, <1>3 DEF DictOf

LEMMA DictOfDomain ==
  ASSUME NEW m, NEW cap, NEW n
  PROVE  DOMAIN DictOf(m, cap, n) = {m[i] : i \in 0 .. (n - 1)}
BY DEF DictOf

(* To be the dictionary of a block is to have its keys and its values.     *)
LEMMA IsDictOf ==
  ASSUME NEW m, NEW cap, NEW n \in Nat, Ascending(m, n),
         NEW D, D = [k \in DOMAIN D |-> D[k]],
         \A i \in 0 .. (n - 1) : m[i] \in DOMAIN D /\ D[m[i]] = ValueOf(m, cap, i),
         \A k \in DOMAIN D : \E i \in 0 .. (n - 1) : k = m[i]
  PROVE  DictOf(m, cap, n) = D
<1> DEFINE E == DictOf(m, cap, n)
<1>1. DOMAIN E = DOMAIN D
  <2>1. \A k \in DOMAIN D : k \in DOMAIN E
    BY DictOfEntry
  <2>2. DOMAIN E = {m[i] : i \in 0 .. (n - 1)}
    BY ONLY DictOfDomain
  <2>3. \A k \in DOMAIN E : k \in DOMAIN D
    <3> HIDE DEF E
    <3> QED BY <2>2
  <2> QED BY <2>1, <2>3
<1>2. ASSUME NEW k \in DOMAIN D
      PROVE  E[k] = D[k]
  <2>1. PICK i \in 0 .. (n - 1) : k = m[i]
    OBVIOUS
  <2> QED BY <2>1, DictOfEntry
<1>3. E = [k \in DOMAIN E |-> E[k]]
  BY DEF DictOf
<1> HIDE DEF E
<1>4. E = D
  BY <1>1, <1>2, <1>3
<1> QED BY <1>4 DEF E

LEMMA SameDict ==
  ASSUME NEW m, NEW cap, NEW w, NEW c, NEW n \in Nat, Ascending(m, n),
         SameEntries(w, c, m, cap, n)
  PROVE  DictOf(w, c, n) = DictOf(m, cap, n)
<1> DEFINE D == DictOf(m, cap, n)
<1>1. \A i \in 0 .. (n - 1) : w[i] = m[i] /\ ValueOf(w, c, i) = ValueOf(m, cap, i)
  BY DEF SameEntries
<1>2. 0 .. (n - 1) \subseteq DOMAIN m
  BY DEF Ascending
<1>3. {w[i] : i \in 0 .. (n - 1)} = {m[i] : i \in 0 .. (n - 1)}
  BY <1>1
<1>4. ASSUME NEW k \in {m[i] : i \in 0 .. (n - 1)}
      PROVE  DictOf(w, c, n)[k] = DictOf(m, cap, n)[k]
  <2>1. PICK i \in 0 .. (n - 1) : k = m[i]
    OBVIOUS
  <2>2. (CHOOSE x \in 0 .. (n - 1) : w[x] = k) = i
    BY <1>1, <2>1 DEF Ascending
  <2>3. (CHOOSE x \in 0 .. (n - 1) : m[x] = k) = i
    BY <2>1 DEF Ascending
  <2>4. DictOf(w, c, n)[k] = ValueOf(w, c, i)
    BY <1>3, <2>2 DEF DictOf
  <2>5. DictOf(m, cap, n)[k] = ValueOf(m, cap, i)
    BY <2>3 DEF DictOf
  <2> QED BY <1>1, <2>4, <2>5
<1> QED BY <1>3, <1>4 DEF DictOf

(* The search ends on a key exactly if the dictionary has it.              *)
LEMMA HitsIsPresent ==
  ASSUME NEW m, NEW cap, NEW n \in Nat, Ascending(m, n), NEW k \in Nat
  PROVE  /\ Hits(m, n, k) <=> k \in DOMAIN DictOf(m, cap, n)
         /\ Hits(m, n, k) =>
              /\ LowerBound(m, n, k) \in 0 .. (n - 1)
              /\ m[LowerBound(m, n, k)] = k
              /\ DictOf(m, cap, n)[k] = ValueOf(m, cap, LowerBound(m, n, k))
<1> DEFINE b == LowerBound(m, n, k)
<1>1. b \in 0 .. n /\ IsLowerBound(m, n, k, b)
  BY LowerBoundProperty
<1>2. Hits(m, n, k) => b \in 0 .. (n - 1) /\ m[b] = k
  BY <1>1 DEF Hits
<1>3. ASSUME k \in DOMAIN DictOf(m, cap, n)
      PROVE  Hits(m, n, k)
  <2>0. k \in {m[i] : i \in 0 .. (n - 1)}
    BY <1>3, DictOfDomain
  <2>1. PICK i \in 0 .. (n - 1) : k = m[i]
    BY <2>0
  <2>2. IsLowerBound(m, n, k, i)
    <3>1. \A j \in 0 .. (i - 1) : j \in 0 .. (n - 1) /\ j < i
      OBVIOUS
    <3> QED BY <2>1, <3>1 DEF IsLowerBound, Ascending
  <2>3. i = b
    BY <2>2, LowerBoundUnique
  <2>4. b < n
    BY <2>3
  <2> QED BY <2>1, <2>3, <2>4 DEF Hits
<1> HIDE DEF b
<1>4. ASSUME Hits(m, n, k)
      PROVE  k \in DOMAIN DictOf(m, cap, n) /\ DictOf(m, cap, n)[k] = ValueOf(m, cap, b)
  BY <1>2, <1>4, DictOfEntry
<1> QED BY <1>2, <1>3, <1>4 DEF b

(* One entry more.                                                         *)
LEMMA DictAdded ==
  ASSUME NEW m, NEW cap, GoodBlock(m, cap, count), count < cap,
         NEW k \in Word, NEW v \in Value, ~ Hits(m, count, k)
  PROVE  LET D == DictOf(m, cap, count)
         IN  /\ k \notin DOMAIN D
             /\ DictOf(EntryAdded(m, cap, LowerBound(m, count, k), k, v), cap, count + 1)
                  = [x \in DOMAIN D \cup {k} |-> IF x = k THEN v ELSE D[x]]
<1> DEFINE i == LowerBound(m, count, k)
           w == EntryAdded(m, cap, i, k, v)
           D == DictOf(m, cap, count)
           E == [x \in DOMAIN D \cup {k} |-> IF x = k THEN v ELSE D[x]]
<1>1. count \in Nat /\ k \in Nat /\ Ascending(m, count)
  BY MaxWordAssumption DEF GoodBlock, Word
<1>2. i \in 0 .. count
  BY <1>1, LowerBoundProperty
<1>3. /\ GoodBlock(w, cap, count + 1)
      /\ \A a \in 0 .. count : w[a] = IF a < i THEN m[a] ELSE IF a = i THEN k ELSE m[a - 1]
  BY EntryAddedGood
<1>4. \A j \in 0 .. count :
        ValueOf(w, cap, j) = IF j < i THEN ValueOf(m, cap, j)
                             ELSE IF j = i THEN v ELSE ValueOf(m, cap, j - 1)
  BY <1>2, EntryAddedEntries
<1>5. k \notin DOMAIN D
  BY <1>1, HitsIsPresent
<1>6. \A j \in 0 .. (count - 1) : m[j] \in DOMAIN D /\ D[m[j]] = ValueOf(m, cap, j)
  BY <1>1, DictOfEntry
<1>7. DOMAIN D = {m[j] : j \in 0 .. (count - 1)}
  BY DictOfDomain
<1> HIDE DEF i, w, D
<1>8. DOMAIN E = DOMAIN D \cup {k} /\ E = [x \in DOMAIN E |-> E[x]]
  OBVIOUS
<1>9. E[k] = v /\ \A x \in DOMAIN D : E[x] = D[x]
  BY <1>5
<1> HIDE DEF E
<1>10. ASSUME NEW j \in 0 .. count
       PROVE  w[j] \in DOMAIN E /\ E[w[j]] = ValueOf(w, cap, j)
  <2>1. CASE j < i
    <3>1. j \in 0 .. (count - 1)
      BY <1>1, <1>2, <2>1
    <3>2. w[j] = m[j] /\ ValueOf(w, cap, j) = ValueOf(m, cap, j)
      BY <1>3, <1>4, <2>1
    <3> QED BY <1>6, <1>8, <1>9, <3>1, <3>2
  <2>2. CASE j = i
    <3>1. w[j] = k /\ ValueOf(w, cap, j) = v
      BY <1>3, <1>4, <1>2, <2>2
    <3> QED BY <1>8, <1>9, <3>1
  <2>3. CASE i < j
    <3>1. j - 1 \in 0 .. (count - 1) /\ ~ (j < i) /\ j # i
      BY <1>1, <1>2, <2>3
    <3>2. w[j] = m[j - 1] /\ ValueOf(w, cap, j) = ValueOf(m, cap, j - 1)
      BY <1>3, <1>4, <3>1
    <3> QED BY <1>6, <1>8, <1>9, <3>1, <3>2
  <2> QED BY <1>1, <1>2, <2>1, <2>2, <2>3
<1>11. ASSUME NEW x \in DOMAIN E
       PROVE  \E j \in 0 .. count : x = w[j]
  <2>1. CASE x = k
    <3>1. w[i] = k
      BY <1>2, <1>3
    <3> QED BY <1>2, <2>1, <3>1
  <2>2. CASE x \in DOMAIN D
    <3>1. PICK j \in 0 .. (count - 1) : x = m[j]
      BY <1>7, <2>2
    <3>2. CASE j < i
      <4>1. j \in 0 .. count
        BY <1>1
      <4> QED BY <1>3, <3>1, <3>2, <4>1
    <3>3. CASE i <= j
      <4>1. j + 1 \in 0 .. count /\ ~ (j + 1 < i) /\ j + 1 # i /\ (j + 1) - 1 = j
        BY <1>1, <1>2, <3>3
      <4>2. w[j + 1] = m[(j + 1) - 1]
        BY <1>3, <4>1
      <4> QED BY <3>1, <4>1, <4>2
    <3> QED BY <1>2, <3>2, <3>3
  <2> QED BY <1>8, <2>1, <2>2
<1> DEFINE n == count + 1
<1>12. n \in Nat /\ 0 .. (n - 1) = 0 .. count /\ Ascending(w, n)
  BY <1>1, <1>3 DEF GoodBlock
<1> HIDE DEF n
<1>13. DictOf(w, cap, n) = E
  <2>1. /\ \A j \in 0 .. (n - 1) : w[j] \in DOMAIN E /\ E[w[j]] = ValueOf(w, cap, j)
        /\ \A x \in DOMAIN E : \E j \in 0 .. (n - 1) : x = w[j]
    BY <1>10, <1>11, <1>12
  <2> QED BY <1>8, <1>12, <2>1, IsDictOf
<1> QED BY <1>5, <1>13 DEF n, E, w, i, D

(* One entry less.                                                         *)
LEMMA DictErased ==
  ASSUME GoodBlock(data, capacity, count), NEW idx \in 0 .. (count - 1)
  PROVE  LET D == DictOf(data, capacity, count)
         IN  DictOf(EntryErased(idx), capacity, count - 1)
               = [x \in DOMAIN D \ {data[idx]} |-> D[x]]
<1> DEFINE w == EntryErased(idx)
           D == DictOf(data, capacity, count)
           E == [x \in DOMAIN D \ {data[idx]} |-> D[x]]
<1>1. count \in Nat /\ Ascending(data, count)
  BY DEF GoodBlock
<1>2. /\ GoodBlock(w, capacity, count - 1)
      /\ \A a \in 0 .. (count - 2) : w[a] = IF a < idx THEN data[a] ELSE data[a + 1]
  BY EntryErasedGood
<1>3. \A j \in 0 .. (count - 2) :
        ValueOf(w, capacity, j)
          = IF j < idx THEN ValueOf(data, capacity, j) ELSE ValueOf(data, capacity, j + 1)
  BY EntryErasedEntries
<1>4. \A j \in 0 .. (count - 1) :
        data[j] \in DOMAIN D /\ D[data[j]] = ValueOf(data, capacity, j)
  BY <1>1, DictOfEntry
<1>5. DOMAIN D = {data[j] : j \in 0 .. (count - 1)}
  BY DictOfDomain
<1>6. \A j \in 0 .. (count - 1) : data[j] = data[idx] => j = idx
  BY <1>1 DEF Ascending
<1> HIDE DEF w, D
<1>7. /\ DOMAIN E = DOMAIN D \ {data[idx]} /\ E = [x \in DOMAIN E |-> E[x]]
      /\ \A x \in DOMAIN E : E[x] = D[x]
  OBVIOUS
<1> HIDE DEF E
<1>8. ASSUME NEW j \in 0 .. (count - 2)
      PROVE  w[j] \in DOMAIN E /\ E[w[j]] = ValueOf(w, capacity, j)
  <2>1. CASE j < idx
    <3>1. j \in 0 .. (count - 1) /\ j # idx
      BY <1>1, <2>1
    <3>2. w[j] = data[j] /\ ValueOf(w, capacity, j) = ValueOf(data, capacity, j)
      BY <1>2, <1>3, <2>1
    <3> QED BY <1>4, <1>6, <1>7, <3>1, <3>2
  <2>2. CASE idx <= j
    <3>1. j + 1 \in 0 .. (count - 1) /\ j + 1 # idx /\ ~ (j < idx)
      BY <1>1, <2>2
    <3>2. w[j] = data[j + 1] /\ ValueOf(w, capacity, j) = ValueOf(data, capacity, j + 1)
      BY <1>2, <1>3, <3>1
    <3> QED BY <1>4, <1>6, <1>7, <3>1, <3>2
  <2> QED BY <1>1, <2>1, <2>2
<1>9. ASSUME NEW x \in DOMAIN E
      PROVE  \E j \in 0 .. (count - 2) : x = w[j]
  <2>1. PICK j \in 0 .. (count - 1) : x = data[j]
    BY <1>5, <1>7
  <2>2. j # idx
    BY <1>7, <2>1
  <2>3. CASE j < idx
    <3>1. j \in 0 .. (count - 2)
      BY <1>1, <2>3
    <3> QED BY <1>2, <2>1, <2>3, <3>1
  <2>4. CASE idx < j
    <3>1. j - 1 \in 0 .. (count - 2) /\ ~ (j - 1 < idx) /\ (j - 1) + 1 = j
      BY <1>1, <2>4
    <3>2. w[j - 1] = data[(j - 1) + 1]
      BY <1>2, <3>1
    <3> QED BY <2>1, <3>1, <3>2
  <2> QED BY <2>2, <2>3, <2>4
<1> DEFINE n == count - 1
<1>10. n \in Nat /\ 0 .. (n - 1) = 0 .. (count - 2) /\ Ascending(w, n)
  BY <1>1, <1>2 DEF GoodBlock
<1> HIDE DEF n
<1>11. DictOf(w, capacity, n) = E
  <2>1. /\ \A j \in 0 .. (n - 1) : w[j] \in DOMAIN E /\ E[w[j]] = ValueOf(w, capacity, j)
        /\ \A x \in DOMAIN E : \E j \in 0 .. (n - 1) : x = w[j]
    BY <1>8, <1>9, <1>10
  <2> QED BY <1>7, <1>10, <2>1, IsDictOf
<1> QED BY <1>11 DEF n, E, w, D

(* The value of an entry replaced.                                         *)
LEMMA DictStored ==
  ASSUME NEW m, NEW cap, NEW n, GoodBlock(m, cap, n),
         NEW i \in 0 .. (n - 1), NEW v \in Value
  PROVE  LET D == DictOf(m, cap, n)
         IN  DictOf(StoreValue(m, ValueAddr(i, cap), v), cap, n)
               = [x \in DOMAIN D \cup {m[i]} |-> IF x = m[i] THEN v ELSE D[x]]
<1> DEFINE w == StoreValue(m, ValueAddr(i, cap), v)
           D == DictOf(m, cap, n)
           E == [x \in DOMAIN D \cup {m[i]} |-> IF x = m[i] THEN v ELSE D[x]]
<1>1. n \in Nat /\ cap \in Nat /\ n <= cap /\ Ascending(m, n) /\ i \in Nat
  BY DEF GoodBlock
<1>2. GoodBlock(w, cap, n) /\ \A a \in 0 .. (cap - 1) : w[a] = m[a]
  <2>1. i \in Nat
    BY <1>1
  <2> QED BY ONLY GoodBlock(m, cap, n), <2>1, v \in Value, StoreValueGood
<1>3. ASSUME NEW j \in 0 .. (n - 1)
      PROVE  /\ w[j] = m[j]
             /\ ValueOf(w, cap, j) = IF j = i THEN v ELSE ValueOf(m, cap, j)
  <2>1. j \in 0 .. (cap - 1) /\ j \in Nat
    BY <1>1
  <2>2. HasValue(m, cap, j)
    BY <2>1, GoodValues
  <2> QED BY <1>1, <1>2, <2>1, <2>2, StoredValues
<1>4. \A j \in 0 .. (n - 1) : m[j] \in DOMAIN D /\ D[m[j]] = ValueOf(m, cap, j)
  BY <1>1, DictOfEntry
<1>5. DOMAIN D = {m[j] : j \in 0 .. (n - 1)}
  BY DictOfDomain
<1>6. \A j \in 0 .. (n - 1) : m[j] = m[i] => j = i
  BY <1>1 DEF Ascending
<1> HIDE DEF w, D
<1>7. /\ DOMAIN E = DOMAIN D /\ E = [x \in DOMAIN E |-> E[x]]
      /\ E[m[i]] = v
      /\ \A x \in DOMAIN D : x # m[i] => E[x] = D[x]
  BY <1>4
<1> HIDE DEF E
<1>8. ASSUME NEW j \in 0 .. (n - 1)
      PROVE  w[j] \in DOMAIN E /\ E[w[j]] = ValueOf(w, cap, j)
  <2>1. CASE j = i
    BY <1>3, <1>4, <1>7, <2>1
  <2>2. CASE j # i
    BY <1>3, <1>4, <1>6, <1>7, <2>2
  <2> QED BY <2>1, <2>2
<1>9. \A x \in DOMAIN E : \E j \in 0 .. (n - 1) : x = w[j]
  BY <1>3, <1>5, <1>7
<1>10. Ascending(w, n)
  BY <1>2 DEF GoodBlock
<1>11. DictOf(w, cap, n) = E
  BY <1>1, <1>7, <1>8, <1>9, <1>10, IsDictOf
<1> QED BY <1>11 DEF E, w, D

-----------------------------------------------------------------------------
(* Every operation does to the dictionary what the same operation of       *)
(* Dictionary does.                                                        *)

(* What every step below starts from.                                      *)
LEMMA InvFacts ==
  ASSUME Inv
  PROVE  /\ GoodBlock(data, capacity, count)
         /\ count \in Nat /\ capacity \in Nat /\ count <= capacity
         /\ Ascending(data, count)
         /\ \A k \in Word : k \in Nat
BY MaxWordAssumption DEF Inv, GoodBlock, Word

(* Room for one more entry: the block is good and the dictionary the same. *)
LEMMA RoomForOneDict ==
  ASSUME Inv, NEW block \in RoomForOne
  PROVE  /\ GoodBlock(block.data, block.capacity, count)
         /\ Ascending(block.data, count)
         /\ block.status = "OK" => count < block.capacity
         /\ Contents = DictOf(block.data, block.capacity, count)
<1>1. GoodBlock(data, capacity, count) /\ count \in Nat /\ Ascending(data, count)
  BY InvFacts
<1>2. /\ GoodBlock(block.data, block.capacity, count)
      /\ block.status = "OK" => count < block.capacity
  BY <1>1, RoomForOneGood
<1>3. DictOf(block.data, block.capacity, count) = DictOf(data, capacity, count)
  BY <1>1, RoomForOneEntries, SameDict
<1> QED BY <1>2, <1>3, ContentsIsDictOf DEF GoodBlock

(* The answers of all operations but insert_or_get are seen as they are.   *)
LEMMA PlainAnswer ==
  ASSUME NEW op, NEW key, NEW value, NEW status, NEW out,
         ret' = Answer(op, key, value, status, out),
         op # "insert_or_get" \/ status = "OOM"
  PROVE  RetSeen' = Abstract!Answer(op, key, value, status, out)
<1>1. ret'.op = op /\ ret'.status = status
  BY DEF Answer
<1>2. ~ ReturnsPointer'
  BY <1>1 DEF ReturnsPointer
<1>3. RetSeen' = ret'
  BY <1>2 DEF RetSeen
<1> QED BY <1>3 DEF Answer, Abstract!Answer

(* The answer of insert_or_get is seen as the value it points to.          *)
LEMMA PointerAnswer ==
  ASSUME NEW key, NEW value, NEW status, status # "OOM", NEW i,
         ret' = Answer("insert_or_get", key, value, status, ValueAddr(i, capacity'))
  PROVE  RetSeen' = Abstract!Answer("insert_or_get", key, value, status,
                                    ValueOf(data', capacity', i))
<1> DEFINE addr == ValueAddr(i, capacity')
<1>1. ret' = [op |-> "insert_or_get", key |-> key, value |-> value, status |-> status,
              out |-> addr]
  BY DEF Answer
<1> HIDE DEF addr
<1>2. ReturnsPointer'
  BY <1>1 DEF ReturnsPointer
<1>3. RetSeen' = [ret' EXCEPT !.out = LoadValue(data', @)]
  BY <1>2 DEF RetSeen
<1>4. RetSeen' = [op |-> "insert_or_get", key |-> key, value |-> value, status |-> status,
                  out |-> LoadValue(data', addr)]
  BY <1>1, <1>3
<1> QED BY <1>4 DEF addr, ValueOf, Abstract!Answer

LEMMA InitSimulates ==
  ASSUME Init
  PROVE  Abstract!Init
<1>1. Keys = {}
  BY DEF Keys, Init
<1>2. Contents = [x \in {} |-> Nothing]
  BY <1>1 DEF Contents
<1>3. RetSeen = ret
  BY DEF RetSeen, ReturnsPointer, Init, Answer
<1> QED BY <1>2, <1>3 DEF Init, Answer, Abstract!Init, Abstract!Answer

LEMMA InsertNewSimulates ==
  ASSUME Inv, NEW k \in Word, NEW v \in Value, InsertNew(k, v)
  PROVE  Abstract!InsertNew(k, v)
<1>0. k \in Nat /\ count \in Nat
  BY InvFacts
<1>1. PICK block \in RoomForOne :
        LET i == LowerBound(block.data, count, k)
        IN  \/ /\ block.status = "OOM"
               /\ Became(block)
               /\ UNCHANGED count
               /\ ret' = Answer("insert_new", k, v, "OOM", Nothing)
            \/ /\ block.status = "OK"
               /\ Hits(block.data, count, k)
               /\ Became(block)
               /\ UNCHANGED count
               /\ ret' = Answer("insert_new", k, v, "EXISTS", Nothing)
            \/ /\ block.status = "OK"
               /\ ~ Hits(block.data, count, k)
               /\ data' = EntryAdded(block.data, block.capacity, i, k, v)
               /\ capacity' = block.capacity
               /\ count' = count + 1
               /\ ret' = Answer("insert_new", k, v, "OK", Nothing)
  BY DEF InsertNew
<1> DEFINE m == block.data
           cap == block.capacity
           D == DictOf(m, cap, count)
<1>2. /\ GoodBlock(m, cap, count) /\ Ascending(m, count)
      /\ block.status = "OK" => count < cap
      /\ Contents = D
  BY RoomForOneDict
<1>3. Hits(m, count, k) <=> k \in DOMAIN D
  BY <1>0, <1>2, HitsIsPresent
<1>4. CASE Became(block) /\ UNCHANGED count
  <2>1. Contents' = Contents
    BY <1>2, <1>4, ContentsIsDictOf DEF Became
  <2>2. CASE ret' = Answer("insert_new", k, v, "OOM", Nothing)
    BY <2>1, <2>2, PlainAnswer DEF Abstract!InsertNew
  <2>3. CASE Hits(m, count, k) /\ ret' = Answer("insert_new", k, v, "EXISTS", Nothing)
    <3>1. k \in DOMAIN Contents
      BY <1>2, <1>3, <2>3
    <3>2. RetSeen' = Abstract!Answer("insert_new", k, v, "EXISTS", Nothing)
      BY <2>3, PlainAnswer
    <3> QED BY <2>1, <3>1, <3>2 DEF Abstract!InsertNew, Abstract!Present
  <2>4. Became(block) => \/ ret' = Answer("insert_new", k, v, "OOM", Nothing)
                         \/ Hits(m, count, k) /\ ret' = Answer("insert_new", k, v, "EXISTS", Nothing)
    BY <1>0, <1>1, <1>4
  <2> QED BY <1>4, <2>2, <2>3, <2>4
<1>5. CASE /\ block.status = "OK"
           /\ ~ Hits(m, count, k)
           /\ data' = EntryAdded(m, cap, LowerBound(m, count, k), k, v)
           /\ capacity' = cap
           /\ count' = count + 1
           /\ ret' = Answer("insert_new", k, v, "OK", Nothing)
  <2>1. /\ k \notin DOMAIN D
        /\ DictOf(data', capacity', count') = [x \in DOMAIN D \cup {k} |-> IF x = k THEN v ELSE D[x]]
    BY <1>2, <1>5, DictAdded
  <2> HIDE DEF D
  <2>2. Contents' = [x \in DOMAIN Contents \cup {k} |-> IF x = k THEN v ELSE Contents[x]]
    BY <1>2, <2>1, ContentsIsDictOf
  <2>3. RetSeen' = Abstract!Answer("insert_new", k, v, "OK", Nothing)
    BY <1>5, PlainAnswer
  <2> QED BY <1>2, <2>1, <2>2, <2>3 DEF Abstract!InsertNew, Abstract!Put, Abstract!Present
<1> QED BY <1>1, <1>4, <1>5

LEMMA InsertOrGetSimulates ==
  ASSUME Inv, NEW k \in Word, NEW v \in Value, InsertOrGet(k, v)
  PROVE  Abstract!InsertOrGet(k, v)
<1>0. k \in Nat /\ count \in Nat
  BY InvFacts
<1>1. PICK block \in RoomForOne :
        LET i == LowerBound(block.data, count, k)
            addr == ValueAddr(i, block.capacity)
        IN  \/ /\ block.status = "OOM"
               /\ Became(block)
               /\ UNCHANGED count
               /\ ret' = Answer("insert_or_get", k, v, "OOM", Nothing)
            \/ /\ block.status = "OK"
               /\ Hits(block.data, count, k)
               /\ Became(block)
               /\ UNCHANGED count
               /\ ret' = Answer("insert_or_get", k, v, "EXISTS", addr)
            \/ /\ block.status = "OK"
               /\ ~ Hits(block.data, count, k)
               /\ data' = EntryAdded(block.data, block.capacity, i, k, v)
               /\ capacity' = block.capacity
               /\ count' = count + 1
               /\ ret' = Answer("insert_or_get", k, v, "NOT_FOUND", addr)
  BY DEF InsertOrGet
<1> DEFINE m == block.data
           cap == block.capacity
           i == LowerBound(m, count, k)
           D == DictOf(m, cap, count)
<1>2. /\ GoodBlock(m, cap, count) /\ Ascending(m, count)
      /\ block.status = "OK" => count < cap
      /\ Contents = D
  BY RoomForOneDict
<1>3. /\ Hits(m, count, k) <=> k \in DOMAIN D
      /\ Hits(m, count, k) => D[k] = ValueOf(m, cap, i)
  BY <1>0, <1>2, HitsIsPresent
<1>4. i \in 0 .. count
  BY <1>0, LowerBoundProperty
<1>5. CASE /\ Became(block) /\ UNCHANGED count
           /\ ret' = Answer("insert_or_get", k, v, "OOM", Nothing)
  <2>1. Contents' = Contents
    BY <1>2, <1>5, ContentsIsDictOf DEF Became
  <2>2. RetSeen' = Abstract!Answer("insert_or_get", k, v, "OOM", Nothing)
    BY <1>5, PlainAnswer
  <2> QED BY <2>1, <2>2 DEF Abstract!InsertOrGet
<1>6. CASE /\ Hits(m, count, k)
           /\ Became(block) /\ UNCHANGED count
           /\ ret' = Answer("insert_or_get", k, v, "EXISTS", ValueAddr(i, cap))
  <2>1. Contents' = Contents /\ data' = m /\ capacity' = cap
    BY <1>2, <1>6, ContentsIsDictOf DEF Became
  <2>2. k \in DOMAIN Contents /\ Contents[k] = ValueOf(data', capacity', i)
    BY <1>2, <1>3, <1>6, <2>1
  <2> HIDE DEF i
  <2>3. RetSeen' = Abstract!Answer("insert_or_get", k, v, "EXISTS", ValueOf(data', capacity', i))
    BY <1>6, <2>1, PointerAnswer
  <2> QED BY <2>1, <2>2, <2>3 DEF Abstract!InsertOrGet, Abstract!Present
<1>7. CASE /\ block.status = "OK"
           /\ ~ Hits(m, count, k)
           /\ data' = EntryAdded(m, cap, i, k, v)
           /\ capacity' = cap
           /\ count' = count + 1
           /\ ret' = Answer("insert_or_get", k, v, "NOT_FOUND", ValueAddr(i, cap))
  <2>1. /\ k \notin DOMAIN D
        /\ DictOf(data', capacity', count') = [x \in DOMAIN D \cup {k} |-> IF x = k THEN v ELSE D[x]]
    BY <1>2, <1>7, DictAdded
  <2>2. ValueOf(data', capacity', i) = v
    <3> HIDE DEF i
    <3>1. \A j \in 0 .. count :
            ValueOf(EntryAdded(m, cap, i, k, v), cap, j)
              = IF j < i THEN ValueOf(m, cap, j)
                ELSE IF j = i THEN v ELSE ValueOf(m, cap, j - 1)
      BY <1>2, <1>4, <1>7, EntryAddedEntries
    <3>2. ~ (i < i)
      BY <1>4
    <3> QED BY <1>4, <1>7, <3>1, <3>2
  <2> HIDE DEF D, i
  <2>3. Contents' = [x \in DOMAIN Contents \cup {k} |-> IF x = k THEN v ELSE Contents[x]]
    BY <1>2, <2>1, ContentsIsDictOf
  <2>4. RetSeen' = Abstract!Answer("insert_or_get", k, v, "NOT_FOUND", ValueOf(data', capacity', i))
    BY <1>7, PointerAnswer
  <2> QED BY <1>2, <2>1, <2>2, <2>3, <2>4
          DEF Abstract!InsertOrGet, Abstract!Put, Abstract!Present
<1> QED BY <1>1, <1>5, <1>6, <1>7

LEMMA SetExistingSimulates ==
  ASSUME Inv, NEW k \in Word, NEW v \in Value, SetExisting(k, v)
  PROVE  Abstract!SetExisting(k, v)
<1> DEFINE i == LowerBound(data, count, k)
           D == DictOf(data, capacity, count)
<1>1. /\ GoodBlock(data, capacity, count) /\ count \in Nat /\ k \in Nat
      /\ Ascending(data, count)
  BY InvFacts
<1>2. /\ KeyExists(k) <=> k \in DOMAIN D
      /\ KeyExists(k) => i \in 0 .. (count - 1) /\ data[i] = k
  BY <1>1, HitsIsPresent DEF KeyExists
<1>3. Contents = D /\ Contents' = DictOf(data', capacity', count')
  BY ContentsIsDictOf
<1>4. UNCHANGED <<count, capacity>>
  BY DEF SetExisting
<1>5. CASE /\ KeyExists(k)
           /\ data' = StoreValue(data, Find(k), v)
           /\ ret' = Answer("set_existing", k, v, "OK", Nothing)
  <2>1. data' = StoreValue(data, ValueAddr(i, capacity), v)
    BY <1>5 DEF Find
  <2>2. i \in 0 .. (count - 1) /\ data[i] = k
    BY <1>2, <1>5
  <2> HIDE DEF i
  <2>3. DictOf(data', capacity, count)
          = [x \in DOMAIN D \cup {data[i]} |-> IF x = data[i] THEN v ELSE D[x]]
    BY <1>1, <2>1, <2>2, DictStored
  <2>4. RetSeen' = Abstract!Answer("set_existing", k, v, "OK", Nothing)
    BY <1>5, PlainAnswer
  <2> HIDE DEF D
  <2> QED BY <1>2, <1>3, <1>4, <1>5, <2>2, <2>3, <2>4
          DEF Abstract!SetExisting, Abstract!Put, Abstract!Present
<1>6. CASE /\ ~ KeyExists(k)
           /\ UNCHANGED data
           /\ ret' = Answer("set_existing", k, v, "NOT_FOUND", Nothing)
  <2>1. RetSeen' = Abstract!Answer("set_existing", k, v, "NOT_FOUND", Nothing)
    BY <1>6, PlainAnswer
  <2> QED BY <1>2, <1>3, <1>4, <1>6, <2>1 DEF Abstract!SetExisting, Abstract!Present
<1> QED BY <1>5, <1>6 DEF SetExisting

(* What the operations that erase have in common: one key is dropped.      *)
LEMMA RemoveAtDrops ==
  ASSUME Inv, NEW idx \in 0 .. (count - 1), RemoveAt(idx)
  PROVE  /\ data[idx] \in DOMAIN Contents
         /\ Contents[data[idx]] = ValueOf(data, capacity, idx)
         /\ Contents' = Abstract!Drop(data[idx])
<1> DEFINE D == DictOf(data, capacity, count)
<1>1. GoodBlock(data, capacity, count) /\ count \in Nat /\ Ascending(data, count)
  BY InvFacts
<1>2. data[idx] \in DOMAIN D /\ D[data[idx]] = ValueOf(data, capacity, idx)
  BY <1>1, DictOfEntry
<1>3. DictOf(data', capacity', count') = [x \in DOMAIN D \ {data[idx]} |-> D[x]]
  BY <1>1, DictErased DEF RemoveAt
<1>4. Contents = D /\ Contents' = DictOf(data', capacity', count')
  BY ContentsIsDictOf
<1> HIDE DEF D
<1> QED BY <1>2, <1>3, <1>4 DEF Abstract!Drop, Abstract!Present

LEMMA UnchangedContents ==
  ASSUME UNCHANGED <<data, count, capacity>>
  PROVE  Contents' = Contents
BY ContentsIsDictOf

LEMMA EraseSimulates ==
  ASSUME Inv, NEW k \in Word, Erase(k)
  PROVE  Abstract!Erase(k)
<1> DEFINE i == LowerBound(data, count, k)
<1>1. count \in Nat /\ k \in Nat /\ Ascending(data, count)
  BY InvFacts
<1>2. /\ KeyExists(k) <=> k \in DOMAIN Contents
      /\ KeyExists(k) => i \in 0 .. (count - 1) /\ data[i] = k
  BY <1>1, HitsIsPresent, ContentsIsDictOf DEF KeyExists
<1>3. CASE /\ KeyExists(k)
           /\ RemoveAt(i)
           /\ ret' = Answer("erase", k, Nothing, "OK", Nothing)
  <2>1. i \in 0 .. (count - 1) /\ data[i] = k
    BY <1>2, <1>3
  <2> HIDE DEF i
  <2>2. Contents' = Abstract!Drop(data[i])
    BY <1>3, <2>1, RemoveAtDrops
  <2>3. RetSeen' = Abstract!Answer("erase", k, Nothing, "OK", Nothing)
    BY <1>3, PlainAnswer
  <2> QED BY <1>2, <1>3, <2>1, <2>2, <2>3 DEF Abstract!Erase, Abstract!Present
<1>4. CASE /\ ~ KeyExists(k)
           /\ UNCHANGED <<data, base, count, capacity>>
           /\ ret' = Answer("erase", k, Nothing, "NOT_FOUND", Nothing)
  <2>1. RetSeen' = Abstract!Answer("erase", k, Nothing, "NOT_FOUND", Nothing)
    BY <1>4, PlainAnswer
  <2> QED BY <1>2, <1>4, <2>1, UnchangedContents DEF Abstract!Erase, Abstract!Present
<1> QED BY <1>3, <1>4 DEF Erase

LEMMA EraseValueSimulates ==
  ASSUME Inv, NEW v \in Value, EraseValue(v)
  PROVE  Abstract!EraseValue(v)
<1> DEFINE i == FirstMatching(v)
           D == DictOf(data, capacity, count)
<1>1. count \in Nat /\ Ascending(data, count)
  BY InvFacts
<1>2. CASE /\ Matching(v) # {}
           /\ RemoveAt(i)
           /\ ret' = Answer("erase_value", Nothing, v, "OK", data[i])
  <2>1. i \in 0 .. (count - 1) /\ i \in Matching(v)
    BY <1>1, <1>2, FirstMatchingMatches
  <2>2. ValueOf(data, capacity, i) = v
    BY <2>1 DEF Matching, ValueOf
  <2> HIDE DEF i
  <2>3. /\ data[i] \in DOMAIN Contents /\ Contents[data[i]] = v
        /\ Contents' = Abstract!Drop(data[i])
    BY <1>2, <2>1, <2>2, RemoveAtDrops
  <2>4. RetSeen' = Abstract!Answer("erase_value", Nothing, v, "OK", data[i])
    BY <1>2, PlainAnswer
  <2> QED BY <2>3, <2>4 DEF Abstract!EraseValue, Abstract!Present
<1>3. CASE /\ Matching(v) = {}
           /\ UNCHANGED <<data, base, count, capacity>>
           /\ ret' = Answer("erase_value", Nothing, v, "OK", InvalidKey)
  <2>1. ASSUME NEW k \in DOMAIN Contents
        PROVE  Contents[k] # v
    <3>1. Contents = D
      BY ContentsIsDictOf
    <3>2. k \in {data[j] : j \in 0 .. (count - 1)}
      BY <3>1, DictOfDomain
    <3>3. PICK j \in 0 .. (count - 1) : k = data[j]
      BY <3>2
    <3>4. Contents[k] = ValueOf(data, capacity, j)
      BY <1>1, <3>1, <3>3, DictOfEntry
    <3>5. j \notin Matching(v)
      BY <1>3
    <3> QED BY <3>4, <3>5 DEF Matching, ValueOf
  <2>2. RetSeen' = Abstract!Answer("erase_value", Nothing, v, "OK", InvalidKey)
    BY <1>3, PlainAnswer
  <2> QED BY <1>3, <2>1, <2>2, UnchangedContents DEF Abstract!EraseValue, Abstract!Present
<1> QED BY <1>2, <1>3 DEF EraseValue

LEMMA EraseIndexSimulates ==
  ASSUME Inv, NEW idx \in 0 .. (count - 1), EraseIndex(idx)
  PROVE  Abstract!EraseEntry("erase_index")
<1>1. data[idx] \in DOMAIN Contents /\ Contents' = Abstract!Drop(data[idx])
  BY RemoveAtDrops DEF EraseIndex
<1>2. RetSeen' = Abstract!Answer("erase_index", Nothing, Nothing, "OK", data[idx])
  BY PlainAnswer DEF EraseIndex
<1> QED BY <1>1, <1>2 DEF Abstract!EraseEntry, Abstract!Present

LEMMA EraseInternalValueSimulates ==
  ASSUME Inv, NEW addr \in Nat, EraseInternalValue(addr)
  PROVE  Abstract!EraseEntry("erase_internal_value")
<1> DEFINE idx == (addr - capacity) \div ValueSize
<1>1. /\ RemoveAt(idx)
      /\ ret' = Answer("erase_internal_value", Nothing, Nothing, "OK", data[idx])
  BY DEF EraseInternalValue
<1>2. idx \in 0 .. (count - 1)
  BY AddressToIndex DEF EraseInternalValue, Inv, GoodBlock
<1> HIDE DEF idx
<1>3. data[idx] \in DOMAIN Contents /\ Contents' = Abstract!Drop(data[idx])
  BY <1>1, <1>2, RemoveAtDrops
<1>4. RetSeen' = Abstract!Answer("erase_internal_value", Nothing, Nothing, "OK", data[idx])
  BY <1>1, PlainAnswer
<1> QED BY <1>3, <1>4 DEF Abstract!EraseEntry, Abstract!Present

(* A btree without entries is an empty dictionary.                         *)
LEMMA NoEntriesNoContents ==
  ASSUME count' = 0
  PROVE  Contents' = [x \in {} |-> Nothing]
<1>1. {data'[i] : i \in 0 .. (0 - 1)} = {}
  OBVIOUS
<1>2. DOMAIN Contents' = {}
  BY <1>1, ContentsIsDictOf DEF DictOf
<1> QED BY <1>1, ContentsIsDictOf DEF DictOf

LEMMA ClearSimulates ==
  ASSUME Clear \/ Deinit
  PROVE  Abstract!Empty("clear") \/ Abstract!Empty("deinit")
<1>1. Contents' = [x \in {} |-> Nothing]
  BY NoEntriesNoContents DEF Clear, Deinit
<1>2. CASE Clear
  <2>1. RetSeen' = Abstract!Answer("clear", Nothing, Nothing, "OK", Nothing)
    BY <1>2, PlainAnswer DEF Clear
  <2> QED BY <1>1, <2>1 DEF Abstract!Empty
<1>3. CASE Deinit
  <2>1. RetSeen' = Abstract!Answer("deinit", Nothing, Nothing, "OK", Nothing)
    BY <1>3, PlainAnswer DEF Deinit
  <2> QED BY <1>1, <2>1 DEF Abstract!Empty
<1> QED BY <1>2, <1>3

(* btree_realloc, wherever an operation calls it, keeps the dictionary.    *)
LEMMA ReallocatedDict ==
  ASSUME Inv, NEW new_capacity \in Nat, count <= Clamp(new_capacity),
         NEW block \in Reallocated(new_capacity), Became(block), UNCHANGED count
  PROVE  Contents' = Contents
<1>1. GoodBlock(data, capacity, count) /\ count \in Nat /\ Ascending(data, count)
  BY InvFacts
<1>2. DictOf(block.data, block.capacity, count) = DictOf(data, capacity, count)
  BY <1>1, ReallocatedEntries, SameDict
<1> QED BY <1>2, ContentsIsDictOf DEF Became

LEMMA CompactSimulates ==
  ASSUME Inv, Compact
  PROVE  Abstract!Rearrange("compact")
<1>1. UNCHANGED count /\ count \in Nat
  BY InvFacts DEF Compact
<1>2. RetSeen' = Abstract!Answer("compact", Nothing, Nothing, "OK", Nothing)
  BY PlainAnswer DEF Compact
<1>3. Contents' = Contents
  <2>1. CASE count = 0
    <3>1. {data[i] : i \in 0 .. (0 - 1)} = {} /\ {data'[i] : i \in 0 .. (0 - 1)} = {}
      OBVIOUS
    <3> QED BY <1>1, <2>1, <3>1, ContentsIsDictOf DEF DictOf
  <2>2. CASE \E block \in Reallocated(count) : Became(block)
    <3>1. PICK block \in Reallocated(count) : Became(block)
      BY <2>2
    <3>2. count <= Clamp(count)
      BY <1>1, ClampBounds
    <3> QED BY <1>1, <3>1, <3>2, ReallocatedDict
  <2> QED BY <2>1, <2>2 DEF Compact
<1> QED BY <1>2, <1>3 DEF Abstract!Rearrange

LEMMA ReserveSimulates ==
  ASSUME Inv, NEW size \in Nat, Reserve(size)
  PROVE  Abstract!Rearrange("reserve")
<1>1. UNCHANGED count /\ GoodBlock(data, capacity, count)
      /\ count \in Nat /\ capacity \in Nat /\ count <= capacity
  BY InvFacts DEF Reserve
<1>2. CASE /\ capacity < size
           /\ \E block \in Reallocated(size) :
                /\ Became(block)
                /\ ret' = Answer("reserve", Nothing, Nothing, block.status, Nothing)
  <2>1. PICK block \in Reallocated(size) :
          /\ Became(block)
          /\ ret' = Answer("reserve", Nothing, Nothing, block.status, Nothing)
    BY <1>2
  <2>2. count <= Clamp(size)
    BY <1>1, <1>2, ClampBounds
  <2>3. Contents' = Contents
    BY <1>1, <2>1, <2>2, ReallocatedDict
  <2>4. block.status \in {"OK", "OOM"}
    BY <1>1, <2>2, ReallocatedGood
  <2>5. RetSeen' = Abstract!Answer("reserve", Nothing, Nothing, block.status, Nothing)
    BY <2>1, PlainAnswer
  <2> QED BY <2>3, <2>4, <2>5 DEF Abstract!Rearrange
<1>3. CASE /\ UNCHANGED <<data, capacity>>
           /\ ret' = Answer("reserve", Nothing, Nothing, "OK", Nothing)
  <2>1. Contents' = Contents
    BY <1>1, <1>3, UnchangedContents
  <2>2. RetSeen' = Abstract!Answer("reserve", Nothing, Nothing, "OK", Nothing)
    BY <1>3, PlainAnswer
  <2> QED BY <2>1, <2>2 DEF Abstract!Rearrange
<1> QED BY <1>2, <1>3 DEF Reserve

LEMMA NextSimulates == Inv /\ [Next]_vars => [Abstract!Next]_(Abstract!vars)
<1> SUFFICES ASSUME Inv, [Next]_vars PROVE [Abstract!Next]_(Abstract!vars)
  OBVIOUS
<1>1. CASE \E k \in Word, v \in Value : InsertNew(k, v)
  BY <1>1, InsertNewSimulates DEF Abstract!Next
<1>2. CASE \E k \in Word, v \in Value : InsertOrGet(k, v)
  BY <1>2, InsertOrGetSimulates DEF Abstract!Next
<1>3. CASE \E k \in Word, v \in Value : SetExisting(k, v)
  BY <1>3, SetExistingSimulates DEF Abstract!Next
<1>4. CASE \E k \in Word : Erase(k)
  BY <1>4, EraseSimulates DEF Abstract!Next
<1>5. CASE \E v \in Value : EraseValue(v)
  BY <1>5, EraseValueSimulates DEF Abstract!Next
<1>6. CASE \E idx \in 0 .. (count - 1) : EraseIndex(idx)
  BY <1>6, EraseIndexSimulates DEF Abstract!Next
<1>7. CASE \E addr \in 0 .. (capacity * KvSize) : EraseInternalValue(addr)
  <2>1. PICK addr \in 0 .. (capacity * KvSize) : EraseInternalValue(addr)
    BY <1>7
  <2>2. addr \in Nat
    BY KeysInsideBlock DEF Inv, GoodBlock
  <2> QED BY <2>1, <2>2, EraseInternalValueSimulates DEF Abstract!Next
<1>8. CASE Clear \/ Deinit
  BY <1>8, ClearSimulates DEF Abstract!Next
<1>9. CASE Compact
  BY <1>9, CompactSimulates DEF Abstract!Next
<1>10. CASE \E size \in 0 .. MaxCapacity : Reserve(size)
  <2>1. PICK size \in 0 .. MaxCapacity : Reserve(size)
    BY <1>10
  <2>2. size \in Nat
    BY MaxCapacityAssumption
  <2> QED BY <2>1, <2>2, ReserveSimulates DEF Abstract!Next
<1>11. CASE UNCHANGED vars
  <2>1. Contents' = Contents
    BY <1>11, UnchangedContents DEF vars
  <2>2. RetSeen' = RetSeen
    BY <1>11 DEF vars, RetSeen, ReturnsPointer
  <2> QED BY <2>1, <2>2 DEF Abstract!vars
<1> QED BY <1>1, <1>2, <1>3, <1>4, <1>5, <1>6, <1>7, <1>8, <1>9, <1>10, <1>11 DEF Next

(* The btree of btree.c implements the dictionary its callers rely on:     *)
(* every call does to the entries, and answers, what Dictionary allows,    *)
(* for every value size and growth policy and whichever allocations fail.  *)
THEOREM BtreeIsADictionary == Spec => ImplementsDictionary
<1>1. Init => Abstract!Init
  BY InitSimulates
<1> QED BY <1>1, InvHolds, NextSimulates, PTL DEF Spec, ImplementsDictionary, Abstract!Spec

-----------------------------------------------------------------------------
(* The queries.                                                            *)

(* A key is found at its index.                                            *)
LEMMA LowerBoundAt ==
  ASSUME NEW m, NEW n \in Nat, Ascending(m, n), NEW i \in 0 .. (n - 1)
  PROVE  LowerBound(m, n, m[i]) = i /\ Hits(m, n, m[i])
<1>1. IsLowerBound(m, n, m[i], i)
  <2>1. \A j \in 0 .. (i - 1) : j \in 0 .. (n - 1) /\ j < i
    OBVIOUS
  <2>2. m[i] \in Nat
    BY DEF Ascending
  <2> QED BY <2>1, <2>2 DEF IsLowerBound, Ascending
<1>2. i = LowerBound(m, n, m[i])
  BY <1>1, LowerBoundUnique
<1> QED BY <1>2 DEF Hits

LEMMA ContentsAt ==
  ASSUME Inv, NEW i \in 0 .. (count - 1)
  PROVE  data[i] \in DOMAIN Contents /\ Contents[data[i]] = ValueOf(data, capacity, i)
BY InvFacts, ContentsIsDictOf, DictOfEntry

LEMMA ContentsDomain ==
  ASSUME NEW k \in DOMAIN Contents
  PROVE  \E i \in 0 .. (count - 1) : k = data[i]
<1>1. k \in {data[i] : i \in 0 .. (count - 1)}
  BY ContentsIsDictOf, DictOfDomain
<1> QED BY <1>1

LEMMA QueriesAgreeInv == Inv => QueriesAgree
<1> SUFFICES ASSUME Inv PROVE QueriesAgree
  OBVIOUS
<1>0. /\ count \in Nat /\ capacity \in Nat /\ Ascending(data, count)
      /\ \A k \in Word : k \in Nat
  BY InvFacts
<1>1. ASSUME NEW k \in Word
      PROVE  /\ KeyExists(k) <=> k \in DOMAIN Contents
             /\ Find(k) # Nothing <=> k \in DOMAIN Contents
             /\ \A v \in Value :
                  FindAndCompare(k, v) <=> k \in DOMAIN Contents /\ Contents[k] = v
  <2> DEFINE b == LowerBound(data, count, k)
  <2>1. /\ KeyExists(k) <=> k \in DOMAIN Contents
        /\ KeyExists(k) => b \in 0 .. (count - 1) /\ Contents[k] = ValueOf(data, capacity, b)
    BY <1>0, HitsIsPresent, ContentsIsDictOf DEF KeyExists
  <2>2. Find(k) = IF KeyExists(k) THEN ValueAddr(b, capacity) ELSE Nothing
    BY DEF Find
  <2> HIDE DEF b
  <2>3. KeyExists(k) => ValueAddr(b, capacity) \in Nat
    BY <1>0, <2>1, ValuesBehindKeys
  <2>4. KeyExists(k) => ValueAddr(b, capacity) # Nothing
    BY <2>3, NothingAssumption
  <2>5. Find(k) # Nothing <=> KeyExists(k)
    BY <2>2, <2>4
  <2>6. KeyExists(k) => LoadValue(data, Find(k)) = Contents[k]
    BY <2>1, <2>2 DEF ValueOf
  <2> QED BY <2>1, <2>5, <2>6 DEF FindAndCompare
<1>2. ASSUME NEW v \in Value
      PROVE  LET holders == {k \in DOMAIN Contents : Contents[k] = v}
             IN  IF holders = {} THEN FindKey(v) \notin Keys ELSE FindKey(v) \in holders
  <2> DEFINE holders == {k \in DOMAIN Contents : Contents[k] = v}
  <2>1. CASE Matching(v) = {}
    <3>1. ASSUME NEW k \in DOMAIN Contents
          PROVE  Contents[k] # v
      <4>1. PICK j \in 0 .. (count - 1) : k = data[j]
        BY ContentsDomain
      <4>2. Contents[k] = ValueOf(data, capacity, j)
        BY <4>1, ContentsAt
      <4>3. j \notin Matching(v)
        BY <2>1
      <4> QED BY <4>2, <4>3 DEF Matching, ValueOf
    <3>2. holders = {}
      BY <3>1
    <3>3. \A k \in Keys : k \in Nat
      BY <1>0 DEF Keys, Ascending
    <3>4. Nothing \notin Keys
      BY <3>3, NothingAssumption
    <3> QED BY <2>1, <3>2, <3>4 DEF FindKey
  <2>2. CASE Matching(v) # {}
    <3> DEFINE i == FirstMatching(v)
    <3>1. i \in 0 .. (count - 1) /\ i \in Matching(v)
      BY <1>0, <2>2, FirstMatchingMatches
    <3>2. FindKey(v) = data[i]
      BY <2>2 DEF FindKey
    <3> HIDE DEF i
    <3>3. ValueOf(data, capacity, i) = v
      BY <3>1 DEF Matching, ValueOf
    <3>4. data[i] \in holders
      BY <3>1, <3>3, ContentsAt
    <3> QED BY <3>2, <3>4
  <2> QED BY <2>1, <2>2
<1>3. IF DOMAIN Contents = {}
      THEN GetAnyValue = Nothing
      ELSE \E k \in DOMAIN Contents : LoadValue(data, GetAnyValue) = Contents[k]
  <2>1. CASE count = 0
    <3>1. \A k \in DOMAIN Contents : FALSE
      <4>1. 0 .. (0 - 1) = {}
        OBVIOUS
      <4> QED BY <2>1, <4>1, ContentsDomain
    <3>2. GetAnyValue = Nothing
      BY <2>1 DEF GetAnyValue
    <3> QED BY <3>1, <3>2
  <2>2. CASE count # 0
    <3>1. 0 \in 0 .. (count - 1)
      BY <1>0, <2>2
    <3> DEFINE first == 0
    <3> HIDE DEF first
    <3>2. first \in 0 .. (count - 1)
      BY <3>1 DEF first
    <3>3. data[first] \in DOMAIN Contents /\ Contents[data[first]] = ValueOf(data, capacity, first)
      BY <3>2, ContentsAt
    <3>4. LoadValue(data, GetAnyValue) = ValueOf(data, capacity, first)
      BY <2>2 DEF GetAnyValue, ValueOf, first
    <3> QED BY <3>3, <3>4
  <2> QED BY <2>1, <2>2
<1> QED BY <1>1, <1>2, <1>3 DEF QueriesAgree

(* Every query of btree.h answers from the entries alone, whatever stale   *)
(* or unwritten cells the block has behind them.                           *)
THEOREM QueriesAnswerFromEntries == Spec => []QueriesAgree
BY InvHolds, QueriesAgreeInv, PTL

(* Ascending keys are at least as large as their indices.                  *)
LEMMA KeysOutgrowIndices ==
  ASSUME NEW m, NEW n \in Nat, Ascending(m, n), NEW i \in 0 .. (n - 1)
  PROVE  i <= m[i]
<1> DEFINE S == {x \in 0 .. (n - 1) : m[x] < x}
<1>1. \A x \in 0 .. (n - 1) : m[x] \in Nat
  BY DEF Ascending
<1>2. SUFFICES ASSUME S # {} PROVE FALSE
  BY <1>1
<1>3. S \in SUBSET Nat
  OBVIOUS
<1>4. PICK x \in S : \A y \in S : x <= y
  BY <1>2, <1>3, LeastElement
<1>5. x \in 0 .. (n - 1) /\ m[x] < x /\ m[x] \in Nat
  BY <1>1, <1>4
<1>6. x - 1 \in 0 .. (n - 1) /\ ~ (x <= x - 1) /\ x - 1 < x
  BY <1>5
<1>7. x - 1 \notin S
  BY <1>4, <1>6
<1>8. ~ (m[x - 1] < x - 1) /\ m[x - 1] \in Nat
  BY <1>1, <1>6, <1>7
<1>9. m[x - 1] < m[x]
  BY <1>5, <1>6 DEF Ascending
<1> QED BY <1>5, <1>8, <1>9

LEMMA UnusedKeyIsUnusedInv == Inv => UnusedKeyIsUnused
<1> SUFFICES ASSUME Inv, NEW k \in UnusedKeys, k \in Keys PROVE FALSE
  BY DEF UnusedKeyIsUnused
<1>0. count \in Nat /\ Ascending(data, count)
  BY InvFacts
<1>1. PICK i \in 0 .. (count - 1) : data[i] = k
  BY DEF Keys
<1>2. k \in Nat /\ i <= k /\ i \in DOMAIN data
  BY <1>0, <1>1, KeysOutgrowIndices DEF Ascending
<1>3. data # Null
  BY <1>0, <1>1, <1>2 DEF Null
<1>4. (\A j \in 0 .. (k - 1) : j \in Reads(j)) /\ Reads(k) # {k}
  BY <1>3 DEF UnusedKeys
<1>5. Reads(i) = {k}
  <2>1. Fetch(data, i) = k /\ k # Undef
    BY <1>1, <1>2, UndefAssumption DEF Fetch
  <2> QED BY <1>1, <2>1 DEF Reads
<1>6. CASE i = k
  BY <1>4, <1>5, <1>6
<1>7. CASE i < k
  <2>1. i \in 0 .. (k - 1)
    BY <1>0, <1>1, <1>2, <1>7
  <2>2. i \in Reads(i)
    BY <1>4, <2>1
  <2> QED BY <1>5, <1>7, <1>2, <2>2
<1> QED BY <1>0, <1>1, <1>2, <1>6, <1>7

(* btree_find_unused_key never answers a key that is in use, though it     *)
(* walks past the last key into cells that hold anything.                  *)
THEOREM UnusedKeysAreUnused == Spec => []UnusedKeyIsUnused
BY InvHolds, UnusedKeyIsUnusedInv, PTL

-----------------------------------------------------------------------------
(* What a step may never do.                                               *)

(* The capacity a reallocation leaves, and what its failure to grow does.  *)
LEMMA ReallocatedCapacity ==
  ASSUME capacity \in Nat, NEW new_capacity \in Nat,
         NEW block \in Reallocated(new_capacity)
  PROVE  /\ block.capacity \in {capacity, Clamp(new_capacity)}
         /\ block.status # "OOM" => block.capacity = Clamp(new_capacity)
         /\ block.status = "OOM" => block = SameBlock("OOM")
<1> DEFINE cap == Clamp(new_capacity)
<1>1. \/ block = Block(data, base, capacity, "OOM")
      \/ \E m, place : block = Block(m, place, cap, "OK")
  BY ReallocatedOutcomes
<1> HIDE DEF cap
<1> QED BY <1>1 DEF SameBlock, Block, cap

LEMMA RoomForOneCapacity ==
  ASSUME capacity \in Nat, NEW block \in RoomForOne
  PROVE  /\ block.capacity \in Nat /\ capacity <= block.capacity
         /\ block.status = "OOM" \/ ~ NeedsRealloc => block = SameBlock(block.status)
<1>1. CASE ~ NeedsRealloc
  BY <1>1 DEF RoomForOne, SameBlock, Block
<1>2. CASE NeedsRealloc
  <2> DEFINE wanted == capacity * ExpandFactor
  <2>1. ExpandFactor \in Nat /\ ExpandFactor >= 2
    BY ExpandFactorAssumption
  <2>2. wanted \in Nat /\ wanted >= capacity
    BY <2>1
  <2>3. block \in Reallocated(wanted)
    BY <1>2 DEF RoomForOne
  <2> HIDE DEF wanted
  <2>4. Clamp(wanted) \in Nat /\ Clamp(wanted) >= capacity
    BY <2>2, ClampBounds
  <2>5. /\ block.capacity \in {capacity, Clamp(wanted)}
        /\ block.status = "OOM" => block = SameBlock("OOM")
    BY <2>2, <2>3, ReallocatedCapacity
  <2> QED BY <1>2, <2>4, <2>5
<1> QED BY <1>1, <1>2

LEMMA NextKeepsRoom ==
  Inv /\ [Next]_vars => [capacity' < capacity => ret'.op \in {"compact", "deinit"}]_vars
<1> SUFFICES ASSUME Inv, Next, capacity' < capacity PROVE ret'.op \in {"compact", "deinit"}
  OBVIOUS
<1>0. capacity \in Nat
  BY InvFacts
<1>1. CASE \E block \in RoomForOne : capacity' = block.capacity
  BY <1>0, <1>1, RoomForOneCapacity
<1>2. CASE UNCHANGED capacity
  BY <1>0, <1>2
<1>3. CASE Compact \/ Deinit
  BY <1>3 DEF Compact, Deinit, Answer
<1>4. CASE \E size \in 0 .. MaxCapacity : Reserve(size)
  <2>1. PICK size \in 0 .. MaxCapacity : Reserve(size)
    BY <1>4
  <2>2. CASE capacity < size /\ \E block \in Reallocated(size) : Became(block)
    <3>1. PICK block \in Reallocated(size) : Became(block)
      BY <2>2
    <3>2. size \in Nat /\ Clamp(size) \in Nat /\ Clamp(size) >= size
      BY MaxCapacityAssumption, ClampBounds
    <3>3. block.capacity \in {capacity, Clamp(size)}
      BY <1>0, <3>2, ReallocatedCapacity
    <3> QED BY <1>0, <2>2, <3>1, <3>2, <3>3 DEF Became
  <2>3. CASE UNCHANGED capacity
    BY <1>0, <2>3
  <2> QED BY <2>1, <2>2, <2>3 DEF Reserve
<1>5. \/ \E block \in RoomForOne : capacity' = block.capacity
      \/ UNCHANGED capacity
      \/ Compact \/ Deinit
      \/ \E size \in 0 .. MaxCapacity : Reserve(size)
  BY DEF Next, InsertNew, InsertOrGet, SetExisting, Erase, EraseValue, EraseIndex,
         EraseInternalValue, Clear, RemoveAt, Became
<1> QED BY <1>1, <1>2, <1>3, <1>4, <1>5

(* Only compact and deinit give memory back: what was reserved stays       *)
(* reserved through every insertion, refused or not.                       *)
THEOREM ReservationsHold == Spec => OnlyCompactShrinks
BY InvHolds, NextKeepsRoom, PTL DEF Spec, OnlyCompactShrinks

-----------------------------------------------------------------------------
(* How long the pointers to values stay good.                              *)

(* What EntriesStayPut says of key k.                                      *)
StaysPut(k) ==
  \/ Pointer(k)' = Pointer(k)
  \/ MayMoveBlock
  \/ \E j \in (Keys \ Keys') \cup (Keys' \ Keys) : j < k

(* A key at index i is found at value i.                                   *)
LEMMA FoundAt ==
  ASSUME Inv, NEW i \in 0 .. (count - 1)
  PROVE  Find(data[i]) = ValueAddr(i, capacity)
<1>1. LowerBound(data, count, data[i]) = i /\ Hits(data, count, data[i])
  BY InvFacts, LowerBoundAt
<1> QED BY <1>1 DEF Find, KeyExists

LEMMA FoundAtNext ==
  ASSUME Inv', NEW i \in 0 .. (count' - 1), NEW k, k = data'[i]
  PROVE  Find(k)' = ValueAddr(i, capacity')
<1>1. Ascending(data', count') /\ count' \in Nat
  BY DEF Inv, GoodBlock
<1>2. LowerBound(data', count', k) = i /\ Hits(data', count', k)
  BY <1>1, LowerBoundAt
<1> QED BY <1>2 DEF Find, KeyExists

(* Nothing moves while the block, the keys and the capacity stay as they   *)
(* are.                                                                    *)
LEMMA SameKeysStayPut ==
  ASSUME Inv, Inv', UNCHANGED <<base, count, capacity>>,
         \A i \in 0 .. (count - 1) : data'[i] = data[i],
         NEW k \in Keys
  PROVE  StaysPut(k)
<1>1. PICK i \in 0 .. (count - 1) : k = data[i]
  BY DEF Keys
<1>2. Find(k) = ValueAddr(i, capacity)
  BY <1>1, FoundAt
<1>3. k = data'[i] /\ i \in 0 .. (count' - 1)
  BY <1>1
<1>4. Find(k)' = ValueAddr(i, capacity')
  BY <1>3, FoundAtNext
<1> QED BY <1>2, <1>4 DEF StaysPut, Pointer

(* An insertion that is not refused moves the block only if it was full.   *)
InsertionAnswers == ret'.op \in {"insert_new", "insert_or_get"} /\ ret'.status # "OOM"

LEMMA InsertionMovesBlock ==
  ASSUME InsertionAnswers, NeedsRealloc, NEW k
  PROVE  StaysPut(k)
BY DEF InsertionAnswers, StaysPut, MayMoveBlock

(* A new entry moves the values of the larger keys only.                   *)
LEMMA AddedStayPut ==
  ASSUME Inv, Inv', NEW block \in RoomForOne,
         NEW key \in Word, NEW v \in Value,
         block.status = "OK", ~ Hits(block.data, count, key),
         data' = EntryAdded(block.data, block.capacity,
                            LowerBound(block.data, count, key), key, v),
         base' = block.base, capacity' = block.capacity, count' = count + 1, InsertionAnswers,
         NEW k \in Keys
  PROVE  StaysPut(k)
<1> DEFINE m == block.data
           b == LowerBound(m, count, key)
<1>0. GoodBlock(data, capacity, count) /\ count \in Nat /\ key \in Nat /\ Ascending(data, count)
  BY InvFacts
<1>1. GoodBlock(m, capacity', count) /\ Ascending(m, count) /\ count < capacity'
  BY RoomForOneDict
<1>2. \A i \in 0 .. (count - 1) : m[i] = data[i]
  BY <1>0, RoomForOneEntries DEF SameEntries
<1>3. \A a \in 0 .. count : data'[a] = IF a < b THEN m[a] ELSE IF a = b THEN key ELSE m[a - 1]
  BY <1>1, EntryAddedGood
<1>4. b \in 0 .. count /\ IsLowerBound(m, count, key, b)
  BY <1>0, LowerBoundProperty
<1>5. PICK i \in 0 .. (count - 1) : k = data[i]
  BY DEF Keys
<1>6. key \notin Keys
  <2>1. SUFFICES ASSUME NEW j \in 0 .. (count - 1), key = m[j] PROVE FALSE
    BY <1>2 DEF Keys
  <2>2. Hits(m, count, m[j])
    BY <1>0, <1>1, LowerBoundAt
  <2> QED BY <2>1, <2>2
<1> HIDE DEF b, m
<1>7. CASE NeedsRealloc
  BY <1>7, InsertionMovesBlock
<1>8. CASE ~ NeedsRealloc /\ i < b
  <2>1. k = data'[i] /\ i \in 0 .. (count' - 1)
    BY <1>0, <1>2, <1>3, <1>5, <1>8
  <2>2. Find(k)' = ValueAddr(i, capacity')
    BY <2>1, FoundAtNext
  <2>3. Find(k) = ValueAddr(i, capacity)
    BY <1>5, FoundAt
  <2>4. UNCHANGED <<base, capacity>>
    BY <1>8, InvFacts, RoomForOneCapacity DEF SameBlock, Block
  <2> QED BY <2>2, <2>3, <2>4 DEF StaysPut, Pointer
<1>9. CASE b <= i
  <2>1. b \in 0 .. (count - 1) /\ b < count
    BY <1>0, <1>4, <1>5, <1>9
  <2>2. m[b] = data[b] /\ data[b] \in Nat /\ data[i] \in Nat
    BY <1>0, <1>2, <2>1, <1>5 DEF Ascending
  <2>3. key <= data[b]
    BY <1>0, <1>4, <2>1, <2>2 DEF IsLowerBound
  <2>4. data[b] <= data[i]
    <3>1. CASE b = i
      BY <2>2, <3>1
    <3>2. CASE b < i
      BY <1>0, <2>1, <2>2, <3>2 DEF Ascending
    <3> QED BY <1>4, <1>9, <3>1, <3>2
  <2>5. k \in Keys /\ key # k
    BY <1>6
  <2>6. key < k
    BY <1>0, <1>5, <2>2, <2>3, <2>4, <2>5
  <2>7. data'[b] = key /\ b \in 0 .. (count' - 1)
    BY <1>0, <1>3, <1>4, <2>1
  <2>8. key \in Keys'
    BY <2>7 DEF Keys
  <2> QED BY <1>6, <2>6, <2>8 DEF StaysPut
<1> QED BY <1>4, <1>7, <1>8, <1>9

(* An entry that goes moves the values of the larger keys only.            *)
LEMMA RemovedStayPut ==
  ASSUME Inv, Inv', NEW idx \in 0 .. (count - 1), RemoveAt(idx),
         NEW k \in Keys, k \in Keys'
  PROVE  StaysPut(k)
<1>0. GoodBlock(data, capacity, count) /\ count \in Nat /\ Ascending(data, count)
  BY InvFacts
<1>1. /\ UNCHANGED <<base, capacity>> /\ count' = count - 1
      /\ \A a \in 0 .. (count - 2) : data'[a] = IF a < idx THEN data[a] ELSE data[a + 1]
  BY <1>0, EntryErasedGood DEF RemoveAt
<1>2. PICK i \in 0 .. (count - 1) : k = data[i]
  BY DEF Keys
<1>3. data[idx] \in Keys /\ data[idx] \notin Keys'
  <2>1. data[idx] \in Keys
    BY DEF Keys
  <2>2. SUFFICES ASSUME NEW j \in 0 .. (count' - 1), data[idx] = data'[j] PROVE FALSE
    BY <2>1 DEF Keys
  <2>3. j \in 0 .. (count - 2)
    BY <1>0, <1>1
  <2>4. CASE j < idx
    <3>1. data[j] = data[idx] /\ j \in 0 .. (count - 1)
      BY <1>0, <1>1, <2>2, <2>3, <2>4
    <3> QED BY <1>0, <2>4, <3>1 DEF Ascending
  <2>5. CASE idx <= j
    <3>1. data[j + 1] = data[idx] /\ j + 1 \in 0 .. (count - 1) /\ idx < j + 1
      BY <1>0, <1>1, <2>2, <2>3, <2>5
    <3> QED BY <1>0, <3>1 DEF Ascending
  <2> QED BY <2>3, <2>4, <2>5
<1>4. CASE i < idx
  <2>1. k = data'[i] /\ i \in 0 .. (count' - 1)
    BY <1>0, <1>1, <1>2, <1>4
  <2>2. Find(k)' = ValueAddr(i, capacity')
    BY <2>1, FoundAtNext
  <2>3. Find(k) = ValueAddr(i, capacity)
    BY <1>2, FoundAt
  <2> QED BY <1>1, <2>2, <2>3 DEF StaysPut, Pointer
<1>5. CASE i = idx
  BY <1>2, <1>3, <1>5
<1>6. CASE idx < i
  <2>1. data[idx] < k
    BY <1>0, <1>2, <1>6 DEF Ascending
  <2> QED BY <1>3, <2>1 DEF StaysPut
<1> QED BY <1>0, <1>2, <1>4, <1>5, <1>6

(* What an insertion does, as far as the entries' places are concerned.    *)
LEMMA InsertionStaysPut ==
  ASSUME Inv, Inv', NEW block \in RoomForOne, NEW key \in Word, NEW v \in Value,
         \/ /\ block.status = "OOM"
            /\ Became(block)
            /\ UNCHANGED count
         \/ /\ Became(block)
            /\ UNCHANGED count
            /\ InsertionAnswers
         \/ /\ block.status = "OK"
            /\ ~ Hits(block.data, count, key)
            /\ data' = EntryAdded(block.data, block.capacity,
                                  LowerBound(block.data, count, key), key, v)
            /\ base' = block.base
            /\ capacity' = block.capacity
            /\ count' = count + 1
            /\ InsertionAnswers,
         NEW k \in Keys
  PROVE  StaysPut(k)
<1>0. capacity \in Nat
  BY InvFacts
<1>1. ASSUME block.status = "OOM" \/ ~ NeedsRealloc, Became(block), UNCHANGED count
      PROVE  StaysPut(k)
  <2>1. UNCHANGED <<data, base, count, capacity>>
    BY <1>0, <1>1, RoomForOneCapacity DEF Became, SameBlock, Block
  <2> QED BY <2>1, SameKeysStayPut
<1>2. CASE NeedsRealloc /\ InsertionAnswers
  BY <1>2, InsertionMovesBlock
<1>3. CASE /\ block.status = "OK"
           /\ ~ Hits(block.data, count, key)
           /\ data' = EntryAdded(block.data, block.capacity,
                                 LowerBound(block.data, count, key), key, v)
           /\ base' = block.base
           /\ capacity' = block.capacity
           /\ count' = count + 1
           /\ InsertionAnswers
  BY <1>3, AddedStayPut
<1> QED BY <1>1, <1>2, <1>3

LEMMA NextStaysPut ==
  ASSUME Inv, Inv', Next, NEW k \in Keys, k \in Keys'
  PROVE  StaysPut(k)
<1>0. /\ GoodBlock(data, capacity, count) /\ count \in Nat /\ capacity \in Nat
      /\ count <= capacity /\ Ascending(data, count)
  BY InvFacts
<1>1. CASE \E key \in Word, v \in Value : InsertNew(key, v) \/ InsertOrGet(key, v)
  <2>1. PICK key \in Word, v \in Value : InsertNew(key, v) \/ InsertOrGet(key, v)
    BY <1>1
  <2>2. PICK block \in RoomForOne :
          \/ /\ block.status = "OOM"
             /\ Became(block)
             /\ UNCHANGED count
          \/ /\ Became(block)
             /\ UNCHANGED count
             /\ InsertionAnswers
          \/ /\ block.status = "OK"
             /\ ~ Hits(block.data, count, key)
             /\ data' = EntryAdded(block.data, block.capacity,
                                   LowerBound(block.data, count, key), key, v)
             /\ base' = block.base
             /\ capacity' = block.capacity
             /\ count' = count + 1
             /\ InsertionAnswers
    <3>1. CASE InsertNew(key, v)
      BY <3>1 DEF InsertNew, Answer, InsertionAnswers
    <3>2. CASE InsertOrGet(key, v)
      BY <3>2 DEF InsertOrGet, Answer, InsertionAnswers
    <3> QED BY <2>1, <3>1, <3>2
  <2> QED BY <2>2, InsertionStaysPut
<1>2. CASE \E key \in Word, v \in Value : SetExisting(key, v)
  <2>1. PICK key \in Word, v \in Value : SetExisting(key, v)
    BY <1>2
  <2>2. UNCHANGED <<base, count, capacity>>
    BY <2>1 DEF SetExisting
  <2>3. \A i \in 0 .. (count - 1) : data'[i] = data[i]
    <3>1. CASE KeyExists(key) /\ data' = StoreValue(data, Find(key), v)
      <4>1. LowerBound(data, count, key) \in Nat
        BY <1>0, LowerBoundProperty
      <4>2. data' = StoreValue(data, ValueAddr(LowerBound(data, count, key), capacity), v)
        BY <3>1 DEF Find
      <4>3. \A a \in 0 .. (capacity - 1) : data'[a] = data[a]
        BY <1>0, <4>1, <4>2, StoreValueGood
      <4> QED BY <1>0, <4>3
    <3>2. CASE UNCHANGED data
      BY <3>2
    <3> QED BY <2>1, <3>1, <3>2 DEF SetExisting
  <2> QED BY <2>2, <2>3, SameKeysStayPut
<1>3. CASE \E idx \in 0 .. (count - 1) : RemoveAt(idx)
  BY <1>3, RemovedStayPut
<1>4. CASE UNCHANGED <<data, base, count, capacity>>
  BY <1>4, SameKeysStayPut
<1>5. CASE count' = 0
  <2>1. 0 .. (0 - 1) = {}
    OBVIOUS
  <2>2. Keys' = {}
    BY <1>5, <2>1 DEF Keys
  <2> QED BY <2>2
<1>6. CASE Compact
  BY <1>6 DEF Compact, Answer, StaysPut, MayMoveBlock
<1>7. CASE \E size \in 0 .. MaxCapacity : Reserve(size)
  <2>1. PICK size \in 0 .. MaxCapacity : Reserve(size)
    BY <1>7
  <2>2. CASE /\ capacity < size
             /\ \E block \in Reallocated(size) :
                  /\ Became(block)
                  /\ ret' = Answer("reserve", Nothing, Nothing, block.status, Nothing)
    <3>1. PICK block \in Reallocated(size) :
            /\ Became(block)
            /\ ret' = Answer("reserve", Nothing, Nothing, block.status, Nothing)
      BY <2>2
    <3>2. UNCHANGED count /\ ret'.status = block.status /\ ret'.op = "reserve"
      BY <2>1, <3>1 DEF Reserve, Answer
    <3>3. size \in Nat /\ capacity < Clamp(size)
      BY <1>0, <2>2, MaxCapacityAssumption, ClampBounds
    <3>4. CASE block.status = "OOM"
      <4>1. UNCHANGED <<data, base, count, capacity>>
        BY <1>0, <3>1, <3>2, <3>3, <3>4, ReallocatedCapacity DEF Became, SameBlock, Block
      <4> QED BY <4>1, SameKeysStayPut
    <3>5. CASE block.status # "OOM"
      <4>1. capacity' = Clamp(size)
        BY <1>0, <3>1, <3>3, <3>5, ReallocatedCapacity DEF Became
      <4> QED BY <3>2, <3>3, <3>5, <4>1 DEF StaysPut, MayMoveBlock
    <3> QED BY <3>4, <3>5
  <2>3. CASE UNCHANGED <<data, base, capacity>>
    <3>1. UNCHANGED count
      BY <2>1 DEF Reserve
    <3> QED BY <2>3, <3>1, SameKeysStayPut
  <2> QED BY <2>1, <2>2, <2>3 DEF Reserve
<1>8. CASE \E key \in Word : Erase(key)
  <2>1. PICK key \in Word : Erase(key)
    BY <1>8
  <2>2. LowerBound(data, count, key) \in 0 .. count
    BY <1>0, LowerBoundProperty
  <2>3. KeyExists(key) => LowerBound(data, count, key) \in 0 .. (count - 1)
    BY <1>0, <2>2 DEF KeyExists, Hits
  <2> QED BY <1>3, <1>4, <2>1, <2>3 DEF Erase
<1>9. CASE \E v \in Value : EraseValue(v)
  <2>1. PICK v \in Value : EraseValue(v)
    BY <1>9
  <2>2. Matching(v) # {} => FirstMatching(v) \in 0 .. (count - 1)
    BY <1>0, FirstMatchingMatches
  <2> QED BY <1>3, <1>4, <2>1, <2>2 DEF EraseValue
<1>10. CASE \E idx \in 0 .. (count - 1) : EraseIndex(idx)
  BY <1>3, <1>10 DEF EraseIndex
<1>11. CASE \E addr \in 0 .. (capacity * KvSize) : EraseInternalValue(addr)
  <2>1. PICK addr \in 0 .. (capacity * KvSize) : EraseInternalValue(addr)
    BY <1>11
  <2>2. addr \in Nat
    BY <1>0, KeysInsideBlock
  <2>3. /\ RemoveAt((addr - capacity) \div ValueSize)
        /\ ValueSize > 0 /\ ValueAddr(0, capacity) <= addr /\ addr < ValueAddr(count, capacity)
    BY <2>1 DEF EraseInternalValue
  <2>4. (addr - capacity) \div ValueSize \in 0 .. (count - 1)
    BY <1>0, <2>2, <2>3, AddressToIndex
  <2> QED BY <1>3, <2>3, <2>4
<1>12. CASE Clear \/ Deinit
  BY <1>5, <1>12 DEF Clear, Deinit
<1> QED BY <1>1, <1>2, <1>6, <1>7, <1>8, <1>9, <1>10, <1>11, <1>12 DEF Next

LEMMA StaysPutStep ==
  Inv /\ Inv' /\ [Next]_vars
    => [\A k \in Keys \cap Keys' :
          \/ Pointer(k)' = Pointer(k)
          \/ MayMoveBlock
          \/ \E j \in (Keys \ Keys') \cup (Keys' \ Keys) : j < k]_vars
BY NextStaysPut DEF StaysPut

(* A pointer to a value stays good until compact is called, a full btree   *)
(* is inserted into or more is reserved than there is, or until a smaller  *)
(* key comes or goes; and through every call refused for want of memory,   *)
(* wherever the allocator moves a block it grows, shrinks or leaves alone. *)
THEOREM PointersStayGood == Spec => EntriesStayPut
<1>1. Inv /\ [Next]_vars => Inv'
  BY NextInv
<1> QED BY <1>1, InvHolds, StaysPutStep, PTL DEF Spec, EntriesStayPut
=============================================================================
