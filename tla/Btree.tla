-------------------------------- MODULE Btree --------------------------------
(***************************************************************************)
(* src/cstructures/src/btree.c: sorted key-value pairs in one flat heap    *)
(* block.                                                                  *)
(*                                                                         *)
(* The block is a function from addresses to cells.  A cell is one machine *)
(* word of the size of a key, the unit in which the code computes          *)
(* addresses: a key takes one cell and a value ValueSize cells.  The keys  *)
(* fill the cells from 0, the values the cells from `capacity`, so that    *)
(* the values move whenever the capacity changes.  Addresses count from    *)
(* the beginning of the block; where the block is, which every realloc may *)
(* change, is `base`, and a pointer is the two together.                   *)
(*                                                                         *)
(* The queries change nothing and are operators; what each one must answer *)
(* is an invariant over all its arguments.                                 *)
(***************************************************************************)
EXTENDS SortedKeys, HeapBlock

CONSTANTS
  MaxWord,        \* the largest word: the type of a key holds 0 .. MaxWord
  ValueSize,      \* value_size, in words
  Value,          \* the values a caller stores, each a string of ValueSize words
  MinCapacity,    \* CSTRUCTURES_BTREE_MIN_CAPACITY
  ExpandFactor,   \* CSTRUCTURES_BTREE_EXPAND_FACTOR
  MaxCapacity,    \* bound: the capacity the model lets a btree grow to
  Place,          \* where malloc and realloc may put a block
  Nothing         \* the answer of a call that returns only a status

Word == 0 .. MaxWord
InvalidKey == MaxWord      \* BTREE_INVALID_KEY, (cs_btree_key)-1
Cell == Word \cup {Undef}
Status == {"OK", "EXISTS", "NOT_FOUND", "OOM"}

ASSUME MaxWordAssumption == MaxWord \in Nat
ASSUME ValueSizeAssumption == ValueSize \in Nat
ASSUME ValueAssumption == Value \subseteq [0 .. (ValueSize - 1) -> Word]
ASSUME MinCapacityAssumption == MinCapacity \in Nat \ {0}
ASSUME ExpandFactorAssumption == ExpandFactor \in Nat \ {0, 1}
ASSUME MaxCapacityAssumption == MaxCapacity \in Nat
ASSUME UndefAssumption == Undef \notin Int
ASSUME NothingAssumption == Nothing \notin Int \cup Place

VARIABLES
  data,       \* the heap block, with an empty domain for the null pointer
  base,       \* where it is, or Nothing
  count,      \* the number of entries
  capacity,   \* the number of entries there is room for
  ret         \* the last call: its operation, arguments, status and answer

vars == <<data, base, count, capacity, ret>>

-----------------------------------------------------------------------------
(* The heap block.                                                         *)

KvSize == 1 + ValueSize

(* BTREE_VALUE_CAP: the address of value i if the capacity is cap.         *)
ValueAddr(i, cap) == cap + ValueSize * i

StoreKey(m, i, k) == [m EXCEPT ![i] = k]

StoreValue(m, addr, v) ==
  [a \in DOMAIN m |-> IF addr <= a /\ a < addr + ValueSize THEN v[a - addr] ELSE m[a]]

LoadValue(m, addr) == [b \in 0 .. (ValueSize - 1) |-> Fetch(m, addr + b)]

-----------------------------------------------------------------------------
(* Queries.                                                                *)

NeedsRealloc == count = capacity

(* Slip: the search result is not compared with BTREE_KEY_END.             *)
HitsPastTheEnd(m, n, k) == Fetch(m, LowerBound(m, n, k)) = k

(* Does the search for k in the first n keys of block m end on k?          *)
Hits(m, n, k) == LET i == LowerBound(m, n, k) IN i < n /\ m[i] = k

KeyExists(k) == Hits(data, count, k)

(* btree_find: the address of the value, or Nothing for the null pointer.  *)
Find(k) ==
  IF KeyExists(k) THEN ValueAddr(LowerBound(data, count, k), capacity) ELSE Nothing

(* The indices whose value compares equal to v, and the first of them.     *)
Matching(v) == {i \in 0 .. (count - 1) : LoadValue(data, ValueAddr(i, capacity)) = v}
FirstMatching(v) == CHOOSE i \in Matching(v) : \A j \in Matching(v) : i <= j

FindKey(v) == IF Matching(v) = {} THEN Nothing ELSE data[FirstMatching(v)]

FindAndCompare(k, v) == Find(k) # Nothing /\ LoadValue(data, Find(k)) = v

GetAnyValue == IF count = 0 THEN Nothing ELSE ValueAddr(0, capacity)

(* The words that reading address a may yield.                             *)
Reads(a) == IF Fetch(data, a) = Undef THEN Word ELSE {data[a]}

(* Slip: takes the number of entries for a free key.                       *)
UnusedKeysFromCount == {count}

(* btree_find_unused_key walks up from key 0 while cell `key` holds `key`; *)
(* nothing stops it at the last entry.                                     *)
UnusedKeys ==
  IF data = Null
  THEN {0}
  ELSE {k \in Word : /\ \A j \in 0 .. (k - 1) : j \in Reads(j)
                     /\ Reads(k) # {k}}

-----------------------------------------------------------------------------
(* Steps several operations share.                                         *)

Clamp(n) == IF n < MinCapacity THEN MinCapacity ELSE n

Block(m, place, cap, status) == [data |-> m, base |-> place, capacity |-> cap, status |-> status]
SameBlock(status) == Block(data, base, capacity, status)

(* What malloc or realloc leaves, when it has not refused: block m in any  *)
(* place, the one it had among them.                                       *)
Placed(m, cap) == {Block(m, place, cap, "OK") : place \in Place}

(* Slips: the capacity is set before a block is known to grow; the size of *)
(* the value area is counted in entries.                                   *)
ReallocatedEagerly(new_capacity) ==
  LET cap == Clamp(new_capacity)
  IN  {IF data = Null THEN SameBlock("OOM") ELSE Block(data, base, cap, "OOM")}
        \cup Placed(Memmove(Resize(data, cap * KvSize), cap, capacity, capacity * ValueSize), cap)

ReallocatedByCount(new_capacity) ==
  LET cap == Clamp(new_capacity)
  IN  {SameBlock("OOM")}
        \cup Placed(Memmove(Resize(data, cap * KvSize), cap, capacity, capacity), cap)

(* btree_realloc: the blocks it may leave behind.  The values move from    *)
(* behind the old capacity to behind the new one, after the block grew or  *)
(* before it shrinks; a failure to grow changes nothing and a failure to   *)
(* shrink keeps the larger block.                                          *)
Reallocated(new_capacity) ==
  LET cap == Clamp(new_capacity)
      size == cap * KvSize
      ValuesMoved(m) == Memmove(m, cap, capacity, capacity * ValueSize)
  IN  IF cap >= capacity
      THEN {SameBlock("OOM")} \cup Placed(ValuesMoved(Resize(data, size)), cap)
      ELSE {Block(ValuesMoved(data), base, cap, "OK")}
             \cup Placed(Resize(ValuesMoved(data), size), cap)

(* Room for one more entry: what insert_new and insert_or_get do first,    *)
(* before they know whether the key is there already.                      *)
RoomForOne == IF NeedsRealloc THEN Reallocated(capacity * ExpandFactor) ELSE {SameBlock("OK")}

(* Slip: the last entry stays where it was.                                *)
EntryAddedShort(m, cap, i, k, v) ==
  LET moved == count - i - 1
      keys_up == Memmove(m, i + 1, i, moved)
      both_up == Memmove(keys_up, ValueAddr(i + 1, cap), ValueAddr(i, cap), moved * ValueSize)
  IN  StoreValue(StoreKey(both_up, i, k), ValueAddr(i, cap), v)

(* The block m of capacity cap with entry (k, v) put in front of index i.  *)
EntryAdded(m, cap, i, k, v) ==
  LET moved == count - i
      keys_up == Memmove(m, i + 1, i, moved)
      both_up == Memmove(keys_up, ValueAddr(i + 1, cap), ValueAddr(i, cap), moved * ValueSize)
  IN  StoreValue(StoreKey(both_up, i, k), ValueAddr(i, cap), v)

(* btree_erase_index: the entries from idx + 1 on move down, and with them *)
(* the one cell and the one value behind the last entry.                   *)
EntryErased(idx) ==
  LET moved == count - idx
      keys_down == Memmove(data, idx, idx + 1, moved)
  IN  Memmove(keys_down, ValueAddr(idx, capacity), ValueAddr(idx + 1, capacity), moved * ValueSize)

Answer(op, key, value, status, out) ==
  [op |-> op, key |-> key, value |-> value, status |-> status, out |-> out]

Became(block) == data' = block.data /\ base' = block.base /\ capacity' = block.capacity

-----------------------------------------------------------------------------
(* Operations.                                                             *)

(* btree_create and btree_init                                             *)
Init ==
  /\ data = Null
  /\ base = Nothing
  /\ count = 0
  /\ capacity = 0
  /\ ret = Answer("init", Nothing, Nothing, "OK", Nothing)

InBounds(new_capacity) == Clamp(new_capacity) <= MaxCapacity

InsertNew(k, v) ==
  /\ NeedsRealloc => InBounds(capacity * ExpandFactor)
  /\ \E block \in RoomForOne :
       LET i == LowerBound(block.data, count, k)
       IN  \/ /\ block.status = "OOM"
              /\ Became(block)
              /\ UNCHANGED count
              /\ ret' = Answer("insert_new", k, v, "OOM", Nothing)
           \/ /\ block.status = "OK"
              /\ Hits(block.data, count, k)
              /\ Became(block)
              /\ UNCHANGED count
              /\ ret' = Answer("insert_new", k, v, "EXISTS", Nothing)
           \/ /\ block.status = "OK"
              /\ ~ Hits(block.data, count, k)
              /\ data' = EntryAdded(block.data, block.capacity, i, k, v)
              /\ base' = block.base
              /\ capacity' = block.capacity
              /\ count' = count + 1
              /\ ret' = Answer("insert_new", k, v, "OK", Nothing)

(* The answer is the address of the value, the new or the older one.       *)
InsertOrGet(k, v) ==
  /\ ValueSize > 0
  /\ NeedsRealloc => InBounds(capacity * ExpandFactor)
  /\ \E block \in RoomForOne :
       LET i == LowerBound(block.data, count, k)
           addr == ValueAddr(i, block.capacity)
       IN  \/ /\ block.status = "OOM"
              /\ Became(block)
              /\ UNCHANGED count
              /\ ret' = Answer("insert_or_get", k, v, "OOM", Nothing)
           \/ /\ block.status = "OK"
              /\ Hits(block.data, count, k)
              /\ Became(block)
              /\ UNCHANGED count
              /\ ret' = Answer("insert_or_get", k, v, "EXISTS", addr)
           \/ /\ block.status = "OK"
              /\ ~ Hits(block.data, count, k)
              /\ data' = EntryAdded(block.data, block.capacity, i, k, v)
              /\ base' = block.base
              /\ capacity' = block.capacity
              /\ count' = count + 1
              /\ ret' = Answer("insert_or_get", k, v, "NOT_FOUND", addr)

(* Also what a caller does who stores through the pointer of btree_find.   *)
SetExisting(k, v) ==
  /\ ValueSize > 0
  /\ UNCHANGED <<base, count, capacity>>
  /\ \/ /\ KeyExists(k)
        /\ data' = StoreValue(data, Find(k), v)
        /\ ret' = Answer("set_existing", k, v, "OK", Nothing)
     \/ /\ ~ KeyExists(k)
        /\ UNCHANGED data
        /\ ret' = Answer("set_existing", k, v, "NOT_FOUND", Nothing)

RemoveAt(idx) ==
  /\ data' = EntryErased(idx)
  /\ count' = count - 1
  /\ UNCHANGED <<base, capacity>>

(* Slip: the key at the lower bound is not compared with k.                *)
EraseUnchecked(k) ==
  /\ RemoveAt(LowerBound(data, count, k))
  /\ ret' = Answer("erase", k, Nothing, "OK", Nothing)

Erase(k) ==
  \/ /\ KeyExists(k)
     /\ RemoveAt(LowerBound(data, count, k))
     /\ ret' = Answer("erase", k, Nothing, "OK", Nothing)
  \/ /\ ~ KeyExists(k)
     /\ UNCHANGED <<data, base, count, capacity>>
     /\ ret' = Answer("erase", k, Nothing, "NOT_FOUND", Nothing)

EraseValue(v) ==
  /\ ValueSize > 0
  /\ \/ /\ Matching(v) # {}
        /\ RemoveAt(FirstMatching(v))
        /\ ret' = Answer("erase_value", Nothing, v, "OK", data[FirstMatching(v)])
     \/ /\ Matching(v) = {}
        /\ UNCHANGED <<data, base, count, capacity>>
        /\ ret' = Answer("erase_value", Nothing, v, "OK", InvalidKey)

EraseIndex(idx) ==
  /\ idx < count
  /\ RemoveAt(idx)
  /\ ret' = Answer("erase_index", Nothing, Nothing, "OK", data[idx])

(* addr is any address inside a value, as BTREE_VALUE_TO_IDX rounds down.  *)
EraseInternalValue(addr) ==
  /\ ValueSize > 0
  /\ ValueAddr(0, capacity) <= addr
  /\ addr < ValueAddr(count, capacity)
  /\ LET idx == (addr - capacity) \div ValueSize
     IN  /\ RemoveAt(idx)
         /\ ret' = Answer("erase_internal_value", Nothing, Nothing, "OK", data[idx])

Clear ==
  /\ count' = 0
  /\ UNCHANGED <<data, base, capacity>>
  /\ ret' = Answer("clear", Nothing, Nothing, "OK", Nothing)

(* The status of btree_realloc is dropped.                                 *)
Compact ==
  /\ UNCHANGED count
  /\ \/ /\ count = 0
        /\ data' = Null
        /\ base' = Nothing
        /\ capacity' = 0
     \/ /\ count # 0
        /\ InBounds(count)
        /\ \E block \in Reallocated(count) : Became(block)
  /\ ret' = Answer("compact", Nothing, Nothing, "OK", Nothing)

(* Slip: reallocates without asking whether there is room already.         *)
ReserveAlways(size) ==
  /\ UNCHANGED count
  /\ InBounds(size)
  /\ \E block \in Reallocated(size) :
       /\ Became(block)
       /\ ret' = Answer("reserve", Nothing, Nothing, block.status, Nothing)

(* Slip: reallocates also to the capacity there is.                        *)
ReserveAgain(size) ==
  /\ UNCHANGED count
  /\ \/ /\ capacity <= size
        /\ InBounds(size)
        /\ \E block \in Reallocated(size) :
             /\ Became(block)
             /\ ret' = Answer("reserve", Nothing, Nothing, block.status, Nothing)
     \/ /\ capacity > size
        /\ UNCHANGED <<data, base, capacity>>
        /\ ret' = Answer("reserve", Nothing, Nothing, "OK", Nothing)

Reserve(size) ==
  /\ UNCHANGED count
  /\ \/ /\ capacity < size
        /\ InBounds(size)
        /\ \E block \in Reallocated(size) :
             /\ Became(block)
             /\ ret' = Answer("reserve", Nothing, Nothing, block.status, Nothing)
     \/ /\ capacity >= size
        /\ UNCHANGED <<data, base, capacity>>
        /\ ret' = Answer("reserve", Nothing, Nothing, "OK", Nothing)

(* btree_deinit and btree_free: clear, then compact.                       *)
Deinit ==
  /\ count' = 0
  /\ data' = Null
  /\ base' = Nothing
  /\ capacity' = 0
  /\ ret' = Answer("deinit", Nothing, Nothing, "OK", Nothing)

Next ==
  \/ \E k \in Word, v \in Value : InsertNew(k, v)
  \/ \E k \in Word, v \in Value : InsertOrGet(k, v)
  \/ \E k \in Word, v \in Value : SetExisting(k, v)
  \/ \E k \in Word : Erase(k)
  \/ \E v \in Value : EraseValue(v)
  \/ \E idx \in 0 .. (count - 1) : EraseIndex(idx)
  \/ \E addr \in 0 .. (capacity * KvSize) : EraseInternalValue(addr)
  \/ Clear
  \/ Compact
  \/ \E size \in 0 .. MaxCapacity : Reserve(size)
  \/ Deinit

Spec == Init /\ [][Next]_vars

-----------------------------------------------------------------------------
(* What a caller sees.                                                     *)

Keys == {data[i] : i \in 0 .. (count - 1)}
IndexOf(k) == CHOOSE i \in 0 .. (count - 1) : data[i] = k
Contents == [k \in Keys |-> LoadValue(data, ValueAddr(IndexOf(k), capacity))]

(* The last answer, with the pointer of insert_or_get followed.            *)
ReturnsPointer == ret.op = "insert_or_get" /\ ret.status # "OOM"
RetSeen == IF ReturnsPointer THEN [ret EXCEPT !.out = LoadValue(data, @)] ELSE ret

Abstract == INSTANCE Dictionary
            WITH Key <- Word, dict <- Contents, ret <- RetSeen

-----------------------------------------------------------------------------
(* Properties.                                                             *)

(* The block holds cells only and is somewhere, and the counters are       *)
(* naturals.                                                               *)
TypeOK ==
  /\ DOMAIN data \subseteq Nat
  /\ \A a \in DOMAIN data : data[a] \in Cell
  /\ count \in Nat
  /\ capacity \in Nat
  /\ base \in Place \cup {Nothing}
  /\ ret.status \in Status

(* The keys stay strictly ascending through every shift of the entries and *)
(* every move of the value area behind them: btree_find_lower_bound        *)
(* searches nothing else.                                                  *)
KeysAscending == Ascending(data, count)

(* The entries fit the capacity, the capacity fits the heap block, and the *)
(* capacity is 0 exactly while there is no block: what lets every          *)
(* operation address keys and values without looking at the block's size,  *)
(* also after an allocation failed half way.                               *)
RoomForEntries ==
  /\ count <= capacity
  /\ 0 .. (capacity * KvSize - 1) \subseteq DOMAIN data
  /\ capacity = 0 <=> data = Null

(* Every query answers from the entries alone: no stale or unwritten cell  *)
(* behind the last entry and no cell of the value area is ever taken for a *)
(* key or a value (btree_find, find_key, find_and_compare, get_any_value,  *)
(* key_exists).  Of btree_find_key without a match, where the header and   *)
(* the code name different answers, it asks only that it answers no key.   *)
QueriesAgree ==
  /\ \A k \in Word :
       /\ KeyExists(k) <=> k \in DOMAIN Contents
       /\ Find(k) # Nothing <=> k \in DOMAIN Contents
       /\ \A v \in Value :
            FindAndCompare(k, v) <=> k \in DOMAIN Contents /\ Contents[k] = v
  /\ \A v \in Value :
       LET holders == {k \in DOMAIN Contents : Contents[k] = v}
       IN  IF holders = {} THEN FindKey(v) \notin Keys ELSE FindKey(v) \in holders
  /\ IF DOMAIN Contents = {}
     THEN GetAnyValue = Nothing
     ELSE \E k \in DOMAIN Contents : LoadValue(data, GetAnyValue) = Contents[k]

(* btree_find_unused_key never answers a key that is in use, whatever the  *)
(* cells behind the last key hold, stale keys, values or heap garbage.     *)
UnusedKeyIsUnused == UnusedKeys \cap Keys = {}

(* Only compact and deinit give memory back: no insertion, reservation or  *)
(* failed allocation ever leaves less room than there was.                 *)
OnlyCompactShrinks == [][capacity' < capacity => ret'.op \in {"compact", "deinit"}]_vars

(* What a caller holds who has called btree_find or insert_or_get.         *)
Pointer(k) == <<base, Find(k)>>

(* The calls that may move the whole block: compact always, also one that  *)
(* has nothing to give back, an insertion into a full btree whether it     *)
(* inserts or not, and a reservation of more than there is; none of them   *)
(* when it is refused.                                                     *)
MayMoveBlock ==
  /\ ret'.status # "OOM"
  /\ \/ ret'.op = "compact"
     \/ ret'.op \in {"insert_new", "insert_or_get"} /\ NeedsRealloc
     \/ ret'.op = "reserve" /\ capacity < capacity'

(* How long the pointers of btree_find and insert_or_get stay good: until  *)
(* one of those calls, or until a smaller key comes or goes.               *)
EntriesStayPut ==
  [][\A k \in Keys \cap Keys' :
       \/ Pointer(k)' = Pointer(k)
       \/ MayMoveBlock
       \/ \E j \in (Keys \ Keys') \cup (Keys' \ Keys) : j < k]_vars

(* Every operation does to the entries what it does to a dictionary, and   *)
(* answers the same: no entry is lost, torn or given another's value by a  *)
(* shift, by a reallocation, or by an allocation that failed.              *)
ImplementsDictionary == Abstract!Spec

(* What btree.h says of btree_insert_or_get: if the key exists, a pointer  *)
(* to the existing value is returned.                                      *)
ExistingKeyIsReturned ==
  [][ret'.op = "insert_or_get" /\ ret'.key \in Keys => ret'.status = "EXISTS"]_vars
=============================================================================
