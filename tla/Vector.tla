------------------------------- MODULE Vector -------------------------------
(***************************************************************************)
(* src/cstructures/src/vector.c: elements next to each other in one heap   *)
(* block, with room for one more behind the capacity, the scratch element  *)
(* of vector_reverse.  A cell of the block is one element.                 *)
(*                                                                         *)
(* The code checks an index with an assertion, if at all.  A call that     *)
(* runs outside the block ends the program, and `fault` says which did.    *)
(***************************************************************************)
EXTENDS HeapBlock, Sequences

CONSTANTS
  Element,        \* the elements a caller stores
  MinCapacity,    \* CSTRUCTURES_VEC_MIN_CAPACITY
  ExpandFactor,   \* CSTRUCTURES_VEC_EXPAND_FACTOR
  MaxCapacity,    \* bound: the capacity the model lets a vector grow to
  MaxSource,      \* bound: the longest vector pushed to the end of another
  Nothing         \* no argument, no fault, or an answer that is only a status

ASSUME MinCapacityAssumption == MinCapacity \in Nat \ {0}
ASSUME ExpandFactorAssumption == ExpandFactor \in Nat \ {0, 1}
ASSUME MaxCapacityAssumption == MaxCapacity \in Nat /\ MaxSource \in Nat
ASSUME UndefAssumption == Undef \notin Element

VARIABLES
  data,       \* the heap block, with an empty domain for the null pointer
  capacity,   \* how many elements fit, the scratch element not counted
  count,      \* how many there are
  fault,      \* the operation that ran outside the block, or Nothing
  ret         \* the last call: its operation, argument, status and answer

vars == <<data, capacity, count, fault, ret>>

Cell == Element \cup {Undef}
Sources == UNION {[1 .. n -> Element] : n \in 0 .. MaxSource}

-----------------------------------------------------------------------------
(* Steps several operations share.                                         *)

NoIndex == -1      \* VEC_INVALID_INDEX

Block(m, cap, status) == [data |-> m, capacity |-> cap, status |-> status]
SameBlock(status) == Block(data, capacity, status)

(* Slips: no room for the scratch element; the capacity is set before the  *)
(* allocation is known to succeed.                                         *)
ReallocatedTight(index, new_capacity) ==
  LET cap == IF data = Null /\ new_capacity = 0 THEN MinCapacity ELSE new_capacity
      block == Resize(data, cap)
  IN  {SameBlock("OOM"),
       Block(IF index = NoIndex THEN block ELSE Memmove(block, index + 1, index, capacity - index),
             cap, "OK")}

ReallocatedEagerly(index, new_capacity) ==
  LET cap == IF data = Null /\ new_capacity = 0 THEN MinCapacity ELSE new_capacity
      block == Resize(data, cap + 1)
  IN  {Block(data, cap, "OOM"),
       Block(IF index = NoIndex THEN block ELSE Memmove(block, index + 1, index, capacity - index),
             cap, "OK")}

(* vector_realloc: the blocks it may leave behind.  An old block that has  *)
(* no room for the element to insert makes it while it moves.              *)
Reallocated(index, new_capacity) ==
  IF data = Null
  THEN LET cap == IF new_capacity = 0 THEN MinCapacity ELSE new_capacity
       IN  {SameBlock("OOM"), Block(Resize(Null, cap + 1), cap, "OK")}
  ELSE LET block == Resize(data, new_capacity + 1)
           gap == Memmove(block, index + 1, index, capacity - index)
       IN  {SameBlock("OOM"),
            Block(IF index = NoIndex THEN block ELSE gap, new_capacity, "OK")}

NeedsRealloc == count = capacity

(* Room behind the last element, for vector_emplace.                       *)
RoomAtEnd ==
  IF NeedsRealloc THEN Reallocated(NoIndex, count * ExpandFactor) ELSE {SameBlock("OK")}

(* A gap at index, for vector_insert_emplace.                              *)
GapAt(index) ==
  IF NeedsRealloc
  THEN Reallocated(index, count * ExpandFactor)
  ELSE {Block(Memmove(data, index + 1, index, count - index), capacity, "OK")}

InBounds(new_capacity) == new_capacity <= MaxCapacity
MayGrow == NeedsRealloc => InBounds(count * ExpandFactor)

(* The elements s written from index on.                                   *)
Written(m, index, s) ==
  [a \in DOMAIN m |-> IF index <= a /\ a < index + Len(s) THEN s[a - index + 1] ELSE m[a]]

Elements(m) == [i \in 1 .. count |-> m[i - 1]]

Answer(op, arg, status, out) == [op |-> op, arg |-> arg, status |-> status, out |-> out]

(* The object has become block, and the call refuses if that failed, or    *)
(* else writes s at index and adds the given number of elements.           *)
Refused(block, op, arg) ==
  /\ block.status = "OOM"
  /\ data' = block.data
  /\ capacity' = block.capacity
  /\ UNCHANGED <<count, fault>>
  /\ ret' = Answer(op, arg, "OOM", Nothing)

Added(block, op, arg, index, s, added, out) ==
  /\ block.status = "OK"
  /\ data' = Written(block.data, index, s)
  /\ capacity' = block.capacity
  /\ count' = count + added
  /\ UNCHANGED fault
  /\ ret' = Answer(op, arg, "OK", out)

-----------------------------------------------------------------------------
(* Operations.                                                             *)

(* vector_init and vector_create                                           *)
Init ==
  /\ data = Null
  /\ capacity = 0
  /\ count = 0
  /\ fault = Nothing
  /\ ret = Answer("init", Nothing, "OK", Nothing)

IsAlive == fault = Nothing

Emplace ==
  /\ IsAlive
  /\ MayGrow
  /\ \E block \in RoomAtEnd :
       \/ Refused(block, "emplace", count)
       \/ Added(block, "emplace", count, count, << >>, 1, count)

Push(v) ==
  /\ IsAlive
  /\ MayGrow
  /\ \E block \in RoomAtEnd :
       \/ Refused(block, "push", v)
       \/ Added(block, "push", v, count, <<v>>, 1, Nothing)

InsertEmplace(index) ==
  /\ IsAlive
  /\ MayGrow
  /\ \E block \in GapAt(index) :
       \/ Refused(block, "insert_emplace", index)
       \/ Added(block, "insert_emplace", index, index, << >>, 1, index)

Insert(index, v) ==
  /\ IsAlive
  /\ MayGrow
  /\ \E block \in GapAt(index) :
       \/ Refused(block, "insert", <<index, v>>)
       \/ Added(block, "insert", <<index, v>>, index, <<v>>, 1, Nothing)

RoomFor(n) ==
  IF count + n > capacity THEN Reallocated(NoIndex, count + n) ELSE {SameBlock("OK")}

PushVector(s) ==
  /\ IsAlive
  /\ InBounds(count + Len(s))
  /\ \E block \in RoomFor(Len(s)) :
       \/ Refused(block, "push_vector", s)
       \/ Added(block, "push_vector", s, count, s, Len(s), Nothing)

(* Slip: the elements to copy are taken from where the block was before.   *)
PushSelfStale ==
  /\ IsAlive
  /\ InBounds(count + count)
  /\ \E block \in RoomFor(count) :
       Added(block, "push_self", Elements(data), count,
             IF count + count > capacity THEN [i \in 1 .. count |-> Undef] ELSE Elements(data),
             count, Nothing)

(* source_vector is the vector itself: its block is read after it moved.   *)
PushSelf ==
  /\ IsAlive
  /\ InBounds(count + count)
  /\ \E block \in RoomFor(count) :
       \/ Refused(block, "push_self", Elements(data))
       \/ Added(block, "push_self", Elements(data), count, Elements(block.data), count, Nothing)

(* The vectors hold elements of different sizes.                           *)
PushMismatch ==
  /\ IsAlive
  /\ UNCHANGED <<data, capacity, count, fault>>
  /\ ret' = Answer("push_vector", Nothing, "MISMATCH", Nothing)

(* Slip: pops without asking whether there is an element.                  *)
PopUnchecked ==
  /\ IsAlive
  /\ UNCHANGED <<data, capacity, fault>>
  /\ count' = count - 1
  /\ ret' = Answer("pop", Nothing, "OK", count - 1)

(* The answer is the index of the element popped.                          *)
Pop ==
  /\ IsAlive
  /\ UNCHANGED <<data, capacity, fault>>
  /\ \/ /\ count # 0
        /\ count' = count - 1
        /\ ret' = Answer("pop", Nothing, "OK", count - 1)
     \/ /\ count = 0
        /\ UNCHANGED count
        /\ ret' = Answer("pop", Nothing, "NULL", Nothing)

(* A caller stores through the pointer of vector_get_element or an emplace.*)
Store(index, v) ==
  /\ IsAlive
  /\ data' = Written(data, index, <<v>>)
  /\ UNCHANGED <<capacity, count, fault>>
  /\ ret' = Answer("store", <<index, v>>, "OK", Nothing)

(* Behind the last element the number of elements to move wraps.           *)
EraseIndex(index) ==
  /\ IsAlive
  /\ UNCHANGED capacity
  /\ \/ /\ index < count
        /\ data' = IF index = count - 1
                   THEN data
                   ELSE Memmove(data, index, index + 1, count - index - 1)
        /\ count' = count - 1
        /\ ret' = Answer("erase_index", index, "OK", Nothing)
        /\ UNCHANGED fault
     \/ /\ index >= count
        /\ fault' = "erase_index"
        /\ UNCHANGED <<data, count, ret>>

(* element points to the element at index.                                 *)
EraseElement(index) ==
  /\ IsAlive
  /\ index < count
  /\ data' = IF index = count - 1
             THEN data
             ELSE Memmove(data, index, index + 1, count - 1 - index)
  /\ count' = count - 1
  /\ UNCHANGED <<capacity, fault>>
  /\ ret' = Answer("erase_element", index, "OK", Nothing)

(* One turn of vector_reverse: begin and end swap through the scratch      *)
(* element.                                                                *)
SwappedPair(m, begin, end) ==
  LET scratch == [m EXCEPT ![capacity] = m[begin]]
      lower == [scratch EXCEPT ![begin] = scratch[end]]
  IN  [lower EXCEPT ![end] = lower[capacity]]

(* The block after the turns begin and end take to meet.                   *)
Swapped ==
  LET after[n \in 0 .. (count \div 2)] ==
        IF n = 0 THEN data ELSE SwappedPair(after[n - 1], n - 1, count - n)
  IN  after[count \div 2]

(* Without an element, end wraps to the far end of the address space.      *)
Reverse ==
  /\ IsAlive
  /\ UNCHANGED <<capacity, count>>
  /\ \/ /\ count # 0
        /\ data' = Swapped
        /\ ret' = Answer("reverse", Nothing, "OK", Nothing)
        /\ UNCHANGED fault
     \/ /\ count = 0
        /\ fault' = "reverse"
        /\ UNCHANGED <<data, ret>>

Clear ==
  /\ IsAlive
  /\ count' = 0
  /\ UNCHANGED <<data, capacity, fault>>
  /\ ret' = Answer("clear", Nothing, "OK", Nothing)

(* The status of vector_realloc is dropped.                                *)
Compact ==
  /\ IsAlive
  /\ UNCHANGED <<count, fault>>
  /\ \/ /\ count = 0
        /\ data' = Null
        /\ capacity' = 0
     \/ /\ count # 0
        /\ \E block \in Reallocated(NoIndex, count) :
             data' = block.data /\ capacity' = block.capacity
  /\ ret' = Answer("compact", Nothing, "OK", Nothing)

ClearCompact ==
  /\ IsAlive
  /\ data' = Null
  /\ capacity' = 0
  /\ count' = 0
  /\ UNCHANGED fault
  /\ ret' = Answer("clear_compact", Nothing, "OK", Nothing)

(* What vector_reserve leaves behind.                                      *)
Reserved(size) ==
  IF capacity < size THEN Reallocated(NoIndex, size) ELSE {SameBlock("OK")}

Reserve(size) ==
  /\ IsAlive
  /\ \E block \in Reserved(size) :
       \/ Refused(block, "reserve", size)
       \/ Added(block, "reserve", size, count, << >>, 0, Nothing)

(* vector_resize                                                           *)
SetSize(size) ==
  /\ IsAlive
  /\ \E block \in Reserved(size) :
       \/ Refused(block, "resize", size)
       \/ Added(block, "resize", size, count, << >>, size - count, Nothing)

(* vector_deinit or vector_free, and vector_init on the object again.      *)
Renew ==
  /\ IsAlive
  /\ data' = Null
  /\ capacity' = 0
  /\ count' = 0
  /\ UNCHANGED fault
  /\ ret' = Answer("init", Nothing, "OK", Nothing)

(* The program has ended.                                                  *)
Ended == ~ IsAlive /\ UNCHANGED vars

Next ==
  \/ Emplace
  \/ \E v \in Element : Push(v)
  \/ \E index \in 0 .. count : InsertEmplace(index)
  \/ \E index \in 0 .. count, v \in Element : Insert(index, v)
  \/ \E s \in Sources : PushVector(s)
  \/ PushSelf
  \/ PushMismatch
  \/ Pop
  \/ \E index \in 0 .. (count - 1), v \in Element : Store(index, v)
  \/ \E index \in 0 .. (count + 1) : EraseIndex(index)
  \/ \E index \in 0 .. (count - 1) : EraseElement(index)
  \/ Reverse
  \/ Clear
  \/ Compact
  \/ ClearCompact
  \/ \E size \in 0 .. MaxCapacity : Reserve(size)
  \/ \E size \in 0 .. MaxCapacity : SetSize(size)
  \/ Renew
  \/ Ended

Spec == Init /\ [][Next]_vars

-----------------------------------------------------------------------------
(* What a caller sees: the elements, and the popped one through the        *)
(* pointer to it, which vector_pop leaves in place.                        *)

Contents == Elements(data)
RetSeen == IF ret.op = "pop" /\ ret.status = "OK" THEN [ret EXCEPT !.out = data[@]] ELSE ret

Abstract == INSTANCE GrowableList WITH MaxSize <- MaxCapacity, list <- Contents, ret <- RetSeen

-----------------------------------------------------------------------------
(* Properties.                                                             *)

(* The block holds cells only, and the counters are naturals.              *)
TypeOK ==
  /\ data \in [DOMAIN data -> Cell]
  /\ capacity \in Nat
  /\ count \in Nat
  /\ fault \in {Nothing, "erase_index", "reverse"}
  /\ ret.status \in {"OK", "OOM", "NULL", "MISMATCH"}

(* The elements fit the capacity, the scratch element vector_reverse       *)
(* writes lies behind it in the block, and the capacity is 0 only without  *)
(* a block: from a block of capacity 0 a push could never grow.            *)
RoomForElements ==
  /\ count <= capacity
  /\ capacity = 0 <=> data = Null
  /\ data # Null => DOMAIN data = 0 .. capacity

(* A call that is refused for want of memory has changed nothing, neither  *)
(* the elements nor the room for them.                                     *)
RefusalChangesNothing ==
  [][ret' # ret /\ ret'.status = "OOM" => UNCHANGED <<data, capacity, count>>]_vars

(* Every operation does to the elements what it does to a list, wherever   *)
(* the elements are moved to make room, also when a vector is pushed to    *)
(* its own end; what the last pop returned still shows the element.        *)
ImplementsList == Abstract!Spec
=============================================================================
