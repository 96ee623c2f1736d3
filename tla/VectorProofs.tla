---------------------------- MODULE VectorProofs ----------------------------
(***************************************************************************)
(* The vector's elements stay inside its block and are the elements of a   *)
(* list, for every element type, growth policy and pattern of failing      *)
(* allocations.                                                            *)
(*                                                                         *)
(* The conjunction of TypeOK and RoomForElements is inductive.  GoodBlock  *)
(* states it for any block, so that it can be followed through the steps   *)
(* of one operation: reallocation, shift and store.  Keeps says which      *)
(* elements a block has kept, what the refinement of GrowableList rests    *)
(* on.                                                                     *)
(***************************************************************************)
EXTENDS Vector, SortedKeysProofs, SequenceTheorems

GoodBlock(m, cap, n) ==
  /\ m \in [DOMAIN m -> Cell]
  /\ cap \in Nat /\ n \in Nat /\ n <= cap
  /\ cap = 0 <=> m = Null
  /\ m # Null => DOMAIN m = 0 .. cap

(* The n first cells of m are in w; those from index on one cell later.    *)
Keeps(w, m, n) == \A i \in 0 .. (n - 1) : w[i] = m[i]
Opens(w, m, n, index) ==
  /\ \A i \in 0 .. (index - 1) : w[i] = m[i]
  /\ \A i \in index .. (n - 1) : w[i + 1] = m[i]

Inv ==
  /\ GoodBlock(data, capacity, count)
  /\ fault \in {Nothing, "erase_index", "reverse"}
  /\ ret.status \in {"OK", "OOM", "NULL", "MISMATCH"}

(* The inductive invariant is the two invariants the runs check.           *)
LEMMA InvIsTheInvariants == Inv <=> TypeOK /\ RoomForElements
BY DEF Inv, GoodBlock, TypeOK, RoomForElements

-----------------------------------------------------------------------------
(* What moving and writing cells does to a block.                          *)

LEMMA NullBlock == DOMAIN Null = {} /\ Null \in [DOMAIN Null -> Cell]
BY DEF Null

LEMMA ElementIsCell == Element \subseteq Cell /\ Undef \in Cell
BY DEF Cell

(* A block with room is not the null pointer, and its elements are there.  *)
LEMMA GoodBlockCells ==
  ASSUME NEW m, NEW cap, NEW n, GoodBlock(m, cap, n)
  PROVE  /\ DOMAIN m \subseteq Nat
         /\ 0 .. (n - 1) \subseteq DOMAIN m
         /\ cap > 0 => DOMAIN m = 0 .. cap
         /\ \A a \in DOMAIN m : m[a] \in Cell
BY NullBlock DEF GoodBlock

LEMMA FetchCell ==
  ASSUME NEW m, NEW a, m \in [DOMAIN m -> Cell]
  PROVE  Fetch(m, a) \in Cell
BY DEF Fetch, Cell

LEMMA MemmoveShape ==
  ASSUME NEW m, NEW dst, NEW src, NEW n, m \in [DOMAIN m -> Cell]
  PROVE  /\ DOMAIN Memmove(m, dst, src, n) = DOMAIN m
         /\ Memmove(m, dst, src, n) \in [DOMAIN m -> Cell]
BY FetchCell DEF Memmove

(* A move by one cell upwards opens a gap.                                 *)
LEMMA MemmoveOpens ==
  ASSUME NEW m, NEW n \in Nat, NEW k \in Nat, NEW index \in 0 .. n, n <= k,
         0 .. n \subseteq DOMAIN m
  PROVE  Opens(Memmove(m, index + 1, index, k - index), m, n, index)
<1> DEFINE w == Memmove(m, index + 1, index, k - index)
<1>1. ASSUME NEW i \in 0 .. (index - 1)
      PROVE  w[i] = m[i]
  BY DEF Memmove
<1>2. ASSUME NEW i \in index .. (n - 1)
      PROVE  w[i + 1] = m[i]
  <2>1. /\ i \in DOMAIN m /\ i + 1 \in DOMAIN m
        /\ index + 1 <= i + 1 /\ i + 1 < index + 1 + (k - index)
        /\ index + (i + 1 - (index + 1)) = i
    OBVIOUS
  <2> QED BY <2>1 DEF Memmove, Fetch
<1> QED BY <1>1, <1>2 DEF Opens

LEMMA ResizeShape ==
  ASSUME NEW m, NEW n \in Nat, m \in [DOMAIN m -> Cell]
  PROVE  /\ DOMAIN Resize(m, n) = 0 .. (n - 1)
         /\ Resize(m, n) \in [0 .. (n - 1) -> Cell]
         /\ \A a \in 0 .. (n - 1) : a \in DOMAIN m => Resize(m, n)[a] = m[a]
BY FetchCell DEF Resize, Fetch

(* w is block m with the cells of s at index, as far as they fit.          *)
WrittenAs(w, m, index, s) ==
  /\ DOMAIN w = DOMAIN m
  /\ w \in [DOMAIN m -> Cell]
  /\ \A a \in DOMAIN m : a < index => w[a] = m[a]
  /\ \A a \in DOMAIN m : a >= index + Len(s) => w[a] = m[a]
  /\ \A j \in 1 .. Len(s) : index + j - 1 \in DOMAIN m => w[index + j - 1] = s[j]

LEMMA WrittenShape ==
  ASSUME NEW m, NEW index \in Nat, NEW s \in Seq(Cell), m \in [DOMAIN m -> Cell],
         DOMAIN m \subseteq Nat
  PROVE  WrittenAs(Written(m, index, s), m, index, s)
<1> DEFINE w == Written(m, index, s)
<1>1. Len(s) \in Nat /\ \A j \in 1 .. Len(s) : s[j] \in Cell
  BY LenProperties, ElementOfSeq
<1>2. DOMAIN w = DOMAIN m
  BY DEF Written
<1>3. \A a \in DOMAIN m :
        w[a] = IF index <= a /\ a < index + Len(s) THEN s[a - index + 1] ELSE m[a]
  BY DEF Written
<1>4. w = [a \in DOMAIN m |-> w[a]]
  BY DEF Written
<1> HIDE DEF w
<1>5. ASSUME NEW a \in DOMAIN m
      PROVE  w[a] \in Cell
  <2>1. CASE index <= a /\ a < index + Len(s)
    <3>1. a - index + 1 \in 1 .. Len(s)
      BY <1>1, <2>1
    <3> QED BY <1>1, <1>3, <2>1, <3>1
  <2>2. CASE ~ (index <= a /\ a < index + Len(s))
    BY <1>3, <2>2
  <2> QED BY <2>1, <2>2
<1>6. w \in [DOMAIN m -> Cell]
  BY <1>4, <1>5
<1>7. ASSUME NEW j \in 1 .. Len(s), index + j - 1 \in DOMAIN m
      PROVE  w[index + j - 1] = s[j]
  <2>1. /\ index <= index + j - 1 /\ index + j - 1 < index + Len(s)
        /\ index + j - 1 - index + 1 = j
    BY <1>1, <1>7
  <2> QED BY <1>3, <1>7, <2>1
<1>8. \A a \in DOMAIN m : a < index \/ a >= index + Len(s) => w[a] = m[a]
  BY <1>1, <1>3
<1>9. WrittenAs(w, m, index, s)
  BY <1>2, <1>6, <1>7, <1>8 DEF WrittenAs
<1> QED BY <1>9 DEF w

(* Writing nothing changes nothing.                                        *)
LEMMA WrittenNothing ==
  ASSUME NEW m, NEW index \in Nat, m \in [DOMAIN m -> Cell], DOMAIN m \subseteq Nat
  PROVE  Written(m, index, << >>) = m
BY DEF Written

(* Writing cells of a good block leaves it good.                           *)
LEMMA WrittenGood ==
  ASSUME NEW m, NEW cap, NEW n, NEW index \in Nat, NEW s \in Seq(Cell), GoodBlock(m, cap, n)
  PROVE  GoodBlock(Written(m, index, s), cap, n)
<1> DEFINE w == Written(m, index, s)
<1>1. DOMAIN w = DOMAIN m /\ w \in [DOMAIN m -> Cell]
  BY WrittenShape, GoodBlockCells DEF GoodBlock, WrittenAs
<1> HIDE DEF w
<1>2. m = Null <=> w = Null
  <2>1. m = Null <=> DOMAIN m = {}
    BY NullBlock DEF GoodBlock, Null
  <2>2. w = Null <=> DOMAIN w = {}
    BY <1>1, NullBlock DEF Null
  <2> QED BY <1>1, <2>1, <2>2
<1>3. GoodBlock(w, cap, n)
  BY <1>1, <1>2 DEF GoodBlock
<1> QED BY <1>3 DEF w

-----------------------------------------------------------------------------
(* vector_realloc.  A block it leaves behind is good, and the same as      *)
(* before if it fails.                                                     *)

LEMMA ReallocatedGood ==
  ASSUME GoodBlock(data, capacity, count),
         NEW index \in Int, NEW new_capacity \in Nat, count <= new_capacity,
         new_capacity = 0 => data = Null,
         NEW block \in Reallocated(index, new_capacity)
  PROVE  /\ block.status \in {"OK", "OOM"}
         /\ GoodBlock(block.data, block.capacity, count)
         /\ block.status = "OOM" => block = SameBlock("OOM")
         /\ block.status = "OK" => block.capacity > 0 /\ block.capacity >= new_capacity
<1>0. /\ data \in [DOMAIN data -> Cell] /\ capacity \in Nat /\ count \in Nat /\ count <= capacity
  BY DEF GoodBlock
<1>1. CASE block = SameBlock("OOM")
  BY <1>1 DEF SameBlock, Block
<1>2. CASE data = Null /\ block # SameBlock("OOM")
  <2> DEFINE cap == IF new_capacity = 0 THEN MinCapacity ELSE new_capacity
             r == Resize(data, cap + 1)
  <2>1. block = Block(r, cap, "OK")
    BY <1>2 DEF Reallocated
  <2>2. cap \in Nat /\ cap > 0 /\ cap >= new_capacity
    BY MinCapacityAssumption
  <2> HIDE DEF cap
  <2>3. DOMAIN r = 0 .. cap /\ r \in [0 .. cap -> Cell]
    <3>1. cap + 1 \in Nat
      BY <2>2
    <3> QED BY <1>0, <1>2, <2>2, <3>1, ResizeShape
  <2>4. r # Null
    BY <2>2, <2>3, NullBlock
  <2> HIDE DEF r
  <2>5. GoodBlock(r, cap, count)
    BY <1>0, <2>2, <2>3, <2>4 DEF GoodBlock
  <2> QED BY <2>1, <2>2, <2>5 DEF Block
<1>3. CASE data # Null /\ block # SameBlock("OOM")
  <2> DEFINE r == Resize(data, new_capacity + 1)
             w == Memmove(r, index + 1, index, capacity - index)
  <2>1. block = Block(IF index = NoIndex THEN r ELSE w, new_capacity, "OK")
    BY <1>3 DEF Reallocated
  <2>2. new_capacity > 0
    BY <1>3
  <2>3. DOMAIN r = 0 .. new_capacity /\ r \in [0 .. new_capacity -> Cell]
    BY <1>0, ResizeShape
  <2>4. DOMAIN w = 0 .. new_capacity /\ w \in [0 .. new_capacity -> Cell]
    BY <2>3, MemmoveShape
  <2>5. r # Null /\ w # Null
    BY <2>3, <2>4, NullBlock
  <2> HIDE DEF r, w
  <2>6. GoodBlock(r, new_capacity, count) /\ GoodBlock(w, new_capacity, count)
    BY <1>0, <2>2, <2>3, <2>4, <2>5 DEF GoodBlock
  <2> QED BY <2>1, <2>2, <2>6 DEF Block
<1> QED BY <1>1, <1>2, <1>3

(* Asked for no gap it keeps the elements where they are; asked for one,   *)
(* with the block full, it opens it.                                       *)
LEMMA ReallocatedKeeps ==
  ASSUME GoodBlock(data, capacity, count),
         NEW new_capacity \in Nat, count <= new_capacity,
         NEW block \in Reallocated(NoIndex, new_capacity)
  PROVE  Keeps(block.data, data, count)
<1>0. count \in Nat /\ data \in [DOMAIN data -> Cell] /\ 0 .. (count - 1) \subseteq DOMAIN data
  BY GoodBlockCells DEF GoodBlock
<1>1. CASE block = SameBlock("OOM")
  BY <1>1 DEF SameBlock, Block, Keeps
<1>2. CASE data = Null
  BY <1>0, <1>2, NullBlock DEF Keeps
<1>3. CASE data # Null /\ block # SameBlock("OOM")
  <2>1. block.data = Resize(data, new_capacity + 1)
    BY <1>3 DEF Reallocated, Block
  <2> QED BY <1>0, <2>1, ResizeShape DEF Keeps
<1> QED BY <1>1, <1>2, <1>3

LEMMA ReallocatedOpens ==
  ASSUME GoodBlock(data, capacity, count), count = capacity,
         NEW index \in 0 .. count, NEW new_capacity \in Nat, count < new_capacity \/ count = 0,
         NEW block \in Reallocated(index, new_capacity), block.status = "OK"
  PROVE  Opens(block.data, data, count, index)
<1>0. /\ count \in Nat /\ data \in [DOMAIN data -> Cell] /\ 0 .. (count - 1) \subseteq DOMAIN data
      /\ capacity = 0 <=> data = Null
  BY GoodBlockCells DEF GoodBlock
<1>1. CASE data = Null
  BY <1>0, <1>1 DEF Opens
<1>2. CASE data # Null
  <2> DEFINE r == Resize(data, new_capacity + 1)
  <2>1. block.data = Memmove(r, index + 1, index, capacity - index)
    BY <1>2 DEF Reallocated, Block, SameBlock, NoIndex
  <2>2. /\ DOMAIN r = 0 .. new_capacity
        /\ \A a \in 0 .. new_capacity : a \in DOMAIN data => r[a] = data[a]
    BY <1>0, ResizeShape
  <2>3. 0 .. count \subseteq DOMAIN r
    BY <1>0, <1>2, <2>2
  <2> HIDE DEF r
  <2>4. Opens(block.data, r, count, index)
    BY <1>0, <2>1, <2>3, MemmoveOpens
  <2>5. \A i \in 0 .. (count - 1) : r[i] = data[i]
    BY <1>0, <1>2, <2>2
  <2> QED BY <1>0, <2>4, <2>5 DEF Opens
<1> QED BY <1>1, <1>2

-----------------------------------------------------------------------------
(* The blocks the operations ask for.                                      *)

(* A block with room for the given number of elements, or the old one.     *)
Makes(block, room) ==
  /\ block.status \in {"OK", "OOM"}
  /\ GoodBlock(block.data, block.capacity, count)
  /\ block.status = "OOM" => block = SameBlock("OOM")
  /\ block.status = "OK" => room <= block.capacity

(* Growing makes room for one more.                                        *)
LEMMA GrowthIsEnough ==
  ASSUME NEW n \in Nat
  PROVE  n * ExpandFactor \in Nat /\ n <= n * ExpandFactor /\ (n > 0 => n < n * ExpandFactor)
<1>1. ExpandFactor \in Nat /\ ExpandFactor >= 2
  BY ExpandFactorAssumption
<1> QED BY <1>1

LEMMA SameBlockMakes ==
  ASSUME GoodBlock(data, capacity, count)
  PROVE  /\ Makes(SameBlock("OK"), capacity)
         /\ SameBlock("OK").status = "OK"
         /\ Keeps(SameBlock("OK").data, data, count)
BY DEF Makes, SameBlock, Block, Keeps, GoodBlock

LEMMA RoomAtEndMakes ==
  ASSUME GoodBlock(data, capacity, count), NEW block \in RoomAtEnd
  PROVE  Makes(block, count + 1) /\ Keeps(block.data, data, count)
<1>0. count \in Nat /\ capacity \in Nat /\ count <= capacity /\ (capacity = 0 => data = Null)
  BY DEF GoodBlock
<1>1. CASE NeedsRealloc
  <2> DEFINE wanted == count * ExpandFactor
  <2>1. block \in Reallocated(NoIndex, wanted)
    BY <1>1 DEF RoomAtEnd
  <2>2. /\ wanted \in Nat /\ count <= wanted /\ (count > 0 => count < wanted)
        /\ wanted = 0 => data = Null
    BY <1>0, <1>1, GrowthIsEnough DEF NeedsRealloc
  <2> HIDE DEF wanted
  <2>3. GoodBlock(block.data, block.capacity, count) => block.capacity \in Nat
    BY DEF GoodBlock
  <2> QED BY <1>0, <2>1, <2>2, <2>3, ReallocatedGood, ReallocatedKeeps DEF Makes, NoIndex
<1>2. CASE ~ NeedsRealloc
  <2>1. block = SameBlock("OK") /\ count + 1 <= capacity
    BY <1>0, <1>2 DEF RoomAtEnd, NeedsRealloc
  <2> QED BY <1>0, <2>1, SameBlockMakes DEF Makes, SameBlock, Block
<1> QED BY <1>1, <1>2

LEMMA GapAtMakes ==
  ASSUME GoodBlock(data, capacity, count), NEW index \in 0 .. count, NEW block \in GapAt(index)
  PROVE  /\ Makes(block, count + 1)
         /\ block.status = "OK" => Opens(block.data, data, count, index)
<1>0. /\ count \in Nat /\ capacity \in Nat /\ count <= capacity
      /\ capacity = 0 => data = Null
      /\ data \in [DOMAIN data -> Cell]
  BY DEF GoodBlock
<1>1. CASE NeedsRealloc
  <2> DEFINE wanted == count * ExpandFactor
  <2>1. block \in Reallocated(index, wanted)
    BY <1>1 DEF GapAt
  <2>2. /\ wanted \in Nat /\ count <= wanted /\ (count < wanted \/ count = 0)
        /\ wanted = 0 => data = Null
    BY <1>0, <1>1, GrowthIsEnough DEF NeedsRealloc
  <2> HIDE DEF wanted
  <2>3. /\ block.status \in {"OK", "OOM"}
        /\ GoodBlock(block.data, block.capacity, count)
        /\ block.status = "OOM" => block = SameBlock("OOM")
        /\ block.status = "OK" => block.capacity > 0 /\ block.capacity >= wanted
    BY <1>0, <2>1, <2>2, ReallocatedGood
  <2>4. block.status = "OK" => Opens(block.data, data, count, index)
    BY <1>0, <1>1, <2>1, <2>2, ReallocatedOpens DEF NeedsRealloc
  <2>5. GoodBlock(block.data, block.capacity, count) => block.capacity \in Nat
    BY DEF GoodBlock
  <2> QED BY <1>0, <2>2, <2>3, <2>4, <2>5 DEF Makes
<1>2. CASE ~ NeedsRealloc
  <2> DEFINE w == Memmove(data, index + 1, index, count - index)
  <2>1. block = Block(w, capacity, "OK")
    BY <1>2 DEF GapAt
  <2>2. count < capacity
    BY <1>0, <1>2 DEF NeedsRealloc
  <2>3. DOMAIN data = 0 .. capacity
    BY <1>0, <2>2, GoodBlockCells
  <2>4. DOMAIN w = DOMAIN data /\ w \in [DOMAIN data -> Cell]
    BY <1>0, MemmoveShape
  <2>5. Opens(w, data, count, index)
    BY <1>0, <2>2, <2>3, MemmoveOpens
  <2>6. w # Null
    BY <1>0, <2>3, <2>4, NullBlock
  <2> HIDE DEF w
  <2>7. GoodBlock(w, capacity, count)
    BY <1>0, <2>2, <2>3, <2>4, <2>6 DEF GoodBlock
  <2> QED BY <1>0, <2>1, <2>2, <2>5, <2>7 DEF Makes, Block
<1> QED BY <1>1, <1>2

LEMMA RoomForMakes ==
  ASSUME GoodBlock(data, capacity, count), NEW n \in Nat, NEW block \in RoomFor(n)
  PROVE  Makes(block, count + n) /\ Keeps(block.data, data, count)
<1>0. count \in Nat /\ capacity \in Nat /\ count <= capacity
  BY DEF GoodBlock
<1>1. CASE count + n > capacity
  <2>1. block \in Reallocated(NoIndex, count + n)
    BY <1>1 DEF RoomFor
  <2>2. count + n \in Nat /\ count <= count + n /\ count + n # 0
    BY <1>0, <1>1
  <2> QED BY <2>1, <2>2, ReallocatedGood, ReallocatedKeeps DEF Makes, NoIndex
<1>2. CASE ~ (count + n > capacity)
  <2>1. block = SameBlock("OK")
    BY <1>2 DEF RoomFor
  <2> QED BY <1>0, <1>2, <2>1, SameBlockMakes DEF Makes, SameBlock, Block
<1> QED BY <1>1, <1>2

LEMMA ReservedMakes ==
  ASSUME GoodBlock(data, capacity, count), NEW size \in Nat, NEW block \in Reserved(size)
  PROVE  Makes(block, size) /\ Keeps(block.data, data, count)
<1>0. count \in Nat /\ capacity \in Nat /\ count <= capacity
  BY DEF GoodBlock
<1>1. CASE capacity < size
  <2>1. block \in Reallocated(NoIndex, size)
    BY <1>1 DEF Reserved
  <2>2. count <= size /\ size # 0
    BY <1>0, <1>1
  <2>3. GoodBlock(block.data, block.capacity, count) => block.capacity \in Nat
    BY DEF GoodBlock
  <2> QED BY <2>1, <2>2, <2>3, ReallocatedGood, ReallocatedKeeps DEF Makes, NoIndex
<1>2. CASE ~ (capacity < size)
  <2>1. block = SameBlock("OK")
    BY <1>2 DEF Reserved
  <2> QED BY <1>0, <1>2, <2>1, SameBlockMakes DEF Makes, SameBlock, Block
<1> QED BY <1>1, <1>2

-----------------------------------------------------------------------------
(* vector_reverse.                                                         *)

(* The block after n turns.                                                *)
AfterTurns(n) ==
  [a \in DOMAIN data |->
     IF a = capacity /\ n > 0 THEN data[n - 1]
     ELSE IF a < n \/ (count - n <= a /\ a < count) THEN data[count - 1 - a]
     ELSE data[a]]

(* A turn takes AfterTurns to the next one.                                *)
LEMMA TurnSwaps ==
  ASSUME GoodBlock(data, capacity, count), count # 0, NEW n \in 1 .. (count \div 2)
  PROVE  SwappedPair(AfterTurns(n - 1), n - 1, count - n) = AfterTurns(n)
<1> DEFINE m == AfterTurns(n - 1)
           scratch == [m EXCEPT ![capacity] = m[n - 1]]
           lower == [scratch EXCEPT ![n - 1] = scratch[count - n]]
           w == [lower EXCEPT ![count - n] = lower[capacity]]
<1>1. /\ count \in Nat /\ capacity \in Nat /\ count <= capacity
      /\ DOMAIN data = 0 .. capacity /\ n \in Nat /\ n - 1 \in Nat
      /\ n - 1 < count - n /\ count - n < count /\ count - n \in Nat
  BY GoodBlockCells DEF GoodBlock
<1>2. /\ DOMAIN m = 0 .. capacity /\ DOMAIN scratch = 0 .. capacity
      /\ DOMAIN lower = 0 .. capacity /\ DOMAIN w = 0 .. capacity
  BY <1>1 DEF AfterTurns
<1>3. m[n - 1] = data[n - 1] /\ m[count - n] = data[count - n]
  BY <1>1 DEF AfterTurns
<1>4. ASSUME NEW a \in 0 .. capacity, a # capacity, a # n - 1, a # count - n
      PROVE  m[a] = AfterTurns(n)[a]
  BY <1>1, <1>4 DEF AfterTurns
<1>5. /\ AfterTurns(n)[capacity] = data[n - 1]
      /\ AfterTurns(n)[n - 1] = data[count - n]
      /\ AfterTurns(n)[count - n] = data[n - 1]
      /\ DOMAIN AfterTurns(n) = 0 .. capacity
      /\ AfterTurns(n) = [a \in 0 .. capacity |-> AfterTurns(n)[a]]
  BY <1>1 DEF AfterTurns
<1> HIDE DEF m
<1>6. ASSUME NEW a \in 0 .. capacity
      PROVE  w[a] = AfterTurns(n)[a]
  BY <1>1, <1>2, <1>3, <1>4, <1>5
<1>7. w = [a \in 0 .. capacity |-> w[a]]
  <2> HIDE DEF lower
  <2> QED BY <1>2
<1> HIDE DEF w
<1>8. w = AfterTurns(n)
  BY <1>5, <1>6, <1>7
<1> QED BY <1>8 DEF SwappedPair, w, m

(* The function in Swapped is AfterTurns: that satisfies the recursion, so *)
(* that some function does, and at the least turn at which another one     *)
(* differed the recursion would not hold.                                  *)
LEMMA SwappedIs ==
  ASSUME GoodBlock(data, capacity, count), count # 0
  PROVE  Swapped = AfterTurns(count \div 2)
<1> DEFINE h == count \div 2
           Step(f, n) == IF n = 0 THEN data ELSE SwappedPair(f[n - 1], n - 1, count - n)
           Solves(f) == f = [n \in 0 .. h |-> Step(f, n)]
           after == CHOOSE f : Solves(f)
           g == [n \in 0 .. h |-> AfterTurns(n)]
<1>1. h \in Nat /\ count \in Nat
  BY DEF GoodBlock
<1> HIDE DEF h
<1>2. AfterTurns(0) = data
  BY <1>1 DEF AfterTurns, GoodBlock
<1>3. ASSUME NEW n \in 0 .. h
      PROVE  g[n] = Step(g, n)
  <2>1. CASE n = 0
    BY <1>2, <2>1
  <2>2. CASE n # 0
    <3>1. n \in 1 .. h /\ n - 1 \in 0 .. h
      BY <1>1, <2>2
    <3>2. Step(g, n) = SwappedPair(AfterTurns(n - 1), n - 1, count - n)
      BY <2>2, <3>1
    <3> QED BY <3>1, <3>2, TurnSwaps DEF h
  <2> QED BY <2>1, <2>2
<1>4. Solves(g)
  BY <1>3
<1>5. Solves(after)
  BY <1>4
<1>6. Swapped = after[h]
  BY DEF Swapped, h
<1> HIDE DEF after
<1>7. ASSUME NEW n \in 0 .. h
      PROVE  after[n] = AfterTurns(n)
  <2> DEFINE Bad == {k \in 0 .. h : after[k] # AfterTurns(k)}
  <2>1. SUFFICES ASSUME Bad # {} PROVE FALSE
    OBVIOUS
  <2>2. PICK k \in Bad : \A j \in Bad : k <= j
    <3>1. Bad \in SUBSET Nat
      OBVIOUS
    <3> QED BY <2>1, <3>1, LeastElement
  <2>3. after[k] = Step(after, k)
    BY <1>5, <2>2
  <2>4. k # 0
    BY <1>2, <2>2, <2>3
  <2>5. k - 1 \in 0 .. h /\ k - 1 \notin Bad /\ k \in 1 .. h
    BY <1>1, <2>2, <2>4
  <2>6. after[k - 1] = AfterTurns(k - 1)
    BY <2>5
  <2>7. after[k] = AfterTurns(k)
    BY <2>3, <2>4, <2>5, <2>6, TurnSwaps DEF h
  <2> QED BY <2>2, <2>7
<1> QED BY <1>1, <1>6, <1>7 DEF h

(* Reversing reverses the elements, in a block that stays good.            *)
LEMMA SwappedReverses ==
  ASSUME GoodBlock(data, capacity, count), count # 0
  PROVE  /\ GoodBlock(Swapped, capacity, count)
         /\ \A a \in 0 .. (count - 1) : Swapped[a] = data[count - 1 - a]
<1> DEFINE h == count \div 2
           w == AfterTurns(h)
<1>1. /\ count \in Nat /\ capacity \in Nat /\ count <= capacity /\ h \in Nat
      /\ count = 2 * h \/ count = 2 * h + 1
      /\ DOMAIN data = 0 .. capacity /\ data \in [0 .. capacity -> Cell]
  <2>1. count \in Nat /\ capacity \in Nat /\ count <= capacity
    BY DEF GoodBlock
  <2>2. h \in Nat /\ (count = 2 * h \/ count = 2 * h + 1)
    BY ONLY <2>1
  <2>3. DOMAIN data = 0 .. capacity /\ data \in [0 .. capacity -> Cell]
    BY <2>1, GoodBlockCells DEF GoodBlock
  <2> QED BY <2>1, <2>2, <2>3
<1>2. Swapped = w
  BY SwappedIs
<1> HIDE DEF h
<1>3. DOMAIN w = 0 .. capacity /\ w \in [0 .. capacity -> Cell]
  <2>1. DOMAIN w = 0 .. capacity
    BY <1>1 DEF AfterTurns
  <2>2. ASSUME NEW a \in 0 .. capacity
        PROVE  w[a] \in Cell
    <3>1. a = capacity /\ h > 0 => h - 1 \in 0 .. capacity
      BY <1>1
    <3>2. a < h \/ (count - h <= a /\ a < count) => count - 1 - a \in 0 .. capacity
      BY <1>1
    <3> QED BY <1>1, <3>1, <3>2 DEF AfterTurns
  <2>3. w = [a \in 0 .. capacity |-> w[a]]
    BY <1>1 DEF AfterTurns
  <2> HIDE DEF w
  <2> QED BY <2>1, <2>2, <2>3
<1>4. ASSUME NEW a \in 0 .. (count - 1)
      PROVE  w[a] = data[count - 1 - a]
  <2>1. a \in DOMAIN data /\ a # capacity
    BY <1>1
  <2>2. CASE a < h \/ count - h <= a
    BY <1>1, <2>1, <2>2 DEF AfterTurns
  <2>3. CASE ~ (a < h \/ count - h <= a)
    <3>1. a = count - 1 - a
      BY <1>1, <2>3
    <3>2. w[a] = data[a]
      BY <1>1, <2>1, <2>3 DEF AfterTurns
    <3> QED BY <3>1, <3>2
  <2> QED BY <2>2, <2>3
<1>5. w # Null
  BY <1>1, <1>3, NullBlock
<1> HIDE DEF w
<1>6. GoodBlock(w, capacity, count)
  BY <1>1, <1>3, <1>5 DEF GoodBlock
<1> QED BY <1>2, <1>4, <1>6

-----------------------------------------------------------------------------
(* Every operation keeps the invariant.                                    *)

LEMMA InitInv == Init => Inv
<1>1. Init => GoodBlock(data, capacity, count)
  BY NullBlock DEF Init, GoodBlock
<1> QED BY <1>1 DEF Init, Inv, Answer

(* A block with fewer elements in it, but no more than fit, is good.       *)
LEMMA GoodBlockCount ==
  ASSUME NEW m, NEW cap, NEW n, NEW k \in Nat, GoodBlock(m, cap, n), k <= cap
  PROVE  GoodBlock(m, cap, k)
BY DEF GoodBlock

LEMMA RefusedInv ==
  ASSUME Inv, NEW block, NEW room, Makes(block, room), NEW op, NEW arg,
         Refused(block, op, arg)
  PROVE  Inv' /\ UNCHANGED <<data, capacity, count>>
<1>1. UNCHANGED <<data, capacity, count>>
  BY DEF Makes, Refused, SameBlock, Block
<1> QED BY <1>1 DEF Refused, Inv, GoodBlock, Answer

LEMMA AddedInv ==
  ASSUME Inv, NEW block, NEW room, Makes(block, room), NEW op, NEW arg, NEW out,
         NEW index \in Nat, NEW s \in Seq(Cell), NEW added \in Int,
         count + added \in Nat, count + added <= block.capacity,
         Added(block, op, arg, index, s, added, out)
  PROVE  Inv'
<1> DEFINE w == Written(block.data, index, s)
<1>1. GoodBlock(w, block.capacity, count)
  BY WrittenGood DEF Makes
<1>2. GoodBlock(w, block.capacity, count + added)
  BY <1>1, GoodBlockCount
<1>3. data' = w /\ capacity' = block.capacity /\ count' = count + added
  BY DEF Added
<1> HIDE DEF w
<1>4. GoodBlock(data, capacity, count)'
  BY <1>2, <1>3 DEF GoodBlock
<1> QED BY <1>4 DEF Added, Inv, Answer

LEMMA ShortSequences ==
  /\ << >> \in Seq(Cell)
  /\ \A v \in Cell : <<v>> \in Seq(Cell) /\ Len(<<v>>) = 1 /\ <<v>>[1] = v
  /\ \A s \in Sources : s \in Seq(Cell) /\ Len(s) \in Nat
<1>1. ASSUME NEW s \in Sources
      PROVE  s \in Seq(Cell) /\ Len(s) \in Nat
  <2>1. PICK n \in 0 .. MaxSource : s \in [1 .. n -> Element]
    BY DEF Sources
  <2>2. n \in Nat /\ s \in [1 .. n -> Cell]
    BY <2>1, MaxCapacityAssumption, ElementIsCell
  <2> QED BY <2>2, SeqDef, LenProperties
<1> QED BY <1>1

(* The same for an operation that adds one element.                        *)
LEMMA OneAddedInv ==
  ASSUME Inv, NEW block, Makes(block, count + 1), NEW op, NEW arg, NEW out,
         NEW index \in Nat, NEW s \in Seq(Cell),
         Added(block, op, arg, index, s, 1, out)
  PROVE  Inv'
<1>1. count + 1 \in Nat /\ count + 1 <= block.capacity
  BY DEF Inv, GoodBlock, Makes, Added
<1> QED BY <1>1, AddedInv

LEMMA EmplaceInv ==
  ASSUME Inv, Emplace
  PROVE  Inv'
<1>1. PICK block \in RoomAtEnd :
        \/ Refused(block, "emplace", count)
        \/ Added(block, "emplace", count, count, << >>, 1, count)
  BY DEF Emplace
<1>2. Makes(block, count + 1) /\ count \in Nat /\ << >> \in Seq(Cell)
  BY RoomAtEndMakes, ShortSequences DEF Inv, GoodBlock
<1>3. CASE Refused(block, "emplace", count)
  BY <1>2, <1>3, RefusedInv
<1>4. CASE Added(block, "emplace", count, count, << >>, 1, count)
  BY <1>2, <1>4, OneAddedInv
<1> QED BY <1>1, <1>3, <1>4

LEMMA PushInv ==
  ASSUME Inv, NEW v \in Element, Push(v)
  PROVE  Inv'
<1>1. PICK block \in RoomAtEnd :
        \/ Refused(block, "push", v)
        \/ Added(block, "push", v, count, <<v>>, 1, Nothing)
  BY DEF Push
<1>2. Makes(block, count + 1) /\ count \in Nat /\ <<v>> \in Seq(Cell)
  BY RoomAtEndMakes, ShortSequences, ElementIsCell DEF Inv, GoodBlock
<1>3. CASE Refused(block, "push", v)
  BY <1>2, <1>3, RefusedInv
<1>4. CASE Added(block, "push", v, count, <<v>>, 1, Nothing)
  BY <1>2, <1>4, OneAddedInv
<1> QED BY <1>1, <1>3, <1>4

LEMMA InsertEmplaceInv ==
  ASSUME Inv, NEW index \in 0 .. count, InsertEmplace(index)
  PROVE  Inv'
<1>1. PICK block \in GapAt(index) :
        \/ Refused(block, "insert_emplace", index)
        \/ Added(block, "insert_emplace", index, index, << >>, 1, index)
  BY DEF InsertEmplace
<1>2. Makes(block, count + 1) /\ index \in Nat /\ << >> \in Seq(Cell)
  BY GapAtMakes, ShortSequences DEF Inv, GoodBlock
<1>3. CASE Refused(block, "insert_emplace", index)
  BY <1>2, <1>3, RefusedInv
<1>4. CASE Added(block, "insert_emplace", index, index, << >>, 1, index)
  BY <1>2, <1>4, OneAddedInv
<1> QED BY <1>1, <1>3, <1>4

LEMMA InsertInv ==
  ASSUME Inv, NEW index \in 0 .. count, NEW v \in Element, Insert(index, v)
  PROVE  Inv'
<1>1. PICK block \in GapAt(index) :
        \/ Refused(block, "insert", <<index, v>>)
        \/ Added(block, "insert", <<index, v>>, index, <<v>>, 1, Nothing)
  BY DEF Insert
<1>2. Makes(block, count + 1) /\ index \in Nat /\ <<v>> \in Seq(Cell)
  BY GapAtMakes, ShortSequences, ElementIsCell DEF Inv, GoodBlock
<1>3. CASE Refused(block, "insert", <<index, v>>)
  BY <1>2, <1>3, RefusedInv
<1>4. CASE Added(block, "insert", <<index, v>>, index, <<v>>, 1, Nothing)
  BY <1>2, <1>4, OneAddedInv
<1> QED BY <1>1, <1>3, <1>4

LEMMA PushVectorInv ==
  ASSUME Inv, NEW s \in Sources, PushVector(s)
  PROVE  Inv'
<1>1. PICK block \in RoomFor(Len(s)) :
        \/ Refused(block, "push_vector", s)
        \/ Added(block, "push_vector", s, count, s, Len(s), Nothing)
  BY DEF PushVector
<1>2. Makes(block, count + Len(s)) /\ count \in Nat /\ s \in Seq(Cell) /\ Len(s) \in Nat
  BY RoomForMakes, ShortSequences DEF Inv, GoodBlock
<1>3. CASE Refused(block, "push_vector", s)
  BY <1>2, <1>3, RefusedInv
<1>4. CASE Added(block, "push_vector", s, count, s, Len(s), Nothing)
  <2>1. count + Len(s) \in Nat /\ count + Len(s) <= block.capacity /\ Len(s) \in Int
    BY <1>2, <1>4 DEF Makes, Added
  <2> QED BY <1>2, <1>4, <2>1, AddedInv
<1> QED BY <1>1, <1>3, <1>4

(* The elements of a good block are a sequence.                            *)
LEMMA ElementsAre ==
  ASSUME NEW m, NEW cap, GoodBlock(m, cap, count)
  PROVE  /\ Elements(m) \in Seq(Cell)
         /\ Len(Elements(m)) = count
         /\ \A i \in 1 .. count : Elements(m)[i] = m[i - 1]
<1>1. count \in Nat
  BY DEF GoodBlock
<1>2. ASSUME NEW i \in 1 .. count PROVE m[i - 1] \in Cell
  BY <1>1, GoodBlockCells
<1>3. Elements(m) \in [1 .. count -> Cell]
  BY <1>2 DEF Elements
<1> QED BY <1>1, <1>3, SeqDef, LenProperties DEF Elements

LEMMA PushSelfInv ==
  ASSUME Inv, PushSelf
  PROVE  Inv'
<1> DEFINE arg == Elements(data)
<1>1. PICK block \in RoomFor(count) :
        \/ Refused(block, "push_self", arg)
        \/ Added(block, "push_self", arg, count, Elements(block.data), count, Nothing)
  BY DEF PushSelf
<1>2. Makes(block, count + count) /\ count \in Nat /\ Elements(block.data) \in Seq(Cell)
  BY RoomForMakes, ElementsAre DEF Inv, GoodBlock, Makes
<1> HIDE DEF arg
<1>3. CASE Refused(block, "push_self", arg)
  BY <1>2, <1>3, RefusedInv
<1>4. CASE Added(block, "push_self", arg, count, Elements(block.data), count, Nothing)
  <2>1. count + count \in Nat /\ count + count <= block.capacity /\ count \in Int
    BY <1>2, <1>4 DEF Makes, Added
  <2> QED BY <1>2, <1>4, <2>1, AddedInv
<1> QED BY <1>1, <1>3, <1>4

LEMMA ReserveInv ==
  ASSUME Inv, NEW size \in Nat, Reserve(size)
  PROVE  Inv'
<1>1. PICK block \in Reserved(size) :
        \/ Refused(block, "reserve", size)
        \/ Added(block, "reserve", size, count, << >>, 0, Nothing)
  BY DEF Reserve
<1>2. Makes(block, size) /\ count \in Nat /\ << >> \in Seq(Cell)
  BY ReservedMakes, ShortSequences DEF Inv, GoodBlock
<1>3. CASE Refused(block, "reserve", size)
  BY <1>2, <1>3, RefusedInv
<1>4. CASE Added(block, "reserve", size, count, << >>, 0, Nothing)
  <2> DEFINE added == 0
  <2>1. Added(block, "reserve", size, count, << >>, added, Nothing) /\ added \in Int
    BY <1>4
  <2>2. count + added \in Nat /\ count + added <= block.capacity
    BY <1>2 DEF Makes, GoodBlock
  <2> HIDE DEF added
  <2> QED BY <1>2, <2>1, <2>2, AddedInv
<1> QED BY <1>1, <1>3, <1>4

LEMMA SetSizeInv ==
  ASSUME Inv, NEW size \in Nat, SetSize(size)
  PROVE  Inv'
<1>1. PICK block \in Reserved(size) :
        \/ Refused(block, "resize", size)
        \/ Added(block, "resize", size, count, << >>, size - count, Nothing)
  BY DEF SetSize
<1>2. Makes(block, size) /\ count \in Nat /\ << >> \in Seq(Cell)
  BY ReservedMakes, ShortSequences DEF Inv, GoodBlock
<1>3. CASE Refused(block, "resize", size)
  BY <1>2, <1>3, RefusedInv
<1>4. CASE Added(block, "resize", size, count, << >>, size - count, Nothing)
  <2>1. /\ count + (size - count) \in Nat /\ size - count \in Int
        /\ count + (size - count) <= block.capacity
    BY <1>2, <1>4 DEF Makes, Added
  <2> QED BY <1>2, <1>4, <2>1, AddedInv
<1> QED BY <1>1, <1>3, <1>4

LEMMA PopInv ==
  ASSUME Inv, Pop
  PROVE  Inv'
<1>1. count \in Nat /\ capacity \in Nat /\ count <= capacity /\ GoodBlock(data, capacity, count)
  BY DEF Inv, GoodBlock
<1>2. count' \in Nat /\ count' <= capacity
  BY <1>1 DEF Pop
<1>3. GoodBlock(data, capacity, count')
  BY <1>1, <1>2, GoodBlockCount
<1> QED BY <1>3 DEF Inv, Pop, GoodBlock, Answer

LEMMA StoreInv ==
  ASSUME Inv, NEW index \in 0 .. (count - 1), NEW v \in Element, Store(index, v)
  PROVE  Inv'
<1>1. index \in Nat /\ <<v>> \in Seq(Cell) /\ GoodBlock(data, capacity, count)
  BY ShortSequences, ElementIsCell DEF Inv, GoodBlock
<1>2. GoodBlock(Written(data, index, <<v>>), capacity, count)
  BY <1>1, WrittenGood
<1>3. GoodBlock(data', capacity, count)
  BY <1>2 DEF Store
<1> QED BY <1>3 DEF Inv, Store, GoodBlock, Answer

(* A move inside a good block leaves it good.                              *)
LEMMA MemmoveGood ==
  ASSUME NEW m, NEW cap, NEW n, GoodBlock(m, cap, n), NEW dst, NEW src, NEW k
  PROVE  GoodBlock(Memmove(m, dst, src, k), cap, n)
<1> DEFINE w == Memmove(m, dst, src, k)
<1>1. DOMAIN w = DOMAIN m /\ w \in [DOMAIN m -> Cell]
  BY MemmoveShape DEF GoodBlock
<1> HIDE DEF w
<1>2. m = Null <=> w = Null
  <2>1. m = Null <=> DOMAIN m = {}
    BY NullBlock DEF GoodBlock, Null
  <2>2. w = Null <=> DOMAIN w = {}
    BY <1>1, NullBlock DEF Null
  <2> QED BY <1>1, <2>1, <2>2
<1>3. GoodBlock(w, cap, n)
  BY <1>1, <1>2 DEF GoodBlock
<1> QED BY <1>3 DEF w

(* What an erasure leaves of the block.                                    *)
Closed(index) ==
  IF index = count - 1 THEN data ELSE Memmove(data, index, index + 1, count - index - 1)

LEMMA ClosedGood ==
  ASSUME Inv, NEW index \in 0 .. (count - 1)
  PROVE  /\ count - 1 \in Nat
         /\ GoodBlock(Closed(index), capacity, count - 1)
<1>1. GoodBlock(data, capacity, count) /\ count \in Nat /\ capacity \in Nat /\ count <= capacity
  BY DEF Inv, GoodBlock
<1>2. GoodBlock(Closed(index), capacity, count)
  BY <1>1, MemmoveGood DEF Closed
<1>3. count - 1 \in Nat /\ count - 1 <= capacity
  BY <1>1
<1> QED BY <1>2, <1>3, GoodBlockCount

LEMMA EraseIndexInv ==
  ASSUME Inv, NEW index \in 0 .. (count + 1), EraseIndex(index)
  PROVE  Inv'
<1>1. count \in Nat
  BY DEF Inv, GoodBlock
<1>2. CASE index < count
  <2>1. index \in 0 .. (count - 1)
    BY <1>1, <1>2
  <2>2. data' = Closed(index) /\ count' = count - 1 /\ capacity' = capacity
    BY <1>1, <1>2 DEF EraseIndex, Closed
  <2>3. GoodBlock(data', capacity', count')
    BY <2>1, <2>2, ClosedGood
  <2> QED BY <1>1, <1>2, <2>3 DEF Inv, EraseIndex, GoodBlock, Answer
<1>3. CASE ~ (index < count)
  BY <1>1, <1>3 DEF Inv, EraseIndex, GoodBlock
<1> QED BY <1>2, <1>3

LEMMA EraseElementInv ==
  ASSUME Inv, NEW index \in 0 .. (count - 1), EraseElement(index)
  PROVE  Inv'
<1>1. count \in Nat /\ count - 1 - index = count - index - 1
  BY DEF Inv, GoodBlock
<1>2. data' = Closed(index) /\ count' = count - 1 /\ capacity' = capacity
  BY <1>1 DEF EraseElement, Closed
<1>3. GoodBlock(data', capacity', count')
  BY <1>2, ClosedGood
<1> QED BY <1>3 DEF Inv, EraseElement, GoodBlock, Answer

LEMMA ReverseInv ==
  ASSUME Inv, Reverse
  PROVE  Inv'
<1>1. CASE count # 0
  <2>1. GoodBlock(Swapped, capacity, count)
    BY <1>1, SwappedReverses DEF Inv
  <2>2. GoodBlock(data', capacity', count')
    BY <1>1, <2>1 DEF Reverse
  <2> QED BY <1>1, <2>2 DEF Inv, Reverse, GoodBlock, Answer
<1>2. CASE count = 0
  BY <1>2 DEF Inv, Reverse, GoodBlock
<1> QED BY <1>1, <1>2

LEMMA ClearInv ==
  ASSUME Inv, Clear
  PROVE  Inv'
<1>1. GoodBlock(data, capacity, 0)
  BY GoodBlockCount DEF Inv, GoodBlock
<1>2. GoodBlock(data', capacity', count')
  BY <1>1 DEF Clear
<1> QED BY <1>2 DEF Inv, Clear, GoodBlock, Answer

(* The null pointer, with no room and no elements, is good.                *)
LEMMA NullGood == GoodBlock(Null, 0, 0)
BY NullBlock DEF GoodBlock

LEMMA CompactInv ==
  ASSUME Inv, Compact
  PROVE  Inv'
<1>1. CASE count = 0
  <2>1. GoodBlock(data', capacity', count')
    BY <1>1, NullGood DEF Compact
  <2> QED BY <2>1 DEF Inv, Compact, GoodBlock, Answer
<1>2. CASE count # 0
  <2>1. PICK block \in Reallocated(NoIndex, count) : data' = block.data /\ capacity' = block.capacity
    BY <1>2 DEF Compact
  <2>2. GoodBlock(data, capacity, count) /\ count \in Nat
    BY DEF Inv, GoodBlock
  <2>3. GoodBlock(block.data, block.capacity, count)
    BY <1>2, <2>2, ReallocatedGood DEF NoIndex
  <2>4. GoodBlock(data', capacity', count')
    BY <2>1, <2>3 DEF Compact
  <2> QED BY <2>4 DEF Inv, Compact, GoodBlock, Answer
<1> QED BY <1>1, <1>2

LEMMA ClearCompactInv ==
  ASSUME Inv, ClearCompact
  PROVE  Inv'
<1>1. GoodBlock(data', capacity', count')
  BY NullGood DEF ClearCompact
<1> QED BY <1>1 DEF Inv, ClearCompact, GoodBlock, Answer

LEMMA RenewInv ==
  ASSUME Inv, Renew
  PROVE  Inv'
<1>1. GoodBlock(data', capacity', count')
  BY NullGood DEF Renew
<1> QED BY <1>1 DEF Inv, Renew, GoodBlock, Answer

LEMMA NextInv == Inv /\ [Next]_vars => Inv'
<1> SUFFICES ASSUME Inv, [Next]_vars PROVE Inv'
  OBVIOUS
<1>1. CASE Emplace
  BY <1>1, EmplaceInv
<1>2. CASE \E v \in Element : Push(v)
  BY <1>2, PushInv
<1>3. CASE \E index \in 0 .. count : InsertEmplace(index)
  BY <1>3, InsertEmplaceInv
<1>4. CASE \E index \in 0 .. count, v \in Element : Insert(index, v)
  BY <1>4, InsertInv
<1>5. CASE \E s \in Sources : PushVector(s)
  BY <1>5, PushVectorInv
<1>6. CASE PushSelf
  BY <1>6, PushSelfInv
<1>7. CASE PushMismatch
  BY <1>7 DEF PushMismatch, Inv, GoodBlock, Answer
<1>8. CASE Pop
  BY <1>8, PopInv
<1>9. CASE \E index \in 0 .. (count - 1), v \in Element : Store(index, v)
  BY <1>9, StoreInv
<1>10. CASE \E index \in 0 .. (count + 1) : EraseIndex(index)
  BY <1>10, EraseIndexInv
<1>11. CASE \E index \in 0 .. (count - 1) : EraseElement(index)
  BY <1>11, EraseElementInv
<1>12. CASE Reverse
  BY <1>12, ReverseInv
<1>13. CASE Clear
  BY <1>13, ClearInv
<1>14. CASE Compact
  BY <1>14, CompactInv
<1>15. CASE ClearCompact
  BY <1>15, ClearCompactInv
<1>16. CASE \E size \in 0 .. MaxCapacity : Reserve(size)
  BY <1>16, MaxCapacityAssumption, ReserveInv
<1>17. CASE \E size \in 0 .. MaxCapacity : SetSize(size)
  BY <1>17, MaxCapacityAssumption, SetSizeInv
<1>18. CASE Renew
  BY <1>18, RenewInv
<1>19. CASE Ended \/ UNCHANGED vars
  BY <1>19 DEF Ended, vars, Inv, GoodBlock
<1> QED
  BY <1>1, <1>2, <1>3, <1>4, <1>5, <1>6, <1>7, <1>8, <1>9, <1>10, <1>11, <1>12, <1>13,
     <1>14, <1>15, <1>16, <1>17, <1>18, <1>19 DEF Next

LEMMA InvHolds == Spec => []Inv
BY InitInv, NextInv, PTL DEF Spec

(* The block holds cells only and the counters are naturals, whatever is   *)
(* called in whatever order.                                               *)
THEOREM TypeCorrect == Spec => []TypeOK
BY InvHolds, InvIsTheInvariants, PTL

(* The elements always fit the capacity, with the scratch element of       *)
(* vector_reverse behind it, and only the null pointer has no capacity.    *)
THEOREM ElementsHaveRoom == Spec => []RoomForElements
BY InvHolds, InvIsTheInvariants, PTL

-----------------------------------------------------------------------------
(* A refused call changes nothing.                                         *)

(* Every block that comes with a refusal is the old one.                   *)
LEMMA RefusedKeepsBlock ==
  ASSUME NEW block, block.status = "OOM",
         \/ block \in RoomAtEnd
         \/ \E index : block \in GapAt(index)
         \/ \E n : block \in RoomFor(n) \/ block \in Reserved(n)
  PROVE  block.data = data /\ block.capacity = capacity
<1>1. ASSUME NEW index, NEW n, block \in Reallocated(index, n)
      PROVE  block.data = data /\ block.capacity = capacity
  BY <1>1 DEF Reallocated, SameBlock, Block
<1>2. SameBlock("OK").status # "OOM" /\ \A m, cap : Block(m, cap, "OK").status # "OOM"
  BY DEF SameBlock, Block
<1> QED BY <1>1, <1>2 DEF RoomAtEnd, GapAt, RoomFor, Reserved

LEMMA StepRefused ==
  ASSUME [Next]_vars, ret' # ret, ret'.status = "OOM"
  PROVE  UNCHANGED <<data, capacity, count>>
<1>1. ASSUME NEW block, NEW op, NEW arg, Refused(block, op, arg),
             block.data = data /\ block.capacity = capacity
      PROVE  UNCHANGED <<data, capacity, count>>
  BY <1>1 DEF Refused
<1>2. ASSUME NEW block, NEW op, NEW arg, Refused(block, op, arg)
      PROVE  block.status = "OOM"
  BY <1>2 DEF Refused
<1>3. ASSUME NEW block, NEW op, NEW arg, NEW index, NEW s, NEW n, NEW out,
             Added(block, op, arg, index, s, n, out)
      PROVE  FALSE
  BY <1>3 DEF Added, Answer
<1>4. CASE Emplace
  BY <1>1, <1>2, <1>3, <1>4, RefusedKeepsBlock DEF Emplace
<1>5. CASE \E v \in Element : Push(v)
  BY <1>1, <1>2, <1>3, <1>5, RefusedKeepsBlock DEF Push
<1>6. CASE \E index \in 0 .. count : InsertEmplace(index)
  BY <1>1, <1>2, <1>3, <1>6, RefusedKeepsBlock DEF InsertEmplace
<1>7. CASE \E index \in 0 .. count, v \in Element : Insert(index, v)
  BY <1>1, <1>2, <1>3, <1>7, RefusedKeepsBlock DEF Insert
<1>8. CASE \E s \in Sources : PushVector(s)
  BY <1>1, <1>2, <1>3, <1>8, RefusedKeepsBlock DEF PushVector
<1>9. CASE PushSelf
  BY <1>1, <1>2, <1>3, <1>9, RefusedKeepsBlock DEF PushSelf
<1>10. CASE \E size \in 0 .. MaxCapacity : Reserve(size)
  BY <1>1, <1>2, <1>3, <1>10, RefusedKeepsBlock DEF Reserve
<1>11. CASE \E size \in 0 .. MaxCapacity : SetSize(size)
  BY <1>1, <1>2, <1>3, <1>11, RefusedKeepsBlock DEF SetSize
<1>12. CASE PushMismatch \/ Pop \/ Reverse \/ Clear \/ Compact \/ ClearCompact \/ Renew
  BY <1>12 DEF PushMismatch, Pop, Reverse, Clear, Compact, ClearCompact, Renew, Answer
<1>13. CASE \E index \in 0 .. (count - 1), v \in Element : Store(index, v)
  BY <1>13 DEF Store, Answer
<1>14. CASE \/ \E index \in 0 .. (count + 1) : EraseIndex(index)
            \/ \E index \in 0 .. (count - 1) : EraseElement(index)
  BY <1>14 DEF EraseIndex, EraseElement, Answer
<1>15. CASE Ended \/ UNCHANGED vars
  BY <1>15 DEF Ended, vars
<1> QED
  BY <1>4, <1>5, <1>6, <1>7, <1>8, <1>9, <1>10, <1>11, <1>12, <1>13, <1>14, <1>15 DEF Next

(* A call that is refused for want of memory leaves the elements, their    *)
(* number and the room for them as they were.                              *)
THEOREM RefusalsAreHarmless == Spec => RefusalChangesNothing
<1>1. [Next]_vars =>
        [ret' # ret /\ ret'.status = "OOM" => UNCHANGED <<data, capacity, count>>]_vars
  BY StepRefused
<1> QED BY <1>1, PTL DEF Spec, RefusalChangesNothing

-----------------------------------------------------------------------------
(* The list's operations, position by position.                            *)

(* w is list s with v at position i.                                       *)
InsertedAs(w, s, i, v) ==
  /\ w \in Seq(Cell)
  /\ Len(w) = Len(s) + 1
  /\ \A j \in 1 .. (Len(s) + 1) : w[j] = IF j < i THEN s[j] ELSE IF j = i THEN v ELSE s[j - 1]

LEMMA InsertAtIs ==
  ASSUME NEW s \in Seq(Cell), NEW i \in 1 .. (Len(s) + 1), NEW v \in Cell
  PROVE  InsertedAs(Abstract!InsertAt(s, i, v), s, i, v)
<1> DEFINE a == SubSeq(s, 1, i - 1)
           b == a \o <<v>>
           c == SubSeq(s, i, Len(s))
           w == b \o c
<1>1. Len(s) \in Nat /\ \A j \in 1 .. Len(s) : s[j] \in Cell
  BY LenProperties, ElementOfSeq
<1>2. <<v>> \in Seq(Cell) /\ Len(<<v>>) = 1 /\ <<v>>[1] = v
  BY ShortSequences
<1>3. a \in Seq(Cell) /\ Len(a) = i - 1 /\ \A j \in 1 .. (i - 1) : a[j] = s[j]
  BY <1>1, SubSeqProperties
<1>4. /\ c \in Seq(Cell) /\ Len(c) = Len(s) - i + 1
      /\ \A j \in 1 .. (Len(s) - i + 1) : c[j] = s[i + j - 1]
  BY <1>1, SubSeqProperties
<1> HIDE DEF a, c
<1>5. /\ b \in Seq(Cell) /\ Len(b) = i
      /\ \A j \in 1 .. i : b[j] = IF j < i THEN s[j] ELSE v
  <2> DEFINE one == <<v>>
  <2>1. one \in Seq(Cell) /\ Len(one) = 1 /\ one[1] = v
    BY <1>2
  <2>2. b = a \o one
    OBVIOUS
  <2> HIDE DEF b, one
  <2>3. /\ b \in Seq(Cell) /\ Len(b) = Len(a) + Len(one)
        /\ \A j \in 1 .. (Len(a) + Len(one)) : b[j] = IF j <= Len(a) THEN a[j] ELSE one[j - Len(a)]
    BY ONLY <1>3, <2>1, <2>2, ConcatProperties
  <2>4. i \in Nat \ {0}
    BY <1>1
  <2>5. Len(a) + Len(one) = i
    BY ONLY <1>3, <2>1, <2>4
  <2>6. ASSUME NEW j \in 1 .. i PROVE b[j] = IF j < i THEN s[j] ELSE v
    <3>1. b[j] = IF j <= i - 1 THEN a[j] ELSE one[j - (i - 1)]
      BY ONLY <1>3, <2>3, <2>5, j \in 1 .. i
    <3>2. CASE j < i
      <4>1. j \in 1 .. (i - 1) /\ j <= i - 1
        BY ONLY <2>4, <3>2, j \in 1 .. i
      <4> QED BY <1>3, <3>1, <3>2, <4>1
    <3>3. CASE ~ (j < i)
      <4>1. ~ (j <= i - 1) /\ j - (i - 1) = 1
        BY ONLY <2>4, <3>3, j \in 1 .. i
      <4> QED BY <2>1, <3>1, <3>3, <4>1
    <3> QED BY <3>2, <3>3
  <2> QED BY <2>3, <2>5, <2>6
<1> HIDE DEF b
<1>6. /\ w \in Seq(Cell) /\ Len(w) = Len(s) + 1
      /\ \A j \in 1 .. (Len(s) + 1) : w[j] = IF j <= i THEN b[j] ELSE c[j - i]
  <2>1. Len(b) + Len(c) = Len(s) + 1
    BY <1>1, <1>4, <1>5
  <2>2. /\ w \in Seq(Cell) /\ Len(w) = Len(b) + Len(c)
        /\ \A j \in 1 .. (Len(b) + Len(c)) : w[j] = IF j <= Len(b) THEN b[j] ELSE c[j - Len(b)]
    BY <1>4, <1>5, ConcatProperties
  <2> HIDE DEF w
  <2> QED BY <1>5, <2>1, <2>2
<1>7. Abstract!InsertAt(s, i, v) = w
  BY DEF Abstract!InsertAt, a, b, c
<1> HIDE DEF w
<1>8. ASSUME NEW j \in 1 .. (Len(s) + 1)
      PROVE  w[j] = IF j < i THEN s[j] ELSE IF j = i THEN v ELSE s[j - 1]
  <2>1. CASE j <= i
    BY <1>1, <1>5, <1>6, <2>1
  <2>2. CASE i < j
    <3>1. j - i \in 1 .. (Len(s) - i + 1) /\ i + (j - i) - 1 = j - 1
      BY <1>1, <2>2
    <3>2. c[j - i] = s[j - 1]
      BY ONLY <1>4, <3>1
    <3>3. ~ (j <= i) /\ ~ (j < i) /\ j # i
      BY <1>1, <2>2
    <3>4. w[j] = c[j - i]
      BY <1>6, <3>3
    <3> QED BY <3>2, <3>3, <3>4
  <2> QED BY <1>1, <2>1, <2>2
<1>9. InsertedAs(w, s, i, v)
  BY <1>6, <1>8 DEF InsertedAs
<1> QED BY <1>7, <1>9

LEMMA RemoveAtIs ==
  ASSUME NEW s \in Seq(Cell), NEW i \in 1 .. Len(s)
  PROVE  /\ Abstract!RemoveAt(s, i) \in Seq(Cell)
         /\ Len(Abstract!RemoveAt(s, i)) = Len(s) - 1
         /\ \A j \in 1 .. (Len(s) - 1) : Abstract!RemoveAt(s, i)[j] =
              IF j < i THEN s[j] ELSE s[j + 1]
<1> DEFINE a == SubSeq(s, 1, i - 1)
           c == SubSeq(s, i + 1, Len(s))
           w == a \o c
<1>1. Len(s) \in Nat /\ \A j \in 1 .. Len(s) : s[j] \in Cell
  BY LenProperties, ElementOfSeq
<1>2. a \in Seq(Cell) /\ Len(a) = i - 1 /\ \A j \in 1 .. (i - 1) : a[j] = s[j]
  BY <1>1, SubSeqProperties
<1>3. /\ c \in Seq(Cell) /\ Len(c) = Len(s) - i
      /\ \A j \in 1 .. (Len(s) - i) : c[j] = s[i + j]
  <2>1. /\ c \in Seq(Cell) /\ Len(c) = IF i + 1 <= Len(s) THEN Len(s) - (i + 1) + 1 ELSE 0
        /\ \A j \in 1 .. (Len(s) - (i + 1) + 1) : c[j] = s[i + 1 + j - 1]
    BY <1>1, SubSeqProperties
  <2> QED BY <1>1, <2>1
<1> HIDE DEF a, c
<1>4. /\ w \in Seq(Cell) /\ Len(w) = Len(s) - 1
      /\ \A j \in 1 .. (Len(s) - 1) : w[j] = IF j <= i - 1 THEN a[j] ELSE c[j - (i - 1)]
  <2>1. Len(a) + Len(c) = Len(s) - 1
    BY <1>1, <1>2, <1>3
  <2>2. /\ w \in Seq(Cell) /\ Len(w) = Len(a) + Len(c)
        /\ \A j \in 1 .. (Len(a) + Len(c)) : w[j] = IF j <= Len(a) THEN a[j] ELSE c[j - Len(a)]
    BY <1>2, <1>3, ConcatProperties
  <2> HIDE DEF w
  <2> QED BY <1>2, <2>1, <2>2
<1>5. Abstract!RemoveAt(s, i) = w
  BY DEF Abstract!RemoveAt, a, c
<1> HIDE DEF w
<1>6. ASSUME NEW j \in 1 .. (Len(s) - 1)
      PROVE  w[j] = IF j < i THEN s[j] ELSE s[j + 1]
  <2>1. CASE j < i
    BY <1>1, <1>2, <1>4, <2>1
  <2>2. CASE ~ (j < i)
    <3>1. j - (i - 1) \in 1 .. (Len(s) - i) /\ i + (j - (i - 1)) = j + 1
      BY <1>1, <2>2
    <3> QED BY <1>1, <1>3, <1>4, <2>2, <3>1
  <2> QED BY <1>1, <2>1, <2>2
<1> QED BY <1>4, <1>5, <1>6

LEMMA FrontIs ==
  ASSUME NEW s \in Seq(Cell), s # << >>
  PROVE  /\ Abstract!Front(s) \in Seq(Cell)
         /\ Len(Abstract!Front(s)) = Len(s) - 1
         /\ \A j \in 1 .. (Len(s) - 1) : Abstract!Front(s)[j] = s[j]
<1>1. Len(s) \in Nat /\ Len(s) > 0 /\ \A j \in 1 .. Len(s) : s[j] \in Cell
  BY EmptySeq, LenProperties, ElementOfSeq
<1> DEFINE n == Len(s) - 1
           w == SubSeq(s, 1, n)
<1>2. n \in Nat
  BY <1>1
<1>3. \A j \in 1 .. n : s[j] \in Cell
  BY <1>1
<1> HIDE DEF n
<1>4. /\ w \in Seq(Cell) /\ Len(w) = (IF 1 <= n THEN n - 1 + 1 ELSE 0)
      /\ \A j \in 1 .. (n - 1 + 1) : w[j] = s[1 + j - 1]
  BY <1>2, <1>3, SubSeqProperties
<1> HIDE DEF w
<1>5. w \in Seq(Cell) /\ Len(w) = n /\ \A j \in 1 .. n : w[j] = s[j]
  BY <1>2, <1>4
<1> QED BY <1>5 DEF Abstract!Front, w, n

LEMMA ReverseIs ==
  ASSUME NEW s \in Seq(Cell)
  PROVE  /\ Abstract!Reverse(s) \in Seq(Cell)
         /\ Len(Abstract!Reverse(s)) = Len(s)
         /\ \A j \in 1 .. Len(s) : Abstract!Reverse(s)[j] = s[Len(s) - j + 1]
<1>1. Len(s) \in Nat /\ \A j \in 1 .. Len(s) : s[j] \in Cell
  BY LenProperties, ElementOfSeq
<1>2. ASSUME NEW j \in 1 .. Len(s)
      PROVE  s[Len(s) - j + 1] \in Cell
  BY <1>1
<1>3. Abstract!Reverse(s) \in [1 .. Len(s) -> Cell]
  BY <1>2 DEF Abstract!Reverse
<1> QED BY <1>1, <1>3, SeqDef, LenProperties DEF Abstract!Reverse

-----------------------------------------------------------------------------
(* Every step of the vector is a step of the list.                         *)

(* The elements as a list, for any block and any number of elements.       *)
ListOf(m, n) == [i \in 1 .. n |-> m[i - 1]]

LEMMA ListOfIs ==
  ASSUME NEW m, NEW cap, NEW n, GoodBlock(m, cap, n)
  PROVE  /\ ListOf(m, n) \in Seq(Cell)
         /\ Len(ListOf(m, n)) = n
         /\ \A i \in 1 .. n : ListOf(m, n)[i] = m[i - 1]
<1>1. n \in Nat
  BY DEF GoodBlock
<1>2. ASSUME NEW i \in 1 .. n PROVE m[i - 1] \in Cell
  BY <1>1, GoodBlockCells
<1>3. ListOf(m, n) \in [1 .. n -> Cell]
  BY <1>2 DEF ListOf
<1> QED BY <1>1, <1>3, SeqDef, LenProperties DEF ListOf

LEMMA ContentsAre ==
  ASSUME Inv
  PROVE  /\ count \in Nat
         /\ Contents \in Seq(Cell)
         /\ Len(Contents) = count
         /\ \A i \in 1 .. count : Contents[i] = data[i - 1]
<1>1. GoodBlock(data, capacity, count) /\ Contents = ListOf(data, count)
  BY DEF Inv, Contents, Elements, ListOf
<1> QED BY <1>1, ListOfIs DEF GoodBlock

(* What the elements have become, element by element.                      *)
LEMMA ContentsBecome ==
  ASSUME Inv', NEW s \in Seq(Cell), Len(s) = count',
         \A i \in 1 .. count' : s[i] = data'[i - 1]
  PROVE  Contents' = s
<1>1. GoodBlock(data', capacity', count') /\ Contents' = ListOf(data', count')
  BY DEF Inv, Contents, Elements, ListOf, GoodBlock
<1>2. /\ Contents' \in Seq(Cell) /\ Len(Contents') = count'
      /\ \A i \in 1 .. count' : Contents'[i] = data'[i - 1]
  BY <1>1, ListOfIs
<1> QED BY <1>2, SeqEqual

LEMMA ContentsInserted ==
  ASSUME Inv, Inv', NEW index \in 0 .. count, NEW v \in Cell,
         count' = count + 1, Opens(data', data, count, index), data'[index] = v
  PROVE  Contents' = Abstract!InsertAt(Contents, index + 1, v)
<1> DEFINE w == Abstract!InsertAt(Contents, index + 1, v)
<1>1. /\ count \in Nat /\ Contents \in Seq(Cell) /\ Len(Contents) = count
      /\ \A i \in 1 .. count : Contents[i] = data[i - 1]
  BY ContentsAre
<1>2. index + 1 \in 1 .. (Len(Contents) + 1)
  BY <1>1
<1>3. /\ w \in Seq(Cell) /\ Len(w) = count + 1
      /\ \A j \in 1 .. (count + 1) : w[j] =
           IF j < index + 1 THEN Contents[j] ELSE IF j = index + 1 THEN v ELSE Contents[j - 1]
  <2>1. InsertedAs(w, Contents, index + 1, v)
    BY <1>1, <1>2, InsertAtIs
  <2> HIDE DEF w
  <2> QED BY <1>1, <2>1 DEF InsertedAs
<1> HIDE DEF w
<1>4. ASSUME NEW j \in 1 .. (count + 1)
      PROVE  w[j] = data'[j - 1]
  <2>1. CASE j < index + 1
    <3>1. j \in 1 .. count /\ j - 1 \in 0 .. (index - 1)
      BY <1>1, <2>1
    <3> QED BY <1>1, <1>3, <2>1, <3>1 DEF Opens
  <2>2. CASE j = index + 1
    BY <1>1, <1>3, <2>2
  <2>3. CASE j > index + 1
    <3>1. j - 1 \in 1 .. count /\ j - 2 \in index .. (count - 1) /\ j - 2 + 1 = j - 1
      BY <1>1, <2>3
    <3>2. w[j] = Contents[j - 1] /\ Contents[j - 1] = data[j - 1 - 1] /\ j - 1 - 1 = j - 2
      BY <1>1, <1>3, <2>3, <3>1
    <3>3. data'[j - 2 + 1] = data[j - 2]
      BY <3>1 DEF Opens
    <3> QED BY <3>1, <3>2, <3>3
  <2> QED BY <1>1, <2>1, <2>2, <2>3
<1> QED BY <1>3, <1>4, ContentsBecome DEF w

LEMMA RefusedSimulates ==
  ASSUME Inv, NEW block, NEW room, Makes(block, room), NEW op, NEW arg,
         Refused(block, op, arg)
  PROVE  Abstract!Refused(op, arg)
<1>1. UNCHANGED <<data, capacity, count>>
  BY RefusedInv
<1>2. Contents' = Contents
  BY <1>1 DEF Contents, Elements
<1>3. ret' = Answer(op, arg, "OOM", Nothing)
  BY DEF Refused
<1>4. RetSeen' = ret'
  BY <1>3 DEF RetSeen, Answer
<1> QED BY <1>2, <1>3, <1>4 DEF Abstract!Refused, Abstract!Answer, Answer

(* An answer other than that of a pop is seen as it is.                    *)
LEMMA RetSeenIs ==
  ASSUME NEW op, NEW arg, NEW status, NEW out, ret' = Answer(op, arg, status, out), op # "pop"
  PROVE  RetSeen' = Abstract!Answer(op, arg, status, out)
BY DEF RetSeen, Answer, Abstract!Answer

(* Room was made at index, and what was written there is at most one       *)
(* element: the list has gained one, and that is it.                       *)
LEMMA OneAddedContents ==
  ASSUME Inv, NEW block, Makes(block, count + 1), NEW op, NEW arg, NEW out,
         NEW index \in 0 .. count, NEW s \in Seq(Cell), Len(s) <= 1,
         Opens(block.data, data, count, index),
         Added(block, op, arg, index, s, 1, out)
  PROVE  /\ data'[index] \in Cell
         /\ Len(s) = 1 => data'[index] = s[1]
         /\ Contents' = Abstract!InsertAt(Contents, index + 1, data'[index])
<1> DEFINE m == block.data
<1>0. count \in Nat /\ index \in Nat /\ Len(s) \in Nat
  BY LenProperties DEF Inv, GoodBlock
<1>1. Inv' /\ count \in Nat /\ index \in Nat /\ Len(s) \in Nat
  BY <1>0, OneAddedInv
<1>2. /\ GoodBlock(m, block.capacity, count) /\ count + 1 <= block.capacity
      /\ data' = Written(m, index, s) /\ count' = count + 1
  BY DEF Makes, Added
<1>3. /\ DOMAIN m = 0 .. block.capacity /\ m \in [DOMAIN m -> Cell] /\ DOMAIN m \subseteq Nat
      /\ block.capacity \in Nat
  BY <1>1, <1>2, GoodBlockCells DEF GoodBlock
<1> HIDE DEF m
<1>4. 0 .. count \subseteq DOMAIN m
  BY <1>1, <1>2, <1>3
<1>5. /\ data' \in [DOMAIN m -> Cell]
      /\ \A a \in DOMAIN m : a < index \/ a >= index + Len(s) => data'[a] = m[a]
      /\ \A j \in 1 .. Len(s) : index + j - 1 \in DOMAIN m => data'[index + j - 1] = s[j]
  <2> DEFINE w == Written(m, index, s)
  <2>1. /\ w \in [DOMAIN m -> Cell]
        /\ \A a \in DOMAIN m : a < index => w[a] = m[a]
        /\ \A a \in DOMAIN m : a >= index + Len(s) => w[a] = m[a]
        /\ \A j \in 1 .. Len(s) : index + j - 1 \in DOMAIN m => w[index + j - 1] = s[j]
    <3>1. m \in [DOMAIN m -> Cell] /\ DOMAIN m \subseteq Nat /\ index \in Nat
      BY <1>1, <1>3
    <3>2. WrittenAs(w, m, index, s)
      BY <3>1, WrittenShape
    <3> HIDE DEF w
    <3> QED BY <3>2 DEF WrittenAs
  <2> HIDE DEF w
  <2>2. data' = w
    BY <1>2 DEF w
  <2> QED BY <2>1, <2>2
<1>6. data'[index] \in Cell
  BY <1>1, <1>4, <1>5
<1>7. Len(s) = 1 => data'[index] = s[1]
  <2>1. SUFFICES ASSUME Len(s) = 1 PROVE data'[index] = s[1]
    OBVIOUS
  <2>2. 1 \in 1 .. Len(s) /\ index + 1 - 1 = index /\ index \in DOMAIN m
    BY <1>1, <1>4, <2>1
  <2> QED BY <1>5, <2>2
<1>8. Opens(data', data, count, index)
  <2>1. ASSUME NEW i \in 0 .. (index - 1)
        PROVE  data'[i] = data[i]
    <3>1. i \in DOMAIN m /\ i < index
      BY <1>1, <1>4
    <3> QED BY <1>5, <3>1 DEF Opens, m
  <2>2. ASSUME NEW i \in index .. (count - 1)
        PROVE  data'[i + 1] = data[i]
    <3>1. i + 1 \in DOMAIN m /\ i + 1 >= index + Len(s)
      BY <1>1, <1>4
    <3>2. data'[i + 1] = m[i + 1]
      BY <1>5, <3>1
    <3> QED BY <3>2 DEF Opens, m
  <2> QED BY <2>1, <2>2 DEF Opens
<1> QED BY <1>1, <1>2, <1>6, <1>7, <1>8, ContentsInserted

LEMMA KeepsOpens ==
  ASSUME NEW w, NEW m, NEW n \in Nat, Keeps(w, m, n)
  PROVE  Opens(w, m, n, n)
BY DEF Keeps, Opens

LEMMA EmplaceSimulates ==
  ASSUME Inv, Emplace
  PROVE  Abstract!InsertEmplace("emplace", Len(Contents))
<1>0. count \in Nat /\ Len(Contents) = count /\ count \in 0 .. count
  BY ContentsAre
<1>1. PICK block \in RoomAtEnd :
        \/ Refused(block, "emplace", count)
        \/ Added(block, "emplace", count, count, << >>, 1, count)
  BY DEF Emplace
<1>2. Makes(block, count + 1) /\ Opens(block.data, data, count, count)
  BY <1>0, RoomAtEndMakes, KeepsOpens DEF Inv
<1>3. CASE Refused(block, "emplace", count)
  BY <1>0, <1>2, <1>3, RefusedSimulates DEF Abstract!InsertEmplace
<1>4. CASE Added(block, "emplace", count, count, << >>, 1, count)
  <2>1. << >> \in Seq(Cell) /\ Len(<< >>) <= 1
    BY ShortSequences
  <2>2. data'[count] \in Cell /\ Contents' = Abstract!InsertAt(Contents, count + 1, data'[count])
    BY <1>0, <1>2, <1>4, <2>1, OneAddedContents
  <2>3. RetSeen' = Abstract!Answer("emplace", count, "OK", count)
    BY <1>4, RetSeenIs DEF Added
  <2> QED BY <1>0, <2>2, <2>3 DEF Abstract!InsertEmplace, Abstract!Cell, Cell
<1> QED BY <1>1, <1>3, <1>4

(* Inserting behind the last element is appending.                         *)
LEMMA InsertAtEnd ==
  ASSUME NEW s \in Seq(Cell), NEW v \in Cell
  PROVE  Abstract!InsertAt(s, Len(s) + 1, v) = Append(s, v)
<1> DEFINE w == Abstract!InsertAt(s, Len(s) + 1, v)
           a == Append(s, v)
<1>1. Len(s) \in Nat /\ Len(s) + 1 \in 1 .. (Len(s) + 1)
  BY LenProperties
<1>2. /\ w \in Seq(Cell) /\ Len(w) = Len(s) + 1
      /\ \A j \in 1 .. (Len(s) + 1) : w[j] =
           IF j < Len(s) + 1 THEN s[j] ELSE IF j = Len(s) + 1 THEN v ELSE s[j - 1]
  <2>1. InsertedAs(w, s, Len(s) + 1, v)
    BY <1>1, InsertAtIs
  <2> HIDE DEF w
  <2> QED BY <2>1 DEF InsertedAs
<1>3. /\ a \in Seq(Cell) /\ Len(a) = Len(s) + 1
      /\ \A j \in 1 .. Len(s) : a[j] = s[j]
      /\ a[Len(s) + 1] = v
  BY AppendProperties
<1> HIDE DEF w, a
<1>4. ASSUME NEW j \in 1 .. Len(w) PROVE w[j] = a[j]
  <2>1. CASE j = Len(s) + 1
    BY <1>1, <1>2, <1>3, <2>1
  <2>2. CASE j # Len(s) + 1
    <3>1. j \in 1 .. Len(s) /\ j < Len(s) + 1
      BY <1>1, <1>2, <2>2
    <3> QED BY <1>2, <1>3, <3>1
  <2> QED BY <2>1, <2>2
<1>5. w = a
  BY <1>2, <1>3, <1>4, SeqEqual
<1> QED BY <1>5 DEF w, a

LEMMA PushSimulates ==
  ASSUME Inv, NEW v \in Element, Push(v)
  PROVE  Abstract!Push(v)
<1>0. /\ count \in Nat /\ Len(Contents) = count /\ count \in 0 .. count
      /\ Contents \in Seq(Cell)
  BY ContentsAre
<1>1. PICK block \in RoomAtEnd :
        \/ Refused(block, "push", v)
        \/ Added(block, "push", v, count, <<v>>, 1, Nothing)
  BY DEF Push
<1>2. Makes(block, count + 1) /\ Opens(block.data, data, count, count)
  BY <1>0, RoomAtEndMakes, KeepsOpens DEF Inv
<1>3. CASE Refused(block, "push", v)
  BY <1>2, <1>3, RefusedSimulates DEF Abstract!Push
<1>4. CASE Added(block, "push", v, count, <<v>>, 1, Nothing)
  <2> DEFINE s == <<v>>
  <2>1. v \in Cell /\ s \in Seq(Cell) /\ Len(s) = 1 /\ Len(s) <= 1 /\ s[1] = v
    BY ShortSequences, ElementIsCell
  <2> HIDE DEF s
  <2>2. data'[count] = v /\ Contents' = Abstract!InsertAt(Contents, count + 1, data'[count])
    <3>1. Added(block, "push", v, count, s, 1, Nothing)
      BY <1>4 DEF s
    <3>2. /\ data'[count] \in Cell
          /\ Len(s) = 1 => data'[count] = s[1]
          /\ Contents' = Abstract!InsertAt(Contents, count + 1, data'[count])
      <4>1. Makes(block, count + 1)
        BY <1>2
      <4>2. Opens(block.data, data, count, count)
        BY <1>2
      <4>3. s \in Seq(Cell) /\ Len(s) <= 1
        BY <2>1
      <4>4. count \in 0 .. count
        BY <1>0
      <4> QED BY ONLY Inv, <4>1, <4>2, <4>3, <4>4, <3>1, OneAddedContents, Zenon
    <3> QED BY <2>1, <3>2
  <2>3. Contents' = Append(Contents, v)
    BY <1>0, <2>1, <2>2, InsertAtEnd
  <2>4. RetSeen' = Abstract!Answer("push", v, "OK", Nothing)
    BY <1>4, RetSeenIs DEF Added
  <2> QED BY <2>3, <2>4 DEF Abstract!Push
<1> QED BY <1>1, <1>3, <1>4

LEMMA InsertEmplaceSimulates ==
  ASSUME Inv, NEW index \in 0 .. count, InsertEmplace(index)
  PROVE  Abstract!InsertEmplace("insert_emplace", index)
<1>1. PICK block \in GapAt(index) :
        \/ Refused(block, "insert_emplace", index)
        \/ Added(block, "insert_emplace", index, index, << >>, 1, index)
  BY DEF InsertEmplace
<1>2. /\ Makes(block, count + 1)
      /\ block.status = "OK" => Opens(block.data, data, count, index)
  BY GapAtMakes DEF Inv
<1>3. CASE Refused(block, "insert_emplace", index)
  BY <1>2, <1>3, RefusedSimulates DEF Abstract!InsertEmplace
<1>4. CASE Added(block, "insert_emplace", index, index, << >>, 1, index)
  <2>1. << >> \in Seq(Cell) /\ Len(<< >>) <= 1 /\ Opens(block.data, data, count, index)
    BY <1>2, <1>4, ShortSequences DEF Added
  <2>2. data'[index] \in Cell /\ Contents' = Abstract!InsertAt(Contents, index + 1, data'[index])
    BY <1>2, <1>4, <2>1, OneAddedContents
  <2>3. RetSeen' = Abstract!Answer("insert_emplace", index, "OK", index)
    BY <1>4, RetSeenIs DEF Added
  <2> QED BY <2>2, <2>3 DEF Abstract!InsertEmplace, Abstract!Cell, Cell
<1> QED BY <1>1, <1>3, <1>4

LEMMA InsertSimulates ==
  ASSUME Inv, NEW index \in 0 .. count, NEW v \in Element, Insert(index, v)
  PROVE  Abstract!Insert(index, v)
<1>1. PICK block \in GapAt(index) :
        \/ Refused(block, "insert", <<index, v>>)
        \/ Added(block, "insert", <<index, v>>, index, <<v>>, 1, Nothing)
  BY DEF Insert
<1>2. /\ Makes(block, count + 1)
      /\ block.status = "OK" => Opens(block.data, data, count, index)
  BY GapAtMakes DEF Inv
<1>3. CASE Refused(block, "insert", <<index, v>>)
  BY <1>2, <1>3, RefusedSimulates DEF Abstract!Insert
<1>4. CASE Added(block, "insert", <<index, v>>, index, <<v>>, 1, Nothing)
  <2>1. /\ <<v>> \in Seq(Cell) /\ Len(<<v>>) = 1 /\ <<v>>[1] = v
        /\ Opens(block.data, data, count, index)
    BY <1>2, <1>4, ShortSequences, ElementIsCell DEF Added
  <2>2. data'[index] = v /\ Contents' = Abstract!InsertAt(Contents, index + 1, data'[index])
    BY <1>2, <1>4, <2>1, OneAddedContents
  <2>3. RetSeen' = Abstract!Answer("insert", <<index, v>>, "OK", Nothing)
    BY <1>4, RetSeenIs DEF Added
  <2> QED BY <2>2, <2>3 DEF Abstract!Insert
<1> QED BY <1>1, <1>3, <1>4

(* A list s written behind the elements.                                   *)
LEMMA ListAddedContents ==
  ASSUME Inv, Inv', NEW block, NEW op, NEW arg, NEW out, NEW s \in Seq(Cell),
         Makes(block, count + Len(s)), Keeps(block.data, data, count),
         Added(block, op, arg, count, s, Len(s), out)
  PROVE  Contents' = Contents \o s
<1> DEFINE m == block.data
           w == Contents \o s
<1>1. /\ count \in Nat /\ Len(s) \in Nat /\ Contents \in Seq(Cell) /\ Len(Contents) = count
      /\ \A i \in 1 .. count : Contents[i] = data[i - 1]
  BY ContentsAre, LenProperties
<1>2. /\ GoodBlock(m, block.capacity, count) /\ count + Len(s) <= block.capacity
      /\ data' = Written(m, count, s) /\ count' = count + Len(s)
      /\ \A i \in 0 .. (count - 1) : m[i] = data[i]
  BY DEF Makes, Added, Keeps
<1>3. m \in [DOMAIN m -> Cell] /\ DOMAIN m \subseteq Nat /\ block.capacity \in Nat
  BY <1>2, GoodBlockCells DEF GoodBlock
<1> HIDE DEF m
<1>4. count + Len(s) > 0 => 0 .. (count + Len(s)) \subseteq DOMAIN m
  <2>1. block.capacity > 0 => DOMAIN m = 0 .. block.capacity
    BY <1>2, GoodBlockCells
  <2> QED BY <1>1, <1>2, <1>3, <2>1
<1>5. /\ \A a \in DOMAIN m : a < count => data'[a] = m[a]
      /\ \A j \in 1 .. Len(s) : count + j - 1 \in DOMAIN m => data'[count + j - 1] = s[j]
  <2> DEFINE x == Written(m, count, s)
  <2>1. /\ \A a \in DOMAIN m : a < count => x[a] = m[a]
        /\ \A j \in 1 .. Len(s) : count + j - 1 \in DOMAIN m => x[count + j - 1] = s[j]
    <3>1. m \in [DOMAIN m -> Cell] /\ DOMAIN m \subseteq Nat /\ count \in Nat
      BY <1>1, <1>3
    <3>2. WrittenAs(x, m, count, s)
      BY <3>1, WrittenShape
    <3> HIDE DEF x
    <3> QED BY <3>2 DEF WrittenAs
  <2> HIDE DEF x
  <2>2. data' = x
    BY <1>2 DEF x
  <2> QED BY <2>1, <2>2
<1>6. /\ w \in Seq(Cell) /\ Len(w) = count + Len(s)
      /\ \A i \in 1 .. (count + Len(s)) : w[i] = IF i <= count THEN Contents[i] ELSE s[i - count]
  BY <1>1, ConcatProperties
<1> HIDE DEF w
<1>7. ASSUME NEW i \in 1 .. (count + Len(s))
      PROVE  w[i] = data'[i - 1]
  <2>1. CASE i <= count
    <3>1. i \in 1 .. count /\ i - 1 \in 0 .. (count - 1) /\ i - 1 \in DOMAIN m /\ i - 1 < count
      BY <1>1, <1>4, <2>1
    <3> QED BY <1>1, <1>2, <1>5, <1>6, <2>1, <3>1
  <2>2. CASE ~ (i <= count)
    <3>1. /\ i - count \in 1 .. Len(s) /\ count + (i - count) - 1 = i - 1
          /\ count + (i - count) - 1 \in DOMAIN m
      BY <1>1, <1>4, <2>2
    <3>2. data'[count + (i - count) - 1] = s[i - count]
      BY <1>5, <3>1
    <3> QED BY <1>6, <2>2, <3>1, <3>2
  <2> QED BY <2>1, <2>2
<1> QED BY <1>2, <1>6, <1>7, ContentsBecome DEF w

LEMMA PushVectorSimulates ==
  ASSUME Inv, NEW s \in Sources, PushVector(s)
  PROVE  Abstract!PushList("push_vector", s)
<1>1. PICK block \in RoomFor(Len(s)) :
        \/ Refused(block, "push_vector", s)
        \/ Added(block, "push_vector", s, count, s, Len(s), Nothing)
  BY DEF PushVector
<1>2. /\ s \in Seq(Cell) /\ Len(s) \in Nat
      /\ Makes(block, count + Len(s)) /\ Keeps(block.data, data, count)
  BY RoomForMakes, ShortSequences DEF Inv
<1>3. CASE Refused(block, "push_vector", s)
  BY <1>2, <1>3, RefusedSimulates DEF Abstract!PushList
<1>4. CASE Added(block, "push_vector", s, count, s, Len(s), Nothing)
  <2>1. Contents' = Contents \o s
    BY <1>2, <1>4, PushVectorInv, ListAddedContents
  <2>2. RetSeen' = Abstract!Answer("push_vector", s, "OK", Nothing)
    BY <1>4, RetSeenIs DEF Added
  <2> QED BY <2>1, <2>2 DEF Abstract!PushList
<1> QED BY <1>1, <1>3, <1>4

(* The elements read from the block after it moved are the elements there  *)
(* were before.                                                            *)
LEMMA PushSelfSimulates ==
  ASSUME Inv, PushSelf
  PROVE  Abstract!PushList("push_self", Contents)
<1>1. PICK block \in RoomFor(count) :
        \/ Refused(block, "push_self", Elements(data))
        \/ Added(block, "push_self", Elements(data), count, Elements(block.data), count, Nothing)
  BY DEF PushSelf
<1>2. /\ count \in Nat /\ Contents \in Seq(Cell) /\ Len(Contents) = count
      /\ Contents = Elements(data)
      /\ Makes(block, count + count) /\ Keeps(block.data, data, count)
  BY ContentsAre, RoomForMakes DEF Inv, Contents
<1>3. Elements(block.data) = Contents
  <2>1. \A i \in 1 .. count : block.data[i - 1] = data[i - 1]
    <3>1. \A i \in 1 .. count : i - 1 \in 0 .. (count - 1)
      BY <1>2
    <3> QED BY <1>2, <3>1 DEF Keeps
  <2> QED BY <2>1 DEF Contents, Elements
<1>4. CASE Refused(block, "push_self", Elements(data))
  BY <1>2, <1>4, RefusedSimulates DEF Abstract!PushList
<1>5. CASE Added(block, "push_self", Elements(data), count, Elements(block.data), count, Nothing)
  <2> DEFINE s == Contents
  <2>1. /\ Added(block, "push_self", s, count, s, Len(s), Nothing) /\ s \in Seq(Cell)
        /\ Makes(block, count + Len(s))
    BY <1>2, <1>3, <1>5
  <2>2. Inv'
    BY PushSelfInv
  <2>3. Contents' = Contents \o s
    BY <1>2, <2>1, <2>2, ListAddedContents
  <2>4. RetSeen' = Abstract!Answer("push_self", s, "OK", Nothing)
    BY <2>1, RetSeenIs DEF Added
  <2> QED BY <2>3, <2>4 DEF Abstract!PushList
<1> QED BY <1>1, <1>4, <1>5

LEMMA PopSimulates ==
  ASSUME Inv, Pop
  PROVE  Abstract!Pop
<1>0. /\ count \in Nat /\ Contents \in Seq(Cell) /\ Len(Contents) = count
      /\ \A i \in 1 .. count : Contents[i] = data[i - 1]
      /\ Inv'
  BY ContentsAre, PopInv
<1>1. CASE count # 0
  <2>1. /\ count' = count - 1 /\ data' = data
        /\ ret' = Answer("pop", Nothing, "OK", count - 1)
    BY <1>1 DEF Pop
  <2>2. Contents # << >>
    BY <1>0, <1>1, EmptySeq
  <2> DEFINE w == Abstract!Front(Contents)
  <2>3. w \in Seq(Cell) /\ Len(w) = count - 1 /\ \A j \in 1 .. (count - 1) : w[j] = Contents[j]
    BY <1>0, <2>2, FrontIs
  <2> HIDE DEF w
  <2>4. \A j \in 1 .. (count - 1) : w[j] = data[j - 1]
    BY <1>0, <2>3
  <2>5. Contents' = w
    BY <1>0, <2>1, <2>3, <2>4, ContentsBecome
  <2>6. RetSeen' = Answer("pop", Nothing, "OK", data[count - 1])
    BY <2>1 DEF RetSeen, Answer
  <2>7. Abstract!Last(Contents) = data[count - 1]
    <3>1. count \in 1 .. count
      BY <1>0, <1>1
    <3> QED BY <1>0, <3>1 DEF Abstract!Last
  <2> QED BY <2>2, <2>5, <2>6, <2>7 DEF Abstract!Pop, Abstract!Answer, Answer, w
<1>2. CASE count = 0
  <2>1. /\ count' = count /\ data' = data
        /\ ret' = Answer("pop", Nothing, "NULL", Nothing)
    BY <1>2 DEF Pop
  <2>2. Contents = << >>
    BY <1>0, <1>2, EmptySeq
  <2>3. Contents' = Contents
    BY <2>1 DEF Contents, Elements
  <2>4. RetSeen' = Answer("pop", Nothing, "NULL", Nothing)
    BY <2>1 DEF RetSeen, Answer
  <2> QED BY <2>2, <2>3, <2>4 DEF Abstract!Pop, Abstract!Answer, Answer
<1> QED BY <1>1, <1>2

LEMMA StoreSimulates ==
  ASSUME Inv, NEW index \in 0 .. (count - 1), NEW v \in Element, Store(index, v)
  PROVE  Abstract!Store(index, v)
<1> DEFINE w == [Contents EXCEPT ![index + 1] = v]
           s == <<v>>
           x == Written(data, index, s)
<1>0. /\ count \in Nat /\ Contents \in Seq(Cell) /\ Len(Contents) = count
      /\ \A i \in 1 .. count : Contents[i] = data[i - 1]
      /\ Inv' /\ v \in Cell
      /\ s \in Seq(Cell) /\ Len(s) = 1 /\ s[1] = v
  BY ContentsAre, StoreInv, ElementIsCell, ShortSequences
<1>1. data' = x /\ count' = count /\ ret' = Answer("store", <<index, v>>, "OK", Nothing)
  BY DEF Store
<1> HIDE DEF s
<1>2. /\ \A a \in DOMAIN data : a < index => x[a] = data[a]
      /\ \A a \in DOMAIN data : a >= index + Len(s) => x[a] = data[a]
      /\ \A j \in 1 .. Len(s) : index + j - 1 \in DOMAIN data => x[index + j - 1] = s[j]
  <2>1. data \in [DOMAIN data -> Cell] /\ DOMAIN data \subseteq Nat /\ index \in Nat
    BY GoodBlockCells DEF Inv, GoodBlock
  <2>2. s \in Seq(Cell)
    BY <1>0
  <2>3. WrittenAs(x, data, index, s)
    BY <2>1, <2>2, WrittenShape
  <2> HIDE DEF x
  <2> QED BY <2>3 DEF WrittenAs
<1> HIDE DEF x
<1>3. 0 .. (count - 1) \subseteq DOMAIN data
  BY GoodBlockCells DEF Inv
<1>4. /\ w \in Seq(Cell) /\ Len(w) = count
      /\ \A j \in 1 .. count : w[j] = IF j = index + 1 THEN v ELSE Contents[j]
  <2>1. index + 1 \in 1 .. Len(Contents)
    BY <1>0
  <2> QED BY <1>0, <2>1, ExceptSeq
<1> HIDE DEF w
<1>5. ASSUME NEW j \in 1 .. count
      PROVE  w[j] = data'[j - 1]
  <2>1. j - 1 \in DOMAIN data
    BY <1>0, <1>3
  <2>2. CASE j = index + 1
    <3>1. 1 \in 1 .. Len(s) /\ index + 1 - 1 = index /\ index \in DOMAIN data /\ j - 1 = index
      BY <1>0, <2>1, <2>2
    <3>2. x[index] = v
      BY <1>0, <1>2, <3>1
    <3> QED BY <1>0, <1>1, <1>4, <2>2, <3>1, <3>2
  <2>3. CASE j # index + 1
    <3>1. j - 1 < index \/ j - 1 >= index + Len(s)
      BY <1>0, <2>3
    <3>2. x[j - 1] = data[j - 1]
      BY <1>2, <2>1, <3>1
    <3> QED BY <1>0, <1>1, <1>4, <2>3, <3>2
  <2> QED BY <2>2, <2>3
<1>6. Contents' = w
  BY <1>0, <1>1, <1>4, <1>5, ContentsBecome
<1>7. RetSeen' = Abstract!Answer("store", <<index, v>>, "OK", Nothing)
  BY <1>1, RetSeenIs
<1> QED BY <1>6, <1>7 DEF Abstract!Store, w

(* Closing the gap at index takes that element out of the list.            *)
LEMMA ClosedContents ==
  ASSUME Inv, Inv', NEW index \in 0 .. (count - 1), data' = Closed(index), count' = count - 1
  PROVE  Contents' = Abstract!RemoveAt(Contents, index + 1)
<1> DEFINE w == Abstract!RemoveAt(Contents, index + 1)
<1>1. /\ count \in Nat /\ Contents \in Seq(Cell) /\ Len(Contents) = count
      /\ \A i \in 1 .. count : Contents[i] = data[i - 1]
      /\ 0 .. (count - 1) \subseteq DOMAIN data
  BY ContentsAre, GoodBlockCells DEF Inv
<1>2. /\ w \in Seq(Cell) /\ Len(w) = count - 1
      /\ \A j \in 1 .. (count - 1) : w[j] = IF j < index + 1 THEN Contents[j] ELSE Contents[j + 1]
  <2>1. index + 1 \in 1 .. Len(Contents)
    BY <1>1
  <2> QED BY <1>1, <2>1, RemoveAtIs
<1> HIDE DEF w
<1>3. ASSUME NEW a \in 0 .. (count - 2)
      PROVE  data'[a] = IF a < index THEN data[a] ELSE data[a + 1]
  <2>1. a \in DOMAIN data /\ a + 1 \in DOMAIN data
    BY <1>1
  <2>2. CASE index = count - 1
    BY <1>1, <2>2 DEF Closed
  <2>3. CASE index # count - 1 /\ a < index
    BY <1>1, <2>1, <2>3 DEF Closed, Memmove
  <2>4. CASE index # count - 1 /\ ~ (a < index)
    <3>1. index <= a /\ a < index + (count - index - 1) /\ index + 1 + (a - index) = a + 1
      BY <1>1, <2>4
    <3>2. data'[a] = Fetch(data, a + 1)
      BY <2>1, <2>4, <3>1 DEF Closed, Memmove
    <3> QED BY <2>1, <2>4, <3>2 DEF Fetch
  <2> QED BY <2>2, <2>3, <2>4
<1>4. ASSUME NEW j \in 1 .. (count - 1)
      PROVE  w[j] = data'[j - 1]
  <2>1. j - 1 \in 0 .. (count - 2) /\ j \in 1 .. count /\ j + 1 \in 1 .. count
    BY <1>1
  <2>2. CASE j < index + 1
    BY <1>1, <1>2, <1>3, <2>1, <2>2
  <2>3. CASE ~ (j < index + 1)
    <3>1. j + 1 - 1 = j /\ j - 1 + 1 = j /\ ~ (j - 1 < index)
      BY <1>1, <2>3
    <3>2. w[j] = data[j]
      BY <1>1, <1>2, <2>1, <2>3, <3>1
    <3>3. data'[j - 1] = data[j]
      BY <1>3, <2>1, <3>1
    <3> QED BY <3>2, <3>3
  <2> QED BY <2>2, <2>3
<1> QED BY <1>1, <1>2, <1>4, ContentsBecome DEF w

LEMMA EraseIndexSimulates ==
  ASSUME Inv, NEW index \in 0 .. (count + 1), EraseIndex(index)
  PROVE  \/ index \in 0 .. (Len(Contents) - 1) /\ Abstract!EraseAt("erase_index", index)
         \/ UNCHANGED <<Contents, RetSeen>>
<1>1. count \in Nat /\ Len(Contents) = count /\ Inv'
  BY ContentsAre, EraseIndexInv
<1>2. CASE index < count
  <2>1. index \in 0 .. (count - 1)
    BY <1>1, <1>2
  <2>2. data' = Closed(index) /\ count' = count - 1
    BY <1>1, <1>2 DEF EraseIndex, Closed
  <2>3. Contents' = Abstract!RemoveAt(Contents, index + 1)
    BY <1>1, <2>1, <2>2, ClosedContents
  <2>4. ret' = Answer("erase_index", index, "OK", Nothing)
    BY <1>1, <1>2 DEF EraseIndex
  <2>5. RetSeen' = Abstract!Answer("erase_index", index, "OK", Nothing)
    BY <2>4, RetSeenIs
  <2> QED BY <1>1, <2>1, <2>3, <2>5 DEF Abstract!EraseAt
<1>3. CASE ~ (index < count)
  <2>1. UNCHANGED <<data, count, ret>>
    BY <1>1, <1>3 DEF EraseIndex
  <2> QED BY <2>1 DEF Contents, Elements, RetSeen
<1> QED BY <1>2, <1>3

LEMMA EraseElementSimulates ==
  ASSUME Inv, NEW index \in 0 .. (count - 1), EraseElement(index)
  PROVE  Abstract!EraseAt("erase_element", index)
<1>1. count \in Nat /\ count - 1 - index = count - index - 1 /\ Inv'
  BY ContentsAre, EraseElementInv
<1>2. data' = Closed(index) /\ count' = count - 1
  BY <1>1 DEF EraseElement, Closed
<1>3. Contents' = Abstract!RemoveAt(Contents, index + 1)
  BY <1>1, <1>2, ClosedContents
<1>4. ret' = Answer("erase_element", index, "OK", Nothing)
  BY DEF EraseElement
<1>5. RetSeen' = Abstract!Answer("erase_element", index, "OK", Nothing)
  BY <1>4, RetSeenIs
<1> QED BY <1>3, <1>5 DEF Abstract!EraseAt

LEMMA ReverseSimulates ==
  ASSUME Inv, Reverse
  PROVE  Abstract!Turn \/ UNCHANGED <<Contents, RetSeen>>
<1>1. CASE count # 0
  <2> DEFINE w == Abstract!Reverse(Contents)
  <2>1. /\ count \in Nat /\ Contents \in Seq(Cell) /\ Len(Contents) = count
        /\ \A i \in 1 .. count : Contents[i] = data[i - 1]
        /\ Inv'
    BY ContentsAre, ReverseInv
  <2>2. /\ w \in Seq(Cell) /\ Len(w) = count
        /\ \A j \in 1 .. count : w[j] = Contents[count - j + 1]
    BY <2>1, ReverseIs
  <2> HIDE DEF w
  <2>3. /\ data' = Swapped /\ count' = count
        /\ ret' = Answer("reverse", Nothing, "OK", Nothing)
    BY <1>1 DEF Reverse
  <2>4. \A a \in 0 .. (count - 1) : data'[a] = data[count - 1 - a]
    BY <1>1, <2>3, SwappedReverses DEF Inv
  <2>5. ASSUME NEW j \in 1 .. count
        PROVE  w[j] = data'[j - 1]
    <3>1. /\ count - j + 1 \in 1 .. count /\ j - 1 \in 0 .. (count - 1)
          /\ count - j + 1 - 1 = count - j /\ count - 1 - (j - 1) = count - j
      BY <2>1
    <3>2. w[j] = data[count - j]
      BY <2>1, <2>2, <3>1
    <3>3. data'[j - 1] = data[count - j]
      BY <2>4, <3>1
    <3> QED BY <3>2, <3>3
  <2>6. Contents' = w
    BY <2>1, <2>2, <2>3, <2>5, ContentsBecome
  <2>7. RetSeen' = Abstract!Answer("reverse", Nothing, "OK", Nothing)
    BY <2>3, RetSeenIs
  <2> QED BY <2>6, <2>7 DEF Abstract!Turn, w
<1>2. CASE count = 0
  BY <1>2 DEF Reverse, Contents, Elements, RetSeen
<1> QED BY <1>1, <1>2

(* Without elements the list is empty.                                     *)
LEMMA EmptyContents ==
  ASSUME Inv', count' = 0
  PROVE  Contents' = << >>
<1>1. << >> \in Seq(Cell) /\ Len(<< >>) = 0 /\ \A i \in 1 .. 0 : <<>>[i] = data'[i - 1]
  BY EmptySeq
<1> QED BY <1>1, ContentsBecome

LEMMA ClearSimulates ==
  ASSUME Inv, Clear
  PROVE  Abstract!Empty("clear")
<1>1. Contents' = << >>
  BY ClearInv, EmptyContents DEF Clear
<1>2. RetSeen' = Abstract!Answer("clear", Nothing, "OK", Nothing)
  BY RetSeenIs DEF Clear
<1> QED BY <1>1, <1>2 DEF Abstract!Empty

LEMMA ClearCompactSimulates ==
  ASSUME Inv, ClearCompact
  PROVE  Abstract!Empty("clear_compact")
<1>1. Contents' = << >>
  BY ClearCompactInv, EmptyContents DEF ClearCompact
<1>2. RetSeen' = Abstract!Answer("clear_compact", Nothing, "OK", Nothing)
  BY RetSeenIs DEF ClearCompact
<1> QED BY <1>1, <1>2 DEF Abstract!Empty

LEMMA RenewSimulates ==
  ASSUME Inv, Renew
  PROVE  Abstract!Empty("init")
<1>1. Contents' = << >>
  BY RenewInv, EmptyContents DEF Renew
<1>2. RetSeen' = Abstract!Answer("init", Nothing, "OK", Nothing)
  BY RetSeenIs DEF Renew
<1> QED BY <1>1, <1>2 DEF Abstract!Empty

(* Cells that are kept are elements that are kept.                         *)
LEMMA KeptContents ==
  ASSUME Inv, Keeps(data', data, count), count' = count
  PROVE  Contents' = Contents
<1>1. count \in Nat
  BY ContentsAre
<1>2. \A i \in 1 .. count : data'[i - 1] = data[i - 1]
  <2>1. \A i \in 1 .. count : i - 1 \in 0 .. (count - 1)
    BY <1>1
  <2> QED BY <2>1 DEF Keeps
<1> QED BY <1>2 DEF Contents, Elements

LEMMA CompactSimulates ==
  ASSUME Inv, Compact
  PROVE  Abstract!Compact
<1>0. count \in Nat /\ GoodBlock(data, capacity, count)
  BY DEF Inv, GoodBlock
<1>1. Keeps(data', data, count) /\ count' = count
  <2>1. CASE count = 0
    BY <2>1 DEF Compact, Keeps
  <2>2. CASE count # 0
    <3>1. PICK block \in Reallocated(NoIndex, count) : data' = block.data
      BY <2>2 DEF Compact
    <3>2. Keeps(block.data, data, count)
      BY <1>0, ReallocatedKeeps
    <3> QED BY <3>1, <3>2 DEF Compact
  <2> QED BY <2>1, <2>2
<1>2. Contents' = Contents
  BY <1>1, KeptContents
<1>3. RetSeen' = Abstract!Answer("compact", Nothing, "OK", Nothing)
  BY RetSeenIs DEF Compact
<1> QED BY <1>2, <1>3 DEF Abstract!Compact

LEMMA ReserveSimulates ==
  ASSUME Inv, NEW size \in Nat, Reserve(size)
  PROVE  Abstract!Reserve(size)
<1>1. PICK block \in Reserved(size) :
        \/ Refused(block, "reserve", size)
        \/ Added(block, "reserve", size, count, << >>, 0, Nothing)
  BY DEF Reserve
<1>2. count \in Nat /\ Makes(block, size) /\ Keeps(block.data, data, count)
  BY ContentsAre, ReservedMakes DEF Inv
<1>3. CASE Refused(block, "reserve", size)
  <2>1. Abstract!Refused("reserve", size)
    BY <1>2, <1>3, RefusedSimulates
  <2> QED BY <2>1 DEF Abstract!Refused, Abstract!Reserve
<1>4. CASE Added(block, "reserve", size, count, << >>, 0, Nothing)
  <2>1. Written(block.data, count, << >>) = block.data
    <3>1. block.data \in [DOMAIN block.data -> Cell] /\ DOMAIN block.data \subseteq Nat
      BY <1>2, GoodBlockCells DEF Makes, GoodBlock
    <3> QED BY <1>2, <3>1, WrittenNothing
  <2>2. Contents' = Contents
    BY <1>2, <1>4, <2>1, KeptContents DEF Added
  <2>3. RetSeen' = Abstract!Answer("reserve", size, "OK", Nothing)
    BY <1>4, RetSeenIs DEF Added
  <2> QED BY <2>2, <2>3 DEF Abstract!Reserve
<1> QED BY <1>1, <1>3, <1>4

LEMMA SetSizeSimulates ==
  ASSUME Inv, NEW size \in Nat, SetSize(size)
  PROVE  Abstract!Resize(size)
<1>1. PICK block \in Reserved(size) :
        \/ Refused(block, "resize", size)
        \/ Added(block, "resize", size, count, << >>, size - count, Nothing)
  BY DEF SetSize
<1>2. count \in Nat /\ Makes(block, size) /\ Keeps(block.data, data, count)
  BY ContentsAre, ReservedMakes DEF Inv
<1>3. CASE Refused(block, "resize", size)
  BY <1>2, <1>3, RefusedSimulates DEF Abstract!Resize
<1>4. CASE Added(block, "resize", size, count, << >>, size - count, Nothing)
  <2>1. Written(block.data, count, << >>) = block.data
    <3>1. block.data \in [DOMAIN block.data -> Cell] /\ DOMAIN block.data \subseteq Nat
      BY <1>2, GoodBlockCells DEF Makes, GoodBlock
    <3> QED BY <1>2, <3>1, WrittenNothing
  <2>2. /\ data' = block.data /\ count' = size /\ Inv'
        /\ ret' = Answer("resize", size, "OK", Nothing)
    BY <1>2, <1>4, <2>1, SetSizeInv DEF Added
  <2>3. /\ Contents' \in Seq(Cell) /\ Len(Contents') = size
        /\ \A i \in 1 .. size : Contents'[i] = data'[i - 1]
    <3>1. GoodBlock(data', capacity', count') /\ Contents' = ListOf(data', count')
      BY <2>2 DEF Inv, Contents, Elements, ListOf, GoodBlock
    <3> QED BY <2>2, <3>1, ListOfIs
  <2>4. Contents' \in [1 .. size -> Cell]
    BY <2>3, LenProperties
  <2>5. ASSUME NEW i \in 1 .. size, i <= Len(Contents)
        PROVE  Contents'[i] = Contents[i]
    <3>1. i \in 1 .. count /\ i - 1 \in 0 .. (count - 1) /\ Contents[i] = data[i - 1]
      BY <1>2, <2>5, ContentsAre
    <3> QED BY <1>2, <2>2, <2>3, <3>1 DEF Keeps
  <2>6. RetSeen' = Abstract!Answer("resize", size, "OK", Nothing)
    BY <2>2, RetSeenIs
  <2> QED BY <2>4, <2>5, <2>6 DEF Abstract!Resize, Abstract!Cell, Cell
<1> QED BY <1>1, <1>3, <1>4

LEMMA PushMismatchSimulates ==
  ASSUME PushMismatch
  PROVE  Abstract!PushMismatch
BY RetSeenIs DEF PushMismatch, Contents, Elements, Abstract!PushMismatch

LEMMA InitSimulates == Init => Abstract!Init
<1> SUFFICES ASSUME Init PROVE Abstract!Init
  OBVIOUS
<1>1. Inv
  BY InitInv
<1>2. Contents = << >>
  BY <1>1, ContentsAre, EmptySeq DEF Init
<1> QED BY <1>2 DEF Init, Abstract!Init, RetSeen, Answer, Abstract!Answer

LEMMA NextSimulates == Inv /\ [Next]_vars => [Abstract!Next]_(Abstract!vars)
<1> SUFFICES ASSUME Inv, [Next]_vars
             PROVE  Abstract!Next \/ UNCHANGED <<Contents, RetSeen>>
  BY DEF Abstract!vars
<1>0. count \in Nat /\ Len(Contents) = count
  BY ContentsAre
<1>1. CASE Emplace
  BY <1>1, EmplaceSimulates DEF Abstract!Next
<1>2. CASE \E v \in Element : Push(v)
  BY <1>2, PushSimulates DEF Abstract!Next
<1>3. CASE \E index \in 0 .. count : InsertEmplace(index)
  BY <1>0, <1>3, InsertEmplaceSimulates DEF Abstract!Next
<1>4. CASE \E index \in 0 .. count, v \in Element : Insert(index, v)
  BY <1>0, <1>4, InsertSimulates DEF Abstract!Next
<1>5. CASE \E s \in Sources : PushVector(s)
  BY <1>5, PushVectorSimulates DEF Abstract!Next
<1>6. CASE PushSelf
  BY <1>6, PushSelfSimulates DEF Abstract!Next
<1>7. CASE PushMismatch
  BY <1>7, PushMismatchSimulates DEF Abstract!Next
<1>8. CASE Pop
  BY <1>8, PopSimulates DEF Abstract!Next
<1>9. CASE \E index \in 0 .. (count - 1), v \in Element : Store(index, v)
  BY <1>0, <1>9, StoreSimulates DEF Abstract!Next
<1>10. CASE \E index \in 0 .. (count + 1) : EraseIndex(index)
  BY <1>10, EraseIndexSimulates DEF Abstract!Next
<1>11. CASE \E index \in 0 .. (count - 1) : EraseElement(index)
  BY <1>0, <1>11, EraseElementSimulates DEF Abstract!Next
<1>12. CASE Reverse
  BY <1>12, ReverseSimulates DEF Abstract!Next
<1>13. CASE Clear
  BY <1>13, ClearSimulates DEF Abstract!Next
<1>14. CASE Compact
  BY <1>14, CompactSimulates DEF Abstract!Next
<1>15. CASE ClearCompact
  BY <1>15, ClearCompactSimulates DEF Abstract!Next
<1>16. CASE \E size \in 0 .. MaxCapacity : Reserve(size)
  BY <1>16, MaxCapacityAssumption, ReserveSimulates DEF Abstract!Next
<1>17. CASE \E size \in 0 .. MaxCapacity : SetSize(size)
  BY <1>17, MaxCapacityAssumption, SetSizeSimulates DEF Abstract!Next
<1>18. CASE Renew
  BY <1>18, RenewSimulates DEF Abstract!Next
<1>19. CASE Ended \/ UNCHANGED vars
  BY <1>19 DEF Ended, vars, Contents, Elements, RetSeen
<1> QED
  BY <1>1, <1>2, <1>3, <1>4, <1>5, <1>6, <1>7, <1>8, <1>9, <1>10, <1>11, <1>12, <1>13,
     <1>14, <1>15, <1>16, <1>17, <1>18, <1>19 DEF Next

(* The vector implements a list: whatever is called, in whatever order and *)
(* with whatever allocation failing, its elements are those of the list    *)
(* the same calls were made on, and so are its answers.                    *)
THEOREM VectorIsAList == Spec => ImplementsList
BY InvHolds, InitSimulates, NextSimulates, PTL DEF Spec, ImplementsList, Abstract!Spec
=============================================================================
