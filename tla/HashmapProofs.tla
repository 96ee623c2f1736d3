---------------------------- MODULE HashmapProofs ----------------------------
(***************************************************************************)
(* What holds of the hashmap for any keys, values, hash function, table    *)
(* sizes and growth factor: the probing walks find every entry, through    *)
(* tombstones and rehashes, and slots_used counts the entries.             *)
(*                                                                         *)
(* The inductive invariant HInv says that the table is good: every live    *)
(* slot carries the hash of its key, and the walk for that key ends on it. *)
(***************************************************************************)
EXTENDS Hashmap, FiniteSetTheorems, SortedKeysProofs

LiveSlots(t) == {p \in DOMAIN t : IsLive(t[p])}

(* The slots of a table, of whatever marks.                                *)
Slots == [mark : 0 .. MaxHash, key : Key \cup {Nothing}, value : Value \cup {Nothing}]

(* A live slot of t is the slot its own key is looked for, and found, in.  *)
FoundAt(t, tc, p) ==
  /\ t[p].key \in Key
  /\ t[p].mark = HashWrapper(t[p].key)
  /\ IsHit(t, tc, t[p].key)
  /\ WalkTo(t, tc, t[p].key) = p

GoodTable(t, tc) ==
  /\ tc \in Nat \ {0}
  /\ t \in [0 .. (tc - 1) -> Slots]
  /\ \A p \in LiveSlots(t) : FoundAt(t, tc, p)

HInv ==
  /\ table_count \in Nat \ {0}
  /\ table_count * ExpandFactor < SizeLimit
  /\ slots_used \in Nat
  /\ hung \in BOOLEAN
  /\ storage = Null \/ GoodTable(storage, table_count)
  /\ storage # Null => slots_used = Cardinality(LiveSlots(storage))

-----------------------------------------------------------------------------
(* Probing.                                                                *)

(* The wrapper keeps the hashes of keys clear of the marks.                *)
LEMMA HashWrapperRange ==
  ASSUME NEW k \in Key
  PROVE  HashWrapper(k) \in 2 .. (MaxHash - 1)
<1>1. Hash[k] \in 0 .. MaxHash /\ MaxHash \in Nat /\ MaxHash > 3
  BY HashAssumption, MaxHashAssumption
<1> QED BY <1>1 DEF HashWrapper, UNUSED, RIP, INVALID

(* A probe looks at a slot of the table.                                   *)
LEMMA PosRange ==
  ASSUME NEW k \in Key, NEW tc \in Nat \ {0}, NEW i \in Turns(tc)
  PROVE  Pos(k, tc, i) \in 0 .. (tc - 1)
<1>1. HashWrapper(k) \in Nat
  BY HashWrapperRange, MaxHashAssumption
<1>2. i \in Nat
  BY DEF Turns
<1>3. i * (i + 1) \in Nat
  BY <1>2
<1> DEFINE square == i * (i + 1)
<1> HIDE DEF square
<1>4. square \div 2 \in Nat
  BY <1>3 DEF square
<1>5. ASSUME NEW n \in Nat
      PROVE  n % tc \in 0 .. (tc - 1)
  OBVIOUS
<1>6. HashWrapper(k) + square \div 2 \in Nat
  BY <1>1, <1>4
<1> QED BY <1>5, <1>6 DEF Pos, square

(* The last turn is the first of those at which the walk may end.          *)
LEMMA LastTurnFirst ==
  ASSUME NEW t, NEW tc \in Nat \ {0}, NEW k, WalkEnds(t, tc, k)
  PROVE  /\ LastTurn(t, tc, k) \in Ends(t, tc, k)
         /\ \A j \in Ends(t, tc, k) : LastTurn(t, tc, k) <= j
<1> DEFINE E == Ends(t, tc, k)
<1>1. E \in SUBSET Nat
  BY DEF Ends, Turns
<1>2. E # {}
  BY DEF WalkEnds
<1>3. \E i \in E : \A j \in E : i <= j
  BY <1>1, <1>2, LeastElement
<1> HIDE DEF E
<1>4. LastTurn(t, tc, k) = CHOOSE i \in E : \A j \in E : i <= j
  BY DEF LastTurn, E
<1>5. LastTurn(t, tc, k) \in E /\ \A j \in E : LastTurn(t, tc, k) <= j
  BY <1>3, <1>4
<1> QED BY <1>5 DEF E

(* A turn at which the walk may end and which no earlier one precedes is   *)
(* the last turn.                                                          *)
LEMMA LastTurnIs ==
  ASSUME NEW t, NEW tc \in Nat \ {0}, NEW k,
         NEW i \in Ends(t, tc, k), \A j \in Ends(t, tc, k) : i <= j
  PROVE  WalkEnds(t, tc, k) /\ LastTurn(t, tc, k) = i
<1>1. WalkEnds(t, tc, k)
  BY DEF WalkEnds
<1> DEFINE last == LastTurn(t, tc, k)
<1>2. last \in Ends(t, tc, k) /\ \A j \in Ends(t, tc, k) : last <= j
  BY <1>1, LastTurnFirst
<1>3. last \in Nat /\ i \in Nat
  BY <1>2 DEF Ends, Turns
<1>4. last <= i /\ i <= last
  BY <1>2
<1> QED BY <1>1, <1>3, <1>4

(* Walks that may end at the same turns are the same walk.                 *)
LEMMA SameEndsSameWalk ==
  ASSUME NEW t, NEW u, NEW tc \in Nat \ {0}, NEW k, Ends(t, tc, k) = Ends(u, tc, k)
  PROVE  /\ WalkEnds(t, tc, k) <=> WalkEnds(u, tc, k)
         /\ LastTurn(t, tc, k) = LastTurn(u, tc, k)
         /\ WalkTo(t, tc, k) = WalkTo(u, tc, k)
BY DEF WalkEnds, LastTurn, WalkTo

(* A walk ends on a slot of the table that is unused or holds the key.     *)
LEMMA WalkToSlot ==
  ASSUME NEW t, NEW tc \in Nat \ {0}, NEW k \in Key, WalkEnds(t, tc, k)
  PROVE  /\ WalkTo(t, tc, k) \in 0 .. (tc - 1)
         /\ t[WalkTo(t, tc, k)].mark = UNUSED \/ Holds(t[WalkTo(t, tc, k)], k)
<1> DEFINE last == LastTurn(t, tc, k)
<1>1. last \in Ends(t, tc, k)
  BY LastTurnFirst
<1>2. last \in Turns(tc) /\ (t[Pos(k, tc, last)].mark = UNUSED \/ Holds(t[Pos(k, tc, last)], k))
  BY <1>1 DEF Ends
<1>3. Pos(k, tc, last) \in 0 .. (tc - 1)
  BY <1>2, PosRange
<1> QED BY <1>2, <1>3 DEF WalkTo

(* A slot that holds a key is live, and is no tombstone.                   *)
LEMMA HoldsIsLive ==
  ASSUME NEW slot, NEW k \in Key, Holds(slot, k)
  PROVE  IsLive(slot) /\ slot.mark \notin {UNUSED, RIP, INVALID} /\ slot.key = k
<1>1. slot.mark \in 2 .. (MaxHash - 1) /\ slot.key = k
  BY HashWrapperRange DEF Holds
<1> QED BY <1>1, MaxHashAssumption DEF IsLive, UNUSED, RIP, INVALID

(* A hit names the live slot of the key.                                   *)
LEMMA HitIsLive ==
  ASSUME NEW t, NEW tc, GoodTable(t, tc), NEW k \in Key, IsHit(t, tc, k)
  PROVE  /\ WalkTo(t, tc, k) \in LiveSlots(t)
         /\ t[WalkTo(t, tc, k)].key = k
         /\ WalkTo(t, tc, k) \in 0 .. (tc - 1)
<1>1. WalkEnds(t, tc, k) /\ Holds(t[WalkTo(t, tc, k)], k)
  BY DEF IsHit
<1>2. tc \in Nat \ {0} /\ DOMAIN t = 0 .. (tc - 1)
  BY DEF GoodTable
<1>3. WalkTo(t, tc, k) \in 0 .. (tc - 1)
  BY <1>1, <1>2, WalkToSlot
<1>4. IsLive(t[WalkTo(t, tc, k)]) /\ t[WalkTo(t, tc, k)].key = k
  BY <1>1, HoldsIsLive
<1> QED BY <1>2, <1>3, <1>4 DEF LiveSlots

(* Two live slots hold two keys.                                           *)
LEMMA NoTwins ==
  ASSUME NEW t, NEW tc, GoodTable(t, tc), NEW p \in LiveSlots(t), NEW q \in LiveSlots(t),
         t[p].key = t[q].key
  PROVE  p = q
BY DEF GoodTable, FoundAt

(* A key that is not met is not there.                                     *)
LEMMA MissIsAbsent ==
  ASSUME NEW t, NEW tc, GoodTable(t, tc), NEW k, ~ IsHit(t, tc, k)
  PROVE  \A p \in LiveSlots(t) : t[p].key # k
BY DEF GoodTable, FoundAt

(* Where a new key goes: a slot that is not live, on the way of its walk.  *)
LEMMA PlaceIsFree ==
  ASSUME NEW t, NEW tc, GoodTable(t, tc), NEW k \in Key,
         WalkEnds(t, tc, k), ~ IsHit(t, tc, k)
  PROVE  /\ PlaceFor(t, tc, k) \in 0 .. (tc - 1)
         /\ t[PlaceFor(t, tc, k)].mark \in {UNUSED, RIP}
         /\ \E i \in Turns(tc) : i <= LastTurn(t, tc, k) /\ Pos(k, tc, i) = PlaceFor(t, tc, k)
<1> DEFINE last == LastTurn(t, tc, k)
           stones == Tombstones(t, tc, k)
<1>0. tc \in Nat \ {0}
  BY DEF GoodTable
<1>1. last \in Turns(tc)
  BY <1>0, LastTurnFirst DEF Ends
<1>2. CASE stones = {}
  <2>1. PlaceFor(t, tc, k) = WalkTo(t, tc, k)
    BY <1>2 DEF PlaceFor
  <2>2. /\ WalkTo(t, tc, k) \in 0 .. (tc - 1)
        /\ t[WalkTo(t, tc, k)].mark = UNUSED
    BY <1>0, WalkToSlot DEF IsHit
  <2>3. WalkTo(t, tc, k) = Pos(k, tc, last) /\ last <= last
    BY <1>1 DEF WalkTo, Turns
  <2> QED BY <1>1, <2>1, <2>2, <2>3
<1>3. CASE stones # {}
  <2> DEFINE Back == {2 * tc - i : i \in stones}
  <2>1. stones \subseteq Turns(tc) /\ \A i \in stones : i < last /\ t[Pos(k, tc, i)].mark = RIP
    BY DEF Tombstones
  <2>2. Back \in SUBSET Nat /\ Back # {}
    BY <1>0, <1>3, <2>1 DEF Turns
  <2>3. PICK b \in Back : \A c \in Back : b <= c
    BY <2>2, LeastElement
  <2>4. PICK j \in stones : b = 2 * tc - j
    OBVIOUS
  <2>5. \A i \in stones : i <= j
    <3>1. SUFFICES ASSUME NEW i \in stones PROVE i <= j
      OBVIOUS
    <3>2. 2 * tc - j <= 2 * tc - i
      BY <2>3, <2>4
    <3>3. i \in Int /\ j \in Int
      BY <2>1 DEF Turns
    <3> QED BY <1>0, <3>2, <3>3
  <2> DEFINE m == CHOOSE i \in stones : \A n \in stones : n <= i
  <2>6. m \in stones
    BY <2>5
  <2>7. PlaceFor(t, tc, k) = Pos(k, tc, m)
    BY <1>3 DEF PlaceFor
  <2> HIDE DEF m, stones
  <2>8. m \in Turns(tc) /\ m < last /\ t[Pos(k, tc, m)].mark = RIP
    BY <2>1, <2>6
  <2>9. Pos(k, tc, m) \in 0 .. (tc - 1)
    BY <1>0, <2>8, PosRange
  <2>10. m <= last
    BY <1>1, <2>8 DEF Turns
  <2> QED BY <2>7, <2>8, <2>9, <2>10
<1> QED BY <1>2, <1>3

-----------------------------------------------------------------------------
(* What the operations do to a good table.                                 *)

(* An entry written over a slot is one of the table's kind.                *)
LEMMA EntryIsSlot ==
  ASSUME NEW slot \in Slots, NEW k \in Key, NEW v \in Value \cup {Nothing}
  PROVE  Entry(slot, k, v) \in Slots /\ Holds(Entry(slot, k, v), k) /\ IsLive(Entry(slot, k, v))
<1>1. HashWrapper(k) \in 0 .. MaxHash
  BY HashWrapperRange, MaxHashAssumption
<1>2. Entry(slot, k, v) \in Slots
  BY <1>1 DEF Entry, Slots
<1>3. Holds(Entry(slot, k, v), k)
  BY DEF Entry, Holds
<1> QED BY <1>2, <1>3, HoldsIsLive

(* A slot of which the table had no entry has been given a new one: every  *)
(* other slot is as it was.                                                *)
LEMMA FilledSlots ==
  ASSUME NEW t, NEW tc, GoodTable(t, tc), NEW k \in Key, NEW v \in Value \cup {Nothing},
         WalkEnds(t, tc, k), ~ IsHit(t, tc, k)
  PROVE  /\ Filled(t, tc, k, v) \in [0 .. (tc - 1) -> Slots]
         /\ PlaceFor(t, tc, k) \in 0 .. (tc - 1)
         /\ ~ IsLive(t[PlaceFor(t, tc, k)])
         /\ Filled(t, tc, k, v)[PlaceFor(t, tc, k)] = Entry(t[PlaceFor(t, tc, k)], k, v)
         /\ \A p \in 0 .. (tc - 1) : p # PlaceFor(t, tc, k) => Filled(t, tc, k, v)[p] = t[p]
<1> DEFINE q == PlaceFor(t, tc, k)
           e == Entry(t[q], k, v)
<1>1. t \in [0 .. (tc - 1) -> Slots]
  BY DEF GoodTable
<1>2. q \in 0 .. (tc - 1) /\ ~ IsLive(t[q])
  BY PlaceIsFree DEF IsLive
<1>3. e \in Slots
  BY <1>1, <1>2, EntryIsSlot
<1>4. Filled(t, tc, k, v) = [t EXCEPT ![q] = e]
  BY DEF Filled
<1> HIDE DEF q, e
<1>5. [t EXCEPT ![q] = e] \in [0 .. (tc - 1) -> Slots]
  BY <1>1, <1>3
<1>6. [t EXCEPT ![q] = e][q] = e
  BY <1>1, <1>2
<1>7. \A p \in 0 .. (tc - 1) : p # q => [t EXCEPT ![q] = e][p] = t[p]
  BY <1>1
<1> QED BY <1>2, <1>4, <1>5, <1>6, <1>7 DEF q, e

(* The live slots are those there were and the new one.                    *)
LEMMA FilledLive ==
  ASSUME NEW t, NEW tc, GoodTable(t, tc), NEW k \in Key, NEW v \in Value \cup {Nothing},
         WalkEnds(t, tc, k), ~ IsHit(t, tc, k)
  PROVE  /\ LiveSlots(Filled(t, tc, k, v)) = LiveSlots(t) \cup {PlaceFor(t, tc, k)}
         /\ PlaceFor(t, tc, k) \notin LiveSlots(t)
<1> DEFINE q == PlaceFor(t, tc, k)
           u == Filled(t, tc, k, v)
<1>1. /\ DOMAIN t = 0 .. (tc - 1)
      /\ \A p \in 0 .. (tc - 1) : t[p] \in Slots
  BY DEF GoodTable
<1>2. /\ DOMAIN u = 0 .. (tc - 1)
      /\ q \in 0 .. (tc - 1)
      /\ ~ IsLive(t[q])
      /\ u[q] = Entry(t[q], k, v)
      /\ \A p \in 0 .. (tc - 1) : p # q => u[p] = t[p]
  BY FilledSlots
<1>3. IsLive(u[q])
  BY <1>1, <1>2, EntryIsSlot
<1> HIDE DEF q, u
<1>4. LiveSlots(u) = LiveSlots(t) \cup {q}
  BY <1>1, <1>2, <1>3 DEF LiveSlots
<1>5. q \notin LiveSlots(t)
  BY <1>2 DEF LiveSlots
<1> QED BY <1>4, <1>5 DEF q, u

(* An insertion keeps the table good: no walk for an older key gets        *)
(* shorter or loses its slot, and the walk for the new one ends on the     *)
(* slot it was put into, even when that was a tombstone half way.          *)
LEMMA FilledGood ==
  ASSUME NEW t, NEW tc, GoodTable(t, tc), NEW k \in Key, NEW v \in Value \cup {Nothing},
         WalkEnds(t, tc, k), ~ IsHit(t, tc, k)
  PROVE  GoodTable(Filled(t, tc, k, v), tc)
<1> DEFINE q == PlaceFor(t, tc, k)
           u == Filled(t, tc, k, v)
<1>0. tc \in Nat \ {0} /\ \A p \in LiveSlots(t) : FoundAt(t, tc, p)
  BY DEF GoodTable
<1>1. /\ u \in [0 .. (tc - 1) -> Slots]
      /\ q \in 0 .. (tc - 1)
      /\ u[q] = Entry(t[q], k, v)
      /\ \A p \in 0 .. (tc - 1) : p # q => u[p] = t[p]
  BY FilledSlots
<1>2. LiveSlots(u) = LiveSlots(t) \cup {q} /\ q \notin LiveSlots(t)
  BY FilledLive
<1>3. t[q] \in Slots
  BY <1>1 DEF GoodTable
<1>4. Holds(u[q], k) /\ IsLive(u[q])
  BY <1>1, <1>3, EntryIsSlot
<1>5. \A p \in LiveSlots(t) : t[p].key # k
  BY MissIsAbsent
<1>6. \E i \in Turns(tc) : i <= LastTurn(t, tc, k) /\ Pos(k, tc, i) = q
  BY PlaceIsFree
<1>7. LastTurn(t, tc, k) \in Ends(t, tc, k) /\ \A j \in Ends(t, tc, k) : LastTurn(t, tc, k) <= j
  BY <1>0, LastTurnFirst
<1> HIDE DEF q, u
<1>8. FoundAt(u, tc, q)
  <2> DEFINE last == LastTurn(t, tc, k)
  <2>1. PICK i \in Turns(tc) : i <= last /\ Pos(k, tc, i) = q
    BY <1>6
  <2>2. i \in Ends(u, tc, k)
    BY <1>4, <2>1 DEF Ends
  <2>3. WalkEnds(u, tc, k)
    BY <2>2 DEF WalkEnds
  <2> DEFINE first == LastTurn(u, tc, k)
  <2>4. first \in Ends(u, tc, k) /\ first <= i
    BY <1>0, <2>2, <2>3, LastTurnFirst
  <2>5. first \in Turns(tc) /\ (u[Pos(k, tc, first)].mark = UNUSED \/ Holds(u[Pos(k, tc, first)], k))
    BY <2>4 DEF Ends
  <2>6. Pos(k, tc, first) \in 0 .. (tc - 1)
    BY <1>0, <2>5, PosRange
  <2>7. last \in Turns(tc)
    BY <1>7 DEF Ends
  <2> HIDE DEF first, last
  <2>8. Pos(k, tc, first) = q
    <3>1. SUFFICES ASSUME Pos(k, tc, first) # q PROVE FALSE
      OBVIOUS
    <3>2. first \in Ends(t, tc, k)
      BY <1>1, <2>5, <2>6, <3>1 DEF Ends
    <3>3. last <= first
      BY <1>7, <3>2 DEF last
    <3>4. first = i
      BY <1>0, <2>1, <2>4, <2>5, <2>7, <3>3 DEF Turns
    <3> QED BY <2>1, <3>1, <3>4
  <2>9. WalkTo(u, tc, k) = q
    BY <2>8 DEF WalkTo, first
  <2>10. u[q].key = k /\ u[q].mark = HashWrapper(k)
    BY <1>4 DEF Holds
  <2> QED BY <1>4, <2>3, <2>9, <2>10 DEF FoundAt, IsHit
<1>9. ASSUME NEW p \in LiveSlots(t)
      PROVE  FoundAt(u, tc, p)
  <2> DEFINE x == t[p].key
             last == LastTurn(t, tc, x)
  <2>1. x \in Key /\ t[p].mark = HashWrapper(x) /\ IsHit(t, tc, x) /\ WalkTo(t, tc, x) = p
    BY <1>0 DEF FoundAt
  <2>2. x # k /\ p # q
    BY <1>2, <1>5
  <2>3. p \in 0 .. (tc - 1)
    BY <2>1, <1>0, WalkToSlot DEF IsHit
  <2>4. u[p] = t[p]
    BY <1>1, <2>2, <2>3
  <2>5. last \in Ends(t, tc, x) /\ (\A j \in Ends(t, tc, x) : last <= j) /\ Pos(x, tc, last) = p
    BY <1>0, <2>1, LastTurnFirst DEF IsHit, WalkTo
  <2>6. Holds(t[p], x)
    BY <2>1 DEF IsHit
  <2> HIDE DEF x, last
  <2>7. last \in Ends(u, tc, x)
    BY <2>4, <2>5, <2>6 DEF Ends
  <2>8. ASSUME NEW j \in Ends(u, tc, x)
        PROVE  last <= j
    <3>1. j \in Turns(tc) /\ (u[Pos(x, tc, j)].mark = UNUSED \/ Holds(u[Pos(x, tc, j)], x))
      BY <2>8 DEF Ends
    <3>2. Pos(x, tc, j) \in 0 .. (tc - 1)
      BY <1>0, <2>1, <3>1, PosRange DEF x
    <3>3. Pos(x, tc, j) # q
      <4>1. u[q].mark \notin {UNUSED, RIP} /\ u[q].key = k
        BY <1>4 DEF Holds, IsLive
      <4> QED BY <2>2, <3>1, <4>1 DEF Holds, x
    <3>4. j \in Ends(t, tc, x)
      BY <1>1, <3>1, <3>2, <3>3 DEF Ends
    <3> QED BY <2>5, <3>4
  <2>9. WalkEnds(u, tc, x) /\ LastTurn(u, tc, x) = last
    BY <1>0, <2>7, <2>8, LastTurnIs
  <2>10. WalkTo(u, tc, x) = p
    BY <2>5, <2>9 DEF WalkTo
  <2>11. u[p].key = x
    BY <2>4 DEF x
  <2>12. x \in Key /\ u[p].mark = HashWrapper(x)
    BY <2>1, <2>4 DEF x
  <2> QED BY <2>4, <2>6, <2>9, <2>10, <2>11, <2>12 DEF FoundAt, IsHit
<1> QED BY <1>0, <1>1, <1>2, <1>8, <1>9 DEF GoodTable, u, q

(* The table with one slot made a tombstone.                               *)
Erased(t, p) == [t EXCEPT ![p].mark = RIP]

LEMMA ErasedSlots ==
  ASSUME NEW t, NEW tc, GoodTable(t, tc), NEW p \in LiveSlots(t)
  PROVE  /\ p \in 0 .. (tc - 1)
         /\ Erased(t, p) \in [0 .. (tc - 1) -> Slots]
         /\ Erased(t, p)[p].mark = RIP
         /\ Erased(t, p)[p].value = t[p].value
         /\ \A o \in 0 .. (tc - 1) : o # p => Erased(t, p)[o] = t[o]
         /\ LiveSlots(Erased(t, p)) = LiveSlots(t) \ {p}
<1> DEFINE e == [t[p] EXCEPT !.mark = RIP]
           u == Erased(t, p)
<1>1. t \in [0 .. (tc - 1) -> Slots] /\ p \in 0 .. (tc - 1)
  BY DEF GoodTable, LiveSlots
<1>2. t[p] \in Slots
  BY <1>1
<1>3. e \in Slots /\ e.mark = RIP /\ e.value = t[p].value
  BY <1>2, MaxHashAssumption DEF Slots, RIP
<1>4. u = [t EXCEPT ![p] = e]
  BY DEF Erased
<1> HIDE DEF e, u
<1>5. /\ u \in [0 .. (tc - 1) -> Slots]
      /\ u[p] = e
      /\ \A o \in 0 .. (tc - 1) : o # p => u[o] = t[o]
  BY <1>1, <1>3, <1>4
<1>6. ~ IsLive(u[p])
  BY <1>3, <1>5 DEF IsLive
<1>7. LiveSlots(u) = LiveSlots(t) \ {p}
  BY <1>1, <1>5, <1>6 DEF LiveSlots
<1> QED BY <1>1, <1>3, <1>5, <1>7 DEF u

(* An erasure keeps the table good: the tombstone ends no walk, so that    *)
(* every other entry is found as before.                                   *)
LEMMA ErasedGood ==
  ASSUME NEW t, NEW tc, GoodTable(t, tc), NEW p \in LiveSlots(t)
  PROVE  GoodTable(Erased(t, p), tc)
<1> DEFINE u == Erased(t, p)
<1>0. tc \in Nat \ {0} /\ \A o \in LiveSlots(t) : FoundAt(t, tc, o)
  BY DEF GoodTable
<1>1. /\ p \in 0 .. (tc - 1)
      /\ u \in [0 .. (tc - 1) -> Slots]
      /\ u[p].mark = RIP
      /\ \A o \in 0 .. (tc - 1) : o # p => u[o] = t[o]
      /\ LiveSlots(u) = LiveSlots(t) \ {p}
  BY ErasedSlots
<1>2. IsLive(t[p])
  BY DEF LiveSlots
<1> HIDE DEF u
<1>3. ASSUME NEW o \in LiveSlots(t), o # p
      PROVE  FoundAt(u, tc, o)
  <2> DEFINE x == t[o].key
  <2>1. x \in Key /\ t[o].mark = HashWrapper(x) /\ IsHit(t, tc, x) /\ WalkTo(t, tc, x) = o
    BY <1>0 DEF FoundAt
  <2>2. t[p].key # x
    BY <1>3, NoTwins
  <2>3. o \in 0 .. (tc - 1)
    BY <2>1, <1>0, WalkToSlot DEF IsHit
  <2>4. u[o] = t[o]
    BY <1>1, <1>3, <2>3
  <2>5. ~ Holds(t[p], x) /\ t[p].mark # UNUSED
    BY <1>2, <2>2 DEF Holds, IsLive
  <2>6. ~ Holds(u[p], x) /\ u[p].mark # UNUSED
    <3>1. HashWrapper(x) \in 2 .. (MaxHash - 1)
      BY <2>1, HashWrapperRange
    <3> QED BY <1>1, <3>1, MaxHashAssumption DEF Holds, RIP, UNUSED
  <2> HIDE DEF x
  <2>7. ASSUME NEW i \in Turns(tc)
        PROVE  (t[Pos(x, tc, i)].mark = UNUSED \/ Holds(t[Pos(x, tc, i)], x))
               <=> (u[Pos(x, tc, i)].mark = UNUSED \/ Holds(u[Pos(x, tc, i)], x))
    <3>1. Pos(x, tc, i) \in 0 .. (tc - 1)
      BY <1>0, <2>1, PosRange
    <3> QED BY <1>1, <2>5, <2>6, <3>1
  <2>8. Ends(t, tc, x) = Ends(u, tc, x)
    BY <2>7 DEF Ends
  <2>9. (WalkEnds(t, tc, x) <=> WalkEnds(u, tc, x)) /\ WalkTo(t, tc, x) = WalkTo(u, tc, x)
    BY <1>0, <2>8, SameEndsSameWalk
  <2>10. Holds(t[o], x)
    BY <2>1 DEF IsHit
  <2>11. u[o].key = x
    BY <2>4 DEF x
  <2> QED BY <2>1, <2>4, <2>9, <2>10, <2>11 DEF FoundAt, IsHit
<1> QED BY <1>0, <1>1, <1>3 DEF GoodTable, u

(* Fresh storage has no entries.                                           *)
LEMMA BlankGood ==
  ASSUME NEW tc \in Nat \ {0}
  PROVE  /\ GoodTable(BlankTable(tc), tc)
         /\ LiveSlots(BlankTable(tc)) = {}
         /\ BlankTable(tc) # Null
         /\ \A p \in 0 .. (tc - 1) : BlankTable(tc)[p] = Blank
<1>1. Blank \in Slots /\ ~ IsLive(Blank)
  BY MaxHashAssumption DEF Blank, Slots, IsLive, UNUSED
<1>2. /\ BlankTable(tc) \in [0 .. (tc - 1) -> Slots]
      /\ DOMAIN BlankTable(tc) = 0 .. (tc - 1)
      /\ \A p \in 0 .. (tc - 1) : BlankTable(tc)[p] = Blank
  BY <1>1 DEF BlankTable
<1>3. LiveSlots(BlankTable(tc)) = {}
  BY <1>1, <1>2 DEF LiveSlots
<1>4. 0 \in DOMAIN BlankTable(tc) /\ DOMAIN Null = {}
  BY <1>2 DEF Null
<1>5. BlankTable(tc) # Null
  BY <1>4
<1> QED BY <1>2, <1>3, <1>5 DEF GoodTable

(* A table has finitely many live slots, and no more than slots.           *)
LEMMA LiveFinite ==
  ASSUME NEW t, NEW tc, GoodTable(t, tc)
  PROVE  /\ IsFiniteSet(LiveSlots(t))
         /\ Cardinality(LiveSlots(t)) \in Nat
         /\ Cardinality(LiveSlots(t)) <= tc
<1>1. tc \in Nat /\ LiveSlots(t) \subseteq 0 .. (tc - 1)
  BY DEF GoodTable, LiveSlots
<1>2. IsFiniteSet(0 .. (tc - 1)) /\ Cardinality(0 .. (tc - 1)) = tc
  <2>1. 0 \in Int /\ tc - 1 \in Int
    BY <1>1
  <2>2. /\ IsFiniteSet(0 .. (tc - 1))
        /\ Cardinality(0 .. (tc - 1)) = IF 0 > tc - 1 THEN 0 ELSE (tc - 1) - 0 + 1
    BY <2>1, FS_Interval
  <2> QED BY <1>1, <2>2
<1>3. IsFiniteSet(LiveSlots(t)) /\ Cardinality(LiveSlots(t)) <= Cardinality(0 .. (tc - 1))
  BY <1>1, <1>2, FS_Subset
<1> QED BY <1>2, <1>3, FS_CardinalityType

-----------------------------------------------------------------------------
(* The entries of a table, as a dictionary.                                *)

KeysOf(t) == {t[p].key : p \in LiveSlots(t)}
DictOf(t) == [k \in KeysOf(t) |-> t[CHOOSE p \in LiveSlots(t) : t[p].key = k].value]

LEMMA DictOfEntry ==
  ASSUME NEW t, NEW tc, GoodTable(t, tc), NEW p \in LiveSlots(t)
  PROVE  t[p].key \in DOMAIN DictOf(t) /\ DictOf(t)[t[p].key] = t[p].value
<1> DEFINE k == t[p].key
           q == CHOOSE o \in LiveSlots(t) : t[o].key = k
<1>1. q \in LiveSlots(t) /\ t[q].key = k
  OBVIOUS
<1>2. q = p
  BY <1>1, NoTwins
<1>3. k \in KeysOf(t)
  BY DEF KeysOf
<1> QED BY <1>2, <1>3 DEF DictOf

(* Two tables with the same entries, in whatever slots, are the same       *)
(* dictionary.                                                             *)
LEMMA SameDict ==
  ASSUME NEW t, NEW tc, GoodTable(t, tc), NEW u, NEW uc, GoodTable(u, uc),
         \A p \in LiveSlots(t) : \E q \in LiveSlots(u) : u[q].key = t[p].key /\ u[q].value = t[p].value,
         \A q \in LiveSlots(u) : \E p \in LiveSlots(t) : u[q].key = t[p].key
  PROVE  DictOf(t) = DictOf(u)
<1>1. KeysOf(t) = KeysOf(u)
  BY DEF KeysOf
<1>2. ASSUME NEW k \in KeysOf(t)
      PROVE  DictOf(t)[k] = DictOf(u)[k]
  <2>1. PICK p \in LiveSlots(t) : k = t[p].key
    BY DEF KeysOf
  <2>2. PICK q \in LiveSlots(u) : u[q].key = t[p].key /\ u[q].value = t[p].value
    OBVIOUS
  <2>3. DictOf(t)[t[p].key] = t[p].value
    BY DictOfEntry
  <2>4. DictOf(u)[u[q].key] = u[q].value
    BY DictOfEntry
  <2> QED BY ONLY <2>1, <2>2, <2>3, <2>4
<1> DEFINE d == DictOf(t)
           e == DictOf(u)
<1>3. d = [k \in KeysOf(t) |-> d[k]] /\ e = [k \in KeysOf(u) |-> e[k]]
  BY DEF DictOf
<1> HIDE DEF d, e
<1>4. \A k \in KeysOf(t) : d[k] = e[k]
  BY <1>2 DEF d, e
<1>5. d = e
  BY ONLY <1>1, <1>3, <1>4
<1> QED BY <1>5 DEF d, e

-----------------------------------------------------------------------------
(* resize_rehash.                                                          *)

(* The steps of resize_rehash, up to slot m of the old table.              *)
RefilledUpTo(g, new_count, m) ==
  g = [n \in 0 .. m |-> IF n = 0 THEN BlankTable(new_count)
                        ELSE Refill(g[n - 1], new_count, storage[n - 1])]

(* They can be taken for every slot; the least m for which they could not  *)
(* would be neither 0 nor the successor of one for which they can.         *)
LEMMA RefilledExists ==
  ASSUME NEW new_count, NEW last \in Nat
  PROVE  \E g : RefilledUpTo(g, new_count, last)
<1> DEFINE S == {m \in Nat : ~ \E g : RefilledUpTo(g, new_count, m)}
<1>1. SUFFICES ASSUME S # {} PROVE FALSE
  OBVIOUS
<1>2. PICK m \in S : \A k \in S : m <= k
  <2>1. S \in SUBSET Nat
    OBVIOUS
  <2> QED BY <1>1, <2>1, LeastElement
<1>3. m \in Nat /\ ~ \E g : RefilledUpTo(g, new_count, m)
  BY <1>2
<1>4. m # 0
  <2> DEFINE g == [n \in 0 .. 0 |-> BlankTable(new_count)]
  <2>1. g = [n \in 0 .. 0 |-> IF n = 0 THEN BlankTable(new_count)
                              ELSE Refill(g[n - 1], new_count, storage[n - 1])]
    OBVIOUS
  <2>2. RefilledUpTo(g, new_count, 0)
    BY <2>1 DEF RefilledUpTo
  <2> QED BY <1>3, <2>2
<1>5. m - 1 \in Nat /\ m - 1 \notin S
  BY <1>2, <1>3, <1>4
<1>6. PICK g : RefilledUpTo(g, new_count, m - 1)
  BY <1>5
<1> DEFINE next == Refill(g[m - 1], new_count, storage[m - 1])
           h == [n \in 0 .. m |-> IF n = m THEN next ELSE g[n]]
<1>7. /\ DOMAIN g = 0 .. (m - 1)
      /\ \A n \in 0 .. (m - 1) :
           g[n] = IF n = 0 THEN BlankTable(new_count)
                  ELSE Refill(g[n - 1], new_count, storage[n - 1])
  BY <1>6 DEF RefilledUpTo
<1>8. ASSUME NEW n \in 0 .. m
      PROVE  h[n] = IF n = 0 THEN BlankTable(new_count)
                    ELSE Refill(h[n - 1], new_count, storage[n - 1])
  <2>1. CASE n = m
    <3>1. h[n] = next
      BY <2>1
    <3>2. n - 1 \in 0 .. m /\ n - 1 # m
      BY <1>3, <1>4, <2>1
    <3>3. h[n - 1] = g[m - 1]
      BY <2>1, <3>2
    <3> QED BY <1>4, <2>1, <3>1, <3>3
  <2>2. CASE n # m
    <3>1. n \in 0 .. (m - 1) /\ h[n] = g[n]
      BY <1>3, <2>2
    <3>2. CASE n = 0
      BY <1>7, <3>1, <3>2
    <3>3. CASE n # 0
      <4>1. n - 1 \in 0 .. m /\ n - 1 # m
        BY <1>3, <3>1, <3>3
      <4>2. h[n - 1] = g[n - 1]
        BY <4>1
      <4> QED BY <1>7, <3>1, <3>3, <4>2
    <3> QED BY <3>2, <3>3
  <2> QED BY <2>1, <2>2
<1>9. DOMAIN h = 0 .. m
  OBVIOUS
<1>10. h = [n \in 0 .. m |-> h[n]]
  BY <1>9
<1> HIDE DEF h
<1>11. h = [n \in 0 .. m |-> IF n = 0 THEN BlankTable(new_count)
                             ELSE Refill(h[n - 1], new_count, storage[n - 1])]
  BY <1>8, <1>10
<1> QED BY <1>3, <1>11 DEF RefilledUpTo

LEMMA RefilledSteps ==
  ASSUME NEW new_count, table_count \in Nat
  PROVE  /\ Refilled(new_count)[0] = BlankTable(new_count)
         /\ \A n \in 1 .. table_count :
              Refilled(new_count)[n] = Refill(Refilled(new_count)[n - 1], new_count, storage[n - 1])
<1> DEFINE g == Refilled(new_count)
<1>1. \E h : RefilledUpTo(h, new_count, table_count)
  BY RefilledExists
<1>2. g = CHOOSE h : RefilledUpTo(h, new_count, table_count)
  BY DEF Refilled, RefilledUpTo
<1> HIDE DEF g
<1>3. RefilledUpTo(g, new_count, table_count)
  BY <1>1, <1>2
<1>4. \A n \in 0 .. table_count :
        g[n] = IF n = 0 THEN BlankTable(new_count)
               ELSE Refill(g[n - 1], new_count, storage[n - 1])
  BY <1>3 DEF RefilledUpTo
<1>5. 0 \in 0 .. table_count
  OBVIOUS
<1>6. g[0] = BlankTable(new_count)
  BY <1>4, <1>5
<1>7. \A n \in 1 .. table_count : n \in 0 .. table_count /\ n # 0
  OBVIOUS
<1>8. \A n \in 1 .. table_count : g[n] = Refill(g[n - 1], new_count, storage[n - 1])
  BY <1>4, <1>7
<1> QED BY <1>6, <1>8 DEF g

(* The live slots of the old table before slot n.                          *)
LiveBefore(n) == {o \in LiveSlots(storage) : o < n}

(* t has the entries of the old table's slots before n and no others; its  *)
(* other slots are fresh storage still.                                    *)
Carried(t, new_count, n) ==
  /\ GoodTable(t, new_count)
  /\ \A p \in LiveSlots(t) : \E o \in LiveBefore(n) : storage[o].key = t[p].key
  /\ \A o \in LiveBefore(n) : \E p \in LiveSlots(t) :
       t[p].key = storage[o].key /\ t[p].value = storage[o].value
  /\ Cardinality(LiveSlots(t)) = Cardinality(LiveBefore(n))
  /\ \A p \in 0 .. (new_count - 1) : IsLive(t[p]) \/ t[p].value = Nothing

LEMMA CarriedNone ==
  ASSUME GoodTable(storage, table_count), NEW new_count \in Nat \ {0}
  PROVE  Carried(BlankTable(new_count), new_count, 0)
<1>1. LiveBefore(0) = {}
  BY DEF LiveBefore, LiveSlots, GoodTable
<1>2. /\ GoodTable(BlankTable(new_count), new_count)
      /\ LiveSlots(BlankTable(new_count)) = {}
      /\ \A p \in 0 .. (new_count - 1) : BlankTable(new_count)[p] = Blank
  BY BlankGood
<1>3. Blank.value = Nothing
  BY DEF Blank
<1> QED BY <1>1, <1>2, <1>3 DEF Carried

(* One turn of resize_rehash.                                              *)
LEMMA CarriedNext ==
  ASSUME GoodTable(storage, table_count), NEW new_count \in Nat \ {0},
         NEW n \in 0 .. (table_count - 1), NEW t, Carried(t, new_count, n),
         IsLive(storage[n]) => WalkEnds(t, new_count, storage[n].key)
  PROVE  Carried(Refill(t, new_count, storage[n]), new_count, n + 1)
<1>0. /\ table_count \in Nat /\ n \in Nat
      /\ DOMAIN storage = 0 .. (table_count - 1)
      /\ storage[n] \in Slots
      /\ GoodTable(t, new_count)
  BY DEF GoodTable, Carried
<1>1. n \notin LiveBefore(n) /\ LiveBefore(n) \subseteq LiveSlots(storage)
  BY <1>0 DEF LiveBefore
<1>2. CASE ~ IsLive(storage[n])
  <2>1. Refill(t, new_count, storage[n]) = t
    BY <1>2 DEF Refill
  <2>2. LiveBefore(n + 1) = LiveBefore(n)
    BY <1>0, <1>2 DEF LiveBefore, LiveSlots
  <2> QED BY <2>1, <2>2 DEF Carried
<1>3. CASE IsLive(storage[n])
  <2> DEFINE k == storage[n].key
             v == storage[n].value
             q == PlaceFor(t, new_count, k)
             u == Filled(t, new_count, k, v)
  <2>1. n \in LiveSlots(storage)
    BY <1>0, <1>3 DEF LiveSlots
  <2>2. k \in Key /\ v \in Value \cup {Nothing}
    <3>1. FoundAt(storage, table_count, n)
      BY <2>1 DEF GoodTable
    <3> QED BY <1>0, <3>1 DEF FoundAt, Slots
  <2>3. LiveBefore(n + 1) = LiveBefore(n) \cup {n}
    BY <1>0, <2>1 DEF LiveBefore, LiveSlots
  <2>4. WalkEnds(t, new_count, k)
    BY <1>3
  <2>5. ~ IsHit(t, new_count, k)
    <3>1. SUFFICES ASSUME IsHit(t, new_count, k) PROVE FALSE
      OBVIOUS
    <3>2. PICK p \in LiveSlots(t) : t[p].key = k
      BY <1>0, <2>2, <3>1, HitIsLive
    <3>3. PICK o \in LiveBefore(n) : storage[o].key = k
      BY <3>2 DEF Carried
    <3>4. o = n
      BY <1>1, <2>1, <3>3, NoTwins
    <3> QED BY <1>1, <3>3, <3>4
  <2>6. Refill(t, new_count, storage[n]) = u
    BY <1>3 DEF Refill
  <2>7. GoodTable(u, new_count)
    BY <1>0, <2>2, <2>4, <2>5, FilledGood
  <2>8. LiveSlots(u) = LiveSlots(t) \cup {q} /\ q \notin LiveSlots(t)
    BY <1>0, <2>2, <2>4, <2>5, FilledLive
  <2>9. /\ q \in 0 .. (new_count - 1)
        /\ ~ IsLive(t[q])
        /\ u[q] = Entry(t[q], k, v)
        /\ \A p \in 0 .. (new_count - 1) : p # q => u[p] = t[p]
    BY <1>0, <2>2, <2>4, <2>5, FilledSlots
  <2>10. u[q].key = k /\ u[q].value = v
    <3>1. t[q].value = Nothing
      BY <2>9 DEF Carried
    <3> QED BY <2>9, <3>1 DEF Entry
  <2>11. LiveSlots(t) \subseteq 0 .. (new_count - 1)
    BY <1>0 DEF LiveSlots, GoodTable
  <2>12. \A p \in LiveSlots(t) : u[p] = t[p]
    BY <2>8, <2>9, <2>11
  <2> HIDE DEF q, u
  <2>13. ASSUME NEW p \in LiveSlots(u)
         PROVE  \E o \in LiveBefore(n + 1) : storage[o].key = u[p].key
    <3>1. CASE p = q
      BY <2>3, <2>10, <3>1
    <3>2. CASE p \in LiveSlots(t)
      BY <2>3, <2>12, <3>2 DEF Carried
    <3> QED BY <2>8, <3>1, <3>2
  <2>14. ASSUME NEW o \in LiveBefore(n + 1)
         PROVE  \E p \in LiveSlots(u) : u[p].key = storage[o].key /\ u[p].value = storage[o].value
    <3>1. CASE o = n
      BY <2>8, <2>10, <3>1
    <3>2. CASE o \in LiveBefore(n)
      <4>1. PICK p \in LiveSlots(t) : t[p].key = storage[o].key /\ t[p].value = storage[o].value
        BY <3>2 DEF Carried
      <4> QED BY <2>8, <2>12, <4>1
    <3> QED BY <2>3, <3>1, <3>2
  <2>15. Cardinality(LiveSlots(u)) = Cardinality(LiveBefore(n + 1))
    <3>1. IsFiniteSet(LiveSlots(t)) /\ IsFiniteSet(LiveSlots(storage))
      BY <1>0, LiveFinite
    <3>2. IsFiniteSet(LiveBefore(n))
      BY <1>1, <3>1, FS_Subset
    <3>3. Cardinality(LiveSlots(u)) = Cardinality(LiveSlots(t)) + 1
      BY <2>8, <3>1, FS_AddElement
    <3>4. Cardinality(LiveBefore(n + 1)) = Cardinality(LiveBefore(n)) + 1
      BY <1>1, <2>3, <3>2, FS_AddElement
    <3> QED BY <3>3, <3>4 DEF Carried
  <2>16. ASSUME NEW p \in 0 .. (new_count - 1)
         PROVE  IsLive(u[p]) \/ u[p].value = Nothing
    <3>1. q \in LiveSlots(u)
      BY <2>8
    <3>2. CASE p = q
      BY <3>1, <3>2 DEF LiveSlots
    <3>3. CASE p # q
      BY <2>9, <3>3 DEF Carried
    <3> QED BY <3>2, <3>3
  <2>17. Carried(u, new_count, n + 1)
    BY <2>7, <2>13, <2>14, <2>15, <2>16 DEF Carried
  <2> QED BY <2>6, <2>17
<1> QED BY <1>2, <1>3

(* Every turn, by the least one after which it did not hold.               *)
LEMMA CarriedAlways ==
  ASSUME GoodTable(storage, table_count), NEW new_count \in Nat \ {0}, RehashEnds(new_count),
         NEW n \in 0 .. table_count
  PROVE  Carried(Refilled(new_count)[n], new_count, n)
<1> DEFINE g == Refilled(new_count)
           S == {m \in 0 .. table_count : ~ Carried(g[m], new_count, m)}
<1>0. table_count \in Nat
  BY DEF GoodTable
<1>1. /\ g[0] = BlankTable(new_count)
      /\ \A m \in 1 .. table_count : g[m] = Refill(g[m - 1], new_count, storage[m - 1])
  BY <1>0, RefilledSteps
<1>2. \A m \in 0 .. (table_count - 1) : IsLive(storage[m]) => WalkEnds(g[m], new_count, storage[m].key)
  BY DEF RehashEnds
<1> HIDE DEF g
<1>3. SUFFICES ASSUME S # {} PROVE FALSE
  BY DEF g
<1>4. PICK m \in S : \A k \in S : m <= k
  <2>1. S \in SUBSET Nat
    OBVIOUS
  <2> QED BY <1>3, <2>1, LeastElement
<1>5. m \in 0 .. table_count /\ ~ Carried(g[m], new_count, m)
  BY <1>4
<1>6. m # 0
  BY <1>1, <1>5, CarriedNone
<1> DEFINE o == m - 1
<1>7. o \in 0 .. (table_count - 1) /\ o + 1 = m /\ ~ (m <= o) /\ m \in 1 .. table_count
  BY <1>0, <1>5, <1>6
<1>8. o \in 0 .. table_count /\ o \notin S
  BY <1>0, <1>4, <1>7
<1>9. Carried(g[o], new_count, o)
  BY <1>8
<1>10. g[m] = Refill(g[o], new_count, storage[o])
  BY <1>1, <1>7
<1> HIDE DEF o
<1>11. IsLive(storage[o]) => WalkEnds(g[o], new_count, storage[o].key)
  BY <1>2, <1>7
<1>12. Carried(Refill(g[o], new_count, storage[o]), new_count, o + 1)
  BY <1>7, <1>9, <1>11, CarriedNext
<1> QED BY <1>5, <1>7, <1>10, <1>12

(* A rehash that returns loses no entry, makes none, and every one is      *)
(* found in the new table.                                                 *)
LEMMA RehashedGood ==
  ASSUME GoodTable(storage, table_count), NEW new_count \in Nat \ {0}, RehashEnds(new_count)
  PROVE  /\ GoodTable(Rehashed(new_count), new_count)
         /\ Cardinality(LiveSlots(Rehashed(new_count))) = Cardinality(LiveSlots(storage))
         /\ DictOf(Rehashed(new_count)) = DictOf(storage)
<1> DEFINE t == Rehashed(new_count)
<1>1. table_count \in Nat /\ DOMAIN storage = 0 .. (table_count - 1)
  BY DEF GoodTable
<1>2. table_count \in 0 .. table_count
  BY <1>1
<1>3. Carried(Refilled(new_count)[table_count], new_count, table_count)
  BY <1>2, CarriedAlways
<1>4. Carried(t, new_count, table_count)
  BY <1>3 DEF Rehashed
<1>5. LiveBefore(table_count) = LiveSlots(storage)
  BY <1>1 DEF LiveBefore, LiveSlots
<1> HIDE DEF t
<1>6. GoodTable(t, new_count) /\ Cardinality(LiveSlots(t)) = Cardinality(LiveSlots(storage))
  BY <1>4, <1>5 DEF Carried
<1>7. /\ \A p \in LiveSlots(t) : \E o \in LiveSlots(storage) : storage[o].key = t[p].key
      /\ \A o \in LiveSlots(storage) : \E p \in LiveSlots(t) :
           t[p].key = storage[o].key /\ t[p].value = storage[o].value
  BY <1>4, <1>5 DEF Carried
<1>8. \A p \in LiveSlots(t) : \E o \in LiveSlots(storage) : t[p].key = storage[o].key
  BY <1>7
<1>9. DictOf(storage) = DictOf(t)
  BY <1>6, <1>7, <1>8, SameDict
<1> QED BY <1>6, <1>9 DEF t

-----------------------------------------------------------------------------
(* What insertion and erasure do to the dictionary.                        *)

LEMMA HitIsPresent ==
  ASSUME NEW t, NEW tc, GoodTable(t, tc), NEW k \in Key
  PROVE  /\ IsHit(t, tc, k) <=> k \in DOMAIN DictOf(t)
         /\ IsHit(t, tc, k) => DictOf(t)[k] = t[WalkTo(t, tc, k)].value
<1>1. DOMAIN DictOf(t) = KeysOf(t)
  BY DEF DictOf
<1>2. CASE IsHit(t, tc, k)
  <2>1. WalkTo(t, tc, k) \in LiveSlots(t) /\ t[WalkTo(t, tc, k)].key = k
    BY <1>2, HitIsLive
  <2>2. k \in DOMAIN DictOf(t) /\ DictOf(t)[k] = t[WalkTo(t, tc, k)].value
    BY <2>1, DictOfEntry
  <2> QED BY <1>2, <2>2
<1>3. CASE ~ IsHit(t, tc, k)
  <2>1. k \notin KeysOf(t)
    BY <1>3, MissIsAbsent DEF KeysOf
  <2> QED BY <1>1, <1>3, <2>1
<1> QED BY <1>2, <1>3

Put(d, k, v) == [x \in DOMAIN d \cup {k} |-> IF x = k THEN v ELSE d[x]]
Drop(d, k) == [x \in DOMAIN d \ {k} |-> d[x]]

(* A new key comes with the value handed over or, without one, with the    *)
(* bytes its slot had.                                                     *)
LEMMA FilledDict ==
  ASSUME NEW t, NEW tc, GoodTable(t, tc), NEW k \in Key, NEW v \in Value \cup {Nothing},
         WalkEnds(t, tc, k), ~ IsHit(t, tc, k)
  PROVE  \E w \in Value \cup {Nothing} :
           /\ v # Nothing => w = v
           /\ DictOf(Filled(t, tc, k, v)) = Put(DictOf(t), k, w)
<1> DEFINE q == PlaceFor(t, tc, k)
           u == Filled(t, tc, k, v)
           w == IF v = Nothing THEN t[q].value ELSE v
<1>1. GoodTable(u, tc)
  BY FilledGood
<1>2. LiveSlots(u) = LiveSlots(t) \cup {q} /\ q \notin LiveSlots(t)
  BY FilledLive
<1>3. /\ q \in 0 .. (tc - 1)
      /\ u[q] = Entry(t[q], k, v)
      /\ \A p \in 0 .. (tc - 1) : p # q => u[p] = t[p]
  BY FilledSlots
<1>4. t \in [0 .. (tc - 1) -> Slots] /\ LiveSlots(t) \subseteq 0 .. (tc - 1)
  BY DEF GoodTable, LiveSlots
<1>5. w \in Value \cup {Nothing}
  BY <1>3, <1>4 DEF Slots
<1>6. u[q].key = k /\ u[q].value = w
  BY <1>3 DEF Entry
<1>7. \A p \in LiveSlots(t) : u[p] = t[p] /\ u[p].key # k
  BY <1>2, <1>3, <1>4, MissIsAbsent
<1>8. v # Nothing => w = v
  OBVIOUS
<1> HIDE DEF q, u, w
<1>9. KeysOf(u) = KeysOf(t) \cup {k}
  BY <1>2, <1>6, <1>7 DEF KeysOf
<1>10. ASSUME NEW x \in KeysOf(t)
       PROVE  x # k /\ DictOf(u)[x] = DictOf(t)[x]
  <2>1. PICK p \in LiveSlots(t) : x = t[p].key
    BY DEF KeysOf
  <2>2. p \in LiveSlots(u) /\ u[p] = t[p] /\ u[p].key # k
    BY <1>2, <1>7
  <2>3. DictOf(u)[u[p].key] = u[p].value
    BY <1>1, <2>2, DictOfEntry
  <2>4. DictOf(t)[t[p].key] = t[p].value
    BY DictOfEntry
  <2> QED BY <2>1, <2>2, <2>3, <2>4
<1>11. DictOf(u)[k] = w
  <2>1. q \in LiveSlots(u)
    BY <1>2
  <2>2. DictOf(u)[u[q].key] = u[q].value
    BY <1>1, <2>1, DictOfEntry
  <2> QED BY <1>6, <2>2
<1>12. /\ DOMAIN DictOf(t) = KeysOf(t)
       /\ DOMAIN DictOf(u) = KeysOf(u)
       /\ DictOf(u) = [x \in KeysOf(u) |-> DictOf(u)[x]]
  BY DEF DictOf
<1>13. DictOf(u) = Put(DictOf(t), k, w)
  BY <1>9, <1>10, <1>11, <1>12 DEF Put
<1> QED BY <1>5, <1>8, <1>13 DEF u

LEMMA ErasedDict ==
  ASSUME NEW t, NEW tc, GoodTable(t, tc), NEW p \in LiveSlots(t)
  PROVE  DictOf(Erased(t, p)) = Drop(DictOf(t), t[p].key)
<1> DEFINE u == Erased(t, p)
           k == t[p].key
<1>1. GoodTable(u, tc)
  BY ErasedGood
<1>2. /\ LiveSlots(u) = LiveSlots(t) \ {p}
      /\ \A o \in 0 .. (tc - 1) : o # p => u[o] = t[o]
  BY ErasedSlots
<1>3. LiveSlots(t) \subseteq 0 .. (tc - 1)
  BY DEF GoodTable, LiveSlots
<1>4. \A o \in LiveSlots(u) : o \in LiveSlots(t) /\ u[o] = t[o] /\ t[o].key # k
  BY <1>2, <1>3, NoTwins
<1> HIDE DEF u
<1>5. KeysOf(u) = KeysOf(t) \ {k}
  BY <1>2, <1>4 DEF KeysOf
<1>6. ASSUME NEW x \in KeysOf(u)
      PROVE  DictOf(u)[x] = DictOf(t)[x]
  <2>1. PICK o \in LiveSlots(u) : x = u[o].key
    BY DEF KeysOf
  <2>2. DictOf(u)[u[o].key] = u[o].value
    BY <1>1, DictOfEntry
  <2>3. DictOf(t)[t[o].key] = t[o].value
    BY <1>4, DictOfEntry
  <2> QED BY <1>4, <2>1, <2>2, <2>3
<1>7. /\ DOMAIN DictOf(t) = KeysOf(t)
      /\ DictOf(u) = [x \in KeysOf(u) |-> DictOf(u)[x]]
  BY DEF DictOf
<1> QED BY <1>5, <1>6, <1>7 DEF Drop, u

-----------------------------------------------------------------------------
(* The operations.                                                         *)

(* A table that grows by a rehash is big enough for one entry more than it *)
(* had slots, and the growth does not wrap.                                *)
LEMMA Growth ==
  ASSUME NEW tc \in Nat \ {0}, tc * ExpandFactor < SizeLimit
  PROVE  /\ GrownCount(tc) \in Nat \ {0}
         /\ GrownCount(tc) > tc
         /\ \A n \in Nat : n <= tc => (n + 1) * 100 < RehashAtPercent * GrownCount(tc)
         /\ GrownCount(tc) <= MaxTableCount => GrownCount(tc) * ExpandFactor < SizeLimit
<1>1. /\ ExpandFactor \in Nat /\ ExpandFactor >= 2 /\ SizeLimit \in Nat
      /\ RehashAtPercent \in Nat /\ RehashAtPercent * ExpandFactor > 200
  BY ExpandFactorAssumption, SizeLimitAssumption, RehashAtPercentAssumption, RoomAssumption
<1>2. tc * ExpandFactor \in Nat
  BY <1>1
<1>3. \A x \in Nat : x < SizeLimit => x % SizeLimit = x
  BY <1>1
<1>4. GrownCount(tc) = tc * ExpandFactor
  BY <1>2, <1>3 DEF GrownCount
<1>5. tc * ExpandFactor > tc
  BY <1>1
<1>6. RehashAtPercent * (tc * ExpandFactor) > 200 * tc
  <2> DEFINE room == RehashAtPercent * ExpandFactor
  <2>1. RehashAtPercent * (tc * ExpandFactor) = room * tc
    BY <1>1
  <2>2. room \in Nat /\ room > 200
    BY <1>1
  <2> HIDE DEF room
  <2>3. room * tc > 200 * tc
    BY <2>2
  <2> QED BY <2>1, <2>3
<1>7. ASSUME NEW n \in Nat, n <= tc
      PROVE  (n + 1) * 100 < RehashAtPercent * (tc * ExpandFactor)
  <2>1. (n + 1) * 100 <= 200 * tc
    BY <1>7
  <2>2. RehashAtPercent * (tc * ExpandFactor) \in Nat
    BY <1>1, <1>2
  <2> QED BY <1>6, <2>1, <2>2
<1>8. ASSUME tc * ExpandFactor <= MaxTableCount
      PROVE  (tc * ExpandFactor) * ExpandFactor < SizeLimit
  <2> DEFINE n == tc * ExpandFactor
  <2>1. MaxTableCount \in Nat /\ MaxTableCount * ExpandFactor < SizeLimit
    BY TableBoundAssumption
  <2>2. n \in Nat /\ n <= MaxTableCount
    BY <1>2, <1>8
  <2> HIDE DEF n
  <2>3. n * ExpandFactor <= MaxTableCount * ExpandFactor
    BY <1>1, <2>1, <2>2
  <2>4. n * ExpandFactor \in Nat /\ MaxTableCount * ExpandFactor \in Nat
    BY <1>1, <2>1, <2>2
  <2> QED BY <1>1, <2>1, <2>3, <2>4 DEF n
<1>9. tc * ExpandFactor \in Nat \ {0}
  BY <1>2, <1>5
<1> QED BY <1>4, <1>5, <1>7, <1>8, <1>9

LEMMA InitialBound ==
  ASSUME NEW tc \in InitialCounts
  PROVE  tc \in Nat \ {0} /\ tc * ExpandFactor < SizeLimit
BY InitialCountsAssumption, TableBoundAssumption, SizeLimitAssumption

LEMMA GoodIsOpen ==
  ASSUME NEW t, NEW tc, GoodTable(t, tc)
  PROVE  t # Null
<1>1. 0 \in DOMAIN t /\ DOMAIN Null = {}
  BY DEF GoodTable, Null
<1> QED BY <1>1

LEMMA NullIsEmpty == LiveSlots(Null) = {} /\ DictOf(Null) = [x \in {} |-> Nothing]
<1>1. DOMAIN Null = {}
  BY DEF Null
<1>2. LiveSlots(Null) = {} /\ KeysOf(Null) = {}
  BY <1>1 DEF LiveSlots, KeysOf
<1> QED BY <1>2 DEF DictOf

LEMMA BlankIsEmpty ==
  ASSUME NEW tc \in Nat \ {0}
  PROVE  DictOf(BlankTable(tc)) = [x \in {} |-> Nothing]
<1>1. LiveSlots(BlankTable(tc)) = {}
  BY BlankGood
<1>2. KeysOf(BlankTable(tc)) = {}
  BY <1>1 DEF KeysOf
<1> QED BY <1>2 DEF DictOf

(* hashmap_insert after the rehash, if there was one.                      *)
LEMMA InsertIntoOutcome ==
  ASSUME NEW t, NEW tc, GoodTable(t, tc),
         slots_used \in Nat, slots_used = Cardinality(LiveSlots(t)),
         NEW k \in Key, NEW v \in Value \cup {Nothing},
         InsertInto(t, tc, k, v)
  PROVE  \/ Hang
         \/ /\ storage' = t /\ table_count' = tc
            /\ slots_used' = slots_used /\ hung' = hung
            /\ ret' = Answer("insert", k, v, "EXISTS", Nothing)
            /\ k \in DOMAIN DictOf(t)
         \/ /\ GoodTable(storage', tc) /\ table_count' = tc
            /\ slots_used' = slots_used + 1
            /\ slots_used' = Cardinality(LiveSlots(storage'))
            /\ hung' = hung
            /\ ret' = Answer("insert", k, v, "OK", Nothing)
            /\ k \notin DOMAIN DictOf(t)
            /\ \E w \in Value \cup {Nothing} :
                 (v # Nothing => w = v) /\ DictOf(storage') = Put(DictOf(t), k, w)
<1>1. CASE ~ WalkEnds(t, tc, k) /\ Hang
  BY <1>1
<1>2. CASE /\ IsHit(t, tc, k)
           /\ storage' = t
           /\ table_count' = tc
           /\ ret' = Answer("insert", k, v, "EXISTS", Nothing)
           /\ UNCHANGED <<slots_used, hung>>
  BY <1>2, HitIsPresent
<1>3. CASE /\ WalkEnds(t, tc, k) /\ ~ IsHit(t, tc, k)
           /\ storage' = Filled(t, tc, k, v)
           /\ table_count' = tc
           /\ slots_used' = slots_used + 1
           /\ ret' = Answer("insert", k, v, "OK", Nothing)
           /\ UNCHANGED hung
  <2> DEFINE u == Filled(t, tc, k, v)
             q == PlaceFor(t, tc, k)
  <2>1. GoodTable(u, tc)
    BY <1>3, FilledGood
  <2>2. LiveSlots(u) = LiveSlots(t) \cup {q} /\ q \notin LiveSlots(t)
    BY <1>3, FilledLive
  <2>3. k \notin DOMAIN DictOf(t)
    BY <1>3, HitIsPresent
  <2>4. \E w \in Value \cup {Nothing} :
          (v # Nothing => w = v) /\ DictOf(u) = Put(DictOf(t), k, w)
    BY <1>3, FilledDict
  <2>5. storage' = u
    BY <1>3
  <2> HIDE DEF u, q
  <2>6. Cardinality(LiveSlots(u)) = slots_used + 1
    <3>1. IsFiniteSet(LiveSlots(t))
      BY LiveFinite
    <3>2. Cardinality(LiveSlots(u)) = Cardinality(LiveSlots(t)) + 1
      BY <2>2, <3>1, FS_AddElement
    <3> QED BY <3>2
  <2> QED BY <1>3, <2>1, <2>3, <2>4, <2>5, <2>6
<1> QED BY <1>1, <1>2, <1>3 DEF InsertInto

(* hashmap_insert, with the rehash and the rehash that is refused.         *)
LEMMA InsertOutcome ==
  ASSUME HInv, NEW k \in Key, NEW v \in Value \cup {Nothing}, Insert(k, v)
  PROVE  /\ HInv'
         /\ table_count' > table_count =>
              table_count' = GrownCount(table_count) /\ slots_used' <= slots_used + 1
         /\ \/ UNCHANGED <<storage, ret>>
            \/ /\ UNCHANGED storage
               /\ ret' = Answer("insert", k, v, "OOM", Nothing)
            \/ /\ DictOf(storage') = DictOf(storage)
               /\ ret' = Answer("insert", k, v, "EXISTS", Nothing)
               /\ k \in DOMAIN DictOf(storage)
            \/ /\ ret' = Answer("insert", k, v, "OK", Nothing)
               /\ k \notin DOMAIN DictOf(storage)
               /\ \E w \in Value \cup {Nothing} :
                    (v # Nothing => w = v) /\ DictOf(storage') = Put(DictOf(storage), k, w)
<1>0. /\ table_count \in Nat \ {0}
      /\ table_count * ExpandFactor < SizeLimit
      /\ slots_used \in Nat
      /\ hung \in BOOLEAN
      /\ storage # Null /\ GoodTable(storage, table_count)
      /\ slots_used = Cardinality(LiveSlots(storage))
  BY DEF HInv, Insert, IsOpen
<1>1. CASE Hang
  <2>1. HInv'
    BY <1>0, <1>1 DEF HInv, Hang
  <2> QED BY <1>0, <1>1, <2>1 DEF Hang
<1>2. CASE InsertInto(storage, table_count, k, v)
  <2>1. CASE Hang
    BY <1>1, <2>1
  <2>2. CASE /\ storage' = storage /\ table_count' = table_count
             /\ slots_used' = slots_used /\ hung' = hung
             /\ ret' = Answer("insert", k, v, "EXISTS", Nothing)
             /\ k \in DOMAIN DictOf(storage)
    <3>1. HInv'
      BY <1>0, <2>2 DEF HInv
    <3> QED BY <1>0, <2>2, <3>1
  <2>3. CASE /\ GoodTable(storage', table_count) /\ table_count' = table_count
             /\ slots_used' = slots_used + 1
             /\ slots_used' = Cardinality(LiveSlots(storage'))
             /\ hung' = hung
             /\ ret' = Answer("insert", k, v, "OK", Nothing)
             /\ k \notin DOMAIN DictOf(storage)
             /\ \E w \in Value \cup {Nothing} :
                  (v # Nothing => w = v) /\ DictOf(storage') = Put(DictOf(storage), k, w)
    <3>1. slots_used' \in Nat
      BY <1>0, <2>3
    <3>2. GoodTable(storage', table_count')
      BY <2>3
    <3>3. HInv'
      BY <1>0, <2>3, <3>1, <3>2 DEF HInv
    <3> QED BY <1>0, <2>3, <3>3
  <2> QED BY <1>0, <1>2, <2>1, <2>2, <2>3, InsertIntoOutcome
<1>3. CASE /\ GrownCount(table_count) <= MaxTableCount
           /\ RehashEnds(GrownCount(table_count))
           /\ InsertInto(Rehashed(GrownCount(table_count)), GrownCount(table_count), k, v)
  <2> DEFINE tc == GrownCount(table_count)
             t == Rehashed(tc)
  <2>1. tc \in Nat \ {0} /\ tc * ExpandFactor < SizeLimit
    BY <1>0, <1>3, Growth
  <2>2. GoodTable(t, tc) /\ Cardinality(LiveSlots(t)) = slots_used /\ DictOf(t) = DictOf(storage)
    BY <1>0, <1>3, <2>1, RehashedGood
  <2>3. InsertInto(t, tc, k, v)
    BY <1>3
  <2> HIDE DEF tc, t
  <2>4. CASE Hang
    BY <1>1, <2>4
  <2>5. CASE /\ storage' = t /\ table_count' = tc
             /\ slots_used' = slots_used /\ hung' = hung
             /\ ret' = Answer("insert", k, v, "EXISTS", Nothing)
             /\ k \in DOMAIN DictOf(t)
    <3>1. GoodTable(storage', table_count') /\ table_count' * ExpandFactor < SizeLimit
      BY <2>1, <2>2, <2>5
    <3>2. slots_used' = Cardinality(LiveSlots(storage'))
      BY <2>2, <2>5
    <3>3. HInv'
      BY <1>0, <2>1, <2>5, <3>1, <3>2 DEF HInv
    <3> QED BY <1>0, <2>2, <2>5, <3>3 DEF tc
  <2>6. CASE /\ GoodTable(storage', tc) /\ table_count' = tc
             /\ slots_used' = slots_used + 1
             /\ slots_used' = Cardinality(LiveSlots(storage'))
             /\ hung' = hung
             /\ ret' = Answer("insert", k, v, "OK", Nothing)
             /\ k \notin DOMAIN DictOf(t)
             /\ \E w \in Value \cup {Nothing} :
                  (v # Nothing => w = v) /\ DictOf(storage') = Put(DictOf(t), k, w)
    <3>1. slots_used' \in Nat
      BY <1>0, <2>6
    <3>2. GoodTable(storage', table_count') /\ table_count' * ExpandFactor < SizeLimit
      BY <2>1, <2>6
    <3>3. HInv'
      BY <1>0, <2>1, <2>6, <3>1, <3>2 DEF HInv
    <3> QED BY <1>0, <2>2, <2>6, <3>3 DEF tc
  <2>7. slots_used = Cardinality(LiveSlots(t))
    BY <2>2
  <2> QED BY <1>0, <2>2, <2>3, <2>4, <2>5, <2>6, <2>7, InsertIntoOutcome
<1>4. CASE /\ ret' = Answer("insert", k, v, "OOM", Nothing)
           /\ UNCHANGED <<storage, table_count, slots_used, hung>>
  <2>1. HInv'
    BY <1>0, <1>4 DEF HInv
  <2> QED BY <1>0, <1>4, <2>1
<1>5. \/ Hang
      \/ InsertInto(storage, table_count, k, v)
      \/ /\ GrownCount(table_count) <= MaxTableCount
         /\ RehashEnds(GrownCount(table_count))
         /\ InsertInto(Rehashed(GrownCount(table_count)), GrownCount(table_count), k, v)
      \/ /\ ret' = Answer("insert", k, v, "OOM", Nothing)
         /\ UNCHANGED <<storage, table_count, slots_used, hung>>
  BY DEF Insert
<1> QED BY <1>1, <1>2, <1>3, <1>4, <1>5

(* hashmap_erase.                                                          *)
LEMMA EraseOutcome ==
  ASSUME HInv, NEW k \in Key, Erase(k)
  PROVE  /\ HInv'
         /\ UNCHANGED table_count
         /\ \/ UNCHANGED <<storage, ret>>
            \/ /\ UNCHANGED storage
               /\ ret' = Answer("erase", k, Nothing, "NOT_FOUND", Nothing)
               /\ k \notin DOMAIN DictOf(storage)
            \/ /\ DictOf(storage') = Drop(DictOf(storage), k)
               /\ k \in DOMAIN DictOf(storage)
               /\ \E p \in Nat :
                    /\ ret' = Answer("erase", k, Nothing, "OK", p)
                    /\ storage'[p].value = DictOf(storage)[k]
<1>0. /\ table_count \in Nat \ {0}
      /\ table_count * ExpandFactor < SizeLimit
      /\ slots_used \in Nat
      /\ hung \in BOOLEAN
      /\ storage # Null /\ GoodTable(storage, table_count)
      /\ slots_used = Cardinality(LiveSlots(storage))
  BY DEF HInv, Erase, IsOpen
<1>1. CASE Hang
  <2>1. HInv'
    BY <1>0, <1>1 DEF HInv, Hang
  <2> QED BY <1>1, <2>1 DEF Hang
<1>2. CASE /\ IsHit(storage, table_count, k)
           /\ storage' = [storage EXCEPT ![WalkTo(storage, table_count, k)].mark = RIP]
           /\ slots_used' = slots_used - 1
           /\ ret' = Answer("erase", k, Nothing, "OK", WalkTo(storage, table_count, k))
           /\ UNCHANGED hung
  <2> DEFINE p == WalkTo(storage, table_count, k)
             u == Erased(storage, p)
  <2>1. p \in LiveSlots(storage) /\ storage[p].key = k /\ p \in Nat
    BY <1>0, <1>2, HitIsLive
  <2>2. storage' = u
    BY <1>2 DEF Erased
  <2>3. k \in DOMAIN DictOf(storage) /\ DictOf(storage)[k] = storage[p].value
    BY <1>0, <1>2, HitIsPresent
  <2>4. UNCHANGED table_count
    BY DEF Erase
  <2>5. ret' = Answer("erase", k, Nothing, "OK", p) /\ slots_used' = slots_used - 1 /\ UNCHANGED hung
    BY <1>2
  <2> HIDE DEF p
  <2>6. GoodTable(u, table_count)
    BY <1>0, <2>1, ErasedGood
  <2>7. LiveSlots(u) = LiveSlots(storage) \ {p} /\ u[p].value = storage[p].value
    BY <1>0, <2>1, ErasedSlots
  <2>8. DictOf(u) = Drop(DictOf(storage), k)
    BY <1>0, <2>1, ErasedDict
  <2> HIDE DEF u
  <2>9. Cardinality(LiveSlots(u)) = slots_used - 1
    BY <1>0, <2>1, <2>7, LiveFinite, FS_RemoveElement
  <2>10. slots_used - 1 \in Nat
    <3>1. GoodTable(u, table_count)
      BY <2>6
    <3> QED BY <2>9, <3>1, LiveFinite
  <2>11. GoodTable(storage', table_count') /\ slots_used' = Cardinality(LiveSlots(storage'))
    BY <2>2, <2>4, <2>5, <2>6, <2>9
  <2>12. HInv'
    BY <1>0, <2>4, <2>5, <2>10, <2>11 DEF HInv
  <2>13. storage'[p].value = DictOf(storage)[k]
    BY <2>2, <2>3, <2>7
  <2> QED BY <2>1, <2>2, <2>3, <2>4, <2>5, <2>8, <2>12, <2>13
<1>3. CASE /\ WalkEnds(storage, table_count, k) /\ ~ IsHit(storage, table_count, k)
           /\ ret' = Answer("erase", k, Nothing, "NOT_FOUND", Nothing)
           /\ UNCHANGED <<storage, slots_used, hung>>
  <2>1. UNCHANGED table_count
    BY DEF Erase
  <2>2. HInv'
    BY <1>0, <1>3, <2>1 DEF HInv
  <2>3. k \notin DOMAIN DictOf(storage)
    BY <1>0, <1>3, HitIsPresent
  <2> QED BY <1>3, <2>1, <2>2, <2>3
<1> QED BY <1>1, <1>2, <1>3 DEF Erase

(* hashmap_find.                                                           *)
LEMMA FindOutcome ==
  ASSUME HInv, NEW k \in Key, Find(k)
  PROVE  /\ HInv'
         /\ UNCHANGED <<storage, table_count>>
         /\ \/ UNCHANGED ret
            \/ /\ ret' = Answer("find", k, Nothing, "NOT_FOUND", Nothing)
               /\ k \notin DOMAIN DictOf(storage)
            \/ /\ k \in DOMAIN DictOf(storage)
               /\ \E p \in Nat :
                    /\ ret' = Answer("find", k, Nothing, "OK", p)
                    /\ storage'[p].value = DictOf(storage)[k]
<1>0. /\ table_count \in Nat \ {0}
      /\ storage # Null /\ GoodTable(storage, table_count)
  BY DEF HInv, Find, IsOpen
<1>1. UNCHANGED <<storage, table_count, slots_used>>
  BY DEF Find
<1>2. hung' \in BOOLEAN
  BY DEF HInv, Find, Hang
<1>3. HInv'
  BY <1>1, <1>2 DEF HInv
<1>4. CASE UNCHANGED ret
  BY <1>1, <1>3, <1>4
<1>5. CASE /\ IsHit(storage, table_count, k)
           /\ ret' = Answer("find", k, Nothing, "OK", WalkTo(storage, table_count, k))
  <2>1. WalkTo(storage, table_count, k) \in Nat
    BY <1>0, <1>5, HitIsLive
  <2>2. /\ k \in DOMAIN DictOf(storage)
        /\ DictOf(storage)[k] = storage[WalkTo(storage, table_count, k)].value
    BY <1>0, <1>5, HitIsPresent
  <2> QED BY <1>1, <1>3, <1>5, <2>1, <2>2
<1>6. CASE /\ ~ IsHit(storage, table_count, k)
           /\ ret' = Answer("find", k, Nothing, "NOT_FOUND", Nothing)
  <2>1. k \notin DOMAIN DictOf(storage)
    BY <1>0, <1>6, HitIsPresent
  <2> QED BY <1>1, <1>3, <1>6, <2>1
<1> QED BY <1>4, <1>5, <1>6 DEF Find, Hang

LEMMA DeinitOutcome ==
  ASSUME HInv, Deinit
  PROVE  /\ HInv'
         /\ UNCHANGED table_count
         /\ DictOf(storage') = [x \in {} |-> Nothing]
         /\ ret' = Answer("deinit", Nothing, Nothing, "OK", Nothing)
BY NullIsEmpty DEF HInv, Deinit

LEMMA InitOutcome ==
  ASSUME HInv, InitWithOptions
  PROVE  /\ HInv'
         /\ slots_used' = 0
         /\ DictOf(storage') = [x \in {} |-> Nothing]
         /\ \E status \in {"OK", "OOM"} : ret' = Answer("init", Nothing, Nothing, status, Nothing)
<1>1. table_count' \in Nat \ {0} /\ table_count' * ExpandFactor < SizeLimit
  BY InitialBound DEF InitWithOptions
<1>2. slots_used' = 0 /\ hung' \in BOOLEAN /\ storage = Null
  BY DEF InitWithOptions, HInv
<1>3. CASE /\ storage' = BlankTable(table_count')
           /\ ret' = Answer("init", Nothing, Nothing, "OK", Nothing)
  <2> DEFINE tc == table_count'
  <2>1. tc \in Nat \ {0}
    BY <1>1
  <2> HIDE DEF tc
  <2>2. /\ GoodTable(BlankTable(tc), tc) /\ LiveSlots(BlankTable(tc)) = {}
        /\ DictOf(BlankTable(tc)) = [x \in {} |-> Nothing]
    BY <2>1, BlankGood, BlankIsEmpty
  <2>3. storage' = BlankTable(tc)
    BY <1>3 DEF tc
  <2>4. GoodTable(storage', table_count') /\ slots_used' = Cardinality(LiveSlots(storage'))
    BY <1>2, <2>2, <2>3, FS_EmptySet DEF tc
  <2>5. HInv'
    BY <1>1, <1>2, <2>4 DEF HInv
  <2> QED BY <1>2, <1>3, <2>2, <2>3, <2>5
<1>4. CASE /\ UNCHANGED storage
           /\ ret' = Answer("init", Nothing, Nothing, "OOM", Nothing)
  <2>1. HInv'
    BY <1>1, <1>2, <1>4 DEF HInv
  <2> QED BY <1>2, <1>4, <2>1, NullIsEmpty
<1> QED BY <1>3, <1>4 DEF InitWithOptions

-----------------------------------------------------------------------------
(* The invariant.                                                          *)

LEMMA InitHInv == Init => HInv /\ DictOf(storage) = [x \in {} |-> Nothing]
<1>1. SUFFICES ASSUME Init PROVE HInv /\ DictOf(storage) = [x \in {} |-> Nothing]
  OBVIOUS
<1>2. table_count \in Nat \ {0} /\ table_count * ExpandFactor < SizeLimit
  BY <1>1, InitialBound DEF Init
<1>3. /\ GoodTable(storage, table_count) /\ LiveSlots(storage) = {}
      /\ DictOf(storage) = [x \in {} |-> Nothing]
  BY <1>1, <1>2, BlankGood, BlankIsEmpty DEF Init
<1>4. slots_used = Cardinality(LiveSlots(storage))
  BY <1>1, <1>3, FS_EmptySet DEF Init
<1>5. slots_used \in Nat /\ hung \in BOOLEAN
  BY <1>1 DEF Init
<1> QED BY <1>2, <1>3, <1>4, <1>5 DEF HInv

LEMMA NextHInv == HInv /\ [Next]_vars => HInv'
<1>1. SUFFICES ASSUME HInv, [Next]_vars PROVE HInv'
  OBVIOUS
<1>2. CASE \E k \in Key, v \in Value \cup {Nothing} : Insert(k, v)
  BY <1>1, <1>2, InsertOutcome
<1>3. CASE \E k \in Key : Erase(k)
  BY <1>1, <1>3, EraseOutcome
<1>4. CASE \E k \in Key : Find(k)
  BY <1>1, <1>4, FindOutcome
<1>5. CASE Deinit
  BY <1>1, <1>5, DeinitOutcome
<1>6. CASE InitWithOptions
  BY <1>1, <1>6, InitOutcome
<1>7. CASE UNCHANGED vars
  BY <1>1, <1>7 DEF HInv, vars
<1> QED BY <1>1, <1>2, <1>3, <1>4, <1>5, <1>6, <1>7 DEF Next, Spin

(* The inductive invariant holds.                                          *)
THEOREM HInvHolds == Spec => []HInv
BY InitHInv, NextHInv, PTL DEF Spec

(* Types: the slots hold a mark, a key and a value, there is one for every *)
(* index below table_count, and the counters are naturals; slots_used, an  *)
(* unsigned number that erase decrements, never passes below 0.            *)
THEOREM TypeCorrect == Spec => []TypeOK
<1>1. ASSUME HInv
      PROVE  TypeOK
  <2>1. CASE storage = Null
    <3>1. DOMAIN storage = {}
      BY <2>1 DEF Null
    <3> QED BY <1>1, <2>1, <3>1 DEF HInv, TypeOK
  <2>2. CASE GoodTable(storage, table_count)
    BY <1>1, <2>2 DEF HInv, TypeOK, GoodTable, Slots
  <2> QED BY <1>1, <2>1, <2>2 DEF HInv
<1> QED BY <1>1, HInvHolds, PTL

(* Every entry is found, in the slot it is in: through tombstones made and *)
(* filled again and through every rehash, for any hash function, any table *)
(* size (a power of two or not) and any growth factor.                     *)
THEOREM EntriesAreFound == Spec => []EveryEntryIsFound
<1>1. ASSUME HInv
      PROVE  EveryEntryIsFound
  <2>1. CASE storage = Null
    <3>1. DOMAIN storage = {}
      BY <2>1 DEF Null
    <3> QED BY <3>1 DEF EveryEntryIsFound
  <2>2. CASE GoodTable(storage, table_count)
    BY <2>2 DEF EveryEntryIsFound, GoodTable, FoundAt, LiveSlots
  <2> QED BY <1>1, <2>1, <2>2 DEF HInv
<1> QED BY <1>1, HInvHolds, PTL

(* The slots HASHMAP_FOR_EACH meets are the live ones.                     *)
LEMMA LiveIs == HInv => Live = LiveSlots(storage)
<1>1. SUFFICES ASSUME HInv PROVE Live = LiveSlots(storage)
  OBVIOUS
<1>2. CASE storage = Null
  <2>1. DOMAIN storage = {}
    BY <1>2 DEF Null
  <2> QED BY <2>1 DEF Live, LiveSlots
<1>3. CASE GoodTable(storage, table_count)
  <2>1. \A p \in LiveSlots(storage) : storage[p].key \in Key /\ storage[p].mark = HashWrapper(storage[p].key)
    BY <1>3 DEF GoodTable, FoundAt
  <2>2. \A p \in LiveSlots(storage) : storage[p].mark # INVALID
    BY <2>1, HashWrapperRange, MaxHashAssumption DEF INVALID
  <2> QED BY <2>2 DEF Live, LiveSlots, IsLive
<1> QED BY <1>1, <1>2, <1>3 DEF HInv

(* slots_used is the number of the entries.                                *)
THEOREM EntriesAreCounted == Spec => []CountsEntries
<1>1. HInv => CountsEntries
  BY LiveIs DEF HInv, CountsEntries
<1> QED BY <1>1, HInvHolds, PTL

-----------------------------------------------------------------------------
(* A rehash makes room.                                                    *)

LEMMA RehashStep ==
  HInv /\ [Next]_vars
    => [table_count' > table_count => slots_used' * 100 < RehashAtPercent * table_count']_vars
<1>1. SUFFICES ASSUME HInv, Next, table_count' > table_count
              PROVE  slots_used' * 100 < RehashAtPercent * table_count'
  OBVIOUS
<1>2. table_count \in Nat /\ table_count * ExpandFactor < SizeLimit
  BY <1>1 DEF HInv
<1>3. CASE \E k \in Key, v \in Value \cup {Nothing} : Insert(k, v)
  <2>1. PICK k \in Key, v \in Value \cup {Nothing} : Insert(k, v)
    BY <1>3
  <2>2. HInv' /\ table_count' = GrownCount(table_count) /\ slots_used' <= slots_used + 1
    BY <1>1, <2>1, InsertOutcome
  <2>3. slots_used \in Nat /\ slots_used <= table_count
    <3>1. storage # Null
      BY <2>1 DEF Insert, IsOpen
    <3>2. GoodTable(storage, table_count) /\ slots_used = Cardinality(LiveSlots(storage))
      BY <1>1, <3>1 DEF HInv
    <3> QED BY <3>2, LiveFinite
  <2>4. (slots_used + 1) * 100 < RehashAtPercent * GrownCount(table_count)
    <3>1. table_count \in Nat \ {0} /\ table_count * ExpandFactor < SizeLimit
      BY <1>1 DEF HInv
    <3> QED BY <2>3, <3>1, Growth
  <2>5. slots_used' \in Nat
    BY <2>2 DEF HInv
  <2>6. RehashAtPercent * GrownCount(table_count) \in Nat
    BY <2>2, RehashAtPercentAssumption DEF HInv
  <2> QED BY <2>2, <2>3, <2>4, <2>5, <2>6
<1>4. CASE \E k \in Key : Erase(k) \/ Find(k)
  <2>1. UNCHANGED table_count
    BY <1>1, <1>4, EraseOutcome, FindOutcome
  <2> QED BY <1>1, <1>2, <2>1
<1>5. CASE Deinit
  BY <1>1, <1>2, <1>5, DeinitOutcome
<1>6. CASE InitWithOptions
  <2>1. HInv' /\ slots_used' = 0
    BY <1>1, <1>6, InitOutcome
  <2>2. table_count' \in Nat \ {0} /\ RehashAtPercent \in Nat \ {0}
    BY <2>1, RehashAtPercentAssumption DEF HInv
  <2>3. \A x \in Nat \ {0}, y \in Nat \ {0} : x * y > 0
    OBVIOUS
  <2>4. RehashAtPercent * table_count' > 0
    BY <2>2, <2>3
  <2> QED BY <2>1, <2>4
<1>7. CASE Spin
  BY <1>1, <1>2, <1>7 DEF Spin, vars
<1> QED BY <1>1, <1>3, <1>4, <1>5, <1>6, <1>7 DEF Next

(* After a rehash there is room: 100 * (slots_used + 1), the new entry     *)
(* counted, is less than the percentage of the new size, because no more   *)
(* slots are used than there were and the growth is of 70 % by 3.          *)
THEOREM RehashingMakesRoom == Spec => RehashMakesRoom
BY HInvHolds, RehashStep, PTL DEF Spec, RehashMakesRoom

-----------------------------------------------------------------------------
(* The dictionary.                                                         *)

LEMMA ContentsIs == HInv => Contents = DictOf(storage)
BY LiveIs DEF Contents, SlotOf, DictOf, KeysOf

LEMMA ContentsIsNext == HInv' => (Contents = DictOf(storage))'
BY ContentsIs, PTL

(* An answer as the caller sees it: insertions with and without a value    *)
(* are told apart, and the pointer to a value is followed.                 *)
Seen(op, v) ==
  CASE op = "insert" -> IF v = Nothing THEN "insert_key" ELSE "insert_new"
    [] op = "erase" -> "remove"
    [] OTHER -> op

LEMMA AnswerSeen ==
  ASSUME NEW op, NEW k, NEW v, NEW status, NEW out, ret' = Answer(op, k, v, status, out)
  PROVE  RetSeen' = Abstract!Answer(Seen(op, v), k, v, status,
                      IF out = Nothing THEN Nothing ELSE storage'[out].value)
<1>1. ret' = [op |-> op, key |-> k, value |-> v, status |-> status, out |-> out]
  BY DEF Answer
<1>2. RetSeen' = [ret' EXCEPT !.op = CASE @ = "insert" -> IF ret'.value = Nothing THEN "insert_key" ELSE "insert_new"
                                       [] @ = "erase" -> "remove"
                                       [] OTHER -> @,
                              !.out = IF @ = Nothing THEN Nothing ELSE storage'[@].value]
  BY DEF RetSeen
<1>3. ret'.op = op /\ ret'.value = v /\ ret'.out = out
  BY <1>1
<1> DEFINE seen == Seen(op, v)
           answer == IF out = Nothing THEN Nothing ELSE storage'[out].value
<1>4. RetSeen' = [ret' EXCEPT !.op = seen, !.out = answer]
  BY <1>2, <1>3 DEF Seen
<1> HIDE DEF seen, answer
<1>5. RetSeen' = [[op |-> op, key |-> k, value |-> v, status |-> status, out |-> out]
                   EXCEPT !.op = seen, !.out = answer]
  BY <1>1, <1>4
<1>6. RetSeen' = [op |-> seen, key |-> k, value |-> v, status |-> status, out |-> answer]
  BY ONLY <1>5
<1> QED BY <1>6 DEF seen, answer, Abstract!Answer

LEMMA InitSimulates == Init => Abstract!Init
<1>1. SUFFICES ASSUME Init PROVE Abstract!Init
  OBVIOUS
<1>2. Contents = [x \in {} |-> Nothing]
  BY <1>1, InitHInv, ContentsIs
<1>3. ret = [op |-> "init", key |-> Nothing, value |-> Nothing, status |-> "OK", out |-> Nothing]
  BY <1>1 DEF Init, Answer
<1>4. RetSeen = ret
  BY <1>3 DEF RetSeen
<1> QED BY <1>2, <1>3, <1>4 DEF Abstract!Init, Abstract!Answer

LEMMA InsertSimulates ==
  ASSUME HInv, NEW k \in Key, NEW v \in Value \cup {Nothing}, Insert(k, v)
  PROVE  [Abstract!Next]_Abstract!vars
<1>1. Contents = DictOf(storage) /\ Contents' = DictOf(storage')
  BY ContentsIs, ContentsIsNext, InsertOutcome
<1>2. ASSUME NEW status, ret' = Answer("insert", k, v, status, Nothing)
      PROVE  RetSeen' = Abstract!Answer(IF v = Nothing THEN "insert_key" ELSE "insert_new", k, v, status, Nothing)
  BY <1>2, AnswerSeen DEF Seen
<1>3. CASE UNCHANGED <<storage, ret>>
  <2>1. UNCHANGED Contents
    BY <1>1, <1>3
  <2>2. UNCHANGED RetSeen
    BY <1>3 DEF RetSeen
  <2> QED BY <2>1, <2>2 DEF Abstract!vars
<1>4. SUFFICES ASSUME ~ UNCHANGED <<storage, ret>>
               PROVE  IF v = Nothing THEN Abstract!InsertKey(k) ELSE Abstract!InsertNew(k, v)
  BY <1>3 DEF Abstract!Next
<1>5. CASE /\ UNCHANGED storage
           /\ ret' = Answer("insert", k, v, "OOM", Nothing)
  <2>1. UNCHANGED Contents
    BY <1>1, <1>5
  <2> QED BY <1>2, <1>5, <2>1 DEF Abstract!InsertKey, Abstract!InsertNew
<1>6. CASE /\ DictOf(storage') = DictOf(storage)
           /\ ret' = Answer("insert", k, v, "EXISTS", Nothing)
           /\ k \in DOMAIN DictOf(storage)
  <2>1. UNCHANGED Contents /\ k \in DOMAIN Contents
    BY <1>1, <1>6
  <2> QED BY <1>2, <1>6, <2>1 DEF Abstract!InsertKey, Abstract!InsertNew, Abstract!Present
<1>7. CASE /\ ret' = Answer("insert", k, v, "OK", Nothing)
           /\ k \notin DOMAIN DictOf(storage)
           /\ \E w \in Value \cup {Nothing} :
                (v # Nothing => w = v) /\ DictOf(storage') = Put(DictOf(storage), k, w)
  <2>1. PICK w \in Value \cup {Nothing} :
          (v # Nothing => w = v) /\ Contents' = Put(Contents, k, w)
    BY <1>1, <1>7
  <2>2. Contents' = Abstract!Put(k, w) /\ k \notin Abstract!Present
    BY <1>1, <1>7, <2>1 DEF Put, Abstract!Put, Abstract!Present
  <2> QED BY <1>2, <1>7, <2>1, <2>2 DEF Abstract!InsertKey, Abstract!InsertNew
<1> QED BY <1>4, <1>5, <1>6, <1>7, InsertOutcome

LEMMA EraseSimulates ==
  ASSUME HInv, NEW k \in Key, Erase(k)
  PROVE  [Abstract!Next]_Abstract!vars
<1>1. Contents = DictOf(storage) /\ Contents' = DictOf(storage')
  BY ContentsIs, ContentsIsNext, EraseOutcome
<1>2. CASE UNCHANGED <<storage, ret>>
  <2>1. UNCHANGED Contents
    BY <1>1, <1>2
  <2>2. UNCHANGED RetSeen
    BY <1>2 DEF RetSeen
  <2> QED BY <2>1, <2>2 DEF Abstract!vars
<1>3. CASE /\ UNCHANGED storage
           /\ ret' = Answer("erase", k, Nothing, "NOT_FOUND", Nothing)
           /\ k \notin DOMAIN DictOf(storage)
  <2>1. RetSeen' = Abstract!Answer("remove", k, Nothing, "NOT_FOUND", Nothing)
    BY <1>3, AnswerSeen DEF Seen
  <2>2. UNCHANGED Contents /\ k \notin DOMAIN Contents
    BY <1>1, <1>3
  <2>3. Abstract!Remove(k)
    BY <2>1, <2>2 DEF Abstract!Remove, Abstract!Present
  <2> QED BY <2>3 DEF Abstract!Next
<1>4. CASE /\ DictOf(storage') = Drop(DictOf(storage), k)
           /\ k \in DOMAIN DictOf(storage)
           /\ \E p \in Nat :
                /\ ret' = Answer("erase", k, Nothing, "OK", p)
                /\ storage'[p].value = DictOf(storage)[k]
  <2>1. PICK p \in Nat : /\ ret' = Answer("erase", k, Nothing, "OK", p)
                         /\ storage'[p].value = DictOf(storage)[k]
    BY <1>4
  <2>2. p # Nothing
    BY NothingAssumption
  <2>3. RetSeen' = Abstract!Answer("remove", k, Nothing, "OK", Contents[k])
    BY <1>1, <2>1, <2>2, AnswerSeen DEF Seen
  <2>4. Contents' = Abstract!Drop(k) /\ k \in Abstract!Present
    BY <1>1, <1>4 DEF Drop, Abstract!Drop, Abstract!Present
  <2>5. Abstract!Remove(k)
    BY <2>3, <2>4 DEF Abstract!Remove
  <2> QED BY <2>5 DEF Abstract!Next
<1> QED BY <1>2, <1>3, <1>4, EraseOutcome

LEMMA FindSimulates ==
  ASSUME HInv, NEW k \in Key, Find(k)
  PROVE  [Abstract!Next]_Abstract!vars
<1>1. Contents = DictOf(storage) /\ Contents' = DictOf(storage') /\ UNCHANGED storage
  BY ContentsIs, ContentsIsNext, FindOutcome
<1>2. UNCHANGED Contents
  BY <1>1
<1>3. CASE UNCHANGED ret
  <2>1. UNCHANGED RetSeen
    BY <1>1, <1>3 DEF RetSeen
  <2> QED BY <1>2, <2>1 DEF Abstract!vars
<1>4. CASE /\ ret' = Answer("find", k, Nothing, "NOT_FOUND", Nothing)
           /\ k \notin DOMAIN DictOf(storage)
  <2>1. RetSeen' = Abstract!Answer("find", k, Nothing, "NOT_FOUND", Nothing)
    BY <1>4, AnswerSeen DEF Seen
  <2>2. Abstract!Find(k)
    BY <1>1, <1>2, <1>4, <2>1 DEF Abstract!Find, Abstract!Present
  <2> QED BY <2>2 DEF Abstract!Next
<1>5. CASE /\ k \in DOMAIN DictOf(storage)
           /\ \E p \in Nat :
                /\ ret' = Answer("find", k, Nothing, "OK", p)
                /\ storage'[p].value = DictOf(storage)[k]
  <2>1. PICK p \in Nat : /\ ret' = Answer("find", k, Nothing, "OK", p)
                         /\ storage'[p].value = DictOf(storage)[k]
    BY <1>5
  <2>2. p # Nothing
    BY NothingAssumption
  <2>3. RetSeen' = Abstract!Answer("find", k, Nothing, "OK", Contents[k])
    BY <1>1, <2>1, <2>2, AnswerSeen DEF Seen
  <2>4. Abstract!Find(k)
    BY <1>1, <1>2, <1>5, <2>3 DEF Abstract!Find, Abstract!Present
  <2> QED BY <2>4 DEF Abstract!Next
<1> QED BY <1>3, <1>4, <1>5, FindOutcome

LEMMA EmptySimulates ==
  ASSUME HInv, Deinit \/ InitWithOptions
  PROVE  Abstract!Next
<1>1. HInv' /\ DictOf(storage') = [x \in {} |-> Nothing]
  BY DeinitOutcome, InitOutcome
<1>2. Contents' = [x \in {} |-> Nothing]
  BY <1>1, ContentsIsNext
<1>3. PICK op \in {"init", "deinit"}, status \in {"OK", "OOM"} :
        ret' = Answer(op, Nothing, Nothing, status, Nothing)
  BY DeinitOutcome, InitOutcome
<1>4. RetSeen' = Abstract!Answer(op, Nothing, Nothing, status, Nothing)
  BY <1>3, AnswerSeen DEF Seen
<1>5. Abstract!Empty(op)
  BY <1>2, <1>4 DEF Abstract!Empty
<1> QED BY <1>5 DEF Abstract!Next

LEMMA NextSimulates == HInv /\ [Next]_vars => [Abstract!Next]_Abstract!vars
<1>1. SUFFICES ASSUME HInv, [Next]_vars PROVE [Abstract!Next]_Abstract!vars
  OBVIOUS
<1>2. CASE \E k \in Key, v \in Value \cup {Nothing} : Insert(k, v)
  BY <1>1, <1>2, InsertSimulates
<1>3. CASE \E k \in Key : Erase(k)
  BY <1>1, <1>3, EraseSimulates
<1>4. CASE \E k \in Key : Find(k)
  BY <1>1, <1>4, FindSimulates
<1>5. CASE Deinit \/ InitWithOptions
  BY <1>1, <1>5, EmptySimulates
<1>6. CASE UNCHANGED vars
  <2>1. UNCHANGED Contents
    BY <1>6 DEF vars, Contents, Live, SlotOf
  <2>2. UNCHANGED RetSeen
    BY <1>6 DEF vars, RetSeen
  <2> QED BY <2>1, <2>2 DEF Abstract!vars
<1> QED BY <1>1, <1>2, <1>3, <1>4, <1>5, <1>6 DEF Next, Spin

(* Whatever collides, is erased, put into tombstones or rehashed, the      *)
(* calls that return answer as those of a dictionary; one that never       *)
(* returns has no answer to give.                                          *)
THEOREM HashmapIsADictionary == Spec => ImplementsDictionary
BY HInvHolds, InitSimulates, NextSimulates, PTL DEF Spec, ImplementsDictionary, Abstract!Spec

-----------------------------------------------------------------------------
(* Tables whose size is a power of two.                                    *)

Triangular(i) == (i * (i + 1)) \div 2

LEMMA TriangularNumber ==
  ASSUME NEW i \in Nat
  PROVE  Triangular(i) \in Nat /\ 2 * Triangular(i) = i * (i + 1)
<1> DEFINE h == i \div 2
<1>1. h \in Nat /\ (i = 2 * h \/ i = 2 * h + 1)
  OBVIOUS
<1> HIDE DEF h
<1>2. PICK c \in Nat : i * (i + 1) = 2 * c
  <2>1. CASE i = 2 * h
    <3>1. i * (i + 1) = 2 * (h * (2 * h + 1)) /\ h * (2 * h + 1) \in Nat
      BY <1>1, <2>1
    <3> QED BY <3>1
  <2>2. CASE i = 2 * h + 1
    <3>1. i * (i + 1) = 2 * ((2 * h + 1) * (h + 1)) /\ (2 * h + 1) * (h + 1) \in Nat
      BY <1>1, <2>2
    <3> QED BY <3>1
  <2> QED BY <1>1, <2>1, <2>2
<1>3. (2 * c) \div 2 = c
  OBVIOUS
<1>4. Triangular(i) = c
  BY <1>2, <1>3 DEF Triangular
<1> QED BY <1>2, <1>4

(* Two turns out of the first table_count look at two slots: the positions *)
(* are apart by half of (j - i) * (j + i + 1), of which one factor is odd, *)
(* so that twice the table size would have to divide the other, which is   *)
(* smaller.                                                                *)
LEMMA TurnsDiffer ==
  ASSUME NEW e \in Nat, NEW tc, tc = TwoTo[e], NEW h \in Nat,
         NEW i \in 0 .. (tc - 1), NEW j \in 0 .. (tc - 1), i < j,
         (h + Triangular(i)) % tc = (h + Triangular(j)) % tc
  PROVE  FALSE
<1>1. tc \in Nat \ {0} /\ TwoTo[e + 1] = 2 * tc /\ e + 1 \in Nat
  BY TwoToPositive, TwoToSteps
<1>2. i \in Nat /\ j \in Nat
  OBVIOUS
<1> DEFINE ti == Triangular(i)
           tj == Triangular(j)
<1>3. ti \in Nat /\ tj \in Nat /\ 2 * ti = i * (i + 1) /\ 2 * tj = j * (j + 1)
  BY <1>2, TriangularNumber
<1>4. (h + ti) % tc = (h + tj) % tc
  OBVIOUS
<1> HIDE DEF ti, tj
<1> DEFINE low == j - i
           high == j + i + 1
<1>5. low \in Nat /\ high \in Nat /\ low > 0 /\ high > 0 /\ low < 2 * tc /\ high < 2 * tc
  BY <1>1, <1>2
<1>6. low * high = 2 * (tj - ti)
  <2>1. low * high = j * (j + 1) - i * (i + 1)
    BY <1>2
  <2> QED BY <1>3, <2>1
<1> DEFINE qi == (h + ti) \div tc
           qj == (h + tj) \div tc
           r == (h + ti) % tc
<1>7. /\ h + ti = tc * qi + r /\ h + tj = tc * qj + r
      /\ qi \in Nat /\ qj \in Nat /\ r \in Nat
  <2>1. ASSUME NEW x \in Nat
        PROVE  /\ x = tc * (x \div tc) + (x % tc)
               /\ x \div tc \in Nat
               /\ x % tc \in Nat
    <3> DEFINE q == x \div tc
               o == x % tc
    <3>1. q \in Nat /\ o \in Nat /\ x = tc * q + o
      BY ONLY <1>1, x \in Nat
    <3> QED BY <3>1
  <2>2. h + ti \in Nat /\ h + tj \in Nat
    BY <1>3
  <2> QED BY <1>4, <2>1, <2>2
<1> HIDE DEF qi, qj, r
<1> DEFINE c == qj - qi
<1>8. tj - ti = tc * c
  <2>1. tc * c = tc * qj - tc * qi
    BY <1>1, <1>7
  <2>2. tc * qj \in Nat /\ tc * qi \in Nat
    BY <1>1, <1>7
  <2> QED BY <1>3, <1>7, <2>1, <2>2
<1>9. low * high = (2 * tc) * c
  <2>1. (2 * tc) * c = 2 * (tc * c)
    BY <1>1, <1>7
  <2> QED BY <1>6, <1>8, <2>1
<1>10. low % 2 = 1 \/ high % 2 = 1
  BY <1>2
<1>11. c \in Int
  BY <1>7
<1> HIDE DEF c, low, high
<1>12. c \in Nat
  <2>1. SUFFICES ASSUME c <= -1 PROVE FALSE
    BY <1>11
  <2>2. (2 * tc) * c < 0
    BY <1>1, <1>11, <2>1
  <2>3. low * high > 0 /\ low * high \in Nat
    BY <1>5
  <2> QED BY <1>9, <2>2, <2>3
<1> DEFINE m == TwoTo[e + 1]
<1>13. m = 2 * tc
  BY <1>1
<1>14. \A x \in Nat : x > 0 /\ x < 2 * tc => ~ Divides(m, x)
  <2>1. SUFFICES ASSUME NEW x \in Nat, x > 0, x < 2 * tc, NEW q \in Nat, x = (2 * tc) * q
                 PROVE  FALSE
    BY <1>13 DEF Divides
  <2>2. CASE q = 0
    BY <1>1, <2>1, <2>2
  <2>3. CASE q >= 1
    <3>1. (2 * tc) * q >= 2 * tc
      BY <1>1, <2>3
    <3> QED BY <1>1, <2>1, <3>1
  <2> QED BY <2>1, <2>2, <2>3
<1>15. Divides(m, low * high)
  BY <1>9, <1>12, <1>13 DEF Divides
<1>16. low * high = high * low
  BY <1>5
<1>17. CASE low % 2 = 1
  <2>1. Divides(m, high)
    BY <1>1, <1>5, <1>15, <1>17, OddFactorGoes
  <2> QED BY <1>5, <1>14, <2>1
<1>18. CASE high % 2 = 1
  <2>1. Divides(m, high * low)
    BY <1>15, <1>16
  <2>2. Divides(m, low)
    BY <1>1, <1>5, <1>18, <2>1, OddFactorGoes
  <2> QED BY <1>5, <1>14, <2>2
<1> QED BY <1>10, <1>17, <1>18

(* The first table_count turns of a walk look at every slot.               *)
LEMMA WalkVisitsEverySlot ==
  ASSUME NEW e \in Nat, NEW tc, tc = TwoTo[e], NEW k \in Key, NEW p \in 0 .. (tc - 1)
  PROVE  \E i \in Turns(tc) : Pos(k, tc, i) = p
<1>1. tc \in Nat \ {0}
  BY TwoToPositive
<1> DEFINE S == 0 .. (tc - 1)
           f == [i \in S |-> Pos(k, tc, i)]
<1>2. S \subseteq Turns(tc)
  BY <1>1 DEF Turns
<1>3. f \in [S -> S]
  BY <1>1, <1>2, PosRange
<1>4. ASSUME NEW i \in S, NEW j \in S, f[i] = f[j]
      PROVE  i = j
  <2> DEFINE h == HashWrapper(k)
  <2>1. h \in Nat
    BY HashWrapperRange, MaxHashAssumption
  <2>2. (h + Triangular(i)) % tc = (h + Triangular(j)) % tc
    BY <1>4 DEF Pos, Triangular
  <2> HIDE DEF h
  <2>3. ~ (i < j)
    BY <2>1, <2>2, TurnsDiffer
  <2>4. ~ (j < i)
    BY <2>1, <2>2, TurnsDiffer
  <2> QED BY <1>1, <2>3, <2>4
<1>5. f \in Injection(S, S)
  <2> HIDE DEF f, S
  <2>1. DOMAIN f = S
    BY <1>3
  <2>2. IsInjective(f)
    BY ONLY <1>4, <2>1 DEF IsInjective
  <2> QED BY ONLY <1>3, <2>2 DEF Injection
<1>6. IsFiniteSet(S)
  <2>1. 0 \in Int /\ tc - 1 \in Int
    BY <1>1
  <2> QED BY ONLY <2>1, FS_Interval
<1> HIDE DEF f
<1>7. f \in Surjection(S, S)
  BY <1>5, <1>6, FS_Injection
<1>8. \E i \in S : f[i] = p
  BY <1>7 DEF Surjection
<1> QED BY <1>2, <1>8 DEF f

(* In a table whose size is a power of two, whatever power, a walk that    *)
(* can end does: the first table_count turns visit every slot, so that one *)
(* of them meets an unused slot if there is one.                           *)
THEOREM PowerOfTwoWalksReturn == Spec => []PowerOfTwoWalksEnd
<1>1. ASSUME HInv, IsPowerOfTwo(table_count),
             NEW p \in DOMAIN storage, storage[p].mark = UNUSED,
             NEW k \in Key
      PROVE  WalkEnds(storage, table_count, k)
  <2>1. PICK e \in Nat : TwoTo[e] = table_count
    BY <1>1 DEF IsPowerOfTwo
  <2>2. storage # Null
    BY <1>1 DEF Null
  <2>3. p \in 0 .. (table_count - 1)
    BY <1>1, <2>2 DEF HInv, GoodTable
  <2>4. PICK i \in Turns(table_count) : Pos(k, table_count, i) = p
    BY <2>1, <2>3, WalkVisitsEverySlot
  <2>5. i \in Ends(storage, table_count, k)
    BY <1>1, <2>4 DEF Ends
  <2> QED BY <2>5 DEF WalkEnds
<1>2. HInv => PowerOfTwoWalksEnd
  BY <1>1 DEF PowerOfTwoWalksEnd
<1> QED BY <1>2, HInvHolds, PTL
=============================================================================
