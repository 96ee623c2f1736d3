------------------------------- MODULE Hashmap -------------------------------
(***************************************************************************)
(* src/cstructures/src/hashmap.c: open addressing with quadratic probing.  *)
(*                                                                         *)
(* A slot holds the hash of its key (or one of the marks HM_SLOT_UNUSED    *)
(* and HM_SLOT_RIP, a tombstone), the key and the value; an erased slot    *)
(* keeps the bytes of both.  A probe walks from slot to slot until it      *)
(* meets its key or an unused slot.  Nothing bounds the walk, so a call    *)
(* whose walk meets neither never returns: `hung` says that one has not.   *)
(***************************************************************************)
EXTENDS Integers, FiniteSets, Powers

CONSTANTS
  Key,             \* the keys
  Value,           \* the values
  Hash,            \* hm->hash: a function from the keys to 0 .. MaxHash
  MaxHash,         \* the largest cs_hash32
  InitialCounts,   \* the table_counts handed to hashmap_init_with_options
  RehashAtPercent, \* HM_REHASH_AT_PERCENT
  ExpandFactor,    \* HM_EXPAND_FACTOR
  SizeLimit,       \* the values of a cs_hash32, at which the counts wrap
  MaxTableCount,   \* bound: the table size the model lets a map grow to
  Nothing          \* no key, no value, or an answer that is only a status

UNUSED == 0          \* HM_SLOT_UNUSED
RIP == 1             \* HM_SLOT_RIP
INVALID == MaxHash   \* HM_SLOT_INVALID, (cs_hash32)-1

ASSUME MaxHashAssumption == MaxHash \in Nat /\ MaxHash > 3
ASSUME HashAssumption == Hash \in [Key -> 0 .. MaxHash]
ASSUME InitialCountsAssumption == InitialCounts \subseteq 1 .. (SizeLimit - 1)
ASSUME SizeLimitAssumption == SizeLimit \in Nat /\ SizeLimit > 100
ASSUME RehashAtPercentAssumption == RehashAtPercent \in 1 .. 100
ASSUME ExpandFactorAssumption == ExpandFactor \in Nat \ {0, 1}
ASSUME NothingAssumption == Nothing \notin Key /\ Nothing \notin Value /\ Nothing \notin Nat

(* 70 and 3 in the code: a table that has grown has room for one entry     *)
(* more than it had slots.                                                 *)
ASSUME RoomAssumption == RehashAtPercent * ExpandFactor > 200

(* The model's tables stay below the size at which their growth wraps.     *)
ASSUME TableBoundAssumption ==
  MaxTableCount \in Nat /\ \A tc \in InitialCounts \cup {MaxTableCount} : tc * ExpandFactor < SizeLimit

VARIABLES
  storage,      \* the slots, with an empty domain when there is no storage
  table_count,  \* their number
  slots_used,   \* the number of entries, hashmap_count
  hung,         \* does a call probe forever?
  ret           \* the last call that returned

vars == <<storage, table_count, slots_used, hung, ret>>

-----------------------------------------------------------------------------
(* Probing.                                                                *)

Blank == [mark |-> UNUSED, key |-> Nothing, value |-> Nothing]
BlankTable(tc) == [p \in 0 .. (tc - 1) |-> Blank]
Null == [p \in {} |-> Blank]

HashWrapper(k) == IF Hash[k] \in {UNUSED, RIP, INVALID} THEN 2 ELSE Hash[k]

(* Slip: the square instead of the triangular number.                      *)
SquarePos(k, tc, i) == (HashWrapper(k) + i * i) % tc

(* The slot looked at in turn i: pos = hash % table_count, and then pos += *)
(* i in turn i, which adds up to the triangular number of i.               *)
Pos(k, tc, i) == (HashWrapper(k) + (i * (i + 1)) \div 2) % tc

(* Turn i + 2 * tc looks where turn i did, so these are all there is.      *)
Turns(tc) == 0 .. (2 * tc - 1)

Holds(slot, k) == slot.mark = HashWrapper(k) /\ slot.key = k

(* Slip: a tombstone ends the walk as an unused slot does.                 *)
EndsAtTombstone(t, tc, k) ==
  {i \in Turns(tc) : t[Pos(k, tc, i)].mark \in {UNUSED, RIP} \/ Holds(t[Pos(k, tc, i)], k)}

(* The turns at which a walk for k may end, and the first one.             *)
Ends(t, tc, k) ==
  {i \in Turns(tc) : t[Pos(k, tc, i)].mark = UNUSED \/ Holds(t[Pos(k, tc, i)], k)}
WalkEnds(t, tc, k) == Ends(t, tc, k) # {}
LastTurn(t, tc, k) ==
  LET ends == Ends(t, tc, k)
  IN  CHOOSE i \in ends : \A j \in ends : i <= j

(* The slot the walk of find, erase and insert ends on.                    *)
WalkTo(t, tc, k) == Pos(k, tc, LastTurn(t, tc, k))
IsHit(t, tc, k) == WalkEnds(t, tc, k) /\ Holds(t[WalkTo(t, tc, k)], k)

(* The turns before the last that met a tombstone.                         *)
Tombstones(t, tc, k) ==
  LET last == LastTurn(t, tc, k)
  IN  {i \in Turns(tc) : i < last /\ t[Pos(k, tc, i)].mark = RIP}

(* Where insert puts a key that is not there: the last tombstone on the    *)
(* way, else the unused slot at the end.                                   *)
PlaceFor(t, tc, k) ==
  LET stones == Tombstones(t, tc, k)
  IN  IF stones = {}
      THEN WalkTo(t, tc, k)
      ELSE Pos(k, tc, CHOOSE i \in stones : \A j \in stones : j <= i)

(* The entry written over a slot; without a value the slot keeps the bytes *)
(* it has, those of an erased entry or (Nothing) of fresh storage.         *)
Entry(slot, k, v) ==
  [mark |-> HashWrapper(k), key |-> k, value |-> IF v = Nothing THEN slot.value ELSE v]
Filled(t, tc, k, v) == [t EXCEPT ![PlaceFor(t, tc, k)] = Entry(@, k, v)]

IsLive(slot) == slot.mark \notin {UNUSED, RIP}

-----------------------------------------------------------------------------
(* resize_rehash: the live slots of the old table, in the order of their   *)
(* indices, inserted into a blank one.                                     *)

Refill(t, new_count, slot) ==
  IF IsLive(slot) THEN Filled(t, new_count, slot.key, slot.value) ELSE t

(* Slip: the last slot is forgotten.                                       *)
RehashedButLast(new_count) ==
  LET filled[n \in 0 .. table_count] ==
        IF n = 0 THEN BlankTable(new_count)
        ELSE IF n < table_count THEN Refill(filled[n - 1], new_count, storage[n - 1])
        ELSE filled[n - 1]
  IN  filled[table_count]

(* The new table after each slot of the old one.                           *)
Refilled(new_count) ==
  LET filled[n \in 0 .. table_count] ==
        IF n = 0 THEN BlankTable(new_count)
        ELSE Refill(filled[n - 1], new_count, storage[n - 1])
  IN  filled

Rehashed(new_count) == Refilled(new_count)[table_count]

(* Every insertion into the new table returns.                             *)
RehashEnds(new_count) ==
  LET filled == Refilled(new_count)
  IN  \A n \in 0 .. (table_count - 1) :
        IsLive(storage[n]) => WalkEnds(filled[n], new_count, storage[n].key)

(* Slip: grows by one slot.                                                *)
GrownByOne(tc) == tc + 1

GrownCount(tc) == (tc * ExpandFactor) % SizeLimit

(* The product wraps: a table with very many entries looks empty.          *)
NeedsRehash == ((slots_used * 100) % SizeLimit) \div table_count >= RehashAtPercent

Answer(op, key, value, status, out) ==
  [op |-> op, key |-> key, value |-> value, status |-> status, out |-> out]

-----------------------------------------------------------------------------
(* Operations.                                                             *)

Init ==
  /\ table_count \in InitialCounts
  /\ storage = BlankTable(table_count)
  /\ slots_used = 0
  /\ hung = FALSE
  /\ ret = Answer("init", Nothing, Nothing, "OK", Nothing)

IsOpen == storage # Null /\ ~ hung

(* hashmap_deinit, and hashmap_init_with_options on the object again.      *)
Deinit ==
  /\ IsOpen
  /\ storage' = Null
  /\ ret' = Answer("deinit", Nothing, Nothing, "OK", Nothing)
  /\ UNCHANGED <<table_count, slots_used, hung>>

InitWithOptions ==
  /\ storage = Null
  /\ table_count' \in InitialCounts
  /\ slots_used' = 0
  /\ UNCHANGED hung
  /\ \/ /\ storage' = BlankTable(table_count')
        /\ ret' = Answer("init", Nothing, Nothing, "OK", Nothing)
     \/ /\ UNCHANGED storage
        /\ ret' = Answer("init", Nothing, Nothing, "OOM", Nothing)

(* A walk that does not end: its call never returns, and what that call    *)
(* has done to the table so far nobody sees any more.                      *)
Hang ==
  /\ hung' = TRUE
  /\ UNCHANGED <<storage, table_count, slots_used, ret>>

(* The rest of hashmap_insert, on table t with tc slots.                   *)
InsertInto(t, tc, k, v) ==
  \/ /\ ~ WalkEnds(t, tc, k)
     /\ Hang
  \/ /\ IsHit(t, tc, k)
     /\ storage' = t
     /\ table_count' = tc
     /\ ret' = Answer("insert", k, v, "EXISTS", Nothing)
     /\ UNCHANGED <<slots_used, hung>>
  \/ /\ WalkEnds(t, tc, k) /\ ~ IsHit(t, tc, k)
     /\ storage' = Filled(t, tc, k, v)
     /\ table_count' = tc
     /\ slots_used' = slots_used + 1
     /\ ret' = Answer("insert", k, v, "OK", Nothing)
     /\ UNCHANGED hung

(* v is Nothing when the caller hands over no value.                       *)
Insert(k, v) ==
  /\ IsOpen
  /\ \/ /\ ~ NeedsRehash
        /\ InsertInto(storage, table_count, k, v)
     \/ /\ NeedsRehash
        /\ LET new_count == GrownCount(table_count)
           IN  /\ new_count <= MaxTableCount
               /\ IF RehashEnds(new_count)
                  THEN InsertInto(Rehashed(new_count), new_count, k, v)
                  ELSE Hang
     \/ /\ NeedsRehash
        /\ ret' = Answer("insert", k, v, "OOM", Nothing)
        /\ UNCHANGED <<storage, table_count, slots_used, hung>>

(* Slips: the slot is marked unused instead of dead; the count stays; the  *)
(* count drops whether the key was there or not.                           *)
EraseToUnused(k) ==
  /\ IsOpen
  /\ IsHit(storage, table_count, k)
  /\ storage' = [storage EXCEPT ![WalkTo(storage, table_count, k)].mark = UNUSED]
  /\ slots_used' = slots_used - 1
  /\ ret' = Answer("erase", k, Nothing, "OK", WalkTo(storage, table_count, k))
  /\ UNCHANGED <<table_count, hung>>

EraseUncounted(k) ==
  /\ IsOpen
  /\ IsHit(storage, table_count, k)
  /\ storage' = [storage EXCEPT ![WalkTo(storage, table_count, k)].mark = RIP]
  /\ ret' = Answer("erase", k, Nothing, "OK", WalkTo(storage, table_count, k))
  /\ UNCHANGED <<table_count, slots_used, hung>>

EraseCountsMisses(k) ==
  /\ IsOpen
  /\ WalkEnds(storage, table_count, k)
  /\ storage' = [storage EXCEPT ![WalkTo(storage, table_count, k)].mark = RIP]
  /\ slots_used' = slots_used - 1
  /\ ret' = Answer("erase", k, Nothing, "OK", WalkTo(storage, table_count, k))
  /\ UNCHANGED <<table_count, hung>>

(* The answer is the slot whose value the returned pointer points to.      *)
Erase(k) ==
  /\ IsOpen
  /\ UNCHANGED table_count
  /\ \/ /\ ~ WalkEnds(storage, table_count, k)
        /\ Hang
     \/ /\ IsHit(storage, table_count, k)
        /\ storage' = [storage EXCEPT ![WalkTo(storage, table_count, k)].mark = RIP]
        /\ slots_used' = slots_used - 1
        /\ ret' = Answer("erase", k, Nothing, "OK", WalkTo(storage, table_count, k))
        /\ UNCHANGED hung
     \/ /\ WalkEnds(storage, table_count, k) /\ ~ IsHit(storage, table_count, k)
        /\ ret' = Answer("erase", k, Nothing, "NOT_FOUND", Nothing)
        /\ UNCHANGED <<storage, slots_used, hung>>

Find(k) ==
  /\ IsOpen
  /\ UNCHANGED <<storage, table_count, slots_used>>
  /\ \/ /\ ~ WalkEnds(storage, table_count, k)
        /\ Hang
     \/ /\ IsHit(storage, table_count, k)
        /\ ret' = Answer("find", k, Nothing, "OK", WalkTo(storage, table_count, k))
        /\ UNCHANGED hung
     \/ /\ WalkEnds(storage, table_count, k) /\ ~ IsHit(storage, table_count, k)
        /\ ret' = Answer("find", k, Nothing, "NOT_FOUND", Nothing)
        /\ UNCHANGED hung

(* A walk that meets neither its key nor an unused slot goes on.           *)
Spin == hung /\ UNCHANGED vars

Next ==
  \/ \E k \in Key, v \in Value \cup {Nothing} : Insert(k, v)
  \/ \E k \in Key : Erase(k)
  \/ \E k \in Key : Find(k)
  \/ Deinit
  \/ InitWithOptions
  \/ Spin

Spec == Init /\ [][Next]_vars

-----------------------------------------------------------------------------
(* What a caller sees: HASHMAP_FOR_EACH meets the live slots.              *)

Live == {p \in DOMAIN storage : storage[p].mark \notin {UNUSED, RIP, INVALID}}
SlotOf(k) == CHOOSE p \in Live : storage[p].key = k
Contents == [k \in {storage[p].key : p \in Live} |-> storage[SlotOf(k)].value]

(* The last answer in the words of Dictionary, with the pointer followed.  *)
RetSeen ==
  [ret EXCEPT !.op = CASE @ = "insert" -> IF ret.value = Nothing THEN "insert_key" ELSE "insert_new"
                       [] @ = "erase" -> "remove"
                       [] OTHER -> @,
              !.out = IF @ = Nothing THEN Nothing ELSE storage[@].value]

Abstract == INSTANCE Dictionary
            WITH InvalidKey <- Nothing, dict <- Contents, ret <- RetSeen

-----------------------------------------------------------------------------
(* Properties.                                                             *)

TypeOK ==
  /\ \A p \in DOMAIN storage : storage[p] \in
       [mark : 0 .. MaxHash, key : Key \cup {Nothing}, value : Value \cup {Nothing}]
  /\ storage = Null \/ DOMAIN storage = 0 .. (table_count - 1)
  /\ table_count \in Nat \ {0}
  /\ slots_used \in Nat
  /\ hung \in BOOLEAN

(* A walk for the key of a live slot ends on that very slot: no unused     *)
(* slot and no twin of the key lies before it, however the tombstones on   *)
(* the way were made and filled again, and after every rehash.             *)
EveryEntryIsFound ==
  \A p \in DOMAIN storage : IsLive(storage[p]) =>
    /\ storage[p].mark = HashWrapper(storage[p].key)
    /\ IsHit(storage, table_count, storage[p].key)
    /\ WalkTo(storage, table_count, storage[p].key) = p

(* slots_used, which decides when to rehash and is never computed anew, is *)
(* the number of live slots that HASHMAP_FOR_EACH meets.                   *)
CountsEntries == storage # Null => slots_used = Cardinality(Live)

(* The comment at the probing loops: in a table whose size is a power of   *)
(* two the walk visits every slot, so that it ends if one is unused.       *)
PowerOfTwoWalksEnd ==
  /\ IsPowerOfTwo(table_count)
  /\ \E p \in DOMAIN storage : storage[p].mark = UNUSED
  => \A k \in Key : WalkEnds(storage, table_count, k)

(* A rehash leaves the table below the mark at which it would rehash       *)
(* again, the new entry included: the insertions resize_rehash makes never *)
(* call it in turn, and neither does the next one.                         *)
RehashMakesRoom ==
  [][table_count' > table_count =>
       slots_used' * 100 < RehashAtPercent * table_count']_vars

(* Insert, erase and find do to the entries what they do to a dictionary,  *)
(* and answer the same, through collisions, tombstones, rehashing and      *)
(* rehashing that fails; the pointer erase returns still shows the value.  *)
ImplementsDictionary == Abstract!Spec

(* test_hashmap.cpp expects hashmap_erase of a key that is not there to    *)
(* return NULL: every call returns.                                        *)
CallsReturn == ~ hung
=============================================================================
