# cstructures, specified

cstructures is a C library of containers: a btree (in fact a sorted array), a
hashmap and a vector, strings built on the vector, and a debugging layer over the
allocator built on the hashmap. The modules here say what the containers promise
their callers, model how `src/cstructures/src/*.c` does it, check the two against
each other with TLC, and prove with TLAPS, for all sizes, that the btree, the hashmap
and the vector are the dictionary and the list they promise to be.

Paths below are relative to `src/cstructures/`.

The library is sequential and keeps nothing on disk: there are no threads,
messages or restarts. What makes it hard is

- allocations that fail half way through an operation, or after one has started
  to move data;
- index and address arithmetic at the ends of a block, which is unsigned and wraps;
- data that moves while it is in use: every reallocation of a btree moves its
  values, `vector_push_vector` may move its own source;
- leftovers of long call sequences: tombstones, stale keys behind the last one,
  a capacity that is not what the block has;
- probing loops that nothing bounds.

## 1. Inventory

| component | state it keeps | operations | what makes it correct |
|---|---|---|---|
| **btree** `src/btree.c`, `include/cstructures/btree.h` | `data` (one block: keys, then values at an offset that is the capacity), `count`, `capacity`, `value_size` | init/create, deinit/free, reserve, insert_new, insert_or_get, set_existing, find, find_key, find_and_compare, get_any_value, key_exists, find_unused_key, erase, erase_value, erase_index, erase_internal_value, clear, compact | keys strictly ascending; entries fit capacity, capacity fits block; no entry lost, torn or given another's value by a shift, a growth, a shrink or a failed allocation |
| **btree iteration** macros in `btree.h` | an index held by the `for` statement, over the live btree | `BTREE_FOR_EACH`, `BTREE_KEYS_FOR_EACH`, `BTREE_ERASE_CURRENT_ITEM_IN_FOR_LOOP` | every item met once, in order, also behind erased items; the loop ends although the index wraps below 0 |
| **hashmap** `src/hashmap.c` | `storage` (hashes with marks unused/tombstone, keys, values), `table_count`, `slots_used` | init/create with options, deinit, insert with resize_rehash, erase, find, `HASHMAP_FOR_EACH` | a live entry is found behind any tombstones; `slots_used` is the number of entries; a rehash loses nothing, also when it fails; every call returns |
| **vector** `src/vector.c` | `data` (elements, room, one scratch element behind the capacity), `capacity`, `count`, `element_size` | emplace, push, insert, insert_emplace, push_vector, pop, back, get_element, find_element, erase_index, erase_element, reverse, reserve, resize, clear, compact, clear_compact | a list; the scratch element always exists; a refused call changes nothing |
| **memory accounting** `src/memory.c` | a hashmap from addresses to reports, counters, the flag `g_ignore_hm_malloc` that stops its own allocations from being reported | MALLOC, REALLOC, FREE, memory_init, memory_deinit | the report lists the blocks in use and nothing else, its own storage least of all; bytes never wrap below 0; the leaks answered are the blocks in use |
| **string** `src/string.c` | a vector of characters; the tokenizer's save pointer | create, init, deinit, destroy, getline, tokenize | lines and tokens in order, none lost when a push fails |
| **hash functions** `src/hash.c` | none | jenkins one-at-a-time, pointers, combine | fixed output |
| **initialisation** `src/init.c` | none of its own | hands on to memory_init and memory_deinit | |
| **backtrace** `src/platform/*` | none | asks the C library for a call stack | |
| tests, benchmarks, `thirdparty/` | | | read for what they expect of the library |

How they interact: all containers allocate through `MALLOC`, `REALLOC` and `FREE`,
which are either the C library's or, in debug builds, those of the memory
accounting; that one keeps its report in a hashmap and so calls itself, which its
ignore flag stops. Strings are vectors. The iteration macros expand in the
caller's code and share the btree's fields with it. There are no callbacks except
the hash function a hashmap is given. The containers depend on each other in no
other way, so each is modelled by itself, over an allocator that may fail at
every call; the two that stand on another container use it by what its module
promises: `MemoryReport` the hashmap by `Dictionary`, `StringReader` the vector by
`GrowableList`.

`PROJECT.json` lists under "hazards" the places, by line, where this code is hard
to test, and the properties aimed at each.

## 2. Modules

    operators        SortedKeys, HeapBlock, Powers
    algorithm        BinarySearch            EXTENDS SortedKeys, Powers
    containers       Btree                   EXTENDS SortedKeys, HeapBlock
                     Vector                  EXTENDS HeapBlock
                     Hashmap                 EXTENDS Powers
    on containers    MemoryReport            over what Hashmap promises
                     StringReader            over what Vector promises
    composition      BtreeForEach            EXTENDS Btree
    abstract         Dictionary              implemented by Btree and by Hashmap
                     GrowableList            implemented by Vector
    for TLC          MCBtree, MCBtreeForEach, MCHashmap, MCMemoryReport
    proofs           SortedKeysProofs        lemmas the others share
                     BinarySearchProofs      EXTENDS BinarySearch
                     BtreeProofs             EXTENDS Btree: invariant, refinement, queries, steps
                     BtreeForEachProofs      EXTENDS BtreeForEach, BtreeProofs
                     HashmapProofs           EXTENDS Hashmap
                     VectorProofs            EXTENDS Vector
                     MemoryReportProofs      EXTENDS MemoryReport
                     StringReaderProofs      EXTENDS StringReader

| module | stands for | remarks |
|---|---|---|
| `SortedKeys` | the order of the keys and the lower bound | what `btree_find_lower_bound` must return, as a definition rather than an algorithm |
| `HeapBlock` | `malloc`, `realloc`, `memmove` on one block | a function from addresses to cells; `Undef` for cells nothing was written to and for cells outside the block |
| `Powers` | the powers of two that a comment in `hashmap.c` and the O(log n) of `btree.h` speak of | a recursive function of the exponent, as the provers know nothing of the operator `^` |
| `Dictionary` | what a btree and a hashmap promise | a map and the answer of the last call; refusals for want of memory are allowed and change nothing |
| `Btree` | `btree.c` | one action per operation, one operator per query |
| `BinarySearch` | the loop of `btree_find_lower_bound` (`btree.c:158-177`) | one turn per step |
| `BtreeForEach` | the macros of `btree.h` | EXTENDS `Btree`: outside a loop any operation, inside it what the body may do |
| `Hashmap` | `hashmap.c` | one action per operation; a probe is its set of turns |
| `GrowableList` | what a vector promises | a sequence and the answer of the last call, over the community module SequencesExt |
| `Vector` | `vector.c` | one action per operation |
| `MemoryReport` | `memory.c`, as compiled for debug builds; `init.c` hands on to it | one action per function; the allocations of the report itself are part of the step they happen in |
| `StringReader` | `string.c` | `string_getline` one character per step, the tokenizer one call per step |
| `MCBtree`, `MCBtreeForEach`, `MCHashmap`, `MCMemoryReport` | nothing in the code | values of the constants for TLC |
| the eight proof modules | nothing in the code | theorems, see section 5 |

### Btree

A cell of the block is one word of the size of a key, the unit of the macros
`BTREE_KEY` and `BTREE_VALUE_CAP`: key *i* is at address *i*, value *i* at
`capacity + ValueSize * i`. So the model sees that the value area moves with the
capacity, that a shift may tear a value of two words, and that a stale or
never-written cell may be read as a key. Addresses count from the beginning of the
block; where that is, is `base`, and `malloc` and every `realloc` that is granted may
put the block in any `Place`, also a `realloc` to the size it has. `Reallocated` is `btree_realloc` in the
code's order: growing allocates and then moves the values, shrinking moves them
and then gives memory back, which may fail. Every allocation is a choice between
success and `"OOM"`. A definition commented as a slip (`ReallocatedByCount`,
`EntryAddedShort`) sits next to the one it gets wrong and `Next` uses none of them:
they are the plausible bugs each property is tried against (section 4).

The code stores through pointers it returns (`insert_or_get`, `find`); the model's
answer is the address in the block, and the refinement mapping follows it when the call
has returned, so that a stale address would show as a wrong value. What a caller
keeps is `Pointer`, the address together with `base`: `EntriesStayPut` names the calls
(`MayMoveBlock`) after which it may be stale.

### BtreeForEach

`phase` is the position in the `for` statement. `idx` is counted modulo
`MaxIndex + 1`, so `idx--` of 0 really is the largest index and `++idx` brings it
back. The body keeps, changes or erases the current item. `before`, `visited` and
`expected` are history for the properties and are reset when the loop ends.

### Hashmap

The triangular probe of turn *i* looks at slot `(hash + i(i+1)/2) % table_count`,
which repeats after `2 * table_count` turns, so a walk that has not ended by then
never ends. Nothing in the code bounds it: the model sets `hung` and stays there
(`Spin`), also when the walk is one of the insertions `resize_rehash` makes into the
new table (`RehashEnds`). Growth multiplies by 3 (`HM_EXPAND_FACTOR`) and so leaves a size that is
no power of two; `resize_rehash` inserts the live entries into a new table in slot
order; its allocation may fail. An erased slot keeps its key and value, which is
how the pointer returned by `hashmap_erase` can still show the value, and why an
insertion with a NULL value shows what was there: an erased value, or whatever
`malloc` left in fresh storage (`Nothing`). The product of the rehash test and the
grown size wrap at `SizeLimit`, which is 2^32 in the code.

### Vector

A cell is one element; cell `capacity` is the scratch element `vector_reverse`
swaps through. `vector_realloc` makes the gap for an insertion while it moves.
Indices are checked by assertions if at all, so a call that runs outside the block
ends the program, and `fault` says which did (`vector_erase_index` behind the last
element, `vector_reverse` of an empty vector).

### MemoryReport

`heap` is the C library's view: the blocks clients hold, with their sizes.
`report` is what the hashmap `g_report` holds, `storage` where its own block is. A
client's call is one step, and everything it makes the report do is in it:
`Inserted` gives every outcome of `hashmap_insert`, among them the growth of the
report, which calls `cstructures_malloc` and `cstructures_free` again while
`g_ignore_hm_malloc` is up. Those nested calls count (`nested`) and are not
recorded. Blocks are placed anywhere not in use, so that the report's storage
may take the place a client's block has just left, and the other way round.
`mishaps` is history: "record" for an insertion the report was refused room for,
"realloc" and "realloc null" for a refused reallocation of a block and of the null
pointer; the properties say what still holds after each. Clients free and
reallocate blocks they hold, or the null pointer. The flag is not a variable:
it is up exactly during the nested calls.

### StringReader

A step of `Read` is one turn of the loop of `string_getline`: `IgnoreCarriage`,
`IgnoreEmptyLine`, `CompleteLine`, `ReadLetter` and `EndOfFile` are its branches. A push
appends or is refused. Between two calls the caller tokenizes the string it got
(`TokenizeFirst`, `TokenizeNext`), as often as it likes and from the start again,
though the tokenizer has cut the string by then. The strings expected are
defined from the whole text, without the loop (`LinesOfText`, `Pieces`), as what
lies between the positions of a delimiter, in order. `InOrder` and `Kept` stand
where the community modules have `SetToSortSeq` and `SelectSeq`, which the provers
cannot expand: an element's place is its rank, so that nothing recurs.

## 3. What the runs check

Each run is a `.cfg` file; all operations are enabled in every order.

| run | states | checks |
|---|---|---|
| `Btree_map` | 43k | values of two words: `TypeOK`, `KeysAscending`, `RoomForEntries`; every query agrees with the entries for every argument (`QueriesAgree`); `find_unused_key` never answers a used key, whatever garbage lies behind the last (`UnusedKeyIsUnused`); only compact and deinit give room back (`OnlyCompactShrinks`); a pointer to a value stays good until compact, which may move the block also when it has nothing to give back, until an insertion into a full btree or a reservation of more than there is, or until a smaller key comes or goes; never is it lost in a call that is refused (`EntriesStayPut`); the btree implements `Dictionary` (`ImplementsDictionary`) |
| `Btree_set` | 21k | `value_size` 0, the other layout: no value area behind the keys, so searches end at the block |
| `BinarySearch` | 8.5k | every ascending array up to length 6 and every key: `Narrowing` (the loop invariant), `ReturnsLowerBound`, `HalvesEachTurn` (the O(log n) of `btree.h`), `Terminates` |
| `BtreeForEach` | 54k | `IndexNamesCurrent`, `OnlyCurrentTouched`, `VisitsInOrder`, `VisitsAll`, `LoopEnds` |
| `Hashmap` | 52k | tables of two and four slots, the smaller growing to six or refused to, keys with reserved and colliding hashes, two values and none: `EveryEntryIsFound`, `CountsEntries`, `PowerOfTwoWalksEnd`, `ImplementsDictionary`, and `RehashMakesRoom`: neither the insertions a rehash makes nor the next one rehash in turn |
| `Vector` | 70k | `TypeOK`, `RoomForElements`, `RefusalChangesNothing`, and the vector implements `GrowableList` (`ImplementsList`), also when pushed to its own end |
| `MemoryReport` | 115k | the report lists blocks in use with their sizes, all of them unless a mishap came in between (`ReportMatchesHeap`); bytes in use cover the report and never wrap (`BytesCoverReport`, `TypeOK`); the report's own storage, which moves as it grows, is never in it (`ReportOmitsItself`); the leaks `memory_deinit` would answer are the blocks in use, through all nested allocations and refused entries (`LeaksAreBlocksInUse`) |
| `StringReader` | 145k | the strings are the lines of the text, all and in order (`ReadsLinesInOrder`); a refused push costs the part of the line before it and no more (`RefusalLosesBeginnings`); every string has its terminator and a length (`StringsAreTerminated`); tokens are the fields (`TokensAreFields`); every call returns (`GetlineReturns`) |

Four runs show where the code does something else than a comment, a header or a
test of the repository says:

| run | what TLC finds |
|---|---|
| `Btree_existing` | `btree_insert_or_get` grows a full btree before it looks the key up (`btree.c:257`) and answers `BTREE_OOM` with no pointer for a key that is there; `btree.h:161-163` promises a pointer to the existing value |
| `Hashmap_hang` | tombstones do not count towards the rehash test, so insertions and erasures use up the unused slots; erasing or finding an absent key then probes for ever (`hashmap.c:300`), where a test expects `NULL` |
| `MemoryReport_leaks` | a refused realloc of the null pointer is counted as an allocation (`memory.c:124-126`), and `memory_deinit` answers a leak too many; `memory.h:38` promises the number of leaks. A refused realloc of a block erases its entry and records null, from which `memory_deinit` then dumps |
| `StringReader_last` | at the end of the stream `string_getline` returns 0 whatever it has in the buffer (`string.c:74`): a last line without a newline is dropped, though `string.h:37-38` says 0 is for no more strings |

`ImplementsDictionary` holds of the hashmap in spite of `Hashmap_hang` because it
is about calls that return: a hung call changes neither entries nor answer.

Divergences seen while reading that have no run of their own: `btree_erase_index`
moves one entry too many and reads one value from behind a full block
(`btree.c:406`; what it reads lands behind the last entry); `btree_find_unused_key`
reads past the last key (`btree.c:388`; harmless for the answer, as
`UnusedKeyIsUnused` shows); the doc of `btree_find_key` (`btree.h:197-198`) promises
`BTREE_INVALID_KEY` if no value matches, where the code answers `NULL` (`btree.c:331`) and
`test_btree.cpp:360` expects it, so that `QueriesAgree` asks only that no key of the
btree is answered then; the doc of `vector_compact` (`vector.h:75`) says all
elements are erased, the code keeps them; the doc of `vector_get_element`
(`vector.h:231-233`) promises `NULL` for a bad index, the code asserts;
`vector_reverse` of an empty vector swaps outside the block (`vector.c:365`);
`vector_erase_index` behind the last element fails an assertion, or wraps the size
of its `memmove` without assertions (`vector.c:305`), and the test
`erase_invalid_index` (`test_vector.cpp:233`) does it and goes on; the comment of
`btree_find_lower_bound` (`btree.c:151-152`) promises the first key that is less, the
code returns the first that is not less, as `ReturnsLowerBound` says; the comment
in the probing loops (`hashmap.c:263-264`) relies on a table size that is a power of
two, which growth by 3 (`hashmap.c:240`) does not keep: in a table of six slots of
which the probe visits four, an insertion may circle past unused slots;
`string_create` returns 0 on every path and loses the object (`string.c:16`);
`string.h:44` declares `cs_stringtok`, `string.c:79` defines `cs_stringok`;
`memory_init` returns with `g_ignore_hm_malloc` up when it fails (`memory.c:49`).

### Bounds, and why they are enough

- *Btree.* `MaxWord` 2 gives the keys 0, 1 and 2, the largest being also
  `BTREE_INVALID_KEY`. The bound on the capacity is 3 in `Btree_map`, reached in
  one growth from 1 by the factor 3, so that full, partly filled, growing,
  shrinking and failing are all met with entries before, at and behind the
  place an operation works at. Two values of two words differ in both, so that a
  torn value is neither. Two places tell a block that has moved from one that has
  not; they are interchangeable and so under symmetry. The other runs of the btree
  have one place, as their properties are not about pointers. In `Btree_set` five keys compete for four places.
- *BinarySearch.* Lengths 0 to 6 hold every parity of a range over three halvings.
- *BtreeForEach.* Up to three items: erasing first, middle, last and all of them.
  `MaxIndex` 3 makes the index wrap.
- *Hashmap.* Three keys, two with reserved hashes, that all share a home slot of
  four; four slots, or two that grow to six. `SizeLimit` 256 lets the rehash test
  wrap at three entries, so that the table of four slots is not grown where it
  should be; `Hashmap_hang` has four keys and a `SizeLimit` nothing reaches. `MaxHash` 7 keeps the three marks
  apart from the hashes. The probe's period is covered whole.
- *Vector.* Two elements, capacity up to 4, sources up to 2, growth from 2 to 4:
  self-push with and without reallocation, insertion at both ends and between.
- *MemoryReport.* Five addresses, interchangeable and so under symmetry, and a
  report of two slots that grows to six at its third entry: up to four client
  blocks beside the storage, growth with every mix of recorded and unrecorded
  ones, and reuse of every address. Six allocations in all and six bytes in use
  (`MaxAllocations`, `MaxBytes`, in the guard of `Record`); sizes 1 and 2 tell an
  old size from a new one.
- *StringReader.* All texts of up to five characters over two letters, the
  delimiter, carriage and newline: two lines with a carriage or an empty line
  between them, and strings with a delimiter at either end or two in a row.
  `MaxCalls` 5 is as many calls as such a string has fields at the most, and more
  than most have, so that the tokenizer is also asked when it has ended.
- `TableBoundAssumption` keeps the sizes of tables below the one at which three times
  the size wraps: 1.4 thousand million slots in the code. Up to there the models and the
  theorems go; what a wrapped size would do is on the hazard list.
- `MaxCapacity` and `MaxTableCount` stand in guards: an operation that would
  grow beyond them is not taken. Everything else an operation may do is. They bound
  TLC only; the proofs hold for every value.

Integers that wrap in the code and matter here do wrap: the loop index, the size
handed to `memmove` (as a fault). Products of sizes (`capacity * value_size`
and the like) wrap only at sizes far beyond these bounds and are taken as natural
numbers: a width narrow enough to wrap among the few cells of a block would wrap
at sizes the code handles. The hazard list names those places.

### Fairness

`BinarySearch` assumes `WF_vars(Next)`: the loop is straight-line code that runs on
until it returns. `BtreeForEach` assumes `WF` of `Body` and of `Increment`: a loop
that has begun goes on, if its body does; nothing is assumed of the caller outside
a loop. `StringReader` assumes `WF` of `Read`: a call of `string_getline` goes on
reading until it returns, and nothing is assumed of its caller. All other specifications are checked for safety only: a library that is
called by nobody may stop for ever, and a call is one step. Where a call may fail
to return, this is a state (`hung`) and not a matter of fairness.

`CHECK_DEADLOCK FALSE` stands only in the configurations of `BinarySearch`, which
returns and stops.

## 4. Mutants

Every property of a passing run has, in `PROJECT.json`, a mutant: a slip next to
the mapped definition (a dropped memmove, a missing check, a tombstone that ends
a walk, an index not stepped back) under which TLC must find the property violated.

## 5. What is proved

With TLAPS, for every value of the constants that satisfies the named assumptions of
the modules. The assumptions say of the code's configuration: a minimum capacity
that is positive, a growth factor of at least 2, and for the hashmap a rehash
percentage from 1 to 100 whose product with the growth factor is over 200
(`RoomAssumption`; 70 times 3 in the code) and tables below the size whose growth
wraps (`TableBoundAssumption`, section 3). Of the caller: values are of
`ValueSize` words, which may be 0, and the hash is any function into a range
that has room beside the three marks. The rest only tells sentinels from data
(`Undef`, `Nothing`, `NullPointer`), and in `StringReader` the characters from each
other; which letters there are, and how many, is left open. `BtreeForEach` assumes that a count fits the
loop's index. Allocations may fail at every call throughout.

| theorem | says |
|---|---|
| `BtreeProofs!InvHolds` | the inductive invariant of the btree |
| `BtreeProofs!TypeCorrect`, `KeysStayAscending`, `EntriesHaveRoom` | `TypeOK`, `KeysAscending`, `RoomForEntries` |
| `BtreeProofs!BtreeIsADictionary` | `ImplementsDictionary`, the refinement |
| `BtreeProofs!QueriesAnswerFromEntries`, `UnusedKeysAreUnused` | `QueriesAgree`, `UnusedKeyIsUnused` |
| `BtreeProofs!ReservationsHold`, `PointersStayGood` | the action properties `OnlyCompactShrinks`, `EntriesStayPut` |
| `BtreeForEachProofs!LoopInvHolds` | the inductive invariant of the loops |
| `BtreeForEachProofs!IndexNamesCurrentItem`, `BodyTouchesCurrentOnly` | `IndexNamesCurrent`, `OnlyCurrentTouched` |
| `BtreeForEachProofs!LoopVisitsInOrder`, `LoopVisitsAll` | the action properties `VisitsInOrder`, `VisitsAll` |
| `BinarySearchProofs!TypeCorrect`, `NarrowingHolds`, `SearchIsCorrect`, `SearchIsLogarithmic` | `TypeOK`, `Narrowing`, `ReturnsLowerBound`, `HalvesEachTurn` |
| `HashmapProofs!HInvHolds` | the inductive invariant of the hashmap |
| `HashmapProofs!TypeCorrect`, `EntriesAreFound`, `EntriesAreCounted` | `TypeOK`, `EveryEntryIsFound`, `CountsEntries` |
| `HashmapProofs!PowerOfTwoWalksReturn` | `PowerOfTwoWalksEnd` |
| `HashmapProofs!RehashingMakesRoom` | the action property `RehashMakesRoom` |
| `HashmapProofs!HashmapIsADictionary` | `ImplementsDictionary`, the refinement |
| `VectorProofs!TypeCorrect`, `ElementsHaveRoom` | `TypeOK`, `RoomForElements`, inductive together |
| `VectorProofs!RefusalsAreHarmless` | the action property `RefusalChangesNothing` |
| `VectorProofs!VectorIsAList` | `ImplementsList`, the refinement |
| `MemoryReportProofs!MInvHolds` | the inductive invariant of the accounting |
| `MemoryReportProofs!TypeCorrect`, `ReportIsOfBlocks`, `BytesAreCovered`, `StorageIsNotReported`, `LeaksAreCounted` | `TypeOK`, `ReportMatchesHeap`, `BytesCoverReport`, `ReportOmitsItself`, `LeaksAreBlocksInUse` |
| `StringReaderProofs!Invariance` | the inductive invariant of the strings |
| `StringReaderProofs!LinesAreRead`, `RefusalsLoseBeginnings`, `StringsTerminated`, `TokensFound` | `ReadsLinesInOrder`, `RefusalLosesBeginnings`, `StringsAreTerminated`, `TokensAreFields` |

*Btree.* `Inv` and `Somewhere`, which types the block's place, are together the three
invariants TLC checks (`InvIsTheInvariants`). `Inv` is stated as `GoodBlock(m, cap, n)`
so that it can be said of the block in the middle of an operation; the place matters to
the pointers alone. None of the three is inductive alone: a
shift keeps the order only if the entries shifted are inside the block, and that
the value area never overwrites a key needs `count <= capacity`. The argument goes
along the code: `ReallocatedGood` (what `btree_realloc` leaves behind, in each of
its success and failure cases), `RoomForOneGood` (after growing there is room for
one more: this is where `capacity = 0 <=> data = Null` and `ExpandFactor >= 2` are
needed), `EntryAddedGood` (the shift up keeps order, as the key goes to its lower
bound), `EntryErasedGood` (the shift down), `StoreValueGood` (a store to a value never
touches a key); then one lemma per operation and `NextInv`. The address product
`capacity * (1 + ValueSize)` is nonlinear and has lemmas of its own. That
`btree_erase_internal_value` computes an index in range from an address is
`AddressToIndex`.

*The btree as a dictionary.* `Inv` says nothing of values, and needs not to: the
refinement is about steps. The second half of `BtreeProofs` says of each step of an operation
(move of the value area, shift up or down, store) what it does to the values, index
by index, and, as the keys ascend and so differ, what that does to the map from
keys to values. One lemma per operation then shows a step of `Dictionary` or a
stutter. `EntriesStayPut` follows from the same lemmas: a value's address depends on
the capacity and on how many keys are smaller, and the block stays in its place unless
`Reallocated` is asked for another, which of the calls that are not refused only
those of `MayMoveBlock` do (`InsertionMovesBlock`, `RoomForOneCapacity`).

*The loops.* While a body erases, `idx` is one behind where it should be, or the
largest index if it was 0. `LoopInv` therefore speaks of `After(idx)`, the index at
the next test: the keys from there on are larger than all visited and, with them,
all the keys there were. That no count is larger than the index can hold is
needed for `After` to be where the code goes on.

*BinarySearch.* `SortedKeysProofs` shows that the lower bound exists (a least
element, by well-foundedness of the naturals) and is unique, so that an index
with smaller keys before it and none at or behind it is what `LowerBound` chooses;
`Narrowing` says this of the range that is left, and with `len = 0` of the result.

*Hashmap.* That `slots_used` counts the live slots is inductive only with the fact
that a walk for a key that is there ends on it (or the key would be inserted
twice), and this only with more about the slots: `HInv` says that every live slot
carries the hash of its own key and is where the walk for that key ends
(`GoodTable`). Insertion fills the first tombstone or unused slot of a walk that has
missed, so that walks of other keys, which went on over a tombstone or never met the
slot, end where they did; erasing leaves a tombstone, over which they go on. A rehash is a series of
insertions into a blank table; that each leaves a `GoodTable` is shown of all of them by
the least one that would not (`CarriedAlways`).
`PowerOfTwoWalksEnd` is number theory: two of the first `table_count` turns
that met the same slot would make a power of two divide a product of an odd and a
smaller number, so the turns meet different slots, and hence all of them. None of
this shows that calls return in general; they do not (`Hashmap_hang`).

*Vector.* `GoodBlock` again, with the scratch element: the block has one cell more
than the capacity. `Keeps` says which elements a block has kept at which
index, through the two copies `vector_realloc` makes around a gap and the swaps of
`vector_reverse`; the refinement reads the list off it.

*MemoryReport.* The bytes in use are compared with a sum, a fold that picks the
entries of the report in an unknown order. The first part of the module proves, by
smallest counterexamples, that any entry may be taken out first (`PartialAny`), so
that one entry more or less changes the sum by its size (`SumWith`, `SumWithout`).
`MInv` says of an open report that it is consistent with the heap
(`Consistent`, also stated of the moment in the middle of `realloc` when the old entry
is gone), that the bytes cover the sum, that allocations and deallocations balance
(`Balanced`), and that the report's storage is nobody's block: without the last, an
entry of a client's block could be one of the storage that growth has moved. The
outcome of every insertion is one of two (`InsertedOutcomes`), taken or refused,
with or without nested calls, which cancel in the balance.

*StringReader.* The loop is to be compared with lines that are defined from the whole
text. The first part of the module is about the elements of a finite set in order:
the rank of an element is unique and every rank is taken, the latter shown by a
smallest counterexample (`RanksAreTaken`). From it comes what one character more
does to the pieces of a text (`PiecesGoOn`, `PiecesCutOff`) and so to its lines and the line
begun (`LinesWithCarriage`, `LinesWithNewline`, `LinesWithLetter`): one lemma for each branch of
the loop. `Inv` says that the stream is the rest of the text (`TextInv`) and, of the part
that is gone, that the strings are its lines and the buffer the line begun,
until a push is refused (`LinesInv`); after one, that each string is the end of
a line and the buffer the end of the line begun (`SourcesInv`). The first is not inductive
without the buffer, nor without a clause for the end of the stream, where a call
clears a line it has dropped (the finding `StringReader_last`, seen from the proof). That
the lines of a part are the first lines of the whole (`LinesOfPrefix`) then gives both
theorems. For the tokenizer, `TokensInv` keeps the save pointer at the cut behind the
last field answered and the buffer whole from there on; a token is then the next piece
(`TokenIsPiece`). That the tokenizer started over on a string it has cut finds the fields
of what is left needs only that there is a terminator still (`BufferInv`).

TLC checked each inductive invariant on the instance of its run before it was
proved. Every invariant, action property and refinement the passing runs check has a
theorem. What is only model-checked: liveness (`Terminates`, `LoopEnds`,
`GetlineReturns`), which needs `ENABLED` and is out of the prover's reach, and the
four findings, which are counterexamples.

## 6. What is not modelled, and why

- *Hash functions*: pure arithmetic; `Hashmap` takes any function as `Hash`.
- *Backtrace, statistics, warnings and the text of the memory report*: print or
  count, and no other code reads the result. The release build of `memory.c` keeps
  no state.
- *`thirdparty/`, tests and benchmarks*: googletest and benchmark are vendored and
  are no part of the library, though they are most of the repository's lines; the
  tests are read for what they expect.
- *Object allocation* in `*_create` and `*_free`: the containers are modelled from
  `*_init` to `*_deinit`. (`hashmap_create_with_options` leaks the object if the
  storage cannot be allocated, `hashmap.c:175`.)
- *Loop bodies* that insert or that erase another item; the for-each macros of
  the vector.
- *Clients that read a stale pointer* into a container; `EntriesStayPut` says until
  which calls a pointer into a btree is good.
- *A walk that circles in a table of six slots* (`hashmap.c:240`): it takes more keys in
  one table than the runs have, and no property is about it.
- *A text with null characters* in `StringReader`; reading on after a hang of the
  report's hashmap in `MemoryReport`.
- *32-bit wraps* of products of sizes, but for the rehash test.

## 7. Plan

Done: all modules of section 2 and the proofs of section 5, which state every
safety property of the btree, its loops, its search, the hashmap, the vector,
the memory accounting and the strings.

Left to model if there is need: the for-each macros of the vector with bodies that
erase, and clients that keep pointers into a vector.
