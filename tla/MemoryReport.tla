---------------------------- MODULE MemoryReport ----------------------------
(***************************************************************************)
(* src/cstructures/src/memory.c, as compiled for debug builds: malloc,     *)
(* realloc and free with a report of the blocks in use.                    *)
(*                                                                         *)
(* The report is a hashmap from addresses to sizes, used here by what      *)
(* Hashmap promises: module Dictionary.  It allocates its own storage with *)
(* the functions of this file, while a flag keeps them from reporting it;  *)
(* those nested calls are part of the step of the outer one.               *)
(***************************************************************************)
EXTENDS Integers, FiniteSets, Functions

CONSTANTS
  Address,          \* where the C library may place a block
  Sizes,            \* the sizes of the blocks clients ask for
  TableCount,       \* table_count of the report when it is made
  RehashAtPercent,  \* HM_REHASH_AT_PERCENT
  ExpandFactor,     \* HM_EXPAND_FACTOR
  MaxAllocations,   \* bound: g_allocations
  MaxBytes,         \* bound: g_bytes_in_use
  NullPointer       \* the null pointer, which is no block's address

ASSUME SizesAssumption == Sizes \subseteq Nat
ASSUME TableCountAssumption == TableCount \in Nat \ {0}
ASSUME RehashAtPercentAssumption == RehashAtPercent \in 1 .. 100
ASSUME ExpandFactorAssumption == ExpandFactor \in Nat \ {0, 1}
ASSUME BoundsAssumption == MaxAllocations \in Nat /\ MaxBytes \in Nat
ASSUME NullPointerAssumption == NullPointer \notin Address

VARIABLES
  heap,                  \* the C library's: the clients' blocks and their sizes
  storage,               \* where the storage of g_report is
  table_count,           \* g_report.table_count
  report,                \* what g_report holds: addresses and sizes
  g_allocations,
  d_deallocations,
  g_bytes_in_use,
  g_bytes_in_use_peak,
  fault,                 \* has memory_deinit read memory that is not there?
  mishaps,               \* history: what has gone wrong since memory_init
  ret                    \* the last call and its answer

table == <<storage, table_count, report>>
counters == <<g_allocations, d_deallocations, g_bytes_in_use, g_bytes_in_use_peak>>
vars == <<heap, table, counters, fault, mishaps, ret>>

Pointer == Address \cup {NullPointer}
Empty == [p \in {} |-> 0]
Without(f, p) == Restrict(f, DOMAIN f \ {p})
With(f, p, n) == [q \in DOMAIN f \cup {p} |-> IF q = p THEN n ELSE f[q]]
Answer(op, out) == [op |-> op, out |-> out]

-----------------------------------------------------------------------------
(* Pieces of the handlers.                                                 *)

(* Addresses the C library may still hand out.                             *)
Free == Address \ (DOMAIN heap \cup {storage})

IsOpen == storage # NullPointer /\ ~ fault

(* hashmap_insert of the report: the table afterwards, how many blocks it  *)
(* has allocated and freed again for itself, and whether it took the       *)
(* entry.  `rep` is the report by then, `room` the addresses not in use.   *)
Outcome(rep, s, tc, nested, taken) ==
  [report |-> rep, storage |-> s, table_count |-> tc, nested |-> nested, taken |-> taken]

NeedsRehash(rep) == (Cardinality(DOMAIN rep) * 100) \div table_count >= RehashAtPercent

Entered(rep, s, tc, nested, p, n) ==
  IF p \in DOMAIN rep
  THEN Outcome(rep, s, tc, nested, FALSE)
  ELSE Outcome(With(rep, p, n), s, tc, nested, TRUE)

(* Slip: the flag is down while the report allocates its storage.          *)
InsertedUnguarded(rep, room, p, n) ==
  IF ~ NeedsRehash(rep)
  THEN {Entered(rep, storage, table_count, 0, p, n)}
  ELSE {Outcome(rep, storage, table_count, 0, FALSE)} \cup
       {Entered(With(rep, s, n), s, table_count * ExpandFactor, 1, p, n) : s \in room}

Inserted(rep, room, p, n) ==
  IF ~ NeedsRehash(rep)
  THEN {Entered(rep, storage, table_count, 0, p, n)}
  ELSE {Outcome(rep, storage, table_count, 0, FALSE)} \cup
       {Entered(rep, s, table_count * ExpandFactor, 1, p, n) : s \in room}

(* The second half of malloc and, in a copy of it, of realloc (memory.c,   *)
(* lines 69-110 and 167-197): n bytes at p are counted and recorded;       *)
(* `rep` and `bytes` are the report and the bytes in use by then.  A       *)
(* refused insertion is warned of and otherwise ignored.                   *)
Record(rep, bytes, room, p, n, allocated, mishap) ==
  /\ bytes + n <= MaxBytes
  /\ g_bytes_in_use' = bytes + n
  /\ g_bytes_in_use_peak' = IF g_bytes_in_use_peak < bytes + n THEN bytes + n ELSE g_bytes_in_use_peak
  /\ \E out \in Inserted(rep, room, p, n) :
       /\ report' = out.report
       /\ storage' = out.storage
       /\ table_count' = out.table_count
       /\ g_allocations' = g_allocations + allocated + out.nested
       /\ d_deallocations' = d_deallocations + out.nested
       /\ mishaps' = mishaps \cup mishap \cup (IF out.taken THEN {} ELSE {"record"})
  /\ g_allocations < MaxAllocations

(* What is left when the entry of p is erased, if there is one.            *)
BytesWithout(p) == IF p \in DOMAIN report THEN g_bytes_in_use - report[p] ELSE g_bytes_in_use

-----------------------------------------------------------------------------
(* Operations.                                                             *)

Init ==
  /\ heap = Empty
  /\ storage = NullPointer
  /\ table_count = TableCount
  /\ report = Empty
  /\ g_allocations = 0
  /\ d_deallocations = 0
  /\ g_bytes_in_use = 0
  /\ g_bytes_in_use_peak = 0
  /\ fault = FALSE
  /\ mishaps = {}
  /\ ret = Answer("load", 0)

(* The storage of the report is the first allocation.                      *)
MemoryInit ==
  /\ storage = NullPointer
  /\ table_count' = TableCount
  /\ report' = Empty
  /\ d_deallocations' = 0
  /\ g_bytes_in_use' = 0
  /\ g_bytes_in_use_peak' = 0
  /\ mishaps' = {}
  /\ UNCHANGED <<heap, fault>>
  /\ \/ /\ storage' = NullPointer
        /\ g_allocations' = 0
        /\ ret' = Answer("memory_init", -1)
     \/ /\ storage' \in Free
        /\ g_allocations' = 1
        /\ ret' = Answer("memory_init", 0)

Malloc(n) ==
  /\ IsOpen
  /\ UNCHANGED fault
  /\ \/ /\ UNCHANGED <<heap, table, counters, mishaps>>
        /\ ret' = Answer("malloc", NullPointer)
     \/ \E p \in Free :
          /\ heap' = With(heap, p, n)
          /\ Record(report, g_bytes_in_use, Free \ {p}, p, n, 1, {})
          /\ ret' = Answer("malloc", p)

(* What realloc records under p, where `rep` and `bytes` are left of the   *)
(* old entry and `room` is not in use.  The C library's realloc comes      *)
(* first and its failure is never asked for, so that the null pointer is   *)
(* recorded as if it were a block.                                         *)
Reallocated(old_p, n, rep, bytes) ==
  LET room == (Free \cup {old_p}) \ {NullPointer}
      isNew == old_p = NullPointer
      allocated == IF isNew THEN 1 ELSE 0
  IN  \/ \E p \in room :
           /\ heap' = With(Without(heap, old_p), p, n)
           /\ Record(rep, bytes, room \ {p}, p, n, allocated, {})
           /\ ret' = Answer("realloc", p)
      \/ /\ UNCHANGED heap
         /\ Record(rep, bytes, Free, NullPointer, n, allocated,
                   {IF isNew THEN "realloc null" ELSE "realloc"})
         /\ ret' = Answer("realloc", NullPointer)

(* Slips: the old entry stays; its bytes stay counted; the new bytes are   *)
(* not counted.                                                            *)
ReallocKeepsEntry(old_p, n) ==
  /\ IsOpen
  /\ Reallocated(old_p, n, report, g_bytes_in_use)
  /\ UNCHANGED fault

ReallocCountsTwice(old_p, n) ==
  /\ IsOpen
  /\ Reallocated(old_p, n, Without(report, old_p), g_bytes_in_use)
  /\ UNCHANGED fault

ReallocForgetsBytes(old_p, n) ==
  /\ IsOpen
  /\ Reallocated(old_p, n, Without(report, old_p), BytesWithout(old_p) - n)
  /\ UNCHANGED fault

Realloc(old_p, n) ==
  /\ IsOpen
  /\ IF old_p = NullPointer
     THEN Reallocated(old_p, n, report, g_bytes_in_use)
     ELSE Reallocated(old_p, n, Without(report, old_p), BytesWithout(old_p))
  /\ UNCHANGED fault

(* Slip: freeing the null pointer is counted.                              *)
FreeCountsNull(p) ==
  /\ IsOpen
  /\ report' = Without(report, p)
  /\ g_bytes_in_use' = BytesWithout(p)
  /\ heap' = Without(heap, p)
  /\ d_deallocations' = d_deallocations + 1
  /\ ret' = Answer("free", p)
  /\ UNCHANGED <<storage, table_count, g_allocations, g_bytes_in_use_peak, fault, mishaps>>

(* The entry goes first, also one of the null pointer.                     *)
FreeBlock(p) ==
  /\ IsOpen
  /\ report' = Without(report, p)
  /\ g_bytes_in_use' = BytesWithout(p)
  /\ heap' = Without(heap, p)
  /\ d_deallocations' = d_deallocations + (IF p = NullPointer THEN 0 ELSE 1)
  /\ ret' = Answer("free", p)
  /\ UNCHANGED <<storage, table_count, g_allocations, g_bytes_in_use_peak, fault, mishaps>>

(* Every entry of the report is dumped: the bytes of its size at its       *)
(* address.                                                                *)
DumpsOnlyBlocks == \A p \in DOMAIN report : p \in DOMAIN heap /\ report[p] <= heap[p]

(* The allocations but that of the report's own storage, and what was      *)
(* freed, whichever is more.                                               *)
Leaks ==
  LET allocations == g_allocations - 1
  IN  IF allocations > d_deallocations
      THEN allocations - d_deallocations
      ELSE d_deallocations - allocations

(* An entry that is no block faults when it is dumped, and the dump is     *)
(* left out when there is no memory for a copy.  Nobody uses the leaked    *)
(* blocks any more.                                                        *)
MemoryDeinit ==
  /\ IsOpen
  /\ UNCHANGED <<table_count, g_allocations, g_bytes_in_use, g_bytes_in_use_peak, mishaps>>
  /\ \/ /\ heap' = Empty
        /\ storage' = NullPointer
        /\ report' = Empty
        /\ d_deallocations' = d_deallocations + 1
        /\ ret' = Answer("memory_deinit", Leaks)
        /\ UNCHANGED fault
     \/ /\ ~ DumpsOnlyBlocks
        /\ fault' = TRUE
        /\ UNCHANGED <<heap, storage, report, d_deallocations, ret>>

(* The program has ended.                                                  *)
Ended == fault /\ UNCHANGED vars

Next ==
  \/ MemoryInit
  \/ \E n \in Sizes : Malloc(n)
  \/ \E p \in DOMAIN heap \cup {NullPointer}, n \in Sizes : Realloc(p, n)
  \/ \E p \in DOMAIN heap \cup {NullPointer} : FreeBlock(p)
  \/ MemoryDeinit
  \/ Ended

Spec == Init /\ [][Next]_vars

-----------------------------------------------------------------------------
(* Properties.                                                             *)

(* Addresses are blocks, null or the report's; the bytes in use, which are *)
(* subtracted from and unsigned in the code, never wrap below 0.           *)
TypeOK ==
  /\ DOMAIN heap \subseteq Address
  /\ storage \in Pointer
  /\ DOMAIN report \subseteq Pointer
  /\ g_allocations \in Nat
  /\ d_deallocations \in Nat
  /\ g_bytes_in_use \in Nat
  /\ g_bytes_in_use_peak \in Nat

(* The report lists blocks in use only, with their sizes, wherever realloc *)
(* moved them, and all of them unless an insertion into the report was     *)
(* refused or a realloc failed; it lists the null pointer only after a     *)
(* realloc failed.                                                         *)
ReportMatchesHeap ==
  /\ \A p \in DOMAIN report \ {NullPointer} : p \in DOMAIN heap /\ report[p] = heap[p]
  /\ NullPointer \in DOMAIN report => mishaps \cap {"realloc", "realloc null"} # {}
  /\ mishaps = {} => DOMAIN report = DOMAIN heap

(* The bytes in use are the sum over the report, or more where an entry    *)
(* could not be recorded, so that no sequence of frees takes them below 0; *)
(* the peak is never below them.                                           *)
BytesCoverReport ==
  /\ SumFunction(report) <= g_bytes_in_use
  /\ g_bytes_in_use <= g_bytes_in_use_peak
  /\ mishaps = {} /\ storage # NullPointer => g_bytes_in_use = SumFunction(report)

(* The storage of the report, which moves whenever the report grows in the *)
(* middle of recording a block, is itself never reported.                  *)
ReportOmitsItself == storage \notin DOMAIN report \ {NullPointer}

(* The leaks memory_deinit answers are the blocks still in use, through    *)
(* all the allocations the report makes for itself and all refusals to     *)
(* record one, as long as no realloc of the null pointer has failed.       *)
LeaksAreBlocksInUse ==
  storage # NullPointer /\ "realloc null" \notin mishaps => Leaks = Cardinality(DOMAIN heap)

(* memory.h says of memory_deinit that it returns the number of leaks.     *)
DeinitReturnsLeaks ==
  [][storage # NullPointer /\ storage' = NullPointer => ret'.out = Cardinality(DOMAIN heap)]_vars
=============================================================================
