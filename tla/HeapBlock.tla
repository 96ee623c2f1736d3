----------------------------- MODULE HeapBlock ------------------------------
(***************************************************************************)
(* A block of heap memory as the containers use it: a function from the    *)
(* addresses in the block, counted from 0 in cells, to what the cells      *)
(* hold.  Cells that were allocated and never written, and cells outside   *)
(* the block, hold Undef.                                                  *)
(***************************************************************************)
EXTENDS Integers

CONSTANT Undef   \* what a cell holds that nothing was written to

(* The null pointer.                                                       *)
Null == [a \in {} |-> Undef]

Fetch(m, a) == IF a \in DOMAIN m THEN m[a] ELSE Undef

(* realloc, and malloc for the null pointer: the new block keeps what fits *)
(* of the old one.                                                         *)
Resize(m, n) == [a \in 0 .. (n - 1) |-> Fetch(m, a)]

Memmove(m, dst, src, n) ==
  [a \in DOMAIN m |-> IF dst <= a /\ a < dst + n THEN Fetch(m, src + (a - dst)) ELSE m[a]]
=============================================================================
