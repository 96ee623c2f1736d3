--------------------------- MODULE MCMemoryReport ---------------------------
(* Addresses for TLC's runs of MemoryReport; they are interchangeable.      *)
EXTENDS MemoryReport, TLC

CONSTANTS a1, a2, a3, a4, a5

Addresses == {a1, a2, a3, a4, a5}
AddressSymmetry == Permutations(Addresses)
=============================================================================
