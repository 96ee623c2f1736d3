------------------------------ MODULE MCHashmap ------------------------------
(* Values for the constants of Hashmap in TLC's runs: keys, and the hashes *)
(* that make them collide with each other and with the reserved marks.     *)
EXTENDS Hashmap, TLC

CONSTANTS k1, k2, k3, k4

(* Two keys with reserved hashes, which the wrapper maps to the same one,  *)
(* and a third that starts on the same slot of four.                       *)
ReservedHash == (k1 :> 0) @@ (k2 :> 7) @@ (k3 :> 6)

(* Homes spread over the table, two keys sharing one.                      *)
SpreadHash == (k1 :> 2) @@ (k2 :> 3) @@ (k3 :> 4) @@ (k4 :> 5)
=============================================================================
