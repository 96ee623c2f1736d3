------------------------------ MODULE MCBtree -------------------------------
(* Values for the constants of Btree in TLC's runs.                         *)
EXTENDS Btree, TLC

(* Two values of two words that differ in both, so that a torn value is    *)
(* neither; and the one value of size 0.                                   *)
WideValues == {[b \in 0 .. 1 |-> b], [b \in 0 .. 1 |-> 1 - b]}
EmptyValues == {[b \in {} |-> 0]}

(* One place is as good as another.                                        *)
PlaceSymmetry == Permutations(Place)
=============================================================================
