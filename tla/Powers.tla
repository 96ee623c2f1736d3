-------------------------------- MODULE Powers --------------------------------
(* The powers of two, as a function of the exponent: 2 ^ n.                *)
EXTENDS Naturals

TwoTo[n \in Nat] == IF n = 0 THEN 1 ELSE 2 * TwoTo[n - 1]

IsPowerOfTwo(m) == \E e \in 0 .. m : TwoTo[e] = m
=============================================================================
