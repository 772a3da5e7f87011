------------------------------ MODULE MCReturns ------------------------------
(* Small instances of Returns for TLC. *)
EXTENDS Returns, TLC

CONSTANTS p1, p2, shirt, shoe, q1, q2, q3

\* Two brands' parts: two shirts of the first, one shoe of the second.
TwoItems == [i \in {shirt, shoe} |-> IF i = shirt THEN p1 ELSE p2]
TwoShirtsOneShoe == [i \in {shirt, shoe} |-> IF i = shirt THEN 2 ELSE 1]

=============================================================================
