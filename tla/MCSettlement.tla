---------------------------- MODULE MCSettlement ----------------------------
(* Small instances of Settlement for TLC. *)
EXTENDS Settlement, TLC

CONSTANTS o1, o2, brandA, brandB, r1, r2, r3, y1, y2

\* One order of two brands: parts 1 and 2.
TwoParts == 1..2
OneOrderOf == [p \in TwoParts |-> o1]
EachItsBrand == [p \in TwoParts |-> IF p = 1 THEN brandA ELSE brandB]
ThreeAndTwo == [p \in TwoParts |-> IF p = 1 THEN 3 ELSE 2]
FeeOne == [o \in Order |-> 1]

\* Two orders of one brand, whose earnings meet in one wallet.
TwoOrdersOf == [p \in TwoParts |-> IF p = 1 THEN o1 ELSE o2]
SameBrand == [p \in TwoParts |-> brandA]
TwoAndTwo == [p \in TwoParts |-> 2]
FeeNone == [o \in Order |-> 0]

Pools == Permutations(Refund) \union Permutations(Payout)

=============================================================================
