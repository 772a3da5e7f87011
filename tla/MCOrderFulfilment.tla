-------------------------- MODULE MCOrderFulfilment --------------------------
(***************************************************************************)
(* Instances of OrderFulfilment for TLC.                                   *)
(***************************************************************************)
EXTENDS OrderFulfilment, TLC

CONSTANTS o1, o2, shirt, shoe, brandA, brandB

\* Two brands with one variant each.
TwoBrands == [v \in {shirt, shoe} |-> IF v = shirt THEN brandA ELSE brandB]

\* One order is discounted and the other is not.
OneCoupon == [o \in {o1, o2} |-> {o = o1}]

=============================================================================
