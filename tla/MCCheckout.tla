------------------------------ MODULE MCCheckout ------------------------------
(***************************************************************************)
(* Instances of Checkout for TLC.                                          *)
(***************************************************************************)
EXTENDS Checkout, TLC

CONSTANTS k1, ann, bob, guest, shirt, shoe, brandA, brandB

\* Two brands with one variant each, and one unit of each variant.
TwoBrands == [v \in {shirt, shoe} |-> IF v = shirt THEN brandA ELSE brandB]
OneEach == [v \in {shirt, shoe} |-> 1]
\* One customer has both in the cart, the other only a shoe.
Carts == [u \in Account |-> IF u = ann THEN {shirt, shoe} ELSE {shoe}]

=============================================================================
