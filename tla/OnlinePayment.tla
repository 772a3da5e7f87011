---------------------------- MODULE OnlinePayment ----------------------------
(***************************************************************************)
(* What PaymentService promises about one online order, without attempts,  *)
(* tokens, callbacks or a provider: a customer is charged at most once, an *)
(* order is confirmed and its payment booked in one step and only when the *)
(* provider holds the money, and an order that was given up stays given up *)
(* even when its money arrives late.                                       *)
(*                                                                         *)
(* PayFastAttempts is shown to implement this module.                      *)
(***************************************************************************)
EXTENDS Naturals

CONSTANT Order

VARIABLES
    life,     \* "waiting", "confirmed", "cash" (switched to COD) or "cancelled"
    charges,  \* how often the provider took the customer's money
    book      \* what the payment row claims: "open", "paid" or "refunded"

vars == <<life, charges, book>>

TypeOK ==
    /\ life \in [Order -> {"waiting", "confirmed", "cash", "cancelled"}]
    /\ charges \in [Order -> 0..1]
    /\ book \in [Order -> {"open", "paid", "refunded"}]

Init ==
    /\ life = [o \in Order |-> "waiting"]
    /\ charges = [o \in Order |-> 0]
    /\ book = [o \in Order |-> "open"]

\* The provider takes the money, perhaps after the order was cancelled.
Charge(o) ==
    /\ life[o] # "cash"
    /\ charges[o] = 0
    /\ charges' = [charges EXCEPT ![o] = 1]
    /\ UNCHANGED <<life, book>>

\* The charge is booked and the order confirmed, together.
Record(o) ==
    /\ life[o] = "waiting"
    /\ charges[o] = 1
    /\ life' = [life EXCEPT ![o] = "confirmed"]
    /\ book' = [book EXCEPT ![o] = "paid"]
    /\ UNCHANGED charges

\* Cancellation or expiry of an order that is not booked as paid.
GiveUp(o) ==
    /\ life[o] = "waiting"
    /\ life' = [life EXCEPT ![o] = "cancelled"]
    /\ UNCHANGED <<charges, book>>

\* The customer chooses cash on delivery instead, before any online charge.
ChooseCash(o) ==
    /\ life[o] = "waiting"
    /\ charges[o] = 0
    /\ life' = [life EXCEPT ![o] = "cash"]
    /\ UNCHANGED <<charges, book>>

\* Money that was booked is given back in full.
Refund(o) ==
    /\ book[o] = "paid"
    /\ book' = [book EXCEPT ![o] = "refunded"]
    /\ UNCHANGED <<life, charges>>

Next ==
    \E o \in Order :
        Charge(o) \/ Record(o) \/ GiveUp(o) \/ ChooseCash(o) \/ Refund(o)

Spec == Init /\ [][Next]_vars

=============================================================================
