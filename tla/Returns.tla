------------------------------- MODULE Returns -------------------------------
(***************************************************************************)
(* Returns of delivered goods and the disputes about rejected ones: what a *)
(* return claims of the units bought, what is restocked when its refund is *)
(* confirmed, and how long it keeps the brand's earnings on hold.          *)
(*                                                                         *)
(* Requests lock the seller order, decisions the return or the dispute, and*)
(* confirmations the return and the payment; each handler commits once and *)
(* is one action.  The customer, the brand and the administrators act      *)
(* independently; seller and administrator decide a return in the same way.*)
(*                                                                         *)
(* Abstracted here: amounts and the refund's accounting (module Settlement)*)
(* and messages.  Every part is delivered, paid and settled from the start.*)
(***************************************************************************)
EXTENDS Integers, FiniteSets, Functions

CONSTANTS
    Part,     \* seller orders
    Item,     \* order items
    PartOf,   \* the seller order an item belongs to
    Bought,   \* order_items.quantity
    Return,   \* pool of return ids
    NoPart

ASSUME ReturnsAssumption ==
    /\ IsFiniteSet(Item) /\ IsFiniteSet(Return)
    /\ PartOf \in [Item -> Part]
    /\ Bought \in [Item -> Nat \ {0}]
    /\ NoPart \notin Part

VARIABLES
    status,    \* returns.status; "none" before the request
    part,      \* returns.seller_order_id
    claim,     \* return_items.quantity by return and item
    dispute,   \* disputes.status of the return; "none": no row
    refund,    \* the refund linked to the return: "none", "pending" or "done"
    restocked, \* units of an item credited back to product_inventory.stock
    mature,    \* ledgers older than the hold of the platform settings
    released   \* ledgers with a released_at

rowVars == <<status, part, claim, dispute, refund>>
returnsVars == <<rowVars, restocked, mature, released>>

ReturnStatus == {"requested", "approved", "rejected", "received", "refunded"}
DisputeStatus == {"open", "under_review", "resolved_customer", "resolved_seller"}

MaxBought == CHOOSE n \in {Bought[i] : i \in Item} : \A i \in Item : Bought[i] <= n

\* The repositories' updates of a return and of its dispute.
SetStatus(r, to) == status' = [status EXCEPT ![r] = to]
SetDispute(r, to) == dispute' = [dispute EXCEPT ![r] = to]

\* The units of i claimed by the returns R.
Claimed(R, i) == SumFunctionOnSet([r \in R |-> claim[r][i]], R)

ReturnsInit ==
    /\ status = [r \in Return |-> "none"]
    /\ part = [r \in Return |-> NoPart]
    /\ claim = [r \in Return |-> [i \in Item |-> 0]]
    /\ dispute = [r \in Return |-> "none"]
    /\ refund = [r \in Return |-> "none"]
    /\ restocked = [i \in Item |-> 0]
    /\ mature = {} /\ released = {}

-----------------------------------------------------------------------------
(* The customer's requests.                                                *)

\* Rejected returns do not claim units.
Claiming == {r \in Return : status[r] \notin {"none", "rejected"}}

\* Mutant: the check counts the return under review, but no other.
QuantitiesFitAlone(r, c) == \A i \in Item : c[i] <= Bought[i]

\* _validate_return_quantities of the claim c of return r.
QuantitiesFit(r, c) ==
    \A i \in Item : c[i] + Claimed(Claiming \ {r}, i) <= Bought[i]

\* ReturnService.request_return and request_guest_return
RequestReturn(r, p, c) ==
    /\ status[r] = "none"
    /\ \E i \in Item : c[i] > 0
    /\ \A i \in Item : c[i] > 0 => PartOf[i] = p
    /\ QuantitiesFit(r, c)
    /\ SetStatus(r, "requested")
    /\ part' = [part EXCEPT ![r] = p]
    /\ claim' = [claim EXCEPT ![r] = c]
    /\ UNCHANGED <<dispute, refund, restocked, mature, released>>

\* ReturnService.open_dispute
OpenDispute(r) ==
    /\ status[r] = "rejected"
    /\ dispute[r] = "none"
    /\ SetDispute(r, "open")
    /\ UNCHANGED <<status, part, claim, refund, restocked, mature, released>>

-----------------------------------------------------------------------------
(* Decisions of the brand and of administrators.                           *)

\* The dispute of r is neither decided nor closed.
Undecided(r) == dispute[r] \in {"open", "under_review"}

DecideReturn(r, from, to) ==
    /\ status[r] = from
    /\ SetStatus(r, to)
    /\ UNCHANGED <<part, claim, dispute, refund, restocked, mature, released>>

ApproveReturn(r) == DecideReturn(r, "requested", "approved")
RejectReturn(r) == DecideReturn(r, "requested", "rejected")
MarkReceived(r) == DecideReturn(r, "approved", "received")

\* ReturnService.add_admin_message: the first answer starts the review.
AnswerDispute(r) ==
    /\ dispute[r] = "open"
    /\ SetDispute(r, "under_review")
    /\ UNCHANGED <<status, part, claim, refund, restocked, mature, released>>

\* Mutant: a dispute is decided for the customer whatever became of the units.
ResolveForCustomerUnchecked(r) ==
    /\ Undecided(r)
    /\ status[r] = "rejected"
    /\ SetStatus(r, "approved")
    /\ SetDispute(r, "resolved_customer")
    /\ UNCHANGED <<part, claim, refund, restocked, mature, released>>

\* resolve_dispute in favour of the customer: the return is active again, if
\* no later return claimed its units meanwhile.
ResolveForCustomer(r) ==
    /\ Undecided(r)
    /\ status[r] = "rejected"
    /\ QuantitiesFit(r, claim[r])
    /\ SetStatus(r, "approved")
    /\ SetDispute(r, "resolved_customer")
    /\ UNCHANGED <<part, claim, refund, restocked, mature, released>>

\* resolve_dispute in favour of the seller: the rejection stands.
ResolveForSeller(r) ==
    /\ Undecided(r)
    /\ SetDispute(r, "resolved_seller")
    /\ UNCHANGED <<status, part, claim, refund, restocked, mature, released>>

-----------------------------------------------------------------------------
(* Money and stock.                                                        *)

\* ReturnService.process_refund: one refund per return, by its key.  (Repeating
\* the request returns the refund that exists.)
ProcessRefund(r) ==
    /\ status[r] = "received"
    /\ refund[r] = "none"
    /\ refund' = [refund EXCEPT ![r] = "pending"]
    /\ UNCHANGED <<status, part, claim, dispute, restocked, mature, released>>

\* Mutant: a confirmation repeated with the same reference restocks again.
ConfirmRefundAgain(r) ==
    /\ refund[r] \in {"pending", "done"}
    /\ status[r] \in {"received", "refunded"}
    /\ restocked' = [i \in Item |-> restocked[i] + claim[r][i]]
    /\ SetStatus(r, "refunded")
    /\ refund' = [refund EXCEPT ![r] = "done"]
    /\ UNCHANGED <<part, claim, dispute, mature, released>>

\* PaymentService.confirm_refund of a linked refund: the goods are back on the
\* shelf, the return is closed and the refund recorded, together.
ConfirmRefund(r) ==
    /\ refund[r] = "pending"
    /\ status[r] = "received"
    /\ \A i \in Item :
          claim[r][i] + Claimed({q \in Return \ {r} : status[q] = "refunded"}, i) <= Bought[i]
    /\ restocked' = [i \in Item |-> restocked[i] + claim[r][i]]
    /\ SetStatus(r, "refunded")
    /\ refund' = [refund EXCEPT ![r] = "done"]
    /\ UNCHANGED <<part, claim, dispute, mature, released>>

\* The hold of the platform settings passes.
Mature(p) ==
    /\ p \notin mature
    /\ mature' = mature \union {p}
    /\ UNCHANGED <<rowVars, restocked, released>>

\* Mutant: a return that was refunded goes on holding the rest.
HeldForEver(p) ==
    \E r \in Return :
        /\ part[r] = p
        /\ \/ status[r] \in {"requested", "approved", "received", "refunded"}
           \/ dispute[r] \in {"open", "under_review", "resolved_customer"}

\* The hold query of release_mature.
Held(p) ==
    \E r \in Return :
        /\ part[r] = p
        /\ \/ status[r] \in {"requested", "approved", "received"}
           \/ dispute[r] \in {"open", "under_review", "resolved_customer"}

\* The sweep releases every mature ledger that is not held.
ReleaseMature ==
    LET due == {p \in mature \ released : ~Held(p)} IN
    /\ due # {}
    /\ released' = released \union due
    /\ UNCHANGED <<rowVars, restocked, mature>>

-----------------------------------------------------------------------------
\* The requests of customers and guests.
ByCustomer(r) ==
    \/ \E p \in Part, c \in [Item -> 0..MaxBought] : RequestReturn(r, p, c)
    \/ OpenDispute(r)

\* The decisions a brand and an administrator may take alike.
ByBrand(r) == ApproveReturn(r) \/ RejectReturn(r) \/ MarkReceived(r)

\* What only administrators do.
ByAdministrator(r) ==
    \/ AnswerDispute(r) \/ ResolveForCustomer(r) \/ ResolveForSeller(r)
    \/ ProcessRefund(r) \/ ConfirmRefund(r)

ReturnsNext ==
    \/ \E r \in Return : ByCustomer(r) \/ ByBrand(r) \/ ByAdministrator(r)
    \/ \E p \in Part : Mature(p)
    \/ ReleaseMature

ReturnsSpec == ReturnsInit /\ [][ReturnsNext]_returnsVars

\* Time passes and the sweep keeps running; nobody is obliged to decide.
ReturnsFairSpec ==
    /\ ReturnsSpec
    /\ \A p \in Part : WF_returnsVars(Mature(p))
    /\ WF_returnsVars(ReleaseMature)

-----------------------------------------------------------------------------
(* Properties.                                                             *)

ReturnsTypeOK ==
    /\ status \in [Return -> ReturnStatus \union {"none"}]
    /\ part \in [Return -> Part \union {NoPart}]
    /\ claim \in [Return -> [Item -> Nat]]
    /\ dispute \in [Return -> DisputeStatus \union {"none"}]
    /\ refund \in [Return -> {"none", "pending", "done"}]
    /\ restocked \in [Item -> Nat]
    /\ mature \subseteq Part /\ released \subseteq mature

\* However returns are rejected, disputed, reopened and requested anew, the
\* returns that stand never claim more units than were bought.
ClaimsFit == \A i \in Item : Claimed(Claiming, i) <= Bought[i]

\* A unit returns to the shelf exactly when the return that claims it is
\* refunded: not earlier, not twice, and never more than was bought.
RestockedOnce ==
    \A i \in Item :
        /\ restocked[i] = Claimed({r \in Return : refund[r] = "done"}, i)
        /\ restocked[i] <= Bought[i]

\* No confirmation is refused for its quantities: whoever else claimed units
\* in between, a pending refund stays linked to a received return that fits.
PendingRefundsFit ==
    \A r \in Return : refund[r] = "pending" =>
        /\ status[r] = "received"
        /\ \A i \in Item :
              claim[r][i] + Claimed({q \in Return \ {r} : status[q] = "refunded"}, i)
                  <= Bought[i]

\* A return some side may still act on.
Unfinished(p) ==
    \E r \in Return :
        /\ part[r] = p
        /\ \/ status[r] \in {"requested", "approved", "received"}
           \/ dispute[r] \in {"open", "under_review"}

WonByCustomer(p) == \E r \in Return : part[r] = p /\ dispute[r] = "resolved_customer"

\* Earnings are not held for ever by returns that are over: when all returns
\* of a part are refunded or finally rejected, the sweep releases the rest.
\* Only a dispute won by the customer keeps its hold, even once refunded.
HoldsEnd ==
    \A p \in Part : <>[](~Unfinished(p) /\ ~WonByCustomer(p)) => <>(p \in released)

=============================================================================
