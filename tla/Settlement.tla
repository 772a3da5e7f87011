------------------------------ MODULE Settlement ------------------------------
(***************************************************************************)
(* The money after checkout: earnings of the brands are settled when their *)
(* part of an order is delivered and paid, held, released to the wallet,   *)
(* withdrawn or spent on product slots; and refunds, linked to a return or *)
(* not, take earnings back at any of these moments.                        *)
(*                                                                         *)
(* Every handler runs in one transaction which locks the rows it decides   *)
(* on (payment or order, seller order, ledger, wallet, payout): a handler  *)
(* is one action.  The interleavings are those of administrators, sellers, *)
(* couriers and the release sweep.                                         *)
(*                                                                         *)
(* Abstracted here: whether a return reached "received" (module Returns),  *)
(* which ledgers are mature and not held (any set may be), order items,    *)
(* coupons, notifications and the audit rows wallet_transactions.  Refunds *)
(* made before refund accounting existed are not modelled.                 *)
(***************************************************************************)
EXTENDS RefundSplit, FiniteSets

CONSTANTS
    Order,          \* orders that were checked out
    Seller,         \* brands
    Part,           \* ids of the seller orders: positive, they are sorted by id
    OrderOf,        \* seller_orders.order_id
    SellerOf,       \* seller_orders.seller_id
    Subtotal,       \* seller_orders.subtotal
    ShippingFee,    \* orders.shipping_fee
    Online,         \* the orders paid by PayFast, before delivery
    Rates,          \* values the platform setting commission_rate may take
    Refund,         \* pool of refund ids
    Payout,         \* pool of payout ids
    MinWithdrawal, MaxWithdrawal,
    SlotPrice,      \* price of the product slots bought in one purchase
    MaxSlots        \* bound: most slot purchases of one brand

ASSUME SettlementAssumption ==
    /\ IsFiniteSet(Part) /\ Part \subseteq Nat \ {0}
    /\ IsFiniteSet(Refund) /\ IsFiniteSet(Payout)
    /\ OrderOf \in [Part -> Order]
    /\ SellerOf \in [Part -> Seller]
    /\ \A p, q \in Part : OrderOf[p] = OrderOf[q] /\ SellerOf[p] = SellerOf[q] => p = q
    /\ Subtotal \in [Part -> Nat]
    /\ ShippingFee \in [Order -> Nat]
    /\ Online \subseteq Order
    /\ Rates \subseteq 0..RateScale
    /\ MinWithdrawal \in Nat \ {0} /\ MaxWithdrawal \in Nat
    /\ SlotPrice \in Nat /\ MaxSlots \in Nat

VARIABLES
    paid,       \* payments.status of an order: "pending", "completed", "refunded"
    delivered,  \* seller orders delivered
    refund,     \* refunds: order, linked part or Direct, amount (0: unused), done
    share,      \* refund_allocations.merchandise_amount by refund and part
    shipping,   \* refund_accounting.shipping_amount by refund
    settled,    \* parts with a commission ledger
    ledger,     \* commission_ledger by part
    released,   \* ledgers with a released_at
    wallet,     \* seller_wallets by brand
    payout,     \* payouts: seller, amount and status
    slots       \* slot purchases paid from a wallet, by brand

refundVars == <<refund, share, shipping>>
ledgerVars == <<settled, ledger, released>>
walletVars == <<wallet, payout, slots>>
vars == <<paid, delivered, refundVars, ledgerVars, walletVars>>

Direct == 0
NoSeller == "none"

PartsOf(o) == {p \in Part : OrderOf[p] = o}
PaymentAmount(o) == SumFunctionOnSet(Subtotal, PartsOf(o)) + ShippingFee[o]
RefundsOf(o) == {r \in Refund : refund[r].amount > 0 /\ refund[r].order = o}
Done == {r \in Refund : refund[r].done}

AmountOf(R) == SumFunctionOnSet([r \in R |-> refund[r].amount], R)
Allocated(p, R) == SumFunctionOnSet([r \in R |-> share[r][p]], R)

\* The net columns of a ledger row.
NetGross(p, l) == Subtotal[p] - l.refunded
NetCommission(p, l) == Commission(Subtotal[p], l.rate) - l.reversedCommission
NetSeller(p, l) == Subtotal[p] - Commission(Subtotal[p], l.rate) - l.reversedSeller

NoLedger == [rate |-> 0, refunded |-> 0, reversedCommission |-> 0,
             reversedSeller |-> 0, offset |-> 0, shortfall |-> 0]

Init ==
    /\ paid = [o \in Order |-> IF o \in Online THEN "completed" ELSE "pending"]
    /\ delivered = {}
    /\ refund = [r \in Refund |-> [order |-> "none", part |-> Direct, amount |-> 0,
                                   done |-> FALSE]]
    /\ share = [r \in Refund |-> [p \in Part |-> 0]]
    /\ shipping = [r \in Refund |-> 0]
    /\ settled = {} /\ released = {}
    /\ ledger = [p \in Part |-> NoLedger]
    /\ wallet = [s \in Seller |-> [pending |-> 0, available |-> 0, earned |-> 0]]
    /\ payout = [y \in Payout |-> [seller |-> NoSeller, amount |-> 0, status |-> "none"]]
    /\ slots = [s \in Seller |-> 0]

-----------------------------------------------------------------------------
(* Settlement.                                                             *)

\* Mutant: allocations confirmed before the settlement are not looked for.
Unapplied(p) == {}

\* The refunds whose allocation to p waits for its ledger.
Waiting(p) == {r \in Done : share[r][p] > 0}

\* _apply_allocation to the ledger l: n units of merchandise come off its gross,
\* and what is taken of it off the commission and the earnings.
Applied(l, n, taken) ==
    [l EXCEPT !.refunded = @ + n,
              !.reversedCommission = @ + taken.commission,
              !.reversedSeller = @ + taken.seller]

\* The allocation of refund r to p, which waited for the ledger l, as an offset.
Offset(p, l, r) ==
    LET taken == Reversal(share[r][p], l.rate, NetCommission(p, l), NetSeller(p, l))
    IN  [Applied(l, share[r][p], taken) EXCEPT !.offset = @ + taken.seller]

\* A new ledger of p at the policy's rate, with the waiting allocations applied
\* in the order of their random ids.
SettledLedger(p, rate, queue) ==
    FoldLeft(LAMBDA l, r : Offset(p, l, r), [NoLedger EXCEPT !.rate = rate], queue)

\* CommissionService.settle for the parts S of one transaction: those that have
\* no ledger yet get one, and its net earnings are credited as pending.
Settle(S) ==
    LET new == S \ settled IN
    \E rate \in Rates :
    \E queue \in [new -> UNION {SetToSeqs(Waiting(p)) : p \in new}] :
        /\ \A p \in new : queue[p] \in SetToSeqs(Waiting(p))
        /\ settled' = settled \union new
        /\ ledger' = [p \in Part |->
                IF p \in new THEN SettledLedger(p, rate, queue[p]) ELSE ledger[p]]
        /\ LET Credit(s) == SumFunctionOnSet([p \in new |-> NetSeller(p, ledger'[p])],
                                             {p \in new : SellerOf[p] = s})
           IN  wallet' = [s \in Seller |->
                    [wallet[s] EXCEPT !.pending = @ + Credit(s), !.earned = @ + Credit(s)]]

\* The part of update_seller_order_status that concerns money: a part is
\* delivered, and settles at once when the order's payment is completed.
Deliver(p) ==
    /\ p \notin delivered
    /\ delivered' = delivered \union {p}
    /\ IF paid[OrderOf[p]] = "completed"
       THEN Settle({p})
       ELSE UNCHANGED <<settled, ledger, wallet>>
    /\ UNCHANGED <<paid, refundVars, released, payout, slots>>

\* PaymentService.record_cod_collection: every part settles with the collection.
RecordCodCollection(o) ==
    /\ o \notin Online
    /\ paid[o] = "pending"
    /\ PartsOf(o) \subseteq delivered
    /\ paid' = [paid EXCEPT ![o] = "completed"]
    /\ Settle(PartsOf(o))
    /\ UNCHANGED <<delivered, refundVars, released, payout, slots>>

\* release_mature: one sweep over the ledgers S that are mature, not locked by
\* someone else and not held by a return.
ReleaseMature(S) ==
    LET Due(s) == SumFunctionOnSet([p \in S |-> NetSeller(p, ledger[p])],
                                   {p \in S : SellerOf[p] = s})
    IN  /\ S # {} /\ S \subseteq settled \ released
        /\ \A s \in Seller : Due(s) <= wallet[s].pending
        /\ wallet' = [s \in Seller |-> [wallet[s] EXCEPT !.pending = @ - Due(s),
                                                         !.available = @ + Due(s)]]
        /\ released' = released \union S
        /\ UNCHANGED <<paid, delivered, refundVars, settled, ledger, payout, slots>>

-----------------------------------------------------------------------------
(* Refunds.                                                                *)

\* PaymentService.refund: pending requests count against the payment, too.
Refundable(o) ==
    IF paid[o] = "completed" THEN PaymentAmount(o) - AmountOf(RefundsOf(o)) ELSE 0

NewRefund(r, o, part, amount) ==
    /\ refund[r].amount = 0
    /\ refund' = [refund EXCEPT ![r] =
            [order |-> o, part |-> part, amount |-> amount, done |-> FALSE]]
    /\ UNCHANGED <<paid, delivered, share, shipping, ledgerVars, walletVars>>

\* An administrator asks for a refund that no return explains.
RequestRefund(r, o, amount) ==
    /\ amount <= Refundable(o)
    /\ NewRefund(r, o, Direct, amount)

\* ReturnService.process_refund of a received return of p.  Its amount is computed
\* and rounded from the return alone: only the payment's balance bounds it here.
RequestReturnRefund(r, p, amount) ==
    /\ PartsOf(OrderOf[p]) \subseteq delivered
    /\ amount <= Refundable(OrderOf[p])
    /\ NewRefund(r, OrderOf[p], p, amount)

\* Mutant: the allocations of earlier refunds are forgotten.
CapacityWhole(p) == Subtotal[p]

\* The merchandise value of p that no confirmed refund took.
Capacity(p) == Subtotal[p] - Allocated(p, Done)

CapacityOf(o) == [p \in PartsOf(o) |-> Capacity(p)]

\* What of refund r is merchandise; the rest is shipping.
Merchandise(r) ==
    LET o == refund[r].order IN
    IF refund[r].part # Direct THEN refund[r].amount
    ELSE Lesser(refund[r].amount, SumFunctionOnSet(CapacityOf(o), PartsOf(o)))

\* Mutant: a linked refund is spread like a direct one.
AllocationSpread(r) ==
    LET o == refund[r].order
        split == Split(Merchandise(r), PartsOf(o), CapacityOf(o))
    IN  [p \in Part |-> IF p \in PartsOf(o) THEN split[p] ELSE 0]

\* _create_refund_accounting: the merchandise of a linked refund is its part's
\* alone, that of a direct one is split over the parts of the order.
Allocation(r) ==
    LET o == refund[r].order
        split == Split(Merchandise(r), PartsOf(o), CapacityOf(o))
    IN  [p \in Part |->
            IF refund[r].part # Direct
            THEN IF p = refund[r].part THEN refund[r].amount ELSE 0
            ELSE IF p \in PartsOf(o) THEN split[p] ELSE 0]

PriorShipping(o) == SumFunctionOnSet(shipping, RefundsOf(o) \intersect Done)

\* The checks of the allocation; anything else fails the confirmation.
Fits(r) ==
    IF refund[r].part # Direct
    THEN refund[r].amount <= Capacity(refund[r].part)
    ELSE /\ refund[r].amount - Merchandise(r) <=
                ShippingFee[refund[r].order] - PriorShipping(refund[r].order)
         /\ SumFunctionOnSet(Allocation(r), Part) = Merchandise(r)

\* Mutant: a released ledger still takes from the pending balance.
DebitPendingFirst(p, debit) ==
    LET purse == wallet[SellerOf[p]]
        fromPending == Lesser(debit, purse.pending)
    IN  [pending |-> fromPending,
         available |-> Lesser(debit - fromPending, purse.available)]

\* _apply_debit: earnings on hold are taken from pending before available,
\* released ones from available only; nothing goes below zero.
Debit(p, debit) ==
    LET purse == wallet[SellerOf[p]]
        fromPending == IF p \in released THEN 0 ELSE Lesser(debit, purse.pending)
    IN  [pending |-> fromPending,
         available |-> Lesser(debit - fromPending, purse.available)]

\* reverse_for_refund: allocate r and apply it to the ledgers that exist; the
\* other allocations wait for the settlement of their part.
ReverseForRefund(r, allocation) ==
    LET now == {p \in settled : allocation[p] > 0}
        taken == [p \in now |-> Reversal(allocation[p], ledger[p].rate,
                                         NetCommission(p, ledger[p]), NetSeller(p, ledger[p]))]
        debit == [p \in now |-> Debit(p, taken[p].seller)]
        BySeller(f, s) == SumFunctionOnSet(f, {p \in now : SellerOf[p] = s})
    IN  /\ \A p \in now : allocation[p] <= NetGross(p, ledger[p])
        /\ share' = [share EXCEPT ![r] = allocation]
        /\ shipping' = [shipping EXCEPT ![r] = refund[r].amount - Merchandise(r)]
        /\ ledger' = [p \in Part |->
                IF p \notin now THEN ledger[p]
                ELSE [Applied(ledger[p], allocation[p], taken[p]) EXCEPT
                        !.shortfall = @ + taken[p].seller - debit[p].pending
                                        - debit[p].available]]
        /\ wallet' = [s \in Seller |->
                [pending |-> wallet[s].pending - BySeller([p \in now |-> debit[p].pending], s),
                 available |-> wallet[s].available
                                - BySeller([p \in now |-> debit[p].available], s),
                 earned |-> wallet[s].earned - BySeller([p \in now |-> taken[p].seller], s)]]

\* PaymentService.confirm_refund: the transfer was made; allocate, reverse and,
\* when nothing is left, close the payment.
ConfirmRefund(r) ==
    LET o == refund[r].order
        allocation == Allocation(r)
    IN  /\ refund[r].amount > 0 /\ ~refund[r].done
        /\ paid[o] = "completed"
        /\ Fits(r)
        /\ ReverseForRefund(r, allocation)
        /\ refund' = [refund EXCEPT ![r].done = TRUE]
        /\ paid' = [paid EXCEPT ![o] =
                IF AmountOf(RefundsOf(o) \intersect (Done \union {r})) >= PaymentAmount(o)
                THEN "refunded" ELSE @]
        /\ UNCHANGED <<delivered, settled, released, payout, slots>>

-----------------------------------------------------------------------------
(* Withdrawals and purchases from the wallet.                              *)

\* Mutant: the request does not reserve the money it asks for.
RequestWithdrawalUnreserved(y, s, amount) ==
    /\ payout[y].status = "none"
    /\ amount \in MinWithdrawal..MaxWithdrawal
    /\ amount <= wallet[s].available
    /\ payout' = [payout EXCEPT ![y] = [seller |-> s, amount |-> amount, status |-> "requested"]]
    /\ UNCHANGED <<paid, delivered, refundVars, ledgerVars, wallet, slots>>

\* WalletService.request_withdrawal
RequestWithdrawal(y, s, amount) ==
    /\ payout[y].status = "none"
    /\ amount \in MinWithdrawal..MaxWithdrawal
    /\ amount <= wallet[s].available
    /\ wallet' = [wallet EXCEPT ![s].available = @ - amount]
    /\ payout' = [payout EXCEPT ![y] = [seller |-> s, amount |-> amount, status |-> "requested"]]
    /\ UNCHANGED <<paid, delivered, refundVars, ledgerVars, slots>>

\* WalletService.admin_approve_payout
ApprovePayout(y) ==
    /\ payout[y].status = "requested"
    /\ payout' = [payout EXCEPT ![y].status = "approved"]
    /\ UNCHANGED <<paid, delivered, refundVars, ledgerVars, wallet, slots>>

\* WalletService.admin_reject_payout: the reserved money returns to the wallet.
RejectPayout(y) ==
    /\ payout[y].status \in {"requested", "approved"}
    /\ wallet' = [wallet EXCEPT ![payout[y].seller].available = @ + payout[y].amount]
    /\ payout' = [payout EXCEPT ![y].status = "rejected"]
    /\ UNCHANGED <<paid, delivered, refundVars, ledgerVars, slots>>

\* WalletService.admin_complete_payout
CompletePayout(y) ==
    /\ payout[y].status = "approved"
    /\ payout' = [payout EXCEPT ![y].status = "completed"]
    /\ UNCHANGED <<paid, delivered, refundVars, ledgerVars, wallet, slots>>

\* SlotService.purchase_slots
PurchaseSlots(s) ==
    /\ slots[s] < MaxSlots
    /\ SlotPrice <= wallet[s].available
    /\ wallet' = [wallet EXCEPT ![s].available = @ - SlotPrice]
    /\ slots' = [slots EXCEPT ![s] = @ + 1]
    /\ UNCHANGED <<paid, delivered, refundVars, ledgerVars, payout>>

-----------------------------------------------------------------------------
\* Refunds and collections, recorded by administrators.
Payments ==
    \/ \E r \in Refund, o \in Order : \E n \in 1..PaymentAmount(o) : RequestRefund(r, o, n)
    \/ \E r \in Refund, p \in Part : \E n \in 1..Subtotal[p] : RequestReturnRefund(r, p, n)
    \/ \E r \in Refund : ConfirmRefund(r)
    \/ \E o \in Order : RecordCodCollection(o)

\* An administrator decides a payout.
ReviewPayout(y) == ApprovePayout(y) \/ RejectPayout(y) \/ CompletePayout(y)

Next ==
    \/ \E p \in Part : Deliver(p)
    \/ \E S \in SUBSET Part : ReleaseMature(S)
    \/ Payments
    \/ \E y \in Payout, s \in Seller : \E n \in 1..MaxWithdrawal : RequestWithdrawal(y, s, n)
    \/ \E y \in Payout : ReviewPayout(y)
    \/ \E s \in Seller : PurchaseSlots(s)

Spec == Init /\ [][Next]_vars

-----------------------------------------------------------------------------
(* Properties.                                                             *)

TypeOK ==
    /\ paid \in [Order -> {"pending", "completed", "refunded"}]
    /\ delivered \subseteq Part /\ settled \subseteq delivered /\ released \subseteq settled
    /\ refund \in [Refund -> [order : Order \union {"none"}, part : Part \union {Direct},
                              amount : Nat, done : BOOLEAN]]
    /\ share \in [Refund -> [Part -> Nat]]
    /\ shipping \in [Refund -> Nat]
    /\ ledger \in [Part -> [rate : 0..RateScale, refunded : Nat, reversedCommission : Nat,
                            reversedSeller : Nat, offset : Nat, shortfall : Nat]]
    /\ wallet \in [Seller -> [pending : Nat, available : Nat, earned : Nat]]
    /\ payout \in [Payout -> [seller : Seller \union {NoSeller}, amount : Nat,
            status : {"none", "requested", "approved", "rejected", "completed"}]]
    /\ slots \in [Seller -> 0..MaxSlots]

PartsSoldBy(s) == {p \in settled : SellerOf[p] = s}
SumNet(S) == SumFunctionOnSet([p \in S |-> NetSeller(p, ledger[p])], S)
SumShortfall(S) == SumFunctionOnSet([p \in S |-> ledger[p].shortfall], S)

\* The money a brand took out of its wallet or reserved for it.
TakenOut(s) ==
    LET live == {y \in Payout : payout[y].seller = s /\ payout[y].status # "rejected"}
    IN  SumFunctionOnSet([y \in live |-> payout[y].amount], live) + slots[s] * SlotPrice

\* A brand's pending balance is exactly the net earnings of its ledgers on
\* hold, whatever refunds hit them and whatever was released meanwhile; so the
\* sweep's check of the balance never keeps a mature ledger back, and a refund
\* of earnings on hold is recovered in full.  The total it is shown as earned
\* is the net of all its ledgers.
HeldEarningsBacked ==
    \A s \in Seller :
        /\ wallet[s].pending = SumNet(PartsSoldBy(s) \ released)
        /\ SumShortfall(PartsSoldBy(s) \ released) = 0
        /\ wallet[s].earned = SumNet(PartsSoldBy(s))

\* Wallet conservation: what a brand can withdraw, what it withdrew or asked
\* for and what it spent is what its released ledgers earned it net of
\* refunds, plus the refunds the platform had to absorb.
WithdrawableAccounted ==
    \A s \in Seller :
        wallet[s].available + TakenOut(s) =
            SumNet(PartsSoldBy(s) \intersect released) + SumShortfall(PartsSoldBy(s))

\* Every confirmed allocation reaches the ledger of its part exactly once, be
\* it settled before or after the refund, and splits into commission and
\* earnings neither of which is reversed below zero.
RefundsReachLedgers ==
    \A p \in settled :
        LET l == ledger[p] IN
        /\ l.refunded = Allocated(p, Done)
        /\ l.reversedCommission + l.reversedSeller = l.refunded
        /\ NetCommission(p, l) >= 0 /\ NetSeller(p, l) >= 0

\* A confirmed refund is explained to the paisa by the brands' merchandise and
\* shipping, and the refunds of an order never exceed what was charged for
\* each of them.
RefundsExplained ==
    /\ \A r \in Done : SumFunctionOnSet(share[r], Part) + shipping[r] = refund[r].amount
    /\ \A p \in Part : Allocated(p, Refund) <= Subtotal[p]
    /\ \A o \in Order : PriorShipping(o) <= ShippingFee[o]
    /\ \A o \in Order : AmountOf(RefundsOf(o)) <= PaymentAmount(o)

\* Confirming the refund of a returned product costs only the brand that sold
\* it: no other brand's wallet or ledger moves.
OtherBrandsUntouched ==
    [][\A r \in Refund :
          (refund[r].part # Direct /\ refund'[r].done /\ ~refund[r].done) =>
              \A p \in Part \ {refund[r].part} :
                  /\ ledger'[p] = ledger[p]
                  /\ SellerOf[p] # SellerOf[refund[r].part] =>
                        wallet'[SellerOf[p]] = wallet[SellerOf[p]]]_vars

-----------------------------------------------------------------------------
(* Statements of the documentation the code does not keep.                 *)

\* "Pending refund amounts reserve refundable capacity": while its payment is
\* completed, a requested refund keeps the capacity its confirmation needs.
PendingRefundsReserve ==
    \A r \in Refund :
        refund[r].amount > 0 /\ ~refund[r].done /\ paid[refund[r].order] = "completed" =>
            Fits(r)

=============================================================================
