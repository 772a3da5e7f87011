--------------------------- MODULE OrderFulfilment ---------------------------
(***************************************************************************)
(* The life of an order in drip-backend: checkout reserves stock, the      *)
(* order is paid or its cash-on-delivery (COD) request verified, every     *)
(* brand ships its own part, cash is collected, earnings are settled; or   *)
(* the order is cancelled by the customer, an administrator, a delayed job *)
(* or the expiry sweep, and its stock is released.                         *)
(*                                                                         *)
(* Every handler locks the row of its order first and commits once, so a   *)
(* handler is one action; the interleavings are those of the handlers of   *)
(* different orders, which meet at the inventory rows, and of the clock.   *)
(*                                                                         *)
(* Abstracted here: prices (only whether a coupon discounted the order is  *)
(* kept), addresses, the PayFast exchange (module PayFastAttempts) and the *)
(* amounts of settlement.                                                  *)
(***************************************************************************)
EXTENDS Integers, FiniteSets

CONSTANTS
    Order,           \* ids of the orders that checkouts may create
    Variant,         \* sellable product variants, one inventory row each
    Seller,          \* brands
    SellerOf,        \* SellerOf[v] is the brand that sells v
    MaxQty,          \* most units of one variant in a checkout
    MaxStock,        \* most units an inventory row may hold
    Discounts,       \* Discounts[o]: whether a coupon discounts the order, or may
    CodTimeouts,     \* values the platform setting cod_timeout_minutes may take
    PaymentTimeout,  \* settings.PAYMENT_TIMEOUT_MINUTES
    MaxAge,          \* clock bound: the age at which the model's clock stops
    SweepLimit       \* most orders one expiry sweep cancels

ASSUME ConstantsAssumption ==
    /\ IsFiniteSet(Order)
    /\ SellerOf \in [Variant -> Seller]
    /\ MaxQty \in Nat \ {0}
    /\ MaxStock \in Nat
    /\ Discounts \in [Order -> SUBSET BOOLEAN]
    /\ CodTimeouts \subseteq Nat /\ CodTimeouts # {}
    /\ PaymentTimeout \in Nat
    /\ MaxAge \in Nat
    /\ SweepLimit \in Nat \ {0}

VARIABLES
    status,      \* orders.status; "none" before checkout
    method,      \* orders.payment_method
    discounted,  \* whether orders.discount_amount > 0
    qty,         \* order_items.quantity, by order and variant
    fulfilment,  \* seller_orders.status, by order and brand; "none": no row
    payment,     \* payments.status of the order's payment; "none": no row
    settled,     \* brands whose part of the order has a commission ledger row
    outbox,      \* statuses whose notification event is stored for the order
    age,         \* time since orders.created_at
    codTimeout,  \* the platform setting cod_timeout_minutes
    stock,       \* product_inventory.stock
    reserved     \* product_inventory.reserved

orderVars == <<status, method, discounted, qty, fulfilment>>
moneyVars == <<payment, settled>>
clockVars == <<age, codTimeout>>
stockVars == <<stock, reserved>>
vars == <<orderVars, moneyVars, outbox, clockVars, stockVars>>

OrderStatus == {"none", "pending_payment", "pending_cod_verification",
                "payment_confirmed", "processing", "shipped", "delivered",
                "cancelled"}
SellerOrderStatus == {"none", "pending", "processing", "shipped", "delivered",
                      "cancelled"}
PaymentStatus == {"none", "pending", "failed", "completed", "refunded"}
OrderEvent == {"placed", "payment_confirmed", "processing", "shipped",
               "delivered", "cancelled"}

Pending == {"pending_payment", "pending_cod_verification"}
Cancellable == Pending \union {"processing"}
Fulfillable == {"payment_confirmed", "processing", "shipped"}

-----------------------------------------------------------------------------
(* Reading the rows of an order.                                           *)

\* The brands with a seller order in o.
Brands(o) == {s \in Seller : fulfilment[o][s] # "none"}

\* One element for every unit of v that the orders S bought.
Units(S, v) == {u \in S \X (1..MaxQty) : u[2] <= qty[u[1]][v]}

\* The units of v bought by the orders S.
Quantity(S, v) == Cardinality(Units(S, v))

\* An order line holds its reservation until its brand ships or it is cancelled.
Holds(o, v) == fulfilment[o][SellerOf[v]] \in {"pending", "processing"}
HeldUnits(v) == {u \in Units(Order, v) : Holds(u[1], v)}

Timeout(o) == IF method[o] = "cod" THEN codTimeout ELSE PaymentTimeout

-----------------------------------------------------------------------------
(* Shared effects.                                                         *)

\* Strict release: the whole transaction fails when a row holds too little.
ReleaseStrict(S) ==
    /\ \A v \in Variant : reserved[v] >= Quantity(S, v)
    /\ reserved' = [v \in Variant |-> reserved[v] - Quantity(S, v)]
    /\ UNCHANGED stock

\* Lenient release: a row that holds too little is silently left as it is.
ReleaseLenient(o) ==
    /\ reserved' = [v \in Variant |->
            IF reserved[v] >= qty[o][v] THEN reserved[v] - qty[o][v]
                                        ELSE reserved[v]]
    /\ UNCHANGED stock

\* Seller orders and parent of every order of S become cancelled, announced once.
MarkCancelled(S) ==
    /\ fulfilment' = [o \in Order |->
            IF o \in S
            THEN [s \in Seller |-> IF s \in Brands(o) THEN "cancelled" ELSE "none"]
            ELSE fulfilment[o]]
    /\ status' = [o \in Order |-> IF o \in S THEN "cancelled" ELSE status[o]]
    /\ outbox' = [o \in Order |->
            IF o \in S THEN outbox[o] \union {"cancelled"} ELSE outbox[o]]
    /\ UNCHANGED <<method, discounted, qty>>

-----------------------------------------------------------------------------
Init ==
    /\ status = [o \in Order |-> "none"]
    /\ method = [o \in Order |-> "payfast"]
    /\ discounted = [o \in Order |-> FALSE]
    /\ qty = [o \in Order |-> [v \in Variant |-> 0]]
    /\ fulfilment = [o \in Order |-> [s \in Seller |-> "none"]]
    /\ payment = [o \in Order |-> "none"]
    /\ settled = [o \in Order |-> {}]
    /\ outbox = [o \in Order |-> {}]
    /\ age = [o \in Order |-> 0]
    /\ codTimeout \in CodTimeouts
    /\ stock \in [Variant -> 0..MaxStock]
    /\ reserved = [v \in Variant |-> 0]

\* OrderService._build_order: snapshot, split by brand, reserve every line.
Checkout(o, m, d, q) ==
    /\ status[o] = "none"
    /\ \E v \in Variant : q[v] > 0
    /\ \A v \in Variant : stock[v] - reserved[v] >= q[v]
    /\ status' = [status EXCEPT ![o] = IF m = "cod" THEN "pending_cod_verification"
                                                    ELSE "pending_payment"]
    /\ method' = [method EXCEPT ![o] = m]
    /\ discounted' = [discounted EXCEPT ![o] = d]
    /\ qty' = [qty EXCEPT ![o] = q]
    /\ fulfilment' = [fulfilment EXCEPT ![o] =
            [s \in Seller |-> IF \E v \in Variant : SellerOf[v] = s /\ q[v] > 0
                              THEN "pending" ELSE "none"]]
    /\ reserved' = [v \in Variant |-> reserved[v] + q[v]]
    /\ outbox' = [outbox EXCEPT ![o] = {"placed"}]
    /\ UNCHANGED <<moneyVars, clockVars, stock>>

-----------------------------------------------------------------------------
(* Payment of the order, as its row records it.                            *)

\* PaymentService.initiate and the start of a PayFast attempt: the payment row
\* is created once, and a new attempt after a verified failure reopens it.
InitiatePayment(o) ==
    /\ \/ /\ status[o] \in Pending
          /\ payment[o] = "none"
       \/ /\ status[o] = "pending_payment"
          /\ payment[o] = "failed"
    /\ payment' = [payment EXCEPT ![o] = "pending"]
    /\ UNCHANGED <<orderVars, settled, outbox, clockVars, stockVars>>

\* Mutant: the switch does not look at the order's status.
SwitchToCodAnytime(o) ==
    /\ payment[o] = "none"
    /\ status[o] # "none"
    /\ method' = [method EXCEPT ![o] = "cod"]
    /\ status' = [status EXCEPT ![o] = "pending_cod_verification"]
    /\ payment' = [payment EXCEPT ![o] = "pending"]
    /\ UNCHANGED <<discounted, qty, fulfilment, settled, outbox, clockVars, stockVars>>

\* PaymentService.retry before any payment row exists: the order becomes COD.
\* The switch stores no notification event.
SwitchToCod(o) ==
    /\ status[o] = "pending_payment"
    /\ payment[o] = "none"
    /\ method' = [method EXCEPT ![o] = "cod"]
    /\ status' = [status EXCEPT ![o] = "pending_cod_verification"]
    /\ payment' = [payment EXCEPT ![o] = "pending"]
    /\ UNCHANGED <<discounted, qty, fulfilment, settled, outbox, clockVars, stockVars>>

\* reconcile_payfast with success evidence for an order that still waits.
ConfirmPayment(o) ==
    /\ method[o] = "payfast"
    /\ payment[o] \in {"pending", "failed"}
    /\ status[o] = "pending_payment"
    /\ payment' = [payment EXCEPT ![o] = "completed"]
    /\ status' = [status EXCEPT ![o] = "payment_confirmed"]
    /\ outbox' = [outbox EXCEPT ![o] = @ \union {"payment_confirmed"}]
    /\ UNCHANGED <<method, discounted, qty, fulfilment, settled, clockVars, stockVars>>

\* reconcile_payfast with failure evidence, at any order status.
FailPayment(o) ==
    /\ method[o] = "payfast"
    /\ payment[o] = "pending"
    /\ payment' = [payment EXCEPT ![o] = "failed"]
    /\ UNCHANGED <<orderVars, settled, outbox, clockVars, stockVars>>

\* confirm_refund of an amount that exhausts a completed payment.
RefundInFull(o) ==
    /\ payment[o] = "completed"
    /\ payment' = [payment EXCEPT ![o] = "refunded"]
    /\ UNCHANGED <<orderVars, settled, outbox, clockVars, stockVars>>

\* The saved amounts of an order agree only when nothing was discounted: the
\* brand parts are stored net of the discount, the order's subtotal before it.
CollectionAmountsAgree(o) == ~discounted[o]

\* PaymentService.record_cod_collection: cash recorded, every brand settled.
RecordCodCollection(o) ==
    /\ method[o] = "cod"
    /\ payment[o] = "pending"
    /\ status[o] = "delivered"
    /\ \A s \in Brands(o) : fulfilment[o][s] = "delivered"
    /\ CollectionAmountsAgree(o)
    /\ payment' = [payment EXCEPT ![o] = "completed"]
    /\ settled' = [settled EXCEPT ![o] = Brands(o)]
    /\ UNCHANGED <<orderVars, outbox, clockVars, stockVars>>

-----------------------------------------------------------------------------
(* Verification, cancellation and expiry.                                  *)

\* AdminService._check_cod_review
CodReviewable(o) ==
    /\ status[o] = "pending_cod_verification"
    /\ method[o] = "cod"
    /\ \A s \in Brands(o) : fulfilment[o][s] = "pending"

\* AdminService.verify_cod
VerifyCod(o) ==
    /\ CodReviewable(o)
    /\ age[o] < codTimeout
    /\ status' = [status EXCEPT ![o] = "processing"]
    /\ outbox' = [outbox EXCEPT ![o] = @ \union {"processing"}]
    /\ UNCHANGED <<method, discounted, qty, fulfilment, moneyVars, clockVars, stockVars>>

\* AdminService.cancel_cod
CancelCod(o) ==
    /\ CodReviewable(o)
    /\ ReleaseStrict({o})
    /\ MarkCancelled({o})
    /\ UNCHANGED <<moneyVars, clockVars>>

\* Mutant: cancellation does not look for a completed payment.
CancelOrderPaid(o) ==
    /\ status[o] \in Cancellable
    /\ \A s \in Brands(o) : fulfilment[o][s] \in {"pending", "processing"}
    /\ ReleaseLenient(o)
    /\ MarkCancelled({o})
    /\ UNCHANGED <<moneyVars, clockVars>>

\* OrderService.cancel_order
CancelOrder(o) ==
    /\ status[o] \in Cancellable
    /\ \A s \in Brands(o) : fulfilment[o][s] \in {"pending", "processing"}
    /\ payment[o] \notin {"completed", "refunded"}
    /\ ReleaseLenient(o)
    /\ MarkCancelled({o})
    /\ UNCHANGED <<moneyVars, clockVars>>

\* cod_verification_timeout: the delayed job of one COD order.
CodVerificationTimeout(o) ==
    /\ status[o] = "pending_cod_verification"
    /\ method[o] = "cod"
    /\ age[o] >= codTimeout
    /\ ReleaseStrict({o})
    /\ MarkCancelled({o})
    /\ UNCHANGED <<moneyVars, clockVars>>

\* Mutant: the sweep forgets COD orders and leaves them to the delayed job.
ExpiredOnline(o) ==
    /\ status[o] = "pending_payment"
    /\ age[o] > Timeout(o)

Expired(o) ==
    /\ \/ status[o] = "pending_cod_verification" /\ method[o] = "cod"
       \/ status[o] = "pending_payment"
    /\ age[o] > Timeout(o)

\* expire_pending_orders: the sweep cancels the expired orders whose rows it
\* could lock (SKIP LOCKED), at most SweepLimit of them, in one transaction.
ExpirePendingOrders(S) ==
    /\ S # {}
    /\ \A o \in S : Expired(o)
    /\ Cardinality(S) <= SweepLimit
    /\ ReleaseStrict(S)
    /\ MarkCancelled(S)
    /\ UNCHANGED <<moneyVars, clockVars>>

-----------------------------------------------------------------------------
(* Fulfilment by one brand.                                                *)

NextStep == [pending |-> "processing", processing |-> "shipped",
             shipped |-> "delivered"]

\* Mutant: one delivered part makes the order delivered.
ParentStatusAny(f) ==
    LET parts == {f[s] : s \in Seller} \ {"none"} IN
    IF "delivered" \in parts THEN "delivered"
    ELSE IF parts \subseteq {"shipped", "delivered"} THEN "shipped"
    ELSE "processing"

\* The parent's status, from the statuses f of its seller orders.
ParentStatus(f) ==
    LET parts == {f[s] : s \in Seller} \ {"none"} IN
    IF parts \subseteq {"delivered"} THEN "delivered"
    ELSE IF parts \subseteq {"shipped", "delivered"} THEN "shipped"
    ELSE "processing"

\* Mutant: shipping consumes stock and keeps the reservation.
DeductStockOnly(o, s) ==
    LET sold(v) == IF SellerOf[v] = s THEN qty[o][v] ELSE 0 IN
    /\ \A v \in Variant : reserved[v] >= sold(v) /\ stock[v] >= sold(v)
    /\ stock' = [v \in Variant |-> stock[v] - sold(v)]
    /\ UNCHANGED reserved

\* InventoryRepository.deduct on every line of o sold by s.
DeductBrand(o, s) ==
    LET sold(v) == IF SellerOf[v] = s THEN qty[o][v] ELSE 0 IN
    /\ \A v \in Variant : reserved[v] >= sold(v) /\ stock[v] >= sold(v)
    /\ stock' = [v \in Variant |-> stock[v] - sold(v)]
    /\ reserved' = [v \in Variant |-> reserved[v] - sold(v)]

\* Mutant: delivery settles although the cash was not collected.
SettledAfterUnpaid(o, s, target) ==
    IF target = "delivered" THEN settled[o] \union {s} ELSE settled[o]

\* The ledger rows of o once its part s has reached target: a delivery settles
\* at once when the order's payment is completed.
SettledAfter(o, s, target) ==
    IF target = "delivered" /\ payment[o] = "completed"
    THEN settled[o] \union {s} ELSE settled[o]

\* OrderService.update_seller_order_status
AdvanceSellerOrder(o, s) ==
    /\ fulfilment[o][s] \in DOMAIN NextStep
    /\ status[o] \in Fulfillable
    /\ LET target == NextStep[fulfilment[o][s]]
           parts == [fulfilment[o] EXCEPT ![s] = target]
           parent == ParentStatus(parts)
       IN  /\ IF target = "shipped" THEN DeductBrand(o, s) ELSE UNCHANGED stockVars
           /\ fulfilment' = [fulfilment EXCEPT ![o] = parts]
           /\ status' = [status EXCEPT ![o] = parent]
           /\ outbox' = [outbox EXCEPT ![o] = @ \union {parent}]
           /\ settled' = [settled EXCEPT ![o] = SettledAfter(o, s, target)]
    /\ UNCHANGED <<method, discounted, qty, payment, clockVars>>

-----------------------------------------------------------------------------
(* The seller's stock edits, the platform setting and the clock.           *)

\* Mutant: a stock correction ignores the reserved units.
SetStockBlind(v, n) ==
    /\ n # stock[v]
    /\ stock' = [stock EXCEPT ![v] = n]
    /\ UNCHANGED <<orderVars, moneyVars, outbox, clockVars, reserved>>

\* InventoryService.set_stock and adjust_stock
SetStock(v, n) ==
    /\ n >= reserved[v]
    /\ n # stock[v]
    /\ stock' = [stock EXCEPT ![v] = n]
    /\ UNCHANGED <<orderVars, moneyVars, outbox, clockVars, reserved>>

\* bulk_update_stock of the rows asked for: those whose new stock covers their
\* reservations are written together, the others are reported.
BulkUpdateStock(asked) ==
    /\ stock' = [v \in Variant |-> IF v \in DOMAIN asked /\ reserved[v] <= asked[v]
                                   THEN asked[v] ELSE stock[v]]
    /\ stock' # stock
    /\ UNCHANGED <<orderVars, moneyVars, outbox, clockVars, reserved>>

\* Sellers edit single rows, administrators several.
EditStock ==
    \/ \E v \in Variant, n \in 0..MaxStock : SetStock(v, n)
    \/ \E S \in SUBSET Variant : \E asked \in [S -> 0..MaxStock] : BulkUpdateStock(asked)

\* An administrator edits cod_timeout_minutes: open COD windows move with it.
SetCodTimeout(t) ==
    /\ t # codTimeout
    /\ codTimeout' = t
    /\ UNCHANGED <<orderVars, moneyVars, outbox, age, stockVars>>

\* Time passes for a waiting order; MaxAge bounds the clock.
Tick(o) ==
    /\ status[o] \in Pending
    /\ age[o] < MaxAge
    /\ age' = [age EXCEPT ![o] = @ + 1]
    /\ UNCHANGED <<orderVars, moneyVars, outbox, codTimeout, stockVars>>

-----------------------------------------------------------------------------
\* An administrator decides an order of the COD queue.
ReviewCod(o) == VerifyCod(o) \/ CancelCod(o)

OrderNext(o) ==
    \/ \E m \in {"payfast", "cod"}, d \in Discounts[o], q \in [Variant -> 0..MaxQty] :
            Checkout(o, m, d, q)
    \/ InitiatePayment(o)
    \/ SwitchToCod(o)
    \/ ConfirmPayment(o)
    \/ FailPayment(o)
    \/ RefundInFull(o)
    \/ RecordCodCollection(o)
    \/ ReviewCod(o)
    \/ CancelOrder(o)
    \/ CodVerificationTimeout(o)
    \/ \E s \in Seller : AdvanceSellerOrder(o, s)
    \/ Tick(o)

Next ==
    \/ \E o \in Order : OrderNext(o)
    \/ \E S \in SUBSET Order : ExpirePendingOrders(S)
    \/ EditStock
    \/ \E t \in CodTimeouts : SetCodTimeout(t)

Spec == Init /\ [][Next]_vars

\* Time passes and the worker's cron keeps running the sweep; nobody is obliged
\* to pay, verify, ship or cancel, and the delayed COD job may be lost.
FairSpec ==
    /\ Spec
    /\ \A o \in Order : WF_vars(Tick(o))
    /\ WF_vars(\E S \in SUBSET Order : ExpirePendingOrders(S))

-----------------------------------------------------------------------------
(* Properties.                                                             *)

TypeOK ==
    /\ status \in [Order -> OrderStatus]
    /\ method \in [Order -> {"payfast", "cod"}]
    /\ discounted \in [Order -> BOOLEAN]
    /\ qty \in [Order -> [Variant -> 0..MaxQty]]
    /\ fulfilment \in [Order -> [Seller -> SellerOrderStatus]]
    /\ payment \in [Order -> PaymentStatus]
    /\ settled \in [Order -> SUBSET Seller]
    /\ outbox \in [Order -> SUBSET OrderEvent]
    /\ age \in [Order -> Nat]
    /\ codTimeout \in CodTimeouts
    /\ stock \in [Variant -> Nat]
    /\ reserved \in [Variant -> Nat]

\* Every inventory row reserves exactly the units of the order lines that are
\* neither shipped nor cancelled: no path through cancellation, expiry,
\* verification and shipping releases a line twice, loses a release, or
\* releases what was already deducted, whichever of them race.
ReservationExact ==
    \A v \in Variant : reserved[v] = Cardinality(HeldUnits(v))

\* No release is refused or silently dropped: for any set of orders that may
\* still be cancelled together the rows hold what the release gives back, so
\* neither the expiry sweep nor a COD rejection fails because of another
\* order, and the lenient release of a customer's cancellation skips nothing.
ReleaseNeverFails ==
    \A S \in SUBSET {o \in Order : status[o] \in Cancellable} :
        (\A o \in S : \A s \in Brands(o) : fulfilment[o][s] \in {"pending", "processing"}) =>
            \A v \in Variant : Quantity(S, v) <= reserved[v]

\* No oversell: checkouts, shipments and the sellers' own stock corrections
\* never leave less on the shelf than is promised to orders.
NoOversell == \A v \in Variant : reserved[v] <= stock[v]

\* The parent order summarises its brands' parts: it is delivered or shipped
\* only when all of them are, cancelled only with all of them, and no part
\* moves before the order was paid or verified.
ParentAgrees ==
    \A o \in Order :
        LET parts == {fulfilment[o][s] : s \in Brands(o)} IN
        /\ status[o] \in Pending \union {"payment_confirmed"} => parts = {"pending"}
        /\ status[o] = "cancelled" <=> parts = {"cancelled"}
        /\ status[o] = "delivered" <=> parts = {"delivered"}
        /\ status[o] = "shipped" <=>
              parts \in {{"shipped"}, {"shipped", "delivered"}}

\* Money and cancellation exclude each other: an order whose payment was
\* completed is never cancelled, by the customer, the sweep or a late job,
\* and a confirmed online order always has its money or gave it back.
PaidNeverCancelled ==
    \A o \in Order :
        /\ status[o] = "cancelled" => payment[o] \notin {"completed", "refunded"}
        /\ status[o] = "payment_confirmed" => payment[o] \in {"completed", "refunded"}

\* Nothing ships on credit: goods of an online order leave only after its
\* payment completed, goods of a COD order only after its verification, and
\* cash is recorded only once every part was delivered.
ShippedIsCovered ==
    \A o \in Order :
        /\ method[o] = "payfast" /\ status[o] \in Fulfillable \union {"delivered"} =>
              payment[o] \in {"completed", "refunded"}
        /\ method[o] = "cod" /\ payment[o] \in {"completed", "refunded"} =>
              status[o] = "delivered"

\* Earnings are settled for a brand exactly when they are due: its part was
\* delivered and the money is there.  Delivery and collection may come in
\* either order, and the later of the two must settle.
SettledWhenDue ==
    \A o \in Order : \A s \in Brands(o) :
        /\ s \in settled[o] =>
              fulfilment[o][s] = "delivered" /\ payment[o] \in {"completed", "refunded"}
        /\ fulfilment[o][s] = "delivered" /\ payment[o] = "completed" =>
              s \in settled[o]

\* Cancelled and delivered are final, and an order never leaves fulfilment
\* for a pending status.
NoComeback ==
    [][\A o \in Order :
          /\ status[o] \in {"cancelled", "delivered"} => status'[o] = status[o]
          /\ status[o] \notin {"none", "pending_payment"} =>
                status'[o] \notin Pending \ {status[o]}]_vars

\* A waiting order does not hold stock for ever: it is paid, verified or
\* cancelled, and if nobody acts the sweep cancels it.
ReservationsExpire ==
    \A o \in Order : (status[o] \in Pending) ~> (status[o] \notin Pending)

=============================================================================
