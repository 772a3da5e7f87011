--------------------------- MODULE PayFastAttempts ---------------------------
(***************************************************************************)
(* The exchange of PaymentService with the PayFast provider.  An attempt   *)
(* (a payment_callbacks row with gateway "payfast_attempt") is committed   *)
(* before the provider is asked for a checkout token; the request holds no *)
(* lock while it waits, so the order may be cancelled, reconciled or       *)
(* retried meanwhile, and it looks again before it hands out the checkout. *)
(* Afterwards the customer pays, or not, at the provider, whose callbacks  *)
(* are duplicated, delayed, reordered or lost.  A callback's hash binds    *)
(* its basket but not the transaction it names, which may be any other     *)
(* one.  Only the provider's status API, asked under the order's lock,     *)
(* decides a payment.                                                      *)
(*                                                                         *)
(* Each handler section between two commits is an action: it holds the     *)
(* order's row lock, also across the status request.  The provider and the *)
(* customer's browser are external.  Payments made before attempts existed *)
(* and customers without an IP address are not modelled.                   *)
(***************************************************************************)
EXTENDS Naturals, FiniteSets

CONSTANTS
    Order,        \* online orders awaiting payment
    Attempt,      \* pool of attempt ids, which are the provider's basket ids
    Transaction,  \* pool of provider transaction ids
    TxPerBasket,  \* how many transactions the provider opens for one basket
    NoOrder, NoAttempt, NoTx

ASSUME AttemptAssumption ==
    /\ TxPerBasket \in Nat \ {0}
    /\ NoOrder \notin Order /\ NoAttempt \notin Attempt /\ NoTx \notin Transaction

VARIABLES
    orderStatus,  \* orders.status, while the payment may still change it
    payment,      \* payments.status; "none": no row; "cod": a pending COD row
    active,       \* payments.gateway_payload["active_attempt_id"]
    reference,    \* payments.gateway_reference
    owner,        \* the order whose payment the attempt belongs to
    state,        \* raw_payload["state"] of an attempt
    txOf,         \* raw_payload["transaction_id"] of an attempt
    inflight,     \* attempts whose request still waits for its token
    issued,       \* baskets for which the provider issued a token
    handed,       \* baskets whose checkout form the customer received
    basket,       \* the provider's basket of a transaction
    outcome,      \* the provider's verdict on a transaction
    callbacks     \* baskets with a signed callback: it may arrive any number of times

orderVars == <<orderStatus, payment, active, reference>>
attemptVars == <<owner, state, txOf>>
providerVars == <<issued, basket, outcome, callbacks>>
vars == <<orderVars, attemptVars, inflight, handed, providerVars>>

Done == {"completed", "refunded"}

AttemptsOf(o) == {a \in Attempt : owner[a] = o}
TxIn(a) == {t \in Transaction : basket[t] = a}
PaidFor(o) == {t \in Transaction : outcome[t] = "paid" /\ basket[t] \in AttemptsOf(o)}

Init ==
    /\ orderStatus = [o \in Order |-> "pending_payment"]
    /\ payment = [o \in Order |-> "none"]
    /\ active = [o \in Order |-> NoAttempt]
    /\ reference = [o \in Order |-> NoTx]
    /\ owner = [a \in Attempt |-> NoOrder]
    /\ state = [a \in Attempt |-> "unused"]
    /\ txOf = [a \in Attempt |-> NoTx]
    /\ inflight = {} /\ issued = {} /\ handed = {}
    /\ basket = [t \in Transaction |-> NoAttempt]
    /\ outcome = [t \in Transaction |-> "none"]
    /\ callbacks = {}

-----------------------------------------------------------------------------
(* Starting an attempt.                                                    *)

\* First half of _start_payfast: the claim is committed before any I/O.
ClaimAttempt(o, a) ==
    /\ owner[a] = NoOrder
    /\ owner' = [owner EXCEPT ![a] = o]
    /\ state' = [state EXCEPT ![a] = "starting"]
    /\ active' = [active EXCEPT ![o] = a]
    /\ payment' = [payment EXCEPT ![o] = "pending"]
    /\ inflight' = inflight \union {a}

\* PaymentService.initiate: an existing row with an attempt is refused.
Initiate(o, a) ==
    /\ orderStatus[o] = "pending_payment"
    /\ payment[o] = "none"
    /\ ClaimAttempt(o, a)
    /\ UNCHANGED <<orderStatus, reference, txOf, handed, providerVars>>

\* Second half of _start_payfast: the order is locked again and, if nothing
\* moved meanwhile, the checkout is returned to the customer.
OfferCheckout(a) ==
    /\ a \in inflight \intersect issued
    /\ inflight' = inflight \ {a}
    /\ orderStatus[owner[a]] = "pending_payment"
    /\ payment[owner[a]] = "pending"
    /\ active[owner[a]] = a
    /\ state[a] = "starting"
    /\ state' = [state EXCEPT ![a] = "ready"]
    /\ handed' = handed \union {a}
    /\ UNCHANGED <<orderVars, owner, txOf, providerVars>>

\* The token request fails, the second look finds a change, or the process
\* dies: the claim stays and no checkout is returned.
DropRequest(a) ==
    /\ a \in inflight
    /\ inflight' = inflight \ {a}
    /\ UNCHANGED <<orderVars, attemptVars, handed, providerVars>>

\* PaymentService.retry with COD, before any payment row exists.
SwitchToCod(o) ==
    /\ orderStatus[o] = "pending_payment"
    /\ payment[o] = "none"
    /\ orderStatus' = [orderStatus EXCEPT ![o] = "pending_cod_verification"]
    /\ payment' = [payment EXCEPT ![o] = "cod"]
    /\ UNCHANGED <<active, reference, attemptVars, inflight, handed, providerVars>>

\* The expiry sweep, which does not look at the payment (a cancellation by the
\* customer does the same to fewer orders: it refuses a completed payment).
ExpireOrder(o) ==
    /\ orderStatus[o] = "pending_payment"
    /\ orderStatus' = [orderStatus EXCEPT ![o] = "cancelled"]
    /\ UNCHANGED <<payment, active, reference, attemptVars, inflight, handed,
                   providerVars>>

\* confirm_refund of the whole amount.
RefundInFull(o) ==
    /\ payment[o] = "completed"
    /\ payment' = [payment EXCEPT ![o] = "refunded"]
    /\ UNCHANGED <<orderStatus, active, reference, attemptVars, inflight, handed,
                   providerVars>>

-----------------------------------------------------------------------------
(* Evidence of the provider.                                               *)

\* The transaction a status request names; NoTx asks for the basket.
Lookup(o, expected) ==
    IF reference[o] # NoTx THEN reference[o]
    ELSE IF expected # NoTx THEN expected
    ELSE txOf[active[o]]

\* The transactions check_status may answer with.
Answers(o, expected) ==
    IF Lookup(o, expected) # NoTx THEN {Lookup(o, expected)} ELSE TxIn(active[o])

\* Mutant: the answer's basket is not compared with the active attempt.
MatchesUnbound(o, expected, t) ==
    /\ txOf[active[o]] \in {NoTx, t}
    /\ reference[o] \in {NoTx, t}
    /\ expected \in {NoTx, t}
    /\ \A p \in Order \ {o} : reference[p] # t

\* The identifiers of the answer t are those of this payment and attempt.
Matches(o, expected, t) ==
    /\ basket[t] = active[o]
    /\ txOf[active[o]] \in {NoTx, t}
    /\ reference[o] \in {NoTx, t}
    /\ expected \in {NoTx, t}
    /\ \A p \in Order \ {o} : reference[p] # t

\* Mutant: an unknown verdict is taken for success.
SucceededOptimistic(t) == outcome[t] \in {"open", "paid"}

\* _provider_outcome: only explicit terminal verdicts count.
Succeeded(t) == outcome[t] = "paid"
Failed(t) == outcome[t] = "failed"

\* Success evidence confirms an order that still waits for it.
Confirms(o, t) ==
    Succeeded(t) /\ payment[o] \notin Done /\ orderStatus[o] = "pending_payment"

\* reconcile_payfast once the answer t matched: verdicts move the payment and
\* the order, and settle the attempt unless it already succeeded.
Reconcile(o, t) ==
    LET a == active[o]
        confirmed == Confirms(o, t)
        refused == Failed(t) /\ payment[o] \in {"pending", "failed"}
        settles == Succeeded(t) \/ (Failed(t) /\ state[a] # "completed" /\ payment[o] \notin Done)
    IN  /\ payment' = [payment EXCEPT ![o] =
                IF confirmed THEN "completed" ELSE IF refused THEN "failed" ELSE @]
        /\ orderStatus' = [orderStatus EXCEPT ![o] =
                IF confirmed THEN "payment_confirmed" ELSE @]
        /\ reference' = [reference EXCEPT ![o] = IF confirmed THEN t ELSE @]
        /\ state' = [state EXCEPT ![a] =
                IF ~settles THEN @ ELSE IF Succeeded(t) THEN "completed" ELSE "failed"]
        /\ txOf' = [txOf EXCEPT ![a] = IF settles THEN t ELSE @]
        /\ UNCHANGED <<active, owner, inflight, handed, providerVars>>

\* An administrator asks the status API.
AdminReconcile(o) ==
    /\ payment[o] \notin {"none", "cod"}
    /\ \E t \in Answers(o, NoTx) : Matches(o, NoTx, t) /\ Reconcile(o, t)

\* handle_payfast_callback for the attempt a and a transaction named, which may
\* be of another basket or unknown: the service asks the status API about it.
\* Whatever the callback claims, the answer decides; anything that does not fit
\* changes nothing.
ReceiveCallback(a, named) ==
    LET o == owner[a] IN
    /\ a \in callbacks
    /\ payment[o] \in {"pending", "failed"}
    /\ active[o] = a
    /\ \A p \in Order \ {o} : reference[p] # named
    /\ orderStatus[o] = "pending_payment"
    /\ \E t \in Answers(o, named) : Matches(o, named, t) /\ Reconcile(o, t)

\* Mutant: any failed payment may be tried again, whatever became of its attempt.
RetryUnverified(o, a) ==
    /\ orderStatus[o] = "pending_payment"
    /\ payment[o] \in {"pending", "failed"}
    /\ active[o] # NoAttempt
    /\ ClaimAttempt(o, a)
    /\ UNCHANGED <<orderStatus, reference, txOf, handed, providerVars>>

\* PaymentService.retry: a new attempt needs a failed attempt and the provider
\* confirming that failure again.  (Any other answer is recorded as by
\* AdminReconcile, and nothing is started.)
Retry(o, a) ==
    /\ orderStatus[o] = "pending_payment"
    /\ payment[o] = "failed"
    /\ state[active[o]] = "failed"
    /\ \E t \in Answers(o, NoTx) : Matches(o, NoTx, t) /\ Failed(t)
    /\ ClaimAttempt(o, a)
    /\ UNCHANGED <<orderStatus, reference, txOf, handed, providerVars>>

-----------------------------------------------------------------------------
(* The provider and the customer at the provider's page.                   *)

IssueToken(a) ==
    /\ a \in inflight \ issued
    /\ issued' = issued \union {a}
    /\ UNCHANGED <<orderVars, attemptVars, inflight, handed, basket, outcome, callbacks>>

\* A transaction opens for a basket that took no money yet: by the customer,
\* or by the provider closing a session that was never used.
OpenTransaction(a, t) ==
    /\ a \in issued
    /\ basket[t] = NoAttempt
    /\ Cardinality(TxIn(a)) < TxPerBasket
    /\ \A u \in TxIn(a) : outcome[u] = "failed"
    /\ basket' = [basket EXCEPT ![t] = a]
    /\ outcome' = [outcome EXCEPT ![t] = "open"]
    /\ UNCHANGED <<orderVars, attemptVars, inflight, handed, issued, callbacks>>

\* Only a customer who holds the checkout form can pay.
Settle(t) ==
    /\ outcome[t] = "open"
    /\ \E verdict \in IF basket[t] \in handed THEN {"paid", "failed"} ELSE {"failed"} :
            outcome' = [outcome EXCEPT ![t] = verdict]
    /\ callbacks' = callbacks \union {basket[t]}
    /\ UNCHANGED <<orderVars, attemptVars, inflight, handed, issued, basket>>

-----------------------------------------------------------------------------
Next ==
    \/ \E o \in Order, a \in Attempt : Initiate(o, a) \/ Retry(o, a)
    \/ \E a \in Attempt : OfferCheckout(a) \/ DropRequest(a) \/ IssueToken(a)
    \/ \E o \in Order : SwitchToCod(o) \/ ExpireOrder(o) \/ RefundInFull(o)
                        \/ AdminReconcile(o)
    \/ \E a \in Attempt, t \in Transaction : OpenTransaction(a, t) \/ ReceiveCallback(a, t)
    \/ \E t \in Transaction : Settle(t)

Spec == Init /\ [][Next]_vars

-----------------------------------------------------------------------------
(* Properties.                                                             *)

TypeOK ==
    /\ orderStatus \in [Order -> {"pending_payment", "pending_cod_verification",
                                  "payment_confirmed", "cancelled"}]
    /\ payment \in [Order -> {"none", "cod", "pending", "failed", "completed", "refunded"}]
    /\ active \in [Order -> Attempt \union {NoAttempt}]
    /\ reference \in [Order -> Transaction \union {NoTx}]
    /\ owner \in [Attempt -> Order \union {NoOrder}]
    /\ state \in [Attempt -> {"unused", "starting", "ready", "completed", "failed"}]
    /\ txOf \in [Attempt -> Transaction \union {NoTx}]
    /\ inflight \subseteq Attempt /\ issued \subseteq Attempt /\ handed \subseteq Attempt
    /\ basket \in [Transaction -> Attempt \union {NoAttempt}]
    /\ outcome \in [Transaction -> {"none", "open", "paid", "failed"}]
    /\ callbacks \subseteq Attempt

\* A payment is booked only on the provider's money for this very order: the
\* stored reference is a paid transaction of one of the order's own attempts,
\* and booking and confirmation of the order happen together.
BookedIsCharged ==
    \A o \in Order :
        /\ payment[o] \in Done => reference[o] \in PaidFor(o)
        /\ payment[o] \in Done <=> orderStatus[o] = "payment_confirmed"

\* An attempt is replaced only after the provider declared its failure: no
\* interleaving of requests, retries and token answers mints a second attempt
\* while an earlier one could still be charged.
ReplacedOnlyAfterFailure ==
    \A o \in Order : \A a \in AttemptsOf(o) \ {active[o]} :
        state[a] = "failed" /\ txOf[a] # NoTx /\ outcome[txOf[a]] = "failed"

\* An order is charged at most once.  (It rests on the provider closing a
\* basket with its first verdict: TxPerBasket = 1.)
ChargedOnce == \A o \in Order : Cardinality(PaidFor(o)) <= 1

\* Success evidence is never shelved while the order still waits for it: the
\* verdict reaches the payment, or the order had been given up and the paid
\* attempt stays marked for manual review.
EvidenceActedOn ==
    \A a \in Attempt : state[a] = "completed" =>
        /\ txOf[a] \in PaidFor(owner[a])
        /\ payment[owner[a]] \in Done \/ orderStatus[owner[a]] = "cancelled"

\* The abstract promise, with the provider's charges counted.
Life(o) ==
    CASE orderStatus[o] = "pending_payment" -> "waiting"
      [] orderStatus[o] = "payment_confirmed" -> "confirmed"
      [] orderStatus[o] = "pending_cod_verification" -> "cash"
      [] OTHER -> "cancelled"
Book(o) ==
    CASE payment[o] = "completed" -> "paid"
      [] payment[o] = "refunded" -> "refunded"
      [] OTHER -> "open"

Promise == INSTANCE OnlinePayment WITH
    life <- [o \in Order |-> Life(o)],
    charges <- [o \in Order |-> Cardinality(PaidFor(o))],
    book <- [o \in Order |-> Book(o)]

\* The exchange with the provider implements the abstract promise, whatever
\* transaction a callback names.
KeepsPromise == Promise!Spec

=============================================================================
