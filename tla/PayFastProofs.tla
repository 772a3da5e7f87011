---------------------------- MODULE PayFastProofs ----------------------------
(***************************************************************************)
(* Theorems about PayFastAttempts, for any orders, attempts and            *)
(* transactions, and (where it says so) however many transactions the      *)
(* provider opens for one basket.                                          *)
(*                                                                         *)
(* The invariant says who owns what (Ownership, Exchange), that a verdict  *)
(* written on an attempt is the provider's verdict on a transaction of its *)
(* own basket (Verdicts), and that payment row, order and reference move   *)
(* together (Books).                                                       *)
(***************************************************************************)
EXTENDS PayFastAttempts, FiniteSetTheorems, TLAPS

\* Attempts and payment rows belong together.
Ownership ==
    \A o \in Order :
        /\ active[o] # NoAttempt => owner[active[o]] = o
        /\ payment[o] \in {"none", "cod"} =>
              active[o] = NoAttempt /\ \A a \in Attempt : owner[a] # o
        /\ payment[o] \notin {"none", "cod"} => active[o] # NoAttempt
        /\ orderStatus[o] = "pending_cod_verification" <=> payment[o] = "cod"

\* Only claimed attempts are known to requests, provider and customer.
Exchange ==
    /\ \A a \in Attempt :
          owner[a] = NoOrder => /\ a \notin inflight \cup issued \cup handed
                                /\ state[a] = "unused" /\ txOf[a] = NoTx
    /\ \A t \in Transaction :
          /\ basket[t] # NoAttempt => basket[t] \in issued
          /\ outcome[t] = "none" <=> basket[t] = NoAttempt
    /\ callbacks \subseteq issued

\* The transaction an attempt remembers is its own, and its verdict settled.
Verdicts ==
    \A a \in Attempt :
        /\ txOf[a] # NoTx => basket[txOf[a]] = a
        /\ state[a] = "completed" => txOf[a] # NoTx /\ outcome[txOf[a]] = "paid"
        /\ state[a] = "failed" => txOf[a] # NoTx /\ outcome[txOf[a]] = "failed"

\* Payment, order and reference move together.
Books ==
    \A o \in Order :
        /\ payment[o] \in Done <=> orderStatus[o] = "payment_confirmed"
        /\ payment[o] \in Done <=> reference[o] # NoTx
        /\ reference[o] # NoTx =>
              /\ outcome[reference[o]] = "paid"
              /\ basket[reference[o]] \in Attempt
              /\ owner[basket[reference[o]]] = o

\* Success evidence was acted on.
Acted ==
    \A a \in Attempt :
        state[a] = "completed" =>
            payment[owner[a]] \in Done \/ orderStatus[owner[a]] = "cancelled"

\* Attempts that were replaced had failed.
Replaced ==
    \A o \in Order : \A a \in Attempt : owner[a] = o /\ a # active[o] => state[a] = "failed"

PayInv == /\ TypeOK /\ Ownership /\ Exchange /\ Verdicts /\ Books /\ Acted /\ Replaced

-----------------------------------------------------------------------------
\* Before the first attempt.
LEMMA PayInit == Init => PayInv
  BY AttemptAssumption
  DEF Init, PayInv, TypeOK, Ownership, Exchange, Verdicts, Books, Acted, Replaced, Done

\* A fresh attempt becomes the active one, where none could still be charged.
LEMMA ClaimStep ==
  ASSUME PayInv, NEW o \in Order, NEW a \in Attempt, ClaimAttempt(o, a),
         orderStatus[o] = "pending_payment",
         \/ payment[o] = "none"
         \/ payment[o] = "failed" /\ state[active[o]] = "failed",
         UNCHANGED <<orderStatus, reference, txOf, handed, providerVars>>
  PROVE  PayInv'
<1>1. /\ owner[a] = NoOrder
      /\ owner' = [owner EXCEPT ![a] = o]
      /\ state' = [state EXCEPT ![a] = "starting"]
      /\ active' = [active EXCEPT ![o] = a]
      /\ payment' = [payment EXCEPT ![o] = "pending"]
      /\ inflight' = inflight \union {a}
      /\ UNCHANGED <<orderStatus, reference, txOf, handed, issued, basket, outcome, callbacks>>
  BY DEF ClaimAttempt, providerVars
<1> USE AttemptAssumption DEF PayInv
<1>2. TypeOK'
  BY <1>1 DEF TypeOK
<1>3. Ownership'
  BY <1>1 DEF TypeOK, Ownership
<1>4. Exchange'
  BY <1>1 DEF TypeOK, Exchange
<1>5. Verdicts'
  BY <1>1 DEF TypeOK, Verdicts, Exchange
<1>6. payment[o] \notin Done /\ orderStatus[o] # "cancelled"
  BY DEF Done
<1>7. Books'
  BY <1>1, <1>6 DEF TypeOK, Books, Done, Exchange
<1>8. Acted'
  BY <1>1, <1>6 DEF TypeOK, Acted, Exchange, Done
<1>9. Replaced'
  BY <1>1 DEF TypeOK, Replaced, Ownership, Exchange
<1> QED
  BY <1>2, <1>3, <1>4, <1>5, <1>7, <1>8, <1>9

\* The provider's answer, once it matched, moves payment, order and attempt.
LEMMA ReconcileStep ==
  ASSUME PayInv, NEW o \in Order, NEW t \in Transaction, payment[o] \notin {"none", "cod"},
         basket[t] = active[o], txOf[active[o]] \in {NoTx, t}, Reconcile(o, t)
  PROVE  PayInv'
<1> DEFINE a == active[o]
<1> USE AttemptAssumption DEF PayInv
<1>1. a \in Attempt /\ owner[a] = o /\ basket[t] = a /\ txOf[a] \in {NoTx, t}
  BY DEF TypeOK, Ownership
<1>2. UNCHANGED <<active, owner, inflight, handed, issued, basket, outcome, callbacks>>
  BY DEF Reconcile, providerVars
<1>3. CASE Succeeded(t)
  <2>1. outcome[t] = "paid"
    BY <1>3 DEF Succeeded
  <2>2. state' = [state EXCEPT ![a] = "completed"] /\ txOf' = [txOf EXCEPT ![a] = t]
    BY <1>3 DEF Reconcile
  <2>3. \/ /\ payment[o] \notin Done /\ orderStatus[o] = "pending_payment"
           /\ payment' = [payment EXCEPT ![o] = "completed"]
           /\ orderStatus' = [orderStatus EXCEPT ![o] = "payment_confirmed"]
           /\ reference' = [reference EXCEPT ![o] = t]
        \/ /\ payment[o] \in Done \/ orderStatus[o] # "pending_payment"
           /\ UNCHANGED <<payment, orderStatus, reference>>
    BY <1>3, <2>1 DEF Reconcile, Confirms, Failed, TypeOK
  <2> HIDE DEF a
  <2>4. TypeOK'
    BY <1>1, <1>2, <2>2, <2>3 DEF TypeOK
  <2>5. Ownership'
    BY <1>1, <1>2, <2>3 DEF TypeOK, Ownership
  <2>6. Exchange'
    BY <1>1, <1>2, <2>2 DEF TypeOK, Exchange
  <2>7. Verdicts'
    BY <1>1, <1>2, <2>1, <2>2 DEF TypeOK, Verdicts
  <2>8. Books'
    BY <1>1, <1>2, <2>1, <2>3 DEF TypeOK, Books, Done
  <2>9. Acted'
    <3>1. payment'[o] \in Done \/ orderStatus'[o] = "cancelled"
      BY <1>1, <2>3 DEF TypeOK, Ownership, Books, Done
    <3>2. \A p \in Order \ {o} :
             payment'[p] = payment[p] /\ orderStatus'[p] = orderStatus[p]
      BY <2>3 DEF TypeOK
    <3>3. \A b \in Attempt \ {a} :
             state'[b] = state[b] /\ (state[b] = "completed" => owner[b] \in Order)
      BY <2>2 DEF TypeOK, Exchange
    <3> QED
      BY <1>1, <1>2, <3>1, <3>2, <3>3 DEF Acted
  <2>10. Replaced'
    BY <1>1, <1>2, <2>2 DEF TypeOK, Replaced, a
  <2> QED
    BY <2>4, <2>5, <2>6, <2>7, <2>8, <2>9, <2>10
<1>4. CASE ~Succeeded(t)
  <2>1. UNCHANGED <<orderStatus, reference>>
    BY <1>4 DEF Reconcile, Confirms, TypeOK
  <2>2. \/ UNCHANGED payment
        \/ /\ payment[o] \in {"pending", "failed"}
           /\ payment' = [payment EXCEPT ![o] = "failed"]
    BY <1>4 DEF Reconcile, Confirms, TypeOK
  <2>3. \/ UNCHANGED <<state, txOf>>
        \/ /\ outcome[t] = "failed" /\ state[a] # "completed"
           /\ state' = [state EXCEPT ![a] = "failed"]
           /\ txOf' = [txOf EXCEPT ![a] = t]
    BY <1>4 DEF Reconcile, Failed, Succeeded, TypeOK
  <2> HIDE DEF a
  <2>4. TypeOK'
    BY <1>1, <1>2, <2>1, <2>2, <2>3 DEF TypeOK
  <2>5. Ownership'
    BY <1>1, <1>2, <2>1, <2>2 DEF TypeOK, Ownership
  <2>6. Exchange'
    BY <1>1, <1>2, <2>3 DEF TypeOK, Exchange
  <2>7. Verdicts'
    BY <1>1, <1>2, <2>3 DEF TypeOK, Verdicts
  <2>8. Books'
    BY <1>1, <1>2, <2>1, <2>2 DEF TypeOK, Books, Done
  <2>9. Acted'
    BY <1>1, <1>2, <2>1, <2>2, <2>3 DEF TypeOK, Acted, Ownership, Exchange, Done
  <2>10. Replaced'
    BY <1>1, <1>2, <2>3 DEF TypeOK, Replaced, a
  <2> QED
    BY <2>4, <2>5, <2>6, <2>7, <2>8, <2>9, <2>10
<1> QED
  BY <1>3, <1>4

\* What the status API is asked about is a transaction, if it answers.
LEMMA AnswersAreTransactions ==
  ASSUME TypeOK, NEW o \in Order, active[o] # NoAttempt,
         NEW e \in Transaction \cup {NoTx}, NEW t \in Answers(o, e)
  PROVE  t \in Transaction
  BY DEF TypeOK, Answers, Lookup, TxIn

\* Administrators and callbacks only ever reconcile.
LEMMA EvidenceStep ==
  ASSUME PayInv,
         \/ \E o \in Order : AdminReconcile(o)
         \/ \E a \in Attempt, u \in Transaction : ReceiveCallback(a, u)
  PROVE  PayInv'
<1> USE AttemptAssumption DEF PayInv
<1>1. ASSUME NEW o \in Order, AdminReconcile(o) PROVE PayInv'
  <2>1. PICK t \in Answers(o, NoTx) : Matches(o, NoTx, t) /\ Reconcile(o, t)
    BY <1>1 DEF AdminReconcile
  <2>2. payment[o] \notin {"none", "cod"} /\ active[o] # NoAttempt
    BY <1>1 DEF AdminReconcile, Ownership
  <2> QED
    BY <2>1, <2>2, AnswersAreTransactions, ReconcileStep DEF Matches
<1>2. ASSUME NEW a \in Attempt, NEW u \in Transaction, ReceiveCallback(a, u) PROVE PayInv'
  <2> DEFINE o == owner[a]
  <2>1. o \in Order
    BY <1>2 DEF ReceiveCallback, TypeOK, Exchange
  <2>2. PICK t \in Answers(o, u) : Matches(o, u, t) /\ Reconcile(o, t)
    BY <1>2 DEF ReceiveCallback
  <2>3. payment[o] \notin {"none", "cod"} /\ active[o] # NoAttempt
    BY <1>2, <2>1 DEF ReceiveCallback, Ownership
  <2> HIDE DEF o
  <2> QED
    BY <2>1, <2>2, <2>3, AnswersAreTransactions, ReconcileStep DEF Matches
<1> QED
  BY <1>1, <1>2

\* Token requests, expiry, refunds and the switch to COD.
LEMMA ServiceStep ==
  ASSUME PayInv,
         \/ \E a \in Attempt : OfferCheckout(a) \/ DropRequest(a)
         \/ \E o \in Order : SwitchToCod(o) \/ ExpireOrder(o) \/ RefundInFull(o)
  PROVE  PayInv'
<1> USE AttemptAssumption DEF PayInv, orderVars, attemptVars, providerVars
<1>1. ASSUME NEW a \in Attempt, OfferCheckout(a) PROVE PayInv'
  <2>1. /\ a \in inflight /\ inflight' = inflight \ {a} /\ state[a] = "starting"
        /\ active[owner[a]] = a
        /\ state' = [state EXCEPT ![a] = "ready"] /\ handed' = handed \union {a}
        /\ UNCHANGED <<orderStatus, payment, active, reference, owner, txOf, issued, basket,
                       outcome, callbacks>>
    BY <1>1 DEF OfferCheckout
  <2>2. TypeOK' /\ Ownership' /\ Exchange'
    BY <2>1 DEF TypeOK, Ownership, Exchange
  <2>3. Verdicts' /\ Books' /\ Acted'
    BY <2>1 DEF TypeOK, Verdicts, Books, Acted
  <2>4. Replaced'
    BY <2>1 DEF TypeOK, Replaced
  <2> QED
    BY <2>2, <2>3, <2>4
<1>2. ASSUME NEW a \in Attempt, DropRequest(a) PROVE PayInv'
  BY <1>2
  DEF DropRequest, TypeOK, Ownership, Exchange, Verdicts, Books, Acted, Replaced
<1>3. ASSUME NEW o \in Order, SwitchToCod(o) PROVE PayInv'
  <2>1. /\ orderStatus[o] = "pending_payment" /\ payment[o] = "none"
        /\ orderStatus' = [orderStatus EXCEPT ![o] = "pending_cod_verification"]
        /\ payment' = [payment EXCEPT ![o] = "cod"]
        /\ UNCHANGED <<active, reference, owner, state, txOf, inflight, handed, issued, basket,
                       outcome, callbacks>>
    BY <1>3 DEF SwitchToCod
  <2>2. TypeOK' /\ Ownership' /\ Exchange'
    BY <2>1 DEF TypeOK, Ownership, Exchange
  <2>3. Verdicts' /\ Books' /\ Replaced'
    BY <2>1 DEF TypeOK, Verdicts, Books, Replaced, Done
  <2>4. Acted'
    BY <2>1 DEF TypeOK, Acted, Ownership, Exchange, Done
  <2> QED
    BY <2>2, <2>3, <2>4
<1>4. ASSUME NEW o \in Order, ExpireOrder(o) PROVE PayInv'
  <2>1. /\ orderStatus[o] = "pending_payment"
        /\ orderStatus' = [orderStatus EXCEPT ![o] = "cancelled"]
        /\ UNCHANGED <<payment, active, reference, owner, state, txOf, inflight, handed, issued,
                       basket, outcome, callbacks>>
    BY <1>4 DEF ExpireOrder
  <2>2. TypeOK' /\ Ownership' /\ Exchange'
    BY <2>1 DEF TypeOK, Ownership, Exchange
  <2>3. Verdicts' /\ Books' /\ Replaced'
    BY <2>1 DEF TypeOK, Verdicts, Books, Replaced, Done
  <2>4. Acted'
    BY <2>1 DEF TypeOK, Acted, Exchange, Done
  <2> QED
    BY <2>2, <2>3, <2>4
<1>5. ASSUME NEW o \in Order, RefundInFull(o) PROVE PayInv'
  <2>1. /\ payment[o] = "completed" /\ payment' = [payment EXCEPT ![o] = "refunded"]
        /\ UNCHANGED <<orderStatus, active, reference, owner, state, txOf, inflight, handed,
                       issued, basket, outcome, callbacks>>
    BY <1>5 DEF RefundInFull
  <2>2. TypeOK' /\ Ownership' /\ Exchange'
    BY <2>1 DEF TypeOK, Ownership, Exchange
  <2>3. Verdicts' /\ Books' /\ Replaced'
    BY <2>1 DEF TypeOK, Verdicts, Books, Replaced, Done
  <2>4. Acted'
    BY <2>1 DEF TypeOK, Acted, Exchange, Done
  <2> QED
    BY <2>2, <2>3, <2>4
<1> QED
  BY <1>1, <1>2, <1>3, <1>4, <1>5

\* The provider and the customer change no row.
LEMMA ProviderStep ==
  ASSUME PayInv,
         \/ \E a \in Attempt : IssueToken(a)
         \/ \E a \in Attempt, t \in Transaction : OpenTransaction(a, t)
         \/ \E t \in Transaction : Settle(t)
         \/ UNCHANGED vars
  PROVE  PayInv'
<1> USE AttemptAssumption DEF PayInv, orderVars, attemptVars, providerVars
<1>1. ASSUME NEW a \in Attempt, IssueToken(a) PROVE PayInv'
  BY <1>1
  DEF IssueToken, TypeOK, Ownership, Exchange, Verdicts, Books, Acted, Replaced
<1>2. ASSUME NEW a \in Attempt, NEW t \in Transaction, OpenTransaction(a, t) PROVE PayInv'
  <2>1. /\ a \in issued /\ basket[t] = NoAttempt
        /\ basket' = [basket EXCEPT ![t] = a] /\ outcome' = [outcome EXCEPT ![t] = "open"]
        /\ UNCHANGED <<orderStatus, payment, active, reference, owner, state, txOf, inflight,
                       handed, issued, callbacks>>
    BY <1>2 DEF OpenTransaction
  <2>2. TypeOK' /\ Ownership' /\ Exchange'
    BY <2>1 DEF TypeOK, Ownership, Exchange
  <2>3. Verdicts' /\ Books'
    BY <2>1 DEF TypeOK, Verdicts, Books, Exchange
  <2>4. Acted' /\ Replaced'
    BY <2>1 DEF Acted, Replaced
  <2> QED
    BY <2>2, <2>3, <2>4
<1>3. ASSUME NEW t \in Transaction, Settle(t) PROVE PayInv'
  <2>1. PICK verdict \in {"paid", "failed"} : outcome' = [outcome EXCEPT ![t] = verdict]
    BY <1>3 DEF Settle
  <2>2. /\ outcome[t] = "open"
        /\ callbacks' = callbacks \union {basket[t]}
        /\ UNCHANGED <<orderStatus, payment, active, reference, owner, state, txOf, inflight,
                       handed, issued, basket>>
    BY <1>3 DEF Settle
  <2>3. basket[t] \in Attempt /\ basket[t] \in issued
    BY <2>2 DEF TypeOK, Exchange
  <2>4. TypeOK' /\ Ownership' /\ Exchange'
    BY <2>1, <2>2, <2>3 DEF TypeOK, Ownership, Exchange
  <2>5. Verdicts' /\ Books'
    BY <2>1, <2>2 DEF TypeOK, Verdicts, Books
  <2>6. Acted' /\ Replaced'
    BY <2>2 DEF Acted, Replaced
  <2> QED
    BY <2>4, <2>5, <2>6
<1>4. CASE UNCHANGED vars
  BY <1>4
  DEF vars, TypeOK, Ownership, Exchange, Verdicts, Books, Acted, Replaced
<1> QED
  BY <1>1, <1>2, <1>3, <1>4

\* The invariant holds of every reachable state.
LEMMA PayInvariant == Spec => []PayInv
<1>1. PayInv /\ [Next]_vars => PayInv'
  <2> SUFFICES ASSUME PayInv, [Next]_vars PROVE PayInv'
    OBVIOUS
  <2>1. ASSUME NEW o \in Order, NEW a \in Attempt, Initiate(o, a) \/ Retry(o, a) PROVE PayInv'
    BY <2>1, ClaimStep DEF Initiate, Retry
  <2> QED
    BY <2>1, EvidenceStep, ServiceStep, ProviderStep DEF Next
<1> QED
  BY PayInit, <1>1, PTL DEF Spec

\* The variables keep their types.
THEOREM PaymentTypes == Spec => []TypeOK
  BY PayInvariant, PTL DEF PayInv

\* Whatever arrives, in whatever order and whichever transaction it names, a
\* payment is booked on a paid
\* transaction of the order's own attempts, together with its confirmation.
THEOREM BookingsAreCharged == Spec => []BookedIsCharged
<1>1. PayInv => BookedIsCharged
  BY DEF PayInv, TypeOK, Books, BookedIsCharged, PaidFor, AttemptsOf, Done
<1> QED
  BY <1>1, PayInvariant, PTL

\* No interleaving of requests, retries and answers leaves an order with two
\* attempts that could be charged.
THEOREM OnlyFailedAttemptsAreReplaced == Spec => []ReplacedOnlyAfterFailure
<1>1. PayInv => ReplacedOnlyAfterFailure
  BY DEF PayInv, Replaced, Verdicts, ReplacedOnlyAfterFailure, AttemptsOf
<1> QED
  BY <1>1, PayInvariant, PTL

\* Success evidence reaches the payment, or an order that was given up.
THEOREM EvidenceIsActedOn == Spec => []EvidenceActedOn
<1>1. PayInv => EvidenceActedOn
  BY DEF PayInv, TypeOK, Verdicts, Acted, EvidenceActedOn, PaidFor, AttemptsOf
<1> QED
  BY <1>1, PayInvariant, PTL

-----------------------------------------------------------------------------
(* What rests on a provider that opens one transaction for a basket.       *)

\* Baskets do not share their only transaction.
Lone ==
    \A t, u \in Transaction : basket[t] = basket[u] /\ basket[t] # NoAttempt => t = u

\* A basket with a transaction is full.
LEMMA BasketFull ==
  ASSUME TypeOK, Lone, NEW a \in Attempt, NEW t \in Transaction, basket[t] = a
  PROVE  Cardinality(TxIn(a)) = 1
<1>1. TxIn(a) = {t}
  BY AttemptAssumption DEF TxIn, Lone, TypeOK
<1> QED
  BY <1>1, FS_Singleton

\* Opening a transaction is the only step that fills a basket.
LEMMA LoneStep ==
  ASSUME TxPerBasket = 1, PayInv, Lone, [Next]_vars
  PROVE  Lone'
<1>1. ASSUME NEW a \in Attempt, NEW t \in Transaction, OpenTransaction(a, t)
      PROVE  Lone'
  <2>1. basket' = [basket EXCEPT ![t] = a] /\ Cardinality(TxIn(a)) < 1
    BY <1>1 DEF OpenTransaction
  <2>2. \A u \in Transaction : basket[u] # a
    BY <2>1, BasketFull DEF PayInv
  <2> QED
    BY <2>1, <2>2 DEF Lone, PayInv, TypeOK
<1>2. ASSUME UNCHANGED basket PROVE Lone'
  BY <1>2 DEF Lone
<1>3. CASE UNCHANGED vars
  BY <1>2, <1>3 DEF vars, providerVars
<1>4. CASE Next
  BY <1>1, <1>2, <1>4
  DEF Next, Initiate, Retry, OfferCheckout, DropRequest, IssueToken, SwitchToCod, ExpireOrder,
      RefundInFull, AdminReconcile, ReceiveCallback, Reconcile, Settle, providerVars
<1> QED
  BY <1>3, <1>4

LEMMA LoneInvariant == TxPerBasket = 1 /\ Spec => []Lone
<1> SUFFICES ASSUME TxPerBasket = 1 PROVE Spec => []Lone
  OBVIOUS
<1>1. Init => Lone
  BY DEF Init, Lone
<1>2. PayInv /\ Lone /\ [Next]_vars => Lone'
  BY LoneStep
<1> QED
  BY <1>1, <1>2, PayInvariant, PTL DEF Spec

\* Only the active attempt has a transaction that did not fail.
LEMMA OnlyActiveIsOpen ==
  ASSUME PayInv, Lone, NEW u \in Transaction, basket[u] \in Attempt,
         outcome[u] # "failed", NEW o \in Order, owner[basket[u]] = o
  PROVE  basket[u] = active[o]
<1> SUFFICES ASSUME basket[u] # active[o] PROVE FALSE
  OBVIOUS
<1>1. state[basket[u]] = "failed"
  BY DEF PayInv, Replaced
<1>2. /\ txOf[basket[u]] \in Transaction /\ basket[txOf[basket[u]]] = basket[u]
      /\ outcome[txOf[basket[u]]] = "failed"
  BY <1>1 DEF PayInv, Verdicts, TypeOK
<1> QED
  BY <1>2, AttemptAssumption DEF Lone

\* The transaction an order was paid with is the only one.
LEMMA PaidOnce ==
  ASSUME PayInv, Lone, NEW o \in Order, NEW t \in PaidFor(o)
  PROVE  PaidFor(o) = {t}
<1>1. ASSUME NEW u \in PaidFor(o) PROVE basket[u] = active[o] /\ basket[u] \in Attempt
  BY OnlyActiveIsOpen DEF PaidFor, AttemptsOf
<1>2. ASSUME NEW u \in PaidFor(o) PROVE u = t
  BY <1>1, AttemptAssumption DEF Lone, PaidFor
<1> QED
  BY <1>2

\* If a basket takes one transaction, no order is charged twice, however its
\* requests, retries and callbacks interleave.
THEOREM OrdersAreChargedOnce == TxPerBasket = 1 /\ Spec => []ChargedOnce
<1>1. PayInv /\ Lone => ChargedOnce
  <2> SUFFICES ASSUME PayInv, Lone, NEW o \in Order PROVE Cardinality(PaidFor(o)) <= 1
    BY DEF ChargedOnce
  <2>1. CASE PaidFor(o) = {}
    BY <2>1, FS_EmptySet
  <2>2. CASE PaidFor(o) # {}
    <3>1. PICK t \in PaidFor(o) : PaidFor(o) = {t}
      BY <2>2, PaidOnce
    <3>2. Cardinality({t}) = 1
      BY FS_Singleton
    <3> QED
      BY <3>1, <3>2
  <2> QED
    BY <2>1, <2>2
<1> QED
  BY <1>1, PayInvariant, LoneInvariant, PTL

-----------------------------------------------------------------------------
(* The exchange implements the promise.                                    *)

\* The charges counted are none or one.
LEMMA ChargesAre ==
  ASSUME PayInv, Lone, NEW o \in Order
  PROVE  Cardinality(PaidFor(o)) = IF PaidFor(o) = {} THEN 0 ELSE 1
<1>1. CASE PaidFor(o) = {}
  BY <1>1, FS_EmptySet
<1>2. CASE PaidFor(o) # {}
  <2>1. PICK t \in PaidFor(o) : PaidFor(o) = {t}
    BY <1>2, PaidOnce
  <2>2. Cardinality({t}) = 1
    BY FS_Singleton
  <2> QED
    BY <1>2, <2>1, <2>2
<1> QED
  BY <1>1, <1>2

\* Orders whose rows and charges stay as they are look the same.
LEMMA Unseen ==
  ASSUME \A o \in Order : PaidFor(o)' = PaidFor(o) /\ Life(o)' = Life(o) /\ Book(o)' = Book(o)
  PROVE  UNCHANGED Promise!vars
<1>1. [o \in Order |-> Cardinality(PaidFor(o))]' = [o \in Order |-> Cardinality(PaidFor(o))]
  OBVIOUS
<1>2. /\ [o \in Order |-> Life(o)]' = [o \in Order |-> Life(o)]
      /\ [o \in Order |-> Book(o)]' = [o \in Order |-> Book(o)]
  OBVIOUS
<1> QED
  BY <1>1, <1>2 DEF Promise!vars

\* Charges change only with a verdict of the provider.
LEMMA ChargesStay ==
  ASSUME PayInv, NEW o \in Order,
         \/ UNCHANGED <<owner, basket, outcome>>
         \/ \E p \in Order, a \in Attempt : ClaimAttempt(p, a) /\ UNCHANGED providerVars
         \/ \E a \in Attempt, t \in Transaction : OpenTransaction(a, t)
  PROVE  PaidFor(o)' = PaidFor(o)
<1> USE AttemptAssumption DEF PaidFor, AttemptsOf
<1>1. CASE UNCHANGED <<owner, basket, outcome>>
  BY <1>1
<1>2. ASSUME NEW p \in Order, NEW a \in Attempt, ClaimAttempt(p, a), UNCHANGED providerVars
      PROVE  PaidFor(o)' = PaidFor(o)
  <2>1. owner[a] = NoOrder /\ owner' = [owner EXCEPT ![a] = p]
        /\ UNCHANGED <<basket, outcome>>
    BY <1>2 DEF ClaimAttempt, providerVars
  <2>2. \A t \in Transaction : basket[t] # a
    BY <2>1 DEF PayInv, Exchange
  <2> QED
    BY <2>1, <2>2 DEF PayInv, TypeOK
<1>3. ASSUME NEW a \in Attempt, NEW t \in Transaction, OpenTransaction(a, t)
      PROVE  PaidFor(o)' = PaidFor(o)
  <2>1. /\ basket' = [basket EXCEPT ![t] = a] /\ outcome' = [outcome EXCEPT ![t] = "open"]
        /\ basket[t] = NoAttempt /\ UNCHANGED owner
    BY <1>3 DEF OpenTransaction, attemptVars
  <2> QED
    BY <2>1 DEF PayInv, TypeOK
<1> QED
  BY <1>1, <1>2, <1>3

\* Booking is a step of the promise; any other evidence changes nothing it sees.
LEMMA ReconcileKeeps ==
  ASSUME PayInv, Lone, NEW o \in Order, NEW t \in Transaction,
         payment[o] \notin {"none", "cod"}, basket[t] = active[o], Reconcile(o, t)
  PROVE  [Promise!Next]_(Promise!vars)
<1>1. active[o] \in Attempt /\ owner[active[o]] = o
  BY DEF PayInv, TypeOK, Ownership
<1>2. UNCHANGED <<owner, basket, outcome>>
  BY DEF Reconcile, providerVars
<1>3. \A p \in Order : PaidFor(p)' = PaidFor(p)
  BY <1>2, ChargesStay
<1>4. CASE Confirms(o, t)
  <2>1. /\ orderStatus[o] = "pending_payment"
        /\ payment' = [payment EXCEPT ![o] = "completed"]
        /\ orderStatus' = [orderStatus EXCEPT ![o] = "payment_confirmed"]
    BY <1>4 DEF Reconcile, Confirms
  <2>2. Cardinality(PaidFor(o)) = 1
    <3>1. t \in PaidFor(o)
      BY <1>1, <1>4 DEF Confirms, Succeeded, PaidFor, AttemptsOf
    <3> QED
      BY <3>1, ChargesAre
  <2>3. [p \in Order |-> Life(p)]' = [[p \in Order |-> Life(p)] EXCEPT ![o] = "confirmed"]
    BY <2>1 DEF Life, PayInv, TypeOK
  <2>4. [p \in Order |-> Book(p)]' = [[p \in Order |-> Book(p)] EXCEPT ![o] = "paid"]
    BY <2>1 DEF Book, PayInv, TypeOK
  <2>5. [p \in Order |-> Cardinality(PaidFor(p))]' = [p \in Order |-> Cardinality(PaidFor(p))]
    BY <1>3
  <2>6. Life(o) = "waiting"
    BY <2>1 DEF Life
  <2>7. Promise!Record(o)
    BY <2>2, <2>3, <2>4, <2>5, <2>6 DEF Promise!Record
  <2> QED
    BY <2>7 DEF Promise!Next
<1>5. CASE ~Confirms(o, t)
  <2>1. /\ UNCHANGED orderStatus
        /\ \/ UNCHANGED payment
           \/ /\ payment[o] \in {"pending", "failed"}
              /\ payment' = [payment EXCEPT ![o] = "failed"]
    BY <1>5 DEF Reconcile, PayInv, TypeOK
  <2>2. \A p \in Order : Life(p)' = Life(p) /\ Book(p)' = Book(p)
    BY <2>1 DEF Life, Book, PayInv, TypeOK
  <2> QED
    BY <1>3, <2>2, Unseen
<1> QED
  BY <1>4, <1>5

\* A verdict in favour of the charge is the one step that counts it.
LEMMA SettleKeeps ==
  ASSUME PayInv, Lone, NEW t \in Transaction, Settle(t)
  PROVE  [Promise!Next]_(Promise!vars)
<1>1. PICK verdict \in {"paid", "failed"} : outcome' = [outcome EXCEPT ![t] = verdict]
  BY DEF Settle
<1>2. /\ outcome[t] = "open"
      /\ UNCHANGED <<orderStatus, payment, owner, basket>>
  BY DEF Settle, orderVars, attemptVars
<1>3. \A p \in Order : Life(p)' = Life(p) /\ Book(p)' = Book(p)
  BY <1>2 DEF Life, Book
<1>4. CASE verdict = "failed"
  <2>1. \A p \in Order : PaidFor(p)' = PaidFor(p)
    BY <1>1, <1>2, <1>4 DEF PaidFor, AttemptsOf, PayInv, TypeOK
  <2> QED
    BY <1>3, <2>1, Unseen
<1>5. CASE verdict = "paid"
  <2>1. basket[t] \in Attempt /\ owner[basket[t]] \in Order
    BY <1>2 DEF PayInv, TypeOK, Exchange
  <2> PICK o \in Order : o = owner[basket[t]]
    BY <2>1
  <2>2. PaidFor(o)' = PaidFor(o) \cup {t} /\ t \notin PaidFor(o)
    BY <1>1, <1>2, <1>5, <2>1 DEF PaidFor, AttemptsOf, PayInv, TypeOK
  <2>3. \A p \in Order \ {o} : PaidFor(p)' = PaidFor(p)
    BY <1>1, <1>2, <1>5, <2>1 DEF PaidFor, AttemptsOf, PayInv, TypeOK
  <2>4. PaidFor(o) = {}
    <3>1. basket[t] = active[o]
      BY <1>2, <2>1, OnlyActiveIsOpen
    <3>2. ASSUME NEW u \in PaidFor(o) PROVE FALSE
      <4>1. basket[u] = active[o] /\ u \in Transaction /\ u # t
        BY <2>1, <2>2, OnlyActiveIsOpen DEF PaidFor, AttemptsOf
      <4>2. basket[t] # NoAttempt
        BY <2>1, AttemptAssumption
      <4> QED
        BY <3>1, <4>1, <4>2 DEF Lone
    <3> QED
      BY <3>2
  <2>5. Cardinality(PaidFor(o)) = 0 /\ Cardinality(PaidFor(o)') = 1
    <3>1. Cardinality({}) = 0 /\ Cardinality({t}) = 1
      BY FS_EmptySet, FS_Singleton
    <3> QED
      BY <2>2, <2>4, <3>1
  <2>6. [p \in Order |-> Cardinality(PaidFor(p))]'
            = [[p \in Order |-> Cardinality(PaidFor(p))] EXCEPT ![o] = 1]
    <3>1. ASSUME NEW p \in Order
          PROVE  Cardinality(PaidFor(p)') = IF p = o THEN 1 ELSE Cardinality(PaidFor(p))
      <4>1. CASE p = o
        BY <2>5, <4>1
      <4>2. CASE p # o
        BY <2>3, <4>2
      <4> QED
        BY <4>1, <4>2
    <3> QED
      BY <2>1, <3>1
  <2>7. /\ [p \in Order |-> Life(p)]' = [p \in Order |-> Life(p)]
        /\ [p \in Order |-> Book(p)]' = [p \in Order |-> Book(p)]
    BY <1>3
  <2>8. Life(o) # "cash"
    <3>1. payment[o] # "cod" /\ orderStatus[o] # "pending_cod_verification"
      BY <2>1 DEF PayInv, Ownership
    <3> QED
      BY <3>1 DEF Life
  <2>9. Promise!Charge(o)
    BY <2>1, <2>5, <2>6, <2>7, <2>8 DEF Promise!Charge
  <2> QED
    BY <2>1, <2>9 DEF Promise!Next
<1> QED
  BY <1>4, <1>5

\* Every step of the exchange is one of the promise, or changes nothing of it.
LEMMA PaymentStep ==
  ASSUME PayInv, Lone, [Next]_vars
  PROVE  [Promise!Next]_(Promise!vars)
<1>1. ASSUME NEW o \in Order, NEW a \in Attempt, Initiate(o, a) \/ Retry(o, a)
      PROVE  UNCHANGED Promise!vars
  <2>1. /\ ClaimAttempt(o, a) /\ UNCHANGED providerVars /\ UNCHANGED orderStatus
        /\ payment[o] \in {"none", "failed"}
    BY <1>1 DEF Initiate, Retry
  <2>2. \A p \in Order : PaidFor(p)' = PaidFor(p)
    BY <2>1, ChargesStay
  <2>3. \A p \in Order : Life(p)' = Life(p) /\ Book(p)' = Book(p)
    BY <2>1 DEF ClaimAttempt, Life, Book, PayInv, TypeOK
  <2> QED
    BY <2>2, <2>3, Unseen
<1>2. ASSUME UNCHANGED <<orderStatus, payment>>,
             \A p \in Order : PaidFor(p)' = PaidFor(p)
      PROVE  UNCHANGED Promise!vars
  <2>1. \A p \in Order : Life(p)' = Life(p) /\ Book(p)' = Book(p)
    BY <1>2 DEF Life, Book
  <2> QED
    BY <1>2, <2>1, Unseen
<1>3. ASSUME NEW a \in Attempt, OfferCheckout(a) \/ DropRequest(a) \/ IssueToken(a)
      PROVE  UNCHANGED Promise!vars
  <2>1. UNCHANGED <<orderStatus, payment, owner, basket, outcome>>
    BY <1>3 DEF OfferCheckout, DropRequest, IssueToken, orderVars, attemptVars, providerVars
  <2> QED
    BY <1>2, <2>1, ChargesStay
<1>4. ASSUME NEW a \in Attempt, NEW t \in Transaction, OpenTransaction(a, t)
      PROVE  UNCHANGED Promise!vars
  <2>1. UNCHANGED <<orderStatus, payment>>
    BY <1>4 DEF OpenTransaction, orderVars
  <2> QED
    BY <1>2, <1>4, <2>1, ChargesStay
<1>5. ASSUME NEW o \in Order, SwitchToCod(o) \/ ExpireOrder(o) \/ RefundInFull(o)
      PROVE  Promise!Next
  <2>1. UNCHANGED <<owner, basket, outcome>>
    BY <1>5 DEF SwitchToCod, ExpireOrder, RefundInFull, attemptVars, providerVars
  <2>2. [p \in Order |-> Cardinality(PaidFor(p))]' = [p \in Order |-> Cardinality(PaidFor(p))]
    BY <2>1, ChargesStay
  <2>3. ASSUME SwitchToCod(o) PROVE Promise!ChooseCash(o)
    <3>1. PaidFor(o) = {}
      BY <2>3 DEF SwitchToCod, PayInv, Ownership, PaidFor, AttemptsOf
    <3>2. Cardinality(PaidFor(o)) = 0
      BY <3>1, FS_EmptySet
    <3>3. /\ Life(o) = "waiting"
          /\ [p \in Order |-> Life(p)]' = [[p \in Order |-> Life(p)] EXCEPT ![o] = "cash"]
          /\ [p \in Order |-> Book(p)]' = [p \in Order |-> Book(p)]
      BY <2>3 DEF SwitchToCod, Life, Book, PayInv, TypeOK
    <3> QED
      BY <2>2, <3>2, <3>3 DEF Promise!ChooseCash
  <2>4. ASSUME ExpireOrder(o) PROVE Promise!GiveUp(o)
    <3>1. /\ Life(o) = "waiting"
          /\ [p \in Order |-> Life(p)]' = [[p \in Order |-> Life(p)] EXCEPT ![o] = "cancelled"]
          /\ [p \in Order |-> Book(p)]' = [p \in Order |-> Book(p)]
      BY <2>4 DEF ExpireOrder, Life, Book, PayInv, TypeOK
    <3> QED
      BY <2>2, <3>1 DEF Promise!GiveUp
  <2>5. ASSUME RefundInFull(o) PROVE Promise!Refund(o)
    <3>1. /\ Book(o) = "paid"
          /\ [p \in Order |-> Book(p)]' = [[p \in Order |-> Book(p)] EXCEPT ![o] = "refunded"]
          /\ [p \in Order |-> Life(p)]' = [p \in Order |-> Life(p)]
      BY <2>5 DEF RefundInFull, Life, Book, PayInv, TypeOK
    <3> QED
      BY <2>2, <3>1 DEF Promise!Refund
  <2> QED
    BY <1>5, <2>3, <2>4, <2>5 DEF Promise!Next
<1>6. ASSUME NEW o \in Order, AdminReconcile(o)
      PROVE  [Promise!Next]_(Promise!vars)
  <2>1. PICK t \in Answers(o, NoTx) : Matches(o, NoTx, t) /\ Reconcile(o, t)
    BY <1>6 DEF AdminReconcile
  <2>2. payment[o] \notin {"none", "cod"} /\ active[o] # NoAttempt
    BY <1>6 DEF AdminReconcile, PayInv, Ownership
  <2> QED
    BY <2>1, <2>2, AnswersAreTransactions, ReconcileKeeps DEF Matches, PayInv
<1>7. ASSUME NEW a \in Attempt, NEW u \in Transaction, ReceiveCallback(a, u)
      PROVE  [Promise!Next]_(Promise!vars)
  <2> DEFINE o == owner[a]
  <2>1. o \in Order
    BY <1>7, AttemptAssumption DEF ReceiveCallback, PayInv, TypeOK, Exchange
  <2>2. PICK t \in Answers(o, u) : Matches(o, u, t) /\ Reconcile(o, t)
    BY <1>7 DEF ReceiveCallback
  <2>3. payment[o] \notin {"none", "cod"} /\ active[o] # NoAttempt
    BY <1>7, <2>1 DEF ReceiveCallback, PayInv, Ownership
  <2> HIDE DEF o
  <2> QED
    BY <2>1, <2>2, <2>3, AnswersAreTransactions, ReconcileKeeps DEF Matches, PayInv
<1>8. CASE UNCHANGED vars
  <2>1. UNCHANGED <<orderStatus, payment, owner, basket, outcome>>
    BY <1>8 DEF vars, orderVars, attemptVars, providerVars
  <2> QED
    BY <1>2, <2>1, ChargesStay
<1>9. ASSUME NEW t \in Transaction, Settle(t)
      PROVE  [Promise!Next]_(Promise!vars)
  BY <1>9, SettleKeeps
<1> QED
  BY <1>1, <1>3, <1>4, <1>5, <1>6, <1>7, <1>8, <1>9 DEF Next

\* The exchange implements OnlinePayment: at most one charge, booked together
\* with the confirmation, and no order that was given up comes back; callbacks
\* may name any transaction, of whatever order.
THEOREM PaymentKeepsPromise == TxPerBasket = 1 /\ Spec => KeepsPromise
<1> SUFFICES ASSUME TxPerBasket = 1 PROVE Spec => KeepsPromise
  OBVIOUS
<1>1. Init => Promise!Init
  <2> SUFFICES ASSUME Init PROVE Promise!Init
    OBVIOUS
  <2>1. \A o \in Order : Cardinality(PaidFor(o)) = 0
    <3>1. \A o \in Order : PaidFor(o) = {}
      BY DEF Init, PaidFor
    <3> QED
      BY <3>1, FS_EmptySet
  <2>2. \A o \in Order : Life(o) = "waiting" /\ Book(o) = "open"
    BY DEF Init, Life, Book
  <2> QED
    BY <2>1, <2>2 DEF Promise!Init
<1>2. PayInv /\ Lone /\ [Next]_vars => [Promise!Next]_(Promise!vars)
  BY PaymentStep
<1>3. Spec => []Lone
  BY LoneInvariant
<1> QED
  BY <1>1, <1>2, <1>3, PayInvariant, PTL DEF Spec, KeepsPromise, Promise!Spec

=============================================================================
