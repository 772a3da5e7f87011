------------------------ MODULE OrderFulfilmentProofs ------------------------
(***************************************************************************)
(* Proofs about OrderFulfilment, for any finite set of orders, any         *)
(* catalogue and any bounds.                                               *)
(***************************************************************************)
EXTENDS OrderFulfilment, FiniteSetTheorems, TLAPS

(***************************************************************************)
(* The inductive invariant.  ReservationExact is not inductive alone: a    *)
(* release is exact only because an order that waits has no part that      *)
(* shipped, and because every line has a part that holds or held it.       *)
(***************************************************************************)
LinesHaveParts ==
    \A o \in Order, v \in Variant :
        qty[o][v] > 0 => fulfilment[o][SellerOf[v]] # "none"

WaitingPartsPending ==
    \A o \in Order, s \in Seller :
        /\ status[o] = "none" => fulfilment[o][s] = "none"
        /\ status[o] \in Pending => fulfilment[o][s] \in {"none", "pending"}

StockInv ==
    /\ TypeOK
    /\ ReservationExact
    /\ NoOversell
    /\ LinesHaveParts
    /\ WaitingPartsPending

-----------------------------------------------------------------------------
(* Counting units.                                                         *)

\* The units of any set of orders are a finite set.
LEMMA UnitsFinite ==
    ASSUME NEW S \in SUBSET Order, NEW v \in Variant
    PROVE  /\ IsFiniteSet(Units(S, v))
           /\ Quantity(S, v) \in Nat
<1>1. IsFiniteSet(S)
  BY ConstantsAssumption, FS_Subset
<1>2. IsFiniteSet(1..MaxQty)
  BY ConstantsAssumption, FS_Interval
<1>3. IsFiniteSet(S \X (1..MaxQty))
  BY <1>1, <1>2, FS_Product
<1>4. Units(S, v) \in SUBSET (S \X (1..MaxQty))
  BY DEF Units
<1>5. IsFiniteSet(Units(S, v))
  BY <1>3, <1>4, FS_Subset
<1> QED
  BY <1>5, FS_CardinalityType DEF Quantity

\* The units held at a variant are a finite set.
LEMMA HeldFinite ==
    ASSUME NEW v \in Variant
    PROVE  IsFiniteSet(HeldUnits(v))
<1>1. HeldUnits(v) \in SUBSET Units(Order, v)
  BY DEF HeldUnits
<1>2. IsFiniteSet(Units(Order, v))
  BY UnitsFinite
<1> QED
  BY <1>1, <1>2, FS_Subset

\* n units of one order are n.
LEMMA CountOne ==
    ASSUME NEW o, NEW n \in Nat
    PROVE  /\ IsFiniteSet({o} \X (1..n))
           /\ Cardinality({o} \X (1..n)) = n
<1>1. IsFiniteSet({o}) /\ Cardinality({o}) = 1
  BY FS_Singleton
<1>2. IsFiniteSet(1..n) /\ Cardinality(1..n) = n
  BY FS_Interval
<1>3. Cardinality({o} \X (1..n)) = 1 * n
  BY <1>1, <1>2, FS_Product
<1> QED
  BY <1>1, <1>2, <1>3, FS_Product

\* The quantity of a single order is its line.
LEMMA QuantityOne ==
    ASSUME TypeOK, NEW o \in Order, NEW v \in Variant
    PROVE  Quantity({o}, v) = qty[o][v]
<1>1. qty[o][v] \in 0..MaxQty
  BY DEF TypeOK
<1>2. Units({o}, v) = {o} \X (1..qty[o][v])
  <2>1. ASSUME NEW u PROVE u \in Units({o}, v) <=> u \in {o} \X (1..qty[o][v])
    BY <1>1, ConstantsAssumption DEF Units
  <2> QED BY <2>1
<1>3. qty[o][v] \in Nat
  BY <1>1, ConstantsAssumption
<1> QED
  BY <1>2, <1>3, CountOne DEF Quantity

\* Taking a set of held units away lowers the count by its size.
LEMMA CountRemoved ==
    ASSUME NEW H, NEW U, IsFiniteSet(H), U \subseteq H
    PROVE  /\ Cardinality(H \ U) = Cardinality(H) - Cardinality(U)
           /\ Cardinality(U) <= Cardinality(H)
           /\ Cardinality(H) \in Nat /\ Cardinality(U) \in Nat
<1>1. H \cap U = U
  OBVIOUS
<1>2. IsFiniteSet(U) /\ Cardinality(U) <= Cardinality(H)
  BY FS_Subset
<1> QED
  BY <1>1, <1>2, FS_Difference, FS_CardinalityType

-----------------------------------------------------------------------------
(* How the actions move the held units.                                    *)

\* An order all of whose parts wait or are prepared holds all its units.
LEMMA WaitingHolds ==
    ASSUME LinesHaveParts, TypeOK, NEW S \in SUBSET Order, NEW v \in Variant,
           \A o \in S, s \in Seller : fulfilment[o][s] \in {"none", "pending", "processing"}
    PROVE  Units(S, v) \subseteq HeldUnits(v)
<1>1. SellerOf[v] \in Seller
  BY ConstantsAssumption
<1>2. SUFFICES ASSUME NEW u \in Units(S, v) PROVE u \in HeldUnits(v)
  OBVIOUS
<1>3. /\ u \in S \X (1..MaxQty) /\ u[2] <= qty[u[1]][v]
      /\ u[1] \in S /\ u[1] \in Order /\ u[2] \in 1..MaxQty
  BY DEF Units
<1>4. qty[u[1]][v] \in 0..MaxQty
  BY <1>3 DEF TypeOK
<1>5. qty[u[1]][v] > 0
  BY <1>3, <1>4, ConstantsAssumption
<1>6. fulfilment[u[1]][SellerOf[v]] \in {"pending", "processing"}
  BY <1>1, <1>3, <1>5 DEF LinesHaveParts
<1>7. u \in Units(Order, v)
  BY <1>3 DEF Units
<1> QED
  BY <1>6, <1>7 DEF HeldUnits, Holds

\* Cancelling the orders S removes exactly their units.
LEMMA CancelledUnits ==
    ASSUME TypeOK, NEW S \in SUBSET Order, NEW v \in Variant, MarkCancelled(S)
    PROVE  HeldUnits(v)' = HeldUnits(v) \ Units(S, v)
<1>1. SellerOf[v] \in Seller
  BY ConstantsAssumption
<1>2. ASSUME NEW u
      PROVE  u \in HeldUnits(v)' <=> u \in HeldUnits(v) \ Units(S, v)
  <2>1. CASE u \notin Order \X (1..MaxQty)
    BY <2>1 DEF HeldUnits, Units
  <2>2. CASE u \in Order \X (1..MaxQty) /\ u[1] \in S
    <3>1. fulfilment'[u[1]][SellerOf[v]] \in {"cancelled", "none"}
      BY <1>1, <2>2 DEF MarkCancelled
    <3> QED
      BY <2>2, <3>1 DEF HeldUnits, Units, Holds, MarkCancelled
  <2>3. CASE u \in Order \X (1..MaxQty) /\ u[1] \notin S
    <3>1. fulfilment'[u[1]] = fulfilment[u[1]] /\ qty' = qty
      BY <2>3 DEF MarkCancelled
    <3> QED
      BY <2>3, <3>1 DEF HeldUnits, Units, Holds
  <2> QED
    BY <2>1, <2>2, <2>3
<1> QED
  BY <1>2

\* A step that keeps the lines and the parts keeps the held units.
LEMMA SameUnits ==
    ASSUME UNCHANGED <<qty, fulfilment>>, NEW v \in Variant
    PROVE  HeldUnits(v)' = HeldUnits(v)
BY DEF HeldUnits, Units, Holds

-----------------------------------------------------------------------------
(* Types.                                                                  *)

\* A strict release leaves natural numbers.
LEMMA ReleaseType ==
    ASSUME TypeOK, NEW S \in SUBSET Order, ReleaseStrict(S)
    PROVE  stock' \in [Variant -> Nat] /\ reserved' \in [Variant -> Nat]
<1>1. \A v \in Variant : Quantity(S, v) \in Nat
  BY UnitsFinite
<1> QED
  BY <1>1 DEF ReleaseStrict, TypeOK

\* A lenient release leaves natural numbers.
LEMMA LenientType ==
    ASSUME TypeOK, NEW o \in Order, ReleaseLenient(o)
    PROVE  stock' \in [Variant -> Nat] /\ reserved' \in [Variant -> Nat]
<1>1. \A v \in Variant : qty[o][v] \in Nat
  BY ConstantsAssumption DEF TypeOK
<1> QED
  BY <1>1 DEF ReleaseLenient, TypeOK

\* Marking orders cancelled keeps the types of what it writes.
LEMMA CancelType ==
    ASSUME TypeOK, NEW S \in SUBSET Order, MarkCancelled(S)
    PROVE  /\ status' \in [Order -> OrderStatus]
           /\ fulfilment' \in [Order -> [Seller -> SellerOrderStatus]]
           /\ outbox' \in [Order -> SUBSET OrderEvent]
<1>1. status' \in [Order -> OrderStatus]
  BY DEF MarkCancelled, TypeOK, OrderStatus
<1>2. fulfilment' \in [Order -> [Seller -> SellerOrderStatus]]
  <2>1. \A o \in Order :
          [s \in Seller |-> IF s \in Brands(o) THEN "cancelled" ELSE "none"]
             \in [Seller -> SellerOrderStatus]
    BY DEF SellerOrderStatus
  <2> QED
    BY <2>1 DEF MarkCancelled, TypeOK
<1>3. outbox' \in [Order -> SUBSET OrderEvent]
  BY DEF MarkCancelled, TypeOK, OrderEvent
<1> QED
  BY <1>1, <1>2, <1>3

\* Every step keeps the type invariant.
LEMMA TypeStep ==
    ASSUME TypeOK, [Next]_vars
    PROVE  TypeOK'
<1> USE DEF orderVars, moneyVars, clockVars, stockVars
<1>1. ASSUME NEW o \in Order, NEW m \in {"payfast", "cod"}, NEW d \in Discounts[o],
             NEW q \in [Variant -> 0..MaxQty], Checkout(o, m, d, q)
      PROVE  TypeOK'
  <2>1. q \in [Variant -> Nat]
    BY ConstantsAssumption
  <2>2. reserved' \in [Variant -> Nat]
    BY <1>1, <2>1 DEF Checkout, TypeOK
  <2>3. [s \in Seller |-> IF \E v \in Variant : SellerOf[v] = s /\ q[v] > 0
                          THEN "pending" ELSE "none"] \in [Seller -> SellerOrderStatus]
    BY DEF SellerOrderStatus
  <2>4. fulfilment' \in [Order -> [Seller -> SellerOrderStatus]]
    BY <1>1, <2>3 DEF Checkout, TypeOK
  <2>5. status' \in [Order -> OrderStatus]
    BY <1>1 DEF Checkout, TypeOK, OrderStatus
  <2>6. discounted' \in [Order -> BOOLEAN]
    BY <1>1, ConstantsAssumption DEF Checkout, TypeOK
  <2>7. outbox' \in [Order -> SUBSET OrderEvent]
    BY <1>1 DEF Checkout, TypeOK, OrderEvent
  <2>8. method' \in [Order -> {"payfast", "cod"}] /\ qty' \in [Order -> [Variant -> 0..MaxQty]]
    BY <1>1 DEF Checkout, TypeOK
  <2> QED
    BY <1>1, <2>2, <2>4, <2>5, <2>6, <2>7, <2>8 DEF Checkout, TypeOK
<1>2. ASSUME NEW o \in Order,
             InitiatePayment(o) \/ FailPayment(o) \/ RefundInFull(o)
      PROVE  TypeOK'
  BY <1>2 DEF InitiatePayment, FailPayment, RefundInFull, TypeOK, PaymentStatus
<1>3. ASSUME NEW o \in Order, SwitchToCod(o) PROVE TypeOK'
  BY <1>3 DEF SwitchToCod, TypeOK, PaymentStatus, OrderStatus
<1>4. ASSUME NEW o \in Order, ConfirmPayment(o) PROVE TypeOK'
  BY <1>4 DEF ConfirmPayment, TypeOK, PaymentStatus, OrderStatus, OrderEvent
<1>5. ASSUME NEW o \in Order, RecordCodCollection(o) PROVE TypeOK'
  BY <1>5 DEF RecordCodCollection, Brands, TypeOK, PaymentStatus
<1>6. ASSUME NEW o \in Order, VerifyCod(o) PROVE TypeOK'
  BY <1>6 DEF VerifyCod, TypeOK, OrderStatus, OrderEvent
<1>7. ASSUME NEW o \in Order, CancelCod(o) \/ CodVerificationTimeout(o) PROVE TypeOK'
  <2>1. ReleaseStrict({o}) /\ MarkCancelled({o})
    BY <1>7 DEF CancelCod, CodVerificationTimeout
  <2> QED
    BY <1>7, <2>1, ReleaseType, CancelType
    DEF CancelCod, CodVerificationTimeout, MarkCancelled, TypeOK
<1>8. ASSUME NEW o \in Order, CancelOrder(o) PROVE TypeOK'
  <2>1. ReleaseLenient(o) /\ MarkCancelled({o})
    BY <1>8 DEF CancelOrder
  <2>2. stock' \in [Variant -> Nat] /\ reserved' \in [Variant -> Nat]
    BY <2>1, LenientType
  <2>3. /\ status' \in [Order -> OrderStatus]
        /\ fulfilment' \in [Order -> [Seller -> SellerOrderStatus]]
        /\ outbox' \in [Order -> SUBSET OrderEvent]
    BY <2>1, CancelType
  <2> QED
    BY <1>8, <2>2, <2>3 DEF CancelOrder, MarkCancelled, TypeOK
<1>9. ASSUME NEW o \in Order, NEW s \in Seller, AdvanceSellerOrder(o, s)
      PROVE  TypeOK'
  <2> DEFINE target == NextStep[fulfilment[o][s]]
             parts == [fulfilment[o] EXCEPT ![s] = target]
  <2>1. target \in {"processing", "shipped", "delivered"}
    BY <1>9 DEF AdvanceSellerOrder, NextStep
  <2>2. parts \in [Seller -> SellerOrderStatus]
    BY <2>1 DEF TypeOK, SellerOrderStatus
  <2>3. ParentStatus(parts) \in {"processing", "shipped", "delivered"}
    BY DEF ParentStatus
  <2>4. stock' \in [Variant -> Nat] /\ reserved' \in [Variant -> Nat]
    <3>1. \A v \in Variant : qty[o][v] \in Nat
      BY ConstantsAssumption DEF TypeOK
    <3>2. CASE DeductBrand(o, s)
      BY <3>1, <3>2 DEF DeductBrand, TypeOK
    <3>3. CASE UNCHANGED stockVars
      BY <3>3 DEF TypeOK
    <3> QED
      BY <1>9, <3>2, <3>3 DEF AdvanceSellerOrder
  <2>5. /\ fulfilment' = [fulfilment EXCEPT ![o] = parts]
        /\ status' = [status EXCEPT ![o] = ParentStatus(parts)]
        /\ outbox' = [outbox EXCEPT ![o] = @ \union {ParentStatus(parts)}]
        /\ settled' = [settled EXCEPT ![o] = SettledAfter(o, s, target)]
    BY <1>9 DEF AdvanceSellerOrder
  <2>6. fulfilment' \in [Order -> [Seller -> SellerOrderStatus]]
    BY <2>2, <2>5 DEF TypeOK
  <2>7. status' \in [Order -> OrderStatus] /\ outbox' \in [Order -> SUBSET OrderEvent]
    BY <2>3, <2>5 DEF TypeOK, OrderStatus, OrderEvent
  <2>8. settled' \in [Order -> SUBSET Seller]
    BY <2>5 DEF SettledAfter, TypeOK
  <2> QED
    BY <1>9, <2>4, <2>6, <2>7, <2>8 DEF AdvanceSellerOrder, TypeOK
<1>10. ASSUME NEW o \in Order, Tick(o) PROVE TypeOK'
  BY <1>10 DEF Tick, TypeOK
<1>11. ASSUME NEW S \in SUBSET Order, ExpirePendingOrders(S) PROVE TypeOK'
  BY <1>11, ReleaseType, CancelType DEF ExpirePendingOrders, MarkCancelled, TypeOK
<1>12. ASSUME NEW v \in Variant, NEW n \in 0..MaxStock, SetStock(v, n) PROVE TypeOK'
  BY <1>12, ConstantsAssumption DEF SetStock, TypeOK
<1>15. ASSUME NEW S \in SUBSET Variant, NEW asked \in [S -> 0..MaxStock],
              BulkUpdateStock(asked)
       PROVE  TypeOK'
  BY <1>15, ConstantsAssumption DEF BulkUpdateStock, TypeOK
<1>13. ASSUME NEW t \in CodTimeouts, SetCodTimeout(t) PROVE TypeOK'
  BY <1>13 DEF SetCodTimeout, TypeOK
<1>14. CASE UNCHANGED vars
  BY <1>14 DEF vars, TypeOK
<1> QED
  BY <1>1, <1>2, <1>3, <1>4, <1>5, <1>6, <1>7, <1>8, <1>9, <1>10, <1>11, <1>12,
     <1>13, <1>14, <1>15 DEF Next, OrderNext, ReviewCod, EditStock

\* Type correctness: every reachable state has the shape TypeOK describes.
THEOREM TypeCorrect == Spec => []TypeOK
<1>1. Init => TypeOK
  BY ConstantsAssumption
  DEF Init, TypeOK, OrderStatus, SellerOrderStatus, PaymentStatus
<1>2. TypeOK /\ [Next]_vars => TypeOK'
  BY TypeStep
<1> QED
  BY <1>1, <1>2, PTL DEF Spec

-----------------------------------------------------------------------------
(* Stock.                                                                  *)

\* The count of held units is a natural number that bounds a waiting order's line.
LEMMA HeldCovers ==
    ASSUME StockInv, NEW S \in SUBSET Order, NEW v \in Variant,
           \A o \in S, s \in Seller : fulfilment[o][s] \in {"none", "pending", "processing"}
    PROVE  /\ Quantity(S, v) \in Nat
           /\ Quantity(S, v) <= reserved[v]
           /\ Cardinality(HeldUnits(v) \ Units(S, v)) = reserved[v] - Quantity(S, v)
<1>1. Units(S, v) \subseteq HeldUnits(v)
  BY WaitingHolds DEF StockInv
<1>2. IsFiniteSet(HeldUnits(v))
  BY HeldFinite
<1>3. reserved[v] = Cardinality(HeldUnits(v))
  BY DEF StockInv, ReservationExact
<1> QED
  BY <1>1, <1>2, <1>3, CountRemoved DEF Quantity

\* Cancelling orders none of whose parts shipped keeps the stock invariant.
LEMMA ReleaseKeepsStock ==
    ASSUME StockInv, TypeOK', NEW S \in SUBSET Order, MarkCancelled(S), UNCHANGED stock,
           \A o \in S, s \in Seller : fulfilment[o][s] \in {"none", "pending", "processing"},
           \A v \in Variant : reserved'[v] = reserved[v] - Quantity(S, v)
    PROVE  StockInv'
<1> USE DEF StockInv
<1>1. ReservationExact'
  <2> SUFFICES ASSUME NEW v \in Variant
               PROVE  reserved'[v] = Cardinality(HeldUnits(v)')
    BY DEF ReservationExact
  <2>1. HeldUnits(v)' = HeldUnits(v) \ Units(S, v)
    BY CancelledUnits
  <2>2. Cardinality(HeldUnits(v) \ Units(S, v)) = reserved[v] - Quantity(S, v)
    BY HeldCovers
  <2> QED
    BY <2>1, <2>2
<1>2. NoOversell'
  <2> SUFFICES ASSUME NEW v \in Variant PROVE reserved'[v] <= stock'[v]
    BY DEF NoOversell
  <2>1. Quantity(S, v) \in Nat
    BY UnitsFinite
  <2>2. reserved[v] <= stock[v] /\ reserved[v] \in Nat /\ stock[v] \in Nat
    BY DEF NoOversell, TypeOK
  <2>3. reserved'[v] = reserved[v] - Quantity(S, v) /\ stock'[v] = stock[v]
    OBVIOUS
  <2> QED
    BY <2>1, <2>2, <2>3
<1>3. LinesHaveParts'
  <2> SUFFICES ASSUME NEW o \in Order, NEW v \in Variant, qty'[o][v] > 0
               PROVE  fulfilment'[o][SellerOf[v]] # "none"
    BY DEF LinesHaveParts
  <2>1. SellerOf[v] \in Seller /\ fulfilment[o][SellerOf[v]] # "none"
    BY ConstantsAssumption DEF LinesHaveParts, MarkCancelled
  <2> QED
    BY <2>1 DEF MarkCancelled, Brands
<1>4. WaitingPartsPending'
  BY DEF MarkCancelled, WaitingPartsPending, TypeOK, Pending
<1> QED
  BY <1>1, <1>2, <1>3, <1>4

\* The lenient release of OrderService.cancel_order never meets a row that
\* holds too little: it releases exactly what the strict release would.
LEMMA LenientIsExact ==
    ASSUME StockInv, NEW o \in Order, ReleaseLenient(o),
           \A s \in Seller : fulfilment[o][s] \in {"none", "pending", "processing"}
    PROVE  \A v \in Variant : reserved'[v] = reserved[v] - Quantity({o}, v)
<1> SUFFICES ASSUME NEW v \in Variant
             PROVE  reserved'[v] = reserved[v] - Quantity({o}, v)
  OBVIOUS
<1>1. Quantity({o}, v) = qty[o][v]
  BY QuantityOne DEF StockInv
<1>2. Quantity({o}, v) <= reserved[v]
  BY HeldCovers
<1> QED
  BY <1>1, <1>2 DEF ReleaseLenient

\* A checkout adds its units to the held ones.
LEMMA CheckoutKeepsStock ==
    ASSUME StockInv, TypeOK', NEW o \in Order, NEW m, NEW d,
           NEW q \in [Variant -> 0..MaxQty], Checkout(o, m, d, q)
    PROVE  StockInv'
<1> USE DEF StockInv
<1>1. \A v \in Variant : q[v] \in Nat /\ q[v] \in 0..MaxQty
  BY ConstantsAssumption
<1>2. \A p \in Order \ {o} : fulfilment'[p] = fulfilment[p] /\ qty'[p] = qty[p] /\ status'[p] = status[p]
  BY DEF Checkout, TypeOK
<1>3. /\ qty'[o] = q
      /\ status'[o] \in Pending
      /\ \A s \in Seller : fulfilment'[o][s] =
            IF \E v \in Variant : SellerOf[v] = s /\ q[v] > 0 THEN "pending" ELSE "none"
  BY DEF Checkout, TypeOK, Pending
<1>4. \A s \in Seller : fulfilment[o][s] = "none"
  BY DEF Checkout, WaitingPartsPending
<1>5. \A v \in Variant : SellerOf[v] \in Seller
  BY ConstantsAssumption
<1>6. \A v \in Variant : reserved'[v] = reserved[v] + q[v] /\ stock'[v] = stock[v]
  BY DEF Checkout, TypeOK
<1>7. ReservationExact'
  <2> SUFFICES ASSUME NEW v \in Variant
               PROVE  reserved'[v] = Cardinality(HeldUnits(v)')
    BY DEF ReservationExact
  <2> DEFINE new == {o} \X (1..q[v])
  <2>1. HeldUnits(v)' = HeldUnits(v) \union new
    <3>1. ASSUME NEW u PROVE u \in HeldUnits(v)' <=> u \in HeldUnits(v) \union new
      <4>1. CASE u \in Order \X (1..MaxQty) /\ u[1] = o
        <5>1. u \notin HeldUnits(v)
          BY <1>4, <1>5, <4>1 DEF HeldUnits, Holds
        <5>2. u \in HeldUnits(v)' <=> u[2] <= q[v]
          BY <1>1, <1>3, <1>5, <4>1, ConstantsAssumption DEF HeldUnits, Holds, Units
        <5>3. u \in new <=> u[2] <= q[v]
          BY <1>1, <4>1, ConstantsAssumption
        <5> QED
          BY <5>1, <5>2, <5>3
      <4>2. CASE u \in Order \X (1..MaxQty) /\ u[1] # o
        BY <1>2, <4>2 DEF HeldUnits, Holds, Units
      <4>3. CASE u \notin Order \X (1..MaxQty)
        <5>1. u \notin new
          BY <1>1, <4>3, ConstantsAssumption
        <5> QED
          BY <4>3, <5>1 DEF HeldUnits, Units
      <4> QED
        BY <4>1, <4>2, <4>3
    <3> QED
      BY <3>1
  <2>2. HeldUnits(v) \cap new = {}
    BY <1>4, <1>5 DEF HeldUnits, Holds
  <2>3. IsFiniteSet(new) /\ Cardinality(new) = q[v]
    BY <1>1, CountOne
  <2>4. IsFiniteSet(HeldUnits(v))
    BY HeldFinite
  <2>5. Cardinality(HeldUnits(v) \union new)
           = Cardinality(HeldUnits(v)) + Cardinality(new) - Cardinality(HeldUnits(v) \cap new)
    BY <2>3, <2>4, FS_Union
  <2>6. Cardinality(HeldUnits(v) \cap new) = 0
    BY <2>2, FS_EmptySet
  <2>7. reserved[v] = Cardinality(HeldUnits(v)) /\ reserved[v] \in Nat
    BY DEF ReservationExact, TypeOK
  <2> QED
    BY <1>1, <1>6, <2>1, <2>3, <2>5, <2>6, <2>7
<1>8. NoOversell'
  <2> SUFFICES ASSUME NEW v \in Variant PROVE reserved'[v] <= stock'[v]
    BY DEF NoOversell
  <2>1. stock[v] - reserved[v] >= q[v] /\ stock[v] \in Nat /\ reserved[v] \in Nat
    BY DEF Checkout, TypeOK
  <2> QED
    BY <1>1, <1>6, <2>1
<1>9. LinesHaveParts'
  BY <1>2, <1>3, <1>5 DEF LinesHaveParts
<1>10. WaitingPartsPending'
  <2> SUFFICES ASSUME NEW p \in Order, NEW s \in Seller
               PROVE  /\ status'[p] = "none" => fulfilment'[p][s] = "none"
                      /\ status'[p] \in Pending => fulfilment'[p][s] \in {"none", "pending"}
    BY DEF WaitingPartsPending, Pending
  <2>1. CASE p = o
    BY <1>3, <2>1 DEF Pending
  <2>2. CASE p # o
    BY <1>2, <2>2 DEF WaitingPartsPending
  <2> QED
    BY <2>1, <2>2
<1> QED
  BY <1>7, <1>8, <1>9, <1>10

\* A step of fulfilment removes the held units of the brand that ships, and
\* consumes exactly as many; every other step of fulfilment keeps them.
LEMMA AdvanceKeepsStock ==
    ASSUME StockInv, TypeOK', NEW o \in Order, NEW s \in Seller, AdvanceSellerOrder(o, s)
    PROVE  StockInv'
<1> USE DEF StockInv
<1> DEFINE target == NextStep[fulfilment[o][s]]
           parts == [fulfilment[o] EXCEPT ![s] = target]
           sold(v) == IF SellerOf[v] = s THEN qty[o][v] ELSE 0
<1>1. /\ fulfilment[o][s] \in {"pending", "processing", "shipped"}
      /\ fulfilment[o][s] = "pending" => target = "processing"
      /\ fulfilment[o][s] = "processing" => target = "shipped"
      /\ fulfilment[o][s] = "shipped" => target = "delivered"
  BY DEF AdvanceSellerOrder, NextStep
<1>2. /\ fulfilment' = [fulfilment EXCEPT ![o] = parts]
      /\ status' = [status EXCEPT ![o] = ParentStatus(parts)]
      /\ qty' = qty
      /\ IF target = "shipped" THEN DeductBrand(o, s) ELSE UNCHANGED stockVars
  BY DEF AdvanceSellerOrder
<1>3. /\ fulfilment'[o][s] = target
      /\ \A t \in Seller \ {s} : fulfilment'[o][t] = fulfilment[o][t]
      /\ \A p \in Order \ {o} : fulfilment'[p] = fulfilment[p] /\ status'[p] = status[p]
  BY <1>2 DEF TypeOK
<1>4. status'[o] \notin Pending \union {"none"}
  <2>1. ParentStatus(parts) \in {"processing", "shipped", "delivered"}
    BY DEF ParentStatus
  <2> QED
    BY <1>2, <2>1 DEF TypeOK, Pending
<1>5. LinesHaveParts'
  BY <1>1, <1>2, <1>3 DEF LinesHaveParts
<1>6. WaitingPartsPending'
  <2> SUFFICES ASSUME NEW p \in Order, NEW t \in Seller
               PROVE  /\ status'[p] = "none" => fulfilment'[p][t] = "none"
                      /\ status'[p] \in Pending => fulfilment'[p][t] \in {"none", "pending"}
    BY DEF WaitingPartsPending, Pending
  <2>1. CASE p = o
    BY <1>4, <2>1
  <2>2. CASE p # o
    BY <1>3, <2>2 DEF WaitingPartsPending
  <2> QED
    BY <2>1, <2>2
<1>7. ASSUME NEW v \in Variant, SellerOf[v] # s \/ target # "shipped"
      PROVE  HeldUnits(v)' = HeldUnits(v)
  <2>1. SellerOf[v] \in Seller
    BY ConstantsAssumption
  <2>2. \A p \in Order : Holds(p, v)' <=> Holds(p, v)
    BY <1>1, <1>3, <1>7, <2>1 DEF Holds
  <2>3. \A u \in Order \X (1..MaxQty) : u \in HeldUnits(v)' <=> u \in HeldUnits(v)
    BY <1>2, <2>2 DEF HeldUnits, Units
  <2> QED
    BY <2>3 DEF HeldUnits, Units
<1>8. ASSUME NEW v \in Variant, SellerOf[v] = s, target = "shipped"
      PROVE  HeldUnits(v)' = HeldUnits(v) \ Units({o}, v) /\ Units({o}, v) \subseteq HeldUnits(v)
  <2>1. ~ Holds(o, v)' /\ Holds(o, v)
    BY <1>1, <1>3, <1>8 DEF Holds
  <2>2. \A p \in Order \ {o} : Holds(p, v)' <=> Holds(p, v)
    BY <1>3 DEF Holds
  <2>3. \A u \in Order \X (1..MaxQty) :
           u \in HeldUnits(v)' <=> u \in HeldUnits(v) \ Units({o}, v)
    BY <1>2, <2>1, <2>2 DEF HeldUnits, Units
  <2> QED
    BY <2>1, <2>3 DEF HeldUnits, Units
<1>9. ReservationExact' /\ NoOversell'
  <2> SUFFICES ASSUME NEW v \in Variant
               PROVE  reserved'[v] = Cardinality(HeldUnits(v)') /\ reserved'[v] <= stock'[v]
    BY DEF ReservationExact, NoOversell
  <2>1. /\ reserved[v] = Cardinality(HeldUnits(v)) /\ reserved[v] <= stock[v]
        /\ reserved[v] \in Nat /\ stock[v] \in Nat
    BY DEF ReservationExact, NoOversell, TypeOK
  <2>2. CASE target # "shipped"
    <3>1. HeldUnits(v)' = HeldUnits(v)
      BY <1>7, <2>2
    <3>2. reserved' = reserved /\ stock' = stock
      BY <1>2, <2>2 DEF stockVars
    <3> QED
      BY <2>1, <3>1, <3>2
  <2>3. CASE target = "shipped" /\ SellerOf[v] # s
    <3>1. HeldUnits(v)' = HeldUnits(v)
      BY <1>7, <2>3
    <3>2. reserved'[v] = reserved[v] - 0 /\ stock'[v] = stock[v] - 0
      BY <1>2, <2>3 DEF DeductBrand
    <3> QED
      BY <2>1, <3>1, <3>2
  <2>4. CASE target = "shipped" /\ SellerOf[v] = s
    <3>1. HeldUnits(v)' = HeldUnits(v) \ Units({o}, v) /\ Units({o}, v) \subseteq HeldUnits(v)
      BY <1>8, <2>4
    <3>2. reserved'[v] = reserved[v] - qty[o][v] /\ stock'[v] = stock[v] - qty[o][v]
      BY <1>2, <2>4 DEF DeductBrand
    <3>3. Cardinality(Units({o}, v)) = qty[o][v]
      BY QuantityOne DEF Quantity
    <3>4. Cardinality(HeldUnits(v) \ Units({o}, v))
             = Cardinality(HeldUnits(v)) - Cardinality(Units({o}, v))
      BY <3>1, HeldFinite, CountRemoved
    <3>5. qty[o][v] \in Nat
      BY ConstantsAssumption DEF TypeOK
    <3> QED
      BY <2>1, <3>1, <3>2, <3>3, <3>4, <3>5
  <2> QED
    BY <2>2, <2>3, <2>4
<1> QED
  BY <1>5, <1>6, <1>9

\* The stock invariant holds initially.
LEMMA StockInit == Init => StockInv
<1> SUFFICES ASSUME Init PROVE StockInv
  OBVIOUS
<1>1. TypeOK
  BY ConstantsAssumption
  DEF Init, TypeOK, OrderStatus, SellerOrderStatus, PaymentStatus
<1>2. ASSUME NEW v \in Variant PROVE HeldUnits(v) = {}
  <2>1. \A o \in Order : qty[o][v] = 0
    BY DEF Init
  <2> QED
    BY <2>1, ConstantsAssumption DEF HeldUnits, Units
<1>3. ReservationExact
  BY <1>2, FS_EmptySet DEF ReservationExact, Init
<1>4. NoOversell
  BY ConstantsAssumption DEF NoOversell, Init
<1>5. LinesHaveParts
  BY DEF Init, LinesHaveParts
<1>6. WaitingPartsPending
  BY DEF Init, WaitingPartsPending
<1> QED
  BY <1>1, <1>3, <1>4, <1>5, <1>6 DEF StockInv

\* Every step keeps the stock invariant.
LEMMA StockStep ==
    ASSUME StockInv, [Next]_vars
    PROVE  StockInv'
<1>0. TypeOK'
  BY TypeStep DEF StockInv
<1>1. ASSUME NEW o \in Order, NEW m \in {"payfast", "cod"}, NEW d \in Discounts[o],
             NEW q \in [Variant -> 0..MaxQty], Checkout(o, m, d, q)
      PROVE  StockInv'
  BY <1>0, <1>1, CheckoutKeepsStock
<1>2. ASSUME UNCHANGED <<qty, fulfilment, stock, reserved>>,
             \A o \in Order : status'[o] \in Pending \union {"none"} =>
                status[o] = status'[o] \/ (status[o] = "pending_payment" /\ status'[o] \in Pending)
      PROVE  StockInv'
  <2>1. ReservationExact'
    BY <1>2, SameUnits DEF StockInv, ReservationExact
  <2>2. NoOversell' /\ LinesHaveParts'
    BY <1>2 DEF StockInv, NoOversell, LinesHaveParts
  <2>3. WaitingPartsPending'
    BY <1>2 DEF StockInv, WaitingPartsPending, Pending
  <2> QED
    BY <1>0, <2>1, <2>2, <2>3 DEF StockInv
<1>3. ASSUME NEW o \in Order,
             \/ InitiatePayment(o) \/ FailPayment(o) \/ RefundInFull(o)
             \/ RecordCodCollection(o) \/ Tick(o)
      PROVE  StockInv'
  BY <1>2, <1>3 DEF InitiatePayment, FailPayment, RefundInFull, RecordCodCollection, Tick,
     orderVars, stockVars
<1>4. ASSUME NEW o \in Order, SwitchToCod(o) \/ ConfirmPayment(o) \/ VerifyCod(o)
      PROVE  StockInv'
  BY <1>2, <1>4 DEF SwitchToCod, ConfirmPayment, VerifyCod, StockInv, TypeOK, Pending, stockVars
<1>5. ASSUME NEW S \in SUBSET Order, ReleaseStrict(S), MarkCancelled(S),
             \A o \in S : status[o] \in Pending
      PROVE  StockInv'
  <2>1. \A o \in S, s \in Seller : fulfilment[o][s] \in {"none", "pending", "processing"}
    BY <1>5 DEF StockInv, WaitingPartsPending
  <2>2. UNCHANGED stock /\ \A v \in Variant : reserved'[v] = reserved[v] - Quantity(S, v)
    BY <1>5 DEF ReleaseStrict
  <2> QED
    BY <1>0, <1>5, <2>1, <2>2, ReleaseKeepsStock
<1>6. ASSUME NEW o \in Order, CancelCod(o) \/ CodVerificationTimeout(o)
      PROVE  StockInv'
  BY <1>5, <1>6 DEF CancelCod, CodVerificationTimeout, CodReviewable, Pending
<1>7. ASSUME NEW S \in SUBSET Order, ExpirePendingOrders(S)
      PROVE  StockInv'
  BY <1>5, <1>7 DEF ExpirePendingOrders, Expired, Pending
<1>8. ASSUME NEW o \in Order, CancelOrder(o)
      PROVE  StockInv'
  <2>1. \A s \in Seller : fulfilment[o][s] \in {"none", "pending", "processing"}
    BY <1>8 DEF CancelOrder, Brands
  <2>2. ReleaseLenient(o) /\ MarkCancelled({o}) /\ UNCHANGED stock
    BY <1>8 DEF CancelOrder, ReleaseLenient
  <2>3. \A v \in Variant : reserved'[v] = reserved[v] - Quantity({o}, v)
    BY <2>1, <2>2, LenientIsExact
  <2> QED
    BY <1>0, <2>1, <2>2, <2>3, ReleaseKeepsStock
<1>9. ASSUME NEW o \in Order, NEW s \in Seller, AdvanceSellerOrder(o, s)
      PROVE  StockInv'
  BY <1>0, <1>9, AdvanceKeepsStock
<1>10. ASSUME NEW v \in Variant, NEW n \in 0..MaxStock, SetStock(v, n)
       PROVE  StockInv'
  <2>1. ReservationExact'
    BY <1>10, SameUnits DEF SetStock, orderVars, StockInv, ReservationExact
  <2>2. NoOversell'
    BY <1>10, ConstantsAssumption DEF SetStock, StockInv, NoOversell, TypeOK
  <2>3. LinesHaveParts' /\ WaitingPartsPending'
    BY <1>10 DEF SetStock, orderVars, StockInv, LinesHaveParts, WaitingPartsPending
  <2> QED
    BY <1>0, <2>1, <2>2, <2>3 DEF StockInv
<1>13. ASSUME NEW S \in SUBSET Variant, NEW asked \in [S -> 0..MaxStock],
              BulkUpdateStock(asked)
       PROVE  StockInv'
  <2>1. ReservationExact'
    BY <1>13, SameUnits DEF BulkUpdateStock, orderVars, StockInv, ReservationExact
  <2>2. NoOversell'
    BY <1>13, ConstantsAssumption DEF BulkUpdateStock, StockInv, NoOversell, TypeOK
  <2>3. LinesHaveParts' /\ WaitingPartsPending'
    BY <1>13 DEF BulkUpdateStock, orderVars, StockInv, LinesHaveParts, WaitingPartsPending
  <2> QED
    BY <1>0, <2>1, <2>2, <2>3 DEF StockInv
<1>11. ASSUME NEW t \in CodTimeouts, SetCodTimeout(t)
       PROVE  StockInv'
  BY <1>2, <1>11 DEF SetCodTimeout, orderVars, stockVars
<1>12. CASE UNCHANGED vars
  BY <1>2, <1>12 DEF vars, orderVars, stockVars
<1> QED
  BY <1>1, <1>3, <1>4, <1>6, <1>7, <1>8, <1>9, <1>10, <1>11, <1>12, <1>13
     DEF Next, OrderNext, ReviewCod, EditStock

\* The reservations of every inventory row are exactly the units of the lines
\* that neither shipped nor were cancelled.
THEOREM ReservationsExact == Spec => []ReservationExact
<1>1. StockInv => ReservationExact
  BY DEF StockInv
<1>2. StockInv /\ [Next]_vars => StockInv'
  BY StockStep
<1> QED
  BY <1>1, <1>2, StockInit, PTL DEF Spec

\* No row ever promises more units than it has.
THEOREM NeverOversold == Spec => []NoOversell
<1>1. StockInv => NoOversell
  BY DEF StockInv
<1>2. StockInv /\ [Next]_vars => StockInv'
  BY StockStep
<1> QED
  BY <1>1, <1>2, StockInit, PTL DEF Spec

\* No release is refused or dropped: what an order that may still be cancelled
\* gives back is always reserved.
THEOREM ReleasesNeverFail == Spec => []ReleaseNeverFails
<1>1. StockInv => ReleaseNeverFails
  <2> SUFFICES ASSUME StockInv, NEW S \in SUBSET {o \in Order : status[o] \in Cancellable},
                      \A o \in S : \A s \in Brands(o) :
                          fulfilment[o][s] \in {"pending", "processing"},
                      NEW v \in Variant
               PROVE  Quantity(S, v) <= reserved[v]
    BY DEF ReleaseNeverFails
  <2>1. \A o \in S, s \in Seller : fulfilment[o][s] \in {"none", "pending", "processing"}
    BY DEF Brands
  <2> QED
    BY <2>1, HeldCovers
<1>2. StockInv /\ [Next]_vars => StockInv'
  BY StockStep
<1> QED
  BY <1>1, <1>2, StockInit, PTL DEF Spec

-----------------------------------------------------------------------------
(* Money.                                                                  *)

(***************************************************************************)
(* Neither property of money is inductive: that a late job cannot cancel a *)
(* paid order needs that no waiting order is paid, and that an online      *)
(* order is covered while it ships needs how its status fixes its method.  *)
(***************************************************************************)
Paid(o) == payment[o] \in {"completed", "refunded"}

WaitingUnpaid ==
    \A o \in Order : status[o] \in Pending \union {"none"} => ~ Paid(o)

StatusFixesMethod ==
    \A o \in Order :
        /\ status[o] \in {"pending_payment", "payment_confirmed"} => method[o] = "payfast"
        /\ status[o] = "pending_cod_verification" => method[o] = "cod"

MoneyInv ==
    /\ TypeOK
    /\ WaitingUnpaid
    /\ StatusFixesMethod
    /\ PaidNeverCancelled
    /\ ShippedIsCovered

\* The money invariant as a statement about each order.
MoneyOf(o) ==
    /\ status[o] \in Pending \union {"none"} => ~ Paid(o)
    /\ status[o] \in {"pending_payment", "payment_confirmed"} => method[o] = "payfast"
    /\ status[o] = "pending_cod_verification" => method[o] = "cod"
    /\ status[o] = "cancelled" => ~ Paid(o)
    /\ status[o] = "payment_confirmed" => Paid(o)
    /\ method[o] = "payfast" /\ status[o] \in Fulfillable \union {"delivered"} => Paid(o)
    /\ method[o] = "cod" /\ Paid(o) => status[o] = "delivered"

\* The invariant is the conjunction of its statements about each order.
LEMMA MoneyPerOrder == MoneyInv <=> TypeOK /\ \A o \in Order : MoneyOf(o)
BY DEF MoneyInv, WaitingUnpaid, StatusFixesMethod, PaidNeverCancelled, ShippedIsCovered,
       MoneyOf, Paid

\* Every step keeps the money invariant.
LEMMA MoneyStep ==
    ASSUME MoneyInv, [Next]_vars
    PROVE  MoneyInv'
<1>0. TypeOK' /\ TypeOK /\ \A o \in Order : MoneyOf(o)
  BY TypeStep, MoneyPerOrder DEF MoneyInv
<1> SUFFICES ASSUME NEW p \in Order PROVE MoneyOf(p)'
  BY <1>0, MoneyPerOrder DEF MoneyInv, WaitingUnpaid, StatusFixesMethod, PaidNeverCancelled,
     ShippedIsCovered, MoneyOf, Paid
<1> USE DEF MoneyOf, Paid
<1>1. CASE status'[p] = status[p] /\ method'[p] = method[p] /\ payment'[p] = payment[p]
  BY <1>0, <1>1
<1>2. ASSUME NEW m \in {"payfast", "cod"}, NEW d \in Discounts[p],
             NEW q \in [Variant -> 0..MaxQty], Checkout(p, m, d, q)
      PROVE  MoneyOf(p)'
  BY <1>0, <1>2 DEF Checkout, moneyVars, TypeOK, Pending, Fulfillable
<1>3. ASSUME InitiatePayment(p) \/ FailPayment(p)
      PROVE  MoneyOf(p)'
  BY <1>0, <1>3 DEF InitiatePayment, FailPayment, orderVars, TypeOK, Pending, Fulfillable
<1>4. ASSUME RefundInFull(p)
      PROVE  MoneyOf(p)'
  BY <1>0, <1>4 DEF RefundInFull, orderVars, TypeOK
<1>5. ASSUME RecordCodCollection(p)
      PROVE  MoneyOf(p)'
  BY <1>0, <1>5 DEF RecordCodCollection, orderVars, TypeOK, Pending, Fulfillable
<1>6. ASSUME SwitchToCod(p)
      PROVE  MoneyOf(p)'
  BY <1>0, <1>6 DEF SwitchToCod, TypeOK, Pending, Fulfillable
<1>7. ASSUME ConfirmPayment(p)
      PROVE  MoneyOf(p)'
  BY <1>0, <1>7 DEF ConfirmPayment, TypeOK, Pending, Fulfillable
<1>8. ASSUME VerifyCod(p)
      PROVE  MoneyOf(p)'
  BY <1>0, <1>8 DEF VerifyCod, CodReviewable, moneyVars, TypeOK, Pending, Fulfillable
<1>9. ASSUME NEW S \in SUBSET Order, p \in S, MarkCancelled(S), UNCHANGED moneyVars, ~ Paid(p)
      PROVE  MoneyOf(p)'
  BY <1>0, <1>9 DEF MarkCancelled, moneyVars, TypeOK, Pending, Fulfillable
<1>10. ASSUME NEW s \in Seller, AdvanceSellerOrder(p, s)
       PROVE  MoneyOf(p)'
  <2>1. status[p] \in Fulfillable /\ method' = method /\ payment' = payment
    BY <1>10 DEF AdvanceSellerOrder
  <2>2. status'[p] \in {"processing", "shipped", "delivered"}
    BY <1>0, <1>10 DEF AdvanceSellerOrder, ParentStatus, TypeOK
  <2>3. method[p] = "cod" => ~ Paid(p)
    BY <1>0, <2>1 DEF Fulfillable
  <2> QED
    BY <1>0, <2>1, <2>2, <2>3 DEF TypeOK, Pending, Fulfillable
<1>11. ASSUME NEW o \in Order, OrderNext(o), o # p
       PROVE  MoneyOf(p)'
  <2>1. status'[p] = status[p] /\ method'[p] = method[p] /\ payment'[p] = payment[p]
    BY <1>0, <1>11
    DEF OrderNext, ReviewCod, Checkout, InitiatePayment, SwitchToCod, ConfirmPayment, FailPayment,
        RefundInFull, RecordCodCollection, VerifyCod, CancelCod, CancelOrder,
        CodVerificationTimeout, AdvanceSellerOrder, Tick, MarkCancelled, orderVars,
        moneyVars, TypeOK
  <2> QED
    BY <1>1, <2>1
<1>12. ASSUME OrderNext(p)
       PROVE  MoneyOf(p)'
  <2>1. CASE CancelCod(p) \/ CodVerificationTimeout(p) \/ CancelOrder(p)
    BY <1>0, <1>9, <2>1
    DEF CancelCod, CodReviewable, CodVerificationTimeout, CancelOrder, Pending
  <2>2. CASE Tick(p)
    BY <1>1, <2>2 DEF Tick, orderVars, moneyVars
  <2> QED
    BY <1>2, <1>3, <1>4, <1>5, <1>6, <1>7, <1>8, <1>10, <1>12, <2>1, <2>2
    DEF OrderNext, ReviewCod
<1>13. ASSUME NEW S \in SUBSET Order, ExpirePendingOrders(S)
       PROVE  MoneyOf(p)'
  <2>1. CASE p \in S
    BY <1>0, <1>9, <1>13, <2>1 DEF ExpirePendingOrders, Expired, Pending
  <2>2. CASE p \notin S
    BY <1>0, <1>1, <1>13, <2>2 DEF ExpirePendingOrders, MarkCancelled, moneyVars
  <2> QED
    BY <2>1, <2>2
<1>14. ASSUME NEW v \in Variant, NEW n \in 0..MaxStock, SetStock(v, n)
       PROVE  MoneyOf(p)'
  BY <1>1, <1>14 DEF SetStock, orderVars, moneyVars
<1>17. ASSUME NEW S \in SUBSET Variant, NEW asked \in [S -> 0..MaxStock],
              BulkUpdateStock(asked)
       PROVE  MoneyOf(p)'
  BY <1>1, <1>17 DEF BulkUpdateStock, orderVars, moneyVars
<1>15. ASSUME NEW t \in CodTimeouts, SetCodTimeout(t)
       PROVE  MoneyOf(p)'
  BY <1>1, <1>15 DEF SetCodTimeout, orderVars, moneyVars
<1>16. CASE UNCHANGED vars
  BY <1>1, <1>16 DEF vars, orderVars, moneyVars
<1> QED
  BY <1>11, <1>12, <1>13, <1>14, <1>15, <1>16, <1>17 DEF Next, EditStock

\* The money invariant holds initially.
LEMMA MoneyInit == Init => MoneyInv
<1> SUFFICES ASSUME Init PROVE MoneyInv
  OBVIOUS
<1>1. TypeOK
  BY ConstantsAssumption
  DEF Init, TypeOK, OrderStatus, SellerOrderStatus, PaymentStatus
<1> QED
  BY <1>1, MoneyPerOrder DEF MoneyOf, Paid, Init, Fulfillable

\* Payment and cancellation exclude each other, whichever of callback, sweep,
\* delayed job, administrator and customer comes first.
THEOREM MoneyExcludesCancellation == Spec => []PaidNeverCancelled
<1>1. MoneyInv => PaidNeverCancelled
  BY DEF MoneyInv
<1>2. MoneyInv /\ [Next]_vars => MoneyInv'
  BY MoneyStep
<1> QED
  BY <1>1, <1>2, MoneyInit, PTL DEF Spec

\* Goods leave only against a payment or a verified COD request, and cash is
\* recorded only after delivery.
THEOREM ShipmentsCovered == Spec => []ShippedIsCovered
<1>1. MoneyInv => ShippedIsCovered
  BY DEF MoneyInv
<1>2. MoneyInv /\ [Next]_vars => MoneyInv'
  BY MoneyStep
<1> QED
  BY <1>1, <1>2, MoneyInit, PTL DEF Spec

-----------------------------------------------------------------------------
(* The parts of an order.                                                  *)

(***************************************************************************)
(* What a parent's status says of its parts is inductive only when each    *)
(* status bounds the parts from both sides: an order that is prepared has  *)
(* a part that did not ship, one that shipped a part that did not arrive.  *)
(***************************************************************************)
PartsIn(o, S) == \A s \in Seller : fulfilment[o][s] \in S \union {"none"}
SomePart(o, S) == \E s \in Seller : fulfilment[o][s] \in S

\* The status of o and the statuses of its parts.
StatusFits(o) ==
    /\ status[o] = "none" => PartsIn(o, {})
    /\ status[o] \in Pending \union {"payment_confirmed"} =>
          PartsIn(o, {"pending"}) /\ SomePart(o, {"pending"})
    /\ status[o] = "processing" =>
          /\ PartsIn(o, {"pending", "processing", "shipped", "delivered"})
          /\ SomePart(o, {"pending", "processing"})
    /\ status[o] = "shipped" =>
          PartsIn(o, {"shipped", "delivered"}) /\ SomePart(o, {"shipped"})
    /\ status[o] = "delivered" =>
          PartsIn(o, {"delivered"}) /\ SomePart(o, {"delivered"})
    /\ status[o] = "cancelled" =>
          PartsIn(o, {"cancelled"}) /\ SomePart(o, {"cancelled"})

\* The ledger rows of o: only for delivered parts of a paid order, and for all
\* of them while nothing was refunded.
LedgerFits(o) ==
    \A s \in Seller :
        /\ s \in settled[o] => fulfilment[o][s] = "delivered" /\ Paid(o)
        /\ fulfilment[o][s] = "delivered" /\ payment[o] = "completed" => s \in settled[o]

PartsInv ==
    /\ MoneyInv
    /\ \A o \in Order : StatusFits(o) /\ LedgerFits(o)

\* A part that moves forward: the parent's status is computed from all parts.
LEMMA ParentStatusFits ==
    ASSUME NEW f \in [Seller -> {"none", "pending", "processing", "shipped", "delivered"}],
           NEW s \in Seller, f[s] # "none"
    PROVE  \/ /\ ParentStatus(f) = "processing"
              /\ \E x \in Seller : f[x] \in {"pending", "processing"}
           \/ /\ ParentStatus(f) = "shipped"
              /\ \A x \in Seller : f[x] \in {"none", "shipped", "delivered"}
              /\ \E x \in Seller : f[x] = "shipped"
           \/ /\ ParentStatus(f) = "delivered"
              /\ \A x \in Seller : f[x] \in {"none", "delivered"}
              /\ f[s] = "delivered"
<1> DEFINE parts == {f[x] : x \in Seller} \ {"none"}
<1>1. \A x \in Seller : f[x] # "none" => f[x] \in parts
  OBVIOUS
<1>2. CASE parts \subseteq {"delivered"}
  <2>1. ParentStatus(f) = "delivered"
    BY <1>2 DEF ParentStatus
  <2> QED
    BY <1>1, <1>2, <2>1
<1>3. CASE parts \subseteq {"shipped", "delivered"} /\ ~ (parts \subseteq {"delivered"})
  <2>1. ParentStatus(f) = "shipped"
    BY <1>3 DEF ParentStatus
  <2>2. PICK x \in Seller : f[x] \in parts /\ f[x] # "delivered"
    BY <1>3
  <2>3. f[x] = "shipped"
    BY <1>3, <2>2
  <2> QED
    BY <1>1, <1>3, <2>1, <2>3
<1>4. CASE ~ (parts \subseteq {"shipped", "delivered"})
  <2>1. ParentStatus(f) = "processing"
    BY <1>4 DEF ParentStatus
  <2>2. PICK x \in Seller : f[x] \in parts /\ f[x] \notin {"shipped", "delivered"}
    BY <1>4
  <2>3. f[x] \in {"pending", "processing"}
    BY <2>2
  <2> QED
    BY <2>1, <2>3
<1> QED
  BY <1>2, <1>3, <1>4

\* An order whose row, parts and ledger rows a step leaves alone.
LEMMA PartsUntouched ==
    ASSUME NEW p \in Order, StatusFits(p), LedgerFits(p),
           status'[p] = status[p], fulfilment'[p] = fulfilment[p],
           payment'[p] = payment[p], settled'[p] = settled[p]
    PROVE  StatusFits(p)' /\ LedgerFits(p)'
BY DEF StatusFits, LedgerFits, PartsIn, SomePart, Paid

\* Cancelling an order none of whose parts shipped.
LEMMA CancelKeepsParts ==
    ASSUME NEW S \in SUBSET Order, NEW p \in S, StatusFits(p), LedgerFits(p),
           TypeOK, MarkCancelled(S), UNCHANGED moneyVars, status[p] # "none",
           PartsIn(p, {"pending", "processing"})
    PROVE  StatusFits(p)' /\ LedgerFits(p)'
<1>1. /\ status'[p] = "cancelled" /\ settled'[p] = settled[p] /\ payment'[p] = payment[p]
      /\ \A s \in Seller : fulfilment'[p][s] =
            IF fulfilment[p][s] # "none" THEN "cancelled" ELSE "none"
  BY DEF MarkCancelled, Brands, moneyVars
<1>2. PICK s \in Seller : fulfilment[p][s] # "none"
  BY DEF StatusFits, SomePart, TypeOK, OrderStatus, Pending
<1>3. StatusFits(p)'
  BY <1>1, <1>2 DEF StatusFits, PartsIn, SomePart, Pending
<1>4. LedgerFits(p)'
  BY <1>1 DEF LedgerFits, PartsIn, Paid
<1> QED
  BY <1>3, <1>4

\* A brand's step keeps what the parent's status and the ledger rows say.
LEMMA AdvanceKeepsParts ==
    ASSUME PartsInv, NEW p \in Order, NEW s \in Seller, AdvanceSellerOrder(p, s)
    PROVE  StatusFits(p)' /\ LedgerFits(p)'
<1> DEFINE target == NextStep[fulfilment[p][s]]
           parts == [fulfilment[p] EXCEPT ![s] = target]
<1>0. TypeOK /\ StatusFits(p) /\ LedgerFits(p)
  BY DEF PartsInv, MoneyInv
<1>1. target \in {"processing", "shipped", "delivered"} /\ fulfilment[p][s] # "none"
  BY DEF AdvanceSellerOrder, NextStep
<1>2. /\ fulfilment'[p] = parts
      /\ status'[p] = ParentStatus(parts)
      /\ settled'[p] = SettledAfter(p, s, target)
      /\ payment' = payment
  BY <1>0 DEF AdvanceSellerOrder, TypeOK
<1>3. \A x \in Seller : fulfilment[p][x]
          \in {"none", "pending", "processing", "shipped", "delivered"}
  BY <1>0 DEF AdvanceSellerOrder, StatusFits, PartsIn, Fulfillable
<1>4. /\ parts \in [Seller -> {"none", "pending", "processing", "shipped", "delivered"}]
      /\ parts[s] = target
  BY <1>0, <1>1, <1>3 DEF TypeOK
<1>5. StatusFits(p)'
  <2> HIDE DEF parts, target
  <2>1. parts[s] # "none"
    BY <1>1, <1>4
  <2> QED
    BY <1>2, <1>4, <2>1, ParentStatusFits DEF StatusFits, PartsIn, SomePart, Pending
<1>6. LedgerFits(p)'
  <2> SUFFICES ASSUME NEW x \in Seller
               PROVE  /\ x \in settled'[p] => parts[x] = "delivered" /\ Paid(p)
                      /\ parts[x] = "delivered" /\ payment[p] = "completed" =>
                            x \in settled'[p]
    BY <1>2 DEF LedgerFits, Paid
  <2>1. CASE x = s
    <3>1. fulfilment[p][s] # "delivered"
      BY DEF AdvanceSellerOrder, NextStep
    <3> QED
      BY <1>0, <1>2, <1>4, <2>1, <3>1 DEF LedgerFits, SettledAfter, Paid
  <2>2. CASE x # s
    <3>1. parts[x] = fulfilment[p][x] /\ (x \in settled'[p] <=> x \in settled[p])
      BY <1>0, <1>2, <2>2 DEF SettledAfter, TypeOK
    <3> QED
      BY <1>0, <3>1 DEF LedgerFits
  <2> QED
    BY <2>1, <2>2
<1> QED
  BY <1>5, <1>6

\* Every step keeps the invariant of the parts.
LEMMA PartsStep ==
    ASSUME PartsInv, [Next]_vars
    PROVE  PartsInv'
<1>0. /\ MoneyInv' /\ TypeOK
      /\ \A o \in Order : StatusFits(o) /\ LedgerFits(o) /\ MoneyOf(o)
  BY MoneyStep, MoneyPerOrder DEF PartsInv
<1> SUFFICES ASSUME NEW p \in Order PROVE StatusFits(p)' /\ LedgerFits(p)'
  BY <1>0 DEF PartsInv
<1>1. ASSUME status'[p] = status[p], fulfilment'[p] = fulfilment[p],
             payment'[p] = payment[p], settled'[p] = settled[p]
      PROVE  StatusFits(p)' /\ LedgerFits(p)'
  BY <1>0, <1>1, PartsUntouched
<1>2. ASSUME NEW m \in {"payfast", "cod"}, NEW d \in Discounts[p],
             NEW q \in [Variant -> 0..MaxQty], Checkout(p, m, d, q)
      PROVE  StatusFits(p)' /\ LedgerFits(p)'
  <2>1. /\ \A s \in Seller : fulfilment[p][s] = "none" /\ s \notin settled[p]
        /\ settled'[p] = settled[p]
        /\ status'[p] \in Pending
        /\ fulfilment'[p] = [s \in Seller |->
              IF \E v \in Variant : SellerOf[v] = s /\ q[v] > 0 THEN "pending" ELSE "none"]
    BY <1>0, <1>2 DEF Checkout, StatusFits, LedgerFits, PartsIn, moneyVars, TypeOK, Pending
  <2>2. PICK v \in Variant : q[v] > 0
    BY <1>2 DEF Checkout
  <2>3. SellerOf[v] \in Seller /\ fulfilment'[p][SellerOf[v]] = "pending"
    BY <2>1, <2>2, ConstantsAssumption
  <2>4. \A s \in Seller : fulfilment'[p][s] \in {"none", "pending"}
    BY <2>1
  <2> QED
    BY <2>1, <2>3, <2>4 DEF StatusFits, LedgerFits, PartsIn, SomePart, Pending
<1>3. ASSUME InitiatePayment(p) \/ FailPayment(p)
      PROVE  StatusFits(p)' /\ LedgerFits(p)'
  <2>1. /\ ~ Paid(p) /\ payment'[p] \in {"pending", "failed"}
        /\ UNCHANGED <<status, fulfilment, settled>>
    BY <1>0, <1>3 DEF InitiatePayment, FailPayment, orderVars, Paid, TypeOK
  <2> QED
    BY <1>0, <2>1 DEF StatusFits, LedgerFits, PartsIn, SomePart, Paid
<1>4. ASSUME RefundInFull(p)
      PROVE  StatusFits(p)' /\ LedgerFits(p)'
  BY <1>0, <1>4 DEF RefundInFull, orderVars, TypeOK, StatusFits, LedgerFits, PartsIn, SomePart, Paid
<1>5. ASSUME RecordCodCollection(p)
      PROVE  StatusFits(p)' /\ LedgerFits(p)'
  <2>1. /\ settled'[p] = Brands(p) /\ payment'[p] = "completed"
        /\ UNCHANGED <<status, fulfilment>>
        /\ \A s \in Brands(p) : fulfilment[p][s] = "delivered"
    BY <1>0, <1>5 DEF RecordCodCollection, orderVars, TypeOK
  <2> QED
    BY <1>0, <2>1 DEF StatusFits, LedgerFits, PartsIn, SomePart, Paid, Brands
<1>6. ASSUME SwitchToCod(p) \/ ConfirmPayment(p)
      PROVE  StatusFits(p)' /\ LedgerFits(p)'
  <2>1. /\ status[p] = "pending_payment" /\ ~ Paid(p)
        /\ status'[p] \in {"pending_cod_verification", "payment_confirmed"}
        /\ UNCHANGED <<fulfilment, settled>>
    BY <1>0, <1>6 DEF SwitchToCod, ConfirmPayment, Paid, TypeOK
  <2> QED
    BY <1>0, <2>1 DEF StatusFits, LedgerFits, PartsIn, SomePart, Pending
<1>7. ASSUME VerifyCod(p)
      PROVE  StatusFits(p)' /\ LedgerFits(p)'
  <2>1. /\ status[p] = "pending_cod_verification" /\ status'[p] = "processing"
        /\ UNCHANGED <<fulfilment, settled, payment>>
    BY <1>0, <1>7 DEF VerifyCod, CodReviewable, moneyVars, TypeOK
  <2> QED
    BY <1>0, <2>1 DEF StatusFits, LedgerFits, PartsIn, SomePart, Pending, Paid
<1>8. ASSUME NEW S \in SUBSET Order, p \in S, MarkCancelled(S), UNCHANGED moneyVars,
             status[p] \in Pending
      PROVE  StatusFits(p)' /\ LedgerFits(p)'
  <2>1. PartsIn(p, {"pending", "processing"}) /\ status[p] # "none"
    BY <1>0, <1>8 DEF StatusFits, PartsIn, Pending
  <2> QED
    BY <1>0, <1>8, <2>1, CancelKeepsParts
<1>9. ASSUME CancelOrder(p)
      PROVE  StatusFits(p)' /\ LedgerFits(p)'
  <2>1. /\ MarkCancelled({p}) /\ UNCHANGED moneyVars
        /\ PartsIn(p, {"pending", "processing"}) /\ status[p] # "none"
    BY <1>9 DEF CancelOrder, PartsIn, Brands, Cancellable, Pending
  <2> QED
    BY <1>0, <2>1, CancelKeepsParts
<1>10. ASSUME NEW s \in Seller, AdvanceSellerOrder(p, s)
       PROVE  StatusFits(p)' /\ LedgerFits(p)'
  BY <1>10, AdvanceKeepsParts
<1>11. ASSUME NEW o \in Order, OrderNext(o), o # p
       PROVE  StatusFits(p)' /\ LedgerFits(p)'
  <2>1. /\ status'[p] = status[p] /\ fulfilment'[p] = fulfilment[p]
        /\ payment'[p] = payment[p] /\ settled'[p] = settled[p]
    BY <1>0, <1>11
    DEF OrderNext, ReviewCod, Checkout, InitiatePayment, SwitchToCod, ConfirmPayment, FailPayment,
        RefundInFull, RecordCodCollection, VerifyCod, CancelCod, CancelOrder,
        CodVerificationTimeout, AdvanceSellerOrder, Tick, MarkCancelled, orderVars,
        moneyVars, TypeOK
  <2> QED
    BY <1>1, <2>1
<1>12. ASSUME OrderNext(p)
       PROVE  StatusFits(p)' /\ LedgerFits(p)'
  <2>1. CASE CancelCod(p) \/ CodVerificationTimeout(p)
    BY <1>8, <2>1 DEF CancelCod, CodReviewable, CodVerificationTimeout, Pending
  <2>2. CASE Tick(p)
    BY <1>1, <2>2 DEF Tick, orderVars, moneyVars
  <2> QED
    BY <1>2, <1>3, <1>4, <1>5, <1>6, <1>7, <1>9, <1>10, <1>12, <2>1, <2>2
    DEF OrderNext, ReviewCod
<1>13. ASSUME NEW S \in SUBSET Order, ExpirePendingOrders(S)
       PROVE  StatusFits(p)' /\ LedgerFits(p)'
  <2>1. CASE p \in S
    BY <1>8, <1>13, <2>1 DEF ExpirePendingOrders, Expired, Pending
  <2>2. CASE p \notin S
    BY <1>0, <1>1, <1>13, <2>2 DEF ExpirePendingOrders, MarkCancelled, moneyVars
  <2> QED
    BY <2>1, <2>2
<1>14. ASSUME NEW v \in Variant, NEW n \in 0..MaxStock, SetStock(v, n)
       PROVE  StatusFits(p)' /\ LedgerFits(p)'
  BY <1>1, <1>14 DEF SetStock, orderVars, moneyVars
<1>15. ASSUME NEW S \in SUBSET Variant, NEW asked \in [S -> 0..MaxStock],
              BulkUpdateStock(asked)
       PROVE  StatusFits(p)' /\ LedgerFits(p)'
  BY <1>1, <1>15 DEF BulkUpdateStock, orderVars, moneyVars
<1>16. ASSUME NEW t \in CodTimeouts, SetCodTimeout(t)
       PROVE  StatusFits(p)' /\ LedgerFits(p)'
  BY <1>1, <1>16 DEF SetCodTimeout, orderVars, moneyVars
<1>17. CASE UNCHANGED vars
  BY <1>1, <1>17 DEF vars, orderVars, moneyVars
<1> QED
  BY <1>11, <1>12, <1>13, <1>14, <1>15, <1>16, <1>17 DEF Next, EditStock

\* The invariant of the parts holds initially.
LEMMA PartsInit == Init => PartsInv
BY MoneyInit DEF PartsInv, StatusFits, LedgerFits, PartsIn, Init, Pending

\* The invariant of the parts holds in every reachable state.
LEMMA PartsAlways == Spec => []PartsInv
<1>1. PartsInv /\ [Next]_vars => PartsInv'
  BY PartsStep
<1> QED
  BY <1>1, PartsInit, PTL DEF Spec

\* The parent order summarises its parts: cancelled, shipped and delivered
\* exactly with all of them, and no part moves before payment or verification.
THEOREM ParentSummarises == Spec => []ParentAgrees
<1>1. PartsInv => ParentAgrees
  <2> SUFFICES ASSUME PartsInv, NEW o \in Order
               PROVE  LET parts == {fulfilment[o][s] : s \in Brands(o)} IN
                      /\ status[o] \in Pending \union {"payment_confirmed"} => parts = {"pending"}
                      /\ status[o] = "cancelled" <=> parts = {"cancelled"}
                      /\ status[o] = "delivered" <=> parts = {"delivered"}
                      /\ status[o] = "shipped" <=>
                            parts \in {{"shipped"}, {"shipped", "delivered"}}
    BY DEF ParentAgrees
  <2> DEFINE parts == {fulfilment[o][s] : s \in Brands(o)}
             Agrees(x) ==
                /\ status[o] \in Pending \union {"payment_confirmed"} => x = {"pending"}
                /\ status[o] = "cancelled" <=> x = {"cancelled"}
                /\ status[o] = "delivered" <=> x = {"delivered"}
                /\ status[o] = "shipped" <=> x \in {{"shipped"}, {"shipped", "delivered"}}
  <2>0. StatusFits(o) /\ status[o] \in OrderStatus
    BY DEF PartsInv, MoneyInv, TypeOK
  <2>1. \A x : x \in parts <=> x # "none" /\ \E s \in Seller : fulfilment[o][s] = x
    BY DEF Brands
  <2> HIDE DEF parts
  <2> SUFFICES Agrees(parts)
    BY DEF parts
  <2>2. CASE status[o] = "none"
    <3>1. parts = {}
      BY <2>0, <2>1, <2>2 DEF StatusFits, PartsIn
    <3> QED
      BY <2>2, <3>1 DEF Pending
  <2>3. CASE status[o] \in Pending \union {"payment_confirmed"}
    <3>1. parts = {"pending"}
      BY <2>0, <2>1, <2>3 DEF StatusFits, PartsIn, SomePart
    <3> QED
      BY <2>3, <3>1 DEF Pending
  <2>4. CASE status[o] = "processing"
    <3>1. "pending" \in parts \/ "processing" \in parts
      BY <2>0, <2>1, <2>4 DEF StatusFits, PartsIn, SomePart
    <3> QED
      BY <2>4, <3>1 DEF Pending
  <2>5. CASE status[o] = "shipped"
    <3>1. "shipped" \in parts /\ parts \subseteq {"shipped", "delivered"}
      BY <2>0, <2>1, <2>5 DEF StatusFits, PartsIn, SomePart
    <3> QED
      BY <2>5, <3>1 DEF Pending
  <2>6. CASE status[o] = "delivered"
    <3>1. parts = {"delivered"}
      BY <2>0, <2>1, <2>6 DEF StatusFits, PartsIn, SomePart
    <3> QED
      BY <2>6, <3>1 DEF Pending
  <2>7. CASE status[o] = "cancelled"
    <3>1. parts = {"cancelled"}
      BY <2>0, <2>1, <2>7 DEF StatusFits, PartsIn, SomePart
    <3> QED
      BY <2>7, <3>1 DEF Pending
  <2> QED
    BY <2>0, <2>2, <2>3, <2>4, <2>5, <2>6, <2>7 DEF OrderStatus, Pending
<1> QED
  BY <1>1, PartsAlways, PTL

\* Delivery and collection may come in either order: a brand has its ledger
\* row exactly once both happened.
THEOREM EarningsSettledWhenDue == Spec => []SettledWhenDue
<1>1. PartsInv => SettledWhenDue
  BY DEF PartsInv, LedgerFits, SettledWhenDue, Brands, Paid
<1> QED
  BY <1>1, PartsAlways, PTL

\* No step of any handler, job or clock reopens an order that is cancelled or
\* delivered, or sends one that is fulfilled back to waiting.
THEOREM FinalStatesStay == Spec => NoComeback
<1> DEFINE Stays(o) == /\ status[o] \in {"cancelled", "delivered"} => status'[o] = status[o]
                       /\ status[o] \notin {"none", "pending_payment"} =>
                              status'[o] \notin Pending \ {status[o]}
<1>1. ASSUME TypeOK, [Next]_vars, NEW p \in Order
      PROVE  Stays(p)
  <2>1. CASE status'[p] = status[p]
    BY <2>1
  <2>2. ASSUME NEW o \in Order, OrderNext(o), status'[p] # status[p]
        PROVE  Stays(p)
    <3>1. CASE \E s \in Seller : AdvanceSellerOrder(o, s)
      <4>1. status[o] \in Fulfillable
        BY <3>1 DEF AdvanceSellerOrder
      <4>2. \E x \in {"processing", "shipped", "delivered"} : status' = [status EXCEPT ![o] = x]
        BY <3>1 DEF AdvanceSellerOrder, ParentStatus
      <4> QED
        BY <1>1, <2>2, <4>1, <4>2 DEF Fulfillable, Pending, TypeOK
    <3>2. CASE ~ \E s \in Seller : AdvanceSellerOrder(o, s)
      BY <1>1, <2>2, <3>2
      DEF OrderNext, ReviewCod, Checkout, InitiatePayment, SwitchToCod, ConfirmPayment,
          FailPayment, RefundInFull, RecordCodCollection, VerifyCod, CancelCod, CodReviewable,
          CancelOrder, CodVerificationTimeout, Tick, MarkCancelled, orderVars, TypeOK,
          Pending, Cancellable
    <3> QED
      BY <3>1, <3>2
  <2>3. ASSUME NEW S \in SUBSET Order, ExpirePendingOrders(S)
        PROVE  Stays(p)
    BY <1>1, <2>3 DEF ExpirePendingOrders, Expired, MarkCancelled, Pending
  <2>4. ASSUME EditStock \/ (\E t \in CodTimeouts : SetCodTimeout(t)) \/ UNCHANGED vars
        PROVE  Stays(p)
    BY <2>1, <2>4 DEF EditStock, SetStock, BulkUpdateStock, SetCodTimeout, vars, orderVars
  <2> QED
    BY <1>1, <2>1, <2>2, <2>3, <2>4 DEF Next
<1>2. TypeOK /\ [Next]_vars =>
        [\A o \in Order :
            /\ status[o] \in {"cancelled", "delivered"} => status'[o] = status[o]
            /\ status[o] \notin {"none", "pending_payment"} =>
                  status'[o] \notin Pending \ {status[o]}]_vars
  BY <1>1
<1> QED
  BY <1>2, TypeCorrect, PTL DEF Spec, NoComeback

=============================================================================
