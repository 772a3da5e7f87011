---------------------------- MODULE CheckoutProofs ----------------------------
(***************************************************************************)
(* Theorems about Checkout, for any number of requests, keys, customers    *)
(* and quotes.                                                             *)
(*                                                                         *)
(* The invariant follows the requests (Stages): whoever is past its first  *)
(* step was sent with a key and a quote, an order keeps the key and the    *)
(* quote of its request, and what is answered is an order of the same      *)
(* request. On top of it orders have different keys (Distinct), and the    *)
(* row lock of the coupon makes what a checkout read of it true until it   *)
(* commits (Coupons). Bound says what a request has read and, once it was  *)
(* accepted, agreed to; Allocation that the loop over the brands divides a *)
(* discount exactly. RowsHeld says that inventory rows have a single       *)
(* holder, who found a unit.                                               *)
(***************************************************************************)
EXTENDS Checkout, Sums, SequenceTheorems

Sent == [key : Key, quote : Quote]
Working == {"sent", "begun", "priced", "accepted", "committed"}

\* Quotes are a list, and each is somebody's, for variants.
QuoteBook ==
    /\ \E S : quotes \in Seq(S)
    /\ \A q \in DOMAIN quotes : quotes[q].owner \in Owner /\ quotes[q].lines \in Cart

\* How far a request came says what is known of it.
Stages ==
    /\ orders \subseteq Request
    /\ pc \in [Request -> Step]
    /\ DOMAIN req = Request
    /\ answer \in [Request -> Request \union {None}]
    /\ \A r \in Request :
          /\ pc[r] \in Working \/ r \in orders => req[r] \in Sent /\ req[r].quote \in DOMAIN quotes
          /\ pc[r] = "committed" => r \in orders
          /\ r \in orders => pc[r] \in {"committed", "done"}
          /\ answer[r] \in Request => /\ pc[r] = "done"
                                      /\ answer[r] \in orders
                                      /\ req[answer[r]] = req[r]

\* No two orders share owner and key.
Distinct == \A o, p \in orders : SlotOf(o) = SlotOf(p) => o = p

KeyInv == QuoteBook /\ Stages /\ Distinct

-----------------------------------------------------------------------------
LEMMA KeyInit == Init => KeyInv
<1> SUFFICES ASSUME Init PROVE KeyInv
  OBVIOUS
<1>1. quotes \in Seq({}) /\ DOMAIN quotes = {}
  BY DEF Init
<1>2. QuoteBook
  BY <1>1 DEF QuoteBook
<1>3. Stages /\ Distinct
  BY CheckoutAssumption DEF Init, Stages, Distinct, Step, Working
<1> QED
  BY <1>2, <1>3 DEF KeyInv

\* A new quote leaves the others as they are.
LEMMA QuotesGrow ==
  ASSUME QuoteBook, NEW x, x.owner \in Owner, x.lines \in Cart, quotes' = Append(quotes, x)
  PROVE  /\ QuoteBook'
         /\ \A q \in DOMAIN quotes : q \in DOMAIN quotes' /\ quotes'[q] = quotes[q]
<1>1. PICK S : quotes \in Seq(S)
  BY DEF QuoteBook
<1> DEFINE T == S \cup {x}
<1>2. quotes \in Seq(T) /\ x \in T
  BY <1>1
<1> HIDE DEF T
<1>3. /\ quotes' \in Seq(T) /\ DOMAIN quotes = 1..Len(quotes)
      /\ Len(quotes) \in Nat /\ DOMAIN quotes' = 1..(Len(quotes) + 1)
      /\ quotes'[Len(quotes) + 1] = x
      /\ \A q \in 1..Len(quotes) : quotes'[q] = quotes[q]
  BY <1>2
<1> QED
  BY <1>3 DEF QuoteBook

\* Steps that only take requests forward, or end them without an order.
LEMMA Advance ==
  ASSUME KeyInv, NEW r \in Request, r \notin orders,
         UNCHANGED <<quotes, orders>>,
         \/ /\ pc[r] \in Working
            /\ \/ Reject(r)
               \/ \E step \in {"begun", "priced", "accepted"} : Proceed(r, step)
               \/ \E o \in Found(SlotOf(r)) : SameRequest(o, r) /\ AnswerWith(r, o)
         \/ /\ pc[r] = "idle"
            /\ \E k \in Key, q \in Quote \cap DOMAIN quotes :
                  req' = [req EXCEPT ![r] = [key |-> k, quote |-> q]]
            /\ pc' = [pc EXCEPT ![r] = "sent"]
            /\ UNCHANGED answer
  PROVE  KeyInv'
<1> USE DEF KeyInv
<1>1. QuoteBook'
  BY DEF QuoteBook
<1>2. /\ \A x \in Request \ {r} : /\ pc'[x] = pc[x] /\ req'[x] = req[x]
                                 /\ answer'[x] = answer[x]
      /\ DOMAIN req' = Request /\ pc' \in [Request -> Step]
      /\ answer' \in [Request -> Request \union {None}]
  BY DEF Stages, Step, Reject, Proceed, AnswerWith, Found
<1>3. answer[r] \notin Request
  BY DEF Stages, Working
<1>4. \/ pc'[r] = "done" /\ answer'[r] = answer[r]
      \/ pc'[r] \in Working \ {"committed"} /\ answer'[r] = answer[r]
         /\ req'[r] \in Sent /\ req'[r].quote \in DOMAIN quotes
      \/ /\ pc'[r] = "done" /\ req'[r] = req[r]
         /\ answer'[r] \in orders /\ req[answer'[r]] = req[r]
  <2>1. CASE Reject(r)
    BY <2>1 DEF Stages, Reject
  <2>2. ASSUME NEW step \in {"begun", "priced", "accepted"}, Proceed(r, step), pc[r] \in Working
        PROVE  /\ pc'[r] \in Working \ {"committed"} /\ answer'[r] = answer[r]
               /\ req'[r] \in Sent /\ req'[r].quote \in DOMAIN quotes
    BY <2>2 DEF Stages, Working, Proceed
  <2>3. ASSUME NEW o \in Found(SlotOf(r)), SameRequest(o, r), AnswerWith(r, o)
        PROVE  /\ pc'[r] = "done" /\ req'[r] = req[r]
               /\ answer'[r] \in orders /\ req[answer'[r]] = req[r]
    BY <2>3 DEF Stages, AnswerWith, Found, SameRequest
  <2>4. ASSUME NEW k \in Key, NEW q \in Quote \cap DOMAIN quotes,
               req' = [req EXCEPT ![r] = [key |-> k, quote |-> q]],
               pc' = [pc EXCEPT ![r] = "sent"], UNCHANGED answer
        PROVE  /\ pc'[r] \in Working \ {"committed"} /\ answer'[r] = answer[r]
               /\ req'[r] \in Sent /\ req'[r].quote \in DOMAIN quotes
    BY <2>4 DEF Stages, Working, Sent
  <2> QED
    BY <2>1, <2>2, <2>3, <2>4
<1>5. Stages'
  BY <1>2, <1>3, <1>4 DEF Stages, Working
<1>6. Distinct'
  BY <1>2 DEF Distinct, SlotOf, OwnerOf, Stages
<1> QED
  BY <1>1, <1>5, <1>6

\* An order is placed, under a key nobody else placed one for.
LEMMA Placed ==
  ASSUME KeyInv, NEW r \in Request, pc[r] = "accepted", Found(SlotOf(r)) = {},
         orders' = orders \union {r}, Proceed(r, "committed"), UNCHANGED quotes
  PROVE  KeyInv'
<1> USE DEF KeyInv
<1>1. QuoteBook'
  BY DEF QuoteBook
<1>2. /\ pc' = [pc EXCEPT ![r] = "committed"] /\ UNCHANGED <<req, answer>>
      /\ r \notin orders
  BY DEF Proceed, Stages
<1>3. Stages'
  BY <1>2 DEF Stages, Step, Working
<1>4. Distinct'
  BY <1>2 DEF Distinct, SlotOf, OwnerOf, Found, Stages
<1> QED
  BY <1>1, <1>3, <1>4

\* A committed order is answered, or its connection is gone.
LEMMA Answered ==
  ASSUME KeyInv, NEW r \in Request, pc[r] = "committed", UNCHANGED <<orders, quotes, req>>,
         pc' = [pc EXCEPT ![r] = "done"],
         answer' \in {answer, [answer EXCEPT ![r] = r]}
  PROVE  KeyInv'
<1> USE DEF KeyInv
<1>1. QuoteBook'
  BY DEF QuoteBook
<1>2. Stages'
  BY DEF Stages, Step, Working
<1>3. Distinct'
  BY DEF Distinct, SlotOf, OwnerOf
<1> QED
  BY <1>1, <1>2, <1>3

\* Carts are filled and emptied apart from the orders.
LEMMA CartsApart ==
  ASSUME NEW u \in Account, UseCart(u)
  PROVE  UNCHANGED <<price, quotes, requestVars, workVars, orderVars>>
  BY DEF UseCart, ReadCart, AddToCart, RemoveFromCart, SyncCart

LEMMA KeyStep == KeyInv /\ [Next]_vars => KeyInv'
<1> SUFFICES ASSUME KeyInv, [Next]_vars PROVE KeyInv'
  OBVIOUS
<1>1. ASSUME UNCHANGED <<quotes, requestVars, orders>> PROVE KeyInv'
  BY <1>1 DEF KeyInv, QuoteBook, Stages, Distinct, SlotOf, OwnerOf, requestVars
<1>2. ASSUME NEW u \in Owner, NEW S \in Cart, NEW withCoupon \in BOOLEAN,
             IssueQuote(u, S, withCoupon)
      PROVE  KeyInv'
  <2> DEFINE prices == [v \in Variant |-> IF v \in S THEN price[v] ELSE 0]
             subtotal == MapThenSumSet(LAMBDA v : price[v], S)
             x == [owner |-> u, lines |-> S, price |-> prices,
                   discount |-> IF withCoupon THEN CouponDiscount(subtotal) ELSE 0]
  <2>1. quotes' = Append(quotes, x) /\ x.owner = u /\ x.lines = S
    BY <1>2 DEF IssueQuote
  <2> HIDE DEF x
  <2>2. UNCHANGED <<pc, req, answer, orders>>
    BY <1>2 DEF IssueQuote, requestVars, orderVars
  <2>3. QuoteBook' /\ \A q \in DOMAIN quotes : q \in DOMAIN quotes' /\ quotes'[q] = quotes[q]
    BY <2>1, QuotesGrow DEF KeyInv
  <2>4. Stages'
    BY <2>2, <2>3 DEF KeyInv, Stages
  <2>5. \A o \in orders : SlotOf(o)' = SlotOf(o)
    BY <2>2, <2>3 DEF KeyInv, Stages, SlotOf, OwnerOf
  <2>6. Distinct'
    BY <2>2, <2>5 DEF KeyInv, Distinct
  <2> QED
    BY <2>3, <2>4, <2>6 DEF KeyInv
<1>3. ASSUME NEW r \in Request, NEW k \in Key, NEW q \in Quote, Send(r, k, q) PROVE KeyInv'
  <2>1. /\ pc[r] = "idle" /\ q \in Quote \cap DOMAIN quotes /\ r \notin orders
        /\ UNCHANGED <<quotes, orders, answer>>
        /\ req' = [req EXCEPT ![r] = [key |-> k, quote |-> q]]
        /\ pc' = [pc EXCEPT ![r] = "sent"]
    BY <1>3 DEF Send, KeyInv, Stages, orderVars
  <2> QED
    BY <2>1, Advance
<1>4. ASSUME NEW r \in Request, pc[r] \in Working, pc[r] # "committed",
             UNCHANGED <<quotes, orders>>,
             \/ Reject(r)
             \/ \E step \in {"begun", "priced", "accepted"} : Proceed(r, step)
             \/ \E o \in Found(SlotOf(r)) : SameRequest(o, r) /\ AnswerWith(r, o)
      PROVE  KeyInv'
  <2>1. r \notin orders
    BY <1>4 DEF KeyInv, Stages, Working
  <2> QED
    BY <1>4, <2>1, Advance
<1>5. ASSUME NEW r \in Request, Begin(r) \/ Prepare(r) \/ Accept(r) PROVE KeyInv'
  <2>1. /\ pc[r] \in Working /\ pc[r] # "committed"
        /\ UNCHANGED <<quotes, orders>>
        /\ \/ Reject(r)
           \/ \E step \in {"begun", "priced", "accepted"} : Proceed(r, step)
           \/ \E o \in Found(SlotOf(r)) : SameRequest(o, r) /\ AnswerWith(r, o)
    BY <1>5 DEF Begin, CheckQuote, Prepare, Accept, Working, orderVars
  <2> QED
    BY <1>4, <2>1
<1>6. ASSUME NEW r \in Request, NEW v \in Variant, ReserveLine(r, v) PROVE KeyInv'
  <2>1. pc[r] = "accepted" /\ UNCHANGED <<quotes, orders>>
        /\ (Reject(r) \/ UNCHANGED requestVars)
    BY <1>6 DEF ReserveLine, orderVars
  <2>2. CASE Reject(r)
    BY <1>4, <2>1, <2>2 DEF Working
  <2>3. CASE UNCHANGED requestVars
    BY <1>1, <2>1, <2>3
  <2> QED
    BY <2>1, <2>2, <2>3
<1>7. ASSUME NEW r \in Request, Commit(r) PROVE KeyInv'
  <2>1. CASE Found(SlotOf(r)) # {}
    BY <1>4, <1>7, <2>1 DEF Commit, Working, orderVars
  <2>2. CASE Found(SlotOf(r)) = {}
    BY <1>7, <2>2, Placed DEF Commit
  <2> QED
    BY <2>1, <2>2
<1>8. ASSUME NEW r \in Request, Finish(r) PROVE KeyInv'
  BY <1>8, Answered DEF Finish, AnswerWith, orderVars
<1>9. ASSUME NEW r \in Request, Die(r) \/ AbortDeadlock(r) PROVE KeyInv'
  <2>1. UNCHANGED <<quotes, orders>>
    BY <1>9 DEF Die, AbortDeadlock, orderVars
  <2>2. CASE /\ Reject(r)
             /\ pc[r] = "sent" \/ r \in Open
    BY <1>4, <2>1, <2>2 DEF Open, Working
  <2>3. CASE pc[r] = "committed" /\ pc' = [pc EXCEPT ![r] = "done"] /\ UNCHANGED <<req, answer>>
    BY <2>1, <2>3, Answered
  <2>4. AbortDeadlock(r) => Reject(r) /\ r \in Open
    BY DEF AbortDeadlock
  <2> QED
    BY <1>9, <2>2, <2>3, <2>4 DEF Die
<1>10. CASE UNCHANGED vars
  BY <1>1, <1>10 DEF vars, orderVars
<1>11. ASSUME NEW v \in Variant, NEW p \in 0..MaxPrice, EditPrice(v, p) PROVE KeyInv'
  BY <1>1, <1>11 DEF EditPrice, orderVars
<1>12. ASSUME NEW u \in Account, UseCart(u) PROVE KeyInv'
  BY <1>1, <1>12, CartsApart DEF orderVars
<1>13. ASSUME NEW o \in Request, Age(o) PROVE KeyInv'
  BY <1>1, <1>13 DEF Age
<1> QED
  BY <1>2, <1>3, <1>5, <1>6, <1>7, <1>8, <1>9, <1>10, <1>11, <1>12, <1>13 DEF Next, Work

LEMMA KeyInvariant == Spec => []KeyInv
  BY KeyInit, KeyStep, PTL DEF Spec

\* Clients are answered with orders of the very request they sent.
THEOREM AnswersAreOwn == Spec => []AnswersMatch
<1>1. KeyInv => AnswersMatch
  BY DEF KeyInv, Stages, AnswersMatch, OwnerOf
<1> QED
  BY <1>1, KeyInvariant, PTL

-----------------------------------------------------------------------------
(* A key is worth one order.                                               *)

\* Quotes never change.
LEMMA QuotesStay ==
  ASSUME KeyInv, [Next]_vars
  PROVE  \A q \in DOMAIN quotes : q \in DOMAIN quotes' /\ quotes'[q] = quotes[q]
<1>1. ASSUME NEW u \in Owner, NEW S \in Cart, NEW withCoupon \in BOOLEAN,
             IssueQuote(u, S, withCoupon)
      PROVE  \A q \in DOMAIN quotes : q \in DOMAIN quotes' /\ quotes'[q] = quotes[q]
  <2> DEFINE prices == [v \in Variant |-> IF v \in S THEN price[v] ELSE 0]
             subtotal == MapThenSumSet(LAMBDA v : price[v], S)
             x == [owner |-> u, lines |-> S, price |-> prices,
                   discount |-> IF withCoupon THEN CouponDiscount(subtotal) ELSE 0]
  <2>1. quotes' = Append(quotes, x) /\ x.owner = u /\ x.lines = S
    BY <1>1 DEF IssueQuote
  <2> HIDE DEF x
  <2> QED
    BY <2>1, QuotesGrow DEF KeyInv
<1>2. CASE UNCHANGED quotes
  BY <1>2
<1>3. \/ UNCHANGED quotes
      \/ \E u \in Owner, S \in Cart, withCoupon \in BOOLEAN : IssueQuote(u, S, withCoupon)
  BY CartsApart DEF Next, Work, EditPrice, Age, Send, Begin, CheckQuote, Prepare, Accept,
         ReserveLine, Commit, Finish, Die, AbortDeadlock, vars
<1> QED
  BY <1>1, <1>2, <1>3

\* Orders keep their requests.
LEMMA OrdersStay ==
  ASSUME KeyInv, [Next]_vars
  PROVE  /\ \A o \in orders : SlotOf(o)' = SlotOf(o) /\ OwnerOf(o)' = OwnerOf(o)
         /\ \A r \in Request : pc[r] = "accepted" /\ req'[r] = req[r]
                                  => SlotOf(r)' = SlotOf(r) /\ OwnerOf(r)' = OwnerOf(r)
         /\ orders' = orders \/ \E r \in Request : Commit(r) /\ orders' = orders \union {r}
<1>1. \A q \in DOMAIN quotes : q \in DOMAIN quotes' /\ quotes'[q] = quotes[q]
  BY QuotesStay
<1>2. \A o \in orders : req'[o] = req[o]
  <2>1. ASSUME NEW r \in Request, Reject(r),
               pc[r] \in Working \ {"committed"}
        PROVE  \A o \in orders : req'[o] = req[o]
    BY <2>1 DEF Reject, KeyInv, Stages, Working
  <2>2. ASSUME NEW r \in Request, NEW k \in Key, NEW q \in Quote, Send(r, k, q)
        PROVE  \A o \in orders : req'[o] = req[o]
    BY <2>2 DEF Send, KeyInv, Stages
  <2>3. \/ UNCHANGED req
        \/ \E r \in Request, k \in Key, q \in Quote : Send(r, k, q)
        \/ \E r \in Request : Reject(r) /\ pc[r] \in Working \ {"committed"}
    <3>1. ASSUME NEW r \in Request, Work(r) \/ Die(r) \/ AbortDeadlock(r)
          PROVE  UNCHANGED req \/ (Reject(r) /\ pc[r] \in Working \ {"committed"})
      <4>1. CASE Begin(r) \/ Prepare(r) \/ Accept(r)
        BY <4>1 DEF Begin, CheckQuote, Prepare, Accept, Proceed, AnswerWith, Working
      <4>2. CASE Commit(r) \/ Finish(r) \/ \E v \in Variant : ReserveLine(r, v)
        BY <4>2 DEF Commit, Finish, ReserveLine, Proceed, AnswerWith, Working, requestVars
      <4>3. CASE Die(r) \/ AbortDeadlock(r)
        BY <4>3 DEF Die, AbortDeadlock, Open, Working
      <4> QED
        BY <3>1, <4>1, <4>2, <4>3 DEF Work
    <3>2. \/ UNCHANGED req
          \/ \E r \in Request, k \in Key, q \in Quote : Send(r, k, q)
          \/ \E r \in Request : Work(r) \/ Die(r) \/ AbortDeadlock(r)
      BY CartsApart DEF Next, EditPrice, IssueQuote, Age, vars, requestVars
    <3> QED
      BY <3>1, <3>2
  <2> QED
    BY <2>1, <2>2, <2>3
<1>3. orders' = orders \/ \E r \in Request : Commit(r) /\ orders' = orders \union {r}
  <2>1. \/ UNCHANGED orders
        \/ \E r \in Request : Commit(r)
    BY CartsApart DEF Next, Work, EditPrice, IssueQuote, Age, Send, Begin, CheckQuote, Prepare,
           Accept, ReserveLine, Finish, Die, AbortDeadlock, vars, orderVars
  <2> QED
    BY <2>1 DEF Commit, orderVars
<1> QED
  BY <1>1, <1>2, <1>3 DEF SlotOf, OwnerOf, KeyInv, Stages, Working

\* Every step places one order under a free key, or none.
LEMMA KeyedStep ==
  ASSUME KeyInv, [Next]_vars
  PROVE  [Keyed!Next]_([s \in Owner \X Key |-> {o \in orders : SlotOf(o) = s}])
<1> DEFINE P == [s \in Owner \X Key |-> {o \in orders : SlotOf(o) = s}]
<1>1. CASE orders' = orders
  <2>1. UNCHANGED P
    BY <1>1, OrdersStay
  <2> QED
    BY <2>1
<1>2. ASSUME NEW r \in Request, Commit(r), orders' = orders \union {r}, orders' # orders
      PROVE  Keyed!Next
  <2>1. /\ pc[r] = "accepted" /\ Found(SlotOf(r)) = {} /\ req' = req
    BY <1>2 DEF Commit, Proceed, orderVars
  <2>2. SlotOf(r) \in Owner \X Key
    BY <2>1 DEF KeyInv, QuoteBook, Stages, Working, SlotOf, OwnerOf, Sent
  <2>3. SlotOf(r)' = SlotOf(r)
    BY <2>1, OrdersStay
  <2>4. \A s \in Owner \X Key :
           {o \in orders : SlotOf(o) = s}' = IF s = SlotOf(r) THEN {r}
                                             ELSE {o \in orders : SlotOf(o) = s}
    BY <1>2, <2>1, <2>3, OrdersStay DEF Found
  <2>5. P' = [P EXCEPT ![SlotOf(r)] = {r}]
    BY <2>4
  <2>6. P[SlotOf(r)] = {}
    BY <2>1, <2>2 DEF Found
  <2> QED
    BY <2>2, <2>5, <2>6 DEF Keyed!Next, Keyed!Place
<1> QED
  BY <1>1, <1>2, OrdersStay

\* However often and however concurrently it is sent, a key is worth one order.
THEOREM KeysAreKept == Spec => KeepsKeys
<1>1. Init => Keyed!Init
  BY DEF Init, Keyed!Init
<1>2. KeyInv /\ [Next]_vars
        => [Keyed!Next]_([s \in Owner \X Key |-> {o \in orders : SlotOf(o) = s}])
  BY KeyedStep
<1> QED
  BY <1>1, <1>2, KeyInvariant, PTL DEF Spec, KeepsKeys, Keyed!Spec

-----------------------------------------------------------------------------
(* The coupon at its limits.                                               *)

\* An open checkout that holds the row of the coupon.
Holds(x) == pc[x] = "accepted" /\ discount[x] > 0

\* Who holds the coupon is alone, and may use it.
Coupons ==
    /\ DOMAIN discount = Request
    /\ \A x, y \in Request : Holds(x) /\ Holds(y) => x = y
    /\ \A x \in Request : Holds(x) => CouponUsable(OwnerOf(x))

LEMMA CouponInit == Init => Coupons /\ CouponKept
<1> SUFFICES ASSUME Init PROVE Coupons /\ CouponKept
  OBVIOUS
<1>1. Cardinality({}) = 0 /\ usages = {} /\ uses = 0 /\ orders = {}
  BY FS_EmptySet DEF Init
<1>2. \A u \in Account : UsedBy(u) = {}
  BY <1>1 DEF UsedBy
<1>3. CouponKept
  BY <1>1, <1>2, CheckoutAssumption DEF CouponKept
<1>4. Coupons
  BY DEF Init, Coupons, Holds
<1> QED
  BY <1>3, <1>4

\* Steps that leave the limits, and everyone who might hold the coupon, alone.
LEMMA CouponAside ==
  ASSUME KeyInv, Coupons, CouponKept, [Next]_vars,
         UNCHANGED <<orders, usages, uses>>, DOMAIN discount' = Request,
         \A x \in Request : Holds(x)' => Holds(x) /\ req'[x] = req[x],
         \A o \in orders : discount'[o] = discount[o]
  PROVE  Coupons' /\ CouponKept'
<1>1. \A o \in orders : OwnerOf(o)' = OwnerOf(o)
  BY OrdersStay
<1>2. usages \subseteq orders
  BY DEF CouponKept
<1>3. \A u : UsedBy(u)' = UsedBy(u)
  BY <1>1, <1>2 DEF UsedBy
<1>4. CouponKept'
  BY <1>3 DEF CouponKept
<1>5. \A x \in Request : Holds(x)' => OwnerOf(x)' = OwnerOf(x)
  BY OrdersStay DEF Holds
<1>6. \A u : CouponUsable(u)' <=> CouponUsable(u)
  BY <1>3 DEF CouponUsable
<1>7. Coupons'
  BY <1>5, <1>6 DEF Coupons
<1> QED
  BY <1>4, <1>7

\* A checkout takes the coupon only when nobody holds it and it may be used.
LEMMA CouponAccepted ==
  ASSUME KeyInv, Coupons, CouponKept, [Next]_vars, NEW r \in Request, Accept(r)
  PROVE  Coupons' /\ CouponKept'
<1>1. r \notin orders /\ pc[r] = "priced" /\ UNCHANGED <<orders, usages, uses>>
  BY DEF Accept, KeyInv, Stages, orderVars
<1>2. CASE Reject(r)
  <2>1. /\ \A x \in Request : Holds(x)' => Holds(x) /\ req'[x] = req[x]
        /\ \A o \in orders : discount'[o] = discount[o]
        /\ DOMAIN discount' = Request
    BY <1>1, <1>2 DEF Reject, Holds, Coupons, KeyInv, Stages
  <2> QED
    BY <1>1, <2>1, CouponAside
<1>3. CASE ~Reject(r)
  <2> DEFINE withCoupon == quotes[req[r].quote].discount > 0
             d == IF withCoupon THEN CouponDiscount(Subtotal(r)) ELSE 0
  <2>1. /\ withCoupon => ~CouponLocked /\ CouponUsable(OwnerOf(r))
        /\ discount' = [discount EXCEPT ![r] = d]
        /\ pc' = [pc EXCEPT ![r] = "accepted"] /\ UNCHANGED <<req, quotes>>
    BY <1>3 DEF Accept, Proceed
  <2>2. CASE withCoupon
    <3>1. \A x \in Request : ~Holds(x)
      BY <2>1, <2>2 DEF CouponLocked, Holds, Open
    <3>2. \A x \in Request : Holds(x)' => x = r
      BY <2>1, <3>1 DEF Holds, Coupons, KeyInv, Stages
    <3>3. \A o \in orders : OwnerOf(o)' = OwnerOf(o) /\ discount'[o] = discount[o]
      BY <1>1, <2>1 DEF OwnerOf, Coupons, KeyInv, Stages
    <3>4. \A u : UsedBy(u)' = UsedBy(u)
      BY <1>1, <3>3 DEF UsedBy, CouponKept
    <3>5. OwnerOf(r)' = OwnerOf(r) /\ CouponUsable(OwnerOf(r))
      BY <2>1, <2>2 DEF OwnerOf
    <3>6. CouponKept'
      BY <1>1, <3>3, <3>4 DEF CouponKept
    <3>7. \A u : CouponUsable(u)' <=> CouponUsable(u)
      BY <1>1, <3>4 DEF CouponUsable
    <3>8. Coupons'
      BY <2>1, <3>2, <3>5, <3>7 DEF Coupons
    <3> QED
      BY <3>6, <3>8
  <2>3. CASE ~withCoupon
    <3>1. d = 0
      BY <2>3
    <3> HIDE DEF d
    <3>2. /\ \A x \in Request : Holds(x)' => Holds(x) /\ req'[x] = req[x]
          /\ \A o \in orders : discount'[o] = discount[o]
          /\ DOMAIN discount' = Request
      BY <1>1, <2>1, <3>1 DEF Holds, Coupons, KeyInv, Stages
    <3> QED
      BY <1>1, <3>2, CouponAside
  <2> QED
    BY <2>2, <2>3
<1> QED
  BY <1>2, <1>3

\* The use that is committed is the one the row was locked for.
LEMMA CouponUsed ==
  ASSUME KeyInv, Coupons, CouponKept, [Next]_vars, NEW r \in Request,
         Commit(r), Found(SlotOf(r)) = {}
  PROVE  Coupons' /\ CouponKept'
<1>1. /\ pc[r] = "accepted" /\ orders' = orders \union {r} /\ r \notin orders
      /\ pc' = [pc EXCEPT ![r] = "committed"] /\ UNCHANGED <<req, quotes, discount>>
      /\ usages' = IF discount[r] > 0 THEN usages \union {r} ELSE usages
      /\ uses' = IF discount[r] > 0 THEN uses + 1 ELSE uses
  BY DEF Commit, Proceed, KeyInv, Stages
<1>2. \A x \in Request : OwnerOf(x)' = OwnerOf(x) /\ (Holds(x)' => Holds(x) /\ x # r)
  BY <1>1 DEF OwnerOf, Holds, KeyInv, Stages
<1>3. usages \subseteq Request /\ usages \subseteq orders
  BY DEF CouponKept, KeyInv, Stages
<1>4. usages' = {o \in orders' : discount'[o] > 0}
  BY <1>1 DEF CouponKept
<1>5. CASE ~(discount[r] > 0)
  <2>1. \A u : UsedBy(u)' = UsedBy(u)
    BY <1>1, <1>2, <1>3, <1>5 DEF UsedBy
  <2>2. \A u : CouponUsable(u)' <=> CouponUsable(u)
    BY <1>1, <1>5, <2>1 DEF CouponUsable
  <2> QED
    BY <1>1, <1>2, <1>4, <1>5, <2>1, <2>2 DEF Coupons, CouponKept
<1>6. CASE discount[r] > 0
  <2>1. Holds(r) /\ CouponUsable(OwnerOf(r))
    BY <1>1, <1>6 DEF Holds, Coupons
  <2>2. \A x \in Request : ~Holds(x)'
    BY <1>2, <2>1 DEF Coupons
  <2>3. IsFiniteSet(usages)
    <3>1. IsFiniteSet(Request)
      BY CheckoutAssumption, FS_Interval DEF Request
    <3> QED
      BY <1>3, <3>1, FS_Subset
  <2>4. Cardinality(usages') = Cardinality(usages) + 1 /\ Cardinality(usages) \in Nat
    BY <1>1, <1>3, <1>6, <2>3, FS_AddElement, FS_CardinalityType
  <2>5. \A u : UsedBy(u)' = IF u = OwnerOf(r) THEN UsedBy(u) \cup {r} ELSE UsedBy(u)
    BY <1>1, <1>2, <1>3, <1>6 DEF UsedBy
  <2>6. ASSUME NEW u \in Account PROVE Cardinality(UsedBy(u)') <= MaxUsesPerUser
    <3>1. IsFiniteSet(UsedBy(u)) /\ r \notin UsedBy(u) /\ Cardinality(UsedBy(u)) \in Nat
      BY <1>1, <1>3, <2>3, FS_Subset, FS_CardinalityType DEF UsedBy
    <3>2. CASE u = OwnerOf(r)
      <4>1. Cardinality(UsedBy(u)) < MaxUsesPerUser
        BY <2>1, <3>2 DEF CouponUsable
      <4>2. UsedBy(u)' = UsedBy(u) \cup {r}
        BY <2>5, <3>2
      <4>3. Cardinality(UsedBy(u) \cup {r}) = Cardinality(UsedBy(u)) + 1
        BY <3>1, FS_AddElement
      <4> QED
        BY <3>1, <4>1, <4>2, <4>3, CheckoutAssumption
    <3>3. CASE u # OwnerOf(r)
      BY <2>5, <3>3 DEF CouponKept
    <3> QED
      BY <3>2, <3>3
  <2>7. uses' = Cardinality(usages') /\ uses' <= MaxUses
    BY <1>1, <1>6, <2>1, <2>4, CheckoutAssumption DEF CouponKept, CouponUsable
  <2>8. CouponKept'
    BY <1>4, <2>6, <2>7 DEF CouponKept
  <2>9. Coupons'
    BY <1>1, <2>2 DEF Coupons
  <2> QED
    BY <2>8, <2>9
<1> QED
  BY <1>5, <1>6

LEMMA CouponStep == KeyInv /\ Coupons /\ CouponKept /\ [Next]_vars => Coupons' /\ CouponKept'
<1> SUFFICES ASSUME KeyInv, Coupons, CouponKept, [Next]_vars PROVE Coupons' /\ CouponKept'
  OBVIOUS
<1>1. ASSUME UNCHANGED <<pc, discount, orders, usages, uses>>,
             \A x \in Request : pc[x] = "accepted" => req'[x] = req[x]
      PROVE  Coupons' /\ CouponKept'
  <2>1. \A x \in Request : Holds(x)' => Holds(x) /\ req'[x] = req[x]
    BY <1>1 DEF Holds
  <2> QED
    BY <1>1, <2>1, CouponAside DEF Coupons
<1>2. ASSUME NEW r \in Request, r \notin orders, UNCHANGED <<orders, usages, uses>>,
             \/ Reject(r)
             \/ UNCHANGED <<req, discount>> /\ \E step \in Step \ {"accepted"} :
                                                  pc' = [pc EXCEPT ![r] = step]
      PROVE  Coupons' /\ CouponKept'
  <2>1. /\ \A x \in Request : Holds(x)' => Holds(x) /\ req'[x] = req[x]
        /\ \A o \in orders : discount'[o] = discount[o]
        /\ DOMAIN discount' = Request
    BY <1>2 DEF Reject, Holds, Coupons, KeyInv, Stages
  <2> QED
    BY <1>2, <2>1, CouponAside
<1>3. ASSUME NEW r \in Request, Begin(r) \/ Prepare(r) PROVE Coupons' /\ CouponKept'
  <2>1. r \notin orders /\ UNCHANGED <<orders, usages, uses>>
    BY <1>3 DEF Begin, CheckQuote, Prepare, KeyInv, Stages, orderVars
  <2>2. \/ Reject(r)
        \/ UNCHANGED <<req, discount>> /\ \E step \in Step \ {"accepted"} :
                                             pc' = [pc EXCEPT ![r] = step]
    BY <1>3 DEF Begin, CheckQuote, Prepare, Proceed, AnswerWith, Step, workVars
  <2> QED
    BY <1>2, <2>1, <2>2
<1>4. ASSUME NEW r \in Request, NEW v \in Variant, ReserveLine(r, v)
      PROVE  Coupons' /\ CouponKept'
  <2>1. r \notin orders /\ UNCHANGED <<orders, usages, uses>>
    BY <1>4 DEF ReserveLine, KeyInv, Stages, orderVars
  <2>2. Reject(r) \/ UNCHANGED <<discount, requestVars>>
    BY <1>4 DEF ReserveLine
  <2> QED
    BY <1>1, <1>2, <2>1, <2>2 DEF requestVars
<1>5. ASSUME NEW r \in Request, Commit(r) PROVE Coupons' /\ CouponKept'
  <2>1. CASE Found(SlotOf(r)) = {}
    BY <1>5, <2>1, CouponUsed
  <2>2. CASE Found(SlotOf(r)) # {}
    <3>1. r \notin orders /\ Reject(r) /\ UNCHANGED <<orders, usages, uses>>
      BY <1>5, <2>2 DEF Commit, KeyInv, Stages, orderVars
    <3> QED
      BY <1>2, <3>1
  <2> QED
    BY <2>1, <2>2
<1>6. ASSUME NEW r \in Request, pc[r] = "committed", pc' = [pc EXCEPT ![r] = "done"],
             UNCHANGED <<req, discount, orders, usages, uses>>
      PROVE  Coupons' /\ CouponKept'
  <2>1. \A x \in Request : Holds(x)' => Holds(x) /\ req'[x] = req[x]
    BY <1>6 DEF Holds, KeyInv, Stages
  <2> QED
    BY <1>6, <2>1, CouponAside DEF Coupons
<1>7. ASSUME NEW r \in Request, Finish(r) PROVE Coupons' /\ CouponKept'
  BY <1>6, <1>7 DEF Finish, AnswerWith, workVars, orderVars
<1>8. ASSUME NEW r \in Request, Die(r) \/ AbortDeadlock(r) PROVE Coupons' /\ CouponKept'
  <2>1. UNCHANGED <<orders, usages, uses>>
    BY <1>8 DEF Die, AbortDeadlock, orderVars
  <2>2. CASE Reject(r) /\ (pc[r] = "sent" \/ r \in Open)
    <3>1. r \notin orders
      BY <2>2 DEF Open, KeyInv, Stages
    <3> QED
      BY <1>2, <2>1, <2>2, <3>1
  <2>3. CASE /\ pc[r] = "committed" /\ pc' = [pc EXCEPT ![r] = "done"]
             /\ UNCHANGED <<req, workVars>>
    BY <1>6, <2>1, <2>3 DEF workVars
  <2>4. AbortDeadlock(r) => Reject(r) /\ r \in Open
    BY DEF AbortDeadlock
  <2> QED
    BY <1>8, <2>2, <2>3, <2>4 DEF Die
<1>9. ASSUME NEW r \in Request, NEW k \in Key, NEW q \in Quote, Send(r, k, q)
      PROVE  Coupons' /\ CouponKept'
  <2>1. r \notin orders /\ UNCHANGED <<orders, usages, uses, discount>>
    BY <1>9 DEF Send, KeyInv, Stages, workVars, orderVars
  <2>2. \A x \in Request : Holds(x)' => Holds(x) /\ req'[x] = req[x]
    BY <1>9 DEF Send, Holds, KeyInv, Stages, workVars
  <2> QED
    BY <2>1, <2>2, CouponAside DEF Coupons
<1>10. CASE \/ UNCHANGED vars
            \/ \E v \in Variant, p \in 0..MaxPrice : EditPrice(v, p)
            \/ \E u \in Account : UseCart(u)
            \/ \E u \in Owner, S \in Cart, withCoupon \in BOOLEAN : IssueQuote(u, S, withCoupon)
            \/ \E o \in Request : Age(o)
  <2>1. UNCHANGED <<pc, req, discount, orders, usages, uses>>
    BY <1>10, CartsApart DEF vars, EditPrice, IssueQuote, Age, requestVars,
                 workVars, orderVars
  <2> QED
    BY <1>1, <2>1
<1> QED
  BY <1>3, <1>4, <1>5, <1>7, <1>8, <1>9, <1>10, CouponAccepted DEF Next, Work

\* However many checkouts meet at its last use, a coupon stays within its
\* limits and is counted for exactly the orders it discounted.
THEOREM CouponIsKept == Spec => []CouponKept
<1>1. Init => Coupons /\ CouponKept
  BY CouponInit
<1>2. KeyInv /\ Coupons /\ CouponKept /\ [Next]_vars => Coupons' /\ CouponKept'
  BY CouponStep
<1> QED
  BY <1>1, <1>2, KeyInvariant, PTL DEF Spec

-----------------------------------------------------------------------------
(* How the discount of an order is divided over its brands.                *)

\* What is left to divide, and the parts given so far.
Left == [discount : Int, subtotal : Int, parts : Seq(Int)]
First(r) == [discount |-> discount[r], subtotal |-> Subtotal(r), parts |-> <<>>]

\* Whatever share rounding asks for, the bounded one fits the brand, what is left of
\* the discount, and leaves no more than the later brands can take.
LEMMA ShareBounds ==
    ASSUME NEW rest \in Nat, NEW left \in Nat, NEW sub \in Nat, NEW wish \in Int,
           rest <= left + sub
    PROVE  /\ Share(rest, left, sub, wish) \in 0..sub
           /\ rest - Share(rest, left, sub, wish) \in 0..left
BY DEF Share, Larger, Smaller

LEMMA ProportionalType ==
    ASSUME NEW d \in Int, NEW sub \in Int, NEW total \in Nat \ {0}
    PROVE  Proportional(d, sub, total) \in Int
<1>1. (d * sub) \in Int /\ ((d * sub) \div total) \in Int
  OBVIOUS
<1> QED
  BY <1>1 DEF Proportional, HalfEven

\* What a checkout orders has prices, and its discount is at most what it costs.
Priced(r) ==
    /\ IsFiniteSet(lines[r]) /\ lines[r] # {}
    /\ \A v \in lines[r] : charge[r][v] \in Nat \ {0}
    /\ discount[r] \in 0..Subtotal(r)

LEMMA SubtotalIsSum == \A r : Subtotal(r) = SumFunctionOnSet(charge[r], lines[r])
BY DEF Subtotal, MapThenSumSet, SumFunctionOnSet, FoldFunctionOnSet, MapThenFoldSet

OfBrand(r, s) == {v \in lines[r] : SellerOf[v] = s}

LEMMA BrandSubtotalIsSum ==
    \A r, s : BrandSubtotal(r, s) = SumFunctionOnSet(charge[r], OfBrand(r, s))
BY DEF BrandSubtotal, OfBrand, MapThenSumSet, SumFunctionOnSet, FoldFunctionOnSet, MapThenFoldSet

LEMMA SubtotalPositive ==
    ASSUME NEW r, Priced(r)
    PROVE  /\ Subtotal(r) \in Nat \ {0}
           /\ \A s : BrandSubtotal(r, s) \in Nat
<1>1. \A v \in lines[r] : charge[r][v] \in Nat
  BY DEF Priced
<1>2. PICK v \in lines[r] : TRUE
  BY DEF Priced
<1>3. IsFiniteSet(lines[r] \ {v}) /\ \A w \in lines[r] : charge[r][w] \in Int
  BY <1>1, FS_RemoveElement DEF Priced
<1>4. SumFunctionOnSet(charge[r], lines[r]) =
        charge[r][v] + SumFunctionOnSet(charge[r], lines[r] \ {v})
  BY <1>2, <1>3, SumRemove DEF Priced
<1>5. SumFunctionOnSet(charge[r], lines[r] \ {v}) \in Nat
  BY <1>1, <1>3, SumNat
<1>6. Subtotal(r) \in Nat \ {0}
  BY <1>2, <1>4, <1>5, SubtotalIsSum DEF Priced
<1>7. ASSUME NEW s PROVE BrandSubtotal(r, s) \in Nat
  <2>1. OfBrand(r, s) \in SUBSET lines[r] /\ IsFiniteSet(OfBrand(r, s))
    BY FS_Subset DEF OfBrand, Priced
  <2>2. SumFunctionOnSet(charge[r], OfBrand(r, s)) \in Nat
    BY <1>1, <2>1, SumNat
  <2> QED
    BY <2>2, BrandSubtotalIsSum
<1> QED
  BY <1>6, <1>7

\* One round of the loop stays within its types.
LEMMA AllocateType ==
    ASSUME NEW r, Priced(r), NEW left \in Left, NEW s
    PROVE  /\ AllocateBrand(r, left, s) \in Left
           /\ \E share \in Int :
                /\ AllocateBrand(r, left, s).discount = left.discount - share
                /\ AllocateBrand(r, left, s).subtotal = left.subtotal - BrandSubtotal(r, s)
                /\ AllocateBrand(r, left, s).parts =
                        Append(left.parts, BrandSubtotal(r, s) - share)
                /\ \E wish \in Int :
                      share = Share(left.discount, left.subtotal - BrandSubtotal(r, s),
                                    BrandSubtotal(r, s), wish)
<1> DEFINE sub == BrandSubtotal(r, s)
           wish == IF left.subtotal = sub THEN left.discount
                   ELSE Proportional(discount[r], sub, Subtotal(r))
           share == Share(left.discount, left.subtotal - sub, sub, wish)
<1>1. sub \in Nat /\ Subtotal(r) \in Nat \ {0} /\ discount[r] \in Nat
  BY SubtotalPositive DEF Priced
<1>2. left.discount \in Int /\ left.subtotal \in Int /\ left.parts \in Seq(Int)
  BY DEF Left
<1>3. AllocateBrand(r, left, s) =
        [discount |-> left.discount - share, subtotal |-> left.subtotal - sub,
         parts |-> Append(left.parts, sub - share)]
  BY DEF AllocateBrand
<1> HIDE DEF sub
<1>4. wish \in Int
  <2>1. Proportional(discount[r], sub, Subtotal(r)) \in Int
    <3>1. discount[r] \in Int /\ sub \in Int
      BY <1>1
    <3> QED
      BY <1>1, <3>1, ProportionalType
  <2> QED
    BY <1>2, <2>1
<1> HIDE DEF wish
<1>5. share \in Int
  BY <1>1, <1>2, <1>4 DEF Share, Larger, Smaller
<1>6. \E w \in Int : share = Share(left.discount, left.subtotal - sub, sub, w)
  BY <1>4
<1> HIDE DEF share
<1>7. AllocateBrand(r, left, s) \in Left
  <2>1. Append(left.parts, sub - share) \in Seq(Int)
    BY <1>1, <1>2, <1>5
  <2> QED
    BY <1>1, <1>2, <1>3, <1>5, <2>1 DEF Left
<1> QED
  BY <1>3, <1>5, <1>6, <1>7 DEF sub

\* While what is left of the discount fits what is left of the merchandise, so does
\* the share of the next brand.
LEMMA AllocateStep ==
    ASSUME NEW r, Priced(r), NEW left \in Left, NEW s,
           left.discount \in 0..left.subtotal, BrandSubtotal(r, s) <= left.subtotal
    PROVE  \E share \in 0..BrandSubtotal(r, s) :
              /\ AllocateBrand(r, left, s).discount = left.discount - share
              /\ left.discount - share \in 0..(left.subtotal - BrandSubtotal(r, s))
              /\ AllocateBrand(r, left, s).parts =
                      Append(left.parts, BrandSubtotal(r, s) - share)
              /\ AllocateBrand(r, left, s).subtotal = left.subtotal - BrandSubtotal(r, s)
<1> DEFINE sub == BrandSubtotal(r, s)
           next == AllocateBrand(r, left, s)
<1>1. /\ sub \in Nat /\ left.discount \in Nat /\ left.subtotal - sub \in Nat
      /\ left.discount <= (left.subtotal - sub) + sub
  BY SubtotalPositive DEF Left
<1>2. PICK share \in Int :
         /\ next.discount = left.discount - share
         /\ next.subtotal = left.subtotal - sub
         /\ next.parts = Append(left.parts, sub - share)
         /\ \E wish \in Int : share = Share(left.discount, left.subtotal - sub, sub, wish)
  BY AllocateType
<1>3. PICK wish \in Int : share = Share(left.discount, left.subtotal - sub, sub, wish)
  BY <1>2
<1> HIDE DEF sub, next
<1>4. share \in 0..sub /\ left.discount - share \in 0..(left.subtotal - sub)
  BY <1>1, <1>3, ShareBounds
<1> QED
  BY <1>2, <1>4 DEF sub, next

\* The sequence of the brands: each once, and none left out.
LEMMA BrandsInOrder ==
    ASSUME NEW T, IsFiniteSet(T), NEW seq \in SetToSeqs(T)
    PROVE  /\ Cardinality(T) \in Nat
           /\ seq \in [1..Cardinality(T) -> T]
           /\ \A i, j \in 1..Cardinality(T) : i # j => seq[i] # seq[j]
           /\ \A x \in T : \E i \in 1..Cardinality(T) : seq[i] = x
<1>1. /\ Cardinality(T) \in Nat /\ seq \in [1..Cardinality(T) -> T]
      /\ \A i, j \in 1..Cardinality(T) : i # j => seq[i] # seq[j]
  BY FS_CardinalityType DEF SetToSeqs
<1> DEFINE D == 1..Cardinality(T)
<1>2. IsFiniteSet(D) /\ Cardinality(D) = Cardinality(T)
  BY <1>1, FS_Interval
<1>3. seq \in Injection(D, T)
  BY <1>1 DEF Injection, IsInjective
<1>4. seq \in Surjection(D, T)
  BY <1>2, <1>3, FS_Injection
<1> QED
  BY <1>1, <1>4 DEF Surjection

\* What is left after each of the n rounds of the loop.
Rounds(r, seq, n) ==
    {g \in [0..n -> Left] :
        /\ g[0] = First(r)
        /\ \A k \in 1..n : g[k] = AllocateBrand(r, g[k - 1], seq[k])
        /\ Parts(r, seq) = g[n].parts}

\* The loop over the brands is a recursion over how many it has done.
LEMMA AllocationFold ==
    ASSUME NEW r, NEW seq, Priced(r), NEW n \in Nat, DOMAIN seq = 1..n
    PROVE  Rounds(r, seq, n) # {}
<1> DEFINE S == 1..n
           last(T) == CHOOSE x \in T : \A y \in T : x >= y
           pick == [T \in SUBSET S |-> last(T)]
           F == [i \in S |-> [left \in Left |-> AllocateBrand(r, left, seq[i])]]
           Of == Folding(S, Left, First(r), pick, F)
           Rec(h) == h = [T \in SUBSET S |-> IF T = {} THEN First(r)
                             ELSE AllocateBrand(r, h[T \ {last(T)}], seq[last(T)])]
<1>0. IsFiniteSet(S)
  BY FS_Interval
<1>1. ASSUME NEW T \in SUBSET S, T # {}
      PROVE  last(T) \in T /\ \A y \in T : last(T) >= y
  <2>1. \E x \in T : \A y \in T : x >= y
    BY <1>1, LargestExists
  <2> QED
    BY <2>1
<1>2. F \in [S -> [Left -> Left]] /\ Picks(pick, S) /\ First(r) \in Left
  <2>1. \A left \in Left, i \in S : AllocateBrand(r, left, seq[i]) \in Left
    BY AllocateType
  <2>2. First(r) \in Left
    BY SubtotalPositive DEF First, Left, Priced
  <2>3. Picks(pick, S)
    <3> HIDE DEF last
    <3> QED
      BY <1>1 DEF Picks
  <2> HIDE DEF Left
  <2> QED
    BY <2>1, <2>2, <2>3
<1>3. PICK f \in Of : TRUE
  <2> HIDE DEF F, pick, S
  <2> QED
    BY <1>0, <1>2, FoldingExists
<1>4. Rec(f)
  <2>1. ASSUME NEW T \in SUBSET S, T # {}
        PROVE  /\ F[pick[T]][f[T \ {pick[T]}]]
                    = AllocateBrand(r, f[T \ {last(T)}], seq[last(T)])
    <3>1. pick[T] = last(T) /\ last(T) \in S /\ f[T \ {last(T)}] \in Left
      BY <1>1, <2>1, <1>3 DEF Folding
    <3> HIDE DEF pick, last, Left
    <3> QED
      BY <3>1
  <2> HIDE DEF F, pick, last, S
  <2> QED
    BY <1>3, <2>1 DEF Folding
<1> DEFINE h == CHOOSE h : Rec(h)
<1>5. Rec(h)
  <2> HIDE DEF Rec
  <2> QED
    BY <1>4
<1>6. \A T \in SUBSET S : h[T] = f[T]
  <2> HIDE DEF h
  <2>1. ASSUME NEW T \in SUBSET S
        PROVE  /\ T = {} => h[T] = First(r)
               /\ T # {} /\ h[T \ {pick[T]}] \in Left =>
                     h[T] = F[pick[T]][h[T \ {pick[T]}]]
    <3>1. CASE T = {}
      <4> HIDE DEF last
      <4> QED
        BY <1>5, <3>1
    <3>2. CASE T # {}
      <4>1. pick[T] = last(T) /\ last(T) \in S
        BY <1>1, <3>2
      <4>2. h[T] = AllocateBrand(r, h[T \ {last(T)}], seq[last(T)])
        <5> HIDE DEF last
        <5> QED
          BY <1>5, <3>2
      <4> HIDE DEF last, pick, Left, Rec
      <4> QED
        BY <4>1, <4>2, <3>2
    <3> QED
      BY <3>1, <3>2
  <2>2. Follows(h, S, Left, First(r), pick, F)
    <3> HIDE DEF F, pick, S, Rec, Left, last, Of
    <3> QED
      BY <2>1 DEF Follows
  <2>3. f \in Folding(S, Left, First(r), pick, F)
    OBVIOUS
  <2> HIDE DEF F, pick, S, Rec, Left, last, Of
  <2>4. Picks(pick, S)
    BY <1>2
  <2> QED
    BY <1>0, <2>2, <2>3, <2>4, FoldingAgrees
<1>7. Parts(r, seq) = h[S].parts
  BY DEF Parts, FoldLeft, MapThenFoldSet, Max, First
<1> DEFINE g == [k \in 0..n |-> f[1..k]]
<1>8. \A k \in 0..n : 1..k \in SUBSET S /\ g[k] = f[1..k] /\ f[1..k] \in Left
  BY <1>3 DEF Folding
<1>9. ASSUME NEW k \in 1..n
      PROVE  g[k] = AllocateBrand(r, g[k - 1], seq[k])
  <2>0. k \in Nat /\ k <= n /\ k >= 1
    OBVIOUS
  <2>1. /\ 1..k \in SUBSET S /\ k \in 1..k /\ 1..k # {} /\ (1..k) \ {k} = 1..(k - 1)
        /\ k - 1 \in 0..n /\ k \in 0..n
    <3> HIDE DEF g, h, F, pick, last, Rec, Of
    <3>1. 1..k \in SUBSET S /\ k \in 1..k
      BY <2>0
    <3>2. (1..k) \ {k} = 1..(k - 1)
      BY <2>0
    <3>3. k - 1 \in 0..n /\ k \in 0..n
      BY <2>0
    <3> QED
      BY <3>1, <3>2, <3>3
  <2>2. last(1..k) = k
    <3>1. last(1..k) \in 1..k /\ \A y \in 1..k : last(1..k) >= y
      <4> HIDE DEF last, S
      <4> QED
        BY <1>1, <2>1
    <3> HIDE DEF last
    <3> QED
      BY <3>1
  <2>3. f[1..k] = AllocateBrand(r, f[1..(k - 1)], seq[k])
    <3> HIDE DEF last
    <3> QED
      BY <1>4, <2>1, <2>2
  <2> HIDE DEF g, Left
  <2> QED
    BY <1>8, <2>1, <2>3
<1>10. 1..0 = {} /\ f[{}] = First(r)
  <2>1. 1..0 = {}
    OBVIOUS
  <2> HIDE DEF F, pick
  <2> QED
    BY <1>3, <2>1 DEF Folding
<1> HIDE DEF h, Left, First
<1>11. Parts(r, seq) = g[n].parts
  BY <1>6, <1>7, <1>8
<1> HIDE DEF g
<1>12. g \in [0..n -> Left] /\ g[0] = First(r)
  BY <1>8, <1>10 DEF g
<1> QED
  BY <1>9, <1>11, <1>12 DEF Rounds

\* The parts of an order, allocated to its brands in any order: they add up to the
\* discounted order, and none is negative or above the brand's merchandise.
LEMMA Allocation ==
    ASSUME NEW r, Priced(r), NEW seq \in SetToSeqs({SellerOf[v] : v \in lines[r]})
    PROVE  /\ FoldSeq(+, 0, Parts(r, seq)) = Subtotal(r) - discount[r]
           /\ DOMAIN Parts(r, seq) = DOMAIN seq
           /\ \A i \in DOMAIN seq : Parts(r, seq)[i] \in 0..BrandSubtotal(r, seq[i])
<1> DEFINE T == {SellerOf[v] : v \in lines[r]}
           n == Cardinality(T)
<1>1. IsFiniteSet(T)
  BY FiniteImage DEF Priced
<1>2. /\ n \in Nat /\ DOMAIN seq = 1..n
      /\ \A i, j \in 1..n : i # j => seq[i] # seq[j]
      /\ \A v \in lines[r] : \E i \in 1..n : seq[i] = SellerOf[v]
  <2>1. \A v \in lines[r] : SellerOf[v] \in T
    OBVIOUS
  <2>2. seq \in SetToSeqs(T)
    OBVIOUS
  <2> HIDE DEF T
  <2> QED
    BY <1>1, <2>1, <2>2, BrandsInOrder
<1> HIDE DEF n, T
<1>4. PICK g \in Rounds(r, seq, n) : TRUE
  BY <1>2, AllocationFold
<1>5. /\ g \in [0..n -> Left] /\ g[0] = First(r)
      /\ \A k \in 1..n : g[k] = AllocateBrand(r, g[k - 1], seq[k])
      /\ Parts(r, seq) = g[n].parts
  BY <1>4 DEF Rounds
<1> DEFINE Rest(k) == {v \in lines[r] : \A i \in 1..k : SellerOf[v] # seq[i]}
           Given(k) == SumFunctionOnSet(g[k].parts, DOMAIN g[k].parts)
           Fits(k) ==
              /\ g[k].subtotal = SumFunctionOnSet(charge[r], Rest(k))
              /\ g[k].discount \in 0..g[k].subtotal
              /\ DOMAIN g[k].parts = 1..k
              /\ \A i \in 1..k : g[k].parts[i] \in 0..BrandSubtotal(r, seq[i])
              /\ Given(k) = (Subtotal(r) - g[k].subtotal) - (discount[r] - g[k].discount)
           Good == {k \in 0..n : Fits(k)}
<1>6. /\ Subtotal(r) \in Nat /\ discount[r] \in Nat
      /\ \A s : BrandSubtotal(r, s) \in Nat
      /\ \A v \in lines[r] : charge[r][v] \in Nat
  BY SubtotalPositive DEF Priced
<1>7. 0 \in Good
  <2>1. Rest(0) = lines[r]
    OBVIOUS
  <2>2. /\ g[0].discount = discount[r] /\ g[0].subtotal = Subtotal(r) /\ g[0].parts = <<>>
        /\ discount[r] \in 0..Subtotal(r)
    BY <1>5 DEF First, Priced
  <2>3. DOMAIN g[0].parts = {} /\ 1..0 = {}
    BY <2>2
  <2>4. Given(0) = 0
    BY <2>3, SumEmpty
  <2>5. g[0].subtotal = SumFunctionOnSet(charge[r], Rest(0))
    BY <2>1, <2>2, SubtotalIsSum
  <2>6. 0 \in 0..n
    BY <1>2
  <2> HIDE DEF Rest, Given
  <2> QED
    BY <1>6, <2>2, <2>3, <2>4, <2>5, <2>6
<1>8. ASSUME NEW k \in 1..n, k - 1 \in Good
      PROVE  k \in Good
  <2> DEFINE s == seq[k]
             left == g[k - 1]
             sub == BrandSubtotal(r, s)
  <2>0. k \in Nat /\ k >= 1 /\ k - 1 \in 0..n /\ k \in 0..n /\ (k - 1) + 1 = k
    BY <1>2
  <2>1. left \in Left /\ g[k] = AllocateBrand(r, left, s) /\ Fits(k - 1)
    BY <1>5, <1>8, <2>0
  <2>2. left.subtotal = sub + SumFunctionOnSet(charge[r], Rest(k))
    <3>1. Rest(k - 1) = OfBrand(r, s) \cup Rest(k) /\ OfBrand(r, s) \cap Rest(k) = {}
      <4>1. \A i \in 1..k : i = k \/ i \in 1..(k - 1)
        BY <2>0
      <4>2. \A i \in 1..(k - 1) : i \in 1..k /\ seq[i] # seq[k]
        BY <1>2, <2>0
      <4>3. k \in 1..k
        BY <2>0
      <4> QED
        BY <4>1, <4>2, <4>3 DEF OfBrand
    <3>2. /\ IsFiniteSet(OfBrand(r, s)) /\ IsFiniteSet(Rest(k))
          /\ \A v \in OfBrand(r, s) \cup Rest(k) : charge[r][v] \in Int
      BY <1>6, FS_Subset DEF OfBrand, Priced
    <3>3. SumFunctionOnSet(charge[r], Rest(k - 1)) =
             SumFunctionOnSet(charge[r], OfBrand(r, s)) + SumFunctionOnSet(charge[r], Rest(k))
      <4> HIDE DEF Rest
      <4> QED
        BY <3>1, <3>2, SumUnion
    <3> QED
      BY <2>1, <3>3, BrandSubtotalIsSum
  <2>3. SumFunctionOnSet(charge[r], Rest(k)) \in Nat
    <3>1. IsFiniteSet(Rest(k)) /\ \A v \in Rest(k) : charge[r][v] \in Nat
      BY <1>6, FS_Subset DEF Priced
    <3> HIDE DEF Rest
    <3> QED
      BY <3>1, SumNat
  <2>4. sub \in Nat
    BY <1>6
  <2>5. /\ left.discount \in 0..left.subtotal /\ sub <= left.subtotal
        /\ left.subtotal \in Int /\ left.discount \in Int /\ left.parts \in Seq(Int)
    <3>1. left.subtotal \in Int /\ left.discount \in Int /\ left.parts \in Seq(Int)
      BY <2>1 DEF Left
    <3> HIDE DEF left, sub, Rest
    <3>2. sub <= left.subtotal
      BY <2>2, <2>3, <2>4, <3>1
    <3> QED
      BY <2>1, <3>1, <3>2 DEF left
  <2>6. PICK share \in 0..sub :
          /\ g[k].discount = left.discount - share
          /\ left.discount - share \in 0..(left.subtotal - sub)
          /\ g[k].parts = Append(left.parts, sub - share)
          /\ g[k].subtotal = left.subtotal - sub
    <3> DEFINE next == AllocateBrand(r, left, s)
    <3>1. \E share \in 0..sub :
             /\ next.discount = left.discount - share
             /\ left.discount - share \in 0..(left.subtotal - sub)
             /\ next.parts = Append(left.parts, sub - share)
             /\ next.subtotal = left.subtotal - sub
      <4> HIDE DEF Fits, left, Rest, s
      <4> QED
        BY <2>1, <2>5, AllocateStep
    <3>2. g[k] = next
      BY <2>1
    <3> HIDE DEF Fits, left, Rest, s, next
    <3> QED
      BY <3>1, <3>2
  <2>7. g[k].subtotal = SumFunctionOnSet(charge[r], Rest(k))
    <3> HIDE DEF Fits, left, sub, Rest
    <3> QED
      BY <2>2, <2>3, <2>4, <2>5, <2>6
  <2>8. g[k].discount \in 0..g[k].subtotal
    BY <2>6
  <2>9. /\ DOMAIN g[k].parts = 1..k
        /\ \A i \in 1..k : g[k].parts[i] \in 0..BrandSubtotal(r, seq[i])
    <3>1. /\ DOMAIN left.parts = 1..(k - 1)
          /\ \A i \in 1..(k - 1) : left.parts[i] \in 0..BrandSubtotal(r, seq[i])
      BY <2>1
    <3>2. Len(left.parts) = k - 1
      BY <2>0, <2>5, <3>1
    <3>3. sub - share \in 0..sub /\ sub - share \in Int
      BY <2>4, <2>6
    <3> HIDE DEF Fits, left, Given, Rest
    <3>4. /\ DOMAIN g[k].parts = 1..k /\ g[k].parts[k] = sub - share
          /\ \A i \in 1..(k - 1) : g[k].parts[i] = left.parts[i]
      BY <2>0, <2>5, <2>6, <3>2, <3>3
    <3> QED
      BY <2>0, <3>1, <3>3, <3>4
  <2>10. Given(k) = Given(k - 1) + (sub - share)
    <3>1. sub - share \in Int
      BY <2>4, <2>6
    <3> HIDE DEF Fits
    <3> QED
      BY <2>5, <2>6, <3>1, SumAppend
  <2>11. Given(k) = (Subtotal(r) - g[k].subtotal) - (discount[r] - g[k].discount)
    <3>1. Given(k - 1) = (Subtotal(r) - left.subtotal) - (discount[r] - left.discount)
      BY <2>1
    <3>2. /\ g[k].subtotal = left.subtotal - sub /\ g[k].discount = left.discount - share
          /\ share \in Int /\ sub \in Int
      BY <2>4, <2>6
    <3>3. /\ Subtotal(r) \in Int /\ discount[r] \in Int
          /\ left.subtotal \in Int /\ left.discount \in Int
      BY <1>6, <2>5
    <3> HIDE DEF Fits, left, sub, Rest, Given
    <3> QED
      BY <2>10, <3>1, <3>2, <3>3
  <2> HIDE DEF Given, Rest, sub, left
  <2> QED
    BY <2>0, <2>7, <2>8, <2>9, <2>11
<1>9. Fits(n)
  <2> HIDE DEF Good
  <2>1. \A k \in 0..n : k \in Good
    BY <1>2, <1>7, <1>8, InductionUpTo
  <2>2. n \in 0..n
    BY <1>2
  <2> QED
    BY <2>1, <2>2 DEF Good
<1>10. g[n].subtotal = 0 /\ g[n].discount = 0
  <2>1. Rest(n) = {}
    BY <1>2
  <2>2. SumFunctionOnSet(charge[r], Rest(n)) = 0
    BY <2>1, SumEmpty
  <2> HIDE DEF Rest, Given
  <2> QED
    BY <1>9, <2>2
<1> DEFINE total == FoldSeq(+, 0, Parts(r, seq))
<1>11. total = Given(n)
  BY <1>5 DEF FoldSeq, FoldFunction, SumFunctionOnSet, FoldFunctionOnSet, MapThenFoldSet
<1> HIDE DEF Given, Rest, total
<1>12. total = Subtotal(r) - discount[r]
  <2>1. Given(n) = (Subtotal(r) - g[n].subtotal) - (discount[r] - g[n].discount)
    BY <1>9
  <2>2. Subtotal(r) \in Int /\ discount[r] \in Int
    BY <1>6
  <2> HIDE DEF Fits, Good
  <2> QED
    BY <1>10, <1>11, <2>1, <2>2
<1>13. /\ DOMAIN Parts(r, seq) = DOMAIN seq
       /\ \A i \in DOMAIN seq : Parts(r, seq)[i] \in 0..BrandSubtotal(r, seq[i])
  BY <1>2, <1>5, <1>9
<1> QED
  BY <1>12, <1>13 DEF total

-----------------------------------------------------------------------------
(* What an order costs.                                                    *)

\* Prices, carts and the rows of the requests have their types.
ShopTypes ==
    /\ price \in [Variant -> Nat]
    /\ cart \in [Account -> Cart]
    /\ DOMAIN lines = Request /\ DOMAIN charge = Request /\ DOMAIN discount = Request

\* What the request has read: variants with prices.
HasRead(r) ==
    /\ lines[r] \in Cart /\ lines[r] # {}
    /\ \A v \in lines[r] : charge[r][v] \in Nat \ {0}

\* What the request was accepted with: exactly what its quote says.
Agreed(r) ==
    /\ lines[r] = quotes[req[r].quote].lines
    /\ charge[r] = quotes[req[r].quote].price
    /\ discount[r] = quotes[req[r].quote].discount
    /\ discount[r] \in 0..SumFunctionOnSet(charge[r], lines[r])

Bound(r) ==
    /\ pc[r] \in {"priced", "accepted"} \/ r \in orders => HasRead(r)
    /\ pc[r] = "accepted" \/ r \in orders => Agreed(r)

QuoteInv == ShopTypes /\ \A r \in Request : Bound(r)

LEMMA QuoteInit == Init => QuoteInv
<1> SUFFICES ASSUME Init PROVE QuoteInv
  OBVIOUS
<1>1. ShopTypes
  BY ShopAssumption DEF Init, ShopTypes, Cart
<1>2. \A r \in Request : pc[r] = "idle" /\ r \notin orders
  BY DEF Init
<1> QED
  BY <1>1, <1>2 DEF QuoteInv, Bound

\* The types are kept by every step.
LEMMA ShopStep ==
    ASSUME KeyInv, ShopTypes, [Next]_vars
    PROVE  ShopTypes'
<1>1. price' \in [Variant -> Nat]
  <2>1. \/ UNCHANGED price
        \/ \E v \in Variant, p \in 0..MaxPrice : EditPrice(v, p)
    BY CartsApart DEF Next, Work, IssueQuote, Age, Send, Begin, CheckQuote, Prepare, Accept,
           ReserveLine, Commit, Finish, Die, AbortDeadlock, vars, shopVars
  <2> QED
    BY <2>1, CheckoutAssumption DEF EditPrice, ShopTypes
<1>2. cart' \in [Account -> Cart]
  <2>1. \/ UNCHANGED cart
        \/ \E u \in Account : UseCart(u)
        \/ \E r \in Request : Finish(r)
    BY DEF Next, Work, EditPrice, IssueQuote, Age, Send, Begin, CheckQuote, Prepare, Accept,
           ReserveLine, Commit, Die, AbortDeadlock, vars, shopVars
  <2>2. ASSUME NEW u \in Account, UseCart(u) PROVE cart' \in [Account -> Cart]
    BY <2>2 DEF UseCart, ReadCart, AddToCart, RemoveFromCart, SyncCart, ShopTypes, Cart
  <2>3. ASSUME NEW r \in Request, Finish(r) PROVE cart' \in [Account -> Cart]
    BY <2>3 DEF Finish, ShopTypes, Cart
  <2> QED
    BY <2>1, <2>2, <2>3 DEF ShopTypes
<1>3. DOMAIN lines' = Request /\ DOMAIN charge' = Request /\ DOMAIN discount' = Request
  <2>1. ASSUME NEW r \in Request, Reject(r)
        PROVE  DOMAIN lines' = Request /\ DOMAIN charge' = Request /\ DOMAIN discount' = Request
    BY <2>1 DEF Reject, ShopTypes
  <2>2. \/ UNCHANGED <<lines, charge, discount>>
        \/ \E r \in Request : Reject(r) \/ Prepare(r) \/ Accept(r)
    BY CartsApart DEF Next, Work, EditPrice, IssueQuote, Age, Send, Begin, CheckQuote,
           ReserveLine, Commit, Finish, Die, AbortDeadlock, vars, workVars
  <2>3. ASSUME NEW r \in Request, Prepare(r) \/ Accept(r), ~Reject(r)
        PROVE  DOMAIN lines' = Request /\ DOMAIN charge' = Request /\ DOMAIN discount' = Request
    BY <2>3 DEF Prepare, Accept, ShopTypes
  <2> QED
    BY <2>1, <2>2, <2>3 DEF ShopTypes
<1> QED
  BY <1>1, <1>2, <1>3 DEF ShopTypes

\* Who keeps key, quote and what was read stays bound as before.
LEMMA BoundStays ==
    ASSUME KeyInv, [Next]_vars, NEW p \in Request, Bound(p),
           pc[p] \in Working \/ p \in orders,
           req'[p] = req[p], lines'[p] = lines[p], charge'[p] = charge[p],
           discount'[p] = discount[p],
           pc'[p] \in {"priced", "accepted"} => pc'[p] = pc[p],
           p \in orders' => p \in orders \/ pc[p] = "accepted"
    PROVE  Bound(p)'
<1>1. quotes'[req'[p].quote] = quotes[req[p].quote]
  BY QuotesStay DEF KeyInv, Stages
<1> QED
  BY <1>1 DEF Bound, HasRead, Agreed

\* Who is not working is not bound.
LEMMA Unbound ==
    ASSUME NEW p \in Request, p \notin orders', pc'[p] \notin {"priced", "accepted"}
    PROVE  Bound(p)'
BY DEF Bound

\* Reading the prices: variants that are for sale.
LEMMA PrepareBinds ==
    ASSUME KeyInv, QuoteInv, NEW r \in Request, Prepare(r), ~Reject(r)
    PROVE  Bound(r)'
<1> DEFINE u == OwnerOf(r)
           S == IF u = Guest THEN quotes[req[r].quote].lines ELSE cart[u]
<1>1. /\ pc[r] = "begun" /\ S # {} /\ Sellable(S)
      /\ lines' = [lines EXCEPT ![r] = S]
      /\ charge' = [charge EXCEPT ![r] = [v \in Variant |-> IF v \in S THEN price[v] ELSE 0]]
      /\ pc' = [pc EXCEPT ![r] = "priced"] /\ UNCHANGED orders
  BY DEF Prepare, Proceed, orderVars
<1>2. req[r].quote \in DOMAIN quotes /\ r \notin orders
  BY <1>1 DEF KeyInv, Stages, Working
<1>3. S \in Cart
  <2>1. quotes[req[r].quote].lines \in Cart /\ u \in Owner
    BY <1>2 DEF KeyInv, QuoteBook, OwnerOf
  <2>2. u # Guest => cart[u] \in Cart
    BY <2>1 DEF Owner, QuoteInv, ShopTypes
  <2> QED
    BY <2>1, <2>2
<1>4. \A v \in S : v \in Variant /\ price[v] \in Nat \ {0}
  <2>1. \A v \in S : v \in Variant /\ price[v] > 0
    BY <1>1, <1>3 DEF Sellable, Cart
  <2> HIDE DEF S
  <2> QED
    BY <2>1 DEF QuoteInv, ShopTypes
<1> HIDE DEF S
<1>5. /\ lines'[r] = S /\ pc'[r] = "priced" /\ r \notin orders'
      /\ \A v \in S : charge'[r][v] = price[v]
  BY <1>1, <1>2, <1>4 DEF QuoteInv, ShopTypes, KeyInv, Stages
<1> QED
  BY <1>1, <1>3, <1>4, <1>5 DEF Bound, HasRead

\* Accepting a request: its lines, prices and discount are those of the quote.
LEMMA AcceptBinds ==
    ASSUME KeyInv, QuoteInv, NEW r \in Request, Accept(r), ~Reject(r)
    PROVE  Bound(r)'
<1> DEFINE withCoupon == quotes[req[r].quote].discount > 0
           d == IF withCoupon THEN CouponDiscount(Subtotal(r)) ELSE 0
<1>1. /\ pc[r] = "priced" /\ MatchesQuote(r, d)
      /\ discount' = [discount EXCEPT ![r] = d]
      /\ pc' = [pc EXCEPT ![r] = "accepted"]
      /\ UNCHANGED <<req, lines, charge, quotes, orders>>
  BY DEF Accept, Proceed, orderVars
<1>2. HasRead(r) /\ r \notin orders
  BY <1>1 DEF QuoteInv, Bound, KeyInv, Stages
<1>3. Subtotal(r) \in Nat
  <2>1. IsFiniteSet(lines[r]) /\ \A v \in lines[r] : charge[r][v] \in Nat
    BY <1>2, ShopAssumption, FS_Subset DEF HasRead, Cart
  <2> QED
    BY <2>1, SumNat, SubtotalIsSum
<1>4. d \in 0..Subtotal(r)
  BY <1>3, CheckoutAssumption DEF CouponDiscount, Smaller
<1>5. d \in 0..SumFunctionOnSet(charge[r], lines[r])
  <2> HIDE DEF d
  <2> QED
    BY <1>4, SubtotalIsSum
<1> HIDE DEF d
<1>6. /\ discount'[r] = d /\ pc'[r] = "accepted" /\ r \notin orders'
      /\ lines[r] = quotes[req[r].quote].lines /\ charge[r] = quotes[req[r].quote].price
      /\ d = quotes[req[r].quote].discount
  BY <1>1, <1>2 DEF QuoteInv, ShopTypes, KeyInv, Stages, MatchesQuote
<1> QED
  BY <1>1, <1>2, <1>5, <1>6 DEF Bound, HasRead, Agreed

\* Every step keeps the orders what their quotes said.
LEMMA QuoteStep ==
    ASSUME KeyInv, QuoteInv, [Next]_vars
    PROVE  QuoteInv'
<1>0. ShopTypes' /\ KeyInv'
  BY ShopStep, KeyStep DEF QuoteInv
<1> SUFFICES ASSUME NEW p \in Request PROVE Bound(p)'
  BY <1>0 DEF QuoteInv
<1>1. Bound(p) /\ ShopTypes
  BY DEF QuoteInv
<1>2. ASSUME pc[p] \notin Working, p \notin orders, p \notin orders', pc'[p] = pc[p]
      PROVE  Bound(p)'
  BY <1>2, Unbound DEF Working
<1>3. ASSUME UNCHANGED <<pc, req, lines, charge, discount, orders>>
      PROVE  Bound(p)'
  BY <1>1, <1>2, <1>3, BoundStays
<1>4. ASSUME NEW r \in Request, Reject(r), UNCHANGED orders, r \notin orders
      PROVE  Bound(p)'
  <2>1. CASE p = r
    BY <1>4, <2>1, Unbound DEF Reject, KeyInv, Stages
  <2>2. CASE p # r
    <3>1. /\ pc'[p] = pc[p] /\ req'[p] = req[p] /\ lines'[p] = lines[p]
          /\ charge'[p] = charge[p] /\ discount'[p] = discount[p]
      BY <1>4, <2>2 DEF Reject
    <3> QED
      BY <1>1, <1>2, <1>4, <3>1, BoundStays
  <2> QED
    BY <2>1, <2>2
<1>5. ASSUME NEW r \in Request, p # r, UNCHANGED req,
             \E step : pc' = [pc EXCEPT ![r] = step],
             lines'[p] = lines[p], charge'[p] = charge[p], discount'[p] = discount[p],
             orders' \subseteq orders \union {r}
      PROVE  Bound(p)'
  BY <1>1, <1>2, <1>5, BoundStays
<1>6. ASSUME NEW r \in Request, Begin(r) PROVE Bound(p)'
  <2>1. UNCHANGED orders /\ r \notin orders /\ pc[r] = "sent"
    BY <1>6 DEF Begin, orderVars, KeyInv, Stages
  <2>2. CASE Reject(r)
    BY <1>4, <2>1, <2>2
  <2>3. CASE ~Reject(r)
    <3>1. UNCHANGED <<req, lines, charge, discount>>
          /\ \E step \in {"begun", "done"} : pc' = [pc EXCEPT ![r] = step]
      BY <1>6, <2>3 DEF Begin, CheckQuote, AnswerWith, Proceed, workVars
    <3>2. CASE p = r
      BY <2>1, <3>1, <3>2, Unbound DEF KeyInv, Stages
    <3> QED
      BY <1>5, <2>1, <3>1, <3>2
  <2> QED
    BY <2>2, <2>3
<1>7. ASSUME NEW r \in Request, Prepare(r) PROVE Bound(p)'
  <2>1. UNCHANGED orders /\ r \notin orders
    BY <1>7 DEF Prepare, orderVars, KeyInv, Stages
  <2>2. CASE Reject(r)
    BY <1>4, <2>1, <2>2
  <2>3. CASE ~Reject(r) /\ p = r
    BY <1>7, <2>3, PrepareBinds
  <2>4. CASE ~Reject(r) /\ p # r
    <3> DEFINE S == IF OwnerOf(r) = Guest THEN quotes[req[r].quote].lines ELSE cart[OwnerOf(r)]
               c == [v \in Variant |-> IF v \in S THEN price[v] ELSE 0]
    <3>2. /\ UNCHANGED <<req, discount>> /\ pc' = [pc EXCEPT ![r] = "priced"]
          /\ lines' = [lines EXCEPT ![r] = S] /\ charge' = [charge EXCEPT ![r] = c]
      BY <1>7, <2>4 DEF Prepare, Proceed
    <3> HIDE DEF S, c
    <3>1. lines'[p] = lines[p] /\ charge'[p] = charge[p] /\ discount'[p] = discount[p]
      BY <1>1, <2>4, <3>2 DEF ShopTypes
    <3> QED
      BY <1>5, <2>1, <2>4, <3>1, <3>2
  <2> QED
    BY <2>2, <2>3, <2>4
<1>8. ASSUME NEW r \in Request, Accept(r) PROVE Bound(p)'
  <2>1. UNCHANGED orders /\ r \notin orders
    BY <1>8 DEF Accept, orderVars, KeyInv, Stages
  <2>2. CASE Reject(r)
    BY <1>4, <2>1, <2>2
  <2>3. CASE ~Reject(r) /\ p = r
    BY <1>8, <2>3, AcceptBinds
  <2>4. CASE ~Reject(r) /\ p # r
    <3> DEFINE d == IF quotes[req[r].quote].discount > 0
                      THEN CouponDiscount(Subtotal(r)) ELSE 0
    <3>2. /\ UNCHANGED <<req, lines, charge>> /\ pc' = [pc EXCEPT ![r] = "accepted"]
          /\ discount' = [discount EXCEPT ![r] = d]
      BY <1>8, <2>4 DEF Accept, Proceed
    <3> HIDE DEF d
    <3>1. lines'[p] = lines[p] /\ charge'[p] = charge[p] /\ discount'[p] = discount[p]
      BY <1>1, <2>4, <3>2 DEF ShopTypes
    <3> QED
      BY <1>5, <2>1, <2>4, <3>1, <3>2
  <2> QED
    BY <2>2, <2>3, <2>4
<1>9. ASSUME NEW r \in Request, NEW v \in Variant, ReserveLine(r, v) PROVE Bound(p)'
  <2>1. UNCHANGED orders /\ r \notin orders
    BY <1>9 DEF ReserveLine, orderVars, KeyInv, Stages
  <2>2. Reject(r) \/ UNCHANGED <<lines, charge, discount, requestVars>>
    BY <1>9 DEF ReserveLine
  <2> QED
    BY <1>3, <1>4, <2>1, <2>2 DEF requestVars
<1>10. ASSUME NEW r \in Request, Commit(r) PROVE Bound(p)'
  <2>1. r \notin orders /\ pc[r] = "accepted"
    BY <1>10 DEF Commit, KeyInv, Stages
  <2>2. CASE Found(SlotOf(r)) # {}
    BY <1>4, <1>10, <2>1, <2>2 DEF Commit, orderVars
  <2>3. CASE Found(SlotOf(r)) = {}
    <3>1. /\ UNCHANGED <<req, lines, charge, discount>> /\ orders' = orders \union {r}
          /\ pc' = [pc EXCEPT ![r] = "committed"]
      BY <1>10, <2>3 DEF Commit, Proceed
    <3>2. CASE p = r
      <4>1. pc'[p] = "committed"
        BY <3>1, <3>2 DEF KeyInv, Stages
      <4> QED
        BY <1>1, <2>1, <3>1, <3>2, <4>1, BoundStays DEF Working
    <3> QED
      BY <1>5, <3>1, <3>2
  <2> QED
    BY <2>2, <2>3
<1>11. ASSUME NEW r \in Request, pc[r] = "committed", pc' = [pc EXCEPT ![r] = "done"],
              UNCHANGED <<req, workVars, orders>>
       PROVE  Bound(p)'
  <2>1. UNCHANGED <<lines, charge, discount>>
    BY <1>11 DEF workVars
  <2>2. CASE p = r
    <3>1. pc'[p] = "done"
      BY <1>11, <2>2 DEF KeyInv, Stages
    <3> QED
      BY <1>1, <1>11, <2>1, <2>2, <3>1, BoundStays DEF Working
  <2> QED
    BY <1>5, <1>11, <2>1, <2>2
<1>12. ASSUME NEW r \in Request, Finish(r) PROVE Bound(p)'
  BY <1>11, <1>12 DEF Finish, AnswerWith, orderVars
<1>13. ASSUME NEW r \in Request, Die(r) \/ AbortDeadlock(r) PROVE Bound(p)'
  <2>1. UNCHANGED orders
    BY <1>13 DEF Die, AbortDeadlock, orderVars
  <2>2. CASE Reject(r) /\ (pc[r] = "sent" \/ r \in Open)
    <3>1. r \notin orders
      BY <2>2 DEF Open, KeyInv, Stages
    <3> QED
      BY <1>4, <2>1, <2>2, <3>1
  <2>3. CASE /\ pc[r] = "committed" /\ pc' = [pc EXCEPT ![r] = "done"]
             /\ UNCHANGED <<req, workVars>>
    BY <1>11, <2>1, <2>3
  <2>4. AbortDeadlock(r) => Reject(r) /\ r \in Open
    BY DEF AbortDeadlock
  <2> QED
    BY <1>13, <2>2, <2>3, <2>4 DEF Die
<1>14. ASSUME NEW r \in Request, NEW k \in Key, NEW q \in Quote, Send(r, k, q)
       PROVE  Bound(p)'
  <2>1. /\ UNCHANGED <<orders, lines, charge, discount>> /\ pc[r] = "idle" /\ r \notin orders
        /\ pc' = [pc EXCEPT ![r] = "sent"]
        /\ req' = [req EXCEPT ![r] = [key |-> k, quote |-> q]]
    BY <1>14 DEF Send, workVars, orderVars, KeyInv, Stages
  <2>2. CASE p = r
    BY <2>1, <2>2, Unbound DEF KeyInv, Stages
  <2>3. CASE p # r
    <3>1. pc'[p] = pc[p] /\ req'[p] = req[p]
      BY <2>1, <2>3
    <3> QED
      BY <1>1, <1>2, <2>1, <3>1, BoundStays
  <2> QED
    BY <2>2, <2>3
<1>15. CASE \/ UNCHANGED vars
            \/ \E v \in Variant, x \in 0..MaxPrice : EditPrice(v, x)
            \/ \E u \in Account : UseCart(u)
            \/ \E u \in Owner, S \in Cart, withCoupon \in BOOLEAN : IssueQuote(u, S, withCoupon)
            \/ \E o \in Request : Age(o)
  <2>1. UNCHANGED <<pc, req, lines, charge, discount, orders>>
    BY <1>15, CartsApart DEF vars, EditPrice, IssueQuote, Age, requestVars,
                 workVars, orderVars
  <2> QED
    BY <1>3, <2>1
<1> QED
  BY <1>6, <1>7, <1>8, <1>9, <1>10, <1>12, <1>13, <1>14, <1>15 DEF Next, Work

\* What a committed order costs was read before it was accepted.
LEMMA OrdersPriced ==
    ASSUME QuoteInv, KeyInv, NEW r \in orders
    PROVE  Priced(r) /\ Agreed(r)
<1>1. r \in Request /\ HasRead(r) /\ Agreed(r)
  BY DEF QuoteInv, Bound, KeyInv, Stages
<1>2. IsFiniteSet(lines[r])
  BY <1>1, ShopAssumption, FS_Subset DEF HasRead, Cart
<1> QED
  BY <1>1, <1>2, SubtotalIsSum DEF Priced, HasRead, Agreed

\* Orders cost what their quotes said, however prices, carts and the coupon changed
\* meanwhile, and their brands are charged exactly that together.
THEOREM OrdersCostTheirQuote == Spec => []ChargedAsQuoted
<1>1. KeyInv /\ QuoteInv => ChargedAsQuoted
  <2> SUFFICES ASSUME KeyInv, QuoteInv, NEW r \in orders
               PROVE  LET quote == quotes[req[r].quote]
                          asked == MapThenSumSet(LAMBDA v : quote.price[v], quote.lines)
                                      - quote.discount
                      IN  /\ lines[r] = quote.lines
                          /\ \A seq \in SetToSeqs({SellerOf[v] : v \in lines[r]}) :
                                /\ FoldSeq(+, 0, Parts(r, seq)) = asked
                                /\ \A i \in DOMAIN Parts(r, seq) : Parts(r, seq)[i] >= 0
    BY DEF ChargedAsQuoted
  <2> DEFINE quote == quotes[req[r].quote]
             sum == MapThenSumSet(LAMBDA v : quote.price[v], quote.lines)
  <2>1. Priced(r) /\ Agreed(r)
    BY OrdersPriced
  <2>2. sum = SumFunctionOnSet(quote.price, quote.lines)
    BY DEF MapThenSumSet, SumFunctionOnSet, FoldFunctionOnSet, MapThenFoldSet
  <2>3. sum - quote.discount = Subtotal(r) - discount[r] /\ lines[r] = quote.lines
    <3> HIDE DEF sum
    <3> QED
      BY <2>1, <2>2, SubtotalIsSum DEF Agreed
  <2>4. ASSUME NEW seq \in SetToSeqs({SellerOf[v] : v \in lines[r]})
        PROVE  /\ FoldSeq(+, 0, Parts(r, seq)) = sum - quote.discount
               /\ \A i \in DOMAIN Parts(r, seq) : Parts(r, seq)[i] >= 0
    <3> DEFINE total == FoldSeq(+, 0, Parts(r, seq))
    <3>1. /\ total = Subtotal(r) - discount[r]
          /\ DOMAIN Parts(r, seq) = DOMAIN seq
          /\ \A i \in DOMAIN seq : Parts(r, seq)[i] \in 0..BrandSubtotal(r, seq[i])
      BY <2>1, Allocation
    <3>2. \A s : BrandSubtotal(r, s) \in Nat
      BY <2>1, SubtotalPositive
    <3> HIDE DEF total, sum
    <3>3. total = sum - quote.discount
      BY <2>3, <3>1
    <3>4. \A i \in DOMAIN Parts(r, seq) : Parts(r, seq)[i] >= 0
      BY <3>1, <3>2
    <3> QED
      BY <3>3, <3>4 DEF total
  <2> QED
    BY <2>3, <2>4
<1>2. KeyInv /\ QuoteInv /\ [Next]_vars => QuoteInv'
  BY QuoteStep
<1> QED
  BY <1>1, <1>2, QuoteInit, KeyInvariant, PTL DEF Spec

\* The parts of the discount of an order, over its brands in any order.
DiscountConserved ==
    \A r \in orders : \A seq \in SetToSeqs({SellerOf[v] : v \in lines[r]}) :
        FoldSeq(+, 0, Parts(r, seq)) = Subtotal(r) - discount[r]

PartWithinMerchandise ==
    \A r \in orders : \A seq \in SetToSeqs({SellerOf[v] : v \in lines[r]}) :
        \A i \in DOMAIN seq : Parts(r, seq)[i] \in 0..BrandSubtotal(r, seq[i])

\* After the last brand the seller orders add up to the discounted order: no paisa of
\* the discount is lost in rounding, and none is given twice.
THEOREM DiscountIsConserved == Spec => []DiscountConserved
<1>1. KeyInv /\ QuoteInv => DiscountConserved
  <2> SUFFICES ASSUME KeyInv, QuoteInv, NEW r \in orders,
                      NEW seq \in SetToSeqs({SellerOf[v] : v \in lines[r]})
               PROVE  FoldSeq(+, 0, Parts(r, seq)) = Subtotal(r) - discount[r]
    BY DEF DiscountConserved
  <2> DEFINE total == FoldSeq(+, 0, Parts(r, seq))
  <2>1. total = Subtotal(r) - discount[r]
    BY OrdersPriced, Allocation
  <2> QED
    BY <2>1
<1> QED
  BY <1>1, QuoteInit, QuoteStep, KeyInvariant, PTL DEF Spec

\* No brand is charged a negative amount or more than its merchandise.
THEOREM PartsWithinMerchandise == Spec => []PartWithinMerchandise
<1>1. KeyInv /\ QuoteInv => PartWithinMerchandise
  BY OrdersPriced, Allocation DEF PartWithinMerchandise
<1> QED
  BY <1>1, QuoteInit, QuoteStep, KeyInvariant, PTL DEF Spec

-----------------------------------------------------------------------------
(* The stock that is promised.                                             *)

\* Who has reserved a row that is not committed is alone with it, and found a unit.
RowsHeld ==
    /\ DOMAIN lines = Request /\ DOMAIN taken = Request
    /\ reserved \in [Variant -> Nat]
    /\ \A r \in Request : /\ taken[r] \subseteq lines[r]
                          /\ taken[r] # {} => pc[r] = "accepted"
                          /\ \A v \in taken[r] : v \in Variant /\ reserved[v] < Stock[v]
    /\ \A x, y \in Request : x # y => taken[x] \cap taken[y] = {}

LEMMA StockInit == Init => RowsHeld /\ StockKept
<1> SUFFICES ASSUME Init PROVE RowsHeld /\ StockKept
  OBVIOUS
<1>1. RowsHeld
  BY DEF Init, RowsHeld
<1>2. \A v \in Variant : {o \in orders : v \in lines[o]} = {}
  BY DEF Init
<1>3. StockKept
  BY <1>2, FS_EmptySet, CheckoutAssumption DEF Init, StockKept
<1> QED
  BY <1>1, <1>3

\* Steps that commit nothing, and after which each request has kept its rows or has none.
LEMMA StockAside ==
    ASSUME KeyInv, RowsHeld, StockKept, UNCHANGED <<orders, reserved>>,
           DOMAIN lines' = Request, DOMAIN taken' = Request,
           \A o \in orders : lines'[o] = lines[o],
           \A x \in Request : \/ taken'[x] = {}
                              \/ /\ taken'[x] = taken[x] /\ lines'[x] = lines[x]
                                 /\ pc'[x] = pc[x]
    PROVE  RowsHeld' /\ StockKept'
<1>1. RowsHeld'
  BY DEF RowsHeld
<1>2. \A v \in Variant : {o \in orders' : v \in lines'[o]} = {o \in orders : v \in lines[o]}
  OBVIOUS
<1>3. StockKept'
  BY <1>2 DEF StockKept
<1> QED
  BY <1>1, <1>3

\* A line is reserved only in a row nobody else holds, and that has a unit left.
LEMMA LineReserved ==
    ASSUME KeyInv, RowsHeld, StockKept, NEW r \in Request, NEW v \in Variant,
           ReserveLine(r, v), ~Reject(r)
    PROVE  RowsHeld' /\ StockKept'
<1>1. /\ pc[r] = "accepted" /\ v \in lines[r] /\ ~RowLocked(v) /\ Available(v) > 0
      /\ taken' = [taken EXCEPT ![r] = @ \union {v}]
      /\ UNCHANGED <<lines, pc, orders, reserved>>
  BY DEF ReserveLine, requestVars, orderVars
<1>2. \A x \in Request : v \notin taken[x]
  BY <1>1 DEF RowLocked, RowsHeld, Open
<1>3. reserved[v] < Stock[v]
  BY <1>1, CheckoutAssumption DEF Available, RowsHeld
<1>4. /\ taken'[r] = taken[r] \union {v}
      /\ \A x \in Request \ {r} : taken'[x] = taken[x]
      /\ DOMAIN taken' = Request
  BY <1>1 DEF RowsHeld
<1>5. RowsHeld'
  BY <1>1, <1>2, <1>3, <1>4 DEF RowsHeld
<1>6. StockKept'
  BY <1>1 DEF StockKept
<1> QED
  BY <1>5, <1>6

\* The order that is committed adds its lines to the rows it holds.
LEMMA StockCommitted ==
    ASSUME KeyInv, RowsHeld, StockKept, NEW r \in Request, Commit(r), Found(SlotOf(r)) = {}
    PROVE  RowsHeld' /\ StockKept'
<1>1. /\ pc[r] = "accepted" /\ taken[r] = lines[r] /\ r \notin orders
      /\ orders' = orders \union {r} /\ UNCHANGED lines
      /\ reserved' = [v \in Variant |->
                        IF v \in taken[r] THEN reserved[v] + 1 ELSE reserved[v]]
      /\ taken' = [taken EXCEPT ![r] = {}]
      /\ pc' = [pc EXCEPT ![r] = "committed"]
  BY DEF Commit, Proceed, KeyInv, Stages
<1>2. /\ taken'[r] = {} /\ DOMAIN taken' = Request
      /\ \A x \in Request \ {r} : taken'[x] = taken[x] /\ pc'[x] = pc[x]
  BY <1>1 DEF RowsHeld, KeyInv, Stages
<1>3. \A x \in Request \ {r} : \A v \in taken[x] : reserved'[v] = reserved[v]
  BY <1>1 DEF RowsHeld
<1>4. RowsHeld'
  BY <1>1, <1>2, <1>3 DEF RowsHeld
<1>5. ASSUME NEW v \in Variant
      PROVE  reserved'[v] = Cardinality({o \in orders' : v \in lines'[o]}) /\ reserved'[v] <= Stock[v]
  <2> DEFINE sold == {o \in orders : v \in lines[o]}
  <2>1. reserved[v] = Cardinality(sold) /\ reserved[v] <= Stock[v] /\ reserved[v] \in Nat
    BY DEF StockKept, RowsHeld
  <2>2. IsFiniteSet(sold) /\ r \notin sold
    <3>1. IsFiniteSet(Request)
      BY CheckoutAssumption, FS_Interval DEF Request
    <3>2. sold \subseteq Request
      BY DEF KeyInv, Stages
    <3> QED
      BY <1>1, <3>1, <3>2, FS_Subset
  <2>3. CASE v \in lines[r]
    <3>1. {o \in orders' : v \in lines'[o]} = sold \union {r}
      BY <1>1, <2>3
    <3>2. Cardinality(sold \union {r}) = Cardinality(sold) + 1
      BY <2>2, FS_AddElement
    <3>3. reserved'[v] = reserved[v] + 1 /\ reserved[v] < Stock[v]
      BY <1>1, <2>3 DEF RowsHeld
    <3>4. Stock[v] \in Nat
      BY CheckoutAssumption
    <3>5. reserved'[v] <= Stock[v]
      BY <2>1, <3>3, <3>4
    <3>6. Cardinality({o \in orders' : v \in lines'[o]}) = Cardinality(sold) + 1
      BY <3>1, <3>2
    <3> HIDE DEF sold
    <3> QED
      BY <2>1, <3>3, <3>5, <3>6
  <2>4. CASE v \notin lines[r]
    <3>1. {o \in orders' : v \in lines'[o]} = sold
      BY <1>1, <2>4
    <3>2. reserved'[v] = reserved[v]
      BY <1>1, <2>4
    <3> HIDE DEF sold
    <3> QED
      BY <2>1, <3>1, <3>2
  <2> QED
    BY <2>3, <2>4
<1>6. StockKept'
  BY <1>5 DEF StockKept
<1> QED
  BY <1>4, <1>6

LEMMA StockStep ==
    ASSUME KeyInv, RowsHeld, StockKept, [Next]_vars
    PROVE  RowsHeld' /\ StockKept'
<1>1. ASSUME UNCHANGED <<orders, reserved, lines, taken>>,
             \A x \in Request : pc[x] = "accepted" => pc'[x] = pc[x]
      PROVE  RowsHeld' /\ StockKept'
  <2>1. \A x \in Request : taken'[x] = {} \/ pc'[x] = pc[x]
    BY <1>1 DEF RowsHeld
  <2> QED
    BY <1>1, <2>1, StockAside DEF RowsHeld
<1>2. ASSUME NEW r \in Request, r \notin orders, Reject(r), UNCHANGED <<orders, reserved>>
      PROVE  RowsHeld' /\ StockKept'
  <2>1. /\ taken'[r] = {} /\ DOMAIN lines' = Request /\ DOMAIN taken' = Request
        /\ \A x \in Request \ {r} : /\ taken'[x] = taken[x] /\ lines'[x] = lines[x]
                                   /\ pc'[x] = pc[x]
    BY <1>2 DEF Reject, RowsHeld, KeyInv, Stages
  <2>2. \A o \in orders : lines'[o] = lines[o]
    BY <1>2, <2>1 DEF KeyInv, Stages
  <2> QED
    BY <1>2, <2>1, <2>2, StockAside
<1>3. ASSUME NEW r \in Request, pc[r] # "accepted", UNCHANGED <<orders, reserved, lines, taken>>,
             \E step \in Step : pc' = [pc EXCEPT ![r] = step]
      PROVE  RowsHeld' /\ StockKept'
  <2>1. \A x \in Request : pc[x] = "accepted" => pc'[x] = pc[x]
    BY <1>3 DEF KeyInv, Stages
  <2> QED
    BY <1>1, <1>3, <2>1
<1>4. ASSUME NEW r \in Request, Begin(r) PROVE RowsHeld' /\ StockKept'
  <2>1. pc[r] = "sent" /\ r \notin orders /\ UNCHANGED <<orders, reserved>>
    BY <1>4 DEF Begin, KeyInv, Stages, orderVars
  <2>2. \/ Reject(r)
        \/ UNCHANGED <<lines, taken>> /\ \E step \in Step : pc' = [pc EXCEPT ![r] = step]
    BY <1>4 DEF Begin, CheckQuote, Proceed, AnswerWith, Step, workVars
  <2> QED
    BY <1>2, <1>3, <2>1, <2>2
<1>5. ASSUME NEW r \in Request, Prepare(r) PROVE RowsHeld' /\ StockKept'
  <2>1. pc[r] = "begun" /\ r \notin orders /\ UNCHANGED <<orders, reserved>>
    BY <1>5 DEF Prepare, KeyInv, Stages, orderVars
  <2>2. CASE ~Reject(r)
    <3>1. /\ UNCHANGED taken /\ pc' = [pc EXCEPT ![r] = "priced"]
          /\ \E S : lines' = [lines EXCEPT ![r] = S]
      BY <1>5, <2>2 DEF Prepare, Proceed
    <3>2. /\ DOMAIN lines' = Request /\ DOMAIN taken' = Request
          /\ \A x \in Request \ {r} : lines'[x] = lines[x] /\ pc'[x] = pc[x]
      BY <3>1 DEF RowsHeld, KeyInv, Stages
    <3>3. taken'[r] = {}
      BY <2>1, <3>1 DEF RowsHeld
    <3>4. \A o \in orders : lines'[o] = lines[o]
      BY <2>1, <3>2 DEF KeyInv, Stages
    <3> QED
      BY <2>1, <3>1, <3>2, <3>3, <3>4, StockAside
  <2> QED
    BY <1>2, <2>1, <2>2
<1>6. ASSUME NEW r \in Request, Accept(r) PROVE RowsHeld' /\ StockKept'
  <2>1. pc[r] = "priced" /\ r \notin orders /\ UNCHANGED <<orders, reserved>>
    BY <1>6 DEF Accept, KeyInv, Stages, orderVars
  <2>2. \/ Reject(r)
        \/ UNCHANGED <<lines, taken>> /\ pc' = [pc EXCEPT ![r] = "accepted"]
    BY <1>6 DEF Accept, Proceed
  <2> QED
    BY <1>2, <1>3, <2>1, <2>2 DEF Step
<1>7. ASSUME NEW r \in Request, NEW v \in Variant, ReserveLine(r, v)
      PROVE  RowsHeld' /\ StockKept'
  <2>1. r \notin orders /\ UNCHANGED <<orders, reserved>>
    BY <1>7 DEF ReserveLine, KeyInv, Stages, orderVars
  <2> QED
    BY <1>2, <1>7, <2>1, LineReserved
<1>8. ASSUME NEW r \in Request, Commit(r) PROVE RowsHeld' /\ StockKept'
  <2>1. CASE Found(SlotOf(r)) # {}
    <3>1. r \notin orders /\ Reject(r) /\ UNCHANGED <<orders, reserved>>
      BY <1>8, <2>1 DEF Commit, KeyInv, Stages, orderVars
    <3> QED
      BY <1>2, <3>1
  <2> QED
    BY <1>8, <2>1, StockCommitted
<1>9. ASSUME NEW r \in Request, Finish(r) PROVE RowsHeld' /\ StockKept'
  BY <1>3, <1>9 DEF Finish, AnswerWith, workVars, orderVars, Step
<1>10. ASSUME NEW r \in Request, Die(r) \/ AbortDeadlock(r) PROVE RowsHeld' /\ StockKept'
  <2>1. UNCHANGED <<orders, reserved>>
    BY <1>10 DEF Die, AbortDeadlock, orderVars
  <2>2. CASE Reject(r) /\ (pc[r] = "sent" \/ r \in Open)
    <3>1. r \notin orders
      BY <2>2 DEF Open, KeyInv, Stages
    <3> QED
      BY <1>2, <2>1, <2>2, <3>1
  <2>3. CASE pc[r] = "committed" /\ pc' = [pc EXCEPT ![r] = "done"] /\ UNCHANGED workVars
    BY <1>3, <2>1, <2>3 DEF workVars, Step
  <2>4. AbortDeadlock(r) => Reject(r) /\ r \in Open
    BY DEF AbortDeadlock
  <2> QED
    BY <1>10, <2>2, <2>3, <2>4 DEF Die
<1>11. ASSUME NEW r \in Request, NEW k \in Key, NEW q \in Quote, Send(r, k, q)
       PROVE  RowsHeld' /\ StockKept'
  BY <1>3, <1>11 DEF Send, workVars, orderVars, Step
<1>12. CASE \/ UNCHANGED vars
            \/ \E v \in Variant, p \in 0..MaxPrice : EditPrice(v, p)
            \/ \E u \in Account : UseCart(u)
            \/ \E u \in Owner, S \in Cart, withCoupon \in BOOLEAN : IssueQuote(u, S, withCoupon)
            \/ \E o \in Request : Age(o)
  <2>1. UNCHANGED <<pc, orders, reserved, lines, taken>>
    BY <1>12, CartsApart DEF vars, EditPrice, IssueQuote, Age, requestVars,
                 workVars, orderVars
  <2> QED
    BY <1>1, <2>1
<1> QED
  BY <1>4, <1>5, <1>6, <1>7, <1>8, <1>9, <1>10, <1>11, <1>12 DEF Next, Work

\* However many checkouts meet at the last unit of a variant, the rows promise what the
\* committed orders hold and never more than there is.
THEOREM StockIsKept == Spec => []StockKept
<1>1. Init => RowsHeld /\ StockKept
  BY StockInit
<1>2. KeyInv /\ RowsHeld /\ StockKept /\ [Next]_vars => RowsHeld' /\ StockKept'
  BY StockStep
<1> QED
  BY <1>1, <1>2, KeyInvariant, PTL DEF Spec

-----------------------------------------------------------------------------
(* Types.                                                                  *)

ShopTyped ==
    price \in [Variant -> 0..MaxPrice] /\ cart \in [Account -> Cart] /\ edits \in Nat

QuotesTyped == quotes \in Seq(QuoteRecord) /\ Len(quotes) <= MaxQuotes

RequestsTyped ==
    /\ pc \in [Request -> Step]
    /\ req \in [Request -> [key : Key, quote : Quote] \union {None}]
    /\ answer \in [Request -> Request \union {None}]

WorkTyped ==
    /\ lines \in [Request -> Cart]
    /\ charge \in [Request -> [Variant -> 0..MaxPrice]]
    /\ discount \in [Request -> Nat]
    /\ taken \in [Request -> Cart]

OrdersTyped ==
    /\ old \subseteq orders /\ usages \subseteq orders /\ orders \subseteq Request
    /\ uses \in Nat
    /\ reserved \in [Variant -> Nat]

LEMMA TypesAre ==
    TypeOK <=> ShopTyped /\ QuotesTyped /\ RequestsTyped /\ WorkTyped /\ OrdersTyped
BY DEF TypeOK, ShopTyped, QuotesTyped, RequestsTyped, WorkTyped, OrdersTyped

\* The sum of the prices of some variants, and the discount on it.
LEMMA SumOfPrices ==
    ASSUME NEW prices, NEW S \in Cart, \A v \in Variant : prices[v] \in Nat
    PROVE  /\ SumFunctionOnSet(prices, S) \in Nat
           /\ CouponDiscount(SumFunctionOnSet(prices, S)) \in Nat
<1>1. IsFiniteSet(S) /\ \A v \in S : prices[v] \in Nat
  BY ShopAssumption, FS_Subset DEF Cart
<1>2. SumFunctionOnSet(prices, S) \in Nat
  BY <1>1, SumNat
<1> QED
  BY <1>2, CheckoutAssumption DEF CouponDiscount, Smaller

LEMMA TypesInit == Init => TypeOK
<1> SUFFICES ASSUME Init PROVE TypeOK
  OBVIOUS
<1>1. ShopTyped /\ RequestsTyped /\ WorkTyped /\ OrdersTyped
  BY CheckoutAssumption, ShopAssumption
  DEF Init, ShopTyped, RequestsTyped, WorkTyped, OrdersTyped, Cart, Step
<1>2. QuotesTyped
  BY CheckoutAssumption DEF Init, QuotesTyped
<1> QED
  BY <1>1, <1>2, TypesAre

\* A quote is kept with the prices of its lines.
LEMMA QuoteTyped ==
    ASSUME TypeOK, NEW u \in Owner, NEW S \in Cart, NEW withCoupon \in BOOLEAN,
           IssueQuote(u, S, withCoupon)
    PROVE  QuotesTyped'
<1> DEFINE prices == [v \in Variant |-> IF v \in S THEN price[v] ELSE 0]
           subtotal == MapThenSumSet(LAMBDA v : price[v], S)
           less == IF withCoupon THEN CouponDiscount(subtotal) ELSE 0
           x == [owner |-> u, lines |-> S, price |-> prices, discount |-> less]
<1>1. quotes' = Append(quotes, x) /\ Len(quotes) < MaxQuotes
  BY DEF IssueQuote
<1>2. \A v \in Variant : price[v] \in 0..MaxPrice /\ price[v] \in Nat
  BY CheckoutAssumption DEF TypeOK
<1>3. prices \in [Variant -> 0..MaxPrice]
  BY <1>2, CheckoutAssumption
<1>4. less \in Nat
  <2>1. subtotal = SumFunctionOnSet(price, S)
    BY DEF MapThenSumSet, SumFunctionOnSet, FoldFunctionOnSet, MapThenFoldSet
  <2> HIDE DEF subtotal
  <2> QED
    BY <1>2, <2>1, SumOfPrices
<1>5. x \in QuoteRecord
  <2> HIDE DEF prices, less
  <2> QED
    BY <1>3, <1>4 DEF QuoteRecord
<1> HIDE DEF x
<1>6. quotes \in Seq(QuoteRecord) /\ Len(quotes) \in Nat
  BY DEF TypeOK
<1>7. quotes' \in Seq(QuoteRecord) /\ Len(quotes') = Len(quotes) + 1
  BY <1>1, <1>5, <1>6
<1> QED
  BY <1>1, <1>6, <1>7, CheckoutAssumption DEF QuotesTyped

\* What a request reads and computes.
LEMMA ReadingTyped ==
    ASSUME KeyInv, TypeOK, NEW r \in Request, Prepare(r) \/ Accept(r), ~Reject(r)
    PROVE  WorkTyped'
<1>1. CASE Prepare(r)
  <2> DEFINE u == OwnerOf(r)
             S == IF u = Guest THEN quotes[req[r].quote].lines ELSE cart[u]
             prices == [v \in Variant |-> IF v \in S THEN price[v] ELSE 0]
  <2>1. /\ pc[r] = "begun" /\ lines' = [lines EXCEPT ![r] = S]
        /\ charge' = [charge EXCEPT ![r] = prices] /\ UNCHANGED <<discount, taken>>
    BY <1>1 DEF Prepare
  <2>2. S \in Cart
    <3>1. quotes[req[r].quote].lines \in Cart /\ u \in Owner
      BY <2>1 DEF KeyInv, Stages, Working, QuoteBook, OwnerOf
    <3>2. u # Guest => cart[u] \in Cart
      BY <3>1 DEF Owner, TypeOK
    <3> QED
      BY <3>1, <3>2
  <2>3. prices \in [Variant -> 0..MaxPrice]
    BY CheckoutAssumption DEF TypeOK
  <2> HIDE DEF S, prices
  <2> QED
    BY <2>1, <2>2, <2>3 DEF TypeOK, WorkTyped
<1>2. CASE Accept(r)
  <2> DEFINE withCoupon == quotes[req[r].quote].discount > 0
             d == IF withCoupon THEN CouponDiscount(Subtotal(r)) ELSE 0
  <2>1. discount' = [discount EXCEPT ![r] = d] /\ UNCHANGED <<lines, charge, taken>>
    BY <1>2 DEF Accept
  <2>2. d \in Nat
    <3>1. lines[r] \in Cart /\ \A v \in Variant : charge[r][v] \in Nat
      BY CheckoutAssumption DEF TypeOK
    <3>2. CouponDiscount(Subtotal(r)) \in Nat
      BY <3>1, SumOfPrices, SubtotalIsSum
    <3> QED
      BY <3>2
  <2> HIDE DEF d
  <2> QED
    BY <2>1, <2>2 DEF TypeOK, WorkTyped
<1> QED
  BY <1>1, <1>2

LEMMA RejectTyped ==
    ASSUME TypeOK, NEW r \in Request, Reject(r)
    PROVE  RequestsTyped' /\ WorkTyped'
BY CheckoutAssumption DEF Reject, TypeOK, RequestsTyped, WorkTyped, Step, Cart

LEMMA TypesStep ==
    ASSUME KeyInv, TypeOK, [Next]_vars
    PROVE  TypeOK'
<1>1. ShopTyped'
  <2>1. \/ UNCHANGED shopVars
        \/ \E v \in Variant, p \in 0..MaxPrice : EditPrice(v, p)
        \/ \E u \in Account : UseCart(u)
        \/ \E r \in Request : Finish(r)
    BY DEF Next, Work, IssueQuote, Age, Send, Begin, CheckQuote, Prepare, Accept,
           ReserveLine, Commit, Die, AbortDeadlock, vars
  <2>2. ASSUME NEW v \in Variant, NEW p \in 0..MaxPrice, EditPrice(v, p) PROVE ShopTyped'
    <3>1. price' = [price EXCEPT ![v] = p] /\ edits' = edits + 1 /\ UNCHANGED cart
      BY <2>2 DEF EditPrice
    <3> QED
      BY <3>1 DEF TypeOK, ShopTyped
  <2>3. ASSUME NEW u \in Account, UseCart(u) PROVE ShopTyped'
    <3>1. /\ UNCHANGED price /\ edits' \in {edits, edits + 1}
      BY <2>3 DEF UseCart, ReadCart, AddToCart, RemoveFromCart, SyncCart
    <3>2. \E c \in Cart : cart' = [cart EXCEPT ![u] = c]
      BY <2>3 DEF UseCart, ReadCart, AddToCart, RemoveFromCart, SyncCart, TypeOK, Cart
    <3> QED
      BY <3>1, <3>2 DEF TypeOK, ShopTyped
  <2>4. ASSUME NEW r \in Request, Finish(r) PROVE ShopTyped'
    BY <2>4 DEF Finish, TypeOK, ShopTyped, Cart
  <2> QED
    BY <2>1, <2>2, <2>3, <2>4 DEF TypeOK, ShopTyped, shopVars
<1>2. QuotesTyped'
  <2>1. \/ UNCHANGED quotes
        \/ \E u \in Owner, S \in Cart, withCoupon \in BOOLEAN : IssueQuote(u, S, withCoupon)
    BY CartsApart DEF Next, Work, EditPrice, Age, Send, Begin, CheckQuote, Prepare, Accept,
           ReserveLine, Commit, Finish, Die, AbortDeadlock, vars
  <2> QED
    BY <2>1, QuoteTyped DEF TypeOK, QuotesTyped
<1>3. RequestsTyped'
  <2>1. CASE UNCHANGED requestVars
    BY <2>1 DEF TypeOK, RequestsTyped, requestVars
  <2>2. ASSUME NEW r \in Request, NEW step \in Step, pc' = [pc EXCEPT ![r] = step],
               UNCHANGED req,
               \/ UNCHANGED answer
               \/ \E o \in orders : answer' = [answer EXCEPT ![r] = o]
        PROVE  RequestsTyped'
    BY <2>2 DEF TypeOK, RequestsTyped
  <2>3. ASSUME NEW r \in Request, Begin(r) \/ Prepare(r) \/ Accept(r) PROVE RequestsTyped'
    <3>1. \/ Reject(r)
          \/ \E step \in Step : Proceed(r, step)
          \/ \E o \in orders : AnswerWith(r, o)
      BY <2>3 DEF Begin, CheckQuote, Prepare, Accept, Found, Step
    <3> QED
      BY <2>2, <3>1, RejectTyped DEF Proceed, AnswerWith, Step
  <2>4. ASSUME NEW r \in Request, NEW v \in Variant, ReserveLine(r, v) PROVE RequestsTyped'
    BY <2>1, <2>4, RejectTyped DEF ReserveLine
  <2>5. ASSUME NEW r \in Request, Commit(r) PROVE RequestsTyped'
    BY <2>2, <2>5, RejectTyped DEF Commit, Proceed, Step
  <2>6. ASSUME NEW r \in Request, Finish(r) PROVE RequestsTyped'
    BY <2>2, <2>6 DEF Finish, AnswerWith, Step, KeyInv, Stages
  <2>7. ASSUME NEW r \in Request, Die(r) \/ AbortDeadlock(r) PROVE RequestsTyped'
    BY <2>2, <2>7, RejectTyped DEF Die, AbortDeadlock, Step
  <2>8. ASSUME NEW r \in Request, NEW k \in Key, NEW q \in Quote, Send(r, k, q)
        PROVE  RequestsTyped'
    BY <2>8 DEF Send, TypeOK, RequestsTyped, Step
  <2>9. CASE \/ UNCHANGED vars
             \/ \E v \in Variant, p \in 0..MaxPrice : EditPrice(v, p)
             \/ \E u \in Account : UseCart(u)
             \/ \E u \in Owner, S \in Cart, withCoupon \in BOOLEAN : IssueQuote(u, S, withCoupon)
             \/ \E o \in Request : Age(o)
    BY <2>1, <2>9, CartsApart DEF vars, EditPrice, IssueQuote, Age
  <2> QED
    BY <2>3, <2>4, <2>5, <2>6, <2>7, <2>8, <2>9 DEF Next, Work
<1>4. WorkTyped'
  <2>1. ASSUME UNCHANGED workVars PROVE WorkTyped'
    BY <2>1 DEF TypeOK, WorkTyped, workVars
  <2>2. ASSUME NEW r \in Request, NEW v \in Variant, ReserveLine(r, v), ~Reject(r)
        PROVE  WorkTyped'
    <3>1. /\ taken' = [taken EXCEPT ![r] = @ \union {v}]
          /\ UNCHANGED <<lines, charge, discount>>
      BY <2>2 DEF ReserveLine
    <3> QED
      BY <3>1 DEF TypeOK, WorkTyped, Cart
  <2>3. ASSUME NEW r \in Request, Commit(r), ~Reject(r) PROVE WorkTyped'
    BY <2>3 DEF Commit, TypeOK, WorkTyped, Cart
  <2>4. \/ UNCHANGED workVars
        \/ \E r \in Request : \/ Reject(r) \/ Prepare(r) \/ Accept(r) \/ Commit(r)
                              \/ \E v \in Variant : ReserveLine(r, v)
    BY CartsApart DEF Next, Work, EditPrice, IssueQuote, Age, Send, Begin, CheckQuote,
           Finish, Die, AbortDeadlock, vars
  <2> QED
    BY <2>1, <2>2, <2>3, <2>4, RejectTyped, ReadingTyped
<1>5. OrdersTyped'
  <2>1. \/ UNCHANGED orderVars
        \/ \E o \in Request : Age(o)
        \/ \E r \in Request : Commit(r)
    BY CartsApart DEF Next, Work, EditPrice, IssueQuote, Send, Begin, CheckQuote, Prepare,
           Accept, ReserveLine, Finish, Die, AbortDeadlock, vars
  <2>2. ASSUME NEW o \in Request, Age(o) PROVE OrdersTyped'
    BY <2>2 DEF Age, TypeOK, OrdersTyped
  <2>3. ASSUME NEW r \in Request, Commit(r), ~UNCHANGED orderVars PROVE OrdersTyped'
    <3>1. /\ orders' = orders \union {r} /\ UNCHANGED old
          /\ usages' \in {usages, usages \union {r}} /\ uses' \in {uses, uses + 1}
          /\ reserved' = [v \in Variant |->
                            IF v \in taken[r] THEN reserved[v] + 1 ELSE reserved[v]]
      BY <2>3 DEF Commit
    <3> QED
      BY <3>1 DEF TypeOK, OrdersTyped
  <2> QED
    BY <2>1, <2>2, <2>3 DEF TypeOK, OrdersTyped, orderVars
<1> QED
  <2>1. TypeOK' <=> (ShopTyped /\ QuotesTyped /\ RequestsTyped /\ WorkTyped /\ OrdersTyped)'
    BY DEF TypeOK, ShopTyped, QuotesTyped, RequestsTyped, WorkTyped, OrdersTyped
  <2> QED
    BY <1>1, <1>2, <1>3, <1>4, <1>5, <2>1

\* Type correctness: quotes, requests, carts and inventory rows keep their shapes.
THEOREM CheckoutTypes == Spec => []TypeOK
<1>1. Init => TypeOK
  BY TypesInit
<1>2. KeyInv /\ TypeOK /\ [Next]_vars => TypeOK'
  BY TypesStep
<1> QED
  BY <1>1, <1>2, KeyInvariant, PTL DEF Spec

=============================================================================
