------------------------------- MODULE Checkout -------------------------------
(***************************************************************************)
(* Checkout in drip-backend: OrderService.create_checkout with its quotes, *)
(* idempotency keys, coupon, reservations and cart.  A request is several  *)
(* steps in one database transaction.  It takes, in this order and until   *)
(* its end, the advisory lock of its key, the row of its user, the row of  *)
(* the coupon and the inventory rows of its lines; prices it reads without *)
(* a lock.  What a request has written is invisible to others until it     *)
(* commits, and gone when it fails.                                        *)
(*                                                                         *)
(* Abstracted here: the payment method, addresses, shipping fees, the      *)
(* later life of an order (module OrderFulfilment), the client (module     *)
(* CheckoutTab).  Clients send the payload that goes with their quote.     *)
(***************************************************************************)
EXTENDS DiscountShare, FiniteSets, FiniteSetsExt, SequencesExt

CONSTANTS
    MaxRequests,     \* bound: HTTP requests to place an order
    Key,             \* checkout keys that clients may generate
    Account,         \* customers with an account; each has a cart
    Guest,           \* the owner of a checkout without an account
    MaxQuotes,       \* bound: quotes issued
    Variant,         \* product variants
    InitialCart,     \* what is in the carts at first
    SellerOf,        \* SellerOf[v] is the brand that sells v
    MaxPrice,        \* highest price of a variant; 0: not for sale
    Stock,           \* Stock[v] units of v are on hand
    CouponValue,     \* the discount of the only coupon, a fixed amount
    MaxUses,         \* coupons.max_uses
    MaxUsesPerUser,  \* coupons.max_uses_per_customer
    MaxEdits,        \* bound: edits of prices and carts
    None             \* no value

Owner == Account \union {Guest}

\* Requests and quotes are numbered in the order in which they are made.
Request == 1..MaxRequests
Quote == 1..MaxQuotes

ASSUME CheckoutAssumption ==
    /\ MaxRequests \in Nat /\ MaxQuotes \in Nat
    /\ Guest \notin Account /\ None \notin Request
    /\ MaxPrice \in Nat \ {0}
    /\ Stock \in [Variant -> Nat]
    /\ CouponValue \in Nat \ {0}
    /\ MaxUses \in Nat \ {0} /\ MaxUsesPerUser \in Nat

ASSUME ShopAssumption ==
    IsFiniteSet(Variant) /\ InitialCart \in [Account -> SUBSET Variant]

VARIABLES
    price,     \* the current price of each variant
    cart,      \* the Redis cart of each account
    quotes,    \* the quotes issued: owner, lines, prices and discount
    pc,        \* how far each request is
    req,       \* key and quote each request was sent with
    lines,     \* the variants a request is ordering
    charge,    \* the prices a request has read
    discount,  \* the discount a request has computed
    taken,     \* inventory rows a request has reserved and still locks
    orders,    \* requests whose order is committed
    old,       \* guest orders older than GUEST_RECOVERY_TTL
    usages,    \* coupon_usages: the requests whose order used the coupon
    uses,      \* coupons.uses_count
    reserved,  \* product_inventory.reserved, as committed
    answer,    \* the order a request was answered with; None: it failed
    edits      \* edits made so far

shopVars == <<price, cart, edits>>
workVars == <<lines, charge, discount, taken>>
orderVars == <<orders, old, usages, uses, reserved>>
requestVars == <<pc, req, answer>>
vars == <<shopVars, quotes, requestVars, workVars, orderVars>>

Cart == SUBSET Variant
QuoteRecord == [owner : Owner, lines : Cart, price : [Variant -> 0..MaxPrice], discount : Nat]
Step == {"idle", "sent", "begun", "priced", "accepted", "committed", "done"}

OwnerOf(r) == quotes[req[r].quote].owner
SlotOf(r) == <<OwnerOf(r), req[r].key>>

\* Requests whose transaction is open; they hold the advisory lock of their key.
Open == {r \in Request : pc[r] \in {"begun", "priced", "accepted"}}

\* pg_try_advisory_xact_lock fails: another request with the key is under way.
KeyLocked(r) == \E x \in Open \ {r} : SlotOf(x) = SlotOf(r)

\* The row of the account is locked by an open checkout.
UserLocked(u) == \E x \in Open : OwnerOf(x) = u /\ pc[x] # "begun"

\* Mutant: the coupon is read without FOR UPDATE.
CouponUnlocked == FALSE

\* The row of the coupon is locked by an open checkout that uses it.
CouponLocked == \E x \in Open : pc[x] = "accepted" /\ discount[x] > 0

\* An inventory row is locked by the open checkout that reserved it.
RowLocked(v) == \E x \in Open : v \in taken[x]

\* Mutant: a guest order past recovery is taken for a new checkout.
FoundRecent(s) == {o \in orders \ old : SlotOf(o) = s}

\* find_order: the order committed under a key of an owner.
Found(s) == {o \in orders : SlotOf(o) = s}

Subtotal(r) == MapThenSumSet(LAMBDA v : charge[r][v], lines[r])
Available(v) == Stock[v] - reserved[v]

\* _fetch_and_validate_variants: everything is for sale and in stock.
Sellable(S) == \A v \in S : price[v] > 0 /\ Available(v) > 0

\* The coupon's discount on a subtotal, and whether the user may still use it.
CouponDiscount(subtotal) == Smaller(CouponValue, subtotal)
UsedBy(u) == {o \in usages : OwnerOf(o) = u}
CouponUsable(u) == uses < MaxUses /\ Cardinality(UsedBy(u)) < MaxUsesPerUser

-----------------------------------------------------------------------------
Init ==
    /\ price = [v \in Variant |-> 1]
    /\ cart = InitialCart
    /\ quotes = <<>>
    /\ pc = [r \in Request |-> "idle"]
    /\ req = [r \in Request |-> None]
    /\ lines = [r \in Request |-> {}]
    /\ charge = [r \in Request |-> [v \in Variant |-> 0]]
    /\ discount = [r \in Request |-> 0]
    /\ taken = [r \in Request |-> {}]
    /\ orders = {}
    /\ old = {}
    /\ usages = {}
    /\ uses = 0
    /\ reserved = [v \in Variant |-> 0]
    /\ answer = [r \in Request |-> None]
    /\ edits = 0

-----------------------------------------------------------------------------
(* Sellers, carts, quotes and time.                                        *)

\* A seller changes a price, or moderation takes the variant from sale.
EditPrice(v, p) ==
    /\ edits < MaxEdits
    /\ p # price[v]
    /\ edits' = edits + 1
    /\ price' = [price EXCEPT ![v] = p]
    /\ UNCHANGED <<cart, quotes, requestVars, workVars, orderVars>>

\* CartService.add_item locks the account first.
AddToCart(u, v) ==
    /\ edits < MaxEdits
    /\ ~UserLocked(u)
    /\ v \notin cart[u] /\ Sellable({v})
    /\ edits' = edits + 1
    /\ cart' = [cart EXCEPT ![u] = @ \union {v}]
    /\ UNCHANGED <<price, quotes, requestVars, workVars, orderVars>>

\* CartService.sync merges a bag of the browser without looking at stock.
SyncCart(u, S) ==
    /\ edits < MaxEdits
    /\ ~UserLocked(u)
    /\ ~(S \subseteq cart[u])
    /\ edits' = edits + 1
    /\ cart' = [cart EXCEPT ![u] = @ \union S]
    /\ UNCHANGED <<price, quotes, requestVars, workVars, orderVars>>

\* CartService.remove_item locks nothing.
RemoveFromCart(u, v) ==
    /\ edits < MaxEdits
    /\ v \in cart[u]
    /\ edits' = edits + 1
    /\ cart' = [cart EXCEPT ![u] = @ \ {v}]
    /\ UNCHANGED <<price, quotes, requestVars, workVars, orderVars>>

\* CartService.get_cart drops what is not for sale any more.
ReadCart(u) ==
    /\ \E v \in cart[u] : price[v] = 0
    /\ cart' = [cart EXCEPT ![u] = {v \in @ : price[v] > 0}]
    /\ UNCHANGED <<price, edits, quotes, requestVars, workVars, orderVars>>

\* _quote_checkout for the lines S: nothing is locked or reserved, and a guest
\* may not name a coupon.
IssueQuote(u, S, withCoupon) ==
    LET prices == [v \in Variant |-> IF v \in S THEN price[v] ELSE 0]
        subtotal == MapThenSumSet(LAMBDA v : price[v], S)
    IN  /\ Len(quotes) < MaxQuotes
        /\ S # {} /\ Sellable(S)
        /\ u \in Account => S = cart[u]
        /\ withCoupon => u \in Account /\ CouponUsable(u)
        /\ quotes' = Append(quotes,
                [owner |-> u, lines |-> S, price |-> prices,
                 discount |-> IF withCoupon THEN CouponDiscount(subtotal) ELSE 0])
        /\ UNCHANGED <<shopVars, requestVars, workVars, orderVars>>

\* A guest's order grows older than GUEST_RECOVERY_TTL.
Age(o) ==
    /\ o \in orders \ old
    /\ OwnerOf(o) = Guest
    /\ old' = old \union {o}
    /\ UNCHANGED <<shopVars, quotes, requestVars, workVars, orders, usages, uses, reserved>>

-----------------------------------------------------------------------------
(* One request to place an order.                                          *)

\* The client sends a key with a quote it was given, for the first time or again.
Send(r, k, q) ==
    /\ pc[r] = "idle"
    /\ \A x \in Request : x < r => pc[x] # "idle"
    /\ q \in DOMAIN quotes
    /\ req' = [req EXCEPT ![r] = [key |-> k, quote |-> q]]
    /\ pc' = [pc EXCEPT ![r] = "sent"]
    /\ UNCHANGED <<answer, shopVars, quotes, workVars, orderVars>>

\* The request is answered with the order o.
AnswerWith(r, o) ==
    /\ pc' = [pc EXCEPT ![r] = "done"]
    /\ answer' = [answer EXCEPT ![r] = o]
    /\ UNCHANGED req

\* The request ends with an error: nothing of its transaction is kept.
Reject(r) ==
    /\ pc' = [pc EXCEPT ![r] = "done"]
    /\ req' = [req EXCEPT ![r] = None]
    /\ lines' = [lines EXCEPT ![r] = {}]
    /\ charge' = [charge EXCEPT ![r] = [v \in Variant |-> 0]]
    /\ discount' = [discount EXCEPT ![r] = 0]
    /\ taken' = [taken EXCEPT ![r] = {}]
    /\ UNCHANGED answer

Proceed(r, step) ==
    /\ pc' = [pc EXCEPT ![r] = step]
    /\ UNCHANGED <<req, answer>>

\* Mutant: the stored request hash is not compared.
SameKeyAsRequest(o, r) == req[o].key = req[r].key

\* checkout_request_hash: the order was placed by the same request.
SameRequest(o, r) == req[o] = req[r]

\* verify_quote: the quote may be older than QUOTE_TTL by now.
CheckQuote(r) ==
    \/ Reject(r)
    \/ Proceed(r, "begun") /\ UNCHANGED workVars

\* begin_checkout: fails while the key is locked; a known key is answered with its
\* order, or with an error when the order is another request's or past recovery; an
\* unknown one needs a quote.
Begin(r) ==
    /\ pc[r] = "sent"
    /\ \/ KeyLocked(r) /\ Reject(r)
       \/ /\ ~KeyLocked(r)
          /\ \E o \in Found(SlotOf(r)) :
                IF SameRequest(o, r) /\ o \notin old
                  THEN AnswerWith(r, o) /\ UNCHANGED workVars
                  ELSE Reject(r)
       \/ /\ ~KeyLocked(r)
          /\ Found(SlotOf(r)) = {}
          /\ CheckQuote(r)
    /\ UNCHANGED <<shopVars, quotes, orderVars>>

\* create_order locks the account and reads its cart; a guest sends the lines. Then
\* _calculate_checkout reads the current prices without a lock.
Prepare(r) ==
    LET u == OwnerOf(r)
        S == IF u = Guest THEN quotes[req[r].quote].lines ELSE cart[u]
    IN  /\ pc[r] = "begun"
        /\ u = Guest \/ ~UserLocked(u)
        /\ \/ /\ S = {} \/ ~Sellable(S)
              /\ Reject(r)
           \/ /\ S # {} /\ Sellable(S)
              /\ lines' = [lines EXCEPT ![r] = S]
              /\ charge' = [charge EXCEPT ![r] =
                      [v \in Variant |-> IF v \in S THEN price[v] ELSE 0]]
              /\ Proceed(r, "priced")
              /\ UNCHANGED <<discount, taken>>
        /\ UNCHANGED <<shopVars, quotes, orderVars>>

\* Mutant: the prices are not part of the fingerprint.
MatchesLinesOnly(r, d) ==
    LET quote == quotes[req[r].quote]
    IN  quote.lines = lines[r] /\ quote.discount = d

\* CheckoutGuard.accept: the fingerprint of what was read is that of the quote.
MatchesQuote(r, d) ==
    LET quote == quotes[req[r].quote]
    IN  /\ quote.lines = lines[r]
        /\ quote.price = charge[r]
        /\ quote.discount = d

\* The coupon named by the request is locked and checked again, and the result
\* compared with the quote.
Accept(r) ==
    LET withCoupon == quotes[req[r].quote].discount > 0
        d == IF withCoupon THEN CouponDiscount(Subtotal(r)) ELSE 0
        fine == /\ withCoupon => CouponUsable(OwnerOf(r))
                /\ MatchesQuote(r, d)
    IN  /\ pc[r] = "priced"
        /\ withCoupon => ~CouponLocked
        /\ \/ ~fine /\ Reject(r)
           \/ /\ fine
              /\ discount' = [discount EXCEPT ![r] = d]
              /\ Proceed(r, "accepted")
              /\ UNCHANGED <<lines, charge, taken>>
        /\ UNCHANGED <<shopVars, quotes, orderVars>>

\* Mutant: a row without stock is waited for.
ReserveOrWait(r, v) ==
    /\ pc[r] = "accepted"
    /\ v \in lines[r] \ taken[r]
    /\ ~RowLocked(v)
    /\ Available(v) > 0
    /\ taken' = [taken EXCEPT ![r] = @ \union {v}]
    /\ UNCHANGED <<lines, charge, discount, requestVars, shopVars, quotes, orderVars>>

\* Mutant: the stock is read in a query of its own, before the row is written.
ReserveAsSeen(r, v) ==
    /\ pc[r] = "accepted"
    /\ v \in lines[r] \ taken[r]
    /\ \/ Available(v) = 0 /\ Reject(r)
       \/ /\ Available(v) > 0
          /\ taken' = [taken EXCEPT ![r] = @ \union {v}]
          /\ UNCHANGED <<lines, charge, discount, requestVars>>
    /\ UNCHANGED <<shopVars, quotes, orderVars>>

\* InventoryRepository.reserve of one line. The rows come in the order of the cart,
\* which is any order.
ReserveLine(r, v) ==
    /\ pc[r] = "accepted"
    /\ v \in lines[r] \ taken[r]
    /\ ~RowLocked(v)
    /\ \/ Available(v) = 0 /\ Reject(r)
       \/ /\ Available(v) > 0
          /\ taken' = [taken EXCEPT ![r] = @ \union {v}]
          /\ UNCHANGED <<lines, charge, discount, requestVars>>
    /\ UNCHANGED <<shopVars, quotes, orderVars>>

\* Order, seller orders, reservations and coupon usage become visible together; the
\* unique index on checkout_key_hash is the last safeguard of the key.
Commit(r) ==
    /\ pc[r] = "accepted"
    /\ taken[r] = lines[r]
    /\ \/ /\ Found(SlotOf(r)) # {}
          /\ Reject(r)
          /\ UNCHANGED orderVars
       \/ /\ Found(SlotOf(r)) = {}
          /\ orders' = orders \union {r}
          /\ reserved' = [v \in Variant |->
                IF v \in taken[r] THEN reserved[v] + 1 ELSE reserved[v]]
          /\ usages' = IF discount[r] > 0 THEN usages \union {r} ELSE usages
          /\ uses' = IF discount[r] > 0 THEN uses + 1 ELSE uses
          /\ taken' = [taken EXCEPT ![r] = {}]
          /\ Proceed(r, "committed")
          /\ UNCHANGED <<old, lines, charge, discount>>
    /\ UNCHANGED <<shopVars, quotes>>

\* After the commit the cart is cleared, which may fail, and the order is answered.
Finish(r) ==
    /\ pc[r] = "committed"
    /\ cart' \in {cart, [u \in Account |-> IF u = OwnerOf(r) THEN {} ELSE cart[u]]}
    /\ AnswerWith(r, r)
    /\ UNCHANGED <<price, edits, quotes, workVars, orderVars>>

\* The server or its connection dies: an open transaction is rolled back, a
\* committed one stays, and the client knows neither.
Die(r) ==
    /\ \/ /\ pc[r] = "sent" \/ r \in Open
          /\ Reject(r)
       \/ /\ pc[r] = "committed"
          /\ pc' = [pc EXCEPT ![r] = "done"]
          /\ UNCHANGED <<req, answer, workVars>>
    /\ UNCHANGED <<shopVars, quotes, orderVars>>

\* Requests that wait for each other's inventory rows.
Stuck(S) ==
    \A r \in S :
        /\ pc[r] = "accepted" /\ taken[r] # lines[r]
        /\ \A v \in lines[r] \ taken[r] : \E x \in S \ {r} : v \in taken[x]

\* PostgreSQL finds the cycle and aborts one of them.
AbortDeadlock(r) ==
    /\ \E S \in SUBSET Open : r \in S /\ Stuck(S)
    /\ Reject(r)
    /\ UNCHANGED <<shopVars, quotes, orderVars>>

-----------------------------------------------------------------------------
Work(r) ==
    \/ Begin(r) \/ Prepare(r) \/ Accept(r)
    \/ \E v \in Variant : ReserveLine(r, v)
    \/ Commit(r) \/ Finish(r)

\* What a customer does with the cart.
UseCart(u) ==
    \/ ReadCart(u)
    \/ \E v \in Variant : AddToCart(u, v) \/ RemoveFromCart(u, v)
    \/ \E S \in Cart : SyncCart(u, S)

Next ==
    \/ \E v \in Variant, p \in 0..MaxPrice : EditPrice(v, p)
    \/ \E u \in Account : UseCart(u)
    \/ \E u \in Owner, S \in Cart, withCoupon \in BOOLEAN : IssueQuote(u, S, withCoupon)
    \/ \E o \in Request : Age(o)
    \/ \E r \in Request, k \in Key, q \in Quote : Send(r, k, q)
    \/ \E r \in Request : Work(r) \/ Die(r) \/ AbortDeadlock(r)

Spec == Init /\ [][Next]_vars

\* The server works on what it has accepted, and the database ends deadlocks.
FairSpec ==
    /\ Spec
    /\ \A r \in Request : WF_vars(Work(r)) /\ WF_vars(AbortDeadlock(r))

-----------------------------------------------------------------------------
TypeOK ==
    /\ price \in [Variant -> 0..MaxPrice]
    /\ cart \in [Account -> Cart]
    /\ quotes \in Seq(QuoteRecord) /\ Len(quotes) <= MaxQuotes
    /\ pc \in [Request -> Step]
    /\ req \in [Request -> [key : Key, quote : Quote] \union {None}]
    /\ lines \in [Request -> Cart]
    /\ charge \in [Request -> [Variant -> 0..MaxPrice]]
    /\ discount \in [Request -> Nat]
    /\ taken \in [Request -> Cart]
    /\ old \subseteq orders /\ usages \subseteq orders /\ orders \subseteq Request
    /\ uses \in Nat
    /\ reserved \in [Variant -> Nat]
    /\ answer \in [Request -> Request \union {None}]
    /\ edits \in Nat

\* A client is only ever shown an order that was placed for its own key, from the
\* quote it sent: never that of another key, owner or set of details.
AnswersMatch ==
    \A r \in Request : answer[r] \in Request =>
        /\ answer[r] \in orders
        /\ OwnerOf(answer[r]) = OwnerOf(r)
        /\ req[answer[r]] = req[r]

\* The merchandise of one brand in an order.
BrandSubtotal(r, s) ==
    MapThenSumSet(LAMBDA v : charge[r][v], {v \in lines[r] : SellerOf[v] = s})

\* One round of _build_order's loop: brand s gets its seller order, with its share of
\* the discount; the last brand gets what is left of it.
AllocateBrand(r, left, s) ==
    LET sub == BrandSubtotal(r, s)
        wish == IF left.subtotal = sub THEN left.discount
                ELSE Proportional(discount[r], sub, Subtotal(r))
        share == Share(left.discount, left.subtotal - sub, sub, wish)
    IN  [discount |-> left.discount - share, subtotal |-> left.subtotal - sub,
         parts |-> Append(left.parts, sub - share)]

\* seller_orders.subtotal of each brand, allocated in the order seq.
Parts(r, seq) ==
    FoldLeft(LAMBDA left, s : AllocateBrand(r, left, s),
             [discount |-> discount[r], subtotal |-> Subtotal(r), parts |-> <<>>],
             seq).parts

\* An order costs what its accepted quote said, although prices, cart and coupon may
\* have changed since, and its brands are charged exactly that amount together.
ChargedAsQuoted ==
    \A r \in orders :
        LET quote == quotes[req[r].quote]
            asked == MapThenSumSet(LAMBDA v : quote.price[v], quote.lines) - quote.discount
        IN  /\ lines[r] = quote.lines
            /\ \A seq \in SetToSeqs({SellerOf[v] : v \in lines[r]}) :
                    /\ FoldSeq(+, 0, Parts(r, seq)) = asked
                    /\ \A i \in DOMAIN Parts(r, seq) : Parts(r, seq)[i] >= 0

\* A coupon is never used beyond its limits, and exactly by the orders it discounted,
\* however many checkouts meet at its last use.
CouponKept ==
    /\ uses = Cardinality(usages) /\ uses <= MaxUses
    /\ \A u \in Account : Cardinality(UsedBy(u)) <= MaxUsesPerUser
    /\ usages = {o \in orders : discount[o] > 0}

\* The last unit of a variant is sold once, however many checkouts saw it on hand: the
\* inventory rows have reserved what the committed orders hold, and no more than the stock.
StockKept ==
    \A v \in Variant :
        /\ reserved[v] = Cardinality({o \in orders : v \in lines[o]})
        /\ reserved[v] <= Stock[v]

\* Checkout implements one order per key.
Keyed == INSTANCE KeyedOrders WITH
    Slot <- Owner \X Key, Content <- Request,
    placed <- [s \in Owner \X Key |-> {o \in orders : SlotOf(o) = s}]
KeepsKeys == Keyed!Spec

\* Every request ends, also those that meet at locks in opposite orders.
RequestsEnd == \A r \in Request : pc[r] = "sent" ~> pc[r] = "done"

=============================================================================
