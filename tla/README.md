# DripMarketplace: TLA+ models, checks and proofs

DripMarketplace is a multi-brand clothing marketplace. `src/drip-backend` is a
FastAPI service over PostgreSQL with Redis and `arq` workers; `src/drip-frontend`
is a React client that only calls its API. An order may hold products of several
brands; each brand fulfils its own part, is credited for it after delivery and
payment, and pays for refunds of it. What is hard in this program is not any one
handler but the *meeting* of handlers: a customer cancels while the expiry sweep
runs, a payment arrives for an order that has expired, a checkout is repeated while
the first one is still at work, an account is deleted while a request that passed its
check is about to write. These modules describe those meetings.

Paths below are relative to `src/drip-backend/` unless they start with `src/`.
Every definition that models code names its source lines in `PROJECT.json`
(`map`).

## 1. Inventory

How handlers interact: nearly every service method runs in one database
transaction, takes the locks (`SELECT ... FOR UPDATE`) of the rows it decides on,
and commits once at its end. Components share rows, not messages; the exceptions
are the notification outbox (rows dispatched later by a cron job), the delayed COD
job and the mail jobs in Redis, object storage (files beside rows), and the HTTP
exchange with PayFast, during which *no* lock is held. Many requests are checked
once without a lock (the access token, the role, the quote) and again under it; the
modules keep these two moments apart. Cron (`app/tasks/worker.py`) runs the expiry
sweep every 5 minutes, the release of mature earnings every 10, the outbox every
minute and the sweep of orphaned images every night.

| Component | State | Operations | Hard behaviour | What makes it correct |
|---|---|---|---|---|
| Order fulfilment (`order_service.py`, `order_tasks.py`) | orders, seller orders, order items | cancel, COD timeout job, expiry sweep, advance of a brand's part | five independent ways to end a waiting order; lenient and strict releases; status derived from several brands | each line released or deducted once; parent agrees with parts; paid never cancelled; waiting orders expire |
| Inventory (`inventory_repo.py`, `inventory_service.py`) | stock, reserved by variant | reserve, release, deduct, correct, bulk update | all orders of a variant meet at its row | `reserved` is what open lines hold, never above `stock` |
| COD review (`admin_service.py`) | orders, platform settings | verify, reject, change the COD window | edits of the window while orders wait | as above |
| Checkout (`checkout_safety.py`, `cart_service.py`, `coupon_service.py`) | quotes, keys, carts, coupon usage | quote, checkout, repeat, cart edits | locks taken one at a time; prices read without a lock; answers lost | one order per key, at the quoted price, within the coupon's limits; every request ends |
| Online payment (`payment_service.py`, `payfast.py`) | payment row, attempts, callbacks | initiate, retry, switch to COD, callback, reconcile | token request without a lock; lost, late, duplicate, misdirected callbacks | charged at most once; booked only if charged; late money never revives an order |
| Settlement (`commission_service.py`, `wallet_tasks.py`) | commission ledger, refund accounting and allocations | settle, release mature, allocate and reverse refunds | refunds before and after settlement and release; rounding | each refunded paisa reaches the right brand once |
| Wallet and payouts (`wallet_service.py`, `slot_service.py`) | wallets, payouts | request, approve, reject, complete, buy slots | refunds meet reserved or withdrawn money | conservation |
| Returns and disputes (`return_service.py`) | returns, return items, disputes | request, approve, reject, receive, dispute, resolve, refund | a rejected return revived after its units were claimed anew | never more units than bought; restocked once; holds end |
| Notification outbox (`notification_outbox.py`, `notification_tasks.py`) | events, deliveries | dispatch, deliver, recover, replay | crashes between publishing and recording; recipients who leave | delivered or dead-lettered, not forgotten, the provider not called for a deleted account |
| Authentication and sessions (`auth_service.py`, `google_oauth.py`) | users, refresh sessions | verify, sign in, rotate, sign out, reset | two tabs with one token; requests that outlive the account | exchanged once; nothing written after deletion |
| Catalogue and moderation (`product_service.py`, `seller_service.py`, `image_service.py`) | brands, products, images, slots, stored files | register, decide, publish, delete, images, sweep | requests of one brand on one counter; files and rows committed apart | slots counted exactly; one cover; rows have files |
| Profile, privacy, reviews (`customer_service.py`, `review_photo_service.py`, `customer_privacy.py`, `queued_email_privacy.py`) | reviews, photos, addresses, Redis, queued mails | write, edit, moderate, delete account | decisions from stale screens; clean-up after unknown commits | rating agrees; approved as read; photos exist; forgotten, or visibly not yet |
| Cleanup and mail tasks | — | expiry of sessions, orphan sweep, mails | races with the requests above | as above |
| In-app notifications, analytics, revenue | reports and rows of one owner | reads | — | — |
| HTTP layer | — | routing, a few handlers with logic | — | — |
| Frontend (`src/drip-frontend/src`) | checkout key in session storage, bag | submit, retry, recover | reload between a request and its late effect | what is ordered leaves the bag, nothing else |

`PROJECT.json` lists them all with what is and is not modelled, and under `hazards`
the places in the code where things can go wrong that a test would hardly reach.

## 2. Modules

| Module | Models | Uses |
|---|---|---|
| `OrderFulfilment` | order, parts, stock, the state of payment and settlement, COD window, clock | — |
| `Checkout` | requests to place an order, step by step, with locks, keys, quotes, carts and the coupon | `DiscountShare`; implements `KeyedOrders` |
| `DiscountShare` | the share of a discount one brand gets | — |
| `KeyedOrders` | abstract promise: a key is worth one order | — |
| `CheckoutTab` | a browser tab of the storefront, the network and a server that keeps `KeyedOrders`' promise | — |
| `PayFastAttempts` | PaymentService's exchange with PayFast, with provider and customer as external actors | implements `OnlinePayment` |
| `OnlinePayment` | abstract promise of one online payment | — |
| `RefundSplit` | the arithmetic of `CommissionService`: commission, split of a refund, reversal | — |
| `Settlement` | ledgers, refunds, wallets, payouts | `RefundSplit` |
| `Returns` | returns, disputes, restocking, holds | — |
| `NotificationOutbox` | dispatch, delivery, recovery and replay of stored events, with Redis and the mail provider as external actors | implements `AtLeastOnce` |
| `AtLeastOnce` | abstract promise of the outbox | — |
| `Listings` | a brand, its listings, images and stored files, and the orphan sweep | — |
| `Reviews` | reviews of a product, moderation, photos and their clean-up | — |
| `Accounts` | an account with sessions, addresses, orders, Redis keys, mails and its deletion | — |
| `OrderFulfilmentProofs`, `CheckoutProofs`, `NotificationOutboxProofs`, `ListingsProofs` | the theorems of the module they name | TLAPS |
| `PayFastProofs` | the theorems of `PayFastAttempts` | TLAPS |
| `SettlementProofs` | the theorems of `RefundSplit` and `Settlement` | `Sums`, TLAPS |
| `CustomerProofs` | the theorems of `Reviews`, `Accounts` and `Returns` | `Sums`, TLAPS |
| `Sums` | laws of the community modules' folds and sums, for the proofs | TLAPS |
| `MC...` | small instances for TLC | the module they name |

`TypeOK` documents the state of a module and is a theorem of every detailed module.
`Accounts` and `Returns` put the module's name before `Init`, `Next`, `Spec` and
`TypeOK`, so that one module of proofs can extend both. Definitions called *Mutant* in a comment are
what a plausible bug would look like; the specifications do not use them.

### OrderFulfilment

One action per handler. Each handler locks its order first and commits once, so an
action is the whole handler, with the releases, deductions and derived parent status
it contains. Interleavings are those of handlers of different
orders (which meet at inventory rows), of different actors on one order, and of
the clock.

State is the columns themselves: `status` is `orders.status`, `fulfilment[o][s]`
is `seller_orders.status` of brand `s` (or `"none"`), `payment` the payment row,
`settled` the brands with a ledger row. `stock` and `reserved` are those of
`product_inventory`. The two kinds of release in the code are kept apart:
`ReleaseStrict` (sweep, COD job, COD rejection) fails its transaction when a row
holds too little; `ReleaseLenient` (customer's cancellation) silently leaves such
a row alone. That the lenient one never skips anything is a *theorem*, not an
assumption. `BulkUpdateStock` writes the rows it may and leaves out the others
(each has a savepoint of its own in the code).

Abstracted: prices (only whether the order was discounted is kept, because the
collection of COD money compares amounts), addresses. `Checkout` here is one atomic
action, the effect of a committed checkout on these rows; its steps are module
`Checkout`. Payment appears here only with its result; how PayFast gets there is
`PayFastAttempts`.

### Checkout and KeyedOrders

A request takes, in this order and until its end, the advisory lock of its key, the
row of its user, the row of the coupon and the inventory rows of its lines; `pc[r]`
says how far it is, so that two requests interleave between any two locks.
`KeyLocked`, `UserLocked`, `CouponLocked` and `RowLocked` read who holds what off
`pc`. What a request has written (`lines`, `charge`, the rows it reserved) is its
own until `Commit`, and gone after `Reject`, `Die` or `AbortDeadlock`. `Die` is a lost
connection or a dead process before the commit, or a lost answer after it: the client may
`Send` the same again, and may send it at once without waiting.

`IssueQuote` keeps what `sign_quote` signs: the lines and their prices and the
discount. `MatchesQuote` is the comparison of fingerprints on arrival at the final
step, `CheckQuote` the verification of the token before. Prices may be edited at any
time (`EditPrice`); quantities are one, an order of two units is two variants.
`Found` is the query for an earlier order of the key, `SameRequest` the comparison of
payloads. `SlotOf` pairs owner and key, as `key_hash` does. After the commit
`Finish` empties the cart; between the two a second checkout with another key could
order the same cart again, which the code allows and no document forbids.

`Parts` is the allocation over brands, in the order in which the brands appear, as a fold
over that order: what is left of the discount is handed on from brand to brand.
`ChargedAsQuoted` states for every such order of the brands that the parts add up to what
was quoted and none is negative.

### CheckoutTab

The hook `useSubmission` with the refs it keeps in memory (`payload`, `sentBag`,
`blocked`, `shown`), the key in session storage and the bag in local storage, which other
tabs change too. Requests are a set of messages without order; an answer may never be
heard, and a request may be served after the tab has given up on it. `Reload` loses the
memory. The server is reduced to what `KeyedOrders` promises. Two keys and four requests
are enough for the violation; the module has no passing run of its own.

### PayFastAttempts and OnlinePayment

`_start_payfast` commits an attempt, asks PayFast for a token *without a lock*,
then locks again and looks whether the attempt is still current. The module splits
it into `ClaimAttempt` (in `Initiate` or `Retry`), `IssueToken` (provider) and
`OfferCheckout`, with `DropRequest` for a process that dies in between or a request
that fails. Callbacks are a set of messages that are never consumed: each may
arrive never, late, twice or in any order. A callback's hash covers its basket and not its
transaction (`payment_service.py:397`), so `ReceiveCallback(a, named)` takes the basket `a`
from the callbacks sent and *any* transaction as `named`: of another attempt, of another
order, or unknown to the provider. A callback is a hint only; the service asks the status
API about what was named, `Matches` compares the answer with the basket, and `Reconcile`
acts on the verdict under the order's lock. Without that comparison `KeepsPromise` breaks
(its mutant).

`OnlinePayment` says in five actions what this is for. The refinement mapping
counts the paid transactions of an order and maps status and payment row;
`KeepsPromise` is `Promise!Spec`.

`TxPerBasket` is an assumption about the *provider*, visible as a constant:
with 1, a basket is closed by its first verdict; with more the provider lets a customer
pay again in the same basket after a refusal. `ChargedOnce` and `KeepsPromise` need 1;
`BookedIsCharged`, `ReplacedOnlyAfterFailure` and `EvidenceActedOn` are proved for any.

### RefundSplit and Settlement

Amounts are whole paisa and rates ten-thousandths (as `Numeric(5, 4)` stores
them), so the rounding of the code is exact in the model. `Settle` writes a ledger
and credits the wallet; refunds confirmed before become *offsets* of the new ledger,
refunds confirmed after become *debits* of the wallet: of the pending balance
before release; of the available one after it, with the rest booked as shortfall of
the platform. `Allocation` splits a direct refund over the brands in proportion to
what is left of each; the refund of a return goes to its part alone. Its amount comes from
`Returns`' side of the code, rounded there (`return_service.py:712-724`); here it is any
amount up to what its part was charged that the payment has left (`RequestReturnRefund`),
whether or not earlier refunds of that part leave room for it; the confirmation checks that.

A discount is not modelled here: `Subtotal` is what the part was charged. Holds by
returns are a free choice (any mature set may be released), which only adds
behaviours. The missing-wallet branches, refunds older than refund accounting, the
reversal code nothing calls any more (`_reverse_one`, `_reverse_across_order`,
`_prorate`) and the totals derived from the allocations (`_refresh_refund_accounting`)
are left out. `settle_commission` exists as a task but is never enqueued: settlement
happens inside delivery and collection, as modelled.

### Returns

Parts are delivered, paid and settled from the start; amounts live in
`Settlement`. `Claimed` is the sum query of `_validate_return_quantities`,
`QuantitiesFit` its check, `Held` the hold query of `release_mature`. Brand and
administrator decide a return with the same guards, so they are one action each.
The `closed` dispute status has no writer.

### NotificationOutbox and AtLeastOnce

`fate[e]` reads the row's timestamps (`completed_at`, `dead_lettered_at`),
`attempts` and `deliveries` are its counters, `published` abstracts `published_at`
to never, recent, or older than the recovery delay. `cycle` is the length of
`replay_history`; with event and attempt it makes the job's id, so that publishing
a job again under the same id is no second job: `queue` is a set.

A dispatch holds the locks of its batch to its commit and is one action; the set
`ok` of the rows that Redis accepted is free. `DispatchCrash` publishes and does not
commit. A delivery holds the row's lock through the whole task, whose own session
commits in the middle: `phase[e]` says how far it is, and `Eligible` leaves such rows
out (`skip_locked`). Two jobs of one row therefore never overlap. The
provider's acceptance (`SendEmail`) and its receipt (`Record`) are separate steps;
between them lie `LoseAnswer` and `Crash`. `Crash` stands for a dead worker and for
the job's timeout: neither is an `Exception`, so nothing of the outer transaction
is kept, and ARQ may or may not run the job again.

The provider's SDK runs in a thread (`resend_client.py:35`) that survives the
cancellation of its job. A call that nobody waits for any more (`Abandon`, after `Crash` or
`TimeOut`) is therefore counted in `stray`, and `AcceptLate` may have the provider accept it at
any later time: after the row was delivered again, dead-lettered or completed, and
after the customer left. `docs/CUSTOMER_PRIVACY.md:64-67` says just that of the
deletion.

The task looks its recipient up under the lock of the account (`AccountLocked`) and
keeps it until the mail is logged; `CloseAccount` needs the same lock. An order of a guest
has no account to lock. For an account that is gone the task succeeds without a mail.

Only the keyed email is modelled; in-app rows and broadcasts are tasks that succeed or
fail like it. `Unknown` is the set of rows whose `task_name` the deployed worker does not
know.

`AtLeastOnce` has no queue, lock, budget or crash: the provider is called only for an open
event without receipt whose customer has not left, an event is completed only on a
receipt or for a customer who left, and no call is begun for a dead letter until it is
replayed. What it allows besides is that a call under way is abandoned and accepted later,
once. The mapping is the identity on `fate`, `sends`, `stray`, `receipt` and `closed`.

### Listings

A seller's request passes `Gate` (`require_seller`, no lock), then locks the brand's row
and loads the product (`Lock`), and only then decides: `seen` is the snapshot it decides
on, and the decision is written from it, as the ORM does. `BrandLockFree` is the lock.
Uploading is three moments: rows are chosen under the lock, files are stored one after the
other, the rows are committed; erasing is two: the row goes, then the file. Either may stop
in between (`Fail`). The sweep reads all references first (`SweepReads`) and erases old
files one at a time afterwards; `StoredLongAgo` is its age limit of 24 hours, `fresh` the
files younger than that. A request does not last 24 hours, so `GrowOld` leaves the files in
the hands of a request alone; that is the one assumption about time.

`used` and `total` are `slots_used` and `total_slots`; the money paid for slots is in
`Settlement`. `settled` says whether the registration fee is recorded or waived. The brand
starts registered; texts, prices, categories and size charts are left out, as is
`admin_hidden`, which hides a product without moving its status.

### Reviews

A transaction's writes are invisible until it commits: `tx[a]` is what actor `a` has in
progress, `review` and `product` the committed rows. Locks are the account's
(`ActiveAccount`), the review's (`RowFree`) and the product's (`ProductFree`), taken where
the code takes them; an edit locks the review's row only with its UPDATE. `Aggregated`
recomputes the rating from the rows committed when it runs. The administrators' screen is
`view`, and `Touch` clears the screen's `current` when the row has changed since. A decision
may name the time stamp shown there (`versioned`), and is then refused unless that is still
the row's; or it may leave it out (`expected_updated_at` is optional, `admin/reviews.py:25`
and 102, and `tests/unit/test_admin_review_contract.py` keeps it so), and is accepted whatever it
was made on. The administrators' panel always names it. `ApprovedAsRead` therefore speaks of
approvals that named their version: `seen` remembers what was on their screen. `noted` says that the row holds an administrator's
note or moderation time, which decides whether a change of photos updates it at all. A commit whose outcome the request does not learn (`Commit` with
either result) leaves a clean-up job that checks references before it erases.

The rating stands for all that the customer wrote; photos are apart, because adding one to
a waiting review does not move the time stamp. Votes are left out.

### Accounts

One account. Requests are checked without a lock (`Arrive`, `StartSignIn`,
`StartRefresh`) and look again under the account's row (`LockActive`). Google sign-in is
`StartSignIn` too: it creates its session through the same repository, which locks.
`heirs` is a history variable: what each token was exchanged for. `cached` stands for
cart, wishlist and preferences in Redis, which are written while the row is locked,
cleared best-effort after a deletion (`ClearNow`) and by an event of the outbox, `job`,
stored with the deletion. That event has the budgets of every event: `PublishJob` counts
publications, `FailJob` failed deliveries (Redis does not answer, or a file cannot be
deleted), and when either budget is used up it is a dead letter, which an administrator
may replay (`ReplayJob`) or not. `orders` counts active orders, open returns and
disputes, whose handlers lock the account; a refund that an administrator starts does
not look at the account and is left out. A mail job holds the row while it hands the mail over (`CheckRecipient`,
`HandOver`), and may run again.

## 3. Runs

| Run | Instance | Question | States |
|---|---|---|---|
| `OrderBrands` | 2 orders, 2 brands with a variant each, 1 unit, stock up to 1, sweep of 2, COD window of 1 or 2 | do stock, money, parts and parent stay consistent under every interleaving, and does every waiting order end? | 736,856 |
| `PayFastRaces` | 2 orders, 4 attempts, 4 transactions | does the exchange keep the promise? | with symmetry |
| `SettlementSplit` | 1 order, 2 brands (3 and 2 paisa, 1 shipping), 3 refunds, rates 0.3 and 0.5 | is each refunded paisa allocated once, to the right brand, without drift? | 118,716 |
| `SettlementWallet` | 2 orders (one COD) of one brand, 2 refunds, 2 payouts, 1 slot purchase | does the wallet agree with ledgers, payouts and slots? | 81,530 |
| `ReturnClaims` | 3 returns of 2 shirts and 1 shoe of two parts | can units be claimed, refunded or restocked twice; do holds end? | 304,812 |
| `Outbox` | 2 events, one of a guest and unknown to the worker, the other of a customer and replayable once; budgets of 2 and 2, batch of 1, one crash, loss or unanswered call | is every event delivered or dead-lettered, is a message repeated only when it must be, and is the provider left alone once the customer has gone? | 460,928 |
| `Checkouts` | 2 requests, 2 customers and guests, one key each, 2 quotes, 2 products with one unit, coupon for one use, 1 edit | one order per key at the quoted price within the coupon's limit, the last unit sold once; does every request end? | 228,215 |
| `Listings` | 2 products, 3 images, 3 requests, at most 2 images each, 1 slot and 1 more to buy | do slots, covers and files stay consistent? | 299,310 |
| `Reviews` | 2 customers, 2 tabs, 1 administrator, 1 photo, ratings 1 and 2 | do rating, decisions (with and without a version), photos and deletion agree? | 4,745,570 |
| `Accounts` | 3 tokens, 2 addresses, 2 requests, 1 order, 1 mail, 3 publications and 2 deliveries of the clean-up | does anything outlive the account, is a token exchanged once, is a mail current, is the clean-up done or dead-lettered? | 803,272 |

Why these bounds. Two orders are the least that share an inventory row and a sweep; two
brands the least whose parts can disagree. With four attempts both orders can retry, and
one of them twice. Amounts of 3 and 2 with shipping of 1 and
rates of 0.3 and 0.5 make every rounding case occur (halves, a residual for the
last brand, a reversal whose rounded commission exceeds what is left). Three returns
of two units let two of them fit, a third be rejected, and the rejected one come
back. In the outbox a batch of one lets an older failing row keep the younger one
waiting, budgets of 2 tell the last try from the one before, and the one fault can
fall between any two steps. Two checkouts are what it takes to repeat a key, to meet at
the coupon and to deadlock over two rows; the one edit falls between any two steps of
theirs. Three images let a product that is full meet an upload and an erasure. Two tabs and
an administrator give two customers' transactions and a decision at once. Three tokens
allow a sign-in and a rotation beside each other; with 3 publications and 2 deliveries
either budget of the clean-up may be the first to run out. `MaxAge` ends the clock just after the
longest window has passed. For larger instances of most of these the theorems of section 5
speak.

Pools of refunds, payouts, attempts, returns, events, tokens and requests are finite and
everything can be used up, so those runs say `CHECK_DEADLOCK FALSE`; the order run checks
deadlock. In `Checkouts` the deadlocks that matter, requests waiting for each other's
locks, are states of the model (`Stuck`), and `RequestsEnd` is about them.

**Violation runs** show where the code departs from what the repository says of it
(`findings`):

- `RefundStranded`: a direct refund confirmed in between takes the merchandise value
  the pending refund of a return needs; that refund can never be confirmed.
- `BagErased`: a tab is reloaded while its checkout is under way and asks for the order: not
  found. The customer changes the bag and submits again, under the same key. The delayed
  first request now creates its order, and the answer to the second (key reused) is lost.
  Recovery shows the *first* order, and, because a payload is remembered, empties the
  *second* bag. The comment in `useSubmission.ts` says that it must not.

**Observations without a run.** Some disagree with a document, some are behaviours no
document speaks about.

- The collection of a *discounted* COD order is always refused: `payment_service.py:1010`
  compares the brands' subtotals, which checkout stores net of the discount
  (`order_service.py:423`), with the gross subtotal. `docs/TASK_7_DESIGN_REVIEW.md:108`
  lists collection as a step of every COD order. `CollectionAmountsAgree` models it.
- A fully refunded online order keeps its status and may still ship
  (`order_service.py:639`, `payment_service.py:790`).
- A refund during an open payout request books a loss of the platform; rejecting the
  payout afterwards returns the money to the brand (`commission_service.py:762`).
- The payment row of a COD order is created only when the client calls *initiate*; no
  handler requires it, so an order can be delivered with nothing to record its collection on.
- A dispute won by the customer holds the rest of its part's earnings for ever, also after
  the return was refunded; `docs/BACKEND_B2_REPORT.md` names the hold, and does not mention
  that it has no end. `HoldsEnd` is stated around it.
- A photo added to a review that is already waiting changes no column of its row, so a
  moderator may approve it unseen (`review_photo_service.py:92`). `ApprovedAsRead` is about
  text and rating. So may a caller who leaves the version of the decision out approve a
  text that was edited meanwhile.
- `create_product` may publish at once, with variants and no image, while `publish` asks
  for an image; `publish` also counts variants that are inactive
  (`product_service.py:161`), and `update_variant` may deactivate the last active one of a
  published product; `variants` in `Listings` is whether there is any row. An edit that races a rejection puts "pending" in place of "rejected".
- A sign-in that checked the old password before a reset or change creates its session
  after "Invalidate all sessions (force re-login everywhere)" (`auth_service.py:323`);
  `auth_version += 1` is computed from an unlocked read, so that two changes may add one.
  A reset link is claimed in Redis before the commit: when that fails, the link is spent; and
  a reset mail may leave after its link was used.
- `update_address` racing `delete_address` may leave no default address; bank accounts
  take no lock for their default at all.

## 4. Fairness

- `FairSpec` of `OrderFulfilment`: `WF` on the clock and on the sweep
  `ExpirePendingOrders`. The sweep is a cron job that selects the oldest expired
  orders up to its limit. Nothing else is fair: no customer, brand or administrator
  is obliged to act, and the delayed COD job may be lost (it is enqueued after the
  commit, and Redis may be down). The COD window may be edited forever within
  `CodTimeouts`.
- `ReturnsFairSpec`: `WF` on `Mature` (time) and on the release sweep. Nobody is
  obliged to decide a return or a dispute; `HoldsEnd` therefore only speaks of parts
  on which nothing is left to decide.
- `FairSpec` of `NotificationOutbox`: `WF` on `Dispatch` (a cron job, every minute), on
  `Age` (time passes) and on the steps of a delivery that has started (the worker's
  timeout of 300 s ends it at the latest). No worker is obliged to start a delivery
  and no administrator to replay: rows that are never delivered still end, as dead
  letters. Crashes, lost jobs and unanswered calls are bounded by `MaxFaults`: a dispatcher that crashed before its
  commit every time would resolve nothing.
- `FairSpec` of `Checkout`: `WF` on the next step of each request that the server has
  accepted, and on `AbortDeadlock`: PostgreSQL looks for cycles after `deadlock_timeout`
  and ends a transaction of each. Clients are not obliged to send or repeat anything.
  `RequestsEnd` needs no strong fairness: whoever holds a lock moves on, and nothing
  in a finite run of requests takes it again for ever.
- `AccountsFairSpec`: `WF` on `PublishJob`, the outbox's cron job. No worker is obliged to
  run the clean-up, Redis need not answer, and no administrator need replay a dead letter;
  no mail or request need ever go on. `Forgotten` promises what is left: what Redis
  kept is gone for good, or the clean-up has become a dead letter that an administrator
  sees.

## 5. Proofs

Each theorem holds for every value of the constants that the module's named assumption
allows (sets finite where the code's are, numbers natural). No other assumption is used,
except `TxPerBasket = 1` in two theorems that say so.

*Orders and stock* (`OrderFulfilmentProofs`). `ReservationExact` alone is not inductive: a
lenient release skips a row that holds too little, a deduction assumes the line is still
held, and a cancellation by status must know that no part has shipped. `StockInv` adds
`TypeOK`, `NoOversell`, `LinesHaveParts` (every bought unit has a part at its brand)
and `WaitingPartsPending` (parts of a cancellable waiting order have not moved).
Units are counted as elements of a finite set (`HeldUnits`), so that each handler's
effect on `reserved` is a set difference or union whose cardinality
`FiniteSetTheorems` gives. The lemma `LenientIsExact` says that under `StockInv`
the lenient release releases exactly the order's units; it is the formal reason
why dropping `strict=True` in `cancel_order` does no harm. `MoneyInv` relates status,
method and payment, and both money theorems follow from it.

What the parent says of its parts (`ParentAgrees`) is not inductive either: it bounds the
parts of a shipped order from one side only, and the next advance of a part could then lead
anywhere. `PartsInv` has for each status what all parts are and what some part is
(`StatusFits`: an order in preparation has a part that did not ship, a shipped one a part that
did not arrive), and for the ledger rows that they belong to delivered parts of paid orders,
all of them while nothing was refunded (`LedgerFits`). `ParentSummarises`,
`EarningsSettledWhenDue` and `FinalStatesStay` follow.

*Checkout* (`CheckoutProofs`). `KeyInv` says what a request has in hand at each stage
(`Stages`), that quotes never change once issued (`QuoteBook`) and that no two orders share
owner and key (`Distinct`). Its heart is that a request past the lookup of its key holds the
key's lock until its commit, so that the lookup stays true; `KeysAreKept` shows every step
to be a step of `KeyedOrders` or a stutter. `CouponIsKept` is the same argument with the coupon's
row: a request that found the coupon usable holds its row until the commit.

`OrdersCostTheirQuote` needs both a state and a computation. The state is `QuoteInv`: from the
reading of the prices on a request holds lines with positive prices (`HasRead`), and from its
acceptance on exactly those of its quote, with a discount between zero and their sum
(`Agreed`), whatever happens to prices and carts. The computation is the loop over the brands:
the lemma `AllocationFold` follows the fold through the brands, with what is left of the discount
fitting what is left of the merchandise, for every order of the brands; `ShareBounds` is the
arithmetic of one share. The rounding of the proportional share needs no bound: the theorems
hold whatever it returns. `DiscountIsConserved` and `PartsWithinMerchandise` prove
what `docs/PRE_SHIP_CHECKPOINT_9.md` claims of the allocation. These three use
`ShopAssumption`: the catalogue is finite and carts hold variants.

`StockIsKept` is about the last unit. `StockKept` is inductive with `RowsHeld`: what requests
have reserved and not committed is disjoint, and each such row still has a unit, because a row
that is reserved is locked until the request ends. The count of the orders that hold a variant
then grows with its row.

*Sums* (`Sums`). `MapThenSumSet`, `SumFunctionOnSet` and `FoldSeq` are `CHOSEN` functions of the
community modules. That such a function exists, is unique, and that its sum is changed by
what one element is changed by, all need induction on a finite set. The library's rules of
induction take an operator, which the provers cannot instantiate; `SubsetInduction` takes the
property as the *set* of the subsets that have it and derives the rule from the
well-foundedness of the strict subset order. Everything about sums rests on it.

*Settlement* (`SettlementProofs`). Two layers. The arithmetic of `RefundSplit` comes first:
`Split` hands out exactly the amount and to no part more than its capacity, the last part
with room taking the residual (`SplitFits`); a `Reversal` never takes more
commission or earnings than the ledger has left; the offsets of a ledger that is written
after refunds, and the debits of one written before, leave it in `Fitting(p)`, the ledgers whose
net amounts are natural numbers (`SettledFits`, `ReversedFits`, `DebitFits`). The state comes
second: `MoneyInv` is `TypeOK` with

  - `RefundsBooked`: a refund allocates nothing before its confirmation and its whole amount
    after it;
  - `RefundsBounded`: what is allocated of a part, of a shipping fee and asked of an order
    stays within what was charged. `RefundsExplained` alone would not do: the next split needs
    room that the earlier ones left, part by part;
  - `LedgersFit`: each ledger fits and has received exactly what the refunds allocated to its
    part, whichever came first;
  - `PayoutsKnown` and `WalletsBalance`: pending is the net of ledgers on hold, and available
    with what was paid out, reserved and spent on slots is the net of released ledgers plus
    the shortfall the platform bore.

The sums of the properties range over sets that change (the confirmed refunds, the settled
parts); those of the invariant are columns over all refunds, parts and payouts with zeros, so
that a step changes one entry. `LimitsSuffice` says that a refund its limits let through
is never refused later: the checks inside allocation and reversal cannot fail.
`ReturnsCostTheirBrand` is the action property that the refund of a return leaves every other
brand's ledger and wallet alone.

*Payments* (`PayFastProofs`). `PayInv` relates attempts to their orders (`Ownership`),
requests for tokens to attempts (`Exchange`), verdicts to what the provider did
(`Verdicts`), the payment row to verdicts (`Books`), and says what was acted on (`Acted`)
and replaced (`Replaced`). With `TxPerBasket = 1` an attempt that failed can never be paid
any more, so the transactions that are paid are those of the active attempt; from this
follow `OrdersAreChargedOnce` and the refinement `PaymentKeepsPromise`.

*Outbox* (`NotificationOutboxProofs`). `OutboxInv` adds to three invariants `LockedIsOpen`
(a row in delivery is open: the dispatcher skips locked rows and replay needs a dead
letter), `OpenHasBudget` and `PhaseAgrees` (a delivery past the provider's acceptance had
no receipt and its customer has not left, one past its commit has a receipt or a customer
who left). The refinement needs the first and the last. Calls that were abandoned need no
invariant: each step that leaves one behind is itself a step the promise allows, because of
`PhaseAgrees`.

*Listings* (`ListingsProofs`). `LockInv`: at most one request holds the brand's row, and what
it has seen is what is there. `SlotInv` counts published products against the
counter. `ImageInv` keeps the images of products, of uploads in progress, of erasures in
progress and of the sweep apart from each other. `CoverInv` says that a cover is a
single image of its product; cardinalities follow from it.

*Reviews* (`CustomerProofs`). `RevInv` is the conjunction of the four properties with what the
transactions in progress have written (`Writers`), the time stamps on the screens
(`Screens`), the number of approved rows behind the aggregate (`Counters`) and who still
refers to a photo (`Photos`).

*Accounts* (`CustomerProofs`). `AccountsInv` is the properties with `Rotated` (a token has at
most one heir and none while it is usable), `LoneDefault`, and what is known of the clean-up:
an open event has deliveries left (`JobHasBudget`), and while Redis keeps something of a deleted
account its event is open or a dead letter (`StillInHand`). The latter, `CleanUpStaysInHand`, is the
safety half of `Forgotten`, whose other half stays with TLC.

*Returns* (`CustomerProofs`). `ReturnsInv` adds to the types that for each line active claims,
and units given back, stay within what was bought (`UnitsFit`), and that a refund waits only
for a received return and ends with it (`RefundsFollow`). As in the settlement the sums are
columns over all returns; a rejected return that is revived by a dispute enters its column
again, and fits because it is revalidated against the others then.

`PROJECT.json` lists the theorems. Each preservation lemma has one step per action.

*Only model-checked.* Liveness (`ReservationsExpire`, `HoldsEnd`, `EventsResolved`,
`RequestsEnd`, `Forgotten`): the prover has no rule for fairness and `ENABLED`. Every other
property of a passing run is a theorem. The violation runs are counterexamples and need
no proof.

## 6. Plan

What would come next, in order of importance:

1. That the atomic checkout of `OrderFulfilment` is what the steps of `Checkout` do to orders,
   parts and stock.
2. The amount of a return (`return_service.py` 712-724) beside the split of the discount:
   both round, on their own, and a return's refund may differ by a paisa from what the part
   has left, in which case it cannot be confirmed.
3. The lock orders of settlement, release and refunds, as `Checkout` does for its own;
   `docs/BACKEND_DEEP_REVIEW.md:311` and `docs/PRE_SHIP_CHECKPOINT_7.md:25` name mixed
   orders as unproven.
4. Accounts of sellers and administrators.

## 7. Not modelled, and why

The protocol with Google, signatures, TOTP, rendering of mails, image conversion and HTTP are
external or pure computation. Analytics, revenue, dashboards, search and in-app
notifications read, or write rows of a single owner that nothing else decides on; so do
votes, profile fields, preferences, texts and prices of products beyond what a quote
compares. Bank accounts of sellers are rows beside a payout that copies what it needs.
`seller_wallets.total_commission` is displayed only. Payments and refunds older than the
attempt and accounting tables follow legacy branches that new rows never reach, and
`coupon_service.apply_to_order` has no caller. Of the frontend only the checkout has state of
its own that survives a request.
