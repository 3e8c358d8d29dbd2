# Verification of E-comm

E-comm is a multi-store commerce platform: a FastAPI back end (`app/`) on
MongoDB, a React client (`client/`), payments through Razorpay, parcels through
Delhivery, messages through WhatsApp (Periskope). This directory holds TLA+
models of the back end's core and of the client's stateful pages, the TLC runs
that check them on small instances and theorems that TLAPS proves for every
instance.

Run a model with `tlc -workers 2 -config <run>.cfg <MC module>.tla` and check a
proof module with `tlapm <module>.tla`. `PROJECT.json` lists the runs, the
source lines each definition stands for, a mutation per property that the run
catches, the hazards and the theorems.

## How the program runs, and what follows for the models

**Back end.** Request handlers are synchronous functions in a thread pool, in
several processes; there is no task queue. MongoDB applies an operation on one
document atomically. A handler is a list of such operations, works from the
copies it read, and any other handler may run between two of its calls; a crash
may end it between any two. Only `commit_receiving` uses a transaction. So **an
action of a back-end module is one database call (or one stretch under a lock)
with the local computation around it**; each thread keeps a program counter and
the copy it decided on, and conditional updates (`update_one` with a filter) are
the only protection that exists.

**Client.** A page is single-threaded: an event handler runs to its next `await`
and its state changes are rendered together. What interleaves is the rest: the
answers of requests (late, lost, overtaken by a later request), a second click
before the page has rendered again, other tabs, timers, and the changes others
make at the server. So **an action of a page module is one handler up to its
request, the server's step of a request, or the arrival of an answer** with all
its callbacks; the server's part of the data is a variable beside the page's.
Where React Query keeps an answer, the model has the answer, whether it is
stale, and the request under way; `invalidateQueries` marks and asks again.

## The system's components

| Component | State | Operations | What makes it correct | Model |
|---|---|---|---|---|
| Checkout, payment, fulfilment (`routes/payment.py`, `services/order_fulfillment.py`) | `products.inventory`, `payment_intents`, `orders` | create-order with sweep and reservation, verify, webhook, COD order, refund of what cannot be filled | no oversell, no leak, no sale that is also refunded, effects once, claimed payments resolved | `Fulfillment` |
| Platform ledger (`services/ledger_service.py`) | `ledger_entries`, `payouts`, commission | record, courier charge, refunds, payout | paid plus due equals owed | `Ledger` |
| Returns (`services/return_service.py`) | `orders.returnRequest`, `refundedAmount` | request, reject, approve, receive, refund, ad-hoc refund | one refund, one restock, refunds counted | `Returns` |
| Order status and shipments (`routes/orders.py`, `routes/delhivery.py`, `services/shipment_sync.py`) | `orders.orderStatus`, `shipments` | admin changes, cancellation, shipping, polled and pushed scans | forward only, cancelled means restocked and refunded | `OrderStatus` |
| Inventory (`routes/product.py`, `services/inventory_receiving*.py`, `stock_movements.py`, `low_stock.py`) | `products.inventory`, `totalStock`, `stock_movements`, `inventory_receivings` | sale, restore, adjustment, edit, receiving, alert | the log explains the stock, a delivery counts once and as previewed | `Inventory` |
| Storefront cache (`services/cache.py`) | per process: pages, generations | get_or_set, invalidate_tenant | nothing older than an invalidation | `StorefrontCache` |
| Store billing (`services/billing_service.py`) | `tenants.billing` | checks, subscription webhooks, exemption | a store that has paid is not shut | `StoreBilling` |
| Invoices (`services/invoice_service.py`) | `invoices`, `credit_notes`, `counters` | issue, credit | one invoice, unique numbers | `Invoices` |
| Sign-in codes (`services/customer_otp_service.py`, `routes/auth.py`) | `customer_otps`, `users` | send, check, first sign-in | a code lets one in, guesses are limited | `CustomerOtp` |
| Opening a store (`services/store_signup_otp_service.py`, `tenant_service.py` and the signup page) | codes, `tenants`, `users` | send, verify, create | a store is opened only with its code | `StoreSignup` |
| Migrations (`migrations/runner.py`) | lock, `schema_migrations` | lock, take over, apply, record, unlock | applied once, in order | `MigrationRunner` |
| Sessions of a browser (`features/auth/token.ts`, `sessionSync.ts`, `authSlice.ts`, `client.ts`) | localStorage slots, the Redux session of every tab | sign-in and -out, 401, storage events, store changes, expiry | no session where it does not belong | `Session` |
| A shopper's pages | caches, forms, requests | cart, addresses, checkout, catalogue, product, dialogs, sign-in | what is shown is kept, what is sent was shown | `CartPage`, `AddressBook`, `CheckoutPage`, `Browsing`, `ProductPage`, `AlertQueue` (of `AlertPromise`), `SignInModal` |
| The staff's pages | the same | orders, products, stock, deliveries, imports, coupons and banners, payouts, managers, hours, layout, settings | the same | `OrderPage`, `OrderList`, `ProductTable`, `NewProduct`, `StockAdjust`, `ReceiveStock`, `BulkImport`, `PromotionDesk`, `PaymentDesk`, `ManagerDesk`, `StoreHours`, `ThemeStudio`, `SettingsDesk` |
| Coupons, menu orders | `coupons.usedCount`, `orders` | limits, settling a guest's cart | limits hold, paid is not cancelled | planned |
| Notifications, rate limits, images, SEO, reports, observability, export tools, marketing pages, chatbot parser | single documents or none | saves, queries, rendering | nothing several steps can break | not modelled |

How they interact: a sale and a restore are the same two functions,
`decrement_variant_stock` and `restore_variant_stock`, in every component that
makes them. `Fulfillment` looks at *who holds which units*, `Inventory` at *what
one such call does inside* beside the admin's own changes. A paid order writes a
ledger entry; cancellation, returns and ad-hoc refunds reverse it; a tracking
scan brings the courier's charge. Each meets the ledger as one call of a
`record_...` or `sync_...` function, the actions of `Ledger`. Admin changes of a
product end in `invalidate_tenant`: `Inventory` extends `StorefrontCache` and
drives it. The pages meet the back end in single requests, so a page module has
the server's document as one variable and one action per route; `StoreHours`,
`StoreSignup` and `SettingsDesk` model both sides.

The hard behaviours, listed line by line under "hazards" in `PROJECT.json`:
copies that are stale when written back (`_save_return`, `record_payout`,
`_persist_product_update`, a form opened before another's change), the window
between a check and its write (code attempts, invoice reads, cancellation, the
busy flag of a button), crashes between two writes that belong together,
redelivered or late outside events (webhooks, tracking pushes, lost answers),
and answers that arrive for a page that has moved on.

## The modules

### Orders, money and stock

**`Fulfillment`** — `stock` and the history `taken` count units; `req[c]` is
where the customer's request of checkout `c` stands (sweep, restore, reserve,
rollback, insert), `job[w]` where a verify or webhook worker stands, `status`,
`reserved`, the ages `abandoned` and `stale`, and `payment` are the intent and
Razorpay's view of it. `SweepOne`/`SweepRestore` are the body of
`expire_abandoned_payment_intents`, `Claim` is `_claim_intent` with its takeover
after two minutes, `InsertOrder` the insert on the unique index. `CrashRequest`
and `CrashWorker` end a request anywhere. `Legacy` checkouts have an intent
created before stock was reserved at create-order, so their worker reserves.
`SlowHandlers` says whether a live handler may outlast its claim.

**`Ledger`** — one entry per order; a thread's `copy` is the entry it read, and
`...Read`/`...Write` are the two calls of every function, with any other thread's
calls between them. Amounts are whole paise, percentages rounded as `_round2` does.
`paidOut` and `returned` are what payouts and Razorpay did, kept to compare the
entry with. What the code does not prevent is not cut away: the step in which it
happens notes it in `marred` for that order. There are five such mishaps: `stale`,
an operation wrote what it would not have written from the entry as it was by
then; `charge`, the courier's charge came after a refund; `twice`, a payout listed
what another was still marking; `unseen`, an order was refunded as a whole when its
entry did not show all that payouts paid; `crash`, an operation was cut short, or
the ledger failed. `set_tenant_commission` only changes the rate that the next
`RecordOrder` reads, and is the choice of a rate there.

**`Returns`** — the order document, the ledger's refunded amount `booked`, what
Razorpay paid back, and threads that load the order, decide, and save the whole
`returnRequest`. A refund is booked in the ledger as the code does it, by a read
(`ReadEntry`) and a later write (`BookRefund`), and stands when the ledger fails
(`LedgerFails`). The lines returned are the part of the price they are worth.
Histories: `crossings` counts the handlers that began while another had the goods
in hand, `overbooked` says that a booking wrote over one made after its read.

**`OrderStatus`** — one order and its shipment, the admin's handlers and the
tracking handlers, a parcel whose scans are polled or pushed late and out of
order. Cancelling restores, refunds, cancels the parcel and only then writes the
status, each step an action. No handler crashes in this module.

**`StorefrontCache`** — one page of one store; `page`, `generation` per process,
a reader between every two locked sections of `get_or_set`; `floor` remembers
the version at the last invalidation.

**`Inventory`** (extends `StorefrontCache`) — one product. A request's first call
is an action (`Sell`, `Restore`, `Adjust`, `Edit`, `Commit`) and leaves the calls
it still has to make in `job[t].todo`, in the code's order; `Reload`,
`WriteTotal`, `WriteForm`, `Log`, `Alert` and `DropPages` make them.

### Other services

**`CustomerOtp`** — codes of one phone number, two concurrent checks as jobs of
several calls (find, count the attempt, spend, find or create the customer), and
what they opened. **`StoreSignup`** — the form's steps and the server's codes and
stores. **`MigrationRunner`** — runners with the lock document, its heartbeat and
take-over, the records they read and write, crashes and the operator's unlock.
**`StoreBilling`** — the clock, the billing document, requests that each work from
the copy they loaded, the subscriptions at Razorpay and its webhooks, numbered as
they were sent and delivered in any order and again. `upset` notes what the code
does not prevent, where it happens: a write that a fresh copy would not have led
to, a charge or a failure told of after a newer charge, a new subscription in a
period that is paid, an exemption taken back. A charge that is told in time and
written as it should be clears it.
**`Invoices`** — the counters, the unique index and requests that read, draw a
number and insert, with crashes and the end of the financial year.

### The browser

**`Session`** — `storage` holds the admin slot, a slot per store and the old
single key; every tab has a `view` (its slot, token, tenant) and may be `stale`
until its storage event arrives. `Dispatch` runs `checkTenant` to rest as the
store's subscriber does. Sign-ins and requests carry the slot they began with, so
their answers can come after the page moved on.

**`CheckoutPage`**, **`CartPage`**, **`AddressBook`**, **`ProductPage`**,
**`Browsing`** — the pages up to an order. **`AlertQueue`** — `AlertProvider`
with its queue of dialogs, double clicks, the native fallback while it is not
mounted; it implements **`AlertPromise`**, what `showAlert` and `showConfirm`
promise their callers. **`SignInModal`** — the popup and the wish it was opened
for.

**`OrderPage`**, **`OrderList`**, **`ProductTable`**, **`NewProduct`**,
**`StockAdjust`**, **`ReceiveStock`**, **`BulkImport`**, **`PromotionDesk`**
(coupons and banners: `kind` says which), **`PaymentDesk`**, **`ManagerDesk`**,
**`StoreHours`** (with `is_open`, the next change and the cached storefront),
**`ThemeStudio`**, **`SettingsDesk`** (delivery, WhatsApp and tax forms: `desk`
says which).

Variables named in a comment as histories (`crossed`, `lost`, `unheard`,
`outlived`, `untold`, `strayed`, ...) record what a property excuses: a request
whose answer never came, or a change made by somebody else after the page last
asked.

### Instances

`MCFulfillment`, `MCInventory` and `MCSession` give the constants values;
`Ledger`, `Returns`, `OrderStatus`, `MCShop` and `MCDesk` take theirs from the
`.cfg`. `MCShop` and `MCDesk` hold many small modules that share nothing: each is an
`INSTANCE`, the variable `part` is chosen once and says which of them runs, and
`Next` lets only that one step. The variables of each page and service are kept
apart, those of what does not run stay `None`, and what the proofs need to know of
the constants are the assumptions `ShopAssumption`, `PagesAssumption` and
`ServicesAssumption`. A property of such a run is one question asked of several
pages and speaks through `part` of the one that runs.

Definitions whose comment begins with "Mutant" are used by the mutation entries
of `PROJECT.json`, or are further mutants listed below; no specification uses
them.

## The runs

| Run | Bounds | Shows |
|---|---|---|
| `payment_claims` | 3 online carts (one legacy) for 2 items, 2 workers, a crash | no sale that is also refunded, no leak, fulfilled means complete, final statuses stay |
| `stock_contention` | 2 online carts and a COD one for 2 units, slow handlers, a crash | orders stay backed, nothing oversold, nothing released twice |
| `claimed_payment_resolves` | 2 carts (one legacy), 2 workers, slow handlers, a crash, fairness | effects once; a claimed payment ends as order, refund or recorded refusal |
| `late_payment` (violation) | the same without crashes | a payment captured after its intent was swept is never resolved |
| `ledger_exact` | 2 orders of 100 paise, 2 threads, 2 refunds (of all or of 45), 2 payouts, a crash, one rate, fee and courier's charge (3.1 million states) | every operation as two calls that cross: refunds and commission in range; settled entries show what was paid and stand still unless written from a stale copy; no paisa lost or paid twice (one may be rounded away by each refund of a part) unless a mishap befell the order |
| `returns` | 2 threads, desk operations crossing each other and refunds crossing ad-hoc refunds; 2 requests, an ad-hoc refund, a crash, a lost answer, a refusal, a failure of the ledger (0.6 million states) | one refund per return (of goods received), one restock but for the crossings counted, nothing counted as refunded that was not, all of it counted unless noted, every claim ends |
| `received_during_refund` (violation) | receive and refund overlap | a stale save reopens a refunded return, which is refunded again |
| `order_on_its_way` | 2 threads, 3 tracking calls, store handlers one at a time, no crash | scans only move forward and leave a closed shipment alone; cancelled means restocked and refunded |
| `inventory_stock` | 2 variants, 2 request threads, a reader, 2 sales/restores/adjustments/edits and a delivery | the log explains the stock, deliveries once and as previewed, no stale page |
| `browser_sessions` | 2 tabs, 2 stores (one with a tenantId slot), 3 customer tokens and a staff one, a sign-in and a request per tab | no session of the wrong kind or store, tabs agree with the storage once they heard, a session ends for a reason only |
| `shop_pages` | 7 pages, each alone: 1 or 2 of everything, up to 3 moves | see below |
| `staff_and_services` | 13 pages and 5 services, each alone: 1 or 2 of everything, two requests at once; up to 3 rows and 2 windows that count, 3 billing requests, 2 webhooks and 2 subscriptions, 2 credit notes (2 million states) | see below |

The properties of the last two runs, by page:

| Property | What it asks |
|---|---|
| `CouponOrdersAreQuoted` | no order with a coupon is sent before the page shows its price with that coupon |
| `NeverStuckBusy` (liveness) | the order button is free again, whatever fails |
| `PromiseKept` (refinement) | `AlertQueue` implements `AlertPromise`, that every call is answered in the end included |
| `ActsAreMeant` | a click answers the dialog it was made on; what a shopper gave up at the sign-in is not done by a later one |
| `CatalogueSettles` | filters and address come to rest on what was picked last |
| `ShopShowsWhatIsKept` | cart, address of the order, hearts and delivery terms shown are the server's once nothing is on its way |
| `DesksShowWhatIsKept` | the same for nine pages of the staff |
| `WrittenAsAgreed` | units received are those of the confirmed preview; the product saved or created, the sheet imported is the form's |
| `ServicesKeepTheirWord` | codes open their store and let one in, migrations once and in order, invoices stand, a paid store stays open |
| `ChangeIsAnnounced` | a store that opens or closes had announced that moment |

Why these bounds are enough to be worth something: every race named in the
hazards is between two handlers, requests or tabs, and two run at once in every
run; a third party (a sweep, a crash, a redelivery, another member of staff) is
there beside them. Of other things there is often one: one rate and one charge in
`ledger_exact`, one ad-hoc refund in `returns`, one shirt on the receiving page;
the theorems hold for any number. Quantities are chosen so that not everybody can have what he wants,
so both branches of every conditional update are taken. Every action and disjunct
of every next-state relation fires in some passing run, and every property fails
under a plausible mutation of the code.

`CHECK_DEADLOCK FALSE` where it stands: with bounded requests a finished history
stops, and the program may be idle.

**Bounds and switches that leave out known behaviour.** Each is a guard named in
its module.

- `Fulfillment`: `SlowHandlers = FALSE` in `payment_claims`. With a legacy intent
  and a handler slower than two minutes, a takeover can reserve twice, or one
  handler refunds what the other sells. `NothingLeaks` and `FulfilledIsComplete`
  speak of crash-free histories: a crash between reservation and intent does leak
  units in the code.
- `Returns`: only the operations in `Overlapping` run at once: the desk's among
  themselves, refunds and ad-hoc refunds among themselves. What a receive that
  overlaps a refund costs is what `received_during_refund` shows.
- `OrderStatus`: `StaffOverlap = FALSE`. Two cancellations at once restore twice,
  and `create_shipment`'s last write can overwrite a cancellation. No crashes: one
  between the restock and the status of a cancellation leaves the goods back and
  the order standing, to be cancelled and restocked again.
- `Inventory`: no crash, a log row's insert succeeds, the product is not deleted,
  `Threshold = 0`, forms are loaded from the present or the first inventory. A
  snapshot transaction with write conflicts is one atomic step.
- `Ledger` and `StoreBilling` leave out no interleaving; their properties name the
  mishaps that excuse them, in `marred` and `upset`.
- The pages: `MaxMoves`, `MaxEdits`, `MaxCalls`, `MaxJobs`, `MaxClicks`,
  `MaxTime` and their like only end a history; they cut off no single step.

## Fairness

`FairSpec` of `Fulfillment`: a worker that runs goes on (`WF`), a claim grows old
(`WF`, the clock), and Razorpay redelivers `payment.captured` until it gets a 2xx
(`SF` on the delivery, since a worker may be busy in between); requests of
customers and crashes are not fair. Without redelivery a crashed worker's claim
would stay, which is what `_claim_intent`'s takeover counts on. `FairSpec` of
`Returns`: a handler that has begun goes on; nobody has to begin one.

`CheckoutPage`: a request for the order is answered or fails in the end
(`OrderAnswered`; the client sets no timeout of its own, so this is the browser
giving up a dead connection) and a started navigation happens (`Left`); the
shopper need not do anything, so an open payment dialog may stay open. `AlertQueue`: somebody
clicks the dialog on the screen in the end (`Click`), without which no call
could ever be promised an answer.

## What is proved

All for every value of the constants that the modules' `ASSUME`s admit.

**`FulfillmentProofs`**. `Typed`: every reachable state is well typed. `TypeOK`
is not inductive, since a sweep's victim and a worker's checkout must be real
ones where they are used; `TypeInv` adds that. `SideEffectsOnce`: coupon count
and cart are touched at most once per checkout. The unique index elects one
winner; `EffectsInv` adds that a worker whose insert won finds the order there
and no effects yet, that two such workers are never of one checkout, and the
same for a COD request.

With `ASSUME Legacy = {}` (every intent was created by the present code), crashes
and slow handlers included: `OrdersStayBacked` and `NeverOverReleased`, by the
invariant `SetAside`, which says who is entitled to a checkout's units (its
request, its intent, its order, or the one sweep that expired it), that what is
entitled is taken, that a worker past its claim found them reserved, and that an
expired intent is given back by one sweep only. `NothingIsOversold` adds
conservation: `Out(i)` is the set of units of an item that checkouts took, each a
pair of checkout and ordinal, and `Conserved` says that the shelf and its
cardinality make up the initial stock. A step adds or removes one `Block` of
units, so no sum has to be folded; the units sold are a subset of `Out(i)` by
`OrdersStayBacked`.

With `ASSUME Legacy = {} \/ ~SlowHandlers`: `EndsAreFinal` and
`NoneSoldAndRefunded`. Without slow handlers the argument is ownership
(`Claims`): a worker past its claim is the only one of its checkout and the
intent is `processing` (`OwnerInv`), it knows whether there is an order
(`PlacedInv`), and a refunded payment is nobody's to fulfil (`RefundInv`: whoever
takes over from a crashed refund asks Razorpay first). Without legacy intents it
is `SetAside`: a worker refunds only what it could not reserve, and never has to
reserve.

With `ASSUME ~SlowHandlers`: `NothingIsLeft` and `FulfilledMeansDone`. Both hold
only of histories without a crash, so the invariant `CalmInv` is an implication:
while `crashes = 0` every processing intent has a worker (`FinishInv`), and what
a checkout took is its cart or nothing, item by item, as the one party in charge
of it `Holds` it (`AccountInv`; `OneInCharge` shows that there is one party).

**`LedgerProofs`**, without an assumption beyond the constants' types: any number of
threads, refunds, payouts and crashes, in any order and overlap. `LedgerTyped` and
`RefundsWithinPrice`: the invariant follows the stale copies; whatever age a copy
has, it is of the same order, whose price never changes, and its own sums respect
that price (`Sound`), so writing it back cannot break them.
`SettledShowsWhatWasPaid` and `SettledEntriesStand`: a write that is not `stale` is
the write the entry of now would have got, so each function is looked at as if it
were one step (`Wrote`), and a settled entry is either left alone, marked with what
was paid, or reopened. `StoresArePaidWhatTheyAreOwed`: `Books` says, for an order no
mishap befell, that what payouts paid, what is outstanding and what a payout is
still marking make up what the entry owes, and that the entry's sums differ from
those of what Razorpay returned by the parts still to be told (`ToTell`, counted in
paise as the cardinality of `Held`) and by at most a paisa a part (`Rounding`). The
steps that recompute a commission rest on lemmas about the code's rounding
(`PercentSplit`).

**`ReturnsProofs`**. `ReturnsTyped`, `GoodsRestockedOnce` and `RefundsAllCounted`
whatever overlaps. `GoodsRestockedOnce`: a handler that has the goods in hand may
restock them, as may the next to begin when nobody has them in hand and the
document does not have them back; `Slots` counts both, and only a crossing or a
crash makes one more. `RefundsAllCounted`: what Razorpay paid back is booked or in
a handler's hands, unit by unit (`Pending`), and what a booking has read is behind
by no less than what remains to be booked (`Behind`), so it never counts more than
was paid back; the order's own sum never exceeds it either (`Counted`). With
`ASSUME RefundsApart` (no desk operation overlaps a refund) `ReturnRefundedOnce`:
one refund holds the claim at a time (`OneHolder`), and while a refund may still be
asked for, Razorpay was sent at most the requests whose answers were lost
(`SentOnce`).

**`OrderStatusProofs`**. `StatusTyped`; `TrackingNeverMovesBack`: a tracking
handler's write is conditional on what it read (`ParcelFirst`), so the action
property is one comparison of stages. `GoodsBackOnce` and `MoneyBackOrMarked`,
with `ASSUME ~StaffOverlap`: by `CancelInv` a cancellation under way is the only
staff request, has restored exactly when it is past that call, and saves the
status only once the refund was given or marked as failed.

**`InventoryProofs`**. `CacheIsFresh`: with `FillsAreFresh`, a page whose
generation still stands was built after the last invalidation. `DrivesTheCache`:
`Inventory` implements `StorefrontCache`; `PagesAreFresh` follows. `ChangesShow`:
`Covered` says that a request that wrote version n either still has the
invalidation in its plan or the floor has reached n. `DeliveriesOnce` and
`DeliveriesAsPreviewed`: by `ReceivingInv` the times a delivery was added are what
the receivings on record say, and the comparison with the preview and the
increments are one step. `HistoryExplains`: `Accounted` says that the stock plus
what is adrift is the first stock, the logged changes, and the changes that the
requests under way will log. That last sum, over any number of requests, is the
`Balance` of a function: the cardinality of its units above zero less that of
those below, which `BalanceFollows` moves by the difference of one argument.

**`SessionProofs`**, for any stores, tokens and tabs. `SessionTypes` and
`SlotsKeepTheirKindAlways`. The property is nearly inductive: what every read and
write of a slot goes through (`Stored`, `SlotForToken`) preserves it, and the
invariant adds the types and that only an open page waits for a storage event
(`StaleIsOpen`). `TabsAgree`, `ShoppersOfTheirStore`: `ViewsOK` says that an open
tab has checked what it shows (`Settled`) and, when no event is on its way to it,
shows what is in storage; each helper of `token.ts` is shown to preserve it.
`NoSessionEndsOtherwise`: each write of a slot keeps it, belongs to a click, or
has a `Reason` (an expired or revoked token, a session of another store).

**`ShopProofs`**, of the pages as `MCShop` composes them. `CouponsAreQuoted`: the
strengthening `QuotedOrRefused` says that a preview at rest either is a quote for
the coupon chosen or has set the coupon's error, and both the error and a preview
under way switch the button off. `NothingIsDoneUnasked` and
`ProviderKeepsThePromise`, the safety of the refinement of `AlertPromise`: the
dialog on the screen is the head of the queue, nobody waits twice, everybody who
waits is unanswered (`QueueOK`), and who was clicked has that answer
(`ClicksOK`), so a second click, handled late, finds its dialog gone; a wish
given up at the sign-in is no longer the one kept for its success (`WishInv`).
`ShownIsKept`: while no change that was made waits for its answer, what a page
fetched, or is about to be shown, is what the server keeps (`CartKept`,
`BookKept`, `WishesKept`), and the address an order would go to is the card
highlighted. `FiltersSettle`, for any number of moves: the history stands at the
address on the screen unless another is on its way, and when it does the filters
agree with that address (`Standing`); the lists asked for are those of the address
the history stands at; and the addresses in the history, one more while the
copies differ and one until the catalogue is known are at most two and three a
move, so the two copies cannot chase each other.

**`DeskProofs`**, of the services and pages as `MCDesk` composes them. `ServicesKeep`
joins an invariant of each of the five services:

- `StoreSignup`, `SignupInv`: a call that is past reading its code, and a store,
  hold a code of their own number (`HoldsCode`), which stays because codes are only
  added or marked; the index on the owner's email lets in a first store only.
- `CustomerOtp`, `OtpInv`: a wrong guess is compared before it is counted, so the
  guesses of a code are at most the attempts on record and the requests about to
  count one (`GuessesCounted`), a finite number; a code was let in once exactly when
  it is spent; there is never a second account to land in (`OneCustomer`).
- `MigrationRunner`, `RunnerInv`: what is not applied is on every runner's list
  (`LeftToDo`), so the least of a list has all its predecessors applied
  (`InOrder`, by well-foundedness of the order of the ids); a migration is started
  again only after a stop that paid for it (`StartsAccounted`); and until there is
  a stop the holder of the lock is the only one at work (`OneAtWork`).
- `StoreBilling`, `BillingInv`: every webhook on its way or being handled tells what
  Razorpay did by then (`SentFit`), a charge that failed later than another means
  that the other's period was over (`InOrderOfTime`), so unless there was an upset no
  failure that is not late finds the store in a period it has paid (`FailsUnpaid`,
  `PaidTo`), and the status, the grace and the end on the document are those of what
  the store was told (`Agrees`), which a write that a fresh copy would have led to
  preserves.
- `Invoices`, `TaxInv`: every number in a request's hands, on an invoice or on a
  note was drawn from its counter (`NumbersDrawn`), two hands or papers of one kind
  never hold the same one, and every answer is the invoice on record, which is
  written once. Ends of years draw from a new counter; a crash only loses a number.

`DesksAreTrue` (`DesksShowWhatIsKept`), `FormsAreWritten` (`WrittenAsAgreed`) and
`ChangesAnnounced` (`ChangeIsAnnounced`) join an invariant of each of the 13 pages.
A page that reads again after every change is right when nothing is on its way;
the invariants say what holds while something is:

- `OrderPage`, `OrderInv`: an order that was read is the order kept, unless an
  answer that changed it is on its way back or a scan is not yet read.
- `OrderList`, `ListInv`: one change is under way at a time (`OneAtATime`), and the
  page asked for has a row once that change's reload is answered (`Fits`). The rows
  are the orders of certain ranks in a finite set of numbers, so a page has one
  exactly when the set has more orders than the pages before it hold.
- `PromotionDesk`, `PromotionInv`: the form knows whose fields it holds, and changes
  that did not cross run one by one, each up to the reload that follows it.
- `PaymentDesk`, `PayInv`: only the range shown is fetched (`OneFetch`); an answer kept
  that is not stale is the ledger's, and so is the one in flight (`AnswersFresh`).
- `ManagerDesk`, `TeamInv`: a list that is not asked for again is the server's
  (`ListsFresh`); a row that was not ticked holds what was saved or is being saved (`RowsSaved`).
- `StockAdjust`, `AdjustInv`: stock and history shown are the server's unless an
  answer or a reload is on its way (`StockShown`, `HistoryShown`); a dialog has one
  change under way, though those of closed dialogs may be too (`OneOfADialog`).
- `SettingsDesk`, `SettingsInv`: a field that was not typed in is what the server
  keeps, or what the one save in flight will make it (`ErrandStands`).
- `ThemeStudio`, `ThemeInv`: an untouched draft is the layout the page loaded, with
  no other preview mixed in (`DraftIsLayout`).
- `StoreHours`, `HoursInv`: a save that was served left the server with `Normalized`
  of what was sent. The server keeps windows that count, in another order. Their
  places in the list have the ranks 1, 2 and so on, so sorting is a bijection on them
  (`SortedIs`), a sorted list of windows that count loses none when it is
  counted again (`CountedTwice`), and page and server decide alike. `ChangesAnnounced`:
  at any moment other than the announced one, no window that counts begins or ends.
- `ReceiveStock`, `ReceiveInv`: a signed preview counts each variant once, and the
  token being committed is one whose warnings, if any, were ticked.
- `ProductTable`, `TableInv`: photos in the form, in flight and on the product are of
  that product (`PhotosStay`) unless an upload outlived its modal.
- `NewProduct`, `NewInv`: the rows are within palette and cut, and the photos of
  colours in the form, except for those of a colour dropped with photos on their way or by
  the store's kind.
- `BulkImport`, `ImportInv`: drafts on the page and in every step of an import are
  those of a sheet (`AsRead`). Parsing gathers a product's items row by row, a
  recursive function; that no variant is listed twice after any number of rows is
  shown by the first row after which it would fail (`LeastExists`).

Why each assumption is there: `Legacy`, `SlowHandlers`, `RefundsApart` and
`StaffOverlap` name behaviour of the code under which the property fails, as listed
under the bounds above; a theorem that does not name one holds with it on.

Only model-checked: liveness (`ClaimedIsResolved`, `ClaimEnds`, `NeverStuckBusy` and
the fairness half of `PromiseKept`), which needs fairness and `ENABLED`. Every
invariant and action property of the passing runs is a theorem. Two algorithms
would have called for induction over data, whose library theorems take an operator
as a parameter and cannot be used here: the sort of the windows is defined by ranks
and the items of a sheet by a function on its rows, each reasoned about by a least
counterexample.

## Findings

Two runs expect a violation; `PROJECT.json` quotes the text each contradicts.

1. `late_payment`: a payment captured after the sweep expired its intent.
2. `received_during_refund`: a slow mark-received reopens a refunded return.

### Known divergences

Further places where code and text, or two parts of the code, disagree. The
definitions are in the modules and the instance that shows each is given.

- `Ledger`, each excused by its mishap; without that conjunct `ledger_exact` finds it:
  a payout settles an amount that changed after it was summed, or a reversal is
  written over by a charge read before it (`stale`); `_recompute_net` (81-87) forgets
  the refunded amount (`charge`); two payouts pay one entry (`twice`); a whole refund
  of an entry that was settled and reopened overwrites the first adjustment
  (`ledger_service.py:222-228`, `unseen`).
- `Returns`: two bookings of refunds that cross lose one of them in the ledger
  (`ledger_service.py:244` and 280, `overbooked`), and two receives that overlap
  restock twice (`crossings`).
- `DeliveredReachesOrder` (`OrderStatus`), added to `OrderStatus_way.cfg`: the
  conditional update to delivered is not retried, and the shipment closes.
- `LowStockIsTold` (`Inventory`): one variant, two threads, no reader or
  receiving, `Threshold = 1`, `MaxOps = 2`: two sales at once cross the threshold
  and nobody is told.
- `ShownSessionIsStored` (`Session`): `authSlice.ts:16` calls `state.auth` the
  session of the context being viewed, but reading a token that has expired
  removes it from the storage (`token.ts:271-273`, for a request at
  `client.ts:29`) and leaves the page's session as it was.
- `NoPhotoIsSkipped` (`BulkImport`): the page asks to fix missing photos before
  importing (`BulkProductImport.tsx:294`), but photos chosen before the sheet is
  read clear the messages about them (45-54), and the import starts without.
- `OpensWhenCountedDown` (`StoreHours`): the closed notice labels the time to the
  next change "Opens in" (`StoreClosedOverlay.tsx:94`), though that change need
  not open the store.
- `RevertedIsLoaded` (`ThemeStudio`): "Reverted to last loaded layout from API"
  (`useThemeCustomizer.ts:145-151`) is said of a draft that was resolved with this
  browser's preview in it.
- `NeverAnEmptyPage` (`OrderList`): the list steps back from a page its last order
  left (`AdminTenantOrders.tsx:167-168`) by the number of rows of the render the
  click was made in; two changes that overlap leave an empty page.
- `SettingsDesk`: a GSTIN of another state is "caught here as well as on the
  server" (`TaxSettingsPage.tsx:80-83`); `upsert_profile` (`tax.py:50-70`) does not
  compare the two, and the model's server does not either.
- Codes: the hourly limit counts only codes the TTL index has not yet removed, so
  it is a limit per ten minutes; an older unspent code works again once a newer
  one is spent; registering by email keeps the number as typed (`auth.py:107`), so
  one number may have two accounts.
- `StoreBilling`, each excused by `upset`: a check that overlaps a webhook writes its
  stale status over the charge (`billing_service.py:133`); pending and halted set
  past_due although the period runs, when they come late or are of a new
  subscription (306-312, comment 314-315); lifting an exemption suspends a store
  that pays; a charge of a replaced subscription is ignored.
- `Invoices`: credit notes of one invoice may add up to more than it
  (`invoice_service.py:112`), since each is compared alone.
- `StoreSignup`: the code is spent without a condition; only the unique index on
  the owner's email keeps two requests from opening two stores.

### Further mutants

A property of `shop_pages` or `staff_and_services` is a question to several
pages, and `PROJECT.json` holds one mutant of each. These were checked in the
same way, and each violates the property named:

- `DesksShowWhatIsKept`: `ManagerDesk` ReadAgain as KeepReading, `PaymentDesk`
  Invalidate as KeepAnswers, `PromotionDesk` ResetForm as ResetKeepingId,
  `StockAdjust` OverrideAnswered as OverrideChosen, `SettingsDesk` KeepsForm as
  AnySaveKeepsForm, `ThemeStudio` TenantSaved as TenantKeepsFooter, `OrderList`
  PageAfter as StaysOnPage, `StoreHours` Normalized as CutBeforeChecked.
- `WrittenAsAgreed`: `ReceiveStock` RowsAreRight as RowsAnyhow, `ProductTable`
  ColourIsNew as ColourIsSpeltAnew, `NewProduct` HandleRemoveColor as
  RemoveColorOnly, `BulkImport` SameVariant as SameId.
- `ServicesKeepTheirWord`: `StoreSignup` Unspent as UnspentAnyPhone, `CustomerOtp`
  Create as CreateAnyhow, `MigrationRunner` ReadApplied as TrustPending and Release
  as ReleaseAnyones, `StoreBilling` Charged as ChargedUnlessShut, `Invoices`
  InsertInvoice as AnswerOwn.
- `ActsAreMeant`: `SignInModal` CloseLogin as CloseKeepingWish.
- `CatalogueSettles`: `Browsing` FromUrl as FromUrlBefore.
- `ShopShowsWhatIsKept`: `AddressBook` Deleted as DeletedUnlisted, `ProductPage`
  Reread as KeepReading.
- `OneRefundPerReturn`: `Returns` NeedsRestock as RestockNever;
  `TrackingMovesForward`: `OrderStatus` Records as RecordsAlways.

## What is not modelled, and why

Prices, discounts, shipping and tax are values chosen with the checkout; message
texts, images, SEO, reports and layout hold no state that these properties see.
Authorisation decides who may take an action and is a precondition of it. The
sync job's lease and pacing are left out, so scans are allowed to overlap more
than they do. Dashboards, reports, customers, categories, reviews, order history,
the dine-in menu and the super admin's pages show one read or send one form, in
ways the modelled pages already have. The chatbot's parser is a pure function of
a text. Two requests inside the server's cart, wishlist and address handlers are
one step here.

## Plan

1. `Coupons` with the server's `Cart`: limits read at checkout and counted after
   the order, the cart deleted by the side effects.
2. `Menu`: settling and marking paid beside cancellation.
3. A lease module for the sync job beside `MigrationRunner`, and an abstract lock
   both implement as long as a holder refreshes in time.
4. Password reset and sign-in; the GST split as a function against a reference.
5. `Inventory`: product deletion, the draft product a receiving creates.
6. An abstract `Sale` that `Fulfillment` refines.
