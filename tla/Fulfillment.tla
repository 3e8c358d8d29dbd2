------------------------------ MODULE Fulfillment ------------------------------
(***************************************************************************)
(* Retail checkout: reserving stock, taking the payment and turning a      *)
(* captured payment into an order (services/order_fulfillment.py,          *)
(* services/payment_validation.py, routes/payment.py).                     *)
(*                                                                         *)
(* A checkout is one run of POST /payments/create-order (Online) or of     *)
(* POST /orders/cod (Cod).  Both run in a thread pool, so every MongoDB    *)
(* write is atomic and nothing larger is.  A worker runs                   *)
(* fulfill_captured_payment for one delivery of a captured payment: the    *)
(* browser's /verify or the payment.captured webhook, either of them late, *)
(* repeated, or both at once.  The sweep of abandoned intents runs inside  *)
(* create-order, before it reserves.                                       *)
(***************************************************************************)
EXTENDS Integers, FiniteSets

CONSTANTS
    Item,          \* product variants
    Online,        \* checkouts paid through Razorpay
    Cod,           \* cash-on-delivery checkouts
    Legacy,        \* the Online ones whose intent predates stock reservation
    Worker,        \* threads that fulfil payments
    InitialStock,  \* stock on the shelf, per item
    Want,          \* quantity in the cart, per checkout and item
    SweepLimit,    \* expire_abandoned_payment_intents(limit)
    MaxCrashes,    \* bound: how many requests a crash may cut short
    SlowHandlers,  \* may a live request outlast PROCESSING_STALE_MINUTES?
    None

Checkout == Online \union Cod

ASSUME CheckoutAssumption ==
    /\ Online \intersect Cod = {}
    /\ Legacy \subseteq Online
    /\ None \notin Checkout

ASSUME StockAssumption ==
    /\ InitialStock \in [Item -> Nat]
    /\ Want \in [Checkout -> [Item -> Nat]]

ASSUME BoundAssumption ==
    /\ SweepLimit \in Nat
    /\ MaxCrashes \in Nat
    /\ SlowHandlers \in BOOLEAN

VARIABLES
    stock,      \* products.inventory[].stock
    taken,      \* net units each checkout took (the stock_movements history)
    req,        \* the create-order or COD request of each checkout
    status,     \* payment_intents.status; "none" before the intent exists
    reserved,   \* payment_intents.stockReserved
    abandoned,  \* createdAt is older than PAYMENT_INTENT_ABANDON_MINUTES
    stale,      \* processingAt is older than PROCESSING_STALE_MINUTES
    payment,    \* the payment as Razorpay knows it
    order,      \* does orders hold an order of this checkout?
    booked,     \* does ledger_entries hold an entry of that order?
    effects,    \* how often _apply_order_side_effects ran for the checkout
    job,        \* what each worker is doing
    crashes     \* requests lost to a crash so far

vars == <<stock, taken, req, status, reserved, abandoned, stale, payment,
          order, booked, effects, job, crashes>>

intentVars == <<status, reserved, abandoned, stale>>
orderVars  == <<order, booked, effects>>

ReqPc == {"idle", "sweep", "restore", "reserve", "rollback", "held",
          "release", "open", "insert", "effects", "done", "rejected", "dead"}
JobPc == {"idle", "validate", "find", "check", "claim", "refind", "recheck",
          "prepare", "reserve", "rollback", "refund", "refunded",
          "refundFailed", "flag", "insert", "ledger", "effects", "mark"}
Status == {"none", "pending", "processing", "fulfilled", "expired",
           "refunded", "refund_failed"}

Request == [pc : ReqPc, todo : SUBSET Item, found : SUBSET Checkout,
            victim : Checkout \union {None}]
Job == [pc : JobPc, of : Checkout \union {None}, todo : SUBSET Item,
        had : BOOLEAN]

NoJob == [pc |-> "idle", of |-> None, todo |-> {}, had |-> FALSE]

\* The variants a checkout's cart holds; _build_order_items turns them into
\* order lines.
Lines(c) == {i \in Item : Want[c][i] > 0}

TypeOK ==
    /\ stock \in [Item -> Nat]
    /\ taken \in [Checkout -> [Item -> Int]]
    /\ req \in [Checkout -> Request]
    /\ status \in [Checkout -> Status]
    /\ reserved \in [Checkout -> BOOLEAN]
    /\ abandoned \in [Checkout -> BOOLEAN]
    /\ stale \in [Checkout -> BOOLEAN]
    /\ payment \in [Checkout -> {"none", "captured", "refunded"}]
    /\ order \in [Checkout -> BOOLEAN]
    /\ booked \in [Checkout -> BOOLEAN]
    /\ effects \in [Checkout -> Nat]
    /\ job \in [Worker -> Job]
    /\ crashes \in 0..MaxCrashes

Init ==
    /\ stock = InitialStock
    /\ taken = [c \in Checkout |-> [i \in Item |-> 0]]
    /\ req = [c \in Checkout |->
                [pc |-> IF c \in Legacy THEN "open" ELSE "idle",
                 todo |-> {}, found |-> {}, victim |-> None]]
    /\ status = [c \in Checkout |-> IF c \in Legacy THEN "pending" ELSE "none"]
    /\ reserved = [c \in Checkout |-> FALSE]
    /\ abandoned = [c \in Checkout |-> FALSE]
    /\ stale = [c \in Checkout |-> FALSE]
    /\ payment = [c \in Checkout |-> "none"]
    /\ order = [c \in Checkout |-> FALSE]
    /\ booked = [c \in Checkout |-> FALSE]
    /\ effects = [c \in Checkout |-> 0]
    /\ job = [w \in Worker |-> NoJob]
    /\ crashes = 0

-------------------------------------------------------------------------------
(* Stock: one conditional $inc, one unconditional $inc *)

\* Mutant: the match asks for any stock at all.
CanDecrementAny(c, i) == stock[i] > 0

\* decrement_variant_stock matches the variant only while it has enough.
CanDecrement(c, i) == stock[i] >= Want[c][i]

Decrement(c, i) ==
    /\ stock' = [stock EXCEPT ![i] = @ - Want[c][i]]
    /\ taken' = [taken EXCEPT ![c][i] = @ + Want[c][i]]

\* restore_variant_stock
Restore(c, i) ==
    /\ stock' = [stock EXCEPT ![i] = @ + Want[c][i]]
    /\ taken' = [taken EXCEPT ![c][i] = @ - Want[c][i]]

\* The step of _reserve_stock that takes one line, shared by its callers: the
\* lines still to take, and where the request goes when it has them all.
TakeLine(c, todo, i) == i \in todo /\ CanDecrement(c, i) /\ Decrement(c, i)

\* Mutants: the rollback restores every line, or forgets the lines it took.
TakenBeforeAll(c, todo) == Lines(c)
TakenBeforeNone(c, todo) == {}

\* A line that is out of stock sends back the lines taken before it.
TakenBefore(c, todo) == Lines(c) \ todo

-------------------------------------------------------------------------------
(* POST /payments/create-order and POST /orders/cod *)

Goto(c, pc) == req' = [req EXCEPT ![c].pc = pc]
GotoWith(c, pc, todo) == req' = [req EXCEPT ![c].pc = pc, ![c].todo = todo]

\* The intents the sweep's query matches.
Sweepable(c) == status[c] = "pending" /\ reserved[c] /\ abandoned[c]

\* create_order begins: calculate_checkout only reads; the sweep lists a batch.
CreateOrder(c) ==
    /\ c \in Online /\ req[c].pc = "idle"
    /\ LET hits == {d \in Checkout : Sweepable(d)}
       IN \E batch \in SUBSET hits :
            /\ \/ batch = hits /\ Cardinality(hits) <= SweepLimit
               \/ Cardinality(batch) = SweepLimit
            /\ req' = [req EXCEPT ![c].pc = "sweep", ![c].found = batch]
    /\ UNCHANGED <<stock, taken, intentVars, payment, orderVars, job, crashes>>

\* Mutant: the sweep updates whatever it listed, unless already fulfilled.
ExpireGuardLost(d) == status[d] # "fulfilled"

\* The status guard of the sweep's find_one_and_update.
ExpireGuard(d) == status[d] = "pending"

\* One listed intent: the atomic claim pending -> expired, lost or won.
SweepOne(c, d) ==
    /\ req[c].pc = "sweep" /\ d \in req[c].found
    /\ IF ExpireGuard(d)
       THEN /\ status' = [status EXCEPT ![d] = "expired"]
            /\ req' = [req EXCEPT ![c] = [pc |-> "restore", todo |-> Lines(d),
                                          found |-> @.found \ {d}, victim |-> d]]
       ELSE /\ req' = [req EXCEPT ![c].found = @ \ {d}]
            /\ UNCHANGED status
    /\ UNCHANGED <<stock, taken, reserved, abandoned, stale, payment,
                   orderVars, job, crashes>>

\* The won intent's reserved items go back one by one.
SweepRestore(c, i) ==
    /\ req[c].pc = "restore" /\ i \in req[c].todo
    /\ Restore(req[c].victim, i)
    /\ req' = [req EXCEPT ![c].todo = @ \ {i}]
    /\ UNCHANGED <<intentVars, payment, orderVars, job, crashes>>

SweepNext(c) ==
    /\ req[c].pc = "restore" /\ req[c].todo = {}
    /\ req' = [req EXCEPT ![c].pc = "sweep", ![c].victim = None]
    /\ UNCHANGED <<stock, taken, intentVars, payment, orderVars, job, crashes>>

\* reserve_checkout_stock after the sweep; fulfil_cod_order has no sweep.
StartReserve(c) ==
    /\ \/ c \in Online /\ req[c].pc = "sweep" /\ req[c].found = {}
       \/ c \in Cod /\ req[c].pc = "idle"
    /\ GotoWith(c, "reserve", Lines(c))
    /\ UNCHANGED <<stock, taken, intentVars, payment, orderVars, job, crashes>>

ReserveLine(c, i) ==
    /\ req[c].pc = "reserve"
    /\ TakeLine(c, req[c].todo, i)
    /\ req' = [req EXCEPT ![c].todo = @ \ {i}]
    /\ UNCHANGED <<intentVars, payment, orderVars, job, crashes>>

ReserveFails(c, i) ==
    /\ req[c].pc = "reserve" /\ i \in req[c].todo
    /\ ~CanDecrement(c, i)
    /\ GotoWith(c, "rollback", TakenBefore(c, req[c].todo))
    /\ UNCHANGED <<stock, taken, intentVars, payment, orderVars, job, crashes>>

\* The rollback inside _reserve_stock, and release_reserved_stock.
GiveBackLine(c, i) ==
    /\ req[c].pc \in {"rollback", "release"} /\ i \in req[c].todo
    /\ Restore(c, i)
    /\ req' = [req EXCEPT ![c].todo = @ \ {i}]
    /\ UNCHANGED <<intentVars, payment, orderVars, job, crashes>>

Rejected(c) ==
    /\ req[c].pc \in {"rollback", "release"} /\ req[c].todo = {}
    /\ Goto(c, "rejected")
    /\ UNCHANGED <<stock, taken, intentVars, payment, orderVars, job, crashes>>

ReserveDone(c) ==
    /\ req[c].pc = "reserve" /\ req[c].todo = {}
    /\ Goto(c, IF c \in Online THEN "held" ELSE "insert")
    /\ UNCHANGED <<stock, taken, intentVars, payment, orderVars, job, crashes>>

\* Razorpay accepts the order and the intent is inserted, pending and reserved.
InsertIntent(c) ==
    /\ req[c].pc = "held"
    /\ Goto(c, "open")
    /\ status' = [status EXCEPT ![c] = "pending"]
    /\ reserved' = [reserved EXCEPT ![c] = TRUE]
    /\ UNCHANGED <<stock, taken, abandoned, stale, payment, orderVars, job,
                   crashes>>

\* Either call raises: the except branch releases what was reserved.
InsertIntentFails(c) ==
    /\ req[c].pc = "held"
    /\ GotoWith(c, "release", Lines(c))
    /\ UNCHANGED <<stock, taken, intentVars, payment, orderVars, job, crashes>>

\* _finalize_order_from_checkout for COD: insert, then the side effects.
InsertCodOrder(c) ==
    /\ req[c].pc = "insert"
    /\ Goto(c, "effects")
    /\ order' = [order EXCEPT ![c] = TRUE]
    /\ UNCHANGED <<stock, taken, intentVars, payment, booked, effects, job,
                   crashes>>

CodSideEffects(c) ==
    /\ req[c].pc = "effects"
    /\ Goto(c, "done")
    /\ effects' = [effects EXCEPT ![c] = @ + 1]
    /\ UNCHANGED <<stock, taken, intentVars, payment, order, booked, job,
                   crashes>>

-------------------------------------------------------------------------------
(* The customer, Razorpay and the clock *)

\* Checkout.js opens on the created order; the order at Razorpay never expires.
Pay(c) ==
    /\ req[c].pc = "open" /\ payment[c] = "none"
    /\ payment' = [payment EXCEPT ![c] = "captured"]
    /\ UNCHANGED <<stock, taken, req, intentVars, orderVars, job, crashes>>

Abandon(c) ==
    /\ status[c] = "pending" /\ ~abandoned[c]
    /\ abandoned' = [abandoned EXCEPT ![c] = TRUE]
    /\ UNCHANGED <<stock, taken, req, status, reserved, stale, payment,
                   orderVars, job, crashes>>

\* Two minutes pass on a claim.  Unless handlers may be that slow, every
\* request that was working on the payment has ended by then.
ClaimAges(c) ==
    /\ status[c] = "processing" /\ ~stale[c]
    /\ SlowHandlers \/ \A w \in Worker : job[w].of # c
    /\ stale' = [stale EXCEPT ![c] = TRUE]
    /\ UNCHANGED <<stock, taken, req, status, reserved, abandoned, payment,
                   orderVars, job, crashes>>

-------------------------------------------------------------------------------
(* fulfill_captured_payment, one delivery per worker *)

At(w, pc) == job[w].pc = pc
Step(w, pc) == job' = [job EXCEPT ![w].pc = pc]
StepWith(w, pc, todo) == job' = [job EXCEPT ![w].pc = pc, ![w].todo = todo]
Answer(w) == job' = [job EXCEPT ![w] = NoJob]

\* /verify or a (re)delivery of the webhook reaches a thread.
Deliver(w, c) ==
    /\ At(w, "idle") /\ payment[c] # "none"
    /\ job' = [job EXCEPT ![w] = [NoJob EXCEPT !.pc = "validate", !.of = c]]
    /\ UNCHANGED <<stock, taken, req, intentVars, payment, orderVars, crashes>>

\* validate_captured_payment: captured at Razorpay, and the intent exists.
Validate(w) ==
    /\ At(w, "validate")
    /\ LET c == job[w].of
       IN IF payment[c] = "captured" /\ status[c] # "none"
          THEN Step(w, "find") ELSE Answer(w)
    /\ UNCHANGED <<stock, taken, req, intentVars, payment, orderVars, crashes>>

\* An order that exists is the answer: this delivery changes nothing.
FindExisting(w) ==
    /\ At(w, "find")
    /\ IF order[job[w].of] THEN Answer(w) ELSE Step(w, "check")
    /\ UNCHANGED <<stock, taken, req, intentVars, payment, orderVars, crashes>>

\* _validate_payment_intent refuses what was already refunded, only that.
CheckIntent(w) ==
    /\ At(w, "check")
    /\ IF status[job[w].of] \in {"refunded", "refund_failed"}
       THEN Answer(w) ELSE Step(w, "claim")
    /\ UNCHANGED <<stock, taken, req, intentVars, payment, orderVars, crashes>>

\* Mutants: a claim in progress is not respected, never handed over, or the
\* filter on the status is gone.
ClaimableAlways(c) == status[c] \in {"pending", "processing"}
ClaimableOnce(c) == status[c] = "pending"
ClaimableAny(c) == TRUE

\* The filter of _claim_intent's find_one_and_update.
Claimable(c) == \/ status[c] = "pending"
                \/ status[c] = "processing" /\ stale[c]

\* It returns the document as it was before: had is its stockReserved.
Claim(w) ==
    /\ At(w, "claim")
    /\ LET c == job[w].of
       IN IF Claimable(c)
          THEN /\ status' = [status EXCEPT ![c] = "processing"]
               /\ stale' = [stale EXCEPT ![c] = FALSE]
               /\ job' = [job EXCEPT ![w].pc = "recheck",
                                     ![w].had = reserved[c]]
          ELSE Step(w, "refind") /\ UNCHANGED <<status, stale>>
    /\ UNCHANGED <<stock, taken, req, reserved, abandoned, payment, orderVars,
                   crashes>>

\* Not claimed: the order of whoever won, or 409 "still being processed".
Refind(w) ==
    /\ At(w, "refind")
    /\ Answer(w)
    /\ UNCHANGED <<stock, taken, req, intentVars, payment, orderVars, crashes>>

\* Claimed: a previous owner may have inserted the order before it stopped.
Recheck(w) ==
    /\ At(w, "recheck")
    /\ IF order[job[w].of] THEN Step(w, "mark") ELSE Step(w, "prepare")
    /\ UNCHANGED <<stock, taken, req, intentVars, payment, orderVars, crashes>>

\* _prepare_paid_order_items: create_order requires the address and built the
\* same lines, so only a legacy snapshot can lack one and be refunded.
Prepare(w) ==
    /\ At(w, "prepare")
    /\ LET c == job[w].of
       IN \/ IF job[w].had THEN Step(w, "insert")
             ELSE StepWith(w, "reserve", Lines(c))
          \/ c \in Legacy /\ Step(w, "refund")
    /\ UNCHANGED <<stock, taken, req, intentVars, payment, orderVars, crashes>>

\* _reserve_paid_order_stock, when the intent held no reservation.
PaidReserveLine(w, i) ==
    /\ At(w, "reserve")
    /\ TakeLine(job[w].of, job[w].todo, i)
    /\ job' = [job EXCEPT ![w].todo = @ \ {i}]
    /\ UNCHANGED <<req, intentVars, payment, orderVars, crashes>>

PaidReserveFails(w, i) ==
    /\ At(w, "reserve") /\ i \in job[w].todo
    /\ ~CanDecrement(job[w].of, i)
    /\ StepWith(w, "rollback", TakenBefore(job[w].of, job[w].todo))
    /\ UNCHANGED <<stock, taken, req, intentVars, payment, orderVars, crashes>>

PaidGiveBack(w, i) ==
    /\ At(w, "rollback") /\ i \in job[w].todo
    /\ Restore(job[w].of, i)
    /\ job' = [job EXCEPT ![w].todo = @ \ {i}]
    /\ UNCHANGED <<req, intentVars, payment, orderVars, crashes>>

PaidRollbackDone(w) ==
    /\ At(w, "rollback") /\ job[w].todo = {}
    /\ Step(w, "refund")
    /\ UNCHANGED <<stock, taken, req, intentVars, payment, orderVars, crashes>>

PaidReserveDone(w) ==
    /\ At(w, "reserve") /\ job[w].todo = {}
    /\ Step(w, "flag")
    /\ UNCHANGED <<stock, taken, req, intentVars, payment, orderVars, crashes>>

FlagReserved(w) ==
    /\ At(w, "flag")
    /\ reserved' = [reserved EXCEPT ![job[w].of] = TRUE]
    /\ Step(w, "insert")
    /\ UNCHANGED <<stock, taken, req, status, abandoned, stale, payment,
                   orderVars, crashes>>

\* _refund_payment: Razorpay refunds a payment once, and may refuse; a timeout
\* looks like a refusal whatever Razorpay did.
Refund(w) ==
    /\ At(w, "refund")
    /\ LET c == job[w].of
       IN \/ /\ payment[c] = "captured"
             /\ payment' = [payment EXCEPT ![c] = "refunded"]
             /\ Step(w, "refunded") \/ Step(w, "refundFailed")
          \/ UNCHANGED payment /\ Step(w, "refundFailed")
    /\ UNCHANGED <<stock, taken, req, intentVars, orderVars, crashes>>

\* _mark_intent_refunded filters on the intent's _id alone.
MarkRefunded(w) ==
    /\ job[w].pc \in {"refunded", "refundFailed"}
    /\ status' = [status EXCEPT ![job[w].of] =
                    IF At(w, "refunded") THEN "refunded" ELSE "refund_failed"]
    /\ Answer(w)
    /\ UNCHANGED <<stock, taken, req, reserved, abandoned, stale, payment,
                   orderVars, crashes>>

\* Mutant: no unique index, every insert succeeds.
DuplicateNever(c) == FALSE

\* The unique index on orders.razorpayOrderId.
Duplicate(c) == order[c]

\* _insert_order: a duplicate answers with the order that is there.
InsertOrder(w) ==
    /\ At(w, "insert")
    /\ LET c == job[w].of
       IN IF Duplicate(c) THEN Answer(w) /\ UNCHANGED order
          ELSE order' = [order EXCEPT ![c] = TRUE] /\ Step(w, "ledger")
    /\ UNCHANGED <<stock, taken, req, intentVars, payment, booked, effects,
                   crashes>>

\* record_order_ledger_entry is best effort: its failure is logged.
RecordLedger(w) ==
    /\ At(w, "ledger")
    /\ \E ok \in BOOLEAN : booked' = [booked EXCEPT ![job[w].of] = @ \/ ok]
    /\ Step(w, "effects")
    /\ UNCHANGED <<stock, taken, req, intentVars, payment, order, effects,
                   crashes>>

\* _apply_order_side_effects: the coupon's usedCount, then the cart.
SideEffects(w) ==
    /\ At(w, "effects")
    /\ effects' = [effects EXCEPT ![job[w].of] = @ + 1]
    /\ Step(w, "mark")
    /\ UNCHANGED <<stock, taken, req, intentVars, payment, order, booked,
                   crashes>>

\* _mark_intent_fulfilled filters on the intent's _id alone.
MarkFulfilled(w) ==
    /\ At(w, "mark")
    /\ status' = [status EXCEPT ![job[w].of] = "fulfilled"]
    /\ Answer(w)
    /\ UNCHANGED <<stock, taken, req, reserved, abandoned, stale, payment,
                   orderVars, crashes>>

-------------------------------------------------------------------------------
(* Crashes: the process dies between two writes of a request *)

CrashWorker(w) ==
    /\ ~At(w, "idle") /\ crashes < MaxCrashes
    /\ Answer(w)
    /\ crashes' = crashes + 1
    /\ UNCHANGED <<stock, taken, req, intentVars, payment, orderVars>>

CrashRequest(c) ==
    /\ req[c].pc \notin {"idle", "open", "done", "rejected", "dead"}
    /\ crashes < MaxCrashes
    /\ req' = [req EXCEPT ![c].pc = "dead"]
    /\ crashes' = crashes + 1
    /\ UNCHANGED <<stock, taken, intentVars, payment, orderVars, job>>

-------------------------------------------------------------------------------

RequestStep(c) ==
    \/ CreateOrder(c) \/ SweepNext(c) \/ StartReserve(c) \/ Rejected(c)
    \/ ReserveDone(c) \/ InsertIntent(c) \/ InsertIntentFails(c)
    \/ InsertCodOrder(c) \/ CodSideEffects(c)
    \/ \E d \in Checkout : SweepOne(c, d)
    \/ \E i \in Item : \/ SweepRestore(c, i) \/ ReserveLine(c, i)
                       \/ ReserveFails(c, i) \/ GiveBackLine(c, i)

WorkerStep(w) ==
    \/ Validate(w) \/ FindExisting(w) \/ CheckIntent(w) \/ Claim(w)
    \/ Refind(w) \/ Recheck(w) \/ Prepare(w) \/ PaidRollbackDone(w)
    \/ PaidReserveDone(w) \/ FlagReserved(w) \/ Refund(w) \/ MarkRefunded(w)
    \/ InsertOrder(w) \/ RecordLedger(w) \/ SideEffects(w) \/ MarkFulfilled(w)
    \/ \E i \in Item : \/ PaidReserveLine(w, i) \/ PaidReserveFails(w, i)
                       \/ PaidGiveBack(w, i)

Environment ==
    \/ \E c \in Checkout : \/ Pay(c) \/ Abandon(c) \/ ClaimAges(c)
                           \/ CrashRequest(c)
    \/ \E w \in Worker : CrashWorker(w) \/ \E c \in Checkout : Deliver(w, c)

Next ==
    \/ \E c \in Checkout : RequestStep(c)
    \/ \E w \in Worker : WorkerStep(w)
    \/ Environment

Spec == Init /\ [][Next]_vars

\* Threads that run keep running, time passes on a claim, and Razorpay
\* redelivers payment.captured until it gets a 2xx answer.
Fairness ==
    /\ \A w \in Worker : WF_vars(WorkerStep(w))
    /\ \A c \in Checkout : WF_vars(ClaimAges(c))
    /\ \A c \in Checkout : SF_vars(\E w \in Worker : Deliver(w, c))

FairSpec == Spec /\ Fairness

-------------------------------------------------------------------------------
(* Properties *)

\* The units of item i, one by one, that the orders in the database promise.
Sold(i) ==
    UNION {{c} \X (1..Want[c][i]) : c \in {d \in Checkout : order[d]}}

\* The store never sells more of an item than it had on the shelf, however
\* reservations, sweeps, takeovers and fulfilments interleave.
SoldWithinStock == \A i \in Item : Cardinality(Sold(i)) <= InitialStock[i]

\* An order's goods stay set aside: no sweep, rollback or release ever puts
\* back the stock of a checkout that has become an order (the race the atomic
\* claim of expire_abandoned_payment_intents is there to close).
OrderBacked ==
    \A c \in Checkout : order[c] => \A i \in Item : taken[c][i] >= Want[c][i]

\* No checkout gives back more than it took, whoever gives it back: its own
\* request, the sweep of another one, or the worker that fulfils it.
NoOverRelease == \A c \in Checkout, i \in Item : taken[c][i] >= 0

\* The coupon count and the cart are touched at most once per checkout, by the
\* request whose insert won, and only for an order that exists.
EffectsOnce ==
    \A c \in Checkout : effects[c] <= 1 /\ (effects[c] = 1 => order[c])

\* While no handler outlasts the two minutes of a claim, a customer who has
\* the order was not also refunded by the fulfilment that gave up on it.
NotBothSoldAndRefunded ==
    \A c \in Checkout : order[c] => payment[c] # "refunded"

\* No request and no worker is busy with checkout c.
Quiet(c) ==
    /\ req[c].pc \in {"open", "done", "rejected"}
    /\ \A d \in Checkout : req[d].victim # c
    /\ \A w \in Worker : job[w].of # c

\* Nothing leaks: without crashes, a checkout nobody is working on holds
\* exactly its cart while its intent is pending or its order stands, and
\* nothing otherwise.
NothingLeaks ==
    crashes = 0 =>
        \A c \in Checkout : Quiet(c) =>
            \A i \in Item : taken[c][i] =
                IF order[c] \/ (status[c] = "pending" /\ reserved[c])
                THEN Want[c][i] ELSE 0

\* A fulfilled intent is complete: without crashes the mark comes after the
\* order, the ledger attempt and the side effects, even when two deliveries of
\* one payment run at once.
FulfilledIsComplete ==
    crashes = 0 =>
        \A c \in Checkout :
            status[c] = "fulfilled" => order[c] /\ effects[c] = 1

\* An intent that reached its end keeps it: the unconditional status writes of
\* _mark_intent_fulfilled and _mark_intent_refunded never overwrite one
\* another or an expiry, as long as no handler outlasts its claim.
FinalStatusStays ==
    [][\A c \in Checkout :
         status[c] \in {"fulfilled", "expired", "refunded", "refund_failed"}
            => status'[c] = status[c]]_status

\* A payment that a delivery claimed ends as an order, a refund, or a refusal
\* that support sees, though workers crash in the middle: the claim goes stale
\* and a redelivery takes it over.
ClaimedIsResolved ==
    \A c \in Online :
        status[c] = "processing" ~>
            (order[c] \/ payment[c] = "refunded" \/ status[c] = "refund_failed")

\* docs/payment-workflow.md: when the browser never reaches /verify, the
\* payment.captured webhook can still fulfil the same intent.  So a captured
\* payment ends as an order, a refund, or a recorded refusal.
CapturedIsResolved ==
    \A c \in Online :
        payment[c] = "captured" ~>
            (order[c] \/ payment[c] = "refunded" \/ status[c] = "refund_failed")
===============================================================================
