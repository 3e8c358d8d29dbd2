-------------------------------- MODULE Returns --------------------------------
(***************************************************************************)
(* The return of a delivered order (services/return_service.py): the       *)
(* customer requests it, the store rejects or approves it, marks the goods *)
(* received and refunds the payment.  Ad-hoc refunds of the same payment   *)
(* come from POST /payments/refund (routes/payment.py).                    *)
(*                                                                         *)
(* Every handler loads the order, decides on that copy, and writes the     *)
(* whole returnRequest back by _id; only issue_refund claims the return    *)
(* with a conditional update before it calls Razorpay.  What was refunded  *)
(* is then added to the ledger by a read and a later write (record_order_- *)
(* refund and record_partial_refund, services/ledger_service.py).          *)
(***************************************************************************)
EXTENDS Integers, FiniteSets, FiniteSetsExt

CONSTANTS
    Thread,        \* request threads
    Total,         \* what the customer paid
    Values,        \* what the lines of a return are worth; Total: all of them
    AdHoc,         \* amounts of ad-hoc refunds; 0: whatever is left
    Overlapping,   \* sets of operations that may run at the same time
    MaxRequests,   \* bound: returns the customer asks for
    MaxAdHoc,      \* bound: ad-hoc refunds
    MaxRefusals,   \* bound: refusals by Razorpay for reasons of its own
    MaxLost,       \* bound: answers of Razorpay lost after it refunded
    MaxUnbooked,   \* bound: refunds the ledger fails to record
    MaxCrashes     \* bound: handlers cut short

Op == {"request", "reject", "approve", "receive", "refund", "adhoc"}

ASSUME ReturnsAssumption ==
    /\ IsFiniteSet(Thread)
    /\ Total \in Nat \ {0} /\ Values \subseteq 1..Total /\ AdHoc \subseteq 0..Total
    /\ Overlapping \subseteq SUBSET Op
    /\ {MaxRequests, MaxAdHoc, MaxRefusals, MaxLost, MaxUnbooked, MaxCrashes} \subseteq Nat

VARIABLES
    cod,       \* paid in cash: refunds happen outside Razorpay
    doc,       \* the order document
    booked,    \* ledger_entries.refundedAmount
    thread,    \* what each thread is doing, and the copy it decided on
    returned,  \* what Razorpay paid back
    sent,      \* history: Razorpay refunds sent for the return
    restocked, \* history: how often the returned goods went back into stock
    crossings, \* history: handlers that began on goods another had in hand
    overbooked,\* history: a booking wrote over one that came after its read
    bounds     \* requests, ad-hoc refunds, refusals, lost answers, refunds not
               \* recorded, crashes so far

vars == <<cod, doc, booked, thread, returned, sent, restocked, crossings, overbooked,
          bounds>>
goods == <<restocked, crossings>>

Return == [status : {"none", "requested", "rejected", "approved", "received",
                     "refunded"},
           value : 0..Total, stockRestored : BOOLEAN, refundId : BOOLEAN,
           refundInProgress : BOOLEAN]

NoReturn == [status |-> "none", value |-> 0, stockRestored |-> FALSE,
             refundId |-> FALSE, refundInProgress |-> FALSE]

Doc == [orderStatus : {"delivered", "return_requested", "return_approved",
                       "returned", "partially_returned", "refunded",
                       "partially_refunded"},
        ret : Return, refunded : 0..Total]

Delivered == [orderStatus |-> "delivered", ret |-> NoReturn, refunded |-> 0]

Pc == {"idle", "loaded", "stocked", "counted", "claimed", "failed", "paid",
       "booking", "booked"}

\* read: the ledger's refundedAmount that a booking found.
Activity == [op : Op \union {"none"}, pc : Pc, copy : Doc, amount : 0..Total,
             already : 0..Total, read : 0..Total]

Idle == [op |-> "none", pc |-> "idle", copy |-> Delivered, amount |-> 0,
         already |-> 0, read |-> 0]

TypeOK ==
    /\ cod \in BOOLEAN
    /\ doc \in Doc
    /\ booked \in 0..Total
    /\ thread \in [Thread -> Activity]
    /\ returned \in 0..Total
    /\ sent \in Nat /\ restocked \in Nat /\ crossings \in Nat
    /\ overbooked \in BOOLEAN
    /\ bounds \in [requests : 0..MaxRequests, adhoc : 0..MaxAdHoc,
                   refusals : 0..MaxRefusals, lost : 0..MaxLost,
                   unbooked : 0..MaxUnbooked, crashes : 0..MaxCrashes]

Init ==
    /\ cod \in BOOLEAN
    /\ doc = Delivered
    /\ booked = 0
    /\ thread = [t \in Thread |-> Idle]
    /\ returned = 0
    /\ sent = 0 /\ restocked = 0 /\ crossings = 0
    /\ overbooked = FALSE
    /\ bounds = [requests |-> 0, adhoc |-> 0, refusals |-> 0, lost |-> 0,
                 unbooked |-> 0, crashes |-> 0]

-------------------------------------------------------------------------------
(* What a handler decides from the copy it loaded *)

Whole(ret) == ret.value = Total

\* can_customer_request_return, within the return window.
CanRequest(d) ==
    d.orderStatus = "delivered" /\ d.ret.status \in {"none", "rejected"}

\* issue_refund: received goods, and no refund on record yet.
CanRefund(ret) == \/ ret.status = "received"
                  \/ ret.status = "refunded" /\ ~ret.refundId

Allowed(op, d) ==
    \/ op = "request" /\ CanRequest(d)
    \/ op \in {"reject", "approve"} /\ d.ret.status = "requested"
    \/ op = "receive" /\ d.ret.status \in {"approved", "received"}
    \/ op = "refund" /\ CanRefund(d.ret)
    \/ op = "adhoc" /\ ~cod

\* Mutant: refunds made outside the return are not counted.
AlreadyOnOrder(d, inLedger) == d.refunded

\* _already_refunded: the order's and the ledger's figure, the larger.
AlreadyRefunded(d, inLedger) == Max({d.refunded, inLedger})

Remaining(already) == Max({Total - already, 0})

\* calculate_refund_amount
RefundAmount(ret, already) ==
    IF Whole(ret) THEN Remaining(already) ELSE Min({ret.value, Remaining(already)})

\* A partial return that reaches what is left refunds the rest in full.
FullRefund(ret, already) ==
    Whole(ret) \/ RefundAmount(ret, already) >= Remaining(already)

\* Razorpay is asked for whatever is left, and the ledger told of the whole order.
InFull(a) == IF a.op = "adhoc" THEN a.amount = 0
             ELSE FullRefund(a.copy.ret, a.already)

-------------------------------------------------------------------------------
(* Loading and saving *)

At(t, op, pc) == thread[t].op = op /\ thread[t].pc = pc
Step(t, pc) == thread' = [thread EXCEPT ![t].pc = pc]
Finish(t) == thread' = [thread EXCEPT ![t] = Idle]
Count(what) == bounds' = [bounds EXCEPT ![what] = @ + 1]

\* Two operations run at once only when they are together in a set of Overlapping.
MayStart(t, op) ==
    /\ thread[t] = Idle
    /\ \A u \in Thread : thread[u] = Idle
                         \/ \E ops \in Overlapping : {op, thread[u].op} \subseteq ops

\* A handler of the goods decides on a copy that does not have them back in stock.
Desk == {"request", "reject", "approve", "receive"}
InHand(a) == a.op \in Desk /\ ~a.copy.ret.stockRestored

Crossing(op) ==
    op \in Desk /\ ~doc.ret.stockRestored /\ \E u \in Thread : InHand(thread[u])

CountCrossing(op) ==
    crossings' = crossings + IF Crossing(op) THEN 1 ELSE 0

\* _load_order and the checks on the document it returned.
Load(t, op) ==
    /\ op \notin {"request", "adhoc"}
    /\ MayStart(t, op) /\ Allowed(op, doc)
    /\ thread' = [thread EXCEPT ![t] = [Idle EXCEPT !.op = op, !.pc = "loaded",
                                                    !.copy = doc]]
    /\ CountCrossing(op)
    /\ UNCHANGED <<cod, doc, booked, returned, sent, restocked, overbooked, bounds>>

\* request_return: the customer chooses lines worth value.
LoadRequest(t, value) ==
    /\ MayStart(t, "request") /\ Allowed("request", doc)
    /\ bounds.requests < MaxRequests /\ Count("requests")
    /\ thread' = [thread EXCEPT ![t] =
                    [Idle EXCEPT !.op = "request", !.pc = "loaded",
                                 !.copy = doc, !.amount = value]]
    /\ CountCrossing("request")
    /\ UNCHANGED <<cod, doc, booked, returned, sent, restocked, overbooked>>

\* _save_return filters on _id alone and replaces the whole returnRequest.
SaveReturn(t, ret, orderStatus) ==
    /\ doc' = [doc EXCEPT !.ret = ret, !.orderStatus = orderStatus]
    /\ Finish(t)
    /\ UNCHANGED <<cod, booked, returned, sent, goods, overbooked, bounds>>

SaveRequest(t) ==
    /\ At(t, "request", "loaded")
    /\ SaveReturn(t, [NoReturn EXCEPT !.status = "requested",
                                      !.value = thread[t].amount],
                  "return_requested")

SaveRejected(t) ==
    /\ At(t, "reject", "loaded")
    /\ SaveReturn(t, [thread[t].copy.ret EXCEPT !.status = "rejected"], "delivered")

\* After the courier was asked for a reverse pickup, with or without success.
SaveApproved(t) ==
    /\ At(t, "approve", "loaded")
    /\ SaveReturn(t, [thread[t].copy.ret EXCEPT !.status = "approved"],
                  "return_approved")

\* Mutants: marking received twice restocks twice; the goods are forgotten.
RestockAlways(ret) == TRUE
RestockNever(ret) == FALSE

NeedsRestock(ret) == ~ret.stockRestored

Restock(t) ==
    /\ At(t, "receive", "loaded")
    /\ restocked' = restocked + IF NeedsRestock(thread[t].copy.ret) THEN 1 ELSE 0
    /\ Step(t, "stocked")
    /\ UNCHANGED <<cod, doc, booked, returned, sent, crossings, overbooked, bounds>>

SaveReceived(t) ==
    /\ At(t, "receive", "stocked")
    /\ LET ret == thread[t].copy.ret
       IN SaveReturn(t, [ret EXCEPT !.status = "received", !.stockRestored = TRUE],
                     IF Whole(ret) THEN "returned" ELSE "partially_returned")

-------------------------------------------------------------------------------
(* issue_refund *)

\* Cash on delivery: only the record changes.
RefundManually(t) ==
    /\ At(t, "refund", "loaded") /\ cod
    /\ LET ret == thread[t].copy.ret
       IN SaveReturn(t, [ret EXCEPT !.status = "refunded"],
                     IF Whole(ret) THEN "refunded" ELSE "partially_refunded")

\* The amounts, and the refusal when nothing is left for a partial return.
CountRefunded(t) ==
    /\ At(t, "refund", "loaded") /\ ~cod
    /\ LET ret == thread[t].copy.ret
           already == AlreadyRefunded(thread[t].copy, booked)
           amount == RefundAmount(ret, already)
       IN IF amount <= 0 /\ ~Whole(ret)
          THEN Finish(t)
          ELSE thread' = [thread EXCEPT ![t].pc = "counted",
                             ![t].already = already, ![t].amount = amount]
    /\ UNCHANGED <<cod, doc, booked, returned, sent, goods, overbooked, bounds>>

\* Mutant: the claim looks at the status alone.
UnclaimedStatus(ret) == ret.status = "received"

\* The filter of the find_one_and_update that claims the refund.
Unclaimed(ret) == ret.status = "received" /\ ~ret.refundInProgress

ClaimRefund(t) ==
    /\ At(t, "refund", "counted")
    /\ IF Unclaimed(doc.ret)
       THEN /\ doc' = [doc EXCEPT !.ret.refundInProgress = TRUE]
            /\ Step(t, "claimed")
       ELSE Finish(t) /\ UNCHANGED doc
    /\ UNCHANGED <<cod, booked, returned, sent, goods, overbooked, bounds>>

\* Razorpay pays back what is left, or a part of it, or refuses.
PaysBack(a) == IF InFull(a) THEN Total - returned ELSE a.amount

RazorpayAccepts(t) ==
    /\ At(t, "refund", "claimed")
    /\ PaysBack(thread[t]) > 0 /\ returned + PaysBack(thread[t]) <= Total
    /\ returned' = returned + PaysBack(thread[t])
    /\ sent' = sent + 1
    /\ \/ Step(t, "paid") /\ UNCHANGED bounds
       \/ /\ bounds.lost < MaxLost /\ Count("lost")
          /\ Step(t, "failed")
    /\ UNCHANGED <<cod, doc, booked, goods, overbooked>>

RazorpayRefuses(t) ==
    /\ At(t, "refund", "claimed")
    /\ \/ /\ PaysBack(thread[t]) = 0 \/ returned + PaysBack(thread[t]) > Total
          /\ UNCHANGED bounds
       \/ bounds.refusals < MaxRefusals /\ Count("refusals")
    /\ Step(t, "failed")
    /\ UNCHANGED <<cod, doc, booked, returned, sent, goods, overbooked>>

\* Mutant: a refused refund leaves the claim behind.
KeepClaim(ret) == ret

\* The except branch: $unset returnRequest.refundInProgress.
ReleaseClaim(ret) == [ret EXCEPT !.refundInProgress = FALSE]

UnclaimRefund(t) ==
    /\ At(t, "refund", "failed")
    /\ doc' = [doc EXCEPT !.ret = ReleaseClaim(@)]
    /\ Finish(t)
    /\ UNCHANGED <<cod, booked, returned, sent, goods, overbooked, bounds>>

\* The final $set, by _id, of the payload made from the first copy.
SaveRefunded(t) ==
    /\ At(t, "refund", "booked")
    /\ LET ret == thread[t].copy.ret
       IN doc' = [ret |-> [ret EXCEPT !.status = "refunded", !.refundId = TRUE],
                  orderStatus |-> IF FullRefund(ret, thread[t].already)
                                  THEN "refunded" ELSE "partially_refunded",
                  refunded |-> thread[t].already + thread[t].amount]
    /\ Finish(t)
    /\ UNCHANGED <<cod, booked, returned, sent, goods, overbooked, bounds>>

-------------------------------------------------------------------------------
(* POST /payments/refund; recording a refund in the ledger; crashes *)

\* Razorpay pays back an amount, or without one whatever is left; when its answer is
\* lost the handler ends there.
AdHocRefund(t, amount) ==
    LET a == [Idle EXCEPT !.op = "adhoc", !.pc = "paid", !.amount = amount]
    IN /\ MayStart(t, "adhoc") /\ Allowed("adhoc", doc)
       /\ bounds.adhoc < MaxAdHoc
       /\ PaysBack(a) > 0 /\ returned + PaysBack(a) <= Total
       /\ returned' = returned + PaysBack(a)
       /\ \/ Count("adhoc") /\ thread' = [thread EXCEPT ![t] = a]
          \/ /\ bounds.lost < MaxLost
             /\ bounds' = [bounds EXCEPT !.adhoc = @ + 1, !.lost = @ + 1]
             /\ UNCHANGED thread
       /\ UNCHANGED <<cod, doc, booked, sent, goods, overbooked>>

\* record_order_refund and record_partial_refund begin with a find_one of the entry.
ReadEntry(t) ==
    /\ thread[t].pc = "paid"
    /\ thread' = [thread EXCEPT ![t].pc = "booking", ![t].read = booked]
    /\ UNCHANGED <<cod, doc, booked, returned, sent, goods, overbooked, bounds>>

\* The refundedAmount that a booking which found the amount inLedger leaves: the whole
\* price, or a part more, never above the price; nothing is written when it is reached.
Booking(a, inLedger) ==
    IF InFull(a) THEN Total
    ELSE IF inLedger >= Total THEN booked ELSE Min({Total, inLedger + a.amount})

\* The handler goes on when the ledger has been told, or could not be.
Recorded(t) == IF thread[t].op = "adhoc" THEN Finish(t) ELSE Step(t, "booked")

\* The update_one, by _id, of what was computed from the entry read.
BookRefund(t) ==
    /\ thread[t].pc = "booking"
    /\ LET a == thread[t]
       IN /\ booked' = Booking(a, a.read)
          /\ overbooked' = (overbooked \/ Booking(a, a.read) # Booking(a, booked))
    /\ Recorded(t)
    /\ UNCHANGED <<cod, doc, returned, sent, goods, bounds>>

\* A failure of the ledger, or a missing entry: logged, and the refund stands.
LedgerFails(t) ==
    /\ thread[t].pc \in {"paid", "booking"}
    /\ bounds.unbooked < MaxUnbooked /\ Count("unbooked")
    /\ Recorded(t)
    /\ UNCHANGED <<cod, doc, booked, returned, sent, goods, overbooked>>

Crash(t) ==
    /\ thread[t] # Idle /\ bounds.crashes < MaxCrashes /\ Count("crashes")
    /\ Finish(t)
    /\ UNCHANGED <<cod, doc, booked, returned, sent, goods, overbooked>>

-------------------------------------------------------------------------------

\* The rest of an operation that has begun.
Continue(t) ==
    \/ SaveRequest(t) \/ SaveRejected(t) \/ SaveApproved(t)
    \/ Restock(t) \/ SaveReceived(t)
    \/ RefundManually(t) \/ CountRefunded(t) \/ ClaimRefund(t)
    \/ RazorpayAccepts(t) \/ RazorpayRefuses(t) \/ UnclaimRefund(t)
    \/ ReadEntry(t) \/ BookRefund(t) \/ LedgerFails(t) \/ SaveRefunded(t)

Next ==
    \E t \in Thread :
        \/ Continue(t) \/ Crash(t)
        \/ \E op \in Op : Load(t, op)
        \/ \E value \in Values : LoadRequest(t, value)
        \/ \E amount \in AdHoc : AdHocRefund(t, amount)

Spec == Init /\ [][Next]_vars

\* A handler that has begun runs on.
FairSpec == Spec /\ \A t \in Thread : WF_vars(Continue(t))

-------------------------------------------------------------------------------
(* Properties *)

Quiet == \A t \in Thread : thread[t] = Idle

\* issue_refund's comment: a double click or a second admin cannot send two
\* refunds to Razorpay for the same return, and neither can a crash after the
\* claim.  Only an answer lost on the way makes the store try once more.  And it
\* asks only once the goods are back in stock.
OneRefundPerReturn ==
    /\ sent <= 1 + bounds.lost
    /\ sent > 0 => restocked > 0

\* Returned goods go back into stock once, however often the store marks them
\* received and whatever else overlaps; once more only for a crash between the stock and
\* the mark, or for a handler that began while another had the goods in hand, since
\* _save_return writes the copy a handler decided on.
RestockedOnce == restocked <= 1 + crossings + bounds.crashes

\* _already_refunded never answers more than Razorpay paid back, whichever of returns and
\* ad-hoc refunds came first, overlapped, failed or overwrote each other in the ledger,
\* so that no customer is refused what is left.  When nobody is refunding it answers
\* just that, unless a crash, a lost answer or a failure of the ledger kept a refund from
\* being recorded, or one booking wrote over another that came after its read.
RefundsAccounted ==
    /\ AlreadyRefunded(doc, booked) <= returned
    /\ Quiet /\ ~overbooked /\ bounds.crashes + bounds.lost + bounds.unbooked = 0
        => AlreadyRefunded(doc, booked) = returned

\* A claimed refund is completed, or released so that the store can try again
\* after Razorpay refused.  Only a crash leaves the claim for ever.  (A refund
\* that loaded the order during another one's claim completes with that claim
\* still written in it: harmless, since the return is refunded.)
Claimed == doc.ret.status = "received" /\ doc.ret.refundInProgress
ClaimEnds == Claimed ~> (~Claimed \/ bounds.crashes > 0)
===============================================================================
