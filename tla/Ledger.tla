-------------------------------- MODULE Ledger --------------------------------
(***************************************************************************)
(* What the platform owes each store (services/ledger_service.py): one     *)
(* ledger entry per paid order, refunds, the courier's charge, payouts.    *)
(*                                                                         *)
(* Every operation reads an entry, computes, and writes fields back by     *)
(* _id: two MongoDB calls, with any other thread's calls between them.  The *)
(* mishaps that follow are written down in marred, each where it happens.  *)
(* Amounts are whole paise.                                                *)
(***************************************************************************)
EXTENDS Integers, FiniteSets, TLC

CONSTANTS
    Order,        \* orders paid online
    Thread,       \* request threads
    Prices,       \* what orders may cost
    Fees,         \* what Razorpay may charge for a payment; 0 if it does not answer
    Charges,      \* what the courier may charge; another amount at each sync
    Rates,        \* commission percentages a tenant may be set to
    Slices,       \* amounts of ad-hoc or return refunds
    MaxRefunds,   \* bound: refunds
    MaxPayouts,   \* bound: payouts recorded
    MaxCrashes,   \* bound: operations cut short
    NoOrder

ASSUME LedgerAssumption ==
    /\ IsFiniteSet(Thread)
    /\ Prices \subseteq Nat \ {0} /\ Fees \subseteq Nat /\ Charges \subseteq Nat
    /\ Rates \subseteq 0..100 /\ Slices \subseteq Nat
    /\ {MaxRefunds, MaxPayouts, MaxCrashes} \subseteq Nat
    /\ NoOrder \notin Order

VARIABLES
    entry,     \* ledger_entries, by orderId (unique); live once inserted
    thread,    \* the operation each thread is in the middle of
    paidOut,   \* history: what the payouts on record paid for each order
    returned,  \* history: what Razorpay returned to the customer
    reversed,  \* history: the order was refunded as a whole
    parts,     \* history: refunds of a part the entry was told of
    marred,    \* history: what went wrong on the way, per order
    bounds     \* refunds, payouts and crashes so far

vars == <<entry, thread, paidOut, returned, reversed, parts, marred, bounds>>
money == <<paidOut, returned, reversed, bounds>>
history == <<parts, marred, money>>

Entry == [live : BOOLEAN, gross : Nat, refunded : Nat, percent : 0..100,
          commission : Nat, fee : Nat, delivery : Nat, net : Int,
          status : {"pending", "refunded"}, settled : BOOLEAN,
          settledNet : Int]

NoEntry == [live |-> FALSE, gross |-> 0, refunded |-> 0, percent |-> 0,
            commission |-> 0, fee |-> 0, delivery |-> 0, net |-> 0,
            status |-> "pending", settled |-> FALSE, settledNet |-> 0]

\* copy is the document as the operation read it, NoEntry before the read;
\* batch, net by order, is the list record_payout read.
Activity == [op : {"idle", "sync", "reverse", "slice", "settle"},
             of : Order \union {NoOrder}, copy : Entry, amount : Nat,
             batch : [Order -> Int], left : SUBSET Order]

\* stale: an operation wrote what it would not have written from the entry as it was by
\* then.  charge: the courier's charge came after a refund.  twice: a payout listed what
\* another was still marking.  unseen: the order was refunded as a whole when the entry
\* did not show all that payouts paid.  crash: an operation was cut short.
Mishap == {"stale", "charge", "twice", "unseen", "crash"}

Idle == [op |-> "idle", of |-> NoOrder, copy |-> NoEntry, amount |-> 0,
         batch |-> [o \in Order |-> 0], left |-> {}]

TypeOK ==
    /\ entry \in [Order -> Entry]
    /\ thread \in [Thread -> Activity]
    /\ paidOut \in [Order -> Int]
    /\ returned \in [Order -> Nat]
    /\ reversed \in [Order -> BOOLEAN]
    /\ parts \in [Order -> Nat]
    /\ marred \in [Order -> SUBSET Mishap]
    /\ bounds \in [refunds : 0..MaxRefunds, payouts : 0..MaxPayouts,
                   crashes : 0..MaxCrashes]

Init ==
    /\ entry = [o \in Order |-> NoEntry]
    /\ thread = [t \in Thread |-> Idle]
    /\ paidOut = [o \in Order |-> 0]
    /\ returned = [o \in Order |-> 0]
    /\ reversed = [o \in Order |-> FALSE]
    /\ parts = [o \in Order |-> 0]
    /\ marred = [o \in Order |-> {}]
    /\ bounds = [refunds |-> 0, payouts |-> 0, crashes |-> 0]

-------------------------------------------------------------------------------
(* Arithmetic *)

\* _round2 of a percentage, in paise.
Percent(amount, p) == (amount * p + 50) \div 100

Lesser(a, b) == IF a <= b THEN a ELSE b

\* _recompute_net leaves refundedAmount out.
RecomputeNet(e) == e.gross - e.commission - e.fee - e.delivery

\* record_order_refund: the store keeps the courier's charge, not the fee.
NetAfterReversal(e) == e.delivery - e.fee

-------------------------------------------------------------------------------
(* Operations *)

Finish(t) == thread' = [thread EXCEPT ![t] = Idle]

\* An operation writes on an entry what it computed from its copy; fresh is what it
\* would have written had it read the entry just now.
Write(o, written, fresh, mishaps) ==
    /\ entry' = [entry EXCEPT ![o] = written]
    /\ marred' = [marred EXCEPT ![o] =
                    @ \cup mishaps \cup IF written = fresh THEN {} ELSE {"stale"}]

\* record_order_ledger_entry, at the rate set_tenant_commission last gave the store, which
\* only this insert reads; orderId is unique.
RecordOrder(o) ==
    /\ ~entry[o].live
    /\ \E gross \in Prices, fee \in Fees, percent \in Rates :
          LET commission == Percent(gross, percent)
          IN entry' = [entry EXCEPT ![o] =
               [NoEntry EXCEPT !.live = TRUE, !.gross = gross,
                   !.percent = percent, !.commission = commission, !.fee = fee,
                   !.net = gross - commission - fee]]
    /\ UNCHANGED <<thread, history>>

\* Mutant: settled entries are synced too.
SyncableAny(e) == e.live

\* sync_delivery_charge_for_order leaves a settled entry alone.
Syncable(e) == e.live /\ ~e.settled

SyncRead(t, o) ==
    /\ thread[t] = Idle /\ Syncable(entry[o])
    /\ thread' = [thread EXCEPT ![t] =
                    [Idle EXCEPT !.op = "sync", !.of = o, !.copy = entry[o]]]
    /\ UNCHANGED <<entry, history>>

\* The $set on the entry as it is, of what was computed from the copy e.
Synced(now, e, charge) ==
    [now EXCEPT !.delivery = charge,
                !.net = RecomputeNet([e EXCEPT !.delivery = charge])]

SyncWrite(t) ==
    /\ thread[t].op = "sync"
    /\ \E charge \in Charges :
          LET o == thread[t].of
              now == entry[o]
          IN Write(o, Synced(now, thread[t].copy, charge),
                   IF Syncable(now) THEN Synced(now, now, charge) ELSE now,
                   IF now.refunded > 0 THEN {"charge"} ELSE {})
    /\ Finish(t)
    /\ UNCHANGED <<parts, money>>

\* Razorpay refunds a part, never more than what is left of the payment;
\* record_partial_refund comes after.
Slice(t, o, amount) ==
    /\ thread[t] = Idle /\ entry[o].live /\ bounds.refunds < MaxRefunds
    /\ amount > 0 /\ returned[o] + amount <= entry[o].gross
    /\ returned' = [returned EXCEPT ![o] = @ + amount]
    /\ bounds' = [bounds EXCEPT !.refunds = @ + 1]
    /\ thread' = [thread EXCEPT ![t] = [Idle EXCEPT !.op = "slice", !.of = o,
                                                   !.amount = amount]]
    /\ UNCHANGED <<entry, paidOut, reversed, parts, marred>>

\* Razorpay refunds all that is left; record_order_refund comes after.
Reverse(t, o) ==
    /\ thread[t] = Idle /\ entry[o].live /\ bounds.refunds < MaxRefunds
    /\ returned[o] < entry[o].gross
    /\ returned' = [returned EXCEPT ![o] = entry[o].gross]
    /\ reversed' = [reversed EXCEPT ![o] = TRUE]
    /\ bounds' = [bounds EXCEPT !.refunds = @ + 1]
    /\ thread' = [thread EXCEPT ![t] = [Idle EXCEPT !.op = "reverse", !.of = o]]
    /\ UNCHANGED <<entry, paidOut, parts, marred>>

\* Both record functions begin by reading the entry.
RefundRead(t) ==
    /\ thread[t].op \in {"reverse", "slice"} /\ ~thread[t].copy.live
    /\ thread' = [thread EXCEPT ![t].copy = entry[thread[t].of]]
    /\ UNCHANGED <<entry, history>>

\* What record_order_refund leaves to pay: a settled entry is reopened with
\* the adjustment to what was already paid.
ReversedNet(e) == IF e.settled THEN NetAfterReversal(e) - e.settledNet
                  ELSE NetAfterReversal(e)

Reversed(now, e) ==
    [now EXCEPT !.refunded = e.gross, !.commission = 0, !.status = "refunded",
                !.net = ReversedNet(e), !.settled = now.settled /\ ~e.settled]

\* What payouts paid for an order and its entry does not show: it was settled and
\* reopened before, or a payout is still marking its entries.
Unseen(o) ==
    \/ paidOut[o] # IF entry[o].settled THEN entry[o].settledNet ELSE 0
    \/ \E t \in Thread : o \in thread[t].left

ReverseWrite(t) ==
    /\ thread[t].op = "reverse" /\ thread[t].copy.live
    /\ LET o == thread[t].of
           now == entry[o]
       IN Write(o, Reversed(now, thread[t].copy), Reversed(now, now),
                IF Unseen(o) THEN {"unseen"} ELSE {})
    /\ Finish(t)
    /\ UNCHANGED <<parts, money>>

\* Mutant: the ledger takes any amount it is told of.
RefundableAny(e, amount) == amount

RefundablePart(e, amount) == Lesser(amount, e.gross - e.refunded)

\* Mutant: the commission on the refunded part stays with the platform.
NoCommissionBack(e, amount) == 0

CommissionBack(e, amount) ==
    Lesser(e.commission, Percent(amount, e.percent))

\* Nothing is written when nothing is left to refund.
Sliced(now, e, told) ==
    LET amount == RefundablePart(e, told)
        back == CommissionBack(e, amount)
        delta == back - amount
    IN IF amount <= 0 THEN now
       ELSE [now EXCEPT !.refunded = e.refunded + amount,
                        !.commission = e.commission - back,
                        !.status = IF e.refunded + amount >= e.gross - 1
                                   THEN "refunded" ELSE now.status,
                        !.net = IF e.settled THEN delta ELSE e.net + delta,
                        !.settled = now.settled /\ ~e.settled]

SliceWrite(t) ==
    /\ thread[t].op = "slice" /\ thread[t].copy.live
    /\ LET o == thread[t].of
           now == entry[o]
           told == thread[t].amount
       IN /\ Write(o, Sliced(now, thread[t].copy, told), Sliced(now, now, told), {})
          /\ parts' = [parts EXCEPT ![o] = @ + 1]
    /\ Finish(t)
    /\ UNCHANGED <<money>>

\* record_payout lists unsettled entries (of a date range) with their nets and
\* inserts a payout of their sum.
PayoutRead(t, batch) ==
    /\ thread[t] = Idle /\ bounds.payouts < MaxPayouts
    /\ batch # {}
    /\ \A o \in batch : entry[o].live /\ ~entry[o].settled
    /\ LET nets == [o \in Order |-> IF o \in batch THEN entry[o].net ELSE 0]
       IN /\ paidOut' = [o \in Order |-> paidOut[o] + nets[o]]
          /\ thread' = [thread EXCEPT ![t] =
                          [Idle EXCEPT !.op = "settle", !.batch = nets,
                                       !.left = batch]]
    /\ marred' = [o \in Order |->
                    IF o \in batch /\ \E u \in Thread : o \in thread[u].left
                    THEN marred[o] \cup {"twice"} ELSE marred[o]]
    /\ bounds' = [bounds EXCEPT !.payouts = @ + 1]
    /\ UNCHANGED <<entry, returned, reversed, parts>>

\* Mutant: the payout forgets to freeze what it paid.
FrozenNever(e, net) == e.settledNet

\* settledNetAmount: what this payout paid for the entry.
Frozen(e, net) == net

\* Its entries are marked one by one, by _id.
Marked(now, net) == [now EXCEPT !.settled = TRUE, !.settledNet = Frozen(now, net)]

PayoutMark(t, o) ==
    /\ thread[t].op = "settle" /\ o \in thread[t].left
    /\ LET now == entry[o]
       IN Write(o, Marked(now, thread[t].batch[o]), Marked(now, now.net), {})
    /\ IF thread[t].left = {o} THEN Finish(t)
       ELSE thread' = [thread EXCEPT ![t].left = @ \ {o}]
    /\ UNCHANGED <<parts, money>>

\* A crash; or, when a refund is recorded, a failure of the ledger that the caller logs.
\* A charge that was not synced yet is synced the next time.
Crash(t) ==
    /\ thread[t] # Idle /\ bounds.crashes < MaxCrashes
    /\ LET a == thread[t]
           cut == IF a.op \in {"reverse", "slice"} THEN {a.of} ELSE a.left
       IN marred' = [o \in Order |->
                       IF o \in cut THEN marred[o] \cup {"crash"} ELSE marred[o]]
    /\ bounds' = [bounds EXCEPT !.crashes = @ + 1]
    /\ Finish(t)
    /\ UNCHANGED <<entry, paidOut, returned, reversed, parts>>

Next ==
    \/ \E o \in Order : RecordOrder(o)
    \/ \E t \in Thread :
         \/ SyncWrite(t) \/ RefundRead(t) \/ ReverseWrite(t)
         \/ SliceWrite(t) \/ Crash(t)
         \/ \E o \in Order : \/ SyncRead(t, o) \/ Reverse(t, o)
                             \/ PayoutMark(t, o)
                             \/ \E a \in Slices : Slice(t, o, a)
         \/ \E batch \in SUBSET Order : PayoutRead(t, batch)

Spec == Init /\ [][Next]_vars

\* Orders and threads are alike: TLC need not tell them apart.
Alike == Permutations(Order) \cup Permutations(Thread)

-------------------------------------------------------------------------------
(* Properties *)

\* What the store is owed for an order, by the rules of the module's and of
\* the functions' docstrings: the price less what was returned, less the
\* commission on the rest, the fee and the courier; or, for an order refunded
\* as a whole, the courier's charge less the fee.
Owed(o) ==
    LET e == entry[o]
        kept == e.gross - returned[o]
    IN IF reversed[o] THEN e.delivery - e.fee
       ELSE kept - Percent(kept, e.percent) - e.fee - e.delivery

Outstanding(o) == IF entry[o].settled THEN 0 ELSE entry[o].net

Untouched(o) == \A t \in Thread : thread[t].of # o /\ o \notin thread[t].left

\* What payouts paid for an order and the next one will pay, beyond what is owed.
Excess(o) == paidOut[o] + Outstanding(o) - Owed(o)

\* No money is lost or paid twice: what payouts paid for an order and what the next one
\* will pay add up to what the store is owed for it, whatever refunds, courier charges
\* and payouts came in which order or overlapped, unless one of the mishaps befell that
\* order.  A refund of a part may cost a paisa, since record_partial_refund rounds the
\* commission of each part by itself; a refund as a whole makes that good.
NothingLostOrPaidTwice ==
    \A o \in Order : entry[o].live /\ Untouched(o) /\ marred[o] = {} =>
        Excess(o) \in IF reversed[o] THEN {0} ELSE -parts[o]..parts[o]

\* The ledger never claims more was refunded than the customer paid, and never a negative
\* commission, though returns, ad-hoc refunds and cancellations of one order write these
\* fields from copies that others have overwritten since.
RefundWithinPrice ==
    \A o \in Order : entry[o].refunded <= entry[o].gross /\ entry[o].commission >= 0

\* record_payout's docstring: a store's per-order "paid" status can never drift
\* from what the platform actually recorded as paid out.  An entry shown as settled
\* shows the amount a payout paid for it, unless some operation wrote on it what it
\* would not have written had it looked again.
SettledAsPaid ==
    \A o \in Order : entry[o].settled /\ "stale" \notin marred[o] =>
        entry[o].net = entry[o].settledNet

\* sync_delivery_charge_for_order's docstring: a paid-out order's numbers do not move
\* under a store's feet, whatever else was under way when it was paid out.  They change
\* only when a refund reopens it, or when a stale copy is written over it.
SettledStandsStill ==
    [][\A o \in Order :
         entry[o].settled /\ entry'[o].settled /\ "stale" \notin marred'[o]
            => /\ entry'[o].net = entry[o].net
               /\ entry'[o].delivery = entry[o].delivery]_vars
===============================================================================
