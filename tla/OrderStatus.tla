------------------------------ MODULE OrderStatus ------------------------------
(***************************************************************************)
(* A retail order on its way to the customer: the store's status changes   *)
(* and cancellations (routes/orders.py, cancel_and_refund_order), booking  *)
(* the courier (routes/delhivery.py) and the courier's scans, pulled or    *)
(* pushed (services/shipment_sync.py).                                     *)
(*                                                                         *)
(* The store's handlers load the order, check its status on that copy and  *)
(* write by _id.  A tracking update writes the shipment first and then     *)
(* moves the order with conditional updates.                               *)
(***************************************************************************)
EXTENDS Integers, FiniteSets

CONSTANTS
    Thread,        \* request threads and the sync job's
    StaffOverlap,  \* may two store handlers run at once?
    SyncOverlap,   \* may tracking updates run beside other operations?
    MaxSyncs       \* bound: tracking updates applied

ASSUME OrderStatusAssumption ==
    StaffOverlap \in BOOLEAN /\ SyncOverlap \in BOOLEAN /\ MaxSyncs \in Nat

VARIABLES
    cod,        \* cash on delivery (else paid through Razorpay)
    order,      \* the order document
    shipment,   \* the shipments document
    parcel,     \* where the parcel is, as Delhivery knows
    scans,      \* what Delhivery has scanned so far: any of it may be pushed
    thread,     \* the operation each thread is in the middle of
    restocked,  \* history: how often the order's goods went back into stock
    syncs       \* tracking updates so far (bounded)

vars == <<cod, order, shipment, parcel, scans, thread, restocked, syncs>>

Status == {"confirmed", "processing", "packed", "shipped", "delivered",
           "cancelled"}

Outcome == {"pre_pickup", "in_transit", "delivered", "rto", "rto_delivered",
            "lost", "cancelled"}

\* classify_tracking: the outcomes that close a shipment.
Closed == {"delivered", "rto_delivered", "lost", "cancelled"}

Order == [status : Status, pay : {"pending", "paid", "refunded"},
          refundFailed : BOOLEAN, waybill : BOOLEAN, exception : BOOLEAN]
Shipment == [awb : BOOLEAN, outcome : Outcome, syncDone : BOOLEAN]

NoShipment == [awb |-> FALSE, outcome |-> "pre_pickup", syncDone |-> FALSE]

\* copy is the order as it was loaded, to the status asked for, scan the
\* outcome to apply, refund what Razorpay said.
Activity == [op : {"none", "patch", "ship", "pull", "push"},
             pc : {"idle", "restock", "refund", "courier", "note", "save", "book",
                   "insert", "track", "record", "move", "find", "deliver"},
             copy : Order, to : Status, scan : Outcome,
             refund : {"none", "refunded", "failed"}]

TypeOK ==
    /\ cod \in BOOLEAN
    /\ order \in Order
    /\ shipment \in Shipment
    /\ parcel \in Outcome \union {"none"}
    /\ scans \subseteq Outcome
    /\ thread \in [Thread -> Activity]
    /\ restocked \in Nat
    /\ syncs \in 0..MaxSyncs

NewOrder == [status |-> "confirmed", pay |-> IF cod THEN "pending" ELSE "paid",
             refundFailed |-> FALSE, waybill |-> FALSE, exception |-> FALSE]

Idle == [op |-> "none", pc |-> "idle",
         copy |-> [status |-> "confirmed", pay |-> "pending",
                   refundFailed |-> FALSE, waybill |-> FALSE,
                   exception |-> FALSE],
         to |-> "confirmed", scan |-> "pre_pickup",
         refund |-> "none"]

Init ==
    /\ cod \in BOOLEAN
    /\ order = NewOrder
    /\ shipment = NoShipment
    /\ parcel = "none"
    /\ scans = {}
    /\ thread = [t \in Thread |-> Idle]
    /\ restocked = 0
    /\ syncs = 0

At(t, op, pc) == thread[t].op = op /\ thread[t].pc = pc
Step(t, pc) == thread' = [thread EXCEPT ![t].pc = pc]
Finish(t) == thread' = [thread EXCEPT ![t] = Idle]

Staff == {"patch", "ship"}

MayStart(t, op) ==
    /\ thread[t] = Idle
    /\ \A u \in Thread :
         \/ thread[u] = Idle
         \/ StaffOverlap /\ {op, thread[u].op} \subseteq Staff
         \/ SyncOverlap /\ ~({op, thread[u].op} \subseteq Staff)

-------------------------------------------------------------------------------
(* PATCH /orders/admin/{id}/status *)

\* ADMIN_STATUS_TRANSITIONS, for retail orders.
Transitions ==
    [s \in Status |->
        CASE s = "confirmed"  -> {"processing", "packed", "shipped", "cancelled"}
          [] s = "processing" -> {"packed", "shipped", "cancelled"}
          [] s = "packed"     -> {"shipped", "cancelled"}
          [] s = "shipped"    -> {"delivered", "cancelled"}
          [] OTHER            -> {}]

LoadPatch(t, to) ==
    /\ MayStart(t, "patch")
    /\ to \in Transitions[order.status]
    /\ thread' = [thread EXCEPT ![t] =
                    [Idle EXCEPT !.op = "patch", !.copy = order, !.to = to,
                        !.pc = IF to = "cancelled" THEN "restock" ELSE "save"]]
    /\ UNCHANGED <<cod, order, shipment, parcel, scans, restocked, syncs>>

\* The lines of a cancelled order go back into stock.
Restock(t) ==
    /\ At(t, "patch", "restock")
    /\ restocked' = restocked + 1
    /\ Step(t, "refund")
    /\ UNCHANGED <<cod, order, shipment, parcel, scans, syncs>>

\* cancel_and_refund_order: Razorpay gives a paid order's money back, or not.
RefundCancelled(t) ==
    /\ At(t, "patch", "refund")
    /\ \E answer \in IF ~cod /\ thread[t].copy.pay = "paid"
                     THEN {"refunded", "failed"} ELSE {"none"} :
         thread' = [thread EXCEPT ![t].refund = answer, ![t].pc = "courier"]
    /\ UNCHANGED <<cod, order, shipment, parcel, scans, restocked, syncs>>

\* The courier is asked to cancel a parcel that was booked; Delhivery agrees
\* or refuses, and the parcel moves on.
CancelParcel(t) ==
    /\ At(t, "patch", "courier")
    /\ \/ /\ thread[t].copy.waybill /\ parcel \notin Closed
          /\ parcel' = "cancelled" /\ scans' = scans \union {"cancelled"}
       \/ UNCHANGED <<parcel, scans>>
    /\ Step(t, "note")
    /\ UNCHANGED <<cod, order, shipment, restocked, syncs>>

\* Mutant: a refusal by Razorpay leaves no trace.
NotedOnlySuccess(o, answer) ==
    [o EXCEPT !.pay = IF answer = "refunded" THEN "refunded" ELSE @]

\* The updates cancel_and_refund_order writes by _id.
Noted(o, answer) ==
    [o EXCEPT !.pay = IF answer = "refunded" THEN "refunded" ELSE @,
              !.refundFailed = IF answer = "failed" THEN TRUE ELSE @]

NoteCancelled(t) ==
    /\ At(t, "patch", "note")
    /\ order' = Noted(order, thread[t].refund)
    /\ Step(t, "save")
    /\ UNCHANGED <<cod, shipment, parcel, scans, restocked, syncs>>

\* The status is written by _id; delivered cash orders are paid from then on.
SavePatch(t) ==
    /\ At(t, "patch", "save")
    /\ LET paid == thread[t].to = "delivered" /\ cod /\ thread[t].copy.pay # "paid"
       IN order' = [order EXCEPT !.status = thread[t].to,
                                 !.pay = IF paid THEN "paid" ELSE @]
    /\ Finish(t)
    /\ UNCHANGED <<cod, shipment, parcel, scans, restocked, syncs>>

-------------------------------------------------------------------------------
(* POST /delhivery/shipments *)

LoadShip(t) ==
    /\ MayStart(t, "ship")
    /\ ~shipment.awb /\ order.status \notin {"cancelled", "delivered"}
    /\ thread' = [thread EXCEPT ![t] = [Idle EXCEPT !.op = "ship", !.pc = "book",
                                                    !.copy = order]]
    /\ UNCHANGED <<cod, order, shipment, parcel, scans, restocked, syncs>>

BookParcel(t) ==
    /\ At(t, "ship", "book")
    /\ parcel' = IF parcel = "none" THEN "pre_pickup" ELSE parcel
    /\ scans' = scans \union {"pre_pickup"}
    /\ Step(t, "insert")
    /\ UNCHANGED <<cod, order, shipment, restocked, syncs>>

\* One shipment per order and provider: the loser of the race answers with the
\* winner's.
InsertShipment(t) ==
    /\ At(t, "ship", "insert")
    /\ IF shipment.awb
       THEN Finish(t) /\ UNCHANGED shipment
       ELSE /\ shipment' = [NoShipment EXCEPT !.awb = TRUE]
            /\ Step(t, "save")
    /\ UNCHANGED <<cod, order, parcel, scans, restocked, syncs>>

\* The order is written by _id, with the status chosen from the copy and a courier of its
\* own, without the exception of the one before.
SaveShip(t, markShipped) ==
    /\ At(t, "ship", "save")
    /\ LET moves == /\ markShipped
                    /\ thread[t].copy.status \in {"confirmed", "processing", "packed"}
       IN order' = [order EXCEPT !.waybill = TRUE, !.exception = FALSE,
                                 !.status = IF moves THEN "shipped" ELSE @]
    /\ Finish(t)
    /\ UNCHANGED <<cod, shipment, parcel, scans, restocked, syncs>>

-------------------------------------------------------------------------------
(* Delhivery *)

Journey ==
    [p \in Outcome \union {"none"} |->
        CASE p = "pre_pickup" -> {"in_transit"}
          [] p = "in_transit" -> {"delivered", "rto", "lost"}
          [] p = "rto"        -> {"rto_delivered"}
          [] OTHER            -> {}]

ParcelMoves ==
    /\ \E next \in Journey[parcel] :
         parcel' = next /\ scans' = scans \union {next}
    /\ UNCHANGED <<cod, order, shipment, thread, restocked, syncs>>

-------------------------------------------------------------------------------
(* Tracking updates *)

\* The sync job, the admin's refresh: load the shipment, then ask Delhivery.
LoadPull(t) ==
    /\ shipment.awb /\ syncs < MaxSyncs
    /\ MayStart(t, "pull")
    /\ syncs' = syncs + 1
    /\ thread' = [thread EXCEPT ![t] = [Idle EXCEPT !.op = "pull", !.pc = "track"]]
    /\ UNCHANGED <<cod, order, shipment, parcel, scans, restocked>>

TrackShipment(t) ==
    /\ At(t, "pull", "track")
    /\ thread' = [thread EXCEPT ![t].scan = parcel, ![t].pc = "record"]
    /\ UNCHANGED <<cod, order, shipment, parcel, scans, restocked, syncs>>

\* apply_push_update: any scan, late or out of order.  A pushed delivery is
\* confirmed by a pull; a scan for a closed shipment is ignored.
LoadPush(t, scan) ==
    /\ shipment.awb /\ syncs < MaxSyncs
    /\ scan \in scans
    /\ scan = "delivered" \/ ~shipment.syncDone
    /\ MayStart(t, "push")
    /\ syncs' = syncs + 1
    /\ thread' = [thread EXCEPT ![t] =
                    IF scan = "delivered"
                    THEN [Idle EXCEPT !.op = "pull", !.pc = "track"]
                    ELSE [Idle EXCEPT !.op = "push", !.pc = "record",
                                      !.scan = scan]]
    /\ UNCHANGED <<cod, order, shipment, parcel, scans, restocked>>

\* Mutant: the shipment is written by _id alone.
RecordsAlways(op) == TRUE

\* A pushed scan does not touch a shipment that was closed meanwhile.
Records(op) == op = "push" => ~shipment.syncDone

\* The shipment first: status, and syncDone when the outcome closes it.
RecordScan(t) ==
    /\ thread[t].pc = "record"
    /\ LET scan == thread[t].scan
       IN /\ shipment' = IF Records(thread[t].op)
                         THEN [shipment EXCEPT !.outcome = scan,
                                  !.syncDone = @ \/ scan \in Closed]
                         ELSE shipment
          /\ IF scan = "pre_pickup" THEN Finish(t)
             ELSE Step(t, IF scan = "delivered" THEN "find" ELSE "move")
    /\ UNCHANGED <<cod, order, parcel, scans, restocked, syncs>>

\* Mutant: a scan moves any order but a delivered one.
ShippedFromAny == Status \ {"delivered", "shipped"}

ShippedFrom == {"confirmed", "processing", "packed"}
DeliveredFrom == {"confirmed", "processing", "packed", "shipped"}
ExceptionOn == DeliveredFrom

\* In transit: one conditional update.
MoveToShipped(t) ==
    /\ thread[t].pc = "move" /\ thread[t].scan = "in_transit"
    /\ order' = IF order.status \in ShippedFrom
                THEN [order EXCEPT !.status = "shipped"] ELSE order
    /\ Finish(t)
    /\ UNCHANGED <<cod, shipment, parcel, scans, restocked, syncs>>

\* Returned to origin, lost, cancelled: flagged, status and money left alone.
FlagException(t) ==
    /\ thread[t].pc = "move" /\ thread[t].scan # "in_transit"
    /\ order' = IF order.status \in ExceptionOn
                THEN [order EXCEPT !.exception = TRUE] ELSE order
    /\ Finish(t)
    /\ UNCHANGED <<cod, shipment, parcel, scans, restocked, syncs>>

\* Delivered: the order is found in a status it may move from ...
FindUndelivered(t) ==
    /\ thread[t].pc = "find"
    /\ IF order.status \in DeliveredFrom
       THEN thread' = [thread EXCEPT ![t].pc = "deliver", ![t].copy = order]
       ELSE Finish(t)
    /\ UNCHANGED <<cod, order, shipment, parcel, scans, restocked, syncs>>

\* Mutant: the second update filters on the _id alone.
UnchangedSinceNever(o, copy) == TRUE

\* ... and moved only if it is still in that very status.
UnchangedSince(o, copy) == o.status = copy.status

MoveToDelivered(t) ==
    /\ thread[t].pc = "deliver"
    /\ LET copy == thread[t].copy
       IN order' = IF UnchangedSince(order, copy)
                   THEN [order EXCEPT !.status = "delivered",
                            !.pay = IF cod /\ copy.pay # "paid" THEN "paid" ELSE @]
                   ELSE order
    /\ Finish(t)
    /\ UNCHANGED <<cod, shipment, parcel, scans, restocked, syncs>>

-------------------------------------------------------------------------------

TrackingStep(t) ==
    \/ TrackShipment(t) \/ RecordScan(t) \/ MoveToShipped(t)
    \/ FlagException(t) \/ FindUndelivered(t) \/ MoveToDelivered(t)

StaffStep(t) ==
    \/ Restock(t) \/ RefundCancelled(t) \/ CancelParcel(t) \/ NoteCancelled(t)
    \/ SavePatch(t) \/ BookParcel(t) \/ InsertShipment(t)
    \/ \E markShipped \in BOOLEAN : SaveShip(t, markShipped)

Begin(t) ==
    \/ \E to \in Status : LoadPatch(t, to)
    \/ LoadShip(t) \/ LoadPull(t)
    \/ \E scan \in Outcome : LoadPush(t, scan)

Next ==
    \/ ParcelMoves
    \/ \E t \in Thread : Begin(t) \/ StaffStep(t) \/ TrackingStep(t)

Spec == Init /\ [][Next]_vars

-------------------------------------------------------------------------------
(* Properties *)

Quiet == \A t \in Thread : thread[t] = Idle

\* shipment_sync's docstring: a tracking update moves the order forward, never
\* backwards, and never touches a cancelled order, whatever scans arrive late
\* and whatever the store does between its find and its update; and a pushed scan
\* never changes a closed shipment, even one that a pull closed meanwhile.
TrackingMovesForward ==
    [][\A t \in Thread :
         TrackingStep(t) =>
             /\ order'.status # order.status =>
                  <<order.status, order'.status>> \in
                      {"confirmed", "processing", "packed"} \X {"shipped", "delivered"}
                      \union {<<"shipped", "delivered">>}
             /\ thread[t].op = "push" /\ shipment.syncDone => shipment' = shipment]_vars

\* The goods of an order are back in stock exactly when it is cancelled, once,
\* though scans move the order while it is being cancelled.
RestockedIffCancelled ==
    Quiet => restocked = IF order.status = "cancelled" THEN 1 ELSE 0

\* The customer of a cancelled order has the money back, or the order says the
\* refund failed, whatever the courier did meanwhile.
CancelledIsRefunded ==
    Quiet /\ order.status = "cancelled" /\ ~cod
        => order.pay = "refunded" \/ order.refundFailed

\* shipment_sync's docstring: delivered -> order delivered, from any status on
\* the way.  A shipment recorded as delivered is not polled again, so its order
\* is delivered by then (or was cancelled).
DeliveredReachesOrder ==
    Quiet /\ shipment.syncDone /\ shipment.outcome = "delivered"
        => order.status \in {"delivered", "cancelled"}
===============================================================================
