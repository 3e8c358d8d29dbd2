------------------------------ MODULE OrderPage ------------------------------
(***************************************************************************)
(* The page of one order in the store's desk: the buttons the order shown  *)
(* offers, the two that ask first, the courier's booking and tracking, and *)
(* the fetch that follows a change.  The customer, the courier and other   *)
(* staff change the order behind the page's back.                          *)
(*                                                                         *)
(* Sources: client/src/features/admin/pages/AdminOrderDetail.tsx,          *)
(* client/src/features/orders; the handlers that serve it are in           *)
(* app/routes/orders.py, delhivery.py and app/services/return_service.py.  *)
(***************************************************************************)
CONSTANTS
  Papers, \* what can be fetched from the courier: the packing slip, a pickup
  None

VARIABLES
  order,   \* server: the order's status and whether a parcel is booked
  shown,   \* the order as the page shows it
  reading, \* the fetch of the order
  asking,  \* the change whose question is open
  sent,    \* the calls in flight, one of each kind
  rejectReason, \* was a reason of three letters typed?
  errand,  \* the courier papers being fetched
  behind   \* the order changed, or an answer was lost, since the last fetch

orderVars == <<order, shown, reading, asking, sent, rejectReason, errand, behind>>

Kinds == {"status", "return", "ship", "track"}
NoCall == [to |-> None, end |-> "none"]
Read == [step |-> "done", order |-> None]
Asked == [step |-> "asked", order |-> None]

\* The statuses the store may move an order to: the buttons, and the check of
\* PATCH /orders/admin/{id}/status.
NextActions ==
  [s \in {"confirmed", "processing", "packed", "shipped"} |->
     CASE s = "confirmed"  -> {"processing", "packed", "shipped", "cancelled"}
       [] s = "processing" -> {"packed", "shipped", "cancelled"}
       [] s = "packed"     -> {"shipped", "cancelled"}
       [] s = "shipped"    -> {"delivered", "cancelled"}]
Actions(s) == IF s \in DOMAIN NextActions THEN NextActions[s] ELSE {}

\* The buttons of the returns card, by the status the return has given the order.
ReturnActions ==
  [s \in {"return_requested", "return_approved", "returned"} |->
     CASE s = "return_requested" -> {"return_approved", "delivered"}
       [] s = "return_approved"  -> {"returned"}
       [] s = "returned"         -> {"refunded"}]
Returns(s) == IF s \in DOMAIN ReturnActions THEN ReturnActions[s] ELSE {}

CanShip(o) == ~o.awb /\ o.status \in {"confirmed", "processing", "packed", "shipped"}

Init ==
  /\ order = [status |-> "confirmed", awb |-> FALSE]
  /\ shown = order
  /\ reading = Read
  /\ asking = [kind |-> None, to |-> None]
  /\ sent = [k \in Kinds |-> NoCall]
  /\ rejectReason = FALSE
  /\ errand = {}
  /\ behind = FALSE

Free(kind) == sent[kind] = NoCall
NoQuestion == asking.kind = None
Send(kind, to) == sent' = [sent EXCEPT ![kind] = [to |-> to, end |-> "sent"]]

\* handleStatusUpdate, handleReturnAction: a cancellation and a refund ask first.
AsksFirst(kind, to) == to \in {"cancelled", "refunded"}
Click(kind, to) ==
  /\ NoQuestion /\ Free(kind)
  /\ IF AsksFirst(kind, to)
     THEN asking' = [kind |-> kind, to |-> to] /\ UNCHANGED sent
     ELSE Send(kind, to) /\ UNCHANGED asking
  /\ UNCHANGED <<order, shown, reading, errand, behind>>

HandleStatusUpdate(to) ==
  to \in Actions(shown.status) /\ Click("status", to) /\ UNCHANGED rejectReason
HandleReturnAction(to) ==
  /\ to \in Returns(shown.status)
  /\ to = "delivered" => rejectReason
  /\ Click("return", to)
  /\ UNCHANGED rejectReason
TypeReason ==
  /\ shown.status = "return_requested" /\ ~rejectReason
  /\ rejectReason' = TRUE
  /\ UNCHANGED <<order, shown, reading, asking, sent, errand, behind>>

AnswerQuestion(yes) ==
  /\ asking.kind # None
  /\ IF yes THEN Send(asking.kind, asking.to) ELSE UNCHANGED sent
  /\ asking' = [kind |-> None, to |-> None]
  /\ UNCHANGED <<order, shown, reading, rejectReason, errand, behind>>

HandleShip ==
  /\ NoQuestion /\ CanShip(shown) /\ Free("ship")
  /\ Send("ship", "shipped")
  /\ UNCHANGED <<order, shown, reading, asking, rejectReason, errand, behind>>

\* The button, and the effect that tracks a parcel when its number appears.
HandleTrack ==
  /\ NoQuestion /\ shown.awb /\ Free("track")
  /\ Send("track", None)
  /\ UNCHANGED <<order, shown, reading, asking, rejectReason, errand, behind>>

HandlePaper(paper) ==
  /\ NoQuestion /\ shown.awb /\ paper \notin errand
  /\ errand' = errand \union {paper}
  /\ UNCHANGED <<order, shown, reading, asking, sent, rejectReason, behind>>
PaperEnds(paper) ==
  /\ paper \in errand
  /\ errand' = errand \ {paper}
  /\ UNCHANGED <<order, shown, reading, asking, sent, rejectReason, behind>>

-----------------------------------------------------------------------------
Scans(s) == IF s \in {"confirmed", "processing", "packed"} THEN {"shipped", "delivered"}
            ELSE IF s = "shipped" THEN {"delivered"} ELSE {}

\* What the server makes of a call: it checks the order it has, not the one
\* shown.  Tracking a parcel records its scan; the answer is not the order.
Accepts(kind, to) ==
  CASE kind = "status" -> to \in Actions(order.status)
    [] kind = "return" -> to \in Returns(order.status)
    [] kind = "ship"   -> order.awb \/ order.status \notin {"cancelled", "delivered"}
    [] kind = "track"  -> order.awb

Booked(o) ==
  [status |-> IF o.status \in {"confirmed", "processing", "packed"} THEN "shipped"
              ELSE o.status,
   awb |-> TRUE]

ServerHandles(kind) ==
  LET to == sent[kind].to
  IN  /\ sent[kind].end = "sent"
      /\ Accepts(kind, to)
      /\ sent' = [sent EXCEPT ![kind].end = "made"]
      /\ order' \in
           CASE kind \in {"status", "return"} -> {[order EXCEPT !.status = to]}
             [] kind = "ship" -> {IF order.awb THEN order ELSE Booked(order)}
             [] kind = "track" ->
                  {order} \union {[order EXCEPT !.status = s] : s \in Scans(order.status)}
      /\ behind' = (behind \/ (kind = "track" /\ order' # order))
      /\ UNCHANGED <<shown, reading, asking, rejectReason, errand>>

\* Mutant: an answer on its way is still taken.
KeepReading(kind) == UNCHANGED reading

\* invalidateQueries: the order is fetched again, an answer on its way dropped.
ReadAgain(kind) ==
  IF kind = "track" THEN UNCHANGED reading ELSE reading' = Asked

Answered(kind) ==
  /\ sent[kind].end = "made"
  /\ ReadAgain(kind)
  /\ rejectReason' = (rejectReason /\ ~(kind = "return" /\ sent[kind].to = "delivered"))
  /\ sent' = [sent EXCEPT ![kind] = NoCall]
  /\ UNCHANGED <<order, shown, asking, errand, behind>>

\* Refused, or lost before or after the server made it.  A message at most: what
\* the page shows is not fetched again.
CallFailed(kind) ==
  /\ sent[kind].end # "none"
  /\ behind' = (behind \/ sent[kind].end = "made")
  /\ sent' = [sent EXCEPT ![kind] = NoCall]
  /\ UNCHANGED <<order, shown, reading, asking, rejectReason, errand>>

ServerReads ==
  /\ reading.step = "asked"
  /\ reading' = [step |-> "read", order |-> order]
  /\ behind' = FALSE
  /\ UNCHANGED <<order, shown, asking, sent, rejectReason, errand>>
OrderArrives ==
  /\ reading.step = "read"
  /\ shown' = reading.order
  /\ reading' = Read
  /\ UNCHANGED <<order, asking, sent, rejectReason, errand, behind>>
ReadFails ==
  /\ reading.step # "done"
  /\ reading' = Read
  /\ behind' = TRUE
  /\ UNCHANGED <<order, shown, asking, sent, rejectReason, errand>>

\* Other staff, the courier's sync, or the customer's request for a return.
OthersMove ==
  /\ \E s \in Actions(order.status) \union Returns(order.status) \union
               (IF order.status = "delivered" THEN {"return_requested"} ELSE {}) :
       order' = [order EXCEPT !.status = s]
  /\ behind' = TRUE
  /\ UNCHANGED <<shown, reading, asking, sent, rejectReason, errand>>

Targets == UNION {NextActions[s] : s \in DOMAIN NextActions}
             \union UNION {ReturnActions[s] : s \in DOMAIN ReturnActions}

Next ==
  \/ \E to \in Targets : HandleStatusUpdate(to) \/ HandleReturnAction(to)
  \/ TypeReason
  \/ \E yes \in BOOLEAN : AnswerQuestion(yes)
  \/ HandleShip \/ HandleTrack
  \/ \E p \in Papers : HandlePaper(p) \/ PaperEnds(p)
  \/ \E k \in Kinds : ServerHandles(k) \/ Answered(k) \/ CallFailed(k)
  \/ ServerReads \/ OrderArrives \/ ReadFails
  \/ OthersMove

Spec == Init /\ [][Next]_orderVars

-----------------------------------------------------------------------------
\* However the page's calls overlap with each other and with a fetch that was
\* on its way, the order shown when all have ended is the order kept, so its
\* buttons are the ones the server accepts: unless somebody else, a scan or a
\* lost answer changed the order since the last fetch.
OrderShownIsOrderKept ==
  (reading = Read /\ ~behind /\ \A k \in Kinds : sent[k].end # "made") => shown = order
=============================================================================
