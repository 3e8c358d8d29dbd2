--------------------------- MODULE OrderStatusProofs ---------------------------
(***************************************************************************)
(* Theorems about OrderStatus, for any threads, any number of tracking     *)
(* updates and any order in which they arrive.                             *)
(***************************************************************************)
EXTENDS OrderStatus, TLAPS

(* Where an operation can be.  A thread that will move the order to        *)
(* delivered has found it in a status it may be moved from, and a pushed   *)
(* delivery is always confirmed by a pull.                                 *)
Cancelling == {"restock", "refund", "courier", "note"}

Course(a) ==
    /\ a.op = "none" => a = Idle
    /\ a.op = "patch" => \/ a.pc \in Cancelling /\ a.to = "cancelled"
                         \/ a.pc = "save"
    /\ a.op = "ship" => a.pc \in {"book", "insert", "save"}
    /\ a.op = "pull" => a.pc \in {"track", "record", "move", "find", "deliver"}
    /\ a.op = "push" => a.pc \in {"record", "move"} /\ a.scan # "delivered"
    /\ a.pc = "deliver" => a.copy.status \in DeliveredFrom

Courses == \A t \in Thread : Course(thread[t])

\* Nothing is tracked before there is a parcel.
HasParcel(a) == \/ a.op \in {"pull", "push"}
                \/ a.op = "ship" /\ a.pc \in {"insert", "save"}
ParcelFirst ==
    parcel = "none" => ~shipment.awb /\ \A t \in Thread : ~HasParcel(thread[t])

StatusInv == TypeOK /\ Courses /\ ParcelFirst

-------------------------------------------------------------------------------
(* Threads *)

LEMMA IdleActivity == Idle \in Activity /\ Course(Idle) /\ ~HasParcel(Idle)
BY DEF Idle, Activity, Order, Status, Outcome, Course, HasParcel

\* One thread's activity changes, the others' stay.
LEMMA OneThread ==
    ASSUME thread \in [Thread -> Activity], Courses,
           NEW t \in Thread, NEW a \in Activity, Course(a),
           thread' = [thread EXCEPT ![t] = a]
    PROVE  /\ thread' \in [Thread -> Activity] /\ Courses'
           /\ thread'[t] = a
           /\ \A u \in Thread \ {t} : thread'[u] = thread[u]
BY DEF Courses

\* A thread takes its next step.
LEMMA NextPc ==
    ASSUME thread \in [Thread -> Activity], Courses,
           NEW t \in Thread, NEW pc,
           Step(t, pc), [thread[t] EXCEPT !.pc = pc] \in Activity,
           Course([thread[t] EXCEPT !.pc = pc])
    PROVE  /\ thread' \in [Thread -> Activity] /\ Courses'
           /\ thread'[t] = [thread[t] EXCEPT !.pc = pc]
           /\ \A u \in Thread \ {t} : thread'[u] = thread[u]
<1>1. thread' = [thread EXCEPT ![t] = [thread[t] EXCEPT !.pc = pc]]
    BY DEF Step
<1> QED
    BY <1>1, OneThread

LEMMA Finished ==
    ASSUME thread \in [Thread -> Activity], Courses, NEW t \in Thread, Finish(t)
    PROVE  /\ thread' \in [Thread -> Activity] /\ Courses'
           /\ thread'[t] = Idle
           /\ \A u \in Thread \ {t} : thread'[u] = thread[u]
BY OneThread, IdleActivity DEF Finish

\* There is no less of a parcel than before, when only thread t changes.
LEMMA ParcelStaysFirst ==
    ASSUME ParcelFirst, NEW t \in Thread,
           \A u \in Thread \ {t} : thread'[u] = thread[u],
           parcel' = "none" => parcel = "none" /\ ~shipment'.awb /\ ~HasParcel(thread'[t])
    PROVE  ParcelFirst'
BY DEF ParcelFirst, HasParcel

-------------------------------------------------------------------------------
(* The store's steps *)

LEMMA LoadPatchTyped ==
    ASSUME StatusInv, NEW t \in Thread, NEW to \in Status, LoadPatch(t, to)
    PROVE  StatusInv'
<1> DEFINE a == [Idle EXCEPT !.op = "patch", !.copy = order, !.to = to,
                    !.pc = IF to = "cancelled" THEN "restock" ELSE "save"]
<1>1. a \in Activity
    BY IdleActivity DEF StatusInv, TypeOK, Idle, Activity
<1>2. Course(a) /\ ~HasParcel(a)
    BY DEF Course, Idle, Cancelling, HasParcel
<1>3. thread' = [thread EXCEPT ![t] = a]
    BY DEF LoadPatch
<1> HIDE DEF a
<1>4. /\ thread' \in [Thread -> Activity] /\ Courses' /\ thread'[t] = a
      /\ \A u \in Thread \ {t} : thread'[u] = thread[u]
    BY <1>1, <1>2, <1>3, OneThread DEF StatusInv, TypeOK
<1>5. ParcelFirst'
  <2>1. UNCHANGED <<parcel, shipment>>
    BY DEF LoadPatch
  <2> QED
    BY <1>2, <1>4, <2>1, ParcelStaysFirst DEF StatusInv, ParcelFirst
<1> QED
    BY <1>4, <1>5 DEF StatusInv, TypeOK, LoadPatch

LEMMA CancelStepsTyped ==
    ASSUME StatusInv, NEW t \in Thread,
           Restock(t) \/ RefundCancelled(t) \/ CancelParcel(t) \/ NoteCancelled(t)
    PROVE  StatusInv'
<1> USE DEF StatusInv, TypeOK
<1>1. thread[t] \in Activity /\ Course(thread[t]) /\ thread[t].op = "patch"
    BY DEF Restock, RefundCancelled, CancelParcel, NoteCancelled, At, Courses
<1>2. CASE Restock(t)
  <2>1. LET a == [thread[t] EXCEPT !.pc = "refund"] IN a \in Activity /\ Course(a)
    BY <1>1, <1>2 DEF Restock, At, Course, Cancelling, Activity
  <2>2. Step(t, "refund") /\ UNCHANGED <<parcel, shipment>>
    BY <1>2 DEF Restock
  <2>3. /\ thread' \in [Thread -> Activity] /\ Courses'
        /\ thread'[t].op = "patch" /\ \A u \in Thread \ {t} : thread'[u] = thread[u]
    BY <1>1, <2>1, <2>2, NextPc DEF Activity
  <2>4. ParcelFirst'
    BY <2>2, <2>3, ParcelStaysFirst DEF ParcelFirst, HasParcel
  <2> QED
    BY <1>2, <2>3, <2>4 DEF Restock
<1>3. CASE RefundCancelled(t)
  <2>1. PICK answer \in {"none", "refunded", "failed"} :
          thread' = [thread EXCEPT ![t].refund = answer, ![t].pc = "courier"]
    BY <1>3 DEF RefundCancelled
  <2> DEFINE a == [thread[t] EXCEPT !.refund = answer, !.pc = "courier"]
  <2>2. a \in Activity /\ Course(a) /\ a.op = "patch"
    BY <1>1, <1>3 DEF RefundCancelled, At, Course, Cancelling, Activity
  <2>3. thread' = [thread EXCEPT ![t] = a]
    BY <2>1
  <2> HIDE DEF a
  <2>4. /\ thread' \in [Thread -> Activity] /\ Courses' /\ thread'[t] = a
        /\ \A u \in Thread \ {t} : thread'[u] = thread[u]
    BY <2>2, <2>3, OneThread
  <2>5. ParcelFirst'
    BY <1>3, <2>2, <2>4, ParcelStaysFirst DEF ParcelFirst, HasParcel, RefundCancelled
  <2> QED
    BY <1>3, <2>4, <2>5 DEF RefundCancelled
<1>4. CASE CancelParcel(t)
  <2>1. LET a == [thread[t] EXCEPT !.pc = "note"] IN a \in Activity /\ Course(a)
    BY <1>1, <1>4 DEF CancelParcel, At, Course, Cancelling, Activity
  <2>2. /\ Step(t, "note") /\ UNCHANGED shipment
        /\ \/ parcel' = "cancelled" /\ scans' = scans \union {"cancelled"}
           \/ UNCHANGED <<parcel, scans>>
    BY <1>4 DEF CancelParcel
  <2>3. /\ thread' \in [Thread -> Activity] /\ Courses'
        /\ thread'[t].op = "patch" /\ \A u \in Thread \ {t} : thread'[u] = thread[u]
    BY <1>1, <2>1, <2>2, NextPc DEF Activity
  <2>4. ParcelFirst'
    BY <2>2, <2>3, ParcelStaysFirst DEF ParcelFirst, HasParcel
  <2> QED
    BY <1>4, <2>2, <2>3, <2>4 DEF CancelParcel, Outcome
<1>5. CASE NoteCancelled(t)
  <2>1. LET a == [thread[t] EXCEPT !.pc = "save"] IN a \in Activity /\ Course(a)
    BY <1>1, <1>5 DEF NoteCancelled, At, Course, Cancelling, Activity
  <2>2. Step(t, "save") /\ UNCHANGED <<parcel, shipment>>
    BY <1>5 DEF NoteCancelled
  <2>3. /\ thread' \in [Thread -> Activity] /\ Courses'
        /\ thread'[t].op = "patch" /\ \A u \in Thread \ {t} : thread'[u] = thread[u]
    BY <1>1, <2>1, <2>2, NextPc DEF Activity
  <2>4. ParcelFirst'
    BY <2>2, <2>3, ParcelStaysFirst DEF ParcelFirst, HasParcel
  <2>5. order' \in Order
    BY <1>5 DEF NoteCancelled, Noted, Order
  <2> QED
    BY <1>5, <2>3, <2>4, <2>5 DEF NoteCancelled
<1> QED
    BY <1>2, <1>3, <1>4, <1>5

\* The steps that end an operation and leave parcel and shipment alone.
LEMMA LastStepTyped ==
    ASSUME StatusInv, NEW t \in Thread, Finish(t), order' \in Order,
           UNCHANGED <<cod, shipment, parcel, scans, syncs>>, restocked' = restocked
    PROVE  StatusInv'
<1>1. /\ thread' \in [Thread -> Activity] /\ Courses' /\ thread'[t] = Idle
      /\ \A u \in Thread \ {t} : thread'[u] = thread[u]
    BY Finished DEF StatusInv, TypeOK
<1>2. ParcelFirst'
    BY <1>1, ParcelStaysFirst, IdleActivity DEF StatusInv, ParcelFirst
<1> QED
    BY <1>1, <1>2 DEF StatusInv, TypeOK

LEMMA SavePatchTyped ==
    ASSUME StatusInv, NEW t \in Thread, SavePatch(t)
    PROVE  StatusInv'
<1>1. order' \in Order
    BY DEF SavePatch, StatusInv, TypeOK, Order, Activity
<1> QED
    BY <1>1, LastStepTyped DEF SavePatch

LEMMA LoadShipTyped ==
    ASSUME StatusInv, NEW t \in Thread, LoadShip(t)
    PROVE  StatusInv'
<1> DEFINE a == [Idle EXCEPT !.op = "ship", !.pc = "book", !.copy = order]
<1>1. a \in Activity
    BY IdleActivity DEF StatusInv, TypeOK, Idle, Activity
<1>2. Course(a) /\ ~HasParcel(a)
    BY DEF Course, Idle, HasParcel
<1>3. thread' = [thread EXCEPT ![t] = a]
    BY DEF LoadShip
<1> HIDE DEF a
<1>4. /\ thread' \in [Thread -> Activity] /\ Courses' /\ thread'[t] = a
      /\ \A u \in Thread \ {t} : thread'[u] = thread[u]
    BY <1>1, <1>2, <1>3, OneThread DEF StatusInv, TypeOK
<1>5. ParcelFirst'
    BY <1>2, <1>4, ParcelStaysFirst DEF StatusInv, ParcelFirst, LoadShip
<1> QED
    BY <1>4, <1>5 DEF StatusInv, TypeOK, LoadShip

LEMMA ShipStepsTyped ==
    ASSUME StatusInv, NEW t \in Thread, BookParcel(t) \/ InsertShipment(t)
    PROVE  StatusInv'
<1> USE DEF StatusInv, TypeOK
<1>1. thread[t] \in Activity /\ Course(thread[t]) /\ thread[t].op = "ship"
    BY DEF BookParcel, InsertShipment, At, Courses
<1>2. CASE BookParcel(t)
  <2>1. LET a == [thread[t] EXCEPT !.pc = "insert"] IN a \in Activity /\ Course(a)
    BY <1>1 DEF Course, Activity
  <2>2. Step(t, "insert") /\ UNCHANGED shipment /\ parcel' # "none"
    BY <1>2 DEF BookParcel
  <2>3. /\ thread' \in [Thread -> Activity] /\ Courses'
        /\ \A u \in Thread \ {t} : thread'[u] = thread[u]
    BY <1>1, <2>1, <2>2, NextPc
  <2>4. ParcelFirst'
    BY <2>2, <2>3, ParcelStaysFirst
  <2> QED
    BY <1>2, <2>3, <2>4 DEF BookParcel, Outcome
<1>3. CASE InsertShipment(t) /\ shipment.awb
    BY <1>3, LastStepTyped DEF InsertShipment
<1>4. CASE InsertShipment(t) /\ ~shipment.awb
  <2>1. LET a == [thread[t] EXCEPT !.pc = "save"] IN a \in Activity /\ Course(a)
    BY <1>1 DEF Course, Activity
  <2>2. /\ Step(t, "save") /\ UNCHANGED parcel
        /\ shipment' = [NoShipment EXCEPT !.awb = TRUE]
    BY <1>4 DEF InsertShipment
  <2>3. /\ thread' \in [Thread -> Activity] /\ Courses'
        /\ \A u \in Thread \ {t} : thread'[u] = thread[u]
    BY <1>1, <2>1, <2>2, NextPc
  <2>4. ParcelFirst'
    BY <1>1, <1>4, <2>2, <2>3, ParcelStaysFirst
       DEF ParcelFirst, HasParcel, InsertShipment, At
  <2>5. shipment' \in Shipment
    BY <2>2 DEF NoShipment, Shipment, Outcome
  <2> QED
    BY <1>4, <2>3, <2>4, <2>5 DEF InsertShipment
<1> QED
    BY <1>2, <1>3, <1>4

LEMMA SaveShipTyped ==
    ASSUME StatusInv, NEW t \in Thread, NEW markShipped \in BOOLEAN,
           SaveShip(t, markShipped)
    PROVE  StatusInv'
<1>1. order' \in Order
    BY DEF SaveShip, StatusInv, TypeOK, Order, Status
<1> QED
    BY <1>1, LastStepTyped DEF SaveShip

-------------------------------------------------------------------------------
(* The parcel and the tracking updates *)

LEMMA ParcelMovesTyped ==
    ASSUME StatusInv, ParcelMoves
    PROVE  StatusInv'
<1>1. PICK next \in Journey[parcel] : parcel' = next /\ scans' = scans \union {next}
    BY DEF ParcelMoves
<1>2. next \in Outcome
    BY <1>1 DEF StatusInv, TypeOK, Journey, Outcome
<1>3. Courses' /\ ParcelFirst'
    BY <1>1, <1>2 DEF ParcelMoves, StatusInv, Courses, ParcelFirst, Outcome
<1> QED
    BY <1>1, <1>2, <1>3 DEF ParcelMoves, StatusInv, TypeOK

LEMMA LoadTrackingTyped ==
    ASSUME StatusInv, NEW t \in Thread, NEW scan \in Outcome,
           LoadPull(t) \/ LoadPush(t, scan)
    PROVE  StatusInv'
<1> DEFINE pull == [Idle EXCEPT !.op = "pull", !.pc = "track"]
           push == [Idle EXCEPT !.op = "push", !.pc = "record", !.scan = scan]
<1>1. pull \in Activity /\ push \in Activity
    BY IdleActivity DEF Idle, Activity
<1>2. Course(pull) /\ (scan # "delivered" => Course(push))
    BY DEF Course, Idle
<1>3. /\ \/ thread' = [thread EXCEPT ![t] = pull]
         \/ scan # "delivered" /\ thread' = [thread EXCEPT ![t] = push]
      /\ shipment.awb /\ syncs' = syncs + 1 /\ syncs < MaxSyncs
      /\ UNCHANGED <<cod, order, shipment, parcel, scans, restocked>>
    BY DEF LoadPull, LoadPush
<1> HIDE DEF pull, push
<1>4. /\ thread' \in [Thread -> Activity] /\ Courses'
      /\ \A u \in Thread \ {t} : thread'[u] = thread[u]
    BY <1>1, <1>2, <1>3, OneThread DEF StatusInv, TypeOK
<1>5. ParcelFirst'
    BY <1>3, <1>4, ParcelStaysFirst DEF StatusInv, ParcelFirst
<1>6. syncs' \in 0..MaxSyncs
    BY <1>3, OrderStatusAssumption DEF StatusInv, TypeOK
<1> QED
    BY <1>3, <1>4, <1>5, <1>6 DEF StatusInv, TypeOK

LEMMA TrackShipmentTyped ==
    ASSUME StatusInv, NEW t \in Thread, TrackShipment(t)
    PROVE  StatusInv'
<1> USE DEF StatusInv, TypeOK
<1> DEFINE a == [thread[t] EXCEPT !.scan = parcel, !.pc = "record"]
<1>1. thread[t] \in Activity /\ Course(thread[t]) /\ thread[t].op = "pull"
    BY DEF TrackShipment, At, Courses
<1>2. parcel \in Outcome
    BY <1>1 DEF ParcelFirst, HasParcel
<1>3. a \in Activity /\ Course(a)
    BY <1>1, <1>2 DEF Activity, Course
<1>4. thread' = [thread EXCEPT ![t] = a]
    BY DEF TrackShipment
<1> HIDE DEF a
<1>5. /\ thread' \in [Thread -> Activity] /\ Courses'
      /\ \A u \in Thread \ {t} : thread'[u] = thread[u]
    BY <1>3, <1>4, OneThread
<1>6. ParcelFirst'
    BY <1>2, <1>5, ParcelStaysFirst DEF TrackShipment, Outcome
<1> QED
    BY <1>5, <1>6 DEF TrackShipment

LEMMA RecordScanTyped ==
    ASSUME StatusInv, NEW t \in Thread, RecordScan(t)
    PROVE  StatusInv'
<1> USE DEF StatusInv, TypeOK
<1>1. /\ thread[t] \in Activity /\ Course(thread[t]) /\ thread[t].pc = "record"
      /\ thread[t].op \in {"pull", "push"}
    BY DEF RecordScan, Courses, Course, Activity, Cancelling, Idle
<1>2. shipment' \in Shipment /\ parcel' # "none"
    BY <1>1 DEF RecordScan, Shipment, Activity, ParcelFirst, HasParcel
<1>3. /\ thread' \in [Thread -> Activity] /\ Courses'
      /\ \A u \in Thread \ {t} : thread'[u] = thread[u]
  <2>1. CASE Finish(t)
    BY <2>1, Finished
  <2>2. CASE thread[t].scan = "delivered" /\ Step(t, "find")
    <3>1. LET a == [thread[t] EXCEPT !.pc = "find"] IN a \in Activity /\ Course(a)
      BY <1>1, <2>2 DEF Course, Activity
    <3> QED
      BY <2>2, <3>1, NextPc
  <2>3. CASE thread[t].scan # "delivered" /\ Step(t, "move")
    <3>1. LET a == [thread[t] EXCEPT !.pc = "move"] IN a \in Activity /\ Course(a)
      BY <1>1, <2>3 DEF Course, Activity
    <3> QED
      BY <2>3, <3>1, NextPc
  <2> QED
    BY <2>1, <2>2, <2>3 DEF RecordScan
<1>4. ParcelFirst'
    BY <1>2, <1>3, ParcelStaysFirst
<1> QED
    BY <1>2, <1>3, <1>4 DEF RecordScan

LEMMA MoveTyped ==
    ASSUME StatusInv, NEW t \in Thread, MoveToShipped(t) \/ FlagException(t)
    PROVE  StatusInv'
<1>1. order' \in Order
    BY DEF MoveToShipped, FlagException, StatusInv, TypeOK, Order, Status
<1> QED
    BY <1>1, LastStepTyped DEF MoveToShipped, FlagException

LEMMA FindUndeliveredTyped ==
    ASSUME StatusInv, NEW t \in Thread, FindUndelivered(t)
    PROVE  StatusInv'
<1> USE DEF StatusInv, TypeOK
<1>1. CASE order.status \notin DeliveredFrom
    BY <1>1, LastStepTyped DEF FindUndelivered
<1>2. CASE order.status \in DeliveredFrom
  <2> DEFINE a == [thread[t] EXCEPT !.pc = "deliver", !.copy = order]
  <2>1. thread[t] \in Activity /\ Course(thread[t]) /\ thread[t].op = "pull"
    BY DEF FindUndelivered, Courses, Course, Activity, Cancelling, Idle
  <2>2. a \in Activity /\ Course(a)
    BY <1>2, <2>1 DEF Activity, Course
  <2>3. thread' = [thread EXCEPT ![t] = a] /\ parcel' = parcel /\ parcel # "none"
    BY <1>2, <2>1 DEF FindUndelivered, ParcelFirst, HasParcel
  <2> HIDE DEF a
  <2>4. /\ thread' \in [Thread -> Activity] /\ Courses'
        /\ \A u \in Thread \ {t} : thread'[u] = thread[u]
    BY <2>2, <2>3, OneThread
  <2>5. ParcelFirst'
    BY <2>3, <2>4, ParcelStaysFirst
  <2> QED
    BY <2>4, <2>5 DEF FindUndelivered
<1> QED
    BY <1>1, <1>2

LEMMA MoveToDeliveredTyped ==
    ASSUME StatusInv, NEW t \in Thread, MoveToDelivered(t)
    PROVE  StatusInv'
<1>1. order' \in Order
    BY DEF MoveToDelivered, StatusInv, TypeOK, Order, Status
<1> QED
    BY <1>1, LastStepTyped DEF MoveToDelivered

-------------------------------------------------------------------------------

LEMMA InitStatusInv == Init => StatusInv
<1> SUFFICES ASSUME Init PROVE StatusInv
    OBVIOUS
<1>1. order \in Order /\ shipment \in Shipment /\ ~shipment.awb
    BY DEF Init, NewOrder, Order, Status, NoShipment, Shipment, Outcome
<1>2. thread \in [Thread -> Activity] /\ \A t \in Thread : thread[t] = Idle
    BY IdleActivity DEF Init
<1>3. syncs \in 0..MaxSyncs
    BY OrderStatusAssumption DEF Init
<1> QED
    BY <1>1, <1>2, <1>3, IdleActivity DEF Init, StatusInv, TypeOK, Courses, ParcelFirst

LEMMA NextStatusInv == StatusInv /\ [Next]_vars => StatusInv'
<1> SUFFICES ASSUME StatusInv, [Next]_vars PROVE StatusInv'
    OBVIOUS
<1>1. CASE UNCHANGED vars
    BY <1>1 DEF vars, StatusInv, TypeOK, Courses, ParcelFirst
<1>2. CASE ParcelMoves
    BY <1>2, ParcelMovesTyped
<1>3. ASSUME NEW t \in Thread, Begin(t) PROVE StatusInv'
    BY <1>3, LoadPatchTyped, LoadShipTyped, LoadTrackingTyped DEF Begin, Outcome
<1>4. ASSUME NEW t \in Thread, StaffStep(t) PROVE StatusInv'
    BY <1>4, CancelStepsTyped, SavePatchTyped, ShipStepsTyped, SaveShipTyped DEF StaffStep
<1>5. ASSUME NEW t \in Thread, TrackingStep(t) PROVE StatusInv'
    BY <1>5, TrackShipmentTyped, RecordScanTyped, MoveTyped, FindUndeliveredTyped,
       MoveToDeliveredTyped DEF TrackingStep
<1> QED
    BY <1>1, <1>2, <1>3, <1>4, <1>5 DEF Next

\* The documents, the parcel and every operation keep their types: a tracking update
\* never runs before there is a parcel to track.
THEOREM StatusTyped == Spec => []TypeOK
<1>1. StatusInv => TypeOK
    BY DEF StatusInv
<1> QED
    BY InitStatusInv, NextStatusInv, <1>1, PTL DEF Spec

-------------------------------------------------------------------------------
(* Tracking moves forward, whatever else runs beside it.                   *)

LEMMA StepMovesForward ==
    ASSUME StatusInv, NEW t \in Thread, TrackingStep(t)
    PROVE  /\ order'.status # order.status =>
                <<order.status, order'.status>> \in
                    {"confirmed", "processing", "packed"} \X {"shipped", "delivered"}
                    \union {<<"shipped", "delivered">>}
           /\ thread[t].op = "push" /\ shipment.syncDone => shipment' = shipment
<1>1. order \in Order /\ Course(thread[t])
    BY DEF StatusInv, TypeOK, Courses
<1>2. CASE TrackShipment(t) \/ FindUndelivered(t)
    BY <1>2 DEF TrackShipment, FindUndelivered
<1>3. CASE RecordScan(t)
    BY <1>3 DEF RecordScan, Records
<1>4. CASE MoveToShipped(t)
    BY <1>1, <1>4 DEF MoveToShipped, Order, ShippedFrom
<1>5. CASE FlagException(t)
    BY <1>1, <1>5 DEF FlagException, Order
<1>6. CASE MoveToDelivered(t)
  <2>1. order.status = thread[t].copy.status => order.status \in DeliveredFrom
    BY <1>1, <1>6 DEF MoveToDelivered, Course
  <2>2. UNCHANGED shipment
    BY <1>6 DEF MoveToDelivered
  <2>3. order'.status # order.status =>
          order.status \in DeliveredFrom /\ order'.status = "delivered"
    BY <1>1, <1>6, <2>1 DEF MoveToDelivered, UnchangedSince, Order
  <2> QED
    BY <2>2, <2>3 DEF DeliveredFrom
<1> QED
    BY <1>2, <1>3, <1>4, <1>5, <1>6 DEF TrackingStep

\* However many handlers and tracking updates overlap, and whatever order scans arrive
\* in, a tracking update only moves an order forward, never touches a cancelled one,
\* and a pushed scan leaves a closed shipment alone.
THEOREM TrackingNeverMovesBack == Spec => TrackingMovesForward
<1>1. StatusInv /\ [Next]_vars =>
        [\A t \in Thread : TrackingStep(t) =>
           /\ order'.status # order.status =>
                <<order.status, order'.status>> \in
                    {"confirmed", "processing", "packed"} \X {"shipped", "delivered"}
                    \union {<<"shipped", "delivered">>}
           /\ thread[t].op = "push" /\ shipment.syncDone => shipment' = shipment]_vars
    BY StepMovesForward
<1> QED
    BY InitStatusInv, NextStatusInv, <1>1, PTL DEF Spec, TrackingMovesForward

-------------------------------------------------------------------------------
(* A cancellation is done once and as a whole when the store's handlers do  *)
(* not overlap: from its first step to its last no other handler moves the  *)
(* order, and tracking cannot cancel it.                                    *)

\* The cancellation that is under way, from a step on.
Past(a, pcs) == a.op = "patch" /\ a.to = "cancelled" /\ a.pc \in pcs
AnyPast(pcs) == \E t \in Thread : Past(thread[t], pcs)

OneHandler ==
    \A t \in Thread : thread[t].op \in Staff =>
        /\ order.status # "cancelled"
        /\ \A u \in Thread : thread[u].op \in Staff => u = t

GoodsCounted ==
    restocked = IF order.status = "cancelled"
                   \/ AnyPast({"refund", "courier", "note", "save"})
                THEN 1 ELSE 0

\* Where the money of a paid order is: paid until a cancellation's note, then given back
\* or marked as failed.
GivenBack == order.pay = "refunded" \/ order.refundFailed

MoneyFollows ==
    ~cod =>
        /\ order.pay \in {"paid", "refunded"}
        /\ order.pay = "refunded" => order.status = "cancelled" \/ AnyPast({"save"})
        /\ order.status = "cancelled" => GivenBack
        /\ \A t \in Thread :
             /\ Past(thread[t], {"restock", "refund"}) => thread[t].copy.pay = "paid"
             /\ Past(thread[t], {"courier", "note"}) => thread[t].refund # "none"
             /\ Past(thread[t], {"save"}) => GivenBack

CancelInv == StatusInv /\ OneHandler /\ GoodsCounted /\ MoneyFollows

\* What is left to show when t is the only handler, after its step.
LEMMA HandlerStep ==
    ASSUME NEW t \in Thread, \A u \in Thread \ {t} : thread'[u].op \notin Staff,
           order'.status = "cancelled" => thread'[t].op \notin Staff,
           restocked' = IF \/ order'.status = "cancelled"
                           \/ Past(thread'[t], {"refund", "courier", "note", "save"})
                        THEN 1 ELSE 0,
           ~cod' =>
             /\ order'.pay \in {"paid", "refunded"}
             /\ order'.pay = "refunded" =>
                  order'.status = "cancelled" \/ Past(thread'[t], {"save"})
             /\ order'.status = "cancelled" => GivenBack'
             /\ Past(thread'[t], {"restock", "refund"}) => thread'[t].copy.pay = "paid"
             /\ Past(thread'[t], {"courier", "note"}) => thread'[t].refund # "none"
             /\ Past(thread'[t], {"save"}) => GivenBack'
    PROVE  (OneHandler /\ GoodsCounted /\ MoneyFollows)'
<1>1. \A pcs : \A u \in Thread \ {t} : ~Past(thread'[u], pcs)
    BY DEF Past, Staff
<1>2. /\ AnyPast({"refund", "courier", "note", "save"})' <=>
           Past(thread'[t], {"refund", "courier", "note", "save"})
      /\ AnyPast({"save"})' <=> Past(thread'[t], {"save"})
    BY <1>1 DEF AnyPast
<1>3. OneHandler'
    BY DEF OneHandler
<1>4. GoodsCounted'
    BY <1>2 DEF GoodsCounted
<1>5. MoneyFollows'
    BY <1>1, <1>2 DEF MoneyFollows
<1> QED
    BY <1>3, <1>4, <1>5

\* What is known before that step.
LEMMA OnlyHandler ==
    ASSUME CancelInv, NEW t \in Thread, \A u \in Thread \ {t} : thread[u].op \notin Staff
    PROVE  /\ restocked = IF \/ order.status = "cancelled"
                             \/ Past(thread[t], {"refund", "courier", "note", "save"})
                          THEN 1 ELSE 0
           /\ ~cod /\ order.pay = "refunded" =>
                order.status = "cancelled" \/ Past(thread[t], {"save"})
<1>1. \A pcs : \A u \in Thread \ {t} : ~Past(thread[u], pcs)
    BY DEF Past, Staff
<1>2. /\ AnyPast({"refund", "courier", "note", "save"}) <=>
           Past(thread[t], {"refund", "courier", "note", "save"})
      /\ AnyPast({"save"}) <=> Past(thread[t], {"save"})
    BY <1>1 DEF AnyPast
<1> QED
    BY <1>2 DEF CancelInv, GoodsCounted, MoneyFollows

\* A step of no handler: no order is cancelled by it, nor a paid one's money moved.
LEMMA NoHandlerStep ==
    ASSUME CancelInv, NEW t \in Thread,
           thread[t].op \notin Staff, thread'[t].op \notin Staff,
           \A u \in Thread \ {t} : thread'[u] = thread[u],
           order'.status = "cancelled" <=> order.status = "cancelled",
           ~cod => order'.pay = order.pay,
           order'.refundFailed = order.refundFailed, UNCHANGED <<cod, restocked>>
    PROVE  (OneHandler /\ GoodsCounted /\ MoneyFollows)'
<1>1. \A u \in Thread : \/ thread'[u] = thread[u]
                        \/ u = t /\ thread[u].op \notin Staff /\ thread'[u].op \notin Staff
    OBVIOUS
<1>2. \A pcs : \A u \in Thread : Past(thread'[u], pcs) <=> Past(thread[u], pcs)
    BY <1>1 DEF Past, Staff
<1>3. /\ AnyPast({"refund", "courier", "note", "save"})' <=>
           AnyPast({"refund", "courier", "note", "save"})
      /\ AnyPast({"save"})' <=> AnyPast({"save"})
    BY <1>2 DEF AnyPast
<1>4. OneHandler'
  <2>1. \A u \in Thread : thread'[u].op \in Staff <=> thread[u].op \in Staff
    BY <1>1
  <2> QED
    BY <2>1 DEF OneHandler, CancelInv
<1>5. GoodsCounted'
    BY <1>3 DEF GoodsCounted, CancelInv
<1>6. MoneyFollows'
  <2> SUFFICES ASSUME ~cod'
               PROVE  MoneyFollows'
    BY DEF MoneyFollows
  <2>1. MoneyFollows /\ ~cod /\ order'.pay = order.pay /\ (GivenBack' <=> GivenBack)
    BY DEF CancelInv, GivenBack
  <2>2. ASSUME NEW u \in Thread
        PROVE  /\ Past(thread'[u], {"restock", "refund"}) => thread'[u].copy.pay = "paid"
               /\ Past(thread'[u], {"courier", "note"}) => thread'[u].refund # "none"
               /\ Past(thread'[u], {"save"}) => GivenBack'
    BY <1>1, <2>1 DEF Past, Staff, MoneyFollows
  <2> QED
    BY <1>3, <2>1, <2>2 DEF MoneyFollows
<1> QED
    BY <1>4, <1>5, <1>6

LEMMA NoHandlerBut ==
    ASSUME CancelInv, NEW t \in Thread, thread[t].op \in Staff
    PROVE  order.status # "cancelled" /\ \A u \in Thread \ {t} : thread[u].op \notin Staff
BY DEF CancelInv, OneHandler

-------------------------------------------------------------------------------
(* The store's steps *)

LEMMA LoadsAlone ==
    ASSUME ~StaffOverlap, NEW t \in Thread, NEW op \in Staff, MayStart(t, op)
    PROVE  \A u \in Thread : thread[u].op \notin Staff
BY DEF MayStart, Staff, Idle

LEMMA LoadPatchKeeps ==
    ASSUME ~StaffOverlap, CancelInv, NEW t \in Thread, NEW to \in Status, LoadPatch(t, to)
    PROVE  (OneHandler /\ GoodsCounted /\ MoneyFollows)'
<1>1. \A u \in Thread : thread[u].op \notin Staff
    BY LoadsAlone DEF LoadPatch, Staff
<1>2. thread \in [Thread -> Activity] /\ order \in Order
    BY DEF CancelInv, StatusInv, TypeOK
<1>3. order.status # "cancelled"
    BY <1>2 DEF LoadPatch, Transitions, Order, Status
<1>4. /\ thread'[t].op = "patch" /\ thread'[t].copy = order /\ thread'[t].to = to
      /\ thread'[t].pc = IF to = "cancelled" THEN "restock" ELSE "save"
      /\ \A u \in Thread \ {t} : thread'[u] = thread[u]
    BY <1>2 DEF LoadPatch, Idle
<1>5. restocked = 0 /\ (~cod => order.pay = "paid")
    BY <1>1, <1>3, OnlyHandler DEF Past, Staff, CancelInv, MoneyFollows
<1>6. UNCHANGED <<cod, order, restocked>>
    BY DEF LoadPatch
<1> QED
    BY <1>1, <1>3, <1>4, <1>5, <1>6, HandlerStep DEF Past, GivenBack

LEMMA LoadShipKeeps ==
    ASSUME ~StaffOverlap, CancelInv, NEW t \in Thread, LoadShip(t)
    PROVE  (OneHandler /\ GoodsCounted /\ MoneyFollows)'
<1>1. \A u \in Thread : thread[u].op \notin Staff
    BY LoadsAlone DEF LoadShip, Staff
<1>2. thread \in [Thread -> Activity]
    BY DEF CancelInv, StatusInv, TypeOK
<1>3. thread'[t].op = "ship" /\ \A u \in Thread \ {t} : thread'[u] = thread[u]
    BY <1>2 DEF LoadShip, Idle
<1>4. restocked = 0 /\ (~cod => order.pay = "paid")
    BY <1>1, OnlyHandler DEF Past, Staff, LoadShip, CancelInv, MoneyFollows
<1>5. UNCHANGED <<cod, order, restocked>> /\ order.status # "cancelled"
    BY DEF LoadShip
<1> QED
    BY <1>1, <1>3, <1>4, <1>5, HandlerStep DEF Past, GivenBack

\* A step of a cancellation before its last, which leaves the order's status alone.
LEMMA CancelStepsKeep ==
    ASSUME CancelInv, NEW t \in Thread,
           Restock(t) \/ RefundCancelled(t) \/ CancelParcel(t) \/ NoteCancelled(t)
    PROVE  (OneHandler /\ GoodsCounted /\ MoneyFollows)'
<1>1. /\ thread \in [Thread -> Activity] /\ order \in Order
      /\ thread[t] \in Activity /\ Course(thread[t])
    BY DEF CancelInv, StatusInv, TypeOK, Courses
<1>2. /\ thread[t].op = "patch" /\ thread[t].to = "cancelled"
      /\ thread[t].pc \in {"restock", "refund", "courier", "note"}
    BY <1>1 DEF Restock, RefundCancelled, CancelParcel, NoteCancelled, At, Course
<1>3. order.status # "cancelled" /\ \A u \in Thread \ {t} : thread[u].op \notin Staff
    BY <1>2, NoHandlerBut DEF Staff
<1>4. /\ restocked = IF thread[t].pc = "restock" THEN 0 ELSE 1
      /\ ~cod => order.pay = "paid"
    BY <1>2, <1>3, OnlyHandler DEF Past, CancelInv, MoneyFollows
<1>5. ~cod => /\ thread[t].pc \in {"restock", "refund"} => thread[t].copy.pay = "paid"
              /\ thread[t].pc \in {"courier", "note"} => thread[t].refund # "none"
    BY <1>2 DEF Past, CancelInv, MoneyFollows
<1>6. CASE Restock(t)
  <2>1. /\ thread'[t] = [thread[t] EXCEPT !.pc = "refund"]
        /\ \A u \in Thread \ {t} : thread'[u] = thread[u]
        /\ restocked' = 1 /\ UNCHANGED <<cod, order>>
    BY <1>1, <1>4, <1>6 DEF Restock, Step, At
  <2>2. /\ thread'[t].op = "patch" /\ thread'[t].to = "cancelled"
        /\ thread'[t].pc = "refund" /\ thread'[t].copy = thread[t].copy
    BY <1>1, <1>2, <2>1 DEF Activity
  <2>3. ~cod => thread'[t].copy.pay = "paid"
    BY <1>5, <1>6, <2>2 DEF Restock, At
  <2> QED
    BY <1>3, <1>4, <2>1, <2>2, <2>3, HandlerStep DEF Past
<1>7. CASE RefundCancelled(t)
  <2>1. PICK answer \in IF ~cod /\ thread[t].copy.pay = "paid"
                        THEN {"refunded", "failed"} ELSE {"none"} :
          thread' = [thread EXCEPT ![t].refund = answer, ![t].pc = "courier"]
    BY <1>7 DEF RefundCancelled
  <2>2. /\ thread'[t] = [thread[t] EXCEPT !.refund = answer, !.pc = "courier"]
        /\ \A u \in Thread \ {t} : thread'[u] = thread[u]
    BY <1>1, <2>1
  <2>3. /\ thread'[t].op = "patch" /\ thread'[t].to = "cancelled"
        /\ thread'[t].pc = "courier" /\ thread'[t].refund = answer
    BY <1>1, <1>2, <2>2 DEF Activity
  <2>4. ~cod => answer # "none"
    BY <1>5, <1>7, <2>1 DEF RefundCancelled, At
  <2>5. restocked' = 1 /\ UNCHANGED <<cod, order>>
    BY <1>4, <1>7 DEF RefundCancelled, At
  <2> QED
    BY <1>3, <1>4, <2>2, <2>3, <2>4, <2>5, HandlerStep DEF Past
<1>8. CASE CancelParcel(t)
  <2>1. /\ thread'[t] = [thread[t] EXCEPT !.pc = "note"]
        /\ \A u \in Thread \ {t} : thread'[u] = thread[u]
        /\ restocked' = 1 /\ UNCHANGED <<cod, order>>
    BY <1>1, <1>4, <1>8 DEF CancelParcel, Step, At
  <2>2. /\ thread'[t].op = "patch" /\ thread'[t].to = "cancelled"
        /\ thread'[t].pc = "note" /\ thread'[t].refund = thread[t].refund
    BY <1>1, <1>2, <2>1 DEF Activity
  <2>3. ~cod => thread'[t].refund # "none"
    BY <1>5, <1>8, <2>2 DEF CancelParcel, At
  <2> QED
    BY <1>3, <1>4, <2>1, <2>2, <2>3, HandlerStep DEF Past
<1>9. CASE NoteCancelled(t)
  <2>1. /\ thread'[t] = [thread[t] EXCEPT !.pc = "save"]
        /\ \A u \in Thread \ {t} : thread'[u] = thread[u]
        /\ restocked' = 1 /\ cod' = cod /\ order' = Noted(order, thread[t].refund)
    BY <1>1, <1>4, <1>9 DEF NoteCancelled, Step, At
  <2>2. /\ thread'[t].op = "patch" /\ thread'[t].to = "cancelled"
        /\ thread'[t].pc = "save"
    BY <1>1, <1>2, <2>1 DEF Activity
  <2>3. order'.status = order.status
    BY <1>1, <2>1 DEF Noted, Order
  <2>4. ~cod => thread[t].refund \in {"refunded", "failed"}
    BY <1>1, <1>5, <1>9 DEF NoteCancelled, At, Activity
  <2>5. ~cod => GivenBack' /\ order'.pay \in {"paid", "refunded"}
    BY <1>1, <1>4, <2>1, <2>4 DEF GivenBack, Noted, Order
  <2> QED
    BY <1>3, <1>4, <2>1, <2>2, <2>3, <2>5, HandlerStep DEF Past
<1> QED
    BY <1>6, <1>7, <1>8, <1>9

LEMMA SavePatchKeeps ==
    ASSUME CancelInv, NEW t \in Thread, SavePatch(t)
    PROVE  (OneHandler /\ GoodsCounted /\ MoneyFollows)'
<1>1. /\ thread \in [Thread -> Activity] /\ order \in Order /\ thread[t] \in Activity
      /\ thread[t].op = "patch" /\ thread[t].pc = "save"
    BY DEF CancelInv, StatusInv, TypeOK, SavePatch, At
<1>2. order.status # "cancelled" /\ \A u \in Thread \ {t} : thread[u].op \notin Staff
    BY <1>1, NoHandlerBut DEF Staff
<1>3. thread'[t] = Idle /\ \A u \in Thread \ {t} : thread'[u] = thread[u]
    BY <1>1 DEF SavePatch, Finish
<1>4. /\ order'.status = thread[t].to
      /\ order'.refundFailed = order.refundFailed
      /\ ~cod => order'.pay = order.pay
      /\ UNCHANGED <<cod, restocked>>
    BY <1>1 DEF SavePatch, Order
<1>5. restocked = IF thread[t].to = "cancelled" THEN 1 ELSE 0
    BY <1>1, <1>2, OnlyHandler DEF Past
<1>6. ~cod => /\ order.pay \in {"paid", "refunded"}
              /\ order.pay = "refunded" => thread[t].to = "cancelled"
              /\ thread[t].to = "cancelled" => GivenBack
    BY <1>1, <1>2, OnlyHandler DEF Past, CancelInv, MoneyFollows
<1>7. thread'[t].op = "none"
    BY <1>3 DEF Idle
<1> QED
    BY <1>2, <1>3, <1>4, <1>5, <1>6, <1>7, HandlerStep DEF Past, Staff, GivenBack

\* Booking a courier touches neither the goods nor the money.
LEMMA ShipStepsKeep ==
    ASSUME CancelInv, NEW t \in Thread,
           \/ BookParcel(t) \/ InsertShipment(t)
           \/ \E markShipped \in BOOLEAN : SaveShip(t, markShipped)
    PROVE  (OneHandler /\ GoodsCounted /\ MoneyFollows)'
<1>1. /\ thread \in [Thread -> Activity] /\ order \in Order /\ thread[t] \in Activity
      /\ thread[t].op = "ship"
    BY DEF CancelInv, StatusInv, TypeOK, BookParcel, InsertShipment, SaveShip, At
<1>2. order.status # "cancelled" /\ \A u \in Thread \ {t} : thread[u].op \notin Staff
    BY <1>1, NoHandlerBut DEF Staff
<1>3. thread'[t].op \in {"ship", "none"} /\ \A u \in Thread \ {t} : thread'[u] = thread[u]
  <2>1. \/ Finish(t)
        \/ \E pc \in {"insert", "save"} : Step(t, pc)
    BY DEF BookParcel, InsertShipment, SaveShip
  <2>2. CASE Finish(t)
    BY <1>1, <2>2 DEF Finish, Idle
  <2>3. ASSUME NEW pc \in {"insert", "save"}, Step(t, pc)
        PROVE  thread'[t].op = "ship" /\ \A u \in Thread \ {t} : thread'[u] = thread[u]
    BY <1>1, <2>3 DEF Step, Activity
  <2> QED
    BY <2>1, <2>2, <2>3
<1>4. /\ order'.status # "cancelled"
      /\ order'.pay = order.pay /\ order'.refundFailed = order.refundFailed
      /\ UNCHANGED <<cod, restocked>>
  <2>1. CASE BookParcel(t) \/ InsertShipment(t)
    BY <1>2, <2>1 DEF BookParcel, InsertShipment
  <2>2. ASSUME NEW markShipped \in BOOLEAN, SaveShip(t, markShipped)
        PROVE  order'.status # "cancelled" /\ order'.pay = order.pay
               /\ order'.refundFailed = order.refundFailed /\ UNCHANGED <<cod, restocked>>
    BY <1>1, <1>2, <2>2 DEF SaveShip, Order
  <2> QED
    BY <2>1, <2>2
<1>5. restocked = 0 /\ (~cod => order.pay = "paid")
    BY <1>1, <1>2, OnlyHandler DEF Past, CancelInv, MoneyFollows
<1> QED
    BY <1>2, <1>3, <1>4, <1>5, HandlerStep DEF Past

-------------------------------------------------------------------------------
(* The others' steps *)

LEMMA LoadTrackingKeeps ==
    ASSUME CancelInv, NEW t \in Thread, NEW scan \in Outcome,
           LoadPull(t) \/ LoadPush(t, scan)
    PROVE  (OneHandler /\ GoodsCounted /\ MoneyFollows)'
<1>1. thread \in [Thread -> Activity]
    BY DEF CancelInv, StatusInv, TypeOK
<1>2. /\ thread[t].op \notin Staff /\ thread'[t].op \notin Staff
      /\ \A u \in Thread \ {t} : thread'[u] = thread[u]
  <2>1. thread[t] = Idle
    BY DEF LoadPull, LoadPush, MayStart
  <2>2. \/ thread' = [thread EXCEPT ![t] = [Idle EXCEPT !.op = "pull", !.pc = "track"]]
        \/ thread' = [thread EXCEPT ![t] = [Idle EXCEPT !.op = "push", !.pc = "record",
                                                       !.scan = scan]]
    BY DEF LoadPull, LoadPush
  <2>3. thread'[t].op \in {"pull", "push"} /\ \A u \in Thread \ {t} : thread'[u] = thread[u]
    BY <1>1, <2>2 DEF Idle
  <2> QED
    BY <2>1, <2>3 DEF Idle, Staff
<1>3. UNCHANGED <<cod, order, restocked>>
    BY DEF LoadPull, LoadPush
<1> QED
    BY <1>2, <1>3, NoHandlerStep

LEMMA TrackingKeeps ==
    ASSUME CancelInv, NEW t \in Thread, TrackingStep(t)
    PROVE  (OneHandler /\ GoodsCounted /\ MoneyFollows)'
<1>1. /\ thread \in [Thread -> Activity] /\ order \in Order /\ thread[t] \in Activity
      /\ Course(thread[t])
    BY DEF CancelInv, StatusInv, TypeOK, Courses
<1>2. thread[t].pc \in {"track", "record", "move", "find", "deliver"}
    BY DEF TrackingStep, TrackShipment, At, RecordScan, MoveToShipped, FlagException,
           FindUndelivered, MoveToDelivered
<1>3. thread[t].op \in {"pull", "push"}
    BY <1>1, <1>2 DEF Course, Activity, Cancelling, Idle
<1>4. thread'[t].op \in {"pull", "push", "none"} /\ \A u \in Thread \ {t} : thread'[u] = thread[u]
    BY <1>1, <1>3 DEF TrackingStep, TrackShipment, RecordScan, MoveToShipped, FlagException,
           FindUndelivered, MoveToDelivered, Step, Finish, Idle, Activity
<1>5. /\ order'.status = "cancelled" <=> order.status = "cancelled"
      /\ ~cod => order'.pay = order.pay
      /\ order'.refundFailed = order.refundFailed
      /\ UNCHANGED <<cod, restocked>>
  <2>1. CASE TrackShipment(t) \/ RecordScan(t) \/ FindUndelivered(t)
    BY <2>1 DEF TrackShipment, RecordScan, FindUndelivered
  <2>2. CASE MoveToShipped(t)
    BY <1>1, <2>2 DEF MoveToShipped, ShippedFrom, Order
  <2>3. CASE FlagException(t)
    BY <1>1, <2>3 DEF FlagException, Order
  <2>4. CASE MoveToDelivered(t)
    <3>1. thread[t].copy.status # "cancelled"
      BY <1>1, <2>4 DEF MoveToDelivered, Course, DeliveredFrom
    <3> QED
      BY <1>1, <2>4, <3>1 DEF MoveToDelivered, UnchangedSince, Order
  <2> QED
    BY <2>1, <2>2, <2>3, <2>4 DEF TrackingStep
<1> QED
    BY <1>3, <1>4, <1>5, NoHandlerStep DEF Staff

LEMMA InitCancelInv == Init => CancelInv
<1> SUFFICES ASSUME Init PROVE CancelInv
    OBVIOUS
<1>1. \A t \in Thread : thread[t].op = "none"
    BY DEF Init, Idle
<1>2. order.status = "confirmed" /\ (~cod => order.pay = "paid")
    BY DEF Init, NewOrder
<1> QED
    BY <1>1, <1>2, InitStatusInv
       DEF Init, CancelInv, OneHandler, GoodsCounted, MoneyFollows, Past, AnyPast, Staff

LEMMA NextCancelInv ==
    ASSUME ~StaffOverlap
    PROVE  CancelInv /\ [Next]_vars => CancelInv'
<1> SUFFICES ASSUME CancelInv, [Next]_vars PROVE (OneHandler /\ GoodsCounted /\ MoneyFollows)'
    BY NextStatusInv DEF CancelInv
<1>1. CASE UNCHANGED <<cod, order, thread, restocked>>
    BY <1>1 DEF CancelInv, OneHandler, GoodsCounted, MoneyFollows, Past, AnyPast, GivenBack
<1>2. CASE UNCHANGED vars \/ ParcelMoves
    BY <1>1, <1>2 DEF vars, ParcelMoves
<1>3. ASSUME NEW t \in Thread, Begin(t) PROVE (OneHandler /\ GoodsCounted /\ MoneyFollows)'
    BY <1>3, LoadPatchKeeps, LoadShipKeeps, LoadTrackingKeeps DEF Begin, Outcome
<1>4. ASSUME NEW t \in Thread, StaffStep(t) PROVE (OneHandler /\ GoodsCounted /\ MoneyFollows)'
    BY <1>4, CancelStepsKeep, SavePatchKeeps, ShipStepsKeep DEF StaffStep
<1>5. ASSUME NEW t \in Thread, TrackingStep(t)
      PROVE  (OneHandler /\ GoodsCounted /\ MoneyFollows)'
    BY <1>5, TrackingKeeps
<1> QED
    BY <1>2, <1>3, <1>4, <1>5 DEF Next

\* However tracking updates interleave with a cancellation, the goods of a cancelled
\* order go back into stock exactly once, and those of no other order.
THEOREM GoodsBackOnce ==
    ASSUME ~StaffOverlap
    PROVE  Spec => []RestockedIffCancelled
<1>1. CancelInv => RestockedIffCancelled
    BY DEF CancelInv, GoodsCounted, AnyPast, Past, RestockedIffCancelled, Quiet, Idle
<1>2. CancelInv /\ [Next]_vars => CancelInv'
    BY NextCancelInv
<1> QED
    BY InitCancelInv, <1>1, <1>2, PTL DEF Spec

\* A paid order that ends up cancelled has its money back, or says that the refund
\* failed.
THEOREM MoneyBackOrMarked ==
    ASSUME ~StaffOverlap
    PROVE  Spec => []CancelledIsRefunded
<1>1. CancelInv => CancelledIsRefunded
    BY DEF CancelInv, MoneyFollows, GivenBack, CancelledIsRefunded
<1>2. CancelInv /\ [Next]_vars => CancelInv'
    BY NextCancelInv
<1> QED
    BY InitCancelInv, <1>1, <1>2, PTL DEF Spec
===============================================================================
