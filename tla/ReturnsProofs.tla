----------------------------- MODULE ReturnsProofs -----------------------------
(***************************************************************************)
(* Theorems about Returns, whatever the amounts, however many operations   *)
(* overlap, are refused, lost or cut short: the returned goods go back     *)
(* into stock once but for the overlaps counted, and the refunds of the    *)
(* payment are all counted but for the bookings overwritten.  That a       *)
(* return is refunded once needs one assumption, RefundsApart: the run     *)
(* received_during_refund shows what happens without it.                   *)
(***************************************************************************)
EXTENDS Returns, FiniteSetTheorems, TLAPS

-------------------------------------------------------------------------------
(* What holds of a return, and of one thread's activity *)

Returned == {"received", "refunded"}

\* The fields of a return agree, in the document and in every copy of it.
Sound(ret) ==
    /\ ret.stockRestored <=> ret.status \in Returned
    /\ ret.refundInProgress => ret.status \in Returned
    /\ ret.status = "refunded" => cod \/ ret.refundId

Steps == [none |-> {"idle"}, request |-> {"loaded"}, reject |-> {"loaded"},
          approve |-> {"loaded"}, receive |-> {"loaded", "stocked"},
          refund |-> {"loaded", "counted", "claimed", "failed", "paid", "booking",
                      "booked"},
          adhoc |-> {"paid", "booking"}]

Course(a) == a.pc \in Steps[a.op] /\ (a.op = "none" => a = Idle)

\* What the handler checked holds of the copy it decided on.
Decided(a) ==
    /\ Sound(a.copy.ret)
    /\ a.op = "request" => a.copy.ret.status \in {"none", "rejected"}
    /\ a.op \in {"reject", "approve"} => a.copy.ret.status = "requested"
    /\ a.op = "receive" => a.copy.ret.status \in {"approved", "received"}
    /\ a.op = "refund" => /\ a.copy.ret.status \in Returned
                          /\ a.pc # "loaded" => ~cod

Amounts(a) ==
    a.op = "refund" /\ a.pc # "loaded" =>
        a.amount = RefundAmount(a.copy.ret, a.already)

Fit(a) == Course(a) /\ Decided(a) /\ Amounts(a)

Threads == \A t \in Thread : Fit(thread[t])

Base == TypeOK /\ Threads /\ Sound(doc.ret)

-------------------------------------------------------------------------------
(* Amounts *)

LEMMA MaxOfTwo ==
    ASSUME NEW a \in Int, NEW b \in Int
    PROVE  Max({a, b}) = IF a >= b THEN a ELSE b
<1>1. \E x \in {a, b} : \A y \in {a, b} : x >= y
    OBVIOUS
<1>2. /\ Max({a, b}) \in {a, b}
      /\ \A y \in {a, b} : Max({a, b}) >= y
    BY <1>1 DEF Max
<1> QED
    BY <1>2

LEMMA MinOfTwo ==
    ASSUME NEW a \in Int, NEW b \in Int
    PROVE  Min({a, b}) = IF a <= b THEN a ELSE b
<1>1. \E x \in {a, b} : \A y \in {a, b} : x <= y
    OBVIOUS
<1>2. /\ Min({a, b}) \in {a, b}
      /\ \A y \in {a, b} : Min({a, b}) <= y
    BY <1>1 DEF Min
<1> QED
    BY <1>2

\* A refund is never more than what is left, and all of it when it is full.
LEMMA AmountsFit ==
    ASSUME NEW ret \in Return, NEW already \in 0..Total
    PROVE  /\ Remaining(already) = Total - already
           /\ RefundAmount(ret, already) \in 0..Total
           /\ already + RefundAmount(ret, already) <= Total
           /\ FullRefund(ret, already) => already + RefundAmount(ret, already) = Total
<1>1. Total \in Nat /\ ret.value \in 0..Total
    BY ReturnsAssumption DEF Return
<1>2. Remaining(already) = Total - already
    BY <1>1, MaxOfTwo DEF Remaining
<1>3. RefundAmount(ret, already) =
        IF Whole(ret) \/ Total - already < ret.value THEN Total - already ELSE ret.value
    BY <1>1, <1>2, MinOfTwo DEF RefundAmount
<1> QED
    BY <1>1, <1>2, <1>3 DEF FullRefund

LEMMA AlreadyFits ==
    ASSUME NEW d \in Doc, NEW inLedger \in 0..Total
    PROVE  /\ AlreadyRefunded(d, inLedger) \in 0..Total
           /\ AlreadyRefunded(d, inLedger) \in {d.refunded, inLedger}
           /\ d.refunded <= AlreadyRefunded(d, inLedger)
           /\ inLedger <= AlreadyRefunded(d, inLedger)
<1>1. d.refunded \in Int /\ inLedger \in Int /\ d.refunded \in 0..Total
    BY ReturnsAssumption DEF Doc
<1> QED
    BY <1>1, MaxOfTwo DEF AlreadyRefunded

-------------------------------------------------------------------------------
(* Threads and bounds *)

LEMMA IdleActivity ==
    /\ Idle \in Activity /\ Fit(Idle)
    /\ Idle.op = "none" /\ Idle.pc = "idle" /\ ~Idle.copy.ret.stockRestored
<1>1. Delivered \in Doc /\ Sound(Delivered.ret) /\ ~Delivered.ret.stockRestored
    BY ReturnsAssumption DEF Delivered, Doc, NoReturn, Return, Sound, Returned
<1>2. Idle \in Activity
    BY <1>1, ReturnsAssumption DEF Idle, Activity, Op, Pc
<1> QED
    BY <1>1, <1>2 DEF Idle, Fit, Course, Steps, Decided, Amounts

\* One thread's activity changes, the others' stay.
LEMMA OneThread ==
    ASSUME thread \in [Thread -> Activity], Threads, cod' = cod,
           NEW t \in Thread, NEW a \in Activity, Fit(a),
           thread' = [thread EXCEPT ![t] = a]
    PROVE  /\ thread' \in [Thread -> Activity] /\ Threads'
           /\ thread'[t] = a
           /\ \A u \in Thread \ {t} : thread'[u] = thread[u]
<1>1. /\ thread' \in [Thread -> Activity] /\ thread'[t] = a
      /\ \A u \in Thread \ {t} : thread'[u] = thread[u]
    OBVIOUS
<1>2. ASSUME NEW u \in Thread PROVE Fit(thread[u])'
  <2>1. Fit(thread'[u])
    BY <1>1 DEF Threads
  <2> QED
    BY <2>1 DEF Fit, Course, Decided, Amounts, Sound
<1> QED
    BY <1>1, <1>2 DEF Threads

LEMMA Finished ==
    ASSUME thread \in [Thread -> Activity], Threads, cod' = cod,
           NEW t \in Thread, Finish(t)
    PROVE  /\ thread' \in [Thread -> Activity] /\ Threads'
           /\ thread'[t] = Idle
           /\ \A u \in Thread \ {t} : thread'[u] = thread[u]
<1>1. thread' = [thread EXCEPT ![t] = Idle]
    BY DEF Finish
<1> QED
    BY <1>1, OneThread, IdleActivity

\* A thread takes its next step: it keeps its operation, copy and amounts.
LEMMA NextPc ==
    ASSUME thread \in [Thread -> Activity], Threads, cod' = cod, NEW t \in Thread,
           NEW pc \in Pc, pc \in Steps[thread[t].op], thread[t].op # "none",
           thread[t].pc = "loaded" => thread[t].op # "refund", Step(t, pc)
    PROVE  /\ thread' \in [Thread -> Activity] /\ Threads'
           /\ thread'[t] = [thread[t] EXCEPT !.pc = pc]
           /\ thread'[t].pc = pc /\ thread'[t].op = thread[t].op
           /\ thread'[t].copy = thread[t].copy /\ thread'[t].amount = thread[t].amount
           /\ thread'[t].already = thread[t].already /\ thread'[t].read = thread[t].read
           /\ \A u \in Thread \ {t} : thread'[u] = thread[u]
<1> DEFINE a == [thread[t] EXCEPT !.pc = pc]
<1>1. thread[t] \in Activity /\ Fit(thread[t])
    BY DEF Threads
<1>2. /\ a \in Activity
      /\ a.pc = pc /\ a.op = thread[t].op /\ a.copy = thread[t].copy
      /\ a.amount = thread[t].amount /\ a.already = thread[t].already
      /\ a.read = thread[t].read
    BY <1>1 DEF Activity
<1>3. thread' = [thread EXCEPT ![t] = a]
    BY DEF Step
<1> HIDE DEF a
<1>4. Fit(a)
    BY <1>1, <1>2 DEF Fit, Course, Decided, Amounts
<1>5. /\ thread' \in [Thread -> Activity] /\ Threads' /\ thread'[t] = a
      /\ \A u \in Thread \ {t} : thread'[u] = thread[u]
    BY <1>2, <1>3, <1>4, OneThread
<1> QED
    BY <1>2, <1>5 DEF a

Bounds == [requests : 0..MaxRequests, adhoc : 0..MaxAdHoc, refusals : 0..MaxRefusals,
           lost : 0..MaxLost, unbooked : 0..MaxUnbooked, crashes : 0..MaxCrashes]

\* What the bounds say of mishaps never falls.
Mishaps == bounds.lost + bounds.unbooked + bounds.crashes

LEMMA BoundsAreNumbers ==
    ASSUME bounds \in Bounds
    PROVE  /\ bounds.lost \in Nat /\ bounds.unbooked \in Nat /\ bounds.crashes \in Nat
           /\ Mishaps \in Nat
BY ReturnsAssumption DEF Bounds, Mishaps

LEMMA Counting ==
    ASSUME bounds \in Bounds
    PROVE  /\ (\/ bounds.requests < MaxRequests /\ Count("requests")
               \/ bounds.adhoc < MaxAdHoc /\ Count("adhoc")
               \/ bounds.refusals < MaxRefusals /\ Count("refusals")) =>
                /\ bounds' \in Bounds
                /\ bounds'.lost = bounds.lost /\ bounds'.unbooked = bounds.unbooked
                /\ bounds'.crashes = bounds.crashes
           /\ bounds.lost < MaxLost /\ Count("lost") =>
                /\ bounds' \in Bounds
                /\ bounds'.lost = bounds.lost + 1 /\ bounds'.unbooked = bounds.unbooked
                /\ bounds'.crashes = bounds.crashes
           /\ bounds.unbooked < MaxUnbooked /\ Count("unbooked") =>
                /\ bounds' \in Bounds
                /\ bounds'.lost = bounds.lost /\ bounds'.unbooked = bounds.unbooked + 1
                /\ bounds'.crashes = bounds.crashes
           /\ bounds.crashes < MaxCrashes /\ Count("crashes") =>
                /\ bounds' \in Bounds
                /\ bounds'.lost = bounds.lost /\ bounds'.unbooked = bounds.unbooked
                /\ bounds'.crashes = bounds.crashes + 1
           /\ UNCHANGED bounds =>
                /\ bounds' \in Bounds
                /\ bounds'.lost = bounds.lost /\ bounds'.unbooked = bounds.unbooked
                /\ bounds'.crashes = bounds.crashes
BY ReturnsAssumption DEF Bounds, Count

LEMMA BaseAt ==
    ASSUME Base, NEW t \in Thread
    PROVE  /\ thread \in [Thread -> Activity] /\ Threads /\ bounds \in Bounds
           /\ thread[t] \in Activity /\ Fit(thread[t])
           /\ thread[t].copy \in Doc /\ thread[t].copy.ret \in Return
           /\ thread[t].amount \in 0..Total /\ thread[t].already \in 0..Total
           /\ thread[t].read \in 0..Total
           /\ doc \in Doc /\ doc.ret \in Return /\ doc.refunded \in 0..Total
           /\ booked \in 0..Total /\ returned \in 0..Total /\ Total \in Nat
           /\ sent \in Nat /\ restocked \in Nat /\ crossings \in Nat
           /\ cod \in BOOLEAN /\ overbooked \in BOOLEAN
BY ReturnsAssumption DEF Base, TypeOK, Threads, Activity, Doc, Bounds

-------------------------------------------------------------------------------
(* What each step does to the order and to the thread that takes it *)

\* t begins an operation of the return on the order as it is.
Starts(t, a) ==
    /\ thread[t] = Idle /\ MayStart(t, a.op)
    /\ a.op \in Desk \union {"refund"} /\ a.pc = "loaded" /\ a.copy = doc
    /\ a.already = 0
    /\ a.op \in {"reject", "approve", "receive"} \/ a.op = "request" \/ CanRefund(doc.ret)
    /\ thread'[t] = a
    /\ \A u \in Thread \ {t} : thread'[u] = thread[u]
    /\ CountCrossing(a.op)
    /\ UNCHANGED <<cod, doc, booked, returned, sent, restocked, overbooked>>
    /\ bounds' \in Bounds /\ bounds'.lost = bounds.lost
    /\ bounds'.unbooked = bounds.unbooked /\ bounds'.crashes = bounds.crashes

LEMMA CrossingsCounted ==
    ASSUME crossings \in Nat, NEW op, CountCrossing(op)
    PROVE  crossings' \in Nat /\ crossings' = crossings + (IF Crossing(op) THEN 1 ELSE 0)
BY DEF CountCrossing

LEMMA LoadStarts ==
    ASSUME Base, NEW t \in Thread, NEW op \in Op, Load(t, op)
    PROVE  Base' /\ \E a \in Activity : Starts(t, a)
<1> DEFINE a == [Idle EXCEPT !.op = op, !.pc = "loaded", !.copy = doc]
<1>1. /\ op \in {"reject", "approve", "receive", "refund"} /\ MayStart(t, op)
      /\ thread' = [thread EXCEPT ![t] = a] /\ Allowed(op, doc) /\ CountCrossing(op)
      /\ UNCHANGED <<cod, doc, booked, returned, sent, restocked, overbooked, bounds>>
    BY DEF Load, Op
<1>2. /\ a \in Activity
      /\ a.op = op /\ a.pc = "loaded" /\ a.copy = doc /\ a.already = 0
    BY <1>1, BaseAt, IdleActivity DEF Idle, Activity, Op, Pc
<1> HIDE DEF a
<1>3. Sound(doc.ret)
    BY DEF Base
<1>4. Fit(a)
  <2>1. Course(a) /\ Amounts(a)
    BY <1>1, <1>2 DEF Course, Steps, Amounts
  <2>2. Decided(a)
    BY <1>1, <1>2, <1>3 DEF Decided, Allowed, CanRefund, Returned
  <2> QED
    BY <2>1, <2>2 DEF Fit
<1>5. /\ thread' \in [Thread -> Activity] /\ Threads' /\ thread'[t] = a
      /\ \A u \in Thread \ {t} : thread'[u] = thread[u]
    BY <1>1, <1>2, <1>4, BaseAt, OneThread
<1>6. crossings' \in Nat
    BY <1>1, BaseAt, CrossingsCounted
<1>7. Base'
    BY <1>1, <1>3, <1>5, <1>6, BaseAt DEF Base, TypeOK, Sound
<1>8. op = "refund" => CanRefund(doc.ret)
    BY <1>1 DEF Allowed
<1>9. thread[t] = Idle
    BY <1>1 DEF MayStart
<1>10. bounds \in Bounds
    BY BaseAt
<1>11. Starts(t, a)
    BY <1>1, <1>2, <1>5, <1>8, <1>9, <1>10 DEF Starts, Desk
<1> QED
    BY <1>2, <1>7, <1>11

LEMMA LoadRequestStarts ==
    ASSUME Base, NEW t \in Thread, NEW value \in Values, LoadRequest(t, value)
    PROVE  Base' /\ \E a \in Activity : Starts(t, a)
<1> DEFINE a == [Idle EXCEPT !.op = "request", !.pc = "loaded", !.copy = doc,
                             !.amount = value]
<1>1. /\ MayStart(t, "request") /\ thread' = [thread EXCEPT ![t] = a]
      /\ Allowed("request", doc) /\ CountCrossing("request")
      /\ bounds.requests < MaxRequests /\ Count("requests")
      /\ UNCHANGED <<cod, doc, booked, returned, sent, restocked, overbooked>>
    BY DEF LoadRequest
<1>2. value \in 0..Total
    BY ReturnsAssumption
<1>3. /\ a \in Activity
      /\ a.op = "request" /\ a.pc = "loaded" /\ a.copy = doc /\ a.already = 0
    BY <1>2, BaseAt, IdleActivity DEF Idle, Activity, Op, Pc
<1> HIDE DEF a
<1>4. Sound(doc.ret)
    BY DEF Base
<1>5. Fit(a)
    BY <1>1, <1>3, <1>4 DEF Fit, Course, Steps, Amounts, Decided, Allowed, CanRequest
<1>6. /\ thread' \in [Thread -> Activity] /\ Threads' /\ thread'[t] = a
      /\ \A u \in Thread \ {t} : thread'[u] = thread[u]
    BY <1>1, <1>3, <1>5, BaseAt, OneThread
<1>7. crossings' \in Nat
    BY <1>1, BaseAt, CrossingsCounted
<1>8. /\ bounds' \in Bounds /\ bounds'.lost = bounds.lost
      /\ bounds'.unbooked = bounds.unbooked /\ bounds'.crashes = bounds.crashes
    BY <1>1, BaseAt, Counting
<1>9. Base'
    BY <1>1, <1>4, <1>6, <1>7, <1>8, BaseAt DEF Base, TypeOK, Sound, Bounds
<1>10. thread[t] = Idle
    BY <1>1 DEF MayStart
<1>11. Starts(t, a)
    BY <1>1, <1>3, <1>6, <1>8, <1>10 DEF Starts, Desk
<1> QED
    BY <1>3, <1>9, <1>11

\* t writes the return it made from its copy, and ends.
Saves(t) ==
    \/ SaveRequest(t) \/ SaveRejected(t) \/ SaveApproved(t) \/ SaveReceived(t)
    \/ RefundManually(t)

Open(ret) == ret.status \notin Returned \/ Unclaimed(ret)
Stocked(a) == a.op = "receive" /\ a.pc = "stocked"

LEMMA SaveSaves ==
    ASSUME Base, NEW t \in Thread, Saves(t)
    PROVE  /\ Base'
           /\ thread[t].op \in Desk \union {"refund"} /\ thread[t].pc \in {"loaded", "stocked"}
           /\ thread[t].op = "refund" => cod /\ doc'.ret.status = "refunded"
           /\ thread'[t] = Idle /\ \A u \in Thread \ {t} : thread'[u] = thread[u]
           /\ doc'.ret.stockRestored <=>
                 thread[t].copy.ret.stockRestored \/ Stocked(thread[t])
           /\ Open(doc'.ret) => Open(thread[t].copy.ret)
           /\ doc'.refunded = doc.refunded
           /\ UNCHANGED <<cod, booked, returned, sent, restocked, crossings, overbooked,
                          bounds>>
<1> DEFINE copy == thread[t].copy.ret
<1>1. /\ thread[t] \in Activity /\ Fit(thread[t]) /\ copy \in Return /\ doc \in Doc
      /\ thread[t].amount \in 0..Total
    BY BaseAt
<1>2. PICK ret \in Return, orderStatus \in {"delivered", "return_requested",
                "return_approved", "returned", "partially_returned", "refunded",
                "partially_refunded"} :
        /\ SaveReturn(t, ret, orderStatus)
        /\ Sound(ret)
        /\ ret.stockRestored <=> copy.stockRestored \/ Stocked(thread[t])
        /\ Open(ret) => Open(copy)
        /\ thread[t].op \in Desk \union {"refund"} /\ thread[t].pc \in {"loaded", "stocked"}
        /\ thread[t].op = "refund" => cod /\ ret.status = "refunded"
  <2>1. CASE SaveRequest(t)
    <3> DEFINE ret == [NoReturn EXCEPT !.status = "requested", !.value = thread[t].amount]
    <3>1. /\ SaveReturn(t, ret, "return_requested")
          /\ thread[t].op = "request" /\ thread[t].pc = "loaded"
      BY <2>1 DEF SaveRequest, At
    <3>2. /\ ret \in Return /\ ret.status = "requested" /\ ~ret.stockRestored
          /\ ~ret.refundInProgress
      BY <1>1 DEF NoReturn, Return
    <3> HIDE DEF ret
    <3>3. ~copy.stockRestored /\ Open(copy)
      BY <1>1, <3>1 DEF Fit, Decided, Sound, Returned, Open
    <3>4. Sound(ret) /\ ~Stocked(thread[t])
      BY <3>1, <3>2 DEF Sound, Returned, Stocked
    <3> QED
      BY <3>1, <3>2, <3>3, <3>4 DEF Desk
  <2>2. CASE SaveRejected(t) \/ SaveApproved(t)
    <3>1. PICK status \in {"rejected", "approved"},
               orderStatus \in {"delivered", "return_approved"} :
            /\ SaveReturn(t, [copy EXCEPT !.status = status], orderStatus)
            /\ thread[t].op \in {"reject", "approve"} /\ thread[t].pc = "loaded"
      BY <2>2 DEF SaveRejected, SaveApproved, At
    <3> DEFINE ret == [copy EXCEPT !.status = status]
    <3>2. /\ SaveReturn(t, ret, orderStatus)
          /\ ret \in Return /\ ret.status = status
          /\ ret.stockRestored = copy.stockRestored
          /\ ret.refundInProgress = copy.refundInProgress
      BY <1>1, <3>1 DEF Return
    <3> HIDE DEF ret
    <3>3. ~copy.stockRestored /\ Open(copy) /\ ~copy.refundInProgress
      BY <1>1, <3>1 DEF Fit, Decided, Sound, Returned, Open
    <3>4. Sound(ret) /\ ~Stocked(thread[t])
      BY <3>1, <3>2, <3>3 DEF Sound, Returned, Stocked
    <3> QED
      BY <3>1, <3>2, <3>3, <3>4 DEF Desk
  <2>3. CASE SaveReceived(t)
    <3> DEFINE ret == [copy EXCEPT !.status = "received", !.stockRestored = TRUE]
    <3>1. PICK orderStatus \in {"returned", "partially_returned"} :
            /\ SaveReturn(t, ret, orderStatus)
            /\ thread[t].op = "receive" /\ thread[t].pc = "stocked"
      BY <2>3 DEF SaveReceived, At
    <3>2. /\ ret \in Return /\ ret.status = "received" /\ ret.stockRestored
          /\ ret.refundInProgress = copy.refundInProgress
      BY <1>1 DEF Return
    <3> HIDE DEF ret
    <3>3. copy.status \in {"approved", "received"}
      BY <1>1, <3>1 DEF Fit, Decided
    <3>4. Sound(ret) /\ Stocked(thread[t])
      BY <3>1, <3>2 DEF Sound, Returned, Stocked
    <3>5. Open(ret) => Open(copy)
      BY <3>2, <3>3 DEF Open, Unclaimed, Returned
    <3> QED
      BY <3>1, <3>2, <3>4, <3>5 DEF Desk
  <2>4. CASE RefundManually(t)
    <3> DEFINE ret == [copy EXCEPT !.status = "refunded"]
    <3>1. PICK orderStatus \in {"refunded", "partially_refunded"} :
            /\ SaveReturn(t, ret, orderStatus)
            /\ thread[t].op = "refund" /\ thread[t].pc = "loaded" /\ cod
      BY <2>4 DEF RefundManually, At
    <3>2. /\ ret \in Return /\ ret.status = "refunded"
          /\ ret.stockRestored = copy.stockRestored
      BY <1>1 DEF Return
    <3> HIDE DEF ret
    <3>3. copy.stockRestored
      BY <1>1, <3>1 DEF Fit, Decided, Sound
    <3>4. Sound(ret) /\ ~Open(ret) /\ ~Stocked(thread[t])
      BY <3>1, <3>2, <3>3 DEF Sound, Returned, Open, Unclaimed, Stocked
    <3> QED
      BY <3>1, <3>2, <3>3, <3>4
  <2> QED
    BY <2>1, <2>2, <2>3, <2>4 DEF Saves
<1>3. /\ doc' = [doc EXCEPT !.ret = ret, !.orderStatus = orderStatus] /\ Finish(t)
      /\ UNCHANGED <<cod, booked, returned, sent, restocked, crossings, overbooked, bounds>>
    BY <1>2 DEF SaveReturn, goods
<1>4. doc' \in Doc /\ doc'.ret = ret /\ doc'.refunded = doc.refunded
    BY <1>1, <1>2, <1>3 DEF Doc
<1>5. /\ thread' \in [Thread -> Activity] /\ Threads' /\ thread'[t] = Idle
      /\ \A u \in Thread \ {t} : thread'[u] = thread[u]
    BY <1>3, BaseAt, Finished
<1>6. Sound(doc.ret)'
    BY <1>2, <1>3, <1>4 DEF Sound
<1>7. Base'
    BY <1>3, <1>4, <1>5, <1>6 DEF Base, TypeOK
<1> QED
    BY <1>2, <1>3, <1>4, <1>5, <1>7

LEMMA RestockStep ==
    ASSUME Base, NEW t \in Thread, Restock(t)
    PROVE  /\ Base'
           /\ thread[t].op = "receive" /\ thread[t].pc = "loaded"
           /\ thread'[t] = [thread[t] EXCEPT !.pc = "stocked"]
           /\ thread'[t].op = "receive" /\ thread'[t].pc = "stocked"
           /\ thread'[t].copy = thread[t].copy
           /\ \A u \in Thread \ {t} : thread'[u] = thread[u]
           /\ restocked' = restocked +
                  IF ~thread[t].copy.ret.stockRestored THEN 1 ELSE 0
           /\ UNCHANGED <<cod, doc, booked, returned, sent, crossings, overbooked, bounds>>
<1>1. /\ thread[t].op = "receive" /\ thread[t].pc = "loaded" /\ Step(t, "stocked")
      /\ restocked' = restocked + IF ~thread[t].copy.ret.stockRestored THEN 1 ELSE 0
      /\ UNCHANGED <<cod, doc, booked, returned, sent, crossings, overbooked, bounds>>
    BY DEF Restock, At, NeedsRestock
<1>2. "stocked" \in Steps[thread[t].op] /\ "stocked" \in Pc
    BY <1>1 DEF Steps, Pc
<1>3. /\ thread' \in [Thread -> Activity] /\ Threads'
      /\ thread'[t] = [thread[t] EXCEPT !.pc = "stocked"]
      /\ thread'[t].op = "receive" /\ thread'[t].pc = "stocked"
      /\ thread'[t].copy = thread[t].copy
      /\ \A u \in Thread \ {t} : thread'[u] = thread[u]
    BY <1>1, <1>2, BaseAt, NextPc
<1>4. restocked' \in Nat
    BY <1>1, BaseAt
<1>5. Base'
    BY <1>1, <1>3, <1>4 DEF Base, TypeOK, Sound
<1> QED
    BY <1>1, <1>3, <1>5

\* Thread t goes on with the same operation, copy and amounts, or ends.
Goes(t, pc) ==
    /\ thread'[t].op = thread[t].op /\ thread'[t].pc = pc
    /\ thread'[t].copy = thread[t].copy /\ thread'[t].amount = thread[t].amount
    /\ thread'[t].already = thread[t].already

Others(t) == \A u \in Thread \ {t} : thread'[u] = thread[u]
SameMishaps == /\ bounds' \in Bounds /\ bounds'.lost = bounds.lost
               /\ bounds'.unbooked = bounds.unbooked
               /\ bounds'.crashes = bounds.crashes

LEMMA CountRefundedStep ==
    ASSUME Base, NEW t \in Thread, CountRefunded(t)
    PROVE  /\ Base' /\ Others(t) /\ SameMishaps
           /\ thread[t].op = "refund" /\ thread[t].pc = "loaded" /\ ~cod
           /\ \/ thread'[t] = Idle
              \/ /\ thread'[t].op = "refund" /\ thread'[t].pc = "counted"
                 /\ thread'[t].copy = thread[t].copy
                 /\ thread'[t].already = AlreadyRefunded(thread[t].copy, booked)
           /\ UNCHANGED <<cod, doc, booked, returned, sent, restocked, crossings,
                          overbooked, bounds>>
<1> DEFINE ret == thread[t].copy.ret
           already == AlreadyRefunded(thread[t].copy, booked)
           amount == RefundAmount(ret, already)
           a == [thread[t] EXCEPT !.pc = "counted", !.already = already, !.amount = amount]
<1>1. /\ thread[t].op = "refund" /\ thread[t].pc = "loaded" /\ ~cod
      /\ UNCHANGED <<cod, doc, booked, returned, sent, restocked, crossings, overbooked,
                     bounds>>
    BY DEF CountRefunded, At, goods
<1>2. already \in 0..Total /\ amount \in 0..Total
    BY BaseAt, AlreadyFits, AmountsFit
<1>3. \/ Finish(t)
      \/ thread' = [thread EXCEPT ![t] = a]
  <2> HIDE DEF already, amount
  <2>1. \/ Finish(t)
        \/ thread' = [thread EXCEPT ![t].pc = "counted", ![t].already = already,
                                    ![t].amount = amount]
    BY DEF CountRefunded, already, amount
  <2> QED
    BY <2>1, BaseAt
<1>4. /\ a \in Activity /\ a.op = "refund" /\ a.pc = "counted" /\ a.copy = thread[t].copy
      /\ a.already = already /\ a.amount = amount
    BY <1>1, <1>2, BaseAt DEF Activity, Pc
<1> HIDE DEF a, already
<1>5. Fit(a)
  <2>1. Decided(thread[t])
    BY BaseAt DEF Fit
  <2>2. Course(a) /\ Amounts(a)
    BY <1>4 DEF Course, Steps, Amounts
  <2>3. Decided(a)
    BY <1>1, <1>4, <2>1 DEF Decided
  <2> QED
    BY <2>2, <2>3 DEF Fit
<1>6. /\ thread' \in [Thread -> Activity] /\ Threads' /\ Others(t)
      /\ thread'[t] \in {Idle, a}
    BY <1>1, <1>3, <1>4, <1>5, BaseAt, Finished, OneThread DEF Others
<1>7. Base' /\ SameMishaps
    BY <1>1, <1>6, BaseAt DEF Base, TypeOK, Sound, SameMishaps
<1> QED
    BY <1>1, <1>4, <1>6, <1>7 DEF already

LEMMA ClaimRefundStep ==
    ASSUME Base, NEW t \in Thread, ClaimRefund(t)
    PROVE  /\ Base' /\ Others(t) /\ SameMishaps
           /\ thread[t].op = "refund" /\ thread[t].pc = "counted" /\ ~cod
           /\ \/ thread'[t] = Idle /\ UNCHANGED doc
              \/ /\ Unclaimed(doc.ret) /\ Goes(t, "claimed")
                 /\ doc'.ret.refundInProgress = TRUE
           /\ doc'.ret.status = doc.ret.status
           /\ doc'.ret.stockRestored = doc.ret.stockRestored
           /\ doc'.refunded = doc.refunded
           /\ UNCHANGED <<cod, booked, returned, sent, restocked, crossings, overbooked,
                          bounds>>
<1>1. /\ thread[t].op = "refund" /\ thread[t].pc = "counted"
      /\ UNCHANGED <<cod, booked, returned, sent, restocked, crossings, overbooked, bounds>>
    BY DEF ClaimRefund, At, goods
<1>2. ~cod
    BY <1>1, BaseAt DEF Fit, Decided
<1>3. CASE ~Unclaimed(doc.ret)
  <2>1. Finish(t) /\ UNCHANGED doc
    BY <1>3 DEF ClaimRefund
  <2>2. /\ thread' \in [Thread -> Activity] /\ Threads' /\ thread'[t] = Idle /\ Others(t)
    BY <1>1, <2>1, BaseAt, Finished DEF Others
  <2>3. Base' /\ SameMishaps
    BY <1>1, <2>1, <2>2, BaseAt DEF Base, TypeOK, Sound, SameMishaps
  <2> QED
    BY <1>1, <1>2, <2>1, <2>2, <2>3
<1>4. CASE Unclaimed(doc.ret)
  <2>1. doc' = [doc EXCEPT !.ret.refundInProgress = TRUE] /\ Step(t, "claimed")
    BY <1>4 DEF ClaimRefund
  <2>2. "claimed" \in Steps[thread[t].op] /\ "claimed" \in Pc
    BY <1>1 DEF Steps, Pc
  <2>3. /\ thread' \in [Thread -> Activity] /\ Threads' /\ Others(t) /\ Goes(t, "claimed")
    BY <1>1, <2>1, <2>2, BaseAt, NextPc DEF Others, Goes
  <2>4. /\ doc' \in Doc /\ doc'.ret.refundInProgress = TRUE
        /\ doc'.ret.status = doc.ret.status
        /\ doc'.ret.stockRestored = doc.ret.stockRestored
        /\ doc'.ret.refundId = doc.ret.refundId
        /\ doc'.refunded = doc.refunded
    BY <2>1, BaseAt DEF Doc, Return
  <2>5. Sound(doc.ret)'
    BY <1>1, <1>4, <2>4 DEF Base, Sound, Unclaimed, Returned
  <2>6. Base' /\ SameMishaps
    BY <1>1, <2>3, <2>4, <2>5, BaseAt DEF Base, TypeOK, SameMishaps
  <2> QED
    BY <1>1, <1>2, <1>4, <2>3, <2>4, <2>6
<1> QED
    BY <1>3, <1>4

LEMMA RazorpayStep ==
    ASSUME Base, NEW t \in Thread, RazorpayAccepts(t) \/ RazorpayRefuses(t)
    PROVE  /\ Base' /\ Others(t) /\ bounds' \in Bounds
           /\ thread[t].op = "refund" /\ thread[t].pc = "claimed" /\ ~cod
           /\ UNCHANGED <<cod, doc, booked, restocked, crossings, overbooked>>
           /\ bounds'.unbooked = bounds.unbooked /\ bounds'.crashes = bounds.crashes
           /\ RazorpayRefuses(t) =>
                Goes(t, "failed") /\ SameMishaps /\ UNCHANGED <<sent, returned>>
           /\ \/ Goes(t, "failed") /\ SameMishaps /\ UNCHANGED <<sent, returned>>
              \/ /\ PaysBack(thread[t]) > 0 /\ returned + PaysBack(thread[t]) <= Total
                 /\ returned' = returned + PaysBack(thread[t]) /\ sent' = sent + 1
                 /\ \/ Goes(t, "paid") /\ SameMishaps
                    \/ Goes(t, "failed") /\ bounds'.lost = bounds.lost + 1
<1>1. /\ thread[t].op = "refund" /\ thread[t].pc = "claimed"
      /\ UNCHANGED <<cod, doc, booked, restocked, crossings, overbooked>>
    BY DEF RazorpayAccepts, RazorpayRefuses, At, goods
<1>2. ~cod
    BY <1>1, BaseAt DEF Fit, Decided
<1>3. PICK pc \in {"paid", "failed"} : Step(t, pc) /\ (RazorpayRefuses(t) => pc = "failed")
    BY DEF RazorpayAccepts, RazorpayRefuses
<1>4. thread' \in [Thread -> Activity] /\ Threads' /\ Others(t) /\ Goes(t, pc)
  <2>1. pc \in Steps[thread[t].op] /\ pc \in Pc
    BY <1>1 DEF Steps, Pc
  <2> QED
    BY <1>1, <1>3, <2>1, BaseAt, NextPc DEF Others, Goes
<1>5. ASSUME RazorpayRefuses(t)
      PROVE  Goes(t, "failed") /\ SameMishaps /\ UNCHANGED <<sent, returned>>
  <2>1. SameMishaps
    BY <1>5, BaseAt, Counting DEF RazorpayRefuses, SameMishaps
  <2>2. UNCHANGED <<sent, returned>>
    BY <1>5 DEF RazorpayRefuses
  <2> QED
    BY <1>3, <1>4, <1>5, <2>1, <2>2
<1>6. CASE RazorpayRefuses(t)
  <2>1. Base'
    BY <1>1, <1>4, <1>6, <1>5 DEF Base, TypeOK, Sound, SameMishaps, Bounds
  <2> QED
    BY <1>1, <1>2, <1>4, <1>6, <1>5, <2>1 DEF SameMishaps
<1>7. CASE RazorpayAccepts(t)
  <2>1. /\ PaysBack(thread[t]) > 0 /\ returned + PaysBack(thread[t]) <= Total
        /\ returned' = returned + PaysBack(thread[t]) /\ sent' = sent + 1
    BY <1>7 DEF RazorpayAccepts
  <2>2. \/ Step(t, "paid") /\ UNCHANGED bounds
        \/ Step(t, "failed") /\ bounds.lost < MaxLost /\ Count("lost")
    BY <1>7 DEF RazorpayAccepts
  <2>3. Step(t, "paid") => pc = "paid"
    BY <1>4, BaseAt DEF Step, Activity, Goes
  <2>4. Step(t, "failed") => pc = "failed"
    BY <1>4, BaseAt DEF Step, Activity, Goes
  <2>5. \/ Goes(t, "paid") /\ SameMishaps
        \/ /\ Goes(t, "failed") /\ bounds' \in Bounds /\ bounds'.lost = bounds.lost + 1
           /\ bounds'.unbooked = bounds.unbooked /\ bounds'.crashes = bounds.crashes
    BY <1>4, <2>2, <2>3, <2>4, BaseAt, Counting DEF SameMishaps
  <2>6. PaysBack(thread[t]) \in Int
    BY BaseAt DEF PaysBack
  <2>7. returned' \in 0..Total /\ sent' \in Nat
    BY <2>1, <2>6, BaseAt
  <2>8. Base'
    BY <1>1, <1>4, <2>5, <2>7 DEF Base, TypeOK, Sound, SameMishaps, Bounds
  <2> QED
    BY <1>1, <1>2, <1>4, <1>5, <2>1, <2>5, <2>8 DEF SameMishaps
<1> QED
    BY <1>6, <1>7

LEMMA UnclaimRefundStep ==
    ASSUME Base, NEW t \in Thread, UnclaimRefund(t)
    PROVE  /\ Base' /\ Others(t) /\ SameMishaps /\ thread'[t] = Idle
           /\ thread[t].op = "refund" /\ thread[t].pc = "failed" /\ ~cod
           /\ doc'.ret.status = doc.ret.status
           /\ doc'.ret.stockRestored = doc.ret.stockRestored
           /\ doc'.refunded = doc.refunded
           /\ UNCHANGED <<cod, booked, returned, sent, restocked, crossings, overbooked,
                          bounds>>
<1>1. /\ thread[t].op = "refund" /\ thread[t].pc = "failed"
      /\ doc' = [doc EXCEPT !.ret = ReleaseClaim(@)] /\ Finish(t)
      /\ UNCHANGED <<cod, booked, returned, sent, restocked, crossings, overbooked, bounds>>
    BY DEF UnclaimRefund, At, goods
<1>2. ~cod
    BY <1>1, BaseAt DEF Fit, Decided
<1>3. /\ doc' \in Doc /\ ~doc'.ret.refundInProgress /\ doc'.ret.status = doc.ret.status
      /\ doc'.ret.stockRestored = doc.ret.stockRestored
      /\ doc'.ret.refundId = doc.ret.refundId /\ doc'.refunded = doc.refunded
    BY <1>1, BaseAt DEF ReleaseClaim, Doc, Return
<1>4. thread' \in [Thread -> Activity] /\ Threads' /\ thread'[t] = Idle /\ Others(t)
    BY <1>1, BaseAt, Finished DEF Others
<1>5. Sound(doc.ret)'
    BY <1>1, <1>3 DEF Base, Sound
<1>6. Base' /\ SameMishaps
    BY <1>1, <1>3, <1>4, <1>5, BaseAt DEF Base, TypeOK, SameMishaps
<1> QED
    BY <1>1, <1>2, <1>3, <1>4, <1>6

LEMMA SaveRefundedStep ==
    ASSUME Base, NEW t \in Thread, SaveRefunded(t)
    PROVE  /\ Base' /\ Others(t) /\ SameMishaps /\ thread'[t] = Idle
           /\ thread[t].op = "refund" /\ thread[t].pc = "booked" /\ ~cod
           /\ doc'.ret.status = "refunded" /\ doc'.ret.stockRestored
           /\ thread[t].copy.ret.stockRestored
           /\ doc'.refunded = thread[t].already + thread[t].amount
           /\ UNCHANGED <<cod, booked, returned, sent, restocked, crossings, overbooked,
                          bounds>>
<1> DEFINE ret == [thread[t].copy.ret EXCEPT !.status = "refunded", !.refundId = TRUE]
           total == thread[t].already + thread[t].amount
<1>1. /\ thread[t].op = "refund" /\ thread[t].pc = "booked" /\ Finish(t)
      /\ UNCHANGED <<cod, booked, returned, sent, restocked, crossings, overbooked, bounds>>
    BY DEF SaveRefunded, At, goods
<1>2. ~cod /\ thread[t].copy.ret.stockRestored
    BY <1>1, BaseAt DEF Fit, Decided, Sound
<1>3. total \in 0..Total
  <2>1. thread[t].amount = RefundAmount(thread[t].copy.ret, thread[t].already)
    BY <1>1, BaseAt DEF Fit, Amounts
  <2> QED
    BY <2>1, BaseAt, AmountsFit
<1>4. /\ ret \in Return /\ ret.status = "refunded" /\ ret.refundId /\ ret.stockRestored
    BY <1>2, BaseAt DEF Return
<1>5. PICK orderStatus \in {"refunded", "partially_refunded"} :
        doc' = [ret |-> ret, orderStatus |-> orderStatus, refunded |-> total]
    BY DEF SaveRefunded
<1> HIDE DEF ret, total
<1>6. doc' \in Doc /\ doc'.ret = ret /\ doc'.refunded = total
    BY <1>3, <1>4, <1>5 DEF Doc
<1>7. thread' \in [Thread -> Activity] /\ Threads' /\ thread'[t] = Idle /\ Others(t)
    BY <1>1, BaseAt, Finished DEF Others
<1>8. Sound(doc.ret)'
    BY <1>4, <1>6 DEF Sound, Returned
<1>9. Base' /\ SameMishaps
    BY <1>1, <1>6, <1>7, <1>8, BaseAt DEF Base, TypeOK, SameMishaps
<1> QED
    BY <1>1, <1>2, <1>4, <1>6, <1>7, <1>9 DEF total

\* Ad-hoc refunds, and every refund on its way into the ledger.
LEMMA AdHocStep ==
    ASSUME Base, NEW t \in Thread, NEW amount \in AdHoc, AdHocRefund(t, amount)
    PROVE  /\ Base' /\ Others(t) /\ bounds' \in Bounds /\ amount \in 0..Total
           /\ thread[t] = Idle /\ MayStart(t, "adhoc")
           /\ UNCHANGED <<cod, doc, booked, sent, restocked, crossings, overbooked>>
           /\ bounds'.unbooked = bounds.unbooked /\ bounds'.crashes = bounds.crashes
           /\ \E a \in Activity :
                /\ a.op = "adhoc" /\ a.pc = "paid" /\ a.amount = amount
                /\ ~a.copy.ret.stockRestored
                /\ PaysBack(a) > 0 /\ returned + PaysBack(a) <= Total
                /\ returned' = returned + PaysBack(a)
                /\ \/ thread'[t] = a /\ SameMishaps
                   \/ thread'[t] = Idle /\ bounds'.lost = bounds.lost + 1
<1> DEFINE a == [Idle EXCEPT !.op = "adhoc", !.pc = "paid", !.amount = amount]
<1>1. /\ MayStart(t, "adhoc") /\ bounds.adhoc < MaxAdHoc
      /\ PaysBack(a) > 0 /\ returned + PaysBack(a) <= Total
      /\ returned' = returned + PaysBack(a)
      /\ \/ Count("adhoc") /\ thread' = [thread EXCEPT ![t] = a]
         \/ /\ bounds.lost < MaxLost
            /\ bounds' = [bounds EXCEPT !.adhoc = @ + 1, !.lost = @ + 1]
            /\ UNCHANGED thread
      /\ UNCHANGED <<cod, doc, booked, sent, restocked, crossings, overbooked>>
    BY DEF AdHocRefund, goods
<1>2. amount \in 0..Total /\ thread[t] = Idle
    BY <1>1, ReturnsAssumption DEF MayStart
<1>3. /\ a \in Activity /\ a.op = "adhoc" /\ a.pc = "paid" /\ a.amount = amount
      /\ a.copy = Idle.copy /\ ~a.copy.ret.stockRestored
    BY <1>2, IdleActivity DEF Idle, Activity, Op, Pc
<1> HIDE DEF a
<1>4. Fit(a)
  <2>1. Decided(Idle)
    BY IdleActivity DEF Fit
  <2>2. Course(a) /\ Amounts(a)
    BY <1>3 DEF Course, Steps, Amounts
  <2>3. Decided(a)
    BY <1>3, <2>1 DEF Decided
  <2> QED
    BY <2>2, <2>3 DEF Fit
<1>5. PaysBack(a) \in Int
    BY <1>3, BaseAt DEF PaysBack, Activity
<1>6. returned' \in 0..Total
    BY <1>1, <1>5, BaseAt
<1>7. CASE Count("adhoc") /\ thread' = [thread EXCEPT ![t] = a]
  <2>1. /\ thread' \in [Thread -> Activity] /\ Threads' /\ thread'[t] = a /\ Others(t)
    BY <1>1, <1>3, <1>4, <1>7, BaseAt, OneThread DEF Others
  <2>2. SameMishaps
    BY <1>1, <1>7, BaseAt, Counting DEF SameMishaps
  <2>3. Base'
    BY <1>1, <1>6, <2>1, <2>2 DEF Base, TypeOK, Sound, SameMishaps, Bounds
  <2> QED
    BY <1>1, <1>2, <1>3, <2>1, <2>2, <2>3 DEF SameMishaps
<1>8. CASE /\ bounds.lost < MaxLost
           /\ bounds' = [bounds EXCEPT !.adhoc = @ + 1, !.lost = @ + 1]
           /\ UNCHANGED thread
  <2>1. thread'[t] = Idle /\ Others(t)
    BY <1>2, <1>8 DEF Others
  <2>2. /\ bounds' \in Bounds /\ bounds'.lost = bounds.lost + 1
        /\ bounds'.unbooked = bounds.unbooked /\ bounds'.crashes = bounds.crashes
    <3>1. bounds \in Bounds
      BY BaseAt
    <3>2. /\ bounds.adhoc < MaxAdHoc /\ bounds.lost < MaxLost
          /\ bounds' = [bounds EXCEPT !.adhoc = @ + 1, !.lost = @ + 1]
      BY <1>1, <1>8
    <3>3. bounds.adhoc \in 0..MaxAdHoc /\ bounds.lost \in 0..MaxLost
      BY <3>1 DEF Bounds
    <3>4. bounds.adhoc + 1 \in 0..MaxAdHoc /\ bounds.lost + 1 \in 0..MaxLost
      BY <3>2, <3>3, ReturnsAssumption
    <3> QED
      BY <3>1, <3>2, <3>4 DEF Bounds
  <2>3. Threads' /\ thread' \in [Thread -> Activity]
    BY <1>1, <1>8, BaseAt DEF Threads, Fit, Course, Decided, Amounts, Sound
  <2>4. Base'
    BY <1>1, <1>6, <2>2, <2>3 DEF Base, TypeOK, Sound, Bounds
  <2> QED
    BY <1>1, <1>2, <1>3, <2>1, <2>2, <2>4
<1> QED
    BY <1>1, <1>7, <1>8

LEMMA RecordedStep ==
    ASSUME Base, NEW t \in Thread, thread[t].pc \in {"paid", "booking"}, Recorded(t),
           cod' = cod
    PROVE  /\ thread[t].op \in {"refund", "adhoc"} /\ Others(t)
           /\ thread' \in [Thread -> Activity] /\ Threads'
           /\ \/ thread[t].op = "adhoc" /\ thread'[t] = Idle
              \/ thread[t].op = "refund" /\ Goes(t, "booked")
<1>1. thread[t].op \in {"refund", "adhoc"}
    BY BaseAt DEF Fit, Course, Steps, Activity, Op
<1>2. CASE thread[t].op = "adhoc"
  <2>1. Finish(t)
    BY <1>2 DEF Recorded
  <2> QED
    BY <1>2, <2>1, BaseAt, Finished DEF Others
<1>3. CASE thread[t].op = "refund"
  <2>1. "booked" \in Steps[thread[t].op] /\ "booked" \in Pc /\ Step(t, "booked")
    BY <1>3 DEF Steps, Pc, Recorded
  <2> QED
    BY <1>3, <2>1, BaseAt, NextPc DEF Others, Goes
<1> QED
    BY <1>1, <1>2, <1>3

LEMMA ReadEntryStep ==
    ASSUME Base, NEW t \in Thread, ReadEntry(t)
    PROVE  /\ Base' /\ Others(t) /\ SameMishaps
           /\ thread[t].pc = "paid" /\ thread[t].op \in {"refund", "adhoc"}
           /\ Goes(t, "booking") /\ thread'[t].read = booked
           /\ UNCHANGED <<cod, doc, booked, returned, sent, restocked, crossings,
                          overbooked, bounds>>
<1> DEFINE a == [thread[t] EXCEPT !.pc = "booking", !.read = booked]
<1>1. /\ thread[t].pc = "paid"
      /\ thread' = [thread EXCEPT ![t].pc = "booking", ![t].read = booked]
      /\ UNCHANGED <<cod, doc, booked, returned, sent, restocked, crossings, overbooked,
                     bounds>>
    BY DEF ReadEntry, goods
<1>2. thread[t].op \in {"refund", "adhoc"}
    BY <1>1, BaseAt DEF Fit, Course, Steps, Activity, Op
<1>3. thread' = [thread EXCEPT ![t] = a]
    BY <1>1, BaseAt
<1>4. /\ a \in Activity /\ a.op = thread[t].op /\ a.pc = "booking"
      /\ a.copy = thread[t].copy /\ a.amount = thread[t].amount
      /\ a.already = thread[t].already /\ a.read = booked
    BY <1>1, BaseAt DEF Activity, Pc
<1> HIDE DEF a
<1>5. Fit(a)
  <2>1. Fit(thread[t])
    BY BaseAt
  <2> QED
    BY <1>1, <1>2, <1>4, <2>1 DEF Fit, Course, Steps, Decided, Amounts
<1>6. thread' \in [Thread -> Activity] /\ Threads' /\ thread'[t] = a /\ Others(t)
    BY <1>1, <1>3, <1>4, <1>5, BaseAt, OneThread DEF Others
<1>7. Base' /\ SameMishaps
    BY <1>1, <1>6, BaseAt DEF Base, TypeOK, Sound, SameMishaps
<1> QED
    BY <1>1, <1>2, <1>4, <1>6, <1>7 DEF Goes

LEMMA BookingFits ==
    ASSUME Base, NEW t \in Thread, NEW n \in 0..Total
    PROVE  Booking(thread[t], n) =
             IF InFull(thread[t]) THEN Total
             ELSE IF n >= Total THEN booked
             ELSE IF Total <= n + thread[t].amount THEN Total ELSE n + thread[t].amount
<1>1. Total \in Int /\ n + thread[t].amount \in Int
    BY BaseAt
<1> QED
    BY <1>1, MinOfTwo DEF Booking

LEMMA BookRefundStep ==
    ASSUME Base, NEW t \in Thread, BookRefund(t)
    PROVE  /\ Base' /\ Others(t) /\ SameMishaps
           /\ thread[t].pc = "booking" /\ thread[t].op \in {"refund", "adhoc"}
           /\ \/ thread[t].op = "adhoc" /\ thread'[t] = Idle
              \/ thread[t].op = "refund" /\ Goes(t, "booked")
           /\ booked' = Booking(thread[t], thread[t].read)
           /\ ~overbooked' => ~overbooked /\ booked' = Booking(thread[t], booked)
           /\ UNCHANGED <<cod, doc, returned, sent, restocked, crossings, bounds>>
<1>1. /\ thread[t].pc = "booking" /\ Recorded(t)
      /\ booked' = Booking(thread[t], thread[t].read)
      /\ overbooked' = (overbooked \/ Booking(thread[t], thread[t].read)
                                      # Booking(thread[t], booked))
      /\ UNCHANGED <<cod, doc, returned, sent, restocked, crossings, bounds>>
    BY DEF BookRefund, goods
<1>2. booked' \in 0..Total
    BY <1>1, BaseAt, BookingFits
<1>3. /\ thread[t].op \in {"refund", "adhoc"} /\ Others(t)
      /\ thread' \in [Thread -> Activity] /\ Threads'
      /\ \/ thread[t].op = "adhoc" /\ thread'[t] = Idle
         \/ thread[t].op = "refund" /\ Goes(t, "booked")
    BY <1>1, RecordedStep
<1>4. overbooked' \in BOOLEAN
    BY <1>1
<1>5. Base' /\ SameMishaps
    BY <1>1, <1>2, <1>3, <1>4, BaseAt DEF Base, TypeOK, Sound, SameMishaps
<1> QED
    BY <1>1, <1>3, <1>5

LEMMA LedgerFailsStep ==
    ASSUME Base, NEW t \in Thread, LedgerFails(t)
    PROVE  /\ Base' /\ Others(t) /\ bounds' \in Bounds
           /\ thread[t].pc \in {"paid", "booking"} /\ thread[t].op \in {"refund", "adhoc"}
           /\ \/ thread[t].op = "adhoc" /\ thread'[t] = Idle
              \/ thread[t].op = "refund" /\ Goes(t, "booked")
           /\ bounds'.lost = bounds.lost /\ bounds'.crashes = bounds.crashes
           /\ bounds'.unbooked = bounds.unbooked + 1
           /\ UNCHANGED <<cod, doc, booked, returned, sent, restocked, crossings,
                          overbooked>>
<1>1. /\ thread[t].pc \in {"paid", "booking"} /\ Recorded(t)
      /\ bounds.unbooked < MaxUnbooked /\ Count("unbooked")
      /\ UNCHANGED <<cod, doc, booked, returned, sent, restocked, crossings, overbooked>>
    BY DEF LedgerFails, goods
<1>2. /\ thread[t].op \in {"refund", "adhoc"} /\ Others(t)
      /\ thread' \in [Thread -> Activity] /\ Threads'
      /\ \/ thread[t].op = "adhoc" /\ thread'[t] = Idle
         \/ thread[t].op = "refund" /\ Goes(t, "booked")
    BY <1>1, RecordedStep
<1>3. /\ bounds' \in Bounds /\ bounds'.lost = bounds.lost
      /\ bounds'.crashes = bounds.crashes /\ bounds'.unbooked = bounds.unbooked + 1
    BY <1>1, BaseAt, Counting
<1>4. Base'
    BY <1>1, <1>2, <1>3, BaseAt DEF Base, TypeOK, Sound, Bounds
<1> QED
    BY <1>1, <1>2, <1>3, <1>4

LEMMA CrashStep ==
    ASSUME Base, NEW t \in Thread, Crash(t)
    PROVE  /\ Base' /\ Others(t) /\ bounds' \in Bounds /\ thread'[t] = Idle
           /\ bounds'.lost = bounds.lost /\ bounds'.unbooked = bounds.unbooked
           /\ bounds'.crashes = bounds.crashes + 1
           /\ UNCHANGED <<cod, doc, booked, returned, sent, restocked, crossings,
                          overbooked>>
<1>1. /\ Finish(t) /\ bounds.crashes < MaxCrashes /\ Count("crashes")
      /\ UNCHANGED <<cod, doc, booked, returned, sent, restocked, crossings, overbooked>>
    BY DEF Crash, goods
<1>2. thread' \in [Thread -> Activity] /\ Threads' /\ thread'[t] = Idle /\ Others(t)
    BY <1>1, BaseAt, Finished DEF Others
<1>3. /\ bounds' \in Bounds /\ bounds'.lost = bounds.lost
      /\ bounds'.unbooked = bounds.unbooked /\ bounds'.crashes = bounds.crashes + 1
    BY <1>1, BaseAt, Counting
<1>4. Base'
    BY <1>1, <1>2, <1>3, BaseAt DEF Base, TypeOK, Sound, Bounds
<1> QED
    BY <1>1, <1>2, <1>3, <1>4

-------------------------------------------------------------------------------

LEMMA InitBase == Init => Base
<1> SUFFICES ASSUME Init PROVE Base
    OBVIOUS
<1>1. doc \in Doc /\ Sound(doc.ret)
    BY ReturnsAssumption DEF Init, Delivered, Doc, NoReturn, Return, Sound, Returned
<1>2. thread \in [Thread -> Activity] /\ Threads
    BY IdleActivity DEF Init, Threads
<1>3. bounds \in Bounds
    BY ReturnsAssumption DEF Init, Bounds
<1>4. /\ cod \in BOOLEAN /\ overbooked \in BOOLEAN
      /\ booked \in 0..Total /\ returned \in 0..Total
      /\ sent \in Nat /\ restocked \in Nat /\ crossings \in Nat
  <2>1. cod \in BOOLEAN /\ overbooked = FALSE
    BY DEF Init
  <2>2. booked = 0 /\ returned = 0 /\ sent = 0 /\ restocked = 0 /\ crossings = 0
    BY DEF Init
  <2>3. 0 \in 0..Total
    BY ReturnsAssumption
  <2> QED
    BY <2>1, <2>2, <2>3
<1>5. TypeOK
    BY <1>1, <1>2, <1>3, <1>4 DEF TypeOK, Bounds
<1> QED
    BY <1>1, <1>2, <1>5 DEF Base

LEMMA NextBase ==
    ASSUME Base, [Next]_vars
    PROVE  Base'
<1>1. CASE UNCHANGED vars
    BY <1>1 DEF vars, Base, TypeOK, Threads, Fit, Course, Decided, Amounts, Sound
<1>2. ASSUME NEW t \in Thread, Continue(t) PROVE Base'
    BY <1>2, SaveSaves, RestockStep, CountRefundedStep, ClaimRefundStep, RazorpayStep,
       UnclaimRefundStep, ReadEntryStep, BookRefundStep, LedgerFailsStep, SaveRefundedStep
       DEF Continue, Saves
<1>3. ASSUME NEW t \in Thread, Crash(t) PROVE Base'
    BY <1>3, CrashStep
<1>4. ASSUME NEW t \in Thread, NEW op \in Op, Load(t, op) PROVE Base'
    BY <1>4, LoadStarts
<1>5. ASSUME NEW t \in Thread, NEW value \in Values, LoadRequest(t, value) PROVE Base'
    BY <1>5, LoadRequestStarts
<1>6. ASSUME NEW t \in Thread, NEW amount \in AdHoc, AdHocRefund(t, amount) PROVE Base'
    BY <1>6, AdHocStep
<1> QED
    BY <1>1, <1>2, <1>3, <1>4, <1>5, <1>6 DEF Next

\* The order, its refunds and every handler keep their types, whatever overlaps: no refund
\* is ever more than what is left of the payment, and no booking more than the price.
THEOREM ReturnsTyped == Spec => []TypeOK
<1>1. Base => TypeOK
    BY DEF Base
<1>2. Base /\ [Next]_vars => Base'
    BY NextBase
<1> QED
    BY InitBase, <1>1, <1>2, PTL DEF Spec

-------------------------------------------------------------------------------
(* The goods.  A handler that has them in hand may put them back into stock, *)
(* until it does or ends; and so may the next one to begin, as long as the   *)
(* document does not have them back and no handler has them in hand.         *)

ToSpend(a) == InHand(a) /\ a.pc # "stocked"
Unspent == {t \in Thread : ToSpend(thread[t])}
Free == ~doc.ret.stockRestored /\ \A t \in Thread : ~InHand(thread[t])

Slots == restocked + Cardinality(Unspent) + (IF Free THEN 1 ELSE 0)
            <= 1 + crossings + bounds.crashes

GoodsInv == Base /\ Slots

LEMMA UnspentFinite ==
    IsFiniteSet(Unspent) /\ Cardinality(Unspent) \in Nat
<1>1. Unspent \in SUBSET Thread
    BY DEF Unspent
<1>2. IsFiniteSet(Unspent)
    BY <1>1, FS_Subset, ReturnsAssumption
<1> QED
    BY <1>2, FS_CardinalityType

LEMMA UnspentFiniteNext ==
    (IsFiniteSet(Unspent) /\ Cardinality(Unspent) \in Nat)'
BY UnspentFinite, PTL

LEMMA UnspentMoves ==
    ASSUME NEW t \in Thread, Others(t)
    PROVE  /\ (ToSpend(thread[t])' <=> ToSpend(thread[t])) =>
                Cardinality(Unspent') = Cardinality(Unspent)
           /\ ToSpend(thread[t])' /\ ~ToSpend(thread[t]) =>
                Cardinality(Unspent') = Cardinality(Unspent) + 1
           /\ ~ToSpend(thread[t])' /\ ToSpend(thread[t]) =>
                Cardinality(Unspent) = Cardinality(Unspent') + 1
<1>1. \A u \in Thread \ {t} : u \in Unspent' <=> u \in Unspent
    BY DEF Unspent, Others, ToSpend, InHand
<1>2. /\ t \in Unspent <=> ToSpend(thread[t])
      /\ t \in Unspent' <=> ToSpend(thread[t])'
      /\ Unspent \subseteq Thread /\ Unspent' \subseteq Thread
    BY DEF Unspent
<1>3. CASE ToSpend(thread[t])' <=> ToSpend(thread[t])
  <2>1. Unspent' = Unspent
    BY <1>1, <1>2, <1>3
  <2> QED
    BY <1>3, <2>1
<1>4. CASE ToSpend(thread[t])' /\ ~ToSpend(thread[t])
  <2>1. Unspent' = Unspent \cup {t} /\ t \notin Unspent
    BY <1>1, <1>2, <1>4
  <2>2. Cardinality(Unspent') = Cardinality(Unspent) + 1
    BY <2>1, UnspentFinite, FS_AddElement
  <2> QED
    BY <1>4, <2>2
<1>5. CASE ~ToSpend(thread[t])' /\ ToSpend(thread[t])
  <2>1. Unspent = Unspent' \cup {t} /\ t \notin Unspent'
    BY <1>1, <1>2, <1>5
  <2>2. Cardinality(Unspent) = Cardinality(Unspent') + 1
    BY <2>1, UnspentFiniteNext, FS_AddElement
  <2> QED
    BY <1>5, <2>2
<1> QED
    BY <1>3, <1>4, <1>5

LEMMA SlotNumbers ==
    ASSUME Base, Base'
    PROVE  /\ restocked \in Nat /\ crossings \in Nat /\ bounds.crashes \in Nat
           /\ restocked' \in Nat /\ crossings' \in Nat /\ bounds'.crashes \in Nat
           /\ Cardinality(Unspent) \in Nat /\ Cardinality(Unspent') \in Nat
<1>1. bounds \in Bounds /\ bounds' \in Bounds /\ {MaxCrashes} \subseteq Nat
    BY ReturnsAssumption DEF Base, TypeOK, Bounds
<1>2. bounds.crashes \in Nat /\ bounds'.crashes \in Nat
    BY <1>1, ReturnsAssumption DEF Bounds
<1> QED
    BY <1>2, UnspentFinite, UnspentFiniteNext DEF Base, TypeOK

\* A handler that begins with the goods in hand takes the free slot, or crosses another.
LEMMA StartsGoods ==
    ASSUME GoodsInv, Base', NEW t \in Thread, NEW a \in Activity, Starts(t, a)
    PROVE  Slots'
<1>1. /\ thread[t] = Idle /\ thread'[t] = a /\ Others(t) /\ doc' = doc
      /\ a.op \in Desk \union {"refund"} /\ a.pc = "loaded" /\ a.copy = doc
      /\ CountCrossing(a.op) /\ restocked' = restocked
      /\ bounds'.crashes = bounds.crashes
    BY DEF Starts, Others
<1>2. /\ restocked \in Nat /\ crossings \in Nat /\ bounds.crashes \in Nat
      /\ Cardinality(Unspent) \in Nat
    BY SlotNumbers DEF GoodsInv
<1>3. crossings' = crossings + IF Crossing(a.op) THEN 1 ELSE 0
    BY <1>1 DEF CountCrossing
<1>4. ~InHand(thread[t]) /\ ~ToSpend(thread[t])
    BY <1>1, IdleActivity DEF InHand, ToSpend, Desk
<1>5. InHand(a) <=> a.op \in Desk /\ ~doc.ret.stockRestored
    BY <1>1 DEF InHand
<1>6. ToSpend(thread[t])' <=> InHand(a)
    BY <1>1 DEF ToSpend, InHand
<1>7. CASE InHand(a)
  <2>1. Cardinality(Unspent') = Cardinality(Unspent) + 1
    BY <1>1, <1>4, <1>6, <1>7, UnspentMoves
  <2>2. ~Free'
    BY <1>1, <1>7 DEF Free, InHand
  <2>3. Free \/ Crossing(a.op)
    BY <1>5, <1>7 DEF Free, Crossing
  <2> QED
    BY <1>1, <1>2, <1>3, <2>1, <2>2, <2>3 DEF GoodsInv, Slots
<1>8. CASE ~InHand(a)
  <2>1. Cardinality(Unspent') = Cardinality(Unspent)
    BY <1>1, <1>4, <1>6, <1>8, UnspentMoves
  <2>2. Free' => Free
    BY <1>1, <1>4 DEF Free, InHand, Others
  <2> QED
    BY <1>1, <1>2, <1>3, <2>1, <2>2 DEF GoodsInv, Slots
<1> QED
    BY <1>7, <1>8

\* A handler ends and has written whether the goods are back, as its copy had it.
LEMMA SavesGoods ==
    ASSUME GoodsInv, Base', NEW t \in Thread, Others(t), thread'[t] = Idle,
           UNCHANGED <<restocked, crossings>>, bounds'.crashes = bounds.crashes,
           thread[t].pc = "stocked" => Stocked(thread[t]),
           (InHand(thread[t]) /\ ~Stocked(thread[t])) \/ doc'.ret.stockRestored
    PROVE  Slots'
<1>1. /\ restocked \in Nat /\ crossings \in Nat /\ bounds.crashes \in Nat
      /\ Cardinality(Unspent) \in Nat /\ Cardinality(Unspent') \in Nat
    BY SlotNumbers DEF GoodsInv
<1>2. ~ToSpend(thread[t])'
    BY IdleActivity DEF ToSpend, InHand, Desk
<1>3. CASE doc'.ret.stockRestored
  <2>1. ~Free'
    BY <1>3 DEF Free
  <2>2. Cardinality(Unspent') <= Cardinality(Unspent)
    BY <1>1, <1>2, UnspentMoves
  <2> QED
    BY <1>1, <2>1, <2>2 DEF GoodsInv, Slots
<1>4. CASE InHand(thread[t]) /\ ~Stocked(thread[t])
  <2>1. ToSpend(thread[t])
    BY <1>4 DEF ToSpend
  <2>2. Cardinality(Unspent) = Cardinality(Unspent') + 1
    BY <1>2, <2>1, UnspentMoves
  <2>3. ~Free
    BY <1>4 DEF Free
  <2> QED
    BY <1>1, <2>2, <2>3 DEF GoodsInv, Slots
<1> QED
    BY <1>3, <1>4

LEMMA RestockGoods ==
    ASSUME GoodsInv, NEW t \in Thread, Restock(t)
    PROVE  Slots'
<1>1. /\ Base /\ Base' /\ Others(t) /\ doc' = doc /\ crossings' = crossings
      /\ bounds' = bounds
      /\ thread[t].op = "receive" /\ thread[t].pc = "loaded"
      /\ thread'[t].op = "receive" /\ thread'[t].pc = "stocked"
      /\ thread'[t].copy = thread[t].copy
      /\ restocked' = restocked + IF ~thread[t].copy.ret.stockRestored THEN 1 ELSE 0
    BY RestockStep DEF GoodsInv, Others
<1>2. /\ restocked \in Nat /\ crossings \in Nat /\ bounds.crashes \in Nat
      /\ Cardinality(Unspent) \in Nat /\ Cardinality(Unspent') \in Nat
    BY <1>1, SlotNumbers
<1>3. /\ ~ToSpend(thread[t])'
      /\ ToSpend(thread[t]) <=> ~thread[t].copy.ret.stockRestored
    BY <1>1 DEF ToSpend, InHand, Desk
<1>4. Free' => Free
    BY <1>1 DEF Free, InHand, Others
<1>5. CASE ToSpend(thread[t])
  <2>1. Cardinality(Unspent) = Cardinality(Unspent') + 1 /\ restocked' = restocked + 1
    BY <1>1, <1>3, <1>5, UnspentMoves
  <2> QED
    BY <1>1, <1>2, <1>4, <2>1 DEF GoodsInv, Slots
<1>6. CASE ~ToSpend(thread[t])
  <2>1. Cardinality(Unspent') = Cardinality(Unspent) /\ restocked' = restocked
    BY <1>1, <1>2, <1>3, <1>6, UnspentMoves
  <2> QED
    BY <1>1, <1>2, <1>4, <2>1 DEF GoodsInv, Slots
<1> QED
    BY <1>5, <1>6

\* A step of a refund leaves the goods alone.
LEMMA RefundGoods ==
    ASSUME GoodsInv, Base', NEW t \in Thread, Others(t),
           thread[t].op \notin Desk, thread'[t].op \notin Desk,
           doc'.ret.stockRestored = doc.ret.stockRestored,
           UNCHANGED <<restocked, crossings>>, bounds'.crashes = bounds.crashes
    PROVE  Slots'
<1>1. /\ restocked \in Nat /\ crossings \in Nat /\ bounds.crashes \in Nat
      /\ Cardinality(Unspent) \in Nat
    BY SlotNumbers DEF GoodsInv
<1>2. ~InHand(thread[t]) /\ ~InHand(thread[t])'
    BY DEF InHand
<1>3. Cardinality(Unspent') = Cardinality(Unspent)
    BY <1>2, UnspentMoves DEF ToSpend
<1>4. Free' <=> Free
    BY <1>2 DEF Free, InHand, Others
<1> QED
    BY <1>1, <1>3, <1>4 DEF GoodsInv, Slots

\* A crash may free the goods once more.
LEMMA CrashGoods ==
    ASSUME GoodsInv, NEW t \in Thread, Crash(t)
    PROVE  Slots'
<1>1. /\ Base /\ Base' /\ Others(t) /\ thread'[t] = Idle /\ doc' = doc
      /\ crossings' = crossings /\ restocked' = restocked
      /\ bounds'.crashes = bounds.crashes + 1
    BY CrashStep DEF GoodsInv
<1>2. /\ restocked \in Nat /\ crossings \in Nat /\ bounds.crashes \in Nat
      /\ Cardinality(Unspent) \in Nat /\ Cardinality(Unspent') \in Nat
    BY <1>1, SlotNumbers
<1>3. ~ToSpend(thread[t])'
    BY <1>1, IdleActivity DEF ToSpend, InHand, Desk
<1>4. Cardinality(Unspent') <= Cardinality(Unspent)
    BY <1>1, <1>2, <1>3, UnspentMoves
<1> QED
    BY <1>1, <1>2, <1>4 DEF GoodsInv, Slots

LEMMA InitGoodsInv == Init => GoodsInv
<1> SUFFICES ASSUME Init PROVE GoodsInv
    OBVIOUS
<1>1. \A t \in Thread : ~ToSpend(thread[t])
    BY IdleActivity DEF Init, ToSpend, InHand, Desk
<1>2. Unspent = {}
    BY <1>1 DEF Unspent
<1>3. Cardinality(Unspent) = 0
    BY <1>2, FS_EmptySet
<1>4. restocked = 0 /\ crossings = 0 /\ bounds.crashes = 0
    BY DEF Init
<1> QED
    BY <1>3, <1>4, InitBase DEF GoodsInv, Slots

LEMMA NextGoodsInv ==
    ASSUME GoodsInv, [Next]_vars
    PROVE  GoodsInv'
<1> SUFFICES Slots'
    BY NextBase DEF GoodsInv
<1> USE NextBase DEF GoodsInv
<1>1. CASE UNCHANGED vars
  <2>1. Unspent' = Unspent /\ (Free' <=> Free) /\ UNCHANGED <<restocked, crossings, bounds>>
    BY <1>1 DEF vars, Unspent, ToSpend, InHand, Free
  <2> QED
    BY <2>1 DEF Slots
<1>2. ASSUME NEW t \in Thread, Saves(t) PROVE Slots'
  <2>1. /\ thread[t].op \in Desk \union {"refund"} /\ thread'[t] = Idle /\ Others(t)
        /\ doc'.ret.stockRestored <=>
             thread[t].copy.ret.stockRestored \/ Stocked(thread[t])
        /\ UNCHANGED <<restocked, crossings, bounds>>
    BY <1>2, SaveSaves DEF Others
  <2>2. Fit(thread[t])
    BY BaseAt
  <2>3. thread[t].op = "refund" => thread[t].copy.ret.stockRestored
    BY <2>2 DEF Fit, Decided, Sound
  <2>4. thread[t].pc = "stocked" => Stocked(thread[t])
    BY <2>1, <2>2 DEF Fit, Course, Steps, Desk, Stocked
  <2>5. (InHand(thread[t]) /\ ~Stocked(thread[t])) \/ doc'.ret.stockRestored
    BY <2>1, <2>3 DEF InHand, Desk
  <2> QED
    BY <2>1, <2>4, <2>5, SavesGoods
<1>3. ASSUME NEW t \in Thread, Continue(t), ~Saves(t) PROVE Slots'
  <2>1. CASE Restock(t)
    BY <2>1, RestockGoods
  <2>2. CASE CountRefunded(t)
    BY <2>2, CountRefundedStep, RefundGoods, IdleActivity DEF Desk, SameMishaps
  <2>3. CASE ClaimRefund(t)
    BY <2>3, ClaimRefundStep, RefundGoods, IdleActivity DEF Desk, SameMishaps, Goes
  <2>4. CASE RazorpayAccepts(t) \/ RazorpayRefuses(t)
    BY <2>4, RazorpayStep, RefundGoods DEF Desk, SameMishaps, Goes
  <2>5. CASE UnclaimRefund(t)
    BY <2>5, UnclaimRefundStep, RefundGoods, IdleActivity DEF Desk, SameMishaps
  <2>6. CASE ReadEntry(t)
    BY <2>6, ReadEntryStep, RefundGoods DEF Desk, SameMishaps, Goes
  <2>7. CASE BookRefund(t)
    BY <2>7, BookRefundStep, RefundGoods, IdleActivity DEF Desk, SameMishaps, Goes
  <2>8. CASE LedgerFails(t)
    BY <2>8, LedgerFailsStep, RefundGoods, IdleActivity DEF Desk, Goes
  <2>9. CASE SaveRefunded(t)
    BY <2>9, SaveRefundedStep, SavesGoods DEF SameMishaps
  <2> QED
    BY <1>3, <2>1, <2>2, <2>3, <2>4, <2>5, <2>6, <2>7, <2>8, <2>9 DEF Continue, Saves
<1>4. ASSUME NEW t \in Thread, Crash(t) PROVE Slots'
    BY <1>4, CrashGoods
<1>5. ASSUME NEW t \in Thread, NEW op \in Op, Load(t, op) PROVE Slots'
    BY <1>5, LoadStarts, StartsGoods
<1>6. ASSUME NEW t \in Thread, NEW value \in Values, LoadRequest(t, value) PROVE Slots'
    BY <1>6, LoadRequestStarts, StartsGoods
<1>7. ASSUME NEW t \in Thread, NEW amount \in AdHoc, AdHocRefund(t, amount) PROVE Slots'
    BY <1>7, AdHocStep, RefundGoods, IdleActivity DEF Desk, SameMishaps
<1> QED
    BY <1>1, <1>2, <1>3, <1>4, <1>5, <1>6, <1>7 DEF Next

\* Whatever operations overlap, returned goods go back into stock once, and once more only
\* for a crash or for a handler that began while another had the goods in hand.
THEOREM GoodsRestockedOnce == Spec => []RestockedOnce
<1>1. GoodsInv => RestockedOnce
  <2> SUFFICES ASSUME GoodsInv PROVE RestockedOnce
    OBVIOUS
  <2>1. /\ restocked \in Nat /\ crossings \in Nat /\ bounds \in Bounds
    BY DEF GoodsInv, Base, TypeOK, Bounds
  <2> QED
    BY <2>1, BoundsAreNumbers, UnspentFinite DEF GoodsInv, Slots, RestockedOnce
<1>2. GoodsInv /\ [Next]_vars => GoodsInv'
    BY NextGoodsInv
<1> QED
    BY InitGoodsInv, <1>1, <1>2, PTL DEF Spec

-------------------------------------------------------------------------------
(* One refund.  Refunds overlap each other and ad-hoc refunds, and desk      *)
(* operations overlap each other, but no desk operation overlaps a refund.   *)

RefundsApart == \A ops \in Overlapping : "refund" \in ops => ops \cap Desk = {}

\* While a refund is in flight no desk operation is, and the return stays received.
Apart ==
    \A t \in Thread : thread[t].op = "refund" =>
        /\ doc.ret.status \in Returned
        /\ \A u \in Thread : thread[u].op \notin Desk

\* The refund that has claimed the return.
Holds(a) == /\ a.op = "refund"
            /\ a.pc \in {"claimed", "failed", "paid", "booking", "booked"}
Asking(a) == a.op = "refund" /\ a.pc \in {"claimed", "failed"}

\* One refund holds the claim at a time.
OneHolder ==
    \A t \in Thread : Holds(thread[t]) =>
        /\ doc.ret.status = "received" /\ doc.ret.refundInProgress
        /\ \A u \in Thread : Holds(thread[u]) => u = t

\* The return may still be refunded, or a handler may save it so.
Askable ==
    \/ Open(doc.ret)
    \/ \E t \in Thread : thread[t].op \in Desk /\ Open(thread[t].copy.ret)
    \/ \E t \in Thread : Asking(thread[t])

\* While it may, Razorpay was asked only for answers that got lost.
SentOnce == sent <= 1 + bounds.lost /\ (Askable => sent <= bounds.lost)

\* What has the goods back in stock has them back.
Back(a) == a.copy.ret.stockRestored \/ Stocked(a)
BackInStock ==
    doc.ret.stockRestored \/ (\E t \in Thread : Back(thread[t])) => restocked > 0

RefundInv ==
    /\ Base /\ Apart /\ OneHolder /\ SentOnce /\ BackInStock
    /\ sent > 0 => restocked > 0

LEMMA StartsApart ==
    ASSUME RefundsApart, NEW t \in Thread, NEW op \in Op, MayStart(t, op)
    PROVE  /\ op = "refund" => \A u \in Thread : thread[u].op \notin Desk
           /\ op \in Desk => \A u \in Thread : thread[u].op # "refund"
<1>1. ASSUME NEW u \in Thread
      PROVE  /\ op = "refund" => thread[u].op \notin Desk
             /\ op \in Desk => thread[u].op # "refund"
  <2>1. CASE thread[u] = Idle
    BY <2>1, IdleActivity DEF Desk
  <2>2. ASSUME NEW ops \in Overlapping, {op, thread[u].op} \subseteq ops
        PROVE  /\ op = "refund" => thread[u].op \notin Desk
               /\ op \in Desk => thread[u].op # "refund"
    BY <2>2 DEF RefundsApart
  <2> QED
    BY <2>1, <2>2 DEF MayStart
<1> QED
    BY <1>1

\* A step that sends nothing and makes the refund no more askable.
LEMMA NothingSent ==
    ASSUME RefundInv, Base', sent' = sent, Askable' => Askable,
           bounds'.lost = bounds.lost
    PROVE  SentOnce'
<1>1. sent \in Nat /\ bounds.lost \in Nat
    BY BoundsAreNumbers DEF RefundInv, Base, TypeOK, Bounds
<1> QED
    BY <1>1 DEF RefundInv, SentOnce

\* A step of t that leaves the return alone, or writes what leaves it as it was.
LEMMA NotAskable ==
    ASSUME NEW t \in Thread, Others(t), Open(doc'.ret) => Askable,
           thread'[t].op \in Desk /\ Open(thread'[t].copy.ret) => Askable,
           Asking(thread'[t]) => Askable
    PROVE  Askable' => Askable
<1>1. ASSUME NEW u \in Thread, thread'[u].op \in Desk /\ Open(thread'[u].copy.ret)
      PROVE  Askable
  <2>1. CASE u = t
    BY <1>1, <2>1
  <2>2. CASE u # t
    BY <1>1, <2>2 DEF Others, Askable
  <2> QED
    BY <2>1, <2>2
<1>2. ASSUME NEW u \in Thread, Asking(thread'[u])
      PROVE  Askable
  <2>1. CASE u = t
    BY <1>2, <2>1
  <2>2. CASE u # t
    BY <1>2, <2>2 DEF Others, Askable
  <2> QED
    BY <2>1, <2>2
<1> QED
    BY <1>1, <1>2 DEF Askable, Open, Unclaimed, Asking

\* Nothing else holds the claim now than did before.
LEMMA SameHolder ==
    ASSUME RefundInv, NEW t \in Thread, Others(t), Holds(thread'[t]) => Holds(thread[t]),
           doc'.ret = doc.ret
    PROVE  OneHolder'
<1>1. \A u \in Thread : Holds(thread'[u]) => Holds(thread[u])
    BY DEF Others
<1> QED
    BY <1>1 DEF RefundInv, OneHolder, Holds

LEMMA NobodyHolds ==
    ASSUME RefundInv, NEW t \in Thread, Others(t), ~Holds(thread'[t]),
           \A u \in Thread \ {t} : ~Holds(thread[u])
    PROVE  OneHolder'
<1>1. \A u \in Thread : ~Holds(thread'[u])
    BY DEF Others
<1> QED
    BY <1>1 DEF OneHolder, Holds

\* The goods that were back stay back, and a refund's copy has them back.
LEMMA StaysBack ==
    ASSUME RefundInv, Base', NEW t \in Thread, Others(t), restocked' = restocked,
           Back(thread'[t]) \/ doc'.ret.stockRestored =>
             \/ doc.ret.stockRestored
             \/ \E u \in Thread : Back(thread[u])
    PROVE  BackInStock'
<1>1. ASSUME NEW u \in Thread, Back(thread'[u])
      PROVE  restocked > 0
  <2>1. CASE u = t
    BY <1>1, <2>1 DEF RefundInv, BackInStock
  <2>2. CASE u # t
    BY <1>1, <2>2 DEF Others, RefundInv, BackInStock
  <2> QED
    BY <2>1, <2>2
<1>2. doc'.ret.stockRestored => restocked > 0
    BY DEF RefundInv, BackInStock
<1> QED
    BY <1>1, <1>2 DEF BackInStock, Back, Stocked

\* The operations of the desk, and of every thread that ends.
LEMMA StaysApart ==
    ASSUME RefundInv, NEW t \in Thread, Others(t),
           thread'[t].op \in {thread[t].op, "none", "adhoc"},
           \A u \in Thread : thread[u].op = "refund" => doc'.ret.status \in Returned
    PROVE  Apart'
<1>1. \A u \in Thread : /\ thread'[u].op = "refund" => thread[u].op = "refund"
                        /\ thread'[u].op \in Desk => thread[u].op \in Desk
    BY DEF Others, Desk
<1> QED
    BY <1>1 DEF RefundInv, Apart

LEMMA RefundInvAt ==
    ASSUME RefundInv, NEW t \in Thread
    PROVE  /\ thread[t].op = "refund" =>
                /\ doc.ret.status \in Returned /\ doc.ret.stockRestored
                /\ thread[t].copy.ret.stockRestored /\ restocked > 0
                /\ \A u \in Thread : thread[u].op \notin Desk
           /\ thread[t].op \in Desk => \A u \in Thread : thread[u].op # "refund"
           /\ sent \in Nat /\ bounds.lost \in Nat /\ bounds \in Bounds
<1>1. bounds \in Bounds /\ sent \in Nat
    BY DEF RefundInv, Base, TypeOK, Bounds
<1>2. thread[t].op = "refund" =>
        /\ doc.ret.status \in Returned
        /\ \A u \in Thread : thread[u].op \notin Desk
    BY DEF RefundInv, Apart
<1>3. thread[t].op = "refund" => doc.ret.stockRestored /\ thread[t].copy.ret.stockRestored
    BY <1>2, BaseAt DEF RefundInv, Base, Sound, Fit, Decided
<1>4. doc.ret.stockRestored => restocked > 0
    BY DEF RefundInv, BackInStock
<1>5. thread[t].op \in Desk => \A u \in Thread : thread[u].op # "refund"
    BY DEF RefundInv, Apart
<1> QED
    BY <1>1, <1>2, <1>3, <1>4, <1>5, BoundsAreNumbers

LEMMA StartsRefund ==
    ASSUME RefundsApart, RefundInv, Base', NEW t \in Thread, NEW a \in Activity,
           Starts(t, a)
    PROVE  RefundInv'
<1>1. /\ thread[t] = Idle /\ thread'[t] = a /\ Others(t) /\ UNCHANGED <<doc, sent, restocked>>
      /\ a.op \in Desk \union {"refund"} /\ a.pc = "loaded" /\ a.copy = doc
      /\ MayStart(t, a.op) /\ bounds'.lost = bounds.lost
      /\ a.op = "refund" => CanRefund(doc.ret)
    BY DEF Starts, Others, Desk
<1>2. a.op = "refund" => doc.ret.status \in Returned
    BY <1>1 DEF CanRefund, Returned
<1>3. Apart'
  <2>1. a.op \in Op
    BY <1>1 DEF Op, Desk
  <2>2. /\ a.op = "refund" => \A u \in Thread : thread[u].op \notin Desk
        /\ a.op \in Desk => \A u \in Thread : thread[u].op # "refund"
    BY <1>1, <2>1, StartsApart DEF Op, Desk
  <2>3. ~(a.op = "refund" /\ a.op \in Desk)
    BY DEF Desk
  <2>4. \A u \in Thread : thread'[u].op = IF u = t THEN a.op ELSE thread[u].op
    BY <1>1 DEF Others
  <2> QED
    BY <1>1, <1>2, <2>2, <2>3, <2>4 DEF RefundInv, Apart
<1>4. OneHolder'
    BY <1>1, SameHolder DEF Holds
<1>5. Askable' => Askable
    BY <1>1, NotAskable DEF Askable, Asking
<1>6. SentOnce' /\ BackInStock'
    BY <1>1, <1>5, NothingSent, StaysBack DEF Back, Stocked
<1> QED
    BY <1>1, <1>3, <1>4, <1>6 DEF RefundInv

LEMMA SavesRefund ==
    ASSUME RefundInv, NEW t \in Thread, Saves(t)
    PROVE  RefundInv'
<1>1. /\ Base' /\ thread[t].op \in Desk \union {"refund"}
      /\ thread[t].op = "refund" => cod /\ doc'.ret.status = "refunded"
      /\ thread'[t] = Idle /\ Others(t)
      /\ doc'.ret.stockRestored <=>
            thread[t].copy.ret.stockRestored \/ Stocked(thread[t])
      /\ Open(doc'.ret) => Open(thread[t].copy.ret)
      /\ UNCHANGED <<cod, sent, restocked, bounds>>
    BY SaveSaves DEF RefundInv, Others
<1>2. /\ Idle.op = "none" /\ ~Idle.copy.ret.stockRestored
      /\ ~Holds(Idle) /\ ~Asking(Idle) /\ ~Stocked(Idle) /\ ~Back(Idle)
    BY IdleActivity DEF Holds, Asking, Stocked, Back
<1>3. Apart'
  <2>1. \A u \in Thread : thread[u].op = "refund" => doc'.ret.status \in Returned
    BY <1>1, RefundInvAt DEF Returned
  <2> QED
    BY <1>1, <1>2, <2>1, StaysApart
<1>4. OneHolder'
  <2>1. \A u \in Thread : Holds(thread[u]) => ~cod
    BY BaseAt DEF RefundInv, Fit, Decided, Holds
  <2>2. CASE thread[t].op = "refund"
    BY <1>1, <1>2, <2>1, <2>2, NobodyHolds
  <2>3. CASE thread[t].op \in Desk
    <3>1. \A u \in Thread : ~Holds(thread[u])
      BY <2>3, RefundInvAt DEF Holds
    <3> QED
      BY <1>1, <1>2, <3>1, NobodyHolds
  <2> QED
    BY <1>1, <2>2, <2>3
<1>5. Askable' => Askable
  <2>1. Open(doc'.ret) => Askable
    <3>1. CASE thread[t].op \in Desk
      BY <1>1, <3>1 DEF Askable
    <3>2. CASE thread[t].op = "refund"
      BY <1>1, <3>2 DEF Open, Unclaimed, Returned
    <3> QED
      BY <1>1, <3>1, <3>2
  <2> QED
    BY <1>1, <1>2, <2>1, NotAskable DEF Desk
<1>6. SentOnce' /\ BackInStock'
    BY <1>1, <1>2, <1>5, NothingSent, StaysBack DEF Back
<1> QED
    BY <1>1, <1>3, <1>4, <1>6 DEF RefundInv

LEMMA RestockRefund ==
    ASSUME RefundInv, NEW t \in Thread, Restock(t)
    PROVE  RefundInv'
<1>1. /\ Base /\ Base' /\ Others(t) /\ UNCHANGED <<doc, sent, bounds>>
      /\ thread[t].op = "receive" /\ thread[t].pc = "loaded"
      /\ thread'[t].op = "receive" /\ thread'[t].pc = "stocked"
      /\ thread'[t].copy = thread[t].copy /\ restocked \in Nat
      /\ restocked' = restocked + IF ~thread[t].copy.ret.stockRestored THEN 1 ELSE 0
    BY RestockStep DEF RefundInv, Others, Base, TypeOK
<1>2. Apart' /\ OneHolder'
  <2>1. \A u \in Thread : thread[u].op # "refund"
    BY <1>1, RefundInvAt DEF Desk
  <2>2. Apart'
    BY <1>1, <2>1, StaysApart
  <2>3. OneHolder'
    BY <1>1, SameHolder DEF Holds
  <2> QED
    BY <2>2, <2>3
<1>3. Askable' => Askable
    BY <1>1, NotAskable DEF Askable, Asking
<1>4. restocked' > 0
    BY <1>1 DEF RefundInv, BackInStock, Back
<1> QED
    BY <1>1, <1>2, <1>3, <1>4, NothingSent DEF RefundInv, BackInStock

\* A step of a refund that writes no return and does not touch Razorpay.
LEMMA CalmRefund ==
    ASSUME RefundInv, Base', NEW t \in Thread, Others(t),
           doc'.ret = doc.ret, UNCHANGED <<sent, restocked>>, bounds'.lost = bounds.lost,
           thread'[t].op \in {thread[t].op, "none"},
           Holds(thread'[t]) => Holds(thread[t]),
           Asking(thread'[t]) => Asking(thread[t]),
           thread'[t].op \notin Desk, Back(thread'[t]) => Back(thread[t])
    PROVE  RefundInv'
<1>1. Apart'
  <2>1. \A u \in Thread : thread[u].op = "refund" => doc'.ret.status \in Returned
    BY RefundInvAt
  <2> QED
    BY <2>1, StaysApart
<1>2. OneHolder'
    BY SameHolder
<1>3. Askable' => Askable
    BY NotAskable DEF Askable
<1>4. SentOnce' /\ BackInStock'
    BY <1>3, NothingSent, StaysBack
<1> QED
    BY <1>1, <1>2, <1>4 DEF RefundInv

LEMMA ClaimRefundRefund ==
    ASSUME RefundInv, NEW t \in Thread, ClaimRefund(t)
    PROVE  RefundInv'
<1>1. /\ Base' /\ Others(t) /\ bounds'.lost = bounds.lost
      /\ thread[t].op = "refund" /\ UNCHANGED <<sent, restocked>>
      /\ \/ thread'[t] = Idle /\ UNCHANGED doc
         \/ /\ Unclaimed(doc.ret) /\ Goes(t, "claimed")
            /\ doc'.ret.refundInProgress = TRUE
      /\ doc'.ret.status = doc.ret.status
      /\ doc'.ret.stockRestored = doc.ret.stockRestored
    BY ClaimRefundStep DEF RefundInv, SameMishaps
<1>2. CASE thread'[t] = Idle /\ UNCHANGED doc
    BY <1>1, <1>2, CalmRefund, IdleActivity DEF Holds, Asking, Desk, Back, Stocked
<1>3. CASE /\ Unclaimed(doc.ret) /\ Goes(t, "claimed")
           /\ doc'.ret.refundInProgress = TRUE
  <2>1. /\ thread'[t].op = "refund" /\ thread'[t].pc = "claimed"
        /\ thread'[t].copy = thread[t].copy /\ ~Stocked(thread'[t])
    BY <1>1, <1>3 DEF Goes, Stocked
  <2>2. Apart'
    BY <1>1, <2>1, RefundInvAt, StaysApart
  <2>3. doc.ret.status = "received" /\ \A u \in Thread : ~Holds(thread[u])
    BY <1>3 DEF Unclaimed, RefundInv, OneHolder
  <2>4. OneHolder'
    <3>1. \A u \in Thread : Holds(thread'[u]) => u = t
      BY <1>1, <2>3 DEF Others, Holds
    <3> QED
      BY <1>1, <1>3, <2>3, <3>1 DEF OneHolder, Holds
  <2>5. Askable
    BY <1>3 DEF Askable, Open
  <2>6. SentOnce' /\ BackInStock'
    BY <1>1, <2>1, <2>5, NothingSent, StaysBack DEF Back
  <2> QED
    BY <1>1, <2>2, <2>4, <2>6 DEF RefundInv
<1> QED
    BY <1>1, <1>2, <1>3

LEMMA RazorpayRefund ==
    ASSUME RefundInv, NEW t \in Thread, RazorpayAccepts(t) \/ RazorpayRefuses(t)
    PROVE  RefundInv'
<1>1. /\ Base' /\ Others(t)
      /\ thread[t].op = "refund" /\ thread[t].pc = "claimed"
      /\ UNCHANGED <<doc, restocked>>
      /\ \/ Goes(t, "failed") /\ bounds'.lost = bounds.lost /\ sent' = sent
         \/ Goes(t, "failed") /\ bounds'.lost = bounds.lost + 1 /\ sent' = sent + 1
         \/ Goes(t, "paid") /\ bounds'.lost = bounds.lost /\ sent' = sent + 1
    BY RazorpayStep DEF RefundInv, SameMishaps
<1>2. /\ doc.ret.status \in Returned /\ restocked > 0
      /\ \A u \in Thread : thread[u].op \notin Desk
      /\ sent \in Nat /\ bounds.lost \in Nat
    BY <1>1, RefundInvAt
<1>3. /\ thread'[t].op = "refund" /\ thread'[t].pc \in {"paid", "failed"}
      /\ thread'[t].copy = thread[t].copy
    BY <1>1 DEF Goes
<1>4. Apart'
    BY <1>1, <1>2, <1>3, StaysApart
<1>5. Holds(thread[t]) /\ Askable
    BY <1>1 DEF Holds, Askable, Asking
<1>6. OneHolder'
    BY <1>1, <1>5, SameHolder
<1>7. sent <= bounds.lost
    BY <1>5 DEF RefundInv, SentOnce
<1>8. Goes(t, "paid") => ~Askable'
  <2> SUFFICES ASSUME Goes(t, "paid") PROVE ~Askable'
    OBVIOUS
  <2>1. ~Open(doc'.ret)
    BY <1>1, <1>2, <1>5 DEF RefundInv, OneHolder, Open, Unclaimed
  <2>2. \A u \in Thread : thread'[u].op \notin Desk
    BY <1>1, <1>2, <1>3 DEF Others, Desk
  <2>3. \A u \in Thread : ~Asking(thread'[u])
    <3>1. ASSUME NEW u \in Thread, Asking(thread'[u]) PROVE FALSE
      <4>1. u # t
        BY <3>1 DEF Asking, Goes
      <4>2. Holds(thread[u])
        BY <1>1, <3>1, <4>1 DEF Others, Asking, Holds
      <4> QED
        BY <1>5, <4>1, <4>2 DEF RefundInv, OneHolder
    <3> QED
      BY <3>1
  <2> QED
    BY <2>1, <2>2, <2>3 DEF Askable, Open, Unclaimed, Asking
<1>9. SentOnce'
    BY <1>1, <1>2, <1>7, <1>8 DEF SentOnce
<1>10. BackInStock'
    BY <1>1, <1>3, StaysBack DEF Back, Stocked
<1> QED
    BY <1>1, <1>2, <1>4, <1>6, <1>9, <1>10 DEF RefundInv

\* A refund that holds the claim ends, and leaves the return received.
LEMMA HolderEnds ==
    ASSUME RefundInv, NEW t \in Thread, UnclaimRefund(t) \/ SaveRefunded(t)
    PROVE  RefundInv'
<1>1. /\ Base' /\ Others(t) /\ thread'[t] = Idle
      /\ thread[t].op = "refund" /\ Holds(thread[t])
      /\ UNCHANGED <<sent, restocked>> /\ bounds'.lost = bounds.lost
    BY UnclaimRefundStep, SaveRefundedStep DEF RefundInv, SameMishaps, Holds
<1>2. /\ doc.ret.status \in Returned /\ doc.ret.stockRestored
    BY <1>1, RefundInvAt
<1>3. /\ Idle.op = "none" /\ ~Holds(Idle) /\ ~Asking(Idle) /\ ~Back(Idle)
    BY IdleActivity DEF Holds, Asking, Back, Stocked
<1>4. doc'.ret.status \in Returned
    BY <1>2, UnclaimRefundStep, SaveRefundedStep DEF RefundInv, Returned
<1>5. Apart'
    BY <1>1, <1>3, <1>4, StaysApart
<1>6. OneHolder'
    BY <1>1, <1>3, NobodyHolds DEF RefundInv, OneHolder
<1>7. Open(doc'.ret) => Askable
  <2>1. CASE UnclaimRefund(t)
    BY <2>1, <1>1, UnclaimRefundStep DEF RefundInv, Askable, Asking
  <2>2. CASE SaveRefunded(t)
    BY <2>2, SaveRefundedStep DEF RefundInv, Open, Unclaimed, Returned
  <2> QED
    BY <2>1, <2>2
<1>8. Askable' => Askable
    BY <1>1, <1>3, <1>7, NotAskable DEF Desk
<1>9. SentOnce' /\ BackInStock'
    BY <1>1, <1>2, <1>8, NothingSent, StaysBack
<1> QED
    BY <1>1, <1>5, <1>6, <1>9 DEF RefundInv

LEMMA AdHocKeepsRefund ==
    ASSUME RefundInv, NEW t \in Thread, NEW amount \in AdHoc, AdHocRefund(t, amount)
    PROVE  RefundInv'
<1>1. /\ Base' /\ Others(t) /\ bounds' \in Bounds /\ thread[t] = Idle
      /\ UNCHANGED <<doc, sent, restocked>>
    BY AdHocStep DEF RefundInv
<1>2. PICK a \in Activity :
        /\ a.op = "adhoc" /\ ~a.copy.ret.stockRestored
        /\ \/ thread'[t] = a /\ bounds'.lost = bounds.lost
           \/ thread'[t] = Idle /\ bounds'.lost = bounds.lost + 1
    BY AdHocStep DEF RefundInv, SameMishaps
<1>3. /\ thread'[t].op \in {"adhoc", "none"} /\ ~Holds(thread'[t]) /\ ~Asking(thread'[t])
      /\ ~Back(thread'[t])
    BY <1>2, IdleActivity DEF Holds, Asking, Back, Stocked
<1>4. Apart'
  <2>1. \A u \in Thread : thread[u].op = "refund" => doc'.ret.status \in Returned
    BY <1>1, RefundInvAt
  <2> QED
    BY <1>1, <1>3, <2>1, StaysApart
<1>5. OneHolder'
    BY <1>1, <1>3, SameHolder
<1>6. Askable' => Askable
    BY <1>1, <1>3, NotAskable DEF Askable, Desk
<1>7. SentOnce'
  <2>1. sent \in Nat /\ bounds.lost \in Nat
    BY RefundInvAt
  <2> QED
    BY <1>1, <1>2, <1>6, <2>1 DEF RefundInv, SentOnce
<1>8. BackInStock'
    BY <1>1, <1>3, StaysBack
<1> QED
    BY <1>1, <1>4, <1>5, <1>7, <1>8 DEF RefundInv

LEMMA InitRefundInv == Init => RefundInv
<1> SUFFICES ASSUME Init PROVE RefundInv
    OBVIOUS
<1>1. \A t \in Thread : /\ thread[t].op = "none" /\ ~Holds(thread[t])
                        /\ ~Asking(thread[t]) /\ ~Back(thread[t])
    BY IdleActivity DEF Init, Holds, Asking, Back, Stocked
<1>2. sent = 0 /\ bounds.lost = 0 /\ ~doc.ret.stockRestored
    BY DEF Init, Delivered, NoReturn
<1> QED
    BY <1>1, <1>2, InitBase DEF RefundInv, Apart, OneHolder, SentOnce, BackInStock

LEMMA NextRefundInv ==
    ASSUME RefundsApart, RefundInv, [Next]_vars
    PROVE  RefundInv'
<1>1. CASE UNCHANGED vars
  <2>1. Base'
    BY NextBase DEF RefundInv
  <2> QED
    BY <1>1, <2>1 DEF vars, RefundInv, Apart, OneHolder, Holds, SentOnce, Askable, Asking,
                      Open, Unclaimed, BackInStock, Back, Stocked
<1>2. ASSUME NEW t \in Thread, Continue(t) PROVE RefundInv'
  <2>1. CASE Saves(t)
    BY <2>1, SavesRefund
  <2>2. CASE Restock(t)
    BY <2>2, RestockRefund
  <2>3. CASE CountRefunded(t)
    BY <2>3, CountRefundedStep, CalmRefund, IdleActivity
       DEF RefundInv, SameMishaps, Holds, Asking, Desk, Back, Stocked
  <2>4. CASE ClaimRefund(t)
    BY <2>4, ClaimRefundRefund
  <2>5. CASE RazorpayAccepts(t) \/ RazorpayRefuses(t)
    BY <2>5, RazorpayRefund
  <2>6. CASE UnclaimRefund(t) \/ SaveRefunded(t)
    BY <2>6, HolderEnds
  <2>7. CASE ReadEntry(t)
    BY <2>7, ReadEntryStep, CalmRefund
       DEF RefundInv, SameMishaps, Goes, Holds, Asking, Desk, Back, Stocked
  <2>8. CASE BookRefund(t)
    BY <2>8, BookRefundStep, CalmRefund, IdleActivity
       DEF RefundInv, SameMishaps, Goes, Holds, Asking, Desk, Back, Stocked
  <2>9. CASE LedgerFails(t)
    BY <2>9, LedgerFailsStep, CalmRefund, IdleActivity
       DEF RefundInv, Goes, Holds, Asking, Desk, Back, Stocked
  <2> QED
    BY <1>2, <2>1, <2>2, <2>3, <2>4, <2>5, <2>6, <2>7, <2>8, <2>9 DEF Continue, Saves
<1>3. ASSUME NEW t \in Thread, Crash(t) PROVE RefundInv'
    BY <1>3, CrashStep, CalmRefund, IdleActivity
       DEF RefundInv, Holds, Asking, Desk, Back, Stocked
<1>4. ASSUME NEW t \in Thread, NEW op \in Op, Load(t, op) PROVE RefundInv'
    BY <1>4, LoadStarts, StartsRefund DEF RefundInv
<1>5. ASSUME NEW t \in Thread, NEW value \in Values, LoadRequest(t, value) PROVE RefundInv'
    BY <1>5, LoadRequestStarts, StartsRefund DEF RefundInv
<1>6. ASSUME NEW t \in Thread, NEW amount \in AdHoc, AdHocRefund(t, amount)
      PROVE  RefundInv'
    BY <1>6, AdHocKeepsRefund
<1> QED
    BY <1>1, <1>2, <1>3, <1>4, <1>5, <1>6 DEF Next

\* However refunds of an order overlap, are refused, lost or cut short, and the desk's
\* operations each other, Razorpay is asked for one refund of a return, and once more only
\* for each answer that was lost; and it is asked only once the goods are back in stock.
\* The desk may not save a return while it is being refunded.
THEOREM ReturnRefundedOnce ==
    ASSUME RefundsApart
    PROVE  Spec => []OneRefundPerReturn
<1>1. RefundInv => OneRefundPerReturn
    BY DEF RefundInv, SentOnce, OneRefundPerReturn
<1>2. RefundInv /\ [Next]_vars => RefundInv'
    BY NextRefundInv
<1> QED
    BY InitRefundInv, <1>1, <1>2, PTL DEF Spec

-------------------------------------------------------------------------------
(* The money: what Razorpay paid back is booked, or about to be, unit by     *)
(* unit, and what a handler read of the books only fell behind.              *)

OnItsWay(a) == a.pc \in {"paid", "booking"}
Partial(a) == OnItsWay(a) /\ ~InFull(a)
FullPending == \E t \in Thread : OnItsWay(thread[t]) /\ InFull(thread[t])

Units(t, amount) == {t} \X (1..amount)
Pending == {p \in Thread \X (1..Total) :
              Partial(thread[p[1]]) /\ p[2] <= thread[p[1]].amount}
ToBook == Cardinality(Pending)

\* What it has read of the refunds so far was paid back by now.
Counted(a) ==
    /\ a.op = "refund" =>
         /\ a.copy.refunded <= returned /\ a.already <= returned
         /\ OnItsWay(a) \/ a.pc = "booked" => a.already + a.amount <= returned
    /\ OnItsWay(a) /\ InFull(a) => returned = Total

\* What remains to be booked would fit what each booking has read.
Behind ==
    \A t \in Thread : thread[t].pc = "booking" /\ ~InFull(thread[t]) =>
        thread[t].read + ToBook <= returned

Accounts ==
    /\ returned = Total \/ (booked + ToBook <= returned /\ Behind)
    /\ doc.refunded <= returned
    /\ \A t \in Thread : Counted(thread[t])
    /\ ~overbooked /\ Mishaps = 0 =>
         \/ booked + ToBook = returned
         \/ returned = Total /\ (booked = Total \/ FullPending)

MoneyInv == Base /\ Accounts

LEMMA UnitsCount ==
    ASSUME NEW t, NEW n \in Nat
    PROVE  IsFiniteSet(Units(t, n)) /\ Cardinality(Units(t, n)) = n
<1>1. IsFiniteSet({t}) /\ Cardinality({t}) = 1
    BY FS_Singleton
<1>2. IsFiniteSet(1..n) /\ Cardinality(1..n) = n
    BY FS_Interval
<1>3. /\ IsFiniteSet({t} \X (1..n))
      /\ Cardinality({t} \X (1..n)) = Cardinality({t}) * Cardinality(1..n)
    BY <1>1, <1>2, FS_Product, Zenon
<1> QED
    BY <1>1, <1>2, <1>3 DEF Units

LEMMA PendingFinite == IsFiniteSet(Pending) /\ ToBook \in Nat
<1>1. IsFiniteSet(1..Total)
    BY FS_Interval, ReturnsAssumption
<1>2. IsFiniteSet(Thread \X (1..Total))
    BY <1>1, FS_Product, ReturnsAssumption
<1>3. Pending \in SUBSET (Thread \X (1..Total))
    BY DEF Pending
<1>4. IsFiniteSet(Pending)
    BY <1>2, <1>3, FS_Subset
<1> QED
    BY <1>4, FS_CardinalityType DEF ToBook

LEMMA PendingFiniteNext == (IsFiniteSet(Pending) /\ ToBook \in Nat)'
BY PendingFinite, PTL

LEMMA UnitsOfOne ==
    ASSUME NEW t \in Thread, NEW n \in 0..Total
    PROVE  /\ Units(t, n) \subseteq Thread \X (1..Total)
           /\ \A p \in Thread \X (1..Total) : p \in Units(t, n) <=> p[1] = t /\ p[2] <= n
BY ReturnsAssumption DEF Units

\* Thread t does not hold a partial refund that was paid and is not booked ...
LEMMA PendingStays ==
    ASSUME NEW t \in Thread, \A u \in Thread \ {t} : thread'[u] = thread[u],
           ~Partial(thread[t]), ~Partial(thread'[t])
    PROVE  ToBook' = ToBook
<1>1. Pending' = Pending
    BY DEF Pending
<1> QED
    BY <1>1 DEF ToBook

\* ... it comes to hold one ...
LEMMA PendingMore ==
    ASSUME NEW t \in Thread, \A u \in Thread \ {t} : thread'[u] = thread[u],
           ~Partial(thread[t]), Partial(thread'[t]), thread'[t].amount \in 0..Total
    PROVE  ToBook' = ToBook + thread'[t].amount
<1> DEFINE n == thread'[t].amount
<1>1. n \in Nat /\ Total \in Nat
    BY ReturnsAssumption
<1>2. Pending' = Pending \cup Units(t, n) /\ Pending \cap Units(t, n) = {}
  <2>1. \A p \in Thread \X (1..Total) :
          /\ p \in Pending' <=> Partial(thread'[p[1]]) /\ p[2] <= thread'[p[1]].amount
          /\ p \in Pending <=> Partial(thread[p[1]]) /\ p[2] <= thread[p[1]].amount
          /\ p \in Units(t, n) <=> p[1] = t /\ p[2] <= n
          /\ p[1] \in Thread
    BY UnitsOfOne DEF Pending
  <2>2. \A p \in Thread \X (1..Total) :
          /\ p \in Pending' <=> p \in Pending \/ p \in Units(t, n)
          /\ ~(p \in Pending /\ p \in Units(t, n))
    BY <2>1
  <2>3. {Pending, Pending', Units(t, n)} \subseteq SUBSET (Thread \X (1..Total))
    BY UnitsOfOne DEF Pending
  <2> QED
    BY <2>2, <2>3
<1>3. IsFiniteSet(Units(t, n)) /\ Cardinality(Units(t, n)) = n
    BY <1>1, UnitsCount
<1>4. Cardinality(Pending') = Cardinality(Pending) + n - Cardinality({})
    BY <1>2, <1>3, PendingFinite, FS_Union
<1> QED
    BY <1>1, <1>4, PendingFinite, FS_EmptySet DEF ToBook

\* ... or holds one no longer.
LEMMA PendingLess ==
    ASSUME NEW t \in Thread, \A u \in Thread \ {t} : thread'[u] = thread[u],
           Partial(thread[t]), ~Partial(thread'[t]), thread[t].amount \in 0..Total
    PROVE  ToBook = ToBook' + thread[t].amount
<1> DEFINE n == thread[t].amount
<1>1. n \in Nat /\ Total \in Nat
    BY ReturnsAssumption
<1>2. Pending = Pending' \cup Units(t, n) /\ Pending' \cap Units(t, n) = {}
  <2>1. \A p \in Thread \X (1..Total) :
          /\ p \in Pending' <=> Partial(thread'[p[1]]) /\ p[2] <= thread'[p[1]].amount
          /\ p \in Pending <=> Partial(thread[p[1]]) /\ p[2] <= thread[p[1]].amount
          /\ p \in Units(t, n) <=> p[1] = t /\ p[2] <= n
          /\ p[1] \in Thread
    BY UnitsOfOne DEF Pending
  <2>2. \A p \in Thread \X (1..Total) :
          /\ p \in Pending <=> p \in Pending' \/ p \in Units(t, n)
          /\ ~(p \in Pending' /\ p \in Units(t, n))
    BY <2>1
  <2>3. {Pending, Pending', Units(t, n)} \subseteq SUBSET (Thread \X (1..Total))
    BY UnitsOfOne DEF Pending
  <2> QED
    BY <2>2, <2>3
<1>3. IsFiniteSet(Units(t, n)) /\ Cardinality(Units(t, n)) = n
    BY <1>1, UnitsCount
<1>4. Cardinality(Pending) = Cardinality(Pending') + n - Cardinality({})
    BY <1>2, <1>3, PendingFiniteNext, FS_Union
<1> QED
    BY <1>1, <1>4, PendingFiniteNext, FS_EmptySet DEF ToBook

-------------------------------------------------------------------------------
(* The books follow the money *)

LEMMA MoneyAt ==
    ASSUME MoneyInv
    PROVE  /\ booked \in Nat /\ returned \in Nat /\ booked <= returned
           /\ booked <= Total /\ returned <= Total /\ Total \in Nat
           /\ ToBook \in Nat /\ doc.refunded \in Nat /\ doc.refunded <= returned
           /\ bounds \in Bounds /\ overbooked \in BOOLEAN
BY PendingFinite, ReturnsAssumption
   DEF MoneyInv, Base, TypeOK, Accounts, Bounds, Doc

\* A step of t that pays back and books nothing, and leaves t's refund as it was.
LEMMA MoneyStays ==
    ASSUME MoneyInv, NEW t \in Thread, Others(t),
           UNCHANGED <<booked, returned, overbooked>>, doc'.refunded <= returned,
           ~OnItsWay(thread[t]), ~OnItsWay(thread'[t]),
           Counted(thread[t])', Mishaps' = Mishaps
    PROVE  Accounts'
<1>1. ToBook' = ToBook
    BY PendingStays DEF Partial, Others
<1>2. \A u \in Thread : OnItsWay(thread[u]) \/ OnItsWay(thread'[u]) =>
                          u # t /\ thread'[u] = thread[u]
    BY DEF Others
<1>3. FullPending => FullPending'
    BY <1>2 DEF FullPending, InFull, OnItsWay
<1>4. Behind => Behind'
    BY <1>1, <1>2 DEF Behind, InFull, OnItsWay
<1>5. \A u \in Thread : Counted(thread[u])'
    BY DEF MoneyInv, Accounts, Counted, InFull, OnItsWay, Others
<1> QED
    BY <1>1, <1>3, <1>4, <1>5 DEF MoneyInv, Accounts

LEMMA SameMishapsCount ==
    ASSUME SameMishaps
    PROVE  Mishaps' = Mishaps
BY DEF SameMishaps, Mishaps

LEMMA StartsAccounted ==
    ASSUME MoneyInv, NEW t \in Thread, NEW a \in Activity, Starts(t, a)
    PROVE  Accounts'
<1>1. /\ thread[t] = Idle /\ thread'[t] = a /\ Others(t)
      /\ a.pc = "loaded" /\ a.copy = doc /\ a.already = 0
      /\ UNCHANGED <<doc, booked, returned, overbooked>>
      /\ SameMishaps
    BY DEF Starts, Others, SameMishaps
<1>2. ~OnItsWay(thread[t]) /\ ~OnItsWay(thread'[t])
    BY <1>1, IdleActivity DEF OnItsWay
<1>3. Counted(thread[t])'
    BY <1>1, MoneyAt DEF Counted, OnItsWay
<1> QED
    BY <1>1, <1>2, <1>3, MoneyAt, MoneyStays, SameMishapsCount

LEMMA SavesAccounted ==
    ASSUME MoneyInv, NEW t \in Thread, Saves(t) \/ Restock(t)
    PROVE  Accounts'
<1>1. /\ Others(t) /\ UNCHANGED <<booked, returned, overbooked, bounds>>
      /\ thread[t].pc \in {"loaded", "stocked"}
      /\ \/ thread'[t] = Idle
         \/ thread'[t].op = "receive" /\ thread'[t].pc = "stocked"
      /\ doc'.refunded = doc.refunded
    BY SaveSaves, RestockStep DEF MoneyInv, Others
<1>2. ~OnItsWay(thread[t]) /\ ~OnItsWay(thread'[t]) /\ thread'[t].op # "refund"
    BY <1>1, IdleActivity DEF OnItsWay
<1>3. Counted(thread[t])'
    BY <1>2 DEF Counted, OnItsWay
<1>4. Mishaps' = Mishaps
    BY <1>1 DEF Mishaps
<1> QED
    BY <1>1, <1>2, <1>3, <1>4, MoneyAt, MoneyStays

\* A refund's steps before and after the money moves.
LEMMA RefundStepsAccounted ==
    ASSUME MoneyInv, NEW t \in Thread,
           \/ CountRefunded(t) \/ ClaimRefund(t) \/ RazorpayRefuses(t)
           \/ UnclaimRefund(t) \/ SaveRefunded(t)
    PROVE  Accounts'
<1>1. /\ thread[t].op = "refund" /\ Others(t) /\ SameMishaps
      /\ thread[t].pc \in {"loaded", "counted", "claimed", "failed", "booked"}
      /\ UNCHANGED <<booked, returned, overbooked>>
    BY CountRefundedStep, ClaimRefundStep, RazorpayStep, UnclaimRefundStep,
       SaveRefundedStep DEF MoneyInv, RazorpayRefuses
<1>2. /\ Counted(thread[t]) /\ thread[t].copy \in Doc
      /\ AlreadyRefunded(thread[t].copy, booked) \in {thread[t].copy.refunded, booked}
  <2>1. thread[t].copy \in Doc /\ booked \in 0..Total
    BY BaseAt DEF MoneyInv
  <2> QED
    BY <2>1, AlreadyFits DEF MoneyInv, Accounts
<1>3. doc'.refunded <= returned
  <2>1. CASE SaveRefunded(t)
    BY <1>1, <1>2, <2>1, SaveRefundedStep DEF MoneyInv, Counted
  <2>2. CASE ~SaveRefunded(t)
    <3>1. doc'.refunded = doc.refunded
      BY <2>2, CountRefundedStep, ClaimRefundStep, UnclaimRefundStep
         DEF MoneyInv, RazorpayRefuses
    <3> QED
      BY <3>1, MoneyAt
  <2> QED
    BY <2>1, <2>2
<1>4. /\ \/ thread'[t] = Idle
         \/ Goes(t, "claimed") \/ Goes(t, "failed")
         \/ /\ thread'[t].op = "refund" /\ thread'[t].pc = "counted"
            /\ thread'[t].copy = thread[t].copy
            /\ thread'[t].already = AlreadyRefunded(thread[t].copy, booked)
  <2>1. CASE RazorpayRefuses(t)
    <3>1. Step(t, "failed")
      BY <2>1 DEF RazorpayRefuses
    <3>2. thread'[t].pc = "failed"
      BY <3>1, BaseAt DEF MoneyInv, Step, Activity
    <3> QED
      BY <2>1, <3>2, RazorpayStep DEF MoneyInv, Goes
  <2> QED
    BY <2>1, CountRefundedStep, ClaimRefundStep, UnclaimRefundStep, SaveRefundedStep
       DEF MoneyInv
<1>5. ~OnItsWay(thread[t]) /\ ~OnItsWay(thread'[t])
    BY <1>1, <1>4, IdleActivity DEF OnItsWay, Goes
<1>6. Counted(thread[t])'
  <2>1. CASE thread'[t] = Idle
    BY <1>5, <2>1, IdleActivity DEF Counted, OnItsWay
  <2>2. CASE Goes(t, "claimed") \/ Goes(t, "failed")
    BY <1>1, <1>2, <1>5, <2>2 DEF Counted, OnItsWay, Goes
  <2>3. CASE /\ thread'[t].op = "refund" /\ thread'[t].pc = "counted"
             /\ thread'[t].copy = thread[t].copy
             /\ thread'[t].already = AlreadyRefunded(thread[t].copy, booked)
    BY <1>1, <1>2, <2>3, MoneyAt DEF Counted, OnItsWay
  <2> QED
    BY <1>4, <2>1, <2>2, <2>3
<1> QED
    BY <1>1, <1>3, <1>5, <1>6, MoneyStays, SameMishapsCount

\* Razorpay paid back more: what the others have read was paid back before.
LEMMA MorePaid ==
    ASSUME MoneyInv, NEW t \in Thread, Others(t), returned < returned',
           returned' \in 0..Total
    PROVE  /\ \A u \in Thread \ {t} : Counted(thread[u])'
           /\ booked + ToBook <= returned /\ Behind
<1>1. returned # Total /\ returned \in Nat /\ returned' \in Nat
    BY MoneyAt
<1>2. ASSUME NEW u \in Thread \ {t} PROVE Counted(thread[u])'
  <2>1. Counted(thread[u]) /\ thread'[u] = thread[u]
    BY DEF MoneyInv, Accounts, Others
  <2>2. /\ thread[u].already \in Int /\ thread[u].copy.refunded \in Int
        /\ thread[u].amount \in Int
    BY BaseAt DEF MoneyInv, Doc
  <2> QED
    BY <1>1, <2>1, <2>2 DEF Counted, InFull, OnItsWay
<1> QED
    BY <1>1, <1>2 DEF MoneyInv, Accounts

\* A refund is paid back: its amount is on its way into the books.
LEMMA PaidAccounted ==
    ASSUME MoneyInv, NEW t \in Thread, Others(t), NEW paid \in Nat, paid > 0,
           returned' = returned + paid, returned' <= Total,
           UNCHANGED <<doc, booked, overbooked>>, SameMishaps,
           ~OnItsWay(thread[t]), thread'[t].pc = "paid", Counted(thread[t])',
           thread'[t].amount \in 0..Total,
           ~InFull(thread'[t]) => paid = thread'[t].amount,
           InFull(thread'[t]) => returned' = Total
    PROVE  Accounts'
<1> DEFINE n == thread'[t].amount
<1>1. /\ booked \in Nat /\ returned \in Nat /\ ToBook \in Nat /\ Total \in Nat
      /\ n \in Nat /\ doc.refunded \in Nat /\ doc.refunded <= returned
    BY MoneyAt, ReturnsAssumption
<1>2. /\ \A u \in Thread : Counted(thread[u])'
      /\ booked + ToBook <= returned /\ Behind
    BY <1>1, MorePaid
<1>3. doc'.refunded <= returned'
    BY <1>1
<1>4. Mishaps' = Mishaps
    BY SameMishapsCount
<1>5. returned # Total
    BY <1>1
<1>6. CASE InFull(thread'[t])
  <2>1. FullPending'
    BY <1>6 DEF FullPending, OnItsWay, InFull
  <2>2. returned' = Total
    BY <1>6
  <2> QED
    BY <1>2, <1>3, <2>1, <2>2 DEF Accounts
<1>7. CASE ~InFull(thread'[t])
  <2>1. ToBook' = ToBook + n
    <3>1. Partial(thread'[t]) /\ ~Partial(thread[t])
      BY <1>7 DEF Partial, OnItsWay
    <3> QED
      BY <3>1, PendingMore DEF Partial, OnItsWay, InFull, Others
  <2>2. booked' + ToBook' <= returned'
    BY <1>1, <1>2, <1>7, <2>1
  <2>3. Behind'
    <3>1. ASSUME NEW u \in Thread, thread'[u].pc = "booking", ~InFull(thread'[u])
          PROVE  thread'[u].read + ToBook' <= returned'
      <4>1. u # t
        BY <3>1
      <4>2. thread'[u] = thread[u] /\ thread[u].read \in Nat
        BY <4>1, BaseAt DEF Others, MoneyInv
      <4>3. thread[u].read + ToBook <= returned
        BY <1>2, <3>1, <4>2 DEF Behind, InFull
      <4> QED
        BY <1>1, <1>7, <2>1, <4>2, <4>3
    <3> QED
      BY <3>1 DEF Behind, InFull
  <2>4. ~overbooked /\ Mishaps = 0 => booked' + ToBook' = returned'
    BY <1>1, <1>5, <1>7, <2>1 DEF MoneyInv, Accounts
  <2> QED
    BY <1>2, <1>3, <1>4, <2>2, <2>3, <2>4 DEF Accounts
<1> QED
    BY <1>6, <1>7

\* A refund is paid back and its answer lost.
LEMMA LostAccounted ==
    ASSUME MoneyInv, NEW t \in Thread, Others(t), NEW paid \in Nat, paid > 0,
           returned' = returned + paid, returned' <= Total,
           UNCHANGED <<doc, booked, overbooked>>, bounds' \in Bounds, Mishaps' # 0,
           ~OnItsWay(thread[t]), ~OnItsWay(thread'[t]), Counted(thread[t])'
    PROVE  Accounts'
<1>1. /\ booked \in Nat /\ returned \in Nat /\ ToBook \in Nat /\ Total \in Nat
      /\ doc.refunded \in Nat /\ doc.refunded <= returned
    BY MoneyAt, ReturnsAssumption
<1>2. /\ \A u \in Thread : Counted(thread[u])'
      /\ booked + ToBook <= returned /\ Behind
    BY <1>1, MorePaid
<1>3. ToBook' = ToBook
    BY PendingStays DEF Partial, OnItsWay, InFull, Others
<1>4. Behind'
  <2>1. ASSUME NEW u \in Thread, thread'[u].pc = "booking", ~InFull(thread'[u])
        PROVE  thread'[u].read + ToBook' <= returned'
    <3>1. u # t
      BY <2>1 DEF OnItsWay
    <3>2. thread'[u] = thread[u] /\ thread[u].read \in Nat
      BY <3>1, BaseAt DEF Others, MoneyInv
    <3>3. thread[u].read + ToBook <= returned
      BY <1>2, <2>1, <3>2 DEF Behind, InFull
    <3> QED
      BY <1>1, <1>3, <3>2, <3>3
  <2> QED
    BY <2>1 DEF Behind, InFull
<1> QED
    BY <1>1, <1>2, <1>3, <1>4 DEF Accounts

LEMMA AcceptedAccounted ==
    ASSUME MoneyInv, NEW t \in Thread, RazorpayAccepts(t)
    PROVE  Accounts'
<1> DEFINE a == thread[t]
           paid == PaysBack(a)
<1>1. /\ Others(t) /\ UNCHANGED <<doc, booked, overbooked>>
      /\ a.op = "refund" /\ a.pc = "claimed" /\ bounds' \in Bounds
      /\ bounds'.unbooked = bounds.unbooked /\ bounds'.crashes = bounds.crashes
    BY RazorpayStep DEF MoneyInv
<1>2. /\ paid > 0 /\ returned + paid <= Total /\ returned' = returned + paid
      /\ \/ Goes(t, "paid") /\ SameMishaps
         \/ Goes(t, "failed") /\ bounds'.lost = bounds.lost + 1
  <2>1. /\ PaysBack(a) > 0 /\ returned + PaysBack(a) <= Total
        /\ returned' = returned + PaysBack(a)
    BY DEF RazorpayAccepts
  <2>2. returned' # returned
    <3>1. PaysBack(a) \in Int
      BY BaseAt DEF PaysBack, MoneyInv
    <3> HIDE DEF a
    <3> QED
      BY <2>1, <3>1, MoneyAt
  <2> QED
    BY <2>1, <2>2, RazorpayStep DEF MoneyInv
<1>3. /\ a.already \in 0..Total /\ a.amount \in 0..Total /\ a.copy.refunded \in Nat
      /\ a.already + a.amount <= Total /\ Counted(a)
      /\ returned \in Nat /\ Total \in Nat
  <2>1. a.amount = RefundAmount(a.copy.ret, a.already)
    BY <1>1, BaseAt DEF MoneyInv, Fit, Amounts
  <2>2. a.copy \in Doc /\ a.already \in 0..Total /\ a.amount \in 0..Total
    BY BaseAt DEF MoneyInv
  <2>3. a.copy.ret \in Return /\ a.copy.refunded \in 0..Total
    BY <2>2 DEF Doc
  <2>4. Total \in Nat /\ returned \in Nat
    BY MoneyAt DEF MoneyInv
  <2>5. Counted(a)
    BY DEF MoneyInv, Accounts
  <2> HIDE DEF a
  <2>6. a.already + a.amount <= Total
    BY <2>1, <2>2, <2>3, AmountsFit
  <2> QED
    BY <2>2, <2>3, <2>4, <2>5, <2>6
<1>4. paid = IF InFull(a) THEN Total - returned ELSE a.amount
    BY DEF PaysBack
<1>5. InFull(thread'[t]) <=> InFull(a)
    BY <1>1, <1>2 DEF InFull, Goes
<1> HIDE DEF a, paid
<1>6. paid \in Nat
    BY <1>2, <1>3, <1>4
<1>7. Counted(thread[t])'
  <2>1. a.already + a.amount <= returned' /\ (InFull(a) => returned' = Total)
    BY <1>1, <1>2, <1>3, <1>4, <1>6 DEF Counted
  <2>2. a.already <= returned' /\ a.copy.refunded <= returned'
    BY <1>1, <1>2, <1>3, <1>6 DEF Counted
  <2>3. /\ thread'[t].already = a.already /\ thread'[t].amount = a.amount
        /\ thread'[t].copy = a.copy
    BY <1>2 DEF Goes, a
  <2> QED
    BY <1>5, <2>1, <2>2, <2>3 DEF Counted, InFull, OnItsWay
<1>8. ~OnItsWay(thread[t])
    BY <1>1 DEF OnItsWay, a
<1>9. CASE Goes(t, "paid") /\ SameMishaps
  <2>1. thread'[t].pc = "paid" /\ thread'[t].amount = a.amount
    BY <1>9 DEF Goes, a
  <2> QED
    BY <1>1, <1>2, <1>3, <1>4, <1>5, <1>6, <1>7, <1>8, <1>9, <2>1, PaidAccounted
<1>10. CASE Goes(t, "failed") /\ bounds'.lost = bounds.lost + 1
  <2>1. Mishaps' # 0
    BY <1>1, <1>10, MoneyAt, BoundsAreNumbers DEF Mishaps
  <2>2. ~OnItsWay(thread'[t])
    BY <1>10 DEF Goes, OnItsWay
  <2> QED
    BY <1>1, <1>2, <1>6, <1>7, <1>8, <2>1, <2>2, LostAccounted
<1> QED
    BY <1>2, <1>9, <1>10

LEMMA AdHocAccounted ==
    ASSUME MoneyInv, NEW t \in Thread, NEW amount \in AdHoc, AdHocRefund(t, amount)
    PROVE  Accounts'
<1>1. /\ Others(t) /\ UNCHANGED <<doc, booked, overbooked>> /\ thread[t] = Idle
      /\ bounds' \in Bounds /\ amount \in 0..Total
      /\ bounds'.unbooked = bounds.unbooked /\ bounds'.crashes = bounds.crashes
    BY AdHocStep DEF MoneyInv
<1>2. PICK a \in Activity :
        /\ a.op = "adhoc" /\ a.pc = "paid" /\ a.amount = amount
        /\ PaysBack(a) > 0 /\ returned + PaysBack(a) <= Total
        /\ returned' = returned + PaysBack(a)
        /\ \/ thread'[t] = a /\ SameMishaps
           \/ thread'[t] = Idle /\ bounds'.lost = bounds.lost + 1
    BY AdHocStep DEF MoneyInv
<1> DEFINE paid == PaysBack(a)
<1>3. paid = IF InFull(a) THEN Total - returned ELSE amount
    BY <1>2 DEF PaysBack
<1>4. paid > 0 /\ returned + paid <= Total /\ returned' = returned + paid
    BY <1>2
<1> HIDE DEF paid
<1>5. paid \in Nat
    BY <1>1, <1>3, <1>4, MoneyAt
<1>6. ~OnItsWay(thread[t])
    BY <1>1, IdleActivity DEF OnItsWay
<1>7. InFull(a) => returned' = Total
    BY <1>3, <1>4, MoneyAt
<1>8. CASE thread'[t] = a /\ SameMishaps
  <2>1. Counted(thread[t])'
    BY <1>2, <1>7, <1>8 DEF Counted, InFull, OnItsWay
  <2>2. /\ thread'[t].pc = "paid" /\ thread'[t].amount = amount
        /\ ~InFull(thread'[t]) => paid = amount
        /\ InFull(thread'[t]) => returned' = Total
    BY <1>2, <1>3, <1>7, <1>8
  <2>3. returned' <= Total
    BY <1>4
  <2> QED
    BY <1>1, <1>4, <1>5, <1>6, <1>8, <2>1, <2>2, <2>3, PaidAccounted
<1>9. CASE thread'[t] = Idle /\ bounds'.lost = bounds.lost + 1
  <2>1. Mishaps' # 0
    BY <1>1, <1>9, MoneyAt, BoundsAreNumbers DEF Mishaps
  <2>2. ~OnItsWay(thread'[t]) /\ Counted(thread[t])'
    BY <1>9, IdleActivity DEF OnItsWay, Counted
  <2> QED
    BY <1>1, <1>4, <1>5, <1>6, <1>9, <2>1, <2>2, LostAccounted
<1> QED
    BY <1>2, <1>8, <1>9

\* A booking begins on the books as they are.
LEMMA ReadEntryAccounted ==
    ASSUME MoneyInv, NEW t \in Thread, ReadEntry(t)
    PROVE  Accounts'
<1>1. /\ Others(t) /\ SameMishaps /\ thread[t].pc = "paid"
      /\ Goes(t, "booking") /\ thread'[t].read = booked
      /\ UNCHANGED <<doc, booked, returned, overbooked>>
    BY ReadEntryStep DEF MoneyInv
<1>2. \A u \in Thread : /\ Partial(thread[u])' <=> Partial(thread[u])
                        /\ InFull(thread[u])' <=> InFull(thread[u])
                        /\ OnItsWay(thread[u])' <=> OnItsWay(thread[u])
                        /\ thread'[u].amount = thread[u].amount
    BY <1>1 DEF Others, Goes, Partial, InFull, OnItsWay
<1>3. Pending' = Pending
    BY <1>2 DEF Pending
<1>4. ToBook' = ToBook
    BY <1>3 DEF ToBook
<1>5. FullPending' <=> FullPending
    BY <1>2 DEF FullPending
<1>6. booked + ToBook <= returned /\ Behind => Behind'
    BY <1>1, <1>2, <1>4 DEF Behind, Others
<1>7. ASSUME NEW u \in Thread PROVE Counted(thread[u])'
  <2>1. Counted(thread[u]) /\ (u = t => thread[u].pc = "paid")
    BY <1>1 DEF MoneyInv, Accounts
  <2>2. CASE u = t
    BY <1>1, <2>1, <2>2 DEF Counted, Goes, InFull, OnItsWay
  <2>3. CASE u # t
    BY <1>1, <2>1, <2>3 DEF Counted, Others, InFull, OnItsWay
  <2> QED
    BY <2>2, <2>3
<1> QED
    BY <1>1, <1>4, <1>5, <1>6, <1>7, SameMishapsCount DEF MoneyInv, Accounts

\* A partial refund is no longer on its way.
LEMMA LessToBook ==
    ASSUME MoneyInv, NEW t \in Thread, Others(t), ~OnItsWay(thread'[t])
    PROVE  /\ ToBook' \in Nat
           /\ Partial(thread[t]) => ToBook = ToBook' + thread[t].amount
           /\ ~Partial(thread[t]) => ToBook' = ToBook
           /\ ToBook' <= ToBook
           /\ FullPending /\ ~(OnItsWay(thread[t]) /\ InFull(thread[t])) => FullPending'
<1>1. ~Partial(thread'[t]) /\ thread[t].amount \in 0..Total
    BY BaseAt DEF Partial, MoneyInv
<1>2. Partial(thread[t]) => ToBook = ToBook' + thread[t].amount
    BY <1>1, PendingLess DEF Partial, OnItsWay, InFull, Others
<1>3. ~Partial(thread[t]) => ToBook' = ToBook
    BY <1>1, PendingStays DEF Partial, OnItsWay, InFull, Others
<1>4. ToBook' \in Nat /\ ToBook \in Nat
    BY PendingFinite, PendingFiniteNext
<1>5. ToBook' <= ToBook
    BY <1>1, <1>2, <1>3, <1>4
<1>6. FullPending /\ ~(OnItsWay(thread[t]) /\ InFull(thread[t])) => FullPending'
    BY DEF FullPending, OnItsWay, InFull, Others
<1> QED
    BY <1>2, <1>3, <1>4, <1>5, <1>6

\* What leaves less to book leaves every booking behind.
LEMMA StillBehind ==
    ASSUME MoneyInv, NEW t \in Thread, Others(t), ~OnItsWay(thread'[t]),
           returned' = returned, Behind
    PROVE  Behind'
<1>1. ToBook' \in Nat /\ ToBook' <= ToBook
    BY LessToBook
<1>2. ASSUME NEW u \in Thread, thread'[u].pc = "booking", ~InFull(thread'[u])
      PROVE  thread'[u].read + ToBook' <= returned'
  <2>1. u # t
    BY <1>2 DEF OnItsWay
  <2>2. thread'[u] = thread[u] /\ thread[u].read \in Nat
    BY <2>1, BaseAt DEF Others, MoneyInv
  <2>3. thread[u].read + ToBook <= returned
    BY <1>2, <2>2 DEF Behind
  <2> DEFINE r == thread[u].read
             more == ToBook
             less == ToBook'
  <2>4. r \in Nat /\ more \in Nat /\ less \in Nat /\ less <= more
        /\ r + more <= returned /\ returned \in Nat
    BY <1>1, <2>2, <2>3, MoneyAt
  <2> HIDE DEF r, more, less
  <2>5. r + less <= returned
    BY <2>4
  <2> QED
    BY <2>2, <2>5 DEF r, less
<1> QED
    BY <1>2 DEF Behind, InFull

\* The thread that ends, or goes on to save its return, has still counted.
LEMMA StillCounted ==
    ASSUME MoneyInv, NEW t \in Thread, Others(t), returned' = returned,
           OnItsWay(thread[t]),
           thread'[t] = Idle \/ Goes(t, "booked")
    PROVE  (\A u \in Thread : Counted(thread[u])') /\ ~OnItsWay(thread'[t])
<1>1. ~OnItsWay(thread'[t])
    BY IdleActivity DEF OnItsWay, Goes
<1>2. ASSUME NEW u \in Thread PROVE Counted(thread[u])'
  <2>1. Counted(thread[u])
    BY DEF MoneyInv, Accounts
  <2>2. CASE u = t /\ thread'[t] = Idle
    BY <1>1, <2>2, IdleActivity DEF Counted, OnItsWay
  <2>3. CASE u = t /\ Goes(t, "booked")
    BY <1>1, <2>1, <2>3 DEF Counted, Goes, OnItsWay
  <2>4. CASE u # t
    BY <2>1, <2>4 DEF Counted, Others, InFull, OnItsWay
  <2> QED
    BY <2>2, <2>3, <2>4
<1> QED
    BY <1>1, <1>2

\* A booking that found less than is booked now writes less than it should, never more.
LEMMA BookingAccounted ==
    ASSUME MoneyInv, NEW t \in Thread, BookRefund(t)
    PROVE  Accounts'
<1> DEFINE a == thread[t]
           n == a.amount
           left == ToBook'
<1>1. /\ Others(t) /\ SameMishaps /\ a.pc = "booking"
      /\ \/ thread'[t] = Idle
         \/ Goes(t, "booked")
      /\ UNCHANGED <<doc, returned>>
      /\ booked' = Booking(a, a.read)
      /\ ~overbooked' => ~overbooked /\ booked' = Booking(a, booked)
    BY BookRefundStep DEF MoneyInv
<1>2. /\ booked \in Nat /\ returned \in Nat /\ ToBook \in Nat /\ Total \in Nat
      /\ booked <= Total /\ returned <= Total /\ booked <= returned
      /\ n \in Nat /\ a.read \in Nat
      /\ doc.refunded <= returned
    BY MoneyAt, BaseAt, ReturnsAssumption DEF MoneyInv
<1>3. OnItsWay(a) /\ Counted(a)
    BY <1>1 DEF OnItsWay, MoneyInv, Accounts
<1>4. (\A u \in Thread : Counted(thread[u])') /\ ~OnItsWay(thread'[t])
    BY <1>1, <1>3, StillCounted
<1>5. /\ left \in Nat /\ left <= ToBook
      /\ ~InFull(a) => ToBook = left + n
      /\ FullPending /\ ~InFull(a) => FullPending'
    BY <1>1, <1>3, <1>4, LessToBook DEF Partial
<1>6. Behind => Behind'
    BY <1>1, <1>4, StillBehind
<1>7. Mishaps' = Mishaps
    BY <1>1, SameMishapsCount
<1>8. /\ booked' = IF InFull(a) THEN Total
                   ELSE IF a.read >= Total THEN booked
                   ELSE IF Total <= a.read + n THEN Total ELSE a.read + n
      /\ Booking(a, booked) = IF InFull(a) THEN Total
                              ELSE IF booked >= Total THEN booked
                              ELSE IF Total <= booked + n THEN Total ELSE booked + n
    BY <1>1, BookingFits, BaseAt DEF MoneyInv
<1>9. CASE InFull(a)
  <2>1. returned' = Total /\ booked' = Total
    BY <1>1, <1>3, <1>8, <1>9 DEF Counted
  <2> QED
    BY <1>1, <1>2, <1>4, <2>1 DEF Accounts
<1>10. CASE ~InFull(a)
  <2>1. returned = Total \/ (booked + ToBook <= returned /\ a.read + ToBook <= returned
                              /\ Behind)
    BY <1>1, <1>10 DEF MoneyInv, Accounts, Behind
  <2>2. /\ ~overbooked /\ Mishaps = 0 =>
              \/ booked + ToBook = returned
              \/ returned = Total /\ (booked = Total \/ FullPending)
    BY DEF MoneyInv, Accounts
  <2>3. FullPending => FullPending'
    BY <1>5, <1>10
  <2>4. ToBook = left + n
    BY <1>5, <1>10
  <2> DEFINE read == a.read
  <2>5. read \in Nat /\ read = a.read
    BY <1>2
  <2> HIDE DEF a, n, left, read
  <2>6. returned = Total \/ (booked' + left <= returned /\ Behind)
    BY <1>2, <1>5, <1>8, <1>10, <2>1, <2>4, <2>5
  <2>7. ~overbooked' /\ Mishaps = 0 =>
          \/ booked' + left = returned
          \/ returned = Total /\ (booked' = Total \/ FullPending')
    BY <1>1, <1>2, <1>5, <1>8, <1>10, <2>2, <2>3, <2>4
  <2> QED
    BY <1>1, <1>2, <1>4, <1>6, <1>7, <2>6, <2>7 DEF Accounts, left
<1> QED
    BY <1>9, <1>10

\* What the ledger failed to record, or a crash cut short, is paid and never booked.
LEMMA UnbookedAccounted ==
    ASSUME MoneyInv, NEW t \in Thread, LedgerFails(t) \/ Crash(t)
    PROVE  Accounts'
<1>1. /\ Others(t) /\ UNCHANGED <<doc, booked, returned, overbooked>>
      /\ bounds' \in Bounds
      /\ \/ thread'[t] = Idle
         \/ Goes(t, "booked") /\ OnItsWay(thread[t])
    BY LedgerFailsStep, CrashStep DEF MoneyInv, OnItsWay
<1>2. Mishaps' # 0
    BY LedgerFailsStep, CrashStep, MoneyAt, BoundsAreNumbers DEF MoneyInv, Mishaps
<1>3. ~OnItsWay(thread'[t])
    BY <1>1, IdleActivity DEF OnItsWay, Goes
<1>4. \A u \in Thread : Counted(thread[u])'
  <2>1. ASSUME NEW u \in Thread PROVE Counted(thread[u])'
    <3>1. Counted(thread[u])
      BY DEF MoneyInv, Accounts
    <3>2. CASE u = t /\ thread'[t] = Idle
      BY <1>3, <3>2, IdleActivity DEF Counted, OnItsWay
    <3>3. CASE u = t /\ Goes(t, "booked") /\ OnItsWay(thread[t])
      BY <1>1, <1>3, <3>1, <3>3 DEF Counted, Goes, OnItsWay
    <3>4. CASE u # t
      BY <1>1, <3>1, <3>4 DEF Counted, Others, InFull, OnItsWay
    <3> QED
      BY <1>1, <3>2, <3>3, <3>4
  <2> QED
    BY <2>1
<1>5. ToBook' \in Nat /\ ToBook' <= ToBook
    BY <1>1, <1>3, LessToBook
<1>6. Behind => Behind'
    BY <1>1, <1>3, StillBehind
<1>7. returned' = Total \/ (booked' + ToBook' <= returned' /\ Behind')
  <2> DEFINE more == ToBook
             less == ToBook'
  <2>1. /\ more \in Nat /\ less \in Nat /\ less <= more
        /\ booked \in Nat /\ returned \in Nat
        /\ returned = Total \/ (booked + more <= returned /\ Behind)
    BY <1>5, MoneyAt DEF MoneyInv, Accounts
  <2> HIDE DEF more, less
  <2>2. returned = Total \/ (booked + less <= returned /\ Behind)
    BY <2>1
  <2> QED
    BY <1>1, <1>6, <2>2 DEF less
<1> QED
    BY <1>1, <1>2, <1>4, <1>7, MoneyAt DEF Accounts

LEMMA InitMoneyInv == Init => MoneyInv
<1> SUFFICES ASSUME Init PROVE MoneyInv
    OBVIOUS
<1>1. doc.refunded = 0 /\ booked = 0 /\ returned = 0
    BY DEF Init, Delivered
<1>2. \A t \in Thread : /\ thread[t] = Idle /\ ~OnItsWay(thread[t])
                        /\ thread[t].pc # "booking" /\ thread[t].op # "refund"
    BY IdleActivity DEF Init, OnItsWay
<1>3. Pending = {}
    BY <1>2 DEF Pending, Partial
<1>4. ToBook = 0
    BY <1>3, FS_EmptySet DEF ToBook
<1>5. \A t \in Thread : Counted(thread[t])
    BY <1>2 DEF Counted
<1>6. Behind
    BY <1>2 DEF Behind
<1> QED
    BY <1>1, <1>4, <1>5, <1>6, InitBase DEF MoneyInv, Accounts

LEMMA NextMoneyInv ==
    ASSUME MoneyInv, [Next]_vars
    PROVE  MoneyInv'
<1> SUFFICES Accounts'
    BY NextBase DEF MoneyInv
<1>1. CASE UNCHANGED vars
  <2>1. /\ ToBook' = ToBook /\ (FullPending' <=> FullPending) /\ (Behind' <=> Behind)
        /\ Mishaps' = Mishaps
    BY <1>1 DEF vars, ToBook, Pending, Partial, InFull, OnItsWay, FullPending, Behind, Mishaps
  <2>2. \A t \in Thread : Counted(thread[t])'
    BY <1>1 DEF vars, MoneyInv, Accounts, Counted, InFull, OnItsWay
  <2> QED
    BY <1>1, <2>1, <2>2 DEF vars, MoneyInv, Accounts
<1>2. ASSUME NEW t \in Thread, Continue(t) PROVE Accounts'
    BY <1>2, SavesAccounted, RefundStepsAccounted, AcceptedAccounted, ReadEntryAccounted,
       BookingAccounted, UnbookedAccounted DEF Continue, Saves
<1>3. ASSUME NEW t \in Thread, Crash(t) PROVE Accounts'
    BY <1>3, UnbookedAccounted
<1>4. ASSUME NEW t \in Thread, NEW op \in Op, Load(t, op) PROVE Accounts'
    BY <1>4, LoadStarts, StartsAccounted DEF MoneyInv
<1>5. ASSUME NEW t \in Thread, NEW value \in Values, LoadRequest(t, value) PROVE Accounts'
    BY <1>5, LoadRequestStarts, StartsAccounted DEF MoneyInv
<1>6. ASSUME NEW t \in Thread, NEW amount \in AdHoc, AdHocRefund(t, amount) PROVE Accounts'
    BY <1>6, AdHocAccounted
<1> QED
    BY <1>1, <1>2, <1>3, <1>4, <1>5, <1>6 DEF Next

\* What a refund finds as already refunded is never more than Razorpay paid back, and when
\* nobody is refunding it is just that, whatever overlapped and however often, unless a
\* crash, a lost answer or a failure of the ledger kept a refund from being recorded, or one
\* booking wrote over another that came after its read.
THEOREM RefundsAllCounted == Spec => []RefundsAccounted
<1>1. MoneyInv => RefundsAccounted
  <2> SUFFICES ASSUME MoneyInv PROVE RefundsAccounted
    OBVIOUS
  <2>1. /\ booked \in 0..Total /\ doc \in Doc
        /\ booked <= returned /\ doc.refunded <= returned
        /\ booked \in Nat /\ returned \in Nat /\ doc.refunded \in Nat
    BY MoneyAt, ReturnsAssumption DEF MoneyInv, Base, TypeOK
  <2>2. AlreadyRefunded(doc, booked) <= returned
    BY <2>1, AlreadyFits
  <2>3. ASSUME Quiet, ~overbooked, bounds.crashes + bounds.lost + bounds.unbooked = 0
        PROVE  AlreadyRefunded(doc, booked) = returned
    <3>1. \A t \in Thread : ~OnItsWay(thread[t])
      BY <2>3, IdleActivity DEF Quiet, OnItsWay
    <3>2. Pending = {} /\ ~FullPending
      BY <3>1 DEF Pending, Partial, FullPending
    <3>3. ToBook = 0
      BY <3>2, FS_EmptySet DEF ToBook
    <3>4. Mishaps = 0
      BY <2>3, MoneyAt, BoundsAreNumbers DEF Mishaps
    <3>5. booked = returned
      BY <2>1, <2>3, <3>2, <3>3, <3>4 DEF MoneyInv, Accounts
    <3> QED
      BY <2>1, <2>2, <3>5, AlreadyFits
  <2> QED
    BY <2>2, <2>3 DEF RefundsAccounted
<1>2. MoneyInv /\ [Next]_vars => MoneyInv'
    BY NextMoneyInv
<1> QED
    BY InitMoneyInv, <1>1, <1>2, PTL DEF Spec

===============================================================================
