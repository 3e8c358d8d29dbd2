--------------------------- MODULE FulfillmentProofs ---------------------------
(***************************************************************************)
(* What Fulfillment guarantees for every number of checkouts, workers,     *)
(* items and units: its types, that the side effects of a checkout happen  *)
(* at most once; without intents from before the reservations, that no     *)
(* more is sold than there was; when no handler outlasts its claim, that   *)
(* whoever claims an intent owns it, that nothing leaks and that what is   *)
(* fulfilled is complete; in either case, that what has ended stays ended. *)
(***************************************************************************)
EXTENDS Fulfillment, FiniteSetTheorems, FunctionTheorems, TLAPS

-------------------------------------------------------------------------------
(* Types: inductive with what the program counters say of the pointers *)

\* A request that restores has a victim.
ReqTyped ==
    /\ req \in [Checkout -> Request]
    /\ \A c \in Checkout : req[c].pc = "restore" => req[c].victim \in Checkout

\* A worker that is busy has a checkout.
JobTyped ==
    /\ job \in [Worker -> Job]
    /\ \A w \in Worker : job[w].pc # "idle" => job[w].of \in Checkout

StockTyped ==
    /\ stock \in [Item -> Nat]
    /\ taken \in [Checkout -> [Item -> Int]]

OtherTyped ==
    /\ status \in [Checkout -> Status]
    /\ reserved \in [Checkout -> BOOLEAN]
    /\ abandoned \in [Checkout -> BOOLEAN]
    /\ stale \in [Checkout -> BOOLEAN]
    /\ payment \in [Checkout -> {"none", "captured", "refunded"}]
    /\ order \in [Checkout -> BOOLEAN]
    /\ booked \in [Checkout -> BOOLEAN]
    /\ effects \in [Checkout -> Nat]
    /\ crashes \in 0..MaxCrashes

TypeInv == ReqTyped /\ JobTyped /\ StockTyped /\ OtherTyped

\* Units move between the shelf and a checkout without leaving their types.
LEMMA DecrementType ==
    ASSUME StockTyped, NEW c \in Checkout, NEW i \in Item,
           CanDecrement(c, i), Decrement(c, i)
    PROVE  StockTyped'
<1>1. Want[c][i] \in Nat
  BY StockAssumption
<1>2. stock[i] - Want[c][i] \in Nat
  BY <1>1 DEF CanDecrement, StockTyped
<1>3. taken[c][i] + Want[c][i] \in Int
  BY <1>1 DEF StockTyped
<1> QED
  BY <1>2, <1>3 DEF Decrement, StockTyped

LEMMA RestoreType ==
    ASSUME StockTyped, NEW c \in Checkout, NEW i \in Item, Restore(c, i)
    PROVE  StockTyped'
<1>1. Want[c][i] \in Nat
  BY StockAssumption
<1>2. stock[i] + Want[c][i] \in Nat
  BY <1>1 DEF StockTyped
<1>3. taken[c][i] - Want[c][i] \in Int
  BY <1>1 DEF StockTyped
<1> QED
  BY <1>2, <1>3 DEF Restore, StockTyped

\* What the moves of a request and of a worker do to its record.
LEMMA GotoType ==
    ASSUME ReqTyped, NEW c \in Checkout, NEW pc \in ReqPc, pc # "restore",
           Goto(c, pc)
    PROVE  ReqTyped'
BY DEF ReqTyped, Goto, Request

LEMMA RequestFields ==
    ASSUME NEW r \in Request
    PROVE  /\ \A pc \in ReqPc : /\ [r EXCEPT !.pc = pc] \in Request
                               /\ [r EXCEPT !.pc = pc].pc = pc
           /\ \A todo \in SUBSET Item :
                 /\ [r EXCEPT !.todo = todo] \in Request
                 /\ [r EXCEPT !.todo = todo].pc = r.pc
           /\ \A found \in SUBSET Checkout :
                 /\ [r EXCEPT !.found = found] \in Request
                 /\ [r EXCEPT !.found = found].pc = r.pc
           /\ /\ [r EXCEPT !.victim = None] \in Request
              /\ [r EXCEPT !.victim = None].pc = r.pc
BY DEF Request

LEMMA GotoWithType ==
    ASSUME ReqTyped, NEW c \in Checkout, NEW pc \in ReqPc, pc # "restore",
           NEW todo \in SUBSET Item, GotoWith(c, pc, todo)
    PROVE  ReqTyped'
<1> DEFINE p == [req[c] EXCEPT !.pc = pc]
           r == [p EXCEPT !.todo = todo]
<1>1. req' = [req EXCEPT ![c] = r]
  BY DEF GotoWith
<1>2. p \in Request /\ p.pc # "restore"
  BY RequestFields DEF ReqTyped
<1> HIDE DEF p
<1>3. r \in Request /\ r.pc # "restore"
  BY <1>2, RequestFields
<1> HIDE DEF r
<1> QED
  BY <1>1, <1>3 DEF ReqTyped

LEMMA ReqTodoType ==
    ASSUME ReqTyped, NEW c \in Checkout, NEW i \in Item,
           req' = [req EXCEPT ![c].todo = @ \ {i}]
    PROVE  ReqTyped'
BY DEF ReqTyped, Request

LEMMA StepType ==
    ASSUME JobTyped, NEW w \in Worker, NEW pc \in JobPc, ~At(w, "idle"),
           Step(w, pc)
    PROVE  JobTyped'
BY DEF JobTyped, Step, Job, At

LEMMA StepWithType ==
    ASSUME JobTyped, NEW w \in Worker, NEW pc \in JobPc, ~At(w, "idle"),
           NEW todo \in SUBSET Item, StepWith(w, pc, todo)
    PROVE  JobTyped'
BY DEF JobTyped, StepWith, Job, At

LEMMA JobTodoType ==
    ASSUME JobTyped, NEW w \in Worker, NEW i \in Item,
           job' = [job EXCEPT ![w].todo = @ \ {i}]
    PROVE  JobTyped'
BY DEF JobTyped, Job

LEMMA AnswerType ==
    ASSUME JobTyped, NEW w \in Worker, Answer(w)
    PROVE  JobTyped'
BY DEF JobTyped, Answer, NoJob, Job, JobPc

\* A group of variables that stays put keeps its types.
LEMMA SameTypes ==
    /\ ReqTyped /\ UNCHANGED req => ReqTyped'
    /\ JobTyped /\ UNCHANGED job => JobTyped'
    /\ StockTyped /\ UNCHANGED <<stock, taken>> => StockTyped'
    /\ OtherTyped /\ UNCHANGED <<intentVars, payment, orderVars, crashes>>
         => OtherTyped'
BY DEF ReqTyped, JobTyped, StockTyped, OtherTyped, intentVars, orderVars

LEMMA InitTypes == Init => TypeInv
<1> SUFFICES ASSUME Init PROVE TypeInv
  OBVIOUS
<1>1. ReqTyped
  BY DEF ReqTyped, Request, ReqPc, Init, Checkout
<1>2. JobTyped
  BY DEF JobTyped, Job, JobPc, NoJob, Init
<1>3. StockTyped
  BY StockAssumption DEF StockTyped, Init
<1>4. OtherTyped
  BY BoundAssumption DEF OtherTyped, Status, Init
<1> QED
  BY <1>1, <1>2, <1>3, <1>4 DEF TypeInv

\* The create-order and COD requests.
LEMMA RequestTypes ==
    ASSUME TypeInv, NEW c \in Checkout, RequestStep(c)
    PROVE  TypeInv'
<1>0. ReqTyped /\ JobTyped /\ StockTyped /\ OtherTyped
  BY DEF TypeInv
<1> USE <1>0, SameTypes DEF TypeInv
<1>1. CASE CreateOrder(c)
  <2>1. PICK batch \in SUBSET Checkout :
          req' = [req EXCEPT ![c].pc = "sweep", ![c].found = batch]
    BY <1>1 DEF CreateOrder
  <2> DEFINE p == [req[c] EXCEPT !.pc = "sweep"]
             r == [p EXCEPT !.found = batch]
  <2>2. req' = [req EXCEPT ![c] = r]
    BY <2>1
  <2>3. p \in Request /\ p.pc # "restore"
    BY ZenonT(40), RequestFields DEF ReqTyped, ReqPc
  <2> HIDE DEF p
  <2>4. r \in Request /\ r.pc # "restore"
    BY <2>3, RequestFields
  <2> HIDE DEF r
  <2>5. ReqTyped'
    BY <2>2, <2>4 DEF ReqTyped
  <2> QED
    BY <1>1, <2>5 DEF CreateOrder
<1>2. CASE SweepNext(c)
  <2> DEFINE p == [req[c] EXCEPT !.pc = "sweep"]
             r == [p EXCEPT !.victim = None]
  <2>1. req' = [req EXCEPT ![c] = r]
    BY <1>2 DEF SweepNext
  <2>2. p \in Request /\ p.pc # "restore"
    BY RequestFields DEF ReqTyped, ReqPc
  <2> HIDE DEF p
  <2>3. r \in Request /\ r.pc # "restore"
    BY <2>2, RequestFields
  <2> HIDE DEF r
  <2>4. ReqTyped'
    BY <2>1, <2>3 DEF ReqTyped
  <2> QED
    BY <1>2, <2>4 DEF SweepNext
<1>3. CASE StartReserve(c)
  BY <1>3, GotoWithType DEF StartReserve, Lines, ReqPc
<1>4. CASE Rejected(c)
  BY <1>4, GotoType DEF Rejected, ReqPc
<1>5. CASE ReserveDone(c)
  BY <1>5, GotoType DEF ReserveDone, ReqPc
<1>6. CASE InsertIntent(c)
  <2>1. OtherTyped'
    BY <1>6 DEF InsertIntent, OtherTyped, Status, orderVars
  <2> QED
    BY <1>6, <2>1, GotoType DEF InsertIntent, ReqPc
<1>7. CASE InsertIntentFails(c)
  BY <1>7, GotoWithType DEF InsertIntentFails, Lines, ReqPc
<1>8. CASE InsertCodOrder(c)
  <2>1. OtherTyped'
    BY <1>8 DEF InsertCodOrder, OtherTyped, intentVars
  <2> QED
    BY <1>8, <2>1, GotoType DEF InsertCodOrder, ReqPc
<1>9. CASE CodSideEffects(c)
  <2>1. OtherTyped'
    BY <1>9 DEF CodSideEffects, OtherTyped, intentVars
  <2> QED
    BY <1>9, <2>1, GotoType DEF CodSideEffects, ReqPc
<1>10. ASSUME NEW d \in Checkout, SweepOne(c, d) PROVE TypeInv'
  <2>1. ReqTyped'
    BY <1>10 DEF SweepOne, ReqTyped, Request, ReqPc, Lines
  <2>2. OtherTyped'
    BY <1>10 DEF SweepOne, OtherTyped, Status, orderVars
  <2> QED
    BY <1>10, <2>1, <2>2 DEF SweepOne
<1>11. ASSUME NEW i \in Item, SweepRestore(c, i) PROVE TypeInv'
  <2>1. req[c].victim \in Checkout
    BY <1>11 DEF SweepRestore, ReqTyped
  <2> QED
    BY <1>11, <2>1, RestoreType, ReqTodoType DEF SweepRestore
<1>12. ASSUME NEW i \in Item, ReserveLine(c, i) PROVE TypeInv'
  BY <1>12, DecrementType, ReqTodoType DEF ReserveLine, TakeLine
<1>13. ASSUME NEW i \in Item, ReserveFails(c, i) PROVE TypeInv'
  BY <1>13, GotoWithType DEF ReserveFails, TakenBefore, Lines, ReqPc
<1>14. ASSUME NEW i \in Item, GiveBackLine(c, i) PROVE TypeInv'
  BY <1>14, RestoreType, ReqTodoType DEF GiveBackLine
<1> QED
  BY <1>1, <1>2, <1>3, <1>4, <1>5, <1>6, <1>7, <1>8, <1>9, <1>10, <1>11,
     <1>12, <1>13, <1>14 DEF RequestStep

\* The deliveries of captured payments.
LEMMA WorkerTypes ==
    ASSUME TypeInv, NEW w \in Worker, WorkerStep(w)
    PROVE  TypeInv'
<1>0. ReqTyped /\ JobTyped /\ StockTyped /\ OtherTyped
  BY DEF TypeInv
<1> USE <1>0, SameTypes DEF TypeInv
<1>1. CASE Validate(w)
  BY <1>1, StepType, AnswerType DEF Validate, At, JobPc
<1>2. CASE FindExisting(w)
  BY <1>2, StepType, AnswerType DEF FindExisting, At, JobPc
<1>3. CASE CheckIntent(w)
  BY <1>3, StepType, AnswerType DEF CheckIntent, At, JobPc
<1>4. CASE Claim(w)
  <2>1. job[w].of \in Checkout
    BY <1>4 DEF Claim, At, JobTyped
  <2>2. JobTyped'
    <3>1. CASE Claimable(job[w].of)
      BY SMTT(30), <1>4, <2>1, <3>1 DEF Claim, At, JobTyped, OtherTyped, Job, JobPc
    <3>2. CASE ~Claimable(job[w].of)
      BY <1>4, <3>2, StepType DEF Claim, At, JobPc
    <3> QED
      BY <3>1, <3>2
  <2>3. OtherTyped'
    BY <1>4, <2>1 DEF Claim, OtherTyped, Status, orderVars
  <2> QED
    BY <1>4, <2>2, <2>3 DEF Claim
<1>5. CASE Refind(w)
  BY <1>5, AnswerType DEF Refind
<1>6. CASE Recheck(w)
  BY <1>6, StepType DEF Recheck, At, JobPc
<1>7. CASE Prepare(w)
  BY <1>7, StepType, StepWithType DEF Prepare, At, JobPc, Lines
<1>8. CASE PaidRollbackDone(w)
  BY <1>8, StepType DEF PaidRollbackDone, At, JobPc
<1>9. CASE PaidReserveDone(w)
  BY <1>9, StepType DEF PaidReserveDone, At, JobPc
<1>10. CASE FlagReserved(w)
  <2>1. OtherTyped'
    BY <1>10 DEF FlagReserved, OtherTyped, orderVars
  <2> QED
    BY <1>10, <2>1, StepType DEF FlagReserved, At, JobPc
<1>11. CASE Refund(w)
  <2>1. OtherTyped'
    BY <1>11 DEF Refund, OtherTyped, intentVars, orderVars
  <2> QED
    BY <1>11, <2>1, StepType DEF Refund, At, JobPc
<1>12. CASE MarkRefunded(w)
  <2>1. OtherTyped'
    BY <1>12 DEF MarkRefunded, OtherTyped, Status, orderVars
  <2> QED
    BY <1>12, <2>1, AnswerType DEF MarkRefunded
<1>13. CASE InsertOrder(w)
  <2>1. OtherTyped'
    BY <1>13 DEF InsertOrder, OtherTyped, intentVars
  <2> QED
    BY <1>13, <2>1, StepType, AnswerType DEF InsertOrder, At, JobPc
<1>14. CASE RecordLedger(w)
  <2>1. job[w].of \in Checkout
    BY <1>14 DEF RecordLedger, At, JobTyped
  <2>2. OtherTyped'
    BY <1>14, <2>1 DEF RecordLedger, OtherTyped, intentVars
  <2> QED
    BY <1>14, <2>2, StepType DEF RecordLedger, At, JobPc
<1>15. CASE SideEffects(w)
  <2>1. job[w].of \in Checkout
    BY <1>15 DEF SideEffects, At, JobTyped
  <2>2. OtherTyped'
    BY <1>15, <2>1 DEF SideEffects, OtherTyped, intentVars
  <2> QED
    BY <1>15, <2>2, StepType DEF SideEffects, At, JobPc
<1>16. CASE MarkFulfilled(w)
  <2>1. OtherTyped'
    BY <1>16 DEF MarkFulfilled, OtherTyped, Status, orderVars
  <2> QED
    BY <1>16, <2>1, AnswerType DEF MarkFulfilled
<1>17. ASSUME NEW i \in Item, PaidReserveLine(w, i) PROVE TypeInv'
  <2>1. job[w].of \in Checkout
    BY <1>17 DEF PaidReserveLine, At, JobTyped
  <2> QED
    BY <1>17, <2>1, DecrementType, JobTodoType DEF PaidReserveLine, TakeLine
<1>18. ASSUME NEW i \in Item, PaidReserveFails(w, i) PROVE TypeInv'
  BY <1>18, StepWithType DEF PaidReserveFails, At, TakenBefore, Lines, JobPc
<1>19. ASSUME NEW i \in Item, PaidGiveBack(w, i) PROVE TypeInv'
  <2>1. job[w].of \in Checkout
    BY <1>19 DEF PaidGiveBack, At, JobTyped
  <2> QED
    BY <1>19, <2>1, RestoreType, JobTodoType DEF PaidGiveBack
<1> QED
  BY <1>1, <1>2, <1>3, <1>4, <1>5, <1>6, <1>7, <1>8, <1>9, <1>10, <1>11,
     <1>12, <1>13, <1>14, <1>15, <1>16, <1>17, <1>18, <1>19 DEF WorkerStep

\* The customer, time, redeliveries and crashes.
LEMMA EnvironmentTypes ==
    ASSUME TypeInv, Environment
    PROVE  TypeInv'
<1>0. ReqTyped /\ JobTyped /\ StockTyped /\ OtherTyped
  BY DEF TypeInv
<1> USE <1>0, SameTypes DEF TypeInv
<1>1. ASSUME NEW c \in Checkout, Pay(c) PROVE TypeInv'
  <2>1. OtherTyped'
    BY <1>1 DEF Pay, OtherTyped, intentVars, orderVars
  <2> QED
    BY <1>1, <2>1 DEF Pay
<1>2. ASSUME NEW c \in Checkout, Abandon(c) PROVE TypeInv'
  <2>1. OtherTyped'
    BY <1>2 DEF Abandon, OtherTyped, orderVars
  <2> QED
    BY <1>2, <2>1 DEF Abandon
<1>3. ASSUME NEW c \in Checkout, ClaimAges(c) PROVE TypeInv'
  <2>1. OtherTyped'
    BY <1>3 DEF ClaimAges, OtherTyped, orderVars
  <2> QED
    BY <1>3, <2>1 DEF ClaimAges
<1>4. ASSUME NEW c \in Checkout, CrashRequest(c) PROVE TypeInv'
  <2>1. ReqTyped'
    BY <1>4 DEF CrashRequest, ReqTyped, Request, ReqPc
  <2>2. OtherTyped'
    BY <1>4, BoundAssumption DEF CrashRequest, OtherTyped, intentVars, orderVars
  <2> QED
    BY <1>4, <2>1, <2>2 DEF CrashRequest
<1>5. ASSUME NEW w \in Worker, CrashWorker(w) PROVE TypeInv'
  <2>1. OtherTyped'
    BY <1>5, BoundAssumption DEF CrashWorker, OtherTyped, intentVars, orderVars
  <2> QED
    BY <1>5, <2>1, AnswerType DEF CrashWorker
<1>6. ASSUME NEW w \in Worker, NEW c \in Checkout, Deliver(w, c) PROVE TypeInv'
  <2>1. JobTyped'
    BY <1>6 DEF Deliver, JobTyped, Job, JobPc, NoJob
  <2> QED
    BY <1>6, <2>1 DEF Deliver
<1> QED
  BY <1>1, <1>2, <1>3, <1>4, <1>5, <1>6 DEF Environment

LEMMA NextTypes == TypeInv /\ [Next]_vars => TypeInv'
<1> SUFFICES ASSUME TypeInv, [Next]_vars PROVE TypeInv'
  OBVIOUS
<1>1. CASE UNCHANGED vars
  BY <1>1, SameTypes DEF TypeInv, vars, intentVars, orderVars
<1> QED
  BY <1>1, RequestTypes, WorkerTypes, EnvironmentTypes DEF Next

LEMMA AlwaysTyped == Spec => []TypeInv
BY InitTypes, NextTypes, PTL DEF Spec

\* Every variable of the checkout keeps its type: stock never goes below zero,
\* a worker never loses the checkout it works for.
THEOREM Typed == Spec => []TypeOK
<1>1. TypeInv => TypeOK
  BY DEF TypeInv, TypeOK, ReqTyped, JobTyped, StockTyped, OtherTyped
<1> QED
  BY <1>1, AlwaysTyped, PTL

-------------------------------------------------------------------------------
(* What the moves change, record by record *)

LEMMA GotoMoves ==
    ASSUME ReqTyped, NEW c \in Checkout, NEW pc, Goto(c, pc)
    PROVE  \A d \in Checkout :
              /\ req'[d].pc = IF d = c THEN pc ELSE req[d].pc
              /\ req'[d].todo = req[d].todo
              /\ req'[d].victim = req[d].victim
BY DEF ReqTyped, Goto, Request

LEMMA GotoWithMoves ==
    ASSUME ReqTyped, NEW c \in Checkout, NEW pc, NEW todo,
           GotoWith(c, pc, todo)
    PROVE  \A d \in Checkout :
              /\ req'[d].pc = IF d = c THEN pc ELSE req[d].pc
              /\ req'[d].todo = IF d = c THEN todo ELSE req[d].todo
              /\ req'[d].victim = req[d].victim
BY DEF ReqTyped, GotoWith, Request

LEMMA ReqTodoMoves ==
    ASSUME ReqTyped, NEW c \in Checkout, NEW i \in Item,
           req' = [req EXCEPT ![c].todo = @ \ {i}]
    PROVE  \A d \in Checkout :
              /\ req'[d].pc = req[d].pc
              /\ req'[d].todo = IF d = c THEN req[d].todo \ {i}
                                ELSE req[d].todo
              /\ req'[d].victim = req[d].victim
BY ZenonT(40) DEF ReqTyped, Request

LEMMA CreateOrderMoves ==
    ASSUME ReqTyped, NEW c \in Checkout, CreateOrder(c)
    PROVE  \A d \in Checkout :
              /\ req'[d].pc = IF d = c THEN "sweep" ELSE req[d].pc
              /\ req'[d].todo = req[d].todo
              /\ req'[d].victim = req[d].victim
<1>1. PICK batch : req' = [req EXCEPT ![c].pc = "sweep", ![c].found = batch]
  BY DEF CreateOrder
<1> QED
  BY <1>1 DEF ReqTyped, Request

LEMMA SweepNextMoves ==
    ASSUME ReqTyped, NEW c \in Checkout, SweepNext(c)
    PROVE  \A d \in Checkout :
              /\ req'[d].pc = IF d = c THEN "sweep" ELSE req[d].pc
              /\ req'[d].todo = req[d].todo
              /\ d # c => req'[d].victim = req[d].victim
BY DEF SweepNext, ReqTyped, Request

LEMMA SweepOneMoves ==
    ASSUME ReqTyped, NEW c \in Checkout, NEW v \in Checkout, SweepOne(c, v)
    PROVE  /\ \A d \in Checkout \ {c} : req'[d] = req[d]
           /\ ExpireGuard(v) => /\ req'[c].pc = "restore"
                                /\ req'[c].todo = Lines(v)
                                /\ req'[c].victim = v
           /\ ~ExpireGuard(v) => req'[c].pc = "sweep"
BY DEF SweepOne, ReqTyped, Request

LEMMA StepMoves ==
    ASSUME JobTyped, NEW w \in Worker, NEW pc, Step(w, pc)
    PROVE  \A v \in Worker :
              /\ job'[v].pc = IF v = w THEN pc ELSE job[v].pc
              /\ job'[v].of = job[v].of
              /\ job'[v].had = job[v].had
              /\ job'[v].todo = job[v].todo
BY DEF JobTyped, Step, Job

LEMMA StepWithMoves ==
    ASSUME JobTyped, NEW w \in Worker, NEW pc, NEW todo, StepWith(w, pc, todo)
    PROVE  \A v \in Worker :
              /\ job'[v].pc = IF v = w THEN pc ELSE job[v].pc
              /\ job'[v].of = job[v].of
              /\ job'[v].had = job[v].had
              /\ job'[v].todo = IF v = w THEN todo ELSE job[v].todo
BY DEF JobTyped, StepWith, Job

LEMMA JobTodoMoves ==
    ASSUME JobTyped, NEW w \in Worker, NEW i \in Item,
           job' = [job EXCEPT ![w].todo = @ \ {i}]
    PROVE  \A v \in Worker :
              /\ job'[v].pc = job[v].pc
              /\ job'[v].of = job[v].of
              /\ job'[v].had = job[v].had
              /\ job'[v].todo = IF v = w THEN job[v].todo \ {i}
                                ELSE job[v].todo
BY DEF JobTyped, Job

LEMMA AnswerMoves ==
    ASSUME JobTyped, NEW w \in Worker, Answer(w)
    PROVE  /\ job'[w].pc = "idle" /\ job'[w].of = None
           /\ \A v \in Worker \ {w} : job'[v] = job[v]
BY DEF JobTyped, Answer, NoJob

LEMMA ClaimMoves ==
    ASSUME JobTyped, NEW w \in Worker, Claim(w)
    PROVE  \A v \in Worker :
              /\ job'[v].of = job[v].of
              /\ v # w => job'[v] = job[v]
              /\ v = w => \/ /\ Claimable(job[w].of)
                             /\ job'[w].pc = "recheck"
                             /\ job'[w].had = reserved[job[w].of]
                          \/ job'[w].pc = "refind" /\ UNCHANGED status
BY DEF Claim, Step, JobTyped, Job

LEMMA DeliverMoves ==
    ASSUME JobTyped, NEW w \in Worker, NEW c \in Checkout, Deliver(w, c)
    PROVE  /\ job'[w].pc = "validate" /\ job'[w].of = c
           /\ \A v \in Worker \ {w} : job'[v] = job[v]
BY DEF Deliver, NoJob, JobTyped, Job

-------------------------------------------------------------------------------
(* Side effects at most once: the insert on the unique index elects the one  *)
(* worker that applies them                                                  *)

\* Only online checkouts have an intent, a payment and workers; only the others
\* are inserted by their own request.
Kinds ==
    /\ \A c \in Checkout : req[c].pc \in {"held", "open"} => c \in Online
    /\ \A c \in Checkout :
          req[c].pc \in {"insert", "effects", "done"} => c \in Cod
    /\ \A c \in Checkout : payment[c] # "none" => c \in Online
    /\ \A w \in Worker : job[w].pc # "idle" => job[w].of \in Online

\* The worker whose insert won has not applied the side effects yet.
Won(w) == job[w].pc \in {"ledger", "effects"}

ElectedInv ==
    /\ \A w \in Worker :
          Won(w) => order[job[w].of] /\ effects[job[w].of] = 0
    /\ \A v, w \in Worker : Won(v) /\ Won(w) /\ job[v].of = job[w].of => v = w

\* A cash-on-delivery request applies them right after its own insert.
CodInv ==
    /\ \A c \in Cod : req[c].pc # "done" => effects[c] = 0
    /\ \A c \in Cod : req[c].pc \in {"effects", "done"} => order[c]

EffectsInv == TypeInv /\ Kinds /\ ElectedInv /\ CodInv /\ EffectsOnce

LEMMA InitEffects == Init => EffectsInv
<1> SUFFICES ASSUME Init PROVE EffectsInv
  OBVIOUS
<1>1. TypeInv
  BY InitTypes
<1>2. Kinds
  BY CheckoutAssumption DEF Init, Kinds, NoJob, Checkout
<1>3. ElectedInv /\ CodInv /\ EffectsOnce
  BY CheckoutAssumption
     DEF Init, ElectedInv, Won, NoJob, CodInv, EffectsOnce, Checkout
<1> QED
  BY <1>1, <1>2, <1>3 DEF EffectsInv

\* Requests that neither insert an order nor apply its side effects.
LEMMA QuietRequest ==
    ASSUME EffectsInv, TypeInv', NEW c \in Checkout,
           UNCHANGED <<payment, order, effects, job>>,
           \A d \in Checkout \ {c} : req'[d].pc = req[d].pc,
           req'[c].pc \in {"held", "open"} => c \in Online,
           req'[c].pc \in {"insert", "effects", "done"} => c \in Cod,
           req'[c].pc = "effects" => req[c].pc = "effects",
           req[c].pc = "done" <=> req'[c].pc = "done"
    PROVE  EffectsInv'
<1>1. Kinds'
  BY DEF EffectsInv, Kinds
<1>2. ElectedInv' /\ EffectsOnce'
  BY DEF EffectsInv, ElectedInv, Won, EffectsOnce
<1>3. CodInv'
  BY DEF EffectsInv, CodInv, Checkout
<1> QED
  BY <1>1, <1>2, <1>3 DEF EffectsInv

LEMMA RequestEffects ==
    ASSUME EffectsInv, NEW c \in Checkout, RequestStep(c)
    PROVE  EffectsInv'
<1>0. TypeInv /\ ReqTyped /\ JobTyped /\ OtherTyped /\ Kinds /\ TypeInv'
  BY RequestTypes DEF EffectsInv, TypeInv
<1>o. Checkout = Online \union Cod /\ Online \intersect Cod = {}
  BY CheckoutAssumption DEF Checkout
<1> USE <1>0, <1>o DEF orderVars
<1>1. CASE CreateOrder(c)
  <2>1. \A d \in Checkout : req'[d].pc = IF d = c THEN "sweep" ELSE req[d].pc
    BY <1>1, CreateOrderMoves
  <2> QED
    BY <1>1, <2>1, QuietRequest DEF CreateOrder
<1>2. CASE SweepNext(c)
  <2>1. \A d \in Checkout : req'[d].pc = IF d = c THEN "sweep" ELSE req[d].pc
    BY <1>2, SweepNextMoves
  <2>2. UNCHANGED <<payment, order, effects, job>> /\ req[c].pc = "restore"
    BY <1>2 DEF SweepNext
  <2> QED
    BY <2>1, <2>2, QuietRequest
<1>3. CASE StartReserve(c)
  BY <1>3, GotoWithMoves, QuietRequest DEF StartReserve
<1>4. CASE Rejected(c)
  BY <1>4, GotoMoves, QuietRequest DEF Rejected
<1>5. CASE ReserveDone(c)
  BY <1>5, GotoMoves, QuietRequest DEF ReserveDone
<1>6. CASE InsertIntent(c)
  BY <1>6, GotoMoves, QuietRequest DEF InsertIntent, Kinds
<1>7. CASE InsertIntentFails(c)
  BY <1>7, GotoWithMoves, QuietRequest DEF InsertIntentFails
<1>8. CASE InsertCodOrder(c)
  <2>1. c \in Cod /\ req[c].pc = "insert"
    BY <1>8 DEF InsertCodOrder, Kinds
  <2>2. \A d \in Checkout :
           req'[d].pc = IF d = c THEN "effects" ELSE req[d].pc
    BY <1>8, GotoMoves DEF InsertCodOrder
  <2>3. Kinds'
    BY <1>8, <2>1, <2>2 DEF InsertCodOrder, Kinds
  <2>4. \A d \in Checkout : order'[d] <=> (d = c \/ order[d])
    BY <1>8 DEF InsertCodOrder, OtherTyped
  <2>5. UNCHANGED <<effects, job>>
    BY <1>8 DEF InsertCodOrder
  <2>6. ElectedInv' /\ EffectsOnce'
    BY <2>4, <2>5
       DEF EffectsInv, ElectedInv, Won, EffectsOnce, JobTyped, Kinds
  <2>7. CodInv'
    BY <2>1, <2>2, <2>4, <2>5 DEF EffectsInv, CodInv
  <2> QED
    BY <2>3, <2>6, <2>7 DEF EffectsInv
<1>9. CASE CodSideEffects(c)
  <2>1. c \in Cod /\ req[c].pc = "effects" /\ effects[c] = 0 /\ order[c]
    BY <1>9 DEF CodSideEffects, Kinds, EffectsInv, CodInv
  <2>2. \A d \in Checkout :
           req'[d].pc = IF d = c THEN "done" ELSE req[d].pc
    BY <1>9, GotoMoves DEF CodSideEffects
  <2>3. Kinds'
    BY <1>9, <2>1, <2>2 DEF CodSideEffects, Kinds
  <2>4. \A d \in Checkout : effects'[d] = IF d = c THEN 1 ELSE effects[d]
    BY <1>9, <2>1 DEF CodSideEffects, OtherTyped
  <2>5. UNCHANGED <<order, job>>
    BY <1>9 DEF CodSideEffects
  <2>6. \A w \in Worker : Won(w) => job[w].of # c
    BY <2>1 DEF Won, Kinds
  <2>7. ElectedInv'
    BY <2>4, <2>5, <2>6 DEF EffectsInv, ElectedInv, Won, JobTyped
  <2>8. EffectsOnce'
    BY <2>1, <2>4, <2>5 DEF EffectsInv, EffectsOnce
  <2>9. CodInv'
    BY <2>1, <2>2, <2>4, <2>5 DEF EffectsInv, CodInv
  <2> QED
    BY <2>3, <2>7, <2>8, <2>9 DEF EffectsInv
<1>10. ASSUME NEW d \in Checkout, SweepOne(c, d) PROVE EffectsInv'
  BY <1>10, SweepOneMoves, QuietRequest DEF SweepOne
<1>11. ASSUME NEW i \in Item, SweepRestore(c, i) PROVE EffectsInv'
  BY <1>11, ReqTodoMoves, QuietRequest DEF SweepRestore
<1>12. ASSUME NEW i \in Item, ReserveLine(c, i) PROVE EffectsInv'
  BY <1>12, ReqTodoMoves, QuietRequest DEF ReserveLine
<1>13. ASSUME NEW i \in Item, ReserveFails(c, i) PROVE EffectsInv'
  BY <1>13, GotoWithMoves, QuietRequest DEF ReserveFails
<1>14. ASSUME NEW i \in Item, GiveBackLine(c, i) PROVE EffectsInv'
  BY <1>14, ReqTodoMoves, QuietRequest DEF GiveBackLine
<1> QED
  BY <1>1, <1>2, <1>3, <1>4, <1>5, <1>6, <1>7, <1>8, <1>9, <1>10, <1>11,
     <1>12, <1>13, <1>14 DEF RequestStep

\* Workers that neither insert an order nor apply its side effects.
LEMMA QuietWorker ==
    ASSUME EffectsInv, TypeInv', NEW w \in Worker,
           UNCHANGED <<req, order, effects>>,
           \A c \in Checkout : payment'[c] # "none" => payment[c] # "none",
           \A v \in Worker \ {w} : job'[v].pc = job[v].pc
                                   /\ job'[v].of = job[v].of,
           job'[w].pc # "idle" => job'[w].of \in Online,
           job'[w].pc \in {"ledger", "effects"} =>
              Won(w) /\ job'[w].of = job[w].of
    PROVE  EffectsInv'
<1>1. Kinds'
  BY DEF EffectsInv, Kinds
<1>2. ElectedInv'
  BY DEF EffectsInv, ElectedInv, Won
<1>3. EffectsOnce' /\ CodInv'
  BY DEF EffectsInv, EffectsOnce, CodInv
<1> QED
  BY <1>1, <1>2, <1>3 DEF EffectsInv

LEMMA WorkerEffects ==
    ASSUME EffectsInv, NEW w \in Worker, WorkerStep(w)
    PROVE  EffectsInv'
<1>0. /\ TypeInv /\ ReqTyped /\ JobTyped /\ OtherTyped /\ Kinds /\ TypeInv'
      /\ ElectedInv /\ EffectsOnce /\ CodInv
  BY WorkerTypes DEF EffectsInv, TypeInv
<1>o. ~At(w, "idle") => job[w].of \in Online /\ job[w].of \in Checkout
  BY <1>0 DEF Kinds, At, Checkout
<1> USE <1>0, <1>o DEF orderVars, At
<1>1. CASE Validate(w)
  BY <1>1, StepMoves, AnswerMoves, QuietWorker DEF Validate
<1>2. CASE FindExisting(w)
  BY <1>2, StepMoves, AnswerMoves, QuietWorker DEF FindExisting
<1>3. CASE CheckIntent(w)
  BY <1>3, StepMoves, AnswerMoves, QuietWorker DEF CheckIntent
<1>4. CASE Claim(w)
  BY <1>4, ClaimMoves, QuietWorker DEF Claim
<1>5. CASE Refind(w)
  BY <1>5, AnswerMoves, QuietWorker DEF Refind
<1>6. CASE Recheck(w)
  BY <1>6, StepMoves, QuietWorker DEF Recheck
<1>7. CASE Prepare(w)
  BY <1>7, StepMoves, StepWithMoves, QuietWorker DEF Prepare
<1>8. CASE PaidRollbackDone(w)
  BY <1>8, StepMoves, QuietWorker DEF PaidRollbackDone
<1>9. CASE PaidReserveDone(w)
  BY <1>9, StepMoves, QuietWorker DEF PaidReserveDone
<1>10. CASE FlagReserved(w)
  BY <1>10, StepMoves, QuietWorker DEF FlagReserved
<1>11. CASE Refund(w)
  <2>1. \A c \in Checkout : payment'[c] # "none" => payment[c] # "none"
    BY <1>11 DEF Refund, OtherTyped
  <2> QED
    BY <1>11, <2>1, StepMoves, QuietWorker DEF Refund
<1>12. CASE MarkRefunded(w)
  BY <1>12, AnswerMoves, QuietWorker DEF MarkRefunded
<1>13. CASE InsertOrder(w)
  <2>1. CASE Duplicate(job[w].of)
    BY <1>13, <2>1, AnswerMoves, QuietWorker DEF InsertOrder
  <2>2. CASE ~Duplicate(job[w].of)
    <3> DEFINE c == job[w].of
    <3>1. ~order[c] /\ effects[c] = 0
      BY <1>13, <2>2 DEF Duplicate, EffectsOnce, InsertOrder, OtherTyped
    <3>2. \A v \in Worker : Won(v) => job[v].of # c
      BY <3>1 DEF ElectedInv
    <3>3. \A d \in Checkout : order'[d] <=> (d = c \/ order[d])
      BY <1>13, <2>2 DEF InsertOrder, OtherTyped
    <3>4. /\ UNCHANGED <<req, payment, effects>>
          /\ \A v \in Worker :
                /\ job'[v].pc = IF v = w THEN "ledger" ELSE job[v].pc
                /\ job'[v].of = job[v].of
      BY <1>13, <2>2, StepMoves DEF InsertOrder
    <3>5. Kinds'
      BY <1>13, <3>4 DEF Kinds, InsertOrder
    <3>6. ElectedInv'
      BY <3>1, <3>2, <3>3, <3>4, <1>13
         DEF ElectedInv, Won, JobTyped, InsertOrder
    <3>7. EffectsOnce' /\ CodInv'
      BY <3>3, <3>4 DEF EffectsOnce, CodInv, Checkout
    <3> QED
      BY <3>5, <3>6, <3>7 DEF EffectsInv
  <2> QED
    BY <2>1, <2>2
<1>14. CASE RecordLedger(w)
  BY <1>14, StepMoves, QuietWorker DEF RecordLedger, Won
<1>15. CASE SideEffects(w)
  <2> DEFINE c == job[w].of
  <2>1. Won(w) /\ order[c] /\ effects[c] = 0 /\ c \in Online /\ c \in Checkout
    BY <1>15 DEF SideEffects, Won, ElectedInv
  <2>2. \A v \in Worker \ {w} : Won(v) => job[v].of # c
    BY <2>1 DEF ElectedInv
  <2>3. \A d \in Checkout : effects'[d] = IF d = c THEN 1 ELSE effects[d]
    BY <1>15, <2>1 DEF SideEffects, OtherTyped
  <2>4. /\ UNCHANGED <<req, payment, order>>
        /\ \A v \in Worker :
              /\ job'[v].pc = IF v = w THEN "mark" ELSE job[v].pc
              /\ job'[v].of = job[v].of
    BY <1>15, StepMoves DEF SideEffects
  <2>5. Kinds'
    BY <2>1, <2>4 DEF Kinds
  <2>6. ElectedInv'
    BY <2>2, <2>3, <2>4 DEF ElectedInv, Won, JobTyped
  <2>7. EffectsOnce'
    BY <2>1, <2>3, <2>4 DEF EffectsOnce
  <2>8. CodInv'
    BY <2>1, <2>3, <2>4, CheckoutAssumption DEF CodInv, Checkout
  <2> QED
    BY <2>5, <2>6, <2>7, <2>8 DEF EffectsInv
<1>16. CASE MarkFulfilled(w)
  BY <1>16, AnswerMoves, QuietWorker DEF MarkFulfilled
<1>17. ASSUME NEW i \in Item, PaidReserveLine(w, i) PROVE EffectsInv'
  BY <1>17, JobTodoMoves, QuietWorker DEF PaidReserveLine
<1>18. ASSUME NEW i \in Item, PaidReserveFails(w, i) PROVE EffectsInv'
  BY <1>18, StepWithMoves, QuietWorker DEF PaidReserveFails
<1>19. ASSUME NEW i \in Item, PaidGiveBack(w, i) PROVE EffectsInv'
  BY <1>19, JobTodoMoves, QuietWorker DEF PaidGiveBack
<1> QED
  BY <1>1, <1>2, <1>3, <1>4, <1>5, <1>6, <1>7, <1>8, <1>9, <1>10, <1>11,
     <1>12, <1>13, <1>14, <1>15, <1>16, <1>17, <1>18, <1>19 DEF WorkerStep

LEMMA EnvironmentEffects ==
    ASSUME EffectsInv, Environment
    PROVE  EffectsInv'
<1>0. /\ TypeInv /\ ReqTyped /\ JobTyped /\ OtherTyped /\ Kinds /\ TypeInv'
      /\ ElectedInv /\ EffectsOnce /\ CodInv
  BY EnvironmentTypes DEF EffectsInv, TypeInv
<1> USE <1>0 DEF orderVars
<1>1. ASSUME NEW c \in Checkout, Pay(c) PROVE EffectsInv'
  <2>1. Kinds'
    BY <1>1 DEF Pay, Kinds, OtherTyped
  <2>2. ElectedInv' /\ EffectsOnce' /\ CodInv'
    BY <1>1 DEF Pay, ElectedInv, Won, EffectsOnce, CodInv
  <2> QED
    BY <2>1, <2>2 DEF EffectsInv
<1>2. ASSUME NEW c \in Checkout, Abandon(c) \/ ClaimAges(c) PROVE EffectsInv'
  BY <1>2
     DEF Abandon, ClaimAges, EffectsInv, Kinds, ElectedInv, Won, EffectsOnce,
         CodInv
<1>3. ASSUME NEW c \in Checkout, CrashRequest(c) PROVE EffectsInv'
  <2>1. Goto(c, "dead")
    BY <1>3 DEF CrashRequest, Goto
  <2> QED
    BY <1>3, <2>1, GotoMoves, QuietRequest DEF CrashRequest
<1>4. ASSUME NEW w \in Worker, CrashWorker(w) PROVE EffectsInv'
  BY <1>4, AnswerMoves, QuietWorker DEF CrashWorker
<1>5. ASSUME NEW w \in Worker, NEW c \in Checkout, Deliver(w, c)
      PROVE  EffectsInv'
  <2>1. /\ job'[w].pc = "validate" /\ job'[w].of = c /\ c \in Online
        /\ \A v \in Worker \ {w} : job'[v] = job[v]
    BY <1>5, DeliverMoves DEF Kinds, Deliver
  <2> QED
    BY <1>5, <2>1, QuietWorker DEF Deliver
<1> QED
  BY <1>1, <1>2, <1>3, <1>4, <1>5 DEF Environment

LEMMA EffectsStep == EffectsInv /\ [Next]_vars => EffectsInv'
<1> SUFFICES ASSUME EffectsInv, [Next]_vars PROVE EffectsInv'
  OBVIOUS
<1>1. CASE UNCHANGED vars
  <2>1. TypeInv'
    BY <1>1, NextTypes DEF EffectsInv
  <2> QED
    BY <1>1, <2>1
       DEF vars, EffectsInv, Kinds, ElectedInv, Won, EffectsOnce, CodInv
<1> QED
  BY <1>1, RequestEffects, WorkerEffects, EnvironmentEffects DEF Next

\* The coupon's count and the cart are touched at most once per checkout,
\* however many deliveries of its payment run, overlap, crash or take over.
THEOREM SideEffectsOnce == Spec => []EffectsOnce
<1>1. EffectsInv => EffectsOnce
  BY DEF EffectsInv
<1> QED
  BY <1>1, InitEffects, EffectsStep, PTL DEF Spec
-------------------------------------------------------------------------------
(* The stock, once every intent reserves it (no legacy intents are left):      *)
(* the units of an order stay set aside and nobody gives back more than was    *)
(* taken, for any number of checkouts, workers, items, units and crashes, and  *)
(* however slow a handler is.                                                  *)

\* Something entitles checkout c to its units of item i: an order, its own
\* request, an intent that is not expired, or a sweep yet to give them back.
Secured(c, i) ==
    \/ order[c]
    \/ req[c].pc \in {"held", "insert", "effects", "done"}
    \/ req[c].pc = "reserve" /\ i \notin req[c].todo
    \/ req[c].pc \in {"rollback", "release"} /\ i \in req[c].todo
    \/ status[c] \in {"pending", "processing", "fulfilled"}
    \/ \E d \in Checkout :
          req[d].pc = "restore" /\ req[d].victim = c /\ i \in req[d].todo

\* Whatever is entitled to units finds them taken.
StockInv ==
    \A c \in Checkout, i \in Item :
        /\ taken[c][i] >= 0
        /\ Secured(c, i) => taken[c][i] >= Want[c][i]

Claimed == {"recheck", "prepare", "insert", "ledger", "effects", "mark"}
Unclaimed == {"idle", "validate", "find", "check", "claim", "refind"}

\* A worker past the claim found the stock reserved, so it never reserves or
\* refunds, and its intent is not for the sweep.
WorkerInv ==
    \A w \in Worker :
        /\ job[w].pc \in Claimed \union Unclaimed
        /\ job[w].pc \in Claimed =>
              job[w].had /\ status[job[w].of] \in {"processing", "fulfilled"}

\* What an intent and an order say of one another.
IntentInv ==
    \A c \in Checkout :
        /\ status[c] # "none" <=> req[c].pc = "open"
        /\ status[c] # "none" => reserved[c]
        /\ order[c] => IF c \in Online
                       THEN status[c] \in {"processing", "fulfilled"}
                       ELSE req[c].pc \in {"effects", "done", "dead"}

\* An expired intent is given back by the one sweep that expired it.
SweepInv ==
    /\ \A c \in Checkout :
          req[c].pc = "restore" => status[req[c].victim] = "expired"
    /\ \A c, d \in Checkout :
          /\ req[c].pc = "restore" /\ req[d].pc = "restore"
          /\ req[c].victim = req[d].victim
          => c = d

SetAside == WorkerInv /\ IntentInv /\ SweepInv /\ StockInv

FullInv == EffectsInv /\ SetAside

LEMMA InitSetAside == ASSUME Legacy = {}, Init PROVE SetAside
<1>1. WorkerInv
  BY DEF Init, WorkerInv, NoJob, Claimed, Unclaimed
<1>2. IntentInv /\ SweepInv
  BY DEF Init, IntentInv, SweepInv
<1>3. StockInv
  BY DEF Init, StockInv, Secured
<1> QED
  BY <1>1, <1>2, <1>3 DEF SetAside

-------------------------------------------------------------------------------
(* The three ways a step can touch the stock of a checkout *)

LEMMA StockKept ==
    ASSUME StockInv, UNCHANGED taken,
           \A c \in Checkout, i \in Item :
              Secured(c, i)' => Secured(c, i) \/ Want[c][i] = 0
    PROVE  StockInv'
<1> SUFFICES ASSUME NEW c \in Checkout, NEW i \in Item
             PROVE  /\ taken'[c][i] >= 0
                    /\ Secured(c, i)' => taken'[c][i] >= Want[c][i]
  BY DEF StockInv
<1> QED
  BY DEF StockInv

LEMMA StockTaken ==
    ASSUME StockInv, StockTyped, NEW c \in Checkout, NEW i \in Item,
           Decrement(c, i),
           \A d \in Checkout, j \in Item :
              (d # c \/ j # i) /\ Secured(d, j)' => Secured(d, j)
    PROVE  StockInv'
<1>1. Want[c][i] \in Nat
  BY StockAssumption
<1>2. taken[c][i] \in Int /\ taken[c][i] >= 0
  BY DEF StockTyped, StockInv
<1>3. \A d \in Checkout, j \in Item :
         taken'[d][j] = IF d = c /\ j = i THEN taken[c][i] + Want[c][i]
                        ELSE taken[d][j]
  BY DEF StockTyped, Decrement
<1>4. taken'[c][i] >= 0 /\ taken'[c][i] >= Want[c][i]
  BY <1>1, <1>2, <1>3
<1> SUFFICES ASSUME NEW d \in Checkout, NEW j \in Item
             PROVE  /\ taken'[d][j] >= 0
                    /\ Secured(d, j)' => taken'[d][j] >= Want[d][j]
  BY DEF StockInv
<1> QED
  BY <1>3, <1>4 DEF StockInv

LEMMA StockGivenBack ==
    ASSUME StockInv, StockTyped, NEW c \in Checkout, NEW i \in Item,
           Restore(c, i), Secured(c, i), ~Secured(c, i)',
           \A d \in Checkout, j \in Item : Secured(d, j)' => Secured(d, j)
    PROVE  StockInv'
<1>1. Want[c][i] \in Nat
  BY StockAssumption
<1>2. taken[c][i] \in Int /\ taken[c][i] >= Want[c][i]
  BY DEF StockTyped, StockInv
<1>3. \A d \in Checkout, j \in Item :
         taken'[d][j] = IF d = c /\ j = i THEN taken[c][i] - Want[c][i]
                        ELSE taken[d][j]
  BY DEF StockTyped, Restore
<1>4. taken'[c][i] >= 0
  BY <1>1, <1>2, <1>3
<1> SUFFICES ASSUME NEW d \in Checkout, NEW j \in Item
             PROVE  /\ taken'[d][j] >= 0
                    /\ Secured(d, j)' => taken'[d][j] >= Want[d][j]
  BY DEF StockInv
<1> QED
  BY <1>3, <1>4 DEF StockInv

-------------------------------------------------------------------------------
(* Requests *)

\* A request that leaves intents, orders and workers alone, and whose own
\* record neither opens nor starts to restore.
LEMMA RequestMoves ==
    ASSUME FullInv, TypeInv', NEW c \in Checkout,
           UNCHANGED <<status, reserved, order, job>>,
           \A d \in Checkout \ {c} :
              req'[d].pc = req[d].pc /\ req'[d].victim = req[d].victim,
           req[c].pc # "open", req'[c].pc # "open",
           req'[c].pc = "restore" =>
              req[c].pc = "restore" /\ req'[c].victim = req[c].victim,
           req[c].pc \in {"effects", "done", "dead"} =>
              req'[c].pc \in {"effects", "done", "dead"}
    PROVE  WorkerInv' /\ IntentInv' /\ SweepInv'
<1>1. WorkerInv'
  BY DEF FullInv, SetAside, WorkerInv
<1>2. IntentInv'
  BY DEF FullInv, SetAside, IntentInv
<1>3. SweepInv'
  <2>1. \A d \in Checkout : req'[d].pc = "restore" =>
           req[d].pc = "restore" /\ req'[d].victim = req[d].victim
    OBVIOUS
  <2> QED
    BY <2>1 DEF FullInv, SetAside, SweepInv
<1> QED
  BY <1>1, <1>2, <1>3

\* Before its intent exists, nothing but its own request holds a checkout's
\* units.
LEMMA OnlyItsRequest ==
    ASSUME FullInv, NEW c \in Checkout,
           req[c].pc \in {"reserve", "rollback", "release", "held"}
    PROVE  /\ ~order[c] /\ status[c] = "none"
           /\ \A d \in Checkout :
                 ~(req[d].pc = "restore" /\ req[d].victim = c)
BY DEF FullInv, SetAside, IntentInv, SweepInv

LEMMA RequestSetAside ==
    ASSUME FullInv, NEW c \in Checkout, RequestStep(c)
    PROVE  SetAside'
<1>0. /\ EffectsInv /\ TypeInv /\ ReqTyped /\ JobTyped /\ StockTyped
      /\ OtherTyped /\ Kinds /\ TypeInv'
      /\ WorkerInv /\ IntentInv /\ SweepInv /\ StockInv
  BY RequestTypes DEF FullInv, EffectsInv, TypeInv, SetAside
<1> USE <1>0 DEF SetAside, intentVars, orderVars
<1>1. CASE CreateOrder(c)
  <2>1. \A d \in Checkout :
           /\ req'[d].pc = IF d = c THEN "sweep" ELSE req[d].pc
           /\ req'[d].todo = req[d].todo /\ req'[d].victim = req[d].victim
    BY <1>1, CreateOrderMoves
  <2>2. /\ req[c].pc = "idle"
        /\ UNCHANGED <<taken, status, reserved, order, job>>
    BY <1>1 DEF CreateOrder
  <2>3. StockInv'
    BY <2>1, <2>2, StockKept DEF Secured
  <2> QED
    BY <2>1, <2>2, <2>3, RequestMoves
<1>2. CASE SweepNext(c)
  <2>1. \A d \in Checkout :
           /\ req'[d].pc = IF d = c THEN "sweep" ELSE req[d].pc
           /\ req'[d].todo = req[d].todo
           /\ d # c => req'[d].victim = req[d].victim
    BY <1>2, SweepNextMoves
  <2>2. /\ req[c].pc = "restore"
        /\ UNCHANGED <<taken, status, reserved, order, job>>
    BY <1>2 DEF SweepNext
  <2>3. StockInv'
    BY <2>1, <2>2, StockKept DEF Secured
  <2> QED
    BY <2>1, <2>2, <2>3, RequestMoves
<1>3. CASE StartReserve(c)
  <2>1. \A d \in Checkout :
           /\ req'[d].pc = IF d = c THEN "reserve" ELSE req[d].pc
           /\ req'[d].todo = IF d = c THEN Lines(c) ELSE req[d].todo
           /\ req'[d].victim = req[d].victim
    BY <1>3, GotoWithMoves DEF StartReserve
  <2>2. /\ req[c].pc \in {"sweep", "idle"}
        /\ UNCHANGED <<taken, status, reserved, order, job>>
    BY <1>3 DEF StartReserve
  <2>3. \A i \in Item : i \notin Lines(c) => Want[c][i] = 0
    BY StockAssumption DEF Lines
  <2>4. StockInv'
    BY <2>1, <2>2, <2>3, StockKept DEF Secured
  <2> QED
    BY <2>1, <2>2, <2>4, RequestMoves
<1>4. CASE Rejected(c)
  <2>1. \A d \in Checkout :
           /\ req'[d].pc = IF d = c THEN "rejected" ELSE req[d].pc
           /\ req'[d].todo = req[d].todo /\ req'[d].victim = req[d].victim
    BY <1>4, GotoMoves DEF Rejected
  <2>2. /\ req[c].pc \in {"rollback", "release"}
        /\ UNCHANGED <<taken, status, reserved, order, job>>
    BY <1>4 DEF Rejected
  <2>3. StockInv'
    BY <2>1, <2>2, StockKept DEF Secured
  <2> QED
    BY <2>1, <2>2, <2>3, RequestMoves
<1>5. CASE ReserveDone(c)
  <2>1. \A d \in Checkout :
           /\ req'[d].pc = IF d = c THEN IF c \in Online THEN "held"
                                         ELSE "insert"
                           ELSE req[d].pc
           /\ req'[d].todo = req[d].todo /\ req'[d].victim = req[d].victim
    BY <1>5, GotoMoves DEF ReserveDone
  <2>2. /\ req[c].pc = "reserve" /\ req[c].todo = {}
        /\ UNCHANGED <<taken, status, reserved, order, job>>
    BY <1>5 DEF ReserveDone
  <2>3. StockInv'
    BY <2>1, <2>2, StockKept DEF Secured
  <2> QED
    BY <2>1, <2>2, <2>3, RequestMoves
<1>6. CASE InsertIntent(c)
  <2>1. \A d \in Checkout :
           /\ req'[d].pc = IF d = c THEN "open" ELSE req[d].pc
           /\ req'[d].todo = req[d].todo /\ req'[d].victim = req[d].victim
    BY <1>6, GotoMoves DEF InsertIntent
  <2>2. /\ req[c].pc = "held"
        /\ \A d \in Checkout :
              /\ status'[d] = IF d = c THEN "pending" ELSE status[d]
              /\ reserved'[d] = IF d = c THEN TRUE ELSE reserved[d]
        /\ UNCHANGED <<taken, order, job>>
    BY <1>6 DEF InsertIntent, OtherTyped
  <2>3. /\ ~order[c] /\ status[c] = "none"
        /\ \A d \in Checkout : ~(req[d].pc = "restore" /\ req[d].victim = c)
    BY <2>2, OnlyItsRequest
  <2>4. StockInv'
    BY <2>1, <2>2, StockKept DEF Secured
  <2>5. WorkerInv'
    <3>1. \A w \in Worker : job[w].pc \in Claimed =>
             job[w].of \in Checkout \ {c}
      BY <2>3 DEF WorkerInv, JobTyped, Claimed
    <3> QED
      BY <2>2, <3>1 DEF WorkerInv
  <2>6. IntentInv'
    <3> SUFFICES ASSUME NEW d \in Checkout
                 PROVE /\ status'[d] # "none" <=> req'[d].pc = "open"
                       /\ status'[d] # "none" => reserved'[d]
                       /\ order'[d] =>
                            IF d \in Online
                            THEN status'[d] \in {"processing", "fulfilled"}
                            ELSE req'[d].pc \in {"effects", "done", "dead"}
      BY DEF IntentInv
    <3>1. CASE d = c
      BY <2>1, <2>2, <2>3, <3>1
    <3>2. CASE d # c
      BY <2>1, <2>2, <3>2 DEF IntentInv
    <3> QED
      BY <3>1, <3>2
  <2>7. SweepInv'
    <3>1. \A d \in Checkout : req'[d].pc = "restore" =>
             /\ req[d].pc = "restore" /\ req'[d].victim = req[d].victim
             /\ req[d].victim \in Checkout \ {c}
      BY <2>1, <2>3 DEF ReqTyped
    <3>2. \A d \in Checkout :
             req'[d].pc = "restore" => status'[req'[d].victim] = "expired"
      <4> SUFFICES ASSUME NEW d \in Checkout, req'[d].pc = "restore"
                   PROVE  status'[req'[d].victim] = "expired"
        OBVIOUS
      <4>1. status[req[d].victim] = "expired"
        BY <3>1 DEF SweepInv
      <4> QED
        BY <2>2, <3>1, <4>1
    <3> QED
      BY <3>1, <3>2 DEF SweepInv
  <2> QED
    BY <2>4, <2>5, <2>6, <2>7
<1>7. CASE InsertIntentFails(c)
  <2>1. \A d \in Checkout :
           /\ req'[d].pc = IF d = c THEN "release" ELSE req[d].pc
           /\ req'[d].todo = IF d = c THEN Lines(c) ELSE req[d].todo
           /\ req'[d].victim = req[d].victim
    BY <1>7, GotoWithMoves DEF InsertIntentFails
  <2>2. /\ req[c].pc = "held"
        /\ UNCHANGED <<taken, status, reserved, order, job>>
    BY <1>7 DEF InsertIntentFails
  <2>3. StockInv'
    BY <2>1, <2>2, StockKept DEF Secured
  <2> QED
    BY <2>1, <2>2, <2>3, RequestMoves
<1>8. CASE InsertCodOrder(c)
  <2>1. \A d \in Checkout :
           /\ req'[d].pc = IF d = c THEN "effects" ELSE req[d].pc
           /\ req'[d].todo = req[d].todo /\ req'[d].victim = req[d].victim
    BY <1>8, GotoMoves DEF InsertCodOrder
  <2>2. /\ req[c].pc = "insert" /\ c \notin Online
        /\ \A d \in Checkout : order'[d] <=> (d = c \/ order[d])
        /\ UNCHANGED <<taken, status, reserved, job>>
    BY <1>8, CheckoutAssumption DEF InsertCodOrder, OtherTyped, Kinds
  <2>3. StockInv'
    BY <2>1, <2>2, StockKept DEF Secured
  <2>4. WorkerInv' /\ IntentInv'
    BY <2>1, <2>2 DEF WorkerInv, IntentInv
  <2>5. SweepInv'
    BY <2>1, <2>2 DEF SweepInv
  <2> QED
    BY <2>3, <2>4, <2>5
<1>9. CASE CodSideEffects(c)
  <2>1. \A d \in Checkout :
           /\ req'[d].pc = IF d = c THEN "done" ELSE req[d].pc
           /\ req'[d].todo = req[d].todo /\ req'[d].victim = req[d].victim
    BY <1>9, GotoMoves DEF CodSideEffects
  <2>2. /\ req[c].pc = "effects"
        /\ UNCHANGED <<taken, status, reserved, order, job>>
    BY <1>9 DEF CodSideEffects
  <2>3. StockInv'
    BY <2>1, <2>2, StockKept DEF Secured
  <2> QED
    BY <2>1, <2>2, <2>3, RequestMoves
<1>10. ASSUME NEW v \in Checkout, SweepOne(c, v) PROVE SetAside'
  <2>1. /\ req[c].pc = "sweep" /\ UNCHANGED <<taken, reserved, order, job>>
        /\ \A d \in Checkout \ {c} : req'[d] = req[d]
    BY <1>10, SweepOneMoves DEF SweepOne
  <2>2. CASE ~ExpireGuard(v)
    <3>1. req'[c].pc = "sweep" /\ UNCHANGED status
      BY <1>10, <2>2, SweepOneMoves DEF SweepOne
    <3>2. StockInv'
      BY <2>1, <3>1, StockKept DEF Secured
    <3> QED
      BY <2>1, <3>1, <3>2, RequestMoves
  <2>3. CASE ExpireGuard(v)
    <3>1. /\ req'[c].pc = "restore" /\ req'[c].todo = Lines(v)
          /\ req'[c].victim = v
      BY <1>10, <2>3, SweepOneMoves
    <3>2. /\ status[v] = "pending"
          /\ \A d \in Checkout :
                status'[d] = IF d = v THEN "expired" ELSE status[d]
      BY <1>10, <2>3 DEF SweepOne, ExpireGuard, OtherTyped
    <3>3. v # c /\ req[v].pc = "open" /\ v \in Online
      BY <2>1, <3>2 DEF IntentInv, Kinds
    <3>4. StockInv'
      <4>1. \A d \in Checkout, i \in Item : Secured(d, i)' => Secured(d, i)
        BY <2>1, <3>1, <3>2, <3>3 DEF Secured
      <4> QED
        BY <2>1, <4>1, StockKept
    <3>5. WorkerInv'
      BY <2>1, <3>2 DEF WorkerInv, JobTyped, Claimed
    <3>6. IntentInv'
      BY <2>1, <3>1, <3>2, <3>3 DEF IntentInv
    <3>7. SweepInv'
      BY <2>1, <3>1, <3>2 DEF SweepInv, ReqTyped
    <3> QED
      BY <3>4, <3>5, <3>6, <3>7
  <2> QED
    BY <2>2, <2>3
<1>11. ASSUME NEW i \in Item, SweepRestore(c, i) PROVE SetAside'
  <2>0. PICK v \in Checkout : v = req[c].victim
    BY <1>11 DEF SweepRestore, ReqTyped
  <2>1. \A d \in Checkout :
           /\ req'[d].pc = req[d].pc
           /\ req'[d].todo = IF d = c THEN req[d].todo \ {i} ELSE req[d].todo
           /\ req'[d].victim = req[d].victim
    BY <1>11, ReqTodoMoves DEF SweepRestore
  <2>2. /\ req[c].pc = "restore" /\ i \in req[c].todo
        /\ Restore(v, i) /\ UNCHANGED <<status, reserved, order, job>>
    BY <1>11, <2>0 DEF SweepRestore
  <2>3. status[v] = "expired" /\ req[v].pc = "open" /\ v \in Online /\ ~order[v]
    BY <2>0, <2>2 DEF SweepInv, IntentInv, Kinds
  <2>4. Secured(v, i)
    BY <2>0, <2>2 DEF Secured
  <2>5. ~Secured(v, i)'
    BY <2>0, <2>1, <2>2, <2>3 DEF Secured, SweepInv
  <2>6. \A d \in Checkout, j \in Item : Secured(d, j)' => Secured(d, j)
    BY <2>1, <2>2 DEF Secured
  <2>7. StockInv'
    BY <2>2, <2>4, <2>5, <2>6, StockGivenBack
  <2> QED
    BY <2>1, <2>2, <2>7, RequestMoves
<1>12. ASSUME NEW i \in Item, ReserveLine(c, i) PROVE SetAside'
  <2>1. \A d \in Checkout :
           /\ req'[d].pc = req[d].pc
           /\ req'[d].todo = IF d = c THEN req[d].todo \ {i} ELSE req[d].todo
           /\ req'[d].victim = req[d].victim
    BY <1>12, ReqTodoMoves DEF ReserveLine
  <2>2. /\ req[c].pc = "reserve" /\ Decrement(c, i)
        /\ UNCHANGED <<status, reserved, order, job>>
    BY <1>12 DEF ReserveLine, TakeLine
  <2>3. \A d \in Checkout, j \in Item :
           (d # c \/ j # i) /\ Secured(d, j)' => Secured(d, j)
    BY <2>1, <2>2 DEF Secured
  <2>4. StockInv'
    BY <2>2, <2>3, StockTaken
  <2> QED
    BY <2>1, <2>2, <2>4, RequestMoves
<1>13. ASSUME NEW i \in Item, ReserveFails(c, i) PROVE SetAside'
  <2>1. \A d \in Checkout :
           /\ req'[d].pc = IF d = c THEN "rollback" ELSE req[d].pc
           /\ req'[d].todo = IF d = c THEN TakenBefore(c, req[c].todo)
                             ELSE req[d].todo
           /\ req'[d].victim = req[d].victim
    BY <1>13, GotoWithMoves DEF ReserveFails
  <2>2. /\ req[c].pc = "reserve"
        /\ UNCHANGED <<taken, status, reserved, order, job>>
    BY <1>13 DEF ReserveFails
  <2>3. StockInv'
    BY <2>1, <2>2, StockKept DEF Secured, TakenBefore
  <2> QED
    BY <2>1, <2>2, <2>3, RequestMoves
<1>14. ASSUME NEW i \in Item, GiveBackLine(c, i) PROVE SetAside'
  <2>1. \A d \in Checkout :
           /\ req'[d].pc = req[d].pc
           /\ req'[d].todo = IF d = c THEN req[d].todo \ {i} ELSE req[d].todo
           /\ req'[d].victim = req[d].victim
    BY <1>14, ReqTodoMoves DEF GiveBackLine
  <2>2. /\ req[c].pc \in {"rollback", "release"} /\ i \in req[c].todo
        /\ Restore(c, i) /\ UNCHANGED <<status, reserved, order, job>>
    BY <1>14 DEF GiveBackLine
  <2>3. /\ ~order[c] /\ status[c] = "none"
        /\ \A d \in Checkout : ~(req[d].pc = "restore" /\ req[d].victim = c)
    BY <2>2, OnlyItsRequest
  <2>4. Secured(c, i) /\ ~Secured(c, i)'
    BY <2>1, <2>2, <2>3 DEF Secured
  <2>5. \A d \in Checkout, j \in Item : Secured(d, j)' => Secured(d, j)
    BY <2>1, <2>2 DEF Secured
  <2>6. StockInv'
    BY <2>2, <2>4, <2>5, StockGivenBack
  <2> QED
    BY <2>1, <2>2, <2>6, RequestMoves
<1> QED
  BY <1>1, <1>2, <1>3, <1>4, <1>5, <1>6, <1>7, <1>8, <1>9, <1>10, <1>11,
     <1>12, <1>13, <1>14 DEF RequestStep

-------------------------------------------------------------------------------
(* Workers *)

\* A worker that only moves on, on its side of the claim.
LEMMA WorkerMoves ==
    ASSUME FullInv, NEW w \in Worker,
           UNCHANGED <<taken, req, status, reserved, order>>,
           \A v \in Worker \ {w} : /\ job'[v].pc = job[v].pc
                                   /\ job'[v].of = job[v].of
                                   /\ job'[v].had = job[v].had,
           \/ job'[w].pc \in Unclaimed
           \/ /\ job[w].pc \in Claimed /\ job'[w].pc \in Claimed
              /\ job'[w].of = job[w].of /\ job'[w].had = job[w].had
    PROVE  SetAside'
<1>1. WorkerInv'
  BY DEF FullInv, SetAside, WorkerInv, Claimed, Unclaimed
<1>2. IntentInv' /\ SweepInv' /\ StockInv'
  BY DEF FullInv, SetAside, IntentInv, SweepInv, StockInv, Secured
<1> QED
  BY <1>1, <1>2 DEF SetAside

LEMMA WorkerSetAside ==
    ASSUME Legacy = {}, FullInv, NEW w \in Worker, WorkerStep(w)
    PROVE  SetAside'
<1>0. /\ EffectsInv /\ TypeInv /\ ReqTyped /\ JobTyped /\ StockTyped
      /\ OtherTyped /\ Kinds /\ TypeInv'
      /\ WorkerInv /\ IntentInv /\ SweepInv /\ StockInv
  BY WorkerTypes DEF FullInv, EffectsInv, TypeInv, SetAside
<1>o. ~At(w, "idle") => job[w].of \in Online /\ job[w].of \in Checkout
  BY <1>0 DEF Kinds, At, Checkout
<1>p. job[w].pc \in Claimed =>
         job[w].had /\ status[job[w].of] \in {"processing", "fulfilled"}
  BY <1>0 DEF WorkerInv
<1>q. job[w].pc \in Claimed \union Unclaimed
  BY <1>0 DEF WorkerInv
<1> USE <1>0 DEF intentVars, orderVars, At
<1>1. CASE Validate(w)
  BY <1>1, StepMoves, AnswerMoves, WorkerMoves DEF Validate, Unclaimed
<1>2. CASE FindExisting(w)
  BY <1>2, StepMoves, AnswerMoves, WorkerMoves DEF FindExisting, Unclaimed
<1>3. CASE CheckIntent(w)
  BY <1>3, StepMoves, AnswerMoves, WorkerMoves DEF CheckIntent, Unclaimed
<1>4. CASE Claim(w)
  <2> DEFINE c == job[w].of
  <2>1. /\ UNCHANGED <<taken, req, reserved, order>> /\ c \in Checkout
        /\ \A v \in Worker : job'[v].of = job[v].of
        /\ \A v \in Worker \ {w} : job'[v] = job[v]
    BY <1>4, <1>o, ClaimMoves DEF Claim
  <2>2. CASE ~Claimable(c)
    <3>1. job'[w].pc = "refind" /\ UNCHANGED status
      BY <1>4, <2>2, ClaimMoves DEF Claim
    <3> QED
      BY <2>1, <3>1, WorkerMoves DEF Unclaimed
  <2>3. CASE Claimable(c)
    <3>1. /\ status[c] \in {"pending", "processing"}
          /\ \A d \in Checkout :
                status'[d] = IF d = c THEN "processing" ELSE status[d]
      BY <1>4, <2>1, <2>3 DEF Claim, Claimable, OtherTyped
    <3>2. job'[w].pc = "recheck" /\ job'[w].had = reserved[c]
      BY <1>4, <2>3 DEF Claim, JobTyped, Job
    <3>3. reserved[c]
      BY <2>1, <3>1 DEF IntentInv
    <3>4. WorkerInv'
      <4>1. \A v \in Worker \ {w} : job'[v].pc \in Claimed =>
               /\ job[v].of \in Checkout /\ job[v].had
               /\ status[job[v].of] \in {"processing", "fulfilled"}
        BY <2>1 DEF WorkerInv, JobTyped, Claimed
      <4>2. \A v \in Worker \ {w} :
               /\ job'[v].pc \in Claimed \union Unclaimed
               /\ job'[v].pc \in Claimed => job'[v].had
                    /\ status'[job'[v].of] \in {"processing", "fulfilled"}
        BY <2>1, <3>1, <4>1 DEF WorkerInv
      <4>3. /\ job'[w].pc \in Claimed \union Unclaimed /\ job'[w].had
            /\ status'[job'[w].of] \in {"processing", "fulfilled"}
        BY <2>1, <3>1, <3>2, <3>3 DEF Claimed
      <4> QED
        BY <4>2, <4>3 DEF WorkerInv
    <3>5. IntentInv'
      BY <2>1, <3>1 DEF IntentInv, Kinds
    <3>6. SweepInv'
      BY <2>1, <3>1 DEF SweepInv, ReqTyped
    <3>7. StockInv'
      BY <2>1, <3>1, StockKept DEF Secured
    <3> QED
      BY <3>4, <3>5, <3>6, <3>7 DEF SetAside
  <2> QED
    BY <2>2, <2>3
<1>5. CASE Refind(w)
  BY <1>5, AnswerMoves, WorkerMoves DEF Refind, Unclaimed
<1>6. CASE Recheck(w)
  BY <1>6, StepMoves, WorkerMoves DEF Recheck, Claimed
<1>7. CASE Prepare(w)
  <2>1. job[w].had
    BY <1>7, <1>p DEF Prepare, Claimed
  <2>2. Step(w, "insert") /\ job[w].pc = "prepare"
        /\ UNCHANGED <<taken, req, status, reserved, order>>
    BY <1>7, <2>1 DEF Prepare
  <2> QED
    BY <2>2, StepMoves, WorkerMoves DEF Claimed
<1>8. CASE \/ PaidRollbackDone(w) \/ PaidReserveDone(w) \/ FlagReserved(w)
           \/ Refund(w) \/ MarkRefunded(w)
           \/ \E i \in Item : \/ PaidReserveLine(w, i) \/ PaidReserveFails(w, i)
                              \/ PaidGiveBack(w, i)
  BY <1>8, <1>q
     DEF PaidRollbackDone, PaidReserveDone, FlagReserved, Refund, MarkRefunded,
         PaidReserveLine, PaidReserveFails, PaidGiveBack, Claimed, Unclaimed
<1>9. CASE InsertOrder(w)
  <2> DEFINE c == job[w].of
  <2>1. CASE Duplicate(c)
    BY <1>9, <2>1, AnswerMoves, WorkerMoves DEF InsertOrder, Unclaimed
  <2>2. CASE ~Duplicate(c)
    <3>1. /\ c \in Online /\ c \in Checkout
          /\ status[c] \in {"processing", "fulfilled"}
          /\ job[w].had /\ job[w].pc = "insert"
      BY <1>9, <1>o, <1>p DEF InsertOrder, Claimed
    <3>2. /\ UNCHANGED <<taken, req, status, reserved>>
          /\ \A d \in Checkout : order'[d] <=> (d = c \/ order[d])
          /\ \A v \in Worker :
                /\ job'[v].pc = IF v = w THEN "ledger" ELSE job[v].pc
                /\ job'[v].of = job[v].of /\ job'[v].had = job[v].had
      BY <1>9, <2>2, <3>1, StepMoves DEF InsertOrder, OtherTyped
    <3>3. WorkerInv'
      BY <3>1, <3>2 DEF WorkerInv, Claimed
    <3>4. IntentInv'
      BY <3>1, <3>2 DEF IntentInv
    <3>5. SweepInv'
      BY <3>2 DEF SweepInv
    <3>6. StockInv'
      BY <3>1, <3>2, StockKept DEF Secured
    <3> QED
      BY <3>3, <3>4, <3>5, <3>6 DEF SetAside
  <2> QED
    BY <2>1, <2>2
<1>10. CASE RecordLedger(w)
  BY <1>10, StepMoves, WorkerMoves DEF RecordLedger, Claimed
<1>11. CASE SideEffects(w)
  BY <1>11, StepMoves, WorkerMoves DEF SideEffects, Claimed
<1>12. CASE MarkFulfilled(w)
  <2> DEFINE c == job[w].of
  <2>1. /\ c \in Online /\ c \in Checkout
        /\ status[c] \in {"processing", "fulfilled"}
    BY <1>12, <1>o, <1>p DEF MarkFulfilled, Claimed
  <2>2. /\ UNCHANGED <<taken, req, reserved, order>>
        /\ \A d \in Checkout :
              status'[d] = IF d = c THEN "fulfilled" ELSE status[d]
        /\ job'[w].pc = "idle"
        /\ \A v \in Worker \ {w} : job'[v] = job[v]
    BY <1>12, <2>1, AnswerMoves DEF MarkFulfilled, OtherTyped
  <2>3. WorkerInv'
    BY <2>2 DEF WorkerInv, JobTyped, Claimed, Unclaimed
  <2>4. IntentInv'
    BY <2>1, <2>2 DEF IntentInv
  <2>5. SweepInv'
    BY <2>1, <2>2 DEF SweepInv, ReqTyped
  <2>6. StockInv'
    BY <2>1, <2>2, StockKept DEF Secured
  <2> QED
    BY <2>3, <2>4, <2>5, <2>6 DEF SetAside
<1> QED
  BY <1>1, <1>2, <1>3, <1>4, <1>5, <1>6, <1>7, <1>8, <1>9, <1>10, <1>11,
     <1>12 DEF WorkerStep

-------------------------------------------------------------------------------
(* Everything else, and the theorems *)

LEMMA EnvironmentSetAside ==
    ASSUME FullInv, Environment
    PROVE  SetAside'
<1>0. /\ EffectsInv /\ TypeInv /\ ReqTyped /\ JobTyped /\ TypeInv'
      /\ WorkerInv /\ IntentInv /\ SweepInv /\ StockInv
  BY EnvironmentTypes DEF FullInv, EffectsInv, TypeInv, SetAside
<1> USE <1>0 DEF orderVars, intentVars
<1>1. ASSUME NEW c \in Checkout, Pay(c) \/ Abandon(c) \/ ClaimAges(c)
      PROVE  SetAside'
  <2>1. UNCHANGED <<taken, req, status, reserved, order, job>>
    BY <1>1 DEF Pay, Abandon, ClaimAges
  <2> QED
    BY <2>1 DEF SetAside, WorkerInv, IntentInv, SweepInv, StockInv, Secured
<1>2. ASSUME NEW c \in Checkout, CrashRequest(c) PROVE SetAside'
  <2>1. Goto(c, "dead") /\ req[c].pc # "open"
        /\ UNCHANGED <<taken, status, reserved, order, job>>
    BY <1>2 DEF CrashRequest, Goto
  <2>2. \A d \in Checkout :
           /\ req'[d].pc = IF d = c THEN "dead" ELSE req[d].pc
           /\ req'[d].todo = req[d].todo /\ req'[d].victim = req[d].victim
    BY <2>1, GotoMoves
  <2>3. StockInv'
    BY <2>1, <2>2, StockKept DEF Secured
  <2> QED
    BY <2>1, <2>2, <2>3, RequestMoves DEF SetAside
<1>3. ASSUME NEW w \in Worker, CrashWorker(w) PROVE SetAside'
  BY <1>3, AnswerMoves, WorkerMoves DEF CrashWorker, Unclaimed
<1>4. ASSUME NEW w \in Worker, NEW c \in Checkout, Deliver(w, c)
      PROVE  SetAside'
  <2>1. /\ job'[w].pc = "validate"
        /\ \A v \in Worker \ {w} : job'[v] = job[v]
    BY <1>4, DeliverMoves
  <2> QED
    BY <1>4, <2>1, WorkerMoves DEF Deliver, Unclaimed
<1> QED
  BY <1>1, <1>2, <1>3, <1>4 DEF Environment

LEMMA AlwaysSetAside ==
    ASSUME Legacy = {}
    PROVE  Spec => []FullInv
<1>1. Init => FullInv
  BY InitEffects, InitSetAside DEF FullInv
<1>2. FullInv /\ [Next]_vars => FullInv'
  <2> SUFFICES ASSUME FullInv, [Next]_vars PROVE FullInv'
    OBVIOUS
  <2>1. EffectsInv'
    BY EffectsStep DEF FullInv
  <2>2. SetAside'
    <3>1. CASE UNCHANGED vars
      BY <3>1
         DEF vars, FullInv, SetAside, WorkerInv, IntentInv, SweepInv, StockInv,
             Secured
    <3> QED
      BY <3>1, RequestSetAside, WorkerSetAside, EnvironmentSetAside DEF Next
  <2> QED
    BY <2>1, <2>2 DEF FullInv
<1> QED
  BY <1>1, <1>2, PTL DEF Spec

\* An order's stock stays set aside: no sweep, rollback or release gives back
\* the units of a checkout that became an order.
THEOREM OrdersStayBacked ==
    ASSUME Legacy = {}
    PROVE  Spec => []OrderBacked
<1>1. FullInv => OrderBacked
  BY DEF FullInv, SetAside, StockInv, Secured, OrderBacked
<1> QED
  BY <1>1, AlwaysSetAside, PTL

\* Nobody gives back more of a checkout's units than were taken for it.
THEOREM NeverOverReleased ==
    ASSUME Legacy = {}
    PROVE  Spec => []NoOverRelease
<1>1. FullInv => NoOverRelease
  BY DEF FullInv, SetAside, StockInv, NoOverRelease
<1> QED
  BY <1>1, AlwaysSetAside, PTL

-------------------------------------------------------------------------------
(* Units are conserved: what is not on the shelf is with a checkout            *)

\* The units of item i that the checkouts took, one by one.
Out(i) == {p \in Checkout \X Nat : 1 <= p[2] /\ p[2] <= taken[p[1]][i]}

Conserved ==
    \A i \in Item :
        /\ IsFiniteSet(Out(i))
        /\ stock[i] + Cardinality(Out(i)) = InitialStock[i]

\* The units after the m-th up to the n-th of one checkout.
Block(c, m, n) == {p \in {c} \X Nat : m < p[2] /\ p[2] <= n}

LEMMA BlockSize ==
    ASSUME NEW c, NEW m \in Nat, NEW n \in Nat, m <= n
    PROVE  IsFiniteSet(Block(c, m, n)) /\ Cardinality(Block(c, m, n)) = n - m
<1> DEFINE f == [k \in (m + 1)..n |-> <<c, k>>]
<1>1. f \in Bijection((m + 1)..n, Block(c, m, n))
  <2>1. f \in [(m + 1)..n -> Block(c, m, n)]
    BY DEF Block
  <2>2. \A j, k \in (m + 1)..n : f[j] = f[k] => j = k
    OBVIOUS
  <2>3. \A p \in Block(c, m, n) : \E k \in (m + 1)..n : f[k] = p
    <3> SUFFICES ASSUME NEW p \in Block(c, m, n)
                 PROVE  \E k \in (m + 1)..n : f[k] = p
      OBVIOUS
    <3>1. p[2] \in (m + 1)..n /\ p = <<c, p[2]>>
      BY DEF Block
    <3> QED
      BY <3>1
  <2> QED
    BY <2>1, <2>2, <2>3, Fun_IsBij
<1>2. ExistsBijection((m + 1)..n, Block(c, m, n))
  BY <1>1 DEF ExistsBijection
<1>3. IsFiniteSet((m + 1)..n) /\ Cardinality((m + 1)..n) = n - m
  <2>1. m + 1 \in Int /\ n \in Int
    OBVIOUS
  <2>2. /\ IsFiniteSet((m + 1)..n)
        /\ Cardinality((m + 1)..n) = IF m + 1 > n THEN 0 ELSE n - (m + 1) + 1
    BY <2>1, FS_Interval
  <2> QED
    BY <2>2
<1> QED
  BY <1>2, <1>3, FS_Bijection

\* A set that grows by a block it did not have.
LEMMA BlockAdded ==
    ASSUME NEW S, IsFiniteSet(S), NEW c, NEW m \in Nat, NEW n \in Nat, m <= n,
           S \intersect Block(c, m, n) = {}
    PROVE  /\ IsFiniteSet(S \union Block(c, m, n))
           /\ Cardinality(S \union Block(c, m, n)) = Cardinality(S) + (n - m)
<1>1. IsFiniteSet(Block(c, m, n)) /\ Cardinality(Block(c, m, n)) = n - m
  BY BlockSize
<1>2. Cardinality(S) \in Nat
  BY FS_CardinalityType
<1>3. /\ IsFiniteSet(S \union Block(c, m, n))
      /\ Cardinality(S \union Block(c, m, n)) =
            Cardinality(S) + Cardinality(Block(c, m, n))
              - Cardinality(S \intersect Block(c, m, n))
  BY <1>1, FS_Union
<1>4. Cardinality(S \intersect Block(c, m, n)) = 0
  BY FS_EmptySet
<1> QED
  BY <1>1, <1>2, <1>3, <1>4

\* Every step takes one line, gives one back, or leaves the stock alone.
StockMoves ==
    \/ UNCHANGED <<stock, taken>>
    \/ \E c \in Checkout, i \in Item : Decrement(c, i) \/ Restore(c, i)

LEMMA OneStockMove == TypeInv /\ [Next]_vars => StockMoves
<1> SUFFICES ASSUME TypeInv, [Next]_vars PROVE StockMoves
  OBVIOUS
<1>0. ReqTyped /\ JobTyped
  BY DEF TypeInv
<1>1. CASE UNCHANGED vars
  BY <1>1 DEF vars, StockMoves
<1>2. ASSUME NEW c \in Checkout, RequestStep(c) PROVE StockMoves
  <2>1. ASSUME NEW i \in Item, SweepRestore(c, i) PROVE StockMoves
    <3>1. req[c].victim \in Checkout /\ Restore(req[c].victim, i)
      BY <1>0, <2>1 DEF SweepRestore, ReqTyped
    <3> QED
      BY <3>1 DEF StockMoves
  <2>2. ASSUME NEW i \in Item, ReserveLine(c, i) \/ GiveBackLine(c, i)
        PROVE  StockMoves
    BY <2>2 DEF ReserveLine, TakeLine, GiveBackLine, StockMoves
  <2>3. CASE \/ CreateOrder(c) \/ SweepNext(c) \/ StartReserve(c) \/ Rejected(c)
             \/ ReserveDone(c) \/ InsertIntent(c) \/ InsertIntentFails(c)
             \/ InsertCodOrder(c) \/ CodSideEffects(c)
    BY <2>3 DEF CreateOrder, SweepNext, StartReserve, Rejected, ReserveDone,
                InsertIntent, InsertIntentFails, InsertCodOrder, CodSideEffects,
                StockMoves
  <2>4. CASE (\E d \in Checkout : SweepOne(c, d)) \/ \E i \in Item : ReserveFails(c, i)
    BY <2>4 DEF SweepOne, ReserveFails, StockMoves
  <2> QED
    BY <1>2, <2>1, <2>2, <2>3, <2>4 DEF RequestStep
<1>3. ASSUME NEW w \in Worker, WorkerStep(w) PROVE StockMoves
  <2>1. ASSUME NEW i \in Item, PaidReserveLine(w, i) \/ PaidGiveBack(w, i)
        PROVE  StockMoves
    <3>1. job[w].of \in Checkout
          /\ (Decrement(job[w].of, i) \/ Restore(job[w].of, i))
      BY <1>0, <2>1 DEF PaidReserveLine, TakeLine, PaidGiveBack, At, JobTyped
    <3> QED
      BY <3>1 DEF StockMoves
  <2>2. CASE \/ Validate(w) \/ FindExisting(w) \/ CheckIntent(w) \/ Claim(w)
             \/ Refind(w) \/ Recheck(w) \/ Prepare(w) \/ PaidRollbackDone(w)
             \/ PaidReserveDone(w) \/ FlagReserved(w) \/ Refund(w)
             \/ MarkRefunded(w) \/ InsertOrder(w) \/ RecordLedger(w)
             \/ SideEffects(w) \/ MarkFulfilled(w)
             \/ \E i \in Item : PaidReserveFails(w, i)
    BY <2>2
       DEF Validate, FindExisting, CheckIntent, Claim, Refind, Recheck, Prepare,
           PaidRollbackDone, PaidReserveDone, FlagReserved, Refund, MarkRefunded,
           InsertOrder, RecordLedger, SideEffects, MarkFulfilled, PaidReserveFails,
           StockMoves
  <2> QED
    BY <1>3, <2>1, <2>2 DEF WorkerStep
<1>4. CASE Environment
  BY <1>4 DEF Environment, Pay, Abandon, ClaimAges, CrashRequest, CrashWorker,
              Deliver, StockMoves
<1> QED
  BY <1>1, <1>2, <1>3, <1>4 DEF Next

LEMMA ConservedStep ==
    FullInv /\ FullInv' /\ Conserved /\ [Next]_vars => Conserved'
<1> SUFFICES ASSUME FullInv, FullInv', Conserved, [Next]_vars PROVE Conserved'
  OBVIOUS
<1>0. /\ TypeInv /\ StockTyped /\ StockTyped'
      /\ \A c \in Checkout, i \in Item : taken[c][i] \in Nat /\ taken'[c][i] \in Nat
  BY DEF FullInv, EffectsInv, TypeInv, StockTyped, SetAside, StockInv
<1>1. StockMoves
  BY <1>0, OneStockMove
<1>2. CASE UNCHANGED <<stock, taken>>
  BY <1>2 DEF Conserved, Out
<1>3. ASSUME NEW c \in Checkout, NEW i \in Item, Decrement(c, i)
      PROVE  Conserved'
  <2>1. Want[c][i] \in Nat
    BY StockAssumption
  <2>2. /\ \A j \in Item : stock'[j] = IF j = i THEN stock[i] - Want[c][i] ELSE stock[j]
        /\ \A d \in Checkout, j \in Item :
              taken'[d][j] = IF d = c /\ j = i THEN taken[c][i] + Want[c][i]
                             ELSE taken[d][j]
    BY <1>0, <1>3 DEF StockTyped, Decrement
  <2>m. PICK m \in Nat : m = taken[c][i]
    BY <1>0
  <2> DEFINE B == Block(c, m, m + Want[c][i])
  <2>3. Out(i)' = Out(i) \union B /\ Out(i) \intersect B = {}
    BY <1>0, <2>1, <2>2, <2>m DEF Out, Block
  <2>4. /\ IsFiniteSet(Out(i)')
        /\ Cardinality(Out(i)') = Cardinality(Out(i)) + Want[c][i]
    <3>1. m + Want[c][i] \in Nat /\ m <= m + Want[c][i]
          /\ (m + Want[c][i]) - m = Want[c][i]
      BY <2>1
    <3>2. IsFiniteSet(Out(i))
      BY DEF Conserved
    <3> HIDE DEF Out
    <3>3. PICK S : S = Out(i)
      OBVIOUS
    <3>4. S \intersect B = {} /\ IsFiniteSet(S)
      BY <2>3, <3>2, <3>3
    <3>5. PICK n \in Nat : n = m + Want[c][i]
      BY <3>1
    <3>6. /\ m <= n /\ n - m = Want[c][i] /\ B = Block(c, m, n)
          /\ S \intersect Block(c, m, n) = {}
      BY <3>1, <3>4, <3>5
    <3> HIDE DEF B
    <3>7. /\ IsFiniteSet(S \union Block(c, m, n))
          /\ Cardinality(S \union Block(c, m, n)) = Cardinality(S) + (n - m)
      <4>1. IsFiniteSet(S)
        BY <3>4
      <4> QED
        BY ONLY <3>6, <4>1, BlockAdded, m \in Nat, n \in Nat
    <3> QED
      BY <2>3, <3>3, <3>6, <3>7
  <2>5. stock[i] \in Nat /\ Cardinality(Out(i)) \in Nat
    BY <1>0, FS_CardinalityType DEF StockTyped, Conserved
  <2>6. stock'[i] + Cardinality(Out(i)') = InitialStock[i]
    <3>1. stock[i] + Cardinality(Out(i)) = InitialStock[i]
      BY DEF Conserved
    <3>2. stock'[i] = stock[i] - Want[c][i]
      BY <2>2
    <3> HIDE DEF Out
    <3> QED
      BY <2>1, <2>4, <2>5, <3>1, <3>2
  <2>7. \A j \in Item \ {i} : Out(j)' = Out(j) /\ stock'[j] = stock[j]
    BY <2>2 DEF Out
  <2> HIDE DEF Out
  <2> QED
    BY <2>4, <2>6, <2>7 DEF Conserved
<1>4. ASSUME NEW c \in Checkout, NEW i \in Item, Restore(c, i)
      PROVE  Conserved'
  <2>1. Want[c][i] \in Nat
    BY StockAssumption
  <2>2. /\ \A j \in Item : stock'[j] = IF j = i THEN stock[i] + Want[c][i] ELSE stock[j]
        /\ \A d \in Checkout, j \in Item :
              taken'[d][j] = IF d = c /\ j = i THEN taken[c][i] - Want[c][i]
                             ELSE taken[d][j]
    BY <1>0, <1>4 DEF StockTyped, Restore
  <2>a. PICK n \in Nat : n = taken[c][i] - Want[c][i]
    BY <1>0, <2>2
  <2>b. taken[c][i] = n + Want[c][i] /\ taken'[c][i] = n
    BY <1>0, <2>1, <2>2, <2>a
  <2> DEFINE B == Block(c, n, n + Want[c][i])
  <2>3. Out(i) = Out(i)' \union B /\ Out(i)' \intersect B = {}
    BY <1>0, <2>1, <2>2, <2>b DEF Out, Block
  <2>4. IsFiniteSet(Out(i)')
    BY <2>3, FS_Subset DEF Conserved
  <2>5. Cardinality(Out(i)) = Cardinality(Out(i)') + Want[c][i]
    <3>1. PICK k \in Nat : k = n + Want[c][i]
      BY <2>1
    <3>2. PICK S : S = Out(i)'
      OBVIOUS
    <3>3. /\ n <= k /\ k - n = Want[c][i]
          /\ S \intersect Block(c, n, k) = {} /\ IsFiniteSet(S)
      BY <2>1, <2>3, <2>4, <3>1, <3>2
    <3>4. Cardinality(S \union Block(c, n, k)) = Cardinality(S) + (k - n)
      BY ONLY <3>3, BlockAdded, n \in Nat, k \in Nat
    <3>5. Out(i) = S \union Block(c, n, k)
      BY <2>3, <3>1, <3>2
    <3> QED
      BY <3>2, <3>3, <3>4, <3>5
  <2>6. stock[i] \in Nat /\ Cardinality(Out(i)') \in Nat
    BY <1>0, <2>4, FS_CardinalityType DEF StockTyped
  <2>7. stock'[i] + Cardinality(Out(i)') = InitialStock[i]
    <3>1. stock[i] + Cardinality(Out(i)) = InitialStock[i]
      BY DEF Conserved
    <3>2. stock'[i] = stock[i] + Want[c][i]
      BY <2>2
    <3> HIDE DEF Out
    <3> QED
      BY <2>1, <2>5, <2>6, <3>1, <3>2
  <2>8. \A j \in Item \ {i} : Out(j)' = Out(j) /\ stock'[j] = stock[j]
    BY <2>2 DEF Out
  <2> HIDE DEF Out
  <2> QED
    BY <2>4, <2>7, <2>8 DEF Conserved
<1> QED
  BY <1>1, <1>2, <1>3, <1>4 DEF StockMoves

LEMMA InitConserved == Init => Conserved
<1> SUFFICES ASSUME Init, NEW i \in Item
             PROVE  /\ IsFiniteSet(Out(i))
                    /\ stock[i] + Cardinality(Out(i)) = InitialStock[i]
  BY DEF Conserved
<1>1. Out(i) = {}
  BY DEF Init, Out
<1>2. IsFiniteSet(Out(i)) /\ Cardinality(Out(i)) = 0
  BY <1>1, FS_EmptySet
<1>3. stock[i] = InitialStock[i] /\ InitialStock[i] \in Nat
  BY StockAssumption DEF Init
<1> HIDE DEF Out
<1> QED
  BY <1>2, <1>3

\* The orders in the database never promise more units of an item than were on the
\* shelf, for any number of checkouts, workers, crashes and units, and however slow
\* the handlers.
THEOREM NothingIsOversold ==
    ASSUME Legacy = {}
    PROVE  Spec => []SoldWithinStock
<1>1. FullInv /\ Conserved => SoldWithinStock
  <2> SUFFICES ASSUME FullInv, Conserved, NEW i \in Item
               PROVE  Cardinality(Sold(i)) <= InitialStock[i]
    BY DEF SoldWithinStock
  <2>0. StockTyped /\ StockInv
    BY DEF FullInv, EffectsInv, TypeInv, SetAside
  <2>1. Sold(i) \in SUBSET Out(i)
    <3> SUFFICES ASSUME NEW p \in Sold(i) PROVE p \in Out(i)
      OBVIOUS
    <3>1. PICK c \in Checkout : order[c] /\ p \in {c} \X (1..Want[c][i])
      BY DEF Sold
    <3>2. Want[c][i] \in Nat /\ taken[c][i] \in Int /\ taken[c][i] >= Want[c][i]
      BY <2>0, <3>1, StockAssumption DEF StockTyped, StockInv, Secured
    <3> QED
      BY <3>1, <3>2 DEF Out
  <2>2. Cardinality(Sold(i)) <= Cardinality(Out(i)) /\ IsFiniteSet(Sold(i))
    BY <2>1, FS_Subset DEF Conserved
  <2>3. /\ stock[i] \in Nat /\ Cardinality(Out(i)) \in Nat
        /\ Cardinality(Sold(i)) \in Nat
    BY <2>0, <2>2, FS_CardinalityType DEF StockTyped, Conserved
  <2>4. stock[i] + Cardinality(Out(i)) = InitialStock[i]
    BY DEF Conserved
  <2> HIDE DEF Out
  <2> QED
    BY <2>2, <2>3, <2>4
<1> QED
  BY <1>1, InitConserved, ConservedStep, AlwaysSetAside, PTL DEF Spec

-------------------------------------------------------------------------------
(* One owner per payment, while no handler outlasts its claim: whoever wins    *)
(* the claim has the intent to itself until it ends it or crashes, legacy      *)
(* intents included                                                            *)

\* What a worker does before the order exists, and after.
Before == {"prepare", "reserve", "rollback", "refund", "refunded",
           "refundFailed", "flag", "insert"}
After == {"ledger", "effects", "mark"}
Owning == {"recheck"} \union Before \union After

OpenInv ==
    \A c \in Checkout :
        /\ status[c] # "none" <=> req[c].pc = "open"
        /\ payment[c] # "none" => req[c].pc = "open"

OwnerInv ==
    /\ \A w \in Worker : job[w].pc \in Owning =>
          status[job[w].of] = "processing" /\ ~stale[job[w].of]
    /\ \A v, w \in Worker :
          /\ job[v].pc \in Owning /\ job[w].pc \in Owning
          /\ job[v].of = job[w].of
          => v = w

\* The owner knows whether there is an order.
PlacedInv ==
    /\ \A w \in Worker :
          /\ job[w].pc \in Before => ~order[job[w].of]
          /\ job[w].pc \in After => order[job[w].of]
    /\ \A c \in Online : order[c] => status[c] \in {"processing", "fulfilled"}
    /\ \A c \in Cod : order[c] => req[c].pc \in {"effects", "done", "dead"}

\* A refunded payment is nobody's to fulfil: its owner is about to say so, and
\* whoever comes after a crashed one asks Razorpay first.
RefundInv ==
    \A c \in Checkout : payment[c] = "refunded" =>
        /\ ~order[c] /\ status[c] # "pending"
        /\ \A w \in Worker : job[w].of = c /\ job[w].pc \in Owning =>
              job[w].pc \in {"refunded", "refundFailed"}
        /\ stale[c] => \A w \in Worker :
              job[w].of = c => job[w].pc = "validate"

Claims == OpenInv /\ OwnerInv /\ PlacedInv /\ RefundInv

OwnedInv == EffectsInv /\ Claims

LEMMA InitClaims == Init => Claims
<1> SUFFICES ASSUME Init PROVE Claims
  OBVIOUS
<1>1. OpenInv
  BY CheckoutAssumption DEF Init, OpenInv
<1>2. OwnerInv
  BY DEF Init, OwnerInv, NoJob, Owning, Before, After
<1>3. PlacedInv
  BY DEF Init, PlacedInv, NoJob, Before, After, Checkout
<1>4. RefundInv
  BY DEF Init, RefundInv
<1> QED
  BY <1>1, <1>2, <1>3, <1>4 DEF Claims

\* A request that leaves intents, orders, payments and workers alone.
LEMMA RequestClaims ==
    ASSUME Claims, NEW c \in Checkout,
           UNCHANGED <<status, stale, order, payment, job>>,
           \A d \in Checkout \ {c} : req'[d].pc = req[d].pc,
           req[c].pc # "open", req'[c].pc # "open",
           req[c].pc \in {"effects", "done", "dead"} =>
              req'[c].pc \in {"effects", "done", "dead"}
    PROVE  Claims'
<1>1. OpenInv'
  BY DEF Claims, OpenInv
<1>2. OwnerInv' /\ RefundInv'
  BY DEF Claims, OwnerInv, RefundInv
<1>3. PlacedInv'
  BY DEF Claims, PlacedInv, Checkout
<1> QED
  BY <1>1, <1>2, <1>3 DEF Claims

LEMMA RequestOwned ==
    ASSUME OwnedInv, NEW c \in Checkout, RequestStep(c)
    PROVE  Claims'
<1>0. /\ EffectsInv /\ TypeInv /\ ReqTyped /\ JobTyped /\ OtherTyped /\ Kinds
      /\ Claims /\ OpenInv /\ OwnerInv /\ PlacedInv /\ RefundInv
  BY DEF OwnedInv, EffectsInv, TypeInv, Claims
<1>o. Checkout = Online \union Cod /\ Online \intersect Cod = {}
  BY CheckoutAssumption DEF Checkout
<1>j. \A w \in Worker : job[w].pc \in Owning => job[w].of \in Online
  BY <1>0 DEF Kinds, Owning, Before, After
<1> USE <1>0 DEF intentVars, orderVars
<1>1. CASE CreateOrder(c)
  <2>1. \A d \in Checkout : req'[d].pc = IF d = c THEN "sweep" ELSE req[d].pc
    BY <1>1, CreateOrderMoves
  <2>2. /\ req[c].pc = "idle"
        /\ UNCHANGED <<status, stale, order, payment, job>>
    BY <1>1 DEF CreateOrder
  <2> QED
    BY <2>1, <2>2, RequestClaims
<1>2. CASE SweepNext(c)
  <2>1. /\ req[c].pc = "restore"
        /\ UNCHANGED <<status, stale, order, payment, job>>
    BY <1>2 DEF SweepNext
  <2> QED
    BY <1>2, <2>1, SweepNextMoves, RequestClaims
<1>3. CASE StartReserve(c)
  BY <1>3, GotoWithMoves, RequestClaims DEF StartReserve
<1>4. CASE Rejected(c)
  BY <1>4, GotoMoves, RequestClaims DEF Rejected
<1>5. CASE ReserveDone(c)
  BY <1>5, GotoMoves, RequestClaims DEF ReserveDone
<1>6. CASE InsertIntent(c)
  <2>1. \A d \in Checkout : req'[d].pc = IF d = c THEN "open" ELSE req[d].pc
    BY <1>6, GotoMoves DEF InsertIntent
  <2>2. /\ req[c].pc = "held" /\ UNCHANGED <<stale, order, payment, job>>
        /\ \A d \in Checkout :
              status'[d] = IF d = c THEN "pending" ELSE status[d]
    BY <1>6 DEF InsertIntent, OtherTyped
  <2>3. status[c] = "none" /\ payment[c] = "none" /\ c \in Online
    BY <2>2 DEF OpenInv, OtherTyped, Kinds
  <2>4. OpenInv'
    BY <2>1, <2>2 DEF OpenInv
  <2>5. OwnerInv'
    BY <1>j, <1>o, <2>2, <2>3 DEF OwnerInv
  <2>6. PlacedInv'
    <3>1. \A d \in Online : order'[d] => status'[d] \in {"processing", "fulfilled"}
      BY <1>o, <2>2, <2>3 DEF PlacedInv
    <3>2. \A d \in Cod : order'[d] => req'[d].pc \in {"effects", "done", "dead"}
      BY <1>o, <2>1, <2>2, <2>3 DEF PlacedInv
    <3> QED
      BY <2>2, <3>1, <3>2 DEF PlacedInv
  <2>7. RefundInv'
    BY <2>2, <2>3 DEF RefundInv
  <2> QED
    BY <2>4, <2>5, <2>6, <2>7 DEF Claims
<1>7. CASE InsertIntentFails(c)
  BY <1>7, GotoWithMoves, RequestClaims DEF InsertIntentFails
<1>8. CASE InsertCodOrder(c)
  <2>1. \A d \in Checkout : req'[d].pc = IF d = c THEN "effects" ELSE req[d].pc
    BY <1>8, GotoMoves DEF InsertCodOrder
  <2>2. /\ req[c].pc = "insert" /\ c \in Cod
        /\ UNCHANGED <<status, stale, payment, job>>
        /\ \A d \in Checkout : order'[d] <=> (d = c \/ order[d])
    BY <1>8 DEF InsertCodOrder, OtherTyped, Kinds
  <2>3. payment[c] = "none"
    BY <2>2 DEF OpenInv, OtherTyped
  <2>4. OpenInv' /\ OwnerInv'
    BY <2>1, <2>2 DEF OpenInv, OwnerInv
  <2>5. PlacedInv'
    <3>1. \A w \in Worker : /\ job'[w].pc \in Before => ~order'[job'[w].of]
                            /\ job'[w].pc \in After => order'[job'[w].of]
      BY <1>j, <1>o, <2>2 DEF PlacedInv, Owning
    <3>2. \A d \in Online : order'[d] => status'[d] \in {"processing", "fulfilled"}
      BY <1>o, <2>2 DEF PlacedInv
    <3>3. \A d \in Cod : order'[d] => req'[d].pc \in {"effects", "done", "dead"}
      BY <1>o, <2>1, <2>2 DEF PlacedInv
    <3> QED
      BY <3>1, <3>2, <3>3 DEF PlacedInv
  <2>6. RefundInv'
    BY <2>2, <2>3 DEF RefundInv
  <2> QED
    BY <2>4, <2>5, <2>6 DEF Claims
<1>9. CASE CodSideEffects(c)
  BY <1>9, GotoMoves, RequestClaims DEF CodSideEffects
<1>10. ASSUME NEW d \in Checkout, SweepOne(c, d) PROVE Claims'
  <2>1. CASE ~ExpireGuard(d)
    BY <1>10, <2>1, SweepOneMoves, RequestClaims DEF SweepOne
  <2>2. CASE ExpireGuard(d)
    <3>1. /\ req[c].pc = "sweep" /\ UNCHANGED <<stale, order, payment, job>>
          /\ status[d] = "pending"
          /\ \A e \in Checkout :
                status'[e] = IF e = d THEN "expired" ELSE status[e]
      BY <1>10, <2>2 DEF SweepOne, ExpireGuard, OtherTyped
    <3>2. \A e \in Checkout : req'[e].pc = IF e = c THEN "restore" ELSE req[e].pc
      BY <1>10, <2>2, SweepOneMoves
    <3>3. d # c /\ d \in Online /\ ~order[d]
      BY <3>1 DEF OpenInv, Kinds, PlacedInv
    <3>4. OpenInv'
      BY <3>1, <3>2, <3>3 DEF OpenInv
    <3>5. OwnerInv'
      BY <1>j, <1>o, <3>1 DEF OwnerInv
    <3>6. PlacedInv'
      <4>1. \A e \in Online :
               order'[e] => status'[e] \in {"processing", "fulfilled"}
        BY <1>o, <3>1, <3>3 DEF PlacedInv
      <4>2. \A e \in Cod : order'[e] => req'[e].pc \in {"effects", "done", "dead"}
        BY <1>o, <3>1, <3>2 DEF PlacedInv
      <4> QED
        BY <3>1, <4>1, <4>2 DEF PlacedInv
    <3>7. RefundInv'
      BY <3>1 DEF RefundInv
    <3> QED
      BY <3>4, <3>5, <3>6, <3>7 DEF Claims
  <2> QED
    BY <2>1, <2>2
<1>11. ASSUME NEW i \in Item, SweepRestore(c, i) PROVE Claims'
  BY <1>11, ReqTodoMoves, RequestClaims DEF SweepRestore
<1>12. ASSUME NEW i \in Item, ReserveLine(c, i) PROVE Claims'
  BY <1>12, ReqTodoMoves, RequestClaims DEF ReserveLine
<1>13. ASSUME NEW i \in Item, ReserveFails(c, i) PROVE Claims'
  BY <1>13, GotoWithMoves, RequestClaims DEF ReserveFails
<1>14. ASSUME NEW i \in Item, GiveBackLine(c, i) PROVE Claims'
  BY <1>14, ReqTodoMoves, RequestClaims DEF GiveBackLine
<1> QED
  BY <1>1, <1>2, <1>3, <1>4, <1>5, <1>6, <1>7, <1>8, <1>9, <1>10, <1>11,
     <1>12, <1>13, <1>14 DEF RequestStep

\* A worker that only moves on: what it owned it still owns, or it answers.
LEMMA WorkerClaims ==
    ASSUME Claims, JobTyped, NEW w \in Worker,
           UNCHANGED <<req, status, stale, order, payment>>,
           \A v \in Worker \ {w} : job'[v].pc = job[v].pc /\ job'[v].of = job[v].of,
           \/ job'[w].pc = "idle" /\ job'[w].of = None
           \/ /\ job[w].pc # "idle" /\ job'[w].of = job[w].of
              /\ job'[w].pc \in Owning => job[w].pc \in Owning
              /\ job'[w].pc \in Before =>
                    job[w].pc \in Before \/ ~order[job[w].of]
              /\ job'[w].pc \in After =>
                    job[w].pc \in After \/ order[job[w].of]
              /\ payment[job[w].of] = "refunded" =>
                    /\ job'[w].pc \notin Owning \ {"refunded", "refundFailed"}
                    /\ job[w].pc \in Owning \/ ~stale[job[w].of]
    PROVE  Claims'
<1>0. /\ OpenInv /\ OwnerInv /\ PlacedInv /\ RefundInv /\ None \notin Checkout
      /\ job[w].pc # "idle" => job[w].of \in Checkout
  BY CheckoutAssumption DEF Claims, JobTyped
<1>1. OpenInv'
  BY <1>0 DEF OpenInv
<1>2. OwnerInv'
  BY <1>0 DEF OwnerInv, Owning, Before, After
<1>3. PlacedInv'
  <2>1. \A v \in Worker : /\ job'[v].pc \in Before => ~order[job'[v].of]
                          /\ job'[v].pc \in After => order[job'[v].of]
    BY <1>0 DEF PlacedInv, Before, After
  <2> QED
    BY <1>0, <2>1 DEF PlacedInv
<1>4. RefundInv'
  <2> SUFFICES ASSUME NEW c \in Checkout, payment[c] = "refunded"
               PROVE  /\ ~order[c] /\ status[c] # "pending"
                      /\ \A v \in Worker :
                            job'[v].of = c /\ job'[v].pc \in Owning =>
                              job'[v].pc \in {"refunded", "refundFailed"}
                      /\ stale[c] => \A v \in Worker :
                            job'[v].of = c => job'[v].pc = "validate"
    BY DEF RefundInv
  <2>1. /\ ~order[c] /\ status[c] # "pending"
        /\ \A v \in Worker : job[v].of = c /\ job[v].pc \in Owning =>
              job[v].pc \in {"refunded", "refundFailed"}
        /\ stale[c] => \A v \in Worker : job[v].of = c => job[v].pc = "validate"
    BY <1>0 DEF RefundInv
  <2>2. job'[w].of = c /\ job'[w].pc \in Owning =>
           job'[w].pc \in {"refunded", "refundFailed"}
    BY <1>0
  <2>3. stale[c] => job'[w].of # c
    BY <1>0 DEF OwnerInv
  <2> QED
    BY <2>1, <2>2, <2>3
<1> QED
  BY <1>1, <1>2, <1>3, <1>4 DEF Claims

LEMMA WorkerOwned ==
    ASSUME OwnedInv, NEW w \in Worker, WorkerStep(w)
    PROVE  Claims'
<1>0. /\ EffectsInv /\ TypeInv /\ ReqTyped /\ JobTyped /\ OtherTyped /\ Kinds
      /\ Claims /\ OpenInv /\ OwnerInv /\ PlacedInv /\ RefundInv
  BY DEF OwnedInv, EffectsInv, TypeInv, Claims
<1> DEFINE c == job[w].of
<1>o. ~At(w, "idle") => c \in Online /\ c \in Checkout
  BY <1>0 DEF Kinds, At, Checkout
<1>r. /\ ~At(w, "idle") /\ payment[c] = "refunded" =>
            /\ job[w].pc \in Owning => job[w].pc \in {"refunded", "refundFailed"}
            /\ stale[c] => job[w].pc = "validate"
      /\ job[w].pc \in Before => ~order[c]
      /\ job[w].pc \in After => order[c]
  BY <1>0, <1>o DEF RefundInv, PlacedInv
<1> USE <1>0 DEF intentVars, orderVars, At
<1>1. CASE Validate(w)
  <2>1. CASE payment[c] = "captured"
    BY <1>1, <1>r, <2>1, StepMoves, AnswerMoves, WorkerClaims
       DEF Validate, Owning, Before, After
  <2>2. CASE payment[c] # "captured"
    BY <1>1, <2>2, AnswerMoves, WorkerClaims DEF Validate
  <2> QED
    BY <2>1, <2>2
<1>2. CASE FindExisting(w)
  BY <1>2, <1>r, StepMoves, AnswerMoves, WorkerClaims
     DEF FindExisting, Owning, Before, After
<1>3. CASE CheckIntent(w)
  BY <1>3, <1>r, StepMoves, AnswerMoves, WorkerClaims
     DEF CheckIntent, Owning, Before, After
<1>4. CASE Claim(w)
  <2>1. /\ UNCHANGED <<req, order, payment>> /\ c \in Checkout /\ c \in Online
        /\ job[w].pc = "claim"
        /\ \A v \in Worker : job'[v].of = job[v].of
        /\ \A v \in Worker \ {w} : job'[v] = job[v]
    BY <1>4, <1>o, ClaimMoves DEF Claim
  <2>2. CASE ~Claimable(c)
    <3>1. job'[w].pc = "refind" /\ UNCHANGED <<status, stale>>
      BY <1>4, <2>2, ClaimMoves DEF Claim
    <3> QED
      BY <1>r, <2>1, <3>1, WorkerClaims DEF Owning, Before, After
  <2>3. CASE Claimable(c)
    <3>a. job'[w].pc = "recheck"
      BY <1>4, <2>3 DEF Claim, JobTyped, Job
    <3>b. \A d \in Checkout :
             /\ status'[d] = IF d = c THEN "processing" ELSE status[d]
             /\ stale'[d] = IF d = c THEN FALSE ELSE stale[d]
      BY <1>4, <2>3 DEF Claim, OtherTyped
    <3>1. /\ job'[w].pc = "recheck"
          /\ \A d \in Checkout :
                /\ status'[d] = IF d = c THEN "processing" ELSE status[d]
                /\ stale'[d] = IF d = c THEN FALSE ELSE stale[d]
      BY <3>a, <3>b
    <3>c. status[c] = "pending" \/ (status[c] = "processing" /\ stale[c])
      BY <2>3 DEF Claimable
    <3>d. payment[c] # "refunded"
      BY <1>r, <2>1, <3>c DEF RefundInv
    <3>2. /\ status[c] = "pending" \/ (status[c] = "processing" /\ stale[c])
          /\ payment[c] # "refunded"
      BY <3>c, <3>d
    <3>3. \A v \in Worker : job[v].pc \in Owning =>
             job[v].of \in Checkout \ {c} /\ v # w
      <4> SUFFICES ASSUME NEW v \in Worker, job[v].pc \in Owning
                   PROVE  job[v].of \in Checkout \ {c} /\ v # w
        OBVIOUS
      <4>1. status[job[v].of] = "processing" /\ ~stale[job[v].of]
        BY DEF OwnerInv
      <4>2. v # w /\ job[v].of \in Checkout
        BY <2>1 DEF JobTyped, Owning, Before, After
      <4>3. CASE status[c] = "pending"
        BY <4>1, <4>2, <4>3
      <4>4. CASE stale[c]
        BY <4>1, <4>2, <4>4, Zenon
      <4> QED
        BY <3>2, <4>3, <4>4
    <3>4. OpenInv'
      <4>1. status[c] # "none"
        BY <3>c
      <4>2. \A d \in Checkout : status'[d] # "none" <=> status[d] # "none"
        BY <3>1, <4>1
      <4> QED
        BY <2>1, <4>2 DEF OpenInv
    <3>5. OwnerInv'
      <4>1. \A v \in Worker \ {w} : job'[v].pc \in Owning =>
               /\ job'[v].of # c /\ job[v].pc \in Owning
               /\ status'[job'[v].of] = "processing" /\ ~stale'[job'[v].of]
        <5> SUFFICES ASSUME NEW v \in Worker \ {w}, job'[v].pc \in Owning
                     PROVE  /\ job'[v].of # c /\ job[v].pc \in Owning
                            /\ status'[job'[v].of] = "processing"
                            /\ ~stale'[job'[v].of]
          OBVIOUS
        <5>1. job'[v] = job[v] /\ job[v].of \in Checkout \ {c}
          BY <2>1, <3>3
        <5>2. status[job[v].of] = "processing" /\ ~stale[job[v].of]
          BY <5>1 DEF OwnerInv
        <5> QED
          BY <3>1, <5>1, <5>2
      <4>2. status'[job'[w].of] = "processing" /\ ~stale'[job'[w].of]
        BY <2>1, <3>1
      <4>3. \A u, v \in Worker :
               /\ job'[u].pc \in Owning /\ job'[v].pc \in Owning
               /\ job'[u].of = job'[v].of
               => u = v
        BY <2>1, <4>1 DEF OwnerInv
      <4> QED
        BY <4>1, <4>2, <4>3 DEF OwnerInv
    <3>6. PlacedInv'
      <4>1. \A v \in Worker : /\ job'[v].pc \in Before => ~order[job'[v].of]
                              /\ job'[v].pc \in After => order[job'[v].of]
        BY <2>1, <3>1 DEF PlacedInv, Before, After
      <4>2. \A d \in Online : order[d] => status'[d] \in {"processing", "fulfilled"}
        BY <3>1 DEF PlacedInv, Checkout
      <4> QED
        BY <2>1, <4>1, <4>2 DEF PlacedInv
    <3>7. RefundInv'
      <4> SUFFICES ASSUME NEW d \in Checkout, payment[d] = "refunded"
                   PROVE  /\ ~order[d] /\ status'[d] # "pending"
                          /\ \A v \in Worker :
                                job'[v].of = d /\ job'[v].pc \in Owning =>
                                  job'[v].pc \in {"refunded", "refundFailed"}
                          /\ stale'[d] => \A v \in Worker :
                                job'[v].of = d => job'[v].pc = "validate"
        BY <2>1 DEF RefundInv
      <4>1. d # c
        BY <3>2
      <4>2. \A v \in Worker : job'[v].of = d => job'[v] = job[v]
        BY <2>1, <4>1
      <4>3. /\ ~order[d] /\ status[d] # "pending"
            /\ \A v \in Worker : job[v].of = d /\ job[v].pc \in Owning =>
                  job[v].pc \in {"refunded", "refundFailed"}
            /\ stale[d] => \A v \in Worker :
                  job[v].of = d => job[v].pc = "validate"
        BY DEF RefundInv
      <4>4. status'[d] = status[d] /\ stale'[d] = stale[d]
        BY <3>1, <4>1
      <4> QED
        BY <4>2, <4>3, <4>4
    <3> QED
      BY <3>4, <3>5, <3>6, <3>7 DEF Claims
  <2> QED
    BY <2>2, <2>3
<1>5. CASE Refind(w)
  BY <1>5, AnswerMoves, WorkerClaims DEF Refind
<1>6. CASE Recheck(w)
  BY <1>6, <1>r, StepMoves, WorkerClaims DEF Recheck, Owning, Before, After
<1>7. CASE Prepare(w)
  BY <1>7, <1>r, StepMoves, StepWithMoves, WorkerClaims
     DEF Prepare, Owning, Before, After
<1>8. CASE PaidRollbackDone(w)
  BY <1>8, <1>r, StepMoves, WorkerClaims
     DEF PaidRollbackDone, Owning, Before, After
<1>9. CASE PaidReserveDone(w)
  BY <1>9, <1>r, StepMoves, WorkerClaims
     DEF PaidReserveDone, Owning, Before, After
<1>10. CASE FlagReserved(w)
  BY <1>10, <1>r, StepMoves, WorkerClaims DEF FlagReserved, Owning, Before, After
<1>11. CASE Refund(w)
  <2>1. /\ job[w].pc = "refund" /\ UNCHANGED <<req, status, stale, order>>
        /\ job'[w].pc \in {"refunded", "refundFailed"}
        /\ \A v \in Worker \ {w} : job'[v].pc = job[v].pc
        /\ \A v \in Worker : job'[v].of = job[v].of
    BY <1>11, StepMoves DEF Refund
  <2>2. /\ c \in Checkout /\ status[c] = "processing" /\ ~stale[c] /\ ~order[c]
        /\ \A v \in Worker \ {w} : job[v].pc \in Owning => job[v].of # c
    BY <1>o, <1>r, <2>1 DEF OwnerInv, Owning, Before
  <2>3. \A d \in Checkout : /\ d # c => payment'[d] = payment[d]
                            /\ payment'[d] # "none" => payment[d] # "none"
    BY <1>11, <2>2 DEF Refund, OtherTyped
  <2>4. OpenInv'
    BY <2>1, <2>3 DEF OpenInv
  <2>5. OwnerInv'
    BY <2>1 DEF OwnerInv, Owning, Before
  <2>6. PlacedInv'
    <3>1. \A v \in Worker : /\ job'[v].pc \in Before => ~order[job'[v].of]
                            /\ job'[v].pc \in After => order[job'[v].of]
      BY <2>1, <2>2 DEF PlacedInv, Before, After
    <3> QED
      BY <2>1, <3>1 DEF PlacedInv
  <2>7. RefundInv'
    <3> SUFFICES ASSUME NEW d \in Checkout, payment'[d] = "refunded"
                 PROVE  /\ ~order'[d] /\ status'[d] # "pending"
                        /\ \A v \in Worker :
                              job'[v].of = d /\ job'[v].pc \in Owning =>
                                job'[v].pc \in {"refunded", "refundFailed"}
                        /\ stale'[d] => \A v \in Worker :
                              job'[v].of = d => job'[v].pc = "validate"
      BY DEF RefundInv
    <3>1. CASE d = c
      BY <2>1, <2>2, <3>1
    <3>2. CASE d # c
      BY <2>1, <2>3, <3>2 DEF RefundInv
    <3> QED
      BY <3>1, <3>2
  <2> QED
    BY <2>4, <2>5, <2>6, <2>7 DEF Claims
<1>12. CASE MarkRefunded(w) \/ MarkFulfilled(w)
  <2>1. PICK end \in {"refunded", "refund_failed", "fulfilled"} :
           /\ status' = [status EXCEPT ![c] = end]
           /\ end # "fulfilled" => job[w].pc \in Before
           /\ end = "fulfilled" => job[w].pc \in After
    BY <1>12 DEF MarkRefunded, MarkFulfilled, Before, After
  <2>2. /\ UNCHANGED <<req, stale, order, payment>> /\ ~At(w, "idle")
        /\ job[w].pc \in Owning
    BY <1>12 DEF MarkRefunded, MarkFulfilled, Before, After, Owning
  <2>3. /\ job'[w].pc = "idle" /\ job'[w].of = None
        /\ \A v \in Worker \ {w} : job'[v] = job[v]
    BY <1>12, AnswerMoves DEF MarkRefunded, MarkFulfilled
  <2>4. /\ c \in Checkout /\ c \in Online /\ status[c] = "processing"
        /\ \A d \in Checkout : status'[d] = IF d = c THEN end ELSE status[d]
        /\ \A v \in Worker \ {w} : job[v].pc \in Owning =>
              job[v].of \in Checkout \ {c}
    BY <1>o, <2>1, <2>2 DEF OwnerInv, OtherTyped, JobTyped, Owning, Before, After
  <2>5. OpenInv'
    BY <2>1, <2>2, <2>4 DEF OpenInv
  <2>6. OwnerInv'
    BY <2>2, <2>3, <2>4 DEF OwnerInv, Owning, Before, After
  <2>7. PlacedInv'
    <3>1. \A v \in Worker : /\ job'[v].pc \in Before => ~order[job'[v].of]
                            /\ job'[v].pc \in After => order[job'[v].of]
      BY <2>3 DEF PlacedInv, Before, After
    <3>2. order[c] => end = "fulfilled"
      BY <1>r, <2>1
    <3>3. \A d \in Online : order[d] => status'[d] \in {"processing", "fulfilled"}
      BY <2>4, <3>2 DEF PlacedInv, Checkout
    <3> QED
      BY <2>2, <3>1, <3>3 DEF PlacedInv
  <2>8. RefundInv'
    <3>1. \A d \in Checkout : status'[d] = "pending" => status[d] = "pending"
      BY <2>1, <2>4
    <3>2. \A v \in Worker : /\ job'[v].pc \in Owning => job'[v] = job[v]
                            /\ job'[v].of \in Checkout => job'[v] = job[v]
      BY <2>3, CheckoutAssumption DEF Owning, Before, After
    <3> QED
      BY <2>2, <3>1, <3>2 DEF RefundInv
  <2> QED
    BY <2>5, <2>6, <2>7, <2>8 DEF Claims
<1>13. CASE InsertOrder(w)
  <2>1. /\ c \in Checkout /\ c \in Online /\ ~order[c] /\ status[c] = "processing"
        /\ job[w].pc = "insert" /\ payment[c] # "refunded"
        /\ \A v \in Worker \ {w} : job[v].pc \in Owning => job[v].of # c
    BY <1>13, <1>o, <1>r DEF InsertOrder, Owning, Before, OwnerInv
  <2>2. /\ UNCHANGED <<req, status, stale, payment>>
        /\ \A d \in Checkout : order'[d] <=> (d = c \/ order[d])
        /\ \A v \in Worker : /\ job'[v].pc = IF v = w THEN "ledger" ELSE job[v].pc
                             /\ job'[v].of = job[v].of
    BY <1>13, <2>1, StepMoves DEF InsertOrder, Duplicate, OtherTyped
  <2>3. OpenInv'
    BY <2>2 DEF OpenInv
  <2>4. OwnerInv'
    BY <2>1, <2>2 DEF OwnerInv, Owning, Before, After
  <2>5. PlacedInv'
    <3>1. \A v \in Worker \ {w} : job[v].pc \in Owning => job[v].of \in Checkout \ {c}
      BY <2>1 DEF JobTyped, Owning, Before, After
    <3>2. \A v \in Worker : /\ job'[v].pc \in Before => ~order'[job'[v].of]
                            /\ job'[v].pc \in After => order'[job'[v].of]
      BY <2>1, <2>2, <3>1 DEF PlacedInv, Owning, Before, After
    <3>3. \A d \in Online : order'[d] => status'[d] \in {"processing", "fulfilled"}
      BY <2>1, <2>2 DEF PlacedInv, Checkout
    <3>4. \A d \in Cod : order'[d] => req'[d].pc \in {"effects", "done", "dead"}
      BY <2>1, <2>2, CheckoutAssumption DEF PlacedInv, Checkout
    <3> QED
      BY <3>2, <3>3, <3>4 DEF PlacedInv
  <2>6. RefundInv'
    <3> SUFFICES ASSUME NEW d \in Checkout, payment[d] = "refunded"
                 PROVE  /\ ~order'[d] /\ status[d] # "pending"
                        /\ \A v \in Worker :
                              job'[v].of = d /\ job'[v].pc \in Owning =>
                                job'[v].pc \in {"refunded", "refundFailed"}
                        /\ stale[d] => \A v \in Worker :
                              job'[v].of = d => job'[v].pc = "validate"
      BY <2>2 DEF RefundInv
    <3>1. d # c
      BY <2>1
    <3> QED
      BY <2>2, <3>1 DEF RefundInv
  <2> QED
    BY <2>3, <2>4, <2>5, <2>6 DEF Claims
<1>14. CASE RecordLedger(w)
  BY <1>14, <1>r, StepMoves, WorkerClaims DEF RecordLedger, Owning, Before, After
<1>15. CASE SideEffects(w)
  BY <1>15, <1>r, StepMoves, WorkerClaims DEF SideEffects, Owning, Before, After
<1>16. ASSUME NEW i \in Item, PaidReserveLine(w, i) PROVE Claims'
  BY <1>16, <1>r, JobTodoMoves, WorkerClaims
     DEF PaidReserveLine, Owning, Before, After
<1>17. ASSUME NEW i \in Item, PaidReserveFails(w, i) PROVE Claims'
  BY <1>17, <1>r, StepWithMoves, WorkerClaims
     DEF PaidReserveFails, Owning, Before, After
<1>18. ASSUME NEW i \in Item, PaidGiveBack(w, i) PROVE Claims'
  BY <1>18, <1>r, JobTodoMoves, WorkerClaims
     DEF PaidGiveBack, Owning, Before, After
<1> QED
  BY <1>1, <1>2, <1>3, <1>4, <1>5, <1>6, <1>7, <1>8, <1>9, <1>10, <1>11,
     <1>12, <1>13, <1>14, <1>15, <1>16, <1>17, <1>18 DEF WorkerStep

\* The clock is where the assumption on handlers counts: a claim only goes stale
\* once nobody works on its payment.
LEMMA EnvironmentOwned ==
    ASSUME ~SlowHandlers, OwnedInv, Environment
    PROVE  Claims'
<1>0. /\ EffectsInv /\ TypeInv /\ ReqTyped /\ JobTyped /\ OtherTyped /\ Kinds
      /\ Claims /\ OpenInv /\ OwnerInv /\ PlacedInv /\ RefundInv
  BY DEF OwnedInv, EffectsInv, TypeInv, Claims
<1> USE <1>0 DEF intentVars, orderVars
<1>1. ASSUME NEW c \in Checkout, Pay(c) PROVE Claims'
  <2>1. /\ UNCHANGED <<req, status, stale, order, job>> /\ req[c].pc = "open"
        /\ \A d \in Checkout :
              payment'[d] = IF d = c THEN "captured" ELSE payment[d]
    BY <1>1 DEF Pay, OtherTyped
  <2>2. OpenInv' /\ OwnerInv' /\ PlacedInv' /\ RefundInv'
    BY <2>1 DEF OpenInv, OwnerInv, PlacedInv, RefundInv
  <2> QED
    BY <2>2 DEF Claims
<1>2. ASSUME NEW c \in Checkout, Abandon(c) PROVE Claims'
  BY <1>2 DEF Abandon, Claims, OpenInv, OwnerInv, PlacedInv, RefundInv
<1>3. ASSUME NEW c \in Checkout, ClaimAges(c) PROVE Claims'
  <2>1. /\ UNCHANGED <<req, status, order, payment, job>>
        /\ \A w \in Worker : job[w].of # c
        /\ \A d \in Checkout : stale'[d] = IF d = c THEN TRUE ELSE stale[d]
    BY <1>3 DEF ClaimAges, OtherTyped
  <2>2. OwnerInv'
    <3>1. \A w \in Worker : job[w].pc \in Owning => job[w].of \in Checkout \ {c}
      BY <2>1 DEF JobTyped, Owning, Before, After
    <3> QED
      BY <2>1, <3>1 DEF OwnerInv
  <2>3. OpenInv' /\ PlacedInv' /\ RefundInv'
    BY ZenonT(40), <2>1 DEF OpenInv, PlacedInv, RefundInv
  <2> QED
    BY <2>2, <2>3 DEF Claims
<1>4. ASSUME NEW c \in Checkout, CrashRequest(c) PROVE Claims'
  <2>1. Goto(c, "dead") /\ req[c].pc # "open"
        /\ UNCHANGED <<status, stale, order, payment, job>>
    BY <1>4 DEF CrashRequest, Goto
  <2> QED
    BY <2>1, GotoMoves, RequestClaims
<1>5. ASSUME NEW w \in Worker, CrashWorker(w) PROVE Claims'
  BY <1>5, AnswerMoves, WorkerClaims DEF CrashWorker
<1>6. ASSUME NEW w \in Worker, NEW c \in Checkout, Deliver(w, c) PROVE Claims'
  <2>1. /\ UNCHANGED <<req, status, stale, order, payment>>
        /\ job'[w].pc = "validate" /\ job'[w].of = c
        /\ \A v \in Worker \ {w} : job'[v] = job[v]
    BY <1>6, DeliverMoves DEF Deliver
  <2>2. OpenInv' /\ OwnerInv' /\ RefundInv'
    BY <2>1 DEF OpenInv, OwnerInv, RefundInv, Owning, Before, After
  <2>3. PlacedInv'
    <3>1. \A v \in Worker : /\ job'[v].pc \in Before => ~order[job'[v].of]
                            /\ job'[v].pc \in After => order[job'[v].of]
      BY <2>1 DEF PlacedInv, Before, After
    <3> QED
      BY <2>1, <3>1 DEF PlacedInv
  <2> QED
    BY <2>2, <2>3 DEF Claims
<1> QED
  BY <1>1, <1>2, <1>3, <1>4, <1>5, <1>6 DEF Environment

LEMMA AlwaysOwned ==
    ASSUME ~SlowHandlers
    PROVE  Spec => []OwnedInv
<1>1. Init => OwnedInv
  BY InitEffects, InitClaims DEF OwnedInv
<1>2. OwnedInv /\ [Next]_vars => OwnedInv'
  <2> SUFFICES ASSUME OwnedInv, [Next]_vars PROVE OwnedInv'
    OBVIOUS
  <2>1. EffectsInv'
    BY EffectsStep DEF OwnedInv
  <2>2. CASE UNCHANGED vars
    BY <2>1, <2>2
       DEF vars, OwnedInv, Claims, OpenInv, OwnerInv, PlacedInv, RefundInv
  <2> QED
    BY <2>1, <2>2, RequestOwned, WorkerOwned, EnvironmentOwned DEF Next, OwnedInv
<1> QED
  BY <1>1, <1>2, PTL DEF Spec

-------------------------------------------------------------------------------
(* Final statuses *)

FinalStatus == {"fulfilled", "expired", "refunded", "refund_failed"}

\* What makes an end final: an intent is inserted once, and a worker writes the
\* outcome over the claim it still holds.
KeepsEnds ==
    /\ OtherTyped
    /\ \A c \in Checkout : status[c] # "none" => req[c].pc = "open"
    /\ \A w \in Worker :
          /\ job[w].pc = "mark" => status[job[w].of] \in {"processing", "fulfilled"}
          /\ job[w].pc \in {"refunded", "refundFailed"} =>
                status[job[w].of] = "processing"

LEMMA SetAsideKeeps == FullInv => KeepsEnds
  BY DEF FullInv, EffectsInv, TypeInv, SetAside, IntentInv, WorkerInv, Claimed,
         Unclaimed, KeepsEnds

LEMMA OwnedKeeps == OwnedInv => KeepsEnds
  BY DEF OwnedInv, EffectsInv, TypeInv, Claims, OpenInv, OwnerInv, Owning, Before,
         After, KeepsEnds

LEMMA RequestEndsNothing ==
    ASSUME KeepsEnds, NEW c \in Checkout, RequestStep(c),
           NEW d \in Checkout, status[d] \in FinalStatus
    PROVE  status'[d] = status[d]
<1>0. OtherTyped /\ \A e \in Checkout : status[e] # "none" => req[e].pc = "open"
  BY DEF KeepsEnds
<1> USE DEF intentVars
<1>1. CASE InsertIntent(c)
  <2>1. status[c] = "none"
    BY <1>0, <1>1 DEF InsertIntent
  <2>2. status' = [status EXCEPT ![c] = "pending"] /\ d # c
    BY <1>1, <2>1 DEF InsertIntent, FinalStatus
  <2> QED
    BY <1>0, <2>2 DEF OtherTyped
<1>2. ASSUME NEW e \in Checkout, SweepOne(c, e) PROVE status'[d] = status[d]
  <2>1. CASE ~ExpireGuard(e)
    BY <1>2, <2>1 DEF SweepOne
  <2>2. CASE ExpireGuard(e)
    <3>1. status' = [status EXCEPT ![e] = "expired"] /\ d # e
      BY <1>2, <2>2 DEF SweepOne, ExpireGuard, FinalStatus
    <3> QED
      BY <1>0, <3>1 DEF OtherTyped
  <2> QED
    BY <2>1, <2>2
<1>3. CASE \/ CreateOrder(c) \/ SweepNext(c) \/ StartReserve(c) \/ Rejected(c)
           \/ ReserveDone(c) \/ InsertIntentFails(c) \/ InsertCodOrder(c)
           \/ CodSideEffects(c)
  BY <1>3 DEF CreateOrder, SweepNext, StartReserve, Rejected, ReserveDone,
              InsertIntentFails, InsertCodOrder, CodSideEffects
<1>4. CASE \E i \in Item : \/ SweepRestore(c, i) \/ ReserveLine(c, i)
                           \/ ReserveFails(c, i) \/ GiveBackLine(c, i)
  BY <1>4 DEF SweepRestore, ReserveLine, ReserveFails, GiveBackLine
<1> QED
  BY <1>1, <1>2, <1>3, <1>4 DEF RequestStep

LEMMA WorkerEndsNothing ==
    ASSUME KeepsEnds, NEW w \in Worker, WorkerStep(w),
           NEW d \in Checkout, status[d] \in FinalStatus
    PROVE  status'[d] = status[d]
<1>0. OtherTyped
  BY DEF KeepsEnds
<1> DEFINE c == job[w].of
<1> USE DEF intentVars, At
<1>1. CASE Claim(w)
  <2>1. CASE ~Claimable(c)
    BY <1>1, <2>1 DEF Claim
  <2>2. CASE Claimable(c)
    <3>1. status' = [status EXCEPT ![c] = "processing"] /\ d # c
      BY <1>1, <2>2 DEF Claim, Claimable, FinalStatus
    <3> QED
      BY <1>0, <3>1 DEF OtherTyped
  <2> QED
    BY <2>1, <2>2
<1>2. CASE MarkFulfilled(w)
  <2>1. /\ status' = [status EXCEPT ![c] = "fulfilled"]
        /\ status[c] \in {"processing", "fulfilled"}
    BY <1>2 DEF MarkFulfilled, KeepsEnds
  <2>2. CASE d = c
    BY <1>0, <2>1, <2>2 DEF OtherTyped, FinalStatus
  <2>3. CASE d # c
    BY <1>0, <2>1, <2>3 DEF OtherTyped
  <2> QED
    BY <2>2, <2>3
<1>3. CASE MarkRefunded(w)
  <2>1. status[c] = "processing" /\ d # c
    BY <1>3 DEF MarkRefunded, KeepsEnds, FinalStatus
  <2>2. \E v : status' = [status EXCEPT ![c] = v]
    BY <1>3 DEF MarkRefunded
  <2> QED
    BY <1>0, <2>1, <2>2 DEF OtherTyped
<1>4. CASE \/ Validate(w) \/ FindExisting(w) \/ CheckIntent(w) \/ Refind(w)
           \/ Recheck(w) \/ Prepare(w) \/ PaidRollbackDone(w)
           \/ PaidReserveDone(w) \/ FlagReserved(w) \/ Refund(w)
  BY <1>4 DEF Validate, FindExisting, CheckIntent, Refind, Recheck, Prepare,
              PaidRollbackDone, PaidReserveDone, FlagReserved, Refund
<1>5. CASE \/ InsertOrder(w) \/ RecordLedger(w) \/ SideEffects(w)
           \/ \E i \in Item : \/ PaidReserveLine(w, i) \/ PaidReserveFails(w, i)
                              \/ PaidGiveBack(w, i)
  BY <1>5 DEF InsertOrder, RecordLedger, SideEffects, PaidReserveLine,
              PaidReserveFails, PaidGiveBack
<1> QED
  BY <1>1, <1>2, <1>3, <1>4, <1>5 DEF WorkerStep

LEMMA EndsKept ==
    KeepsEnds /\ [Next]_vars =>
       [\A c \in Checkout :
           status[c] \in {"fulfilled", "expired", "refunded", "refund_failed"}
             => status'[c] = status[c]]_status
<1> SUFFICES ASSUME KeepsEnds, [Next]_vars, NEW d \in Checkout,
                    status[d] \in FinalStatus
             PROVE  status'[d] = status[d]
  BY DEF FinalStatus
<1>1. CASE Environment \/ UNCHANGED vars
  BY <1>1 DEF Environment, Pay, Abandon, ClaimAges, CrashRequest, CrashWorker,
              Deliver, vars, intentVars
<1> QED
  BY <1>1, RequestEndsNothing, WorkerEndsNothing DEF Next

\* An intent that reached its end keeps it: with handlers slower than their claim
\* when no intent dates from before the reservations, and with such intents when
\* no handler outlasts its claim. Crashes are everywhere.
THEOREM EndsAreFinal ==
    ASSUME Legacy = {} \/ ~SlowHandlers
    PROVE  Spec => FinalStatusStays
<1>1. CASE Legacy = {}
  <2>1. Spec => []FullInv
    BY <1>1, AlwaysSetAside
  <2> QED
    BY <2>1, SetAsideKeeps, EndsKept, PTL DEF Spec, FinalStatusStays
<1>2. CASE ~SlowHandlers
  <2>1. Spec => []OwnedInv
    BY <1>2, AlwaysOwned
  <2> QED
    BY <2>1, OwnedKeeps, EndsKept, PTL DEF Spec, FinalStatusStays
<1> QED
  BY <1>1, <1>2

\* Without intents from before the reservations nothing is refunded at all: what
\* create-order reserved is never found missing.
LEMMA NoneRefunded ==
    ASSUME Legacy = {}
    PROVE  Spec => []NotBothSoldAndRefunded
<1> DEFINE Unrefunded == \A c \in Checkout : payment[c] # "refunded"
<1>1. Init => Unrefunded
  BY DEF Init
<1>2. FullInv /\ Unrefunded /\ [Next]_vars => Unrefunded'
  <2> SUFFICES ASSUME FullInv, Unrefunded, [Next]_vars PROVE Unrefunded'
    OBVIOUS
  <2>0. OtherTyped /\ WorkerInv
    BY DEF FullInv, EffectsInv, TypeInv, SetAside
  <2>1. ASSUME NEW w \in Worker, WorkerStep(w) PROVE UNCHANGED payment
    <3>1. ~Refund(w)
      BY <2>0 DEF Refund, At, WorkerInv, Claimed, Unclaimed
    <3> QED
      BY <2>1, <3>1
         DEF WorkerStep, Validate, FindExisting, CheckIntent, Claim, Refind, Recheck,
             Prepare, PaidRollbackDone, PaidReserveDone, FlagReserved, MarkRefunded,
             InsertOrder, RecordLedger, SideEffects, MarkFulfilled, PaidReserveLine,
             PaidReserveFails, PaidGiveBack
  <2>2. ASSUME NEW c \in Checkout, RequestStep(c) PROVE UNCHANGED payment
    BY <2>2
       DEF RequestStep, CreateOrder, SweepNext, StartReserve, Rejected, ReserveDone,
           InsertIntent, InsertIntentFails, InsertCodOrder, CodSideEffects, SweepOne,
           SweepRestore, ReserveLine, ReserveFails, GiveBackLine
  <2>3. ASSUME NEW c \in Checkout, Pay(c) PROVE Unrefunded'
    BY <2>0, <2>3 DEF Pay, OtherTyped
  <2>4. CASE Environment /\ ~\E c \in Checkout : Pay(c)
    BY <2>4 DEF Environment, Abandon, ClaimAges, CrashRequest, CrashWorker, Deliver
  <2>5. CASE UNCHANGED vars
    BY <2>5 DEF vars
  <2> QED
    BY <2>1, <2>2, <2>3, <2>4, <2>5 DEF Next
<1>3. Unrefunded => NotBothSoldAndRefunded
  BY DEF NotBothSoldAndRefunded
<1> QED
  BY <1>1, <1>2, <1>3, AlwaysSetAside, PTL DEF Spec

\* No payment is refunded whose checkout became an order: what create-order
\* reserved is never found missing; and for an intent without a reservation, whose
\* worker may refund, the worker owns it and found no order.
THEOREM NoneSoldAndRefunded ==
    ASSUME Legacy = {} \/ ~SlowHandlers
    PROVE  Spec => []NotBothSoldAndRefunded
<1>1. CASE Legacy = {}
  BY <1>1, NoneRefunded
<1>2. CASE ~SlowHandlers
  <2>1. Spec => []OwnedInv
    BY <1>2, AlwaysOwned
  <2>2. OwnedInv => NotBothSoldAndRefunded
    BY DEF OwnedInv, Claims, RefundInv, NotBothSoldAndRefunded
  <2> QED
    BY <2>1, <2>2, PTL
<1> QED
  BY <1>1, <1>2

-------------------------------------------------------------------------------
(* Without crashes every claim has its owner, and every unit taken has its     *)
(* holder                                                                      *)

\* The claims of the sweeps stay theirs.
LEMMA RequestSweeps ==
    ASSUME OwnedInv, SweepInv, NEW c \in Checkout, RequestStep(c)
    PROVE  SweepInv'
<1>0. TypeInv /\ ReqTyped /\ JobTyped /\ OtherTyped /\ OpenInv
  BY DEF OwnedInv, EffectsInv, TypeInv, Claims
<1>k. ASSUME UNCHANGED status,
             \A d \in Checkout \ {c} :
                req'[d].pc = req[d].pc /\ req'[d].victim = req[d].victim,
             req'[c].pc = "restore" =>
                req[c].pc = "restore" /\ req'[c].victim = req[c].victim
      PROVE  SweepInv'
  <2>1. \A d \in Checkout : req'[d].pc = "restore" =>
           req[d].pc = "restore" /\ req'[d].victim = req[d].victim
    BY <1>k
  <2> QED
    BY <1>k, <2>1 DEF SweepInv
<1> USE <1>0 DEF intentVars, orderVars
<1>1. CASE CreateOrder(c)
  <2>1. UNCHANGED status
    BY <1>1 DEF CreateOrder
  <2> QED
    BY <1>1, <1>k, <2>1, CreateOrderMoves
<1>2. CASE SweepNext(c)
  <2>1. UNCHANGED status
    BY <1>2 DEF SweepNext
  <2> QED
    BY <1>2, <1>k, <2>1, SweepNextMoves
<1>3. CASE StartReserve(c)
  BY <1>3, <1>k, GotoWithMoves DEF StartReserve
<1>4. CASE Rejected(c) \/ ReserveDone(c) \/ InsertCodOrder(c) \/ CodSideEffects(c)
  <2>1. UNCHANGED status /\ \E pc \in ReqPc \ {"restore"} : Goto(c, pc)
    BY <1>4 DEF Rejected, ReserveDone, InsertCodOrder, CodSideEffects, ReqPc
  <2> QED
    BY <1>k, <2>1, GotoMoves
<1>5. CASE InsertIntent(c)
  <2>1. \A d \in Checkout :
           /\ req'[d].pc = IF d = c THEN "open" ELSE req[d].pc
           /\ req'[d].victim = req[d].victim
    BY <1>5, GotoMoves DEF InsertIntent
  <2>2. /\ status[c] = "none"
        /\ \A d \in Checkout :
              status'[d] = IF d = c THEN "pending" ELSE status[d]
    BY <1>5 DEF InsertIntent, OtherTyped, OpenInv
  <2>3. \A d \in Checkout : req'[d].pc = "restore" =>
           /\ req[d].pc = "restore" /\ req'[d].victim = req[d].victim
           /\ req[d].victim \in Checkout /\ status[req[d].victim] = "expired"
    BY <2>1 DEF SweepInv, ReqTyped
  <2> QED
    BY <2>2, <2>3 DEF SweepInv
<1>6. CASE InsertIntentFails(c)
  BY <1>6, <1>k, GotoWithMoves DEF InsertIntentFails
<1>7. ASSUME NEW v \in Checkout, SweepOne(c, v) PROVE SweepInv'
  <2>1. CASE ~ExpireGuard(v)
    BY <1>7, <1>k, <2>1, SweepOneMoves DEF SweepOne
  <2>2. CASE ExpireGuard(v)
    <3>1. /\ status[v] = "pending"
          /\ \A e \in Checkout :
                status'[e] = IF e = v THEN "expired" ELSE status[e]
      BY <1>7, <2>2 DEF SweepOne, ExpireGuard, OtherTyped
    <3>2. /\ req'[c].victim = v
          /\ \A d \in Checkout \ {c} : req'[d] = req[d]
      BY <1>7, <2>2, SweepOneMoves
    <3>3. \A d \in Checkout \ {c} : req'[d].pc = "restore" =>
             /\ req'[d].victim \in Checkout \ {v}
             /\ status'[req'[d].victim] = "expired"
      BY <3>1, <3>2 DEF SweepInv, ReqTyped
    <3> QED
      BY <3>1, <3>2, <3>3 DEF SweepInv
  <2> QED
    BY <2>1, <2>2
<1>8. ASSUME NEW i \in Item,
             SweepRestore(c, i) \/ ReserveLine(c, i) \/ GiveBackLine(c, i)
      PROVE  SweepInv'
  BY <1>8, <1>k, ReqTodoMoves DEF SweepRestore, ReserveLine, GiveBackLine
<1>9. ASSUME NEW i \in Item, ReserveFails(c, i) PROVE SweepInv'
  BY <1>9, <1>k, GotoWithMoves DEF ReserveFails
<1> QED
  BY <1>1, <1>2, <1>3, <1>4, <1>5, <1>6, <1>7, <1>8, <1>9 DEF RequestStep

LEMMA WorkerSweeps ==
    ASSUME OwnedInv, SweepInv, NEW w \in Worker, WorkerStep(w)
    PROVE  SweepInv'
<1>0. ReqTyped /\ OtherTyped /\ OwnerInv
  BY DEF OwnedInv, EffectsInv, TypeInv, Claims
<1> DEFINE c == job[w].of
<1>1. UNCHANGED req /\ \A d \in Checkout : status[d] = "expired" => status'[d] = "expired"
  <2> USE DEF intentVars, orderVars
  <2>1. CASE Claim(w)
    <3>1. CASE ~Claimable(c)
      BY <2>1, <3>1 DEF Claim
    <3>2. CASE Claimable(c)
      <4>1. status' = [status EXCEPT ![c] = "processing"] /\ status[c] # "expired"
            /\ UNCHANGED req
        BY <2>1, <3>2 DEF Claim, Claimable
      <4> QED
        BY <1>0, <4>1 DEF OtherTyped
    <3> QED
      BY <3>1, <3>2
  <2>2. CASE MarkRefunded(w) \/ MarkFulfilled(w)
    <3>1. job[w].pc \in {"refunded", "refundFailed", "mark"} /\ UNCHANGED req
      BY <2>2 DEF MarkRefunded, MarkFulfilled, At
    <3>2. status[c] = "processing"
      BY <1>0, <3>1 DEF OwnerInv, Owning, Before, After
    <3>3. PICK end : status' = [status EXCEPT ![c] = end]
      BY <2>2 DEF MarkRefunded, MarkFulfilled
    <3> QED
      BY <1>0, <3>1, <3>2, <3>3 DEF OtherTyped
  <2>3. CASE \/ Validate(w) \/ FindExisting(w) \/ CheckIntent(w) \/ Refind(w)
             \/ Recheck(w) \/ Prepare(w) \/ PaidRollbackDone(w)
             \/ PaidReserveDone(w) \/ FlagReserved(w) \/ Refund(w)
    BY <2>3 DEF Validate, FindExisting, CheckIntent, Refind, Recheck, Prepare,
                PaidRollbackDone, PaidReserveDone, FlagReserved, Refund
  <2>4. CASE \/ InsertOrder(w) \/ RecordLedger(w) \/ SideEffects(w)
             \/ \E i \in Item : \/ PaidReserveLine(w, i) \/ PaidReserveFails(w, i)
                                \/ PaidGiveBack(w, i)
    BY <2>4 DEF InsertOrder, RecordLedger, SideEffects, PaidReserveLine,
                PaidReserveFails, PaidGiveBack
  <2> QED
    BY <2>1, <2>2, <2>3, <2>4 DEF WorkerStep
<1> QED
  BY <1>0, <1>1 DEF SweepInv, ReqTyped

LEMMA EnvironmentSweeps ==
    ASSUME OwnedInv, SweepInv, Environment
    PROVE  SweepInv'
<1>0. ReqTyped
  BY DEF OwnedInv, EffectsInv, TypeInv
<1>1. ASSUME NEW c \in Checkout, CrashRequest(c) PROVE SweepInv'
  <2>1. Goto(c, "dead") /\ UNCHANGED status
    BY <1>1 DEF CrashRequest, Goto, intentVars
  <2>2. \A d \in Checkout : req'[d].pc = "restore" =>
           req[d].pc = "restore" /\ req'[d].victim = req[d].victim
    BY <1>0, <2>1, GotoMoves
  <2> QED
    BY <2>1, <2>2 DEF SweepInv
<1>2. CASE Environment /\ ~\E c \in Checkout : CrashRequest(c)
  <2>1. UNCHANGED <<req, status>>
    BY <1>2 DEF Environment, Pay, Abandon, ClaimAges, CrashWorker, Deliver, intentVars
  <2> QED
    BY <2>1 DEF SweepInv
<1> QED
  BY <1>1, <1>2

\* A claim has its owner, and whoever wins it finds no order yet.
FinishInv ==
    /\ \A c \in Checkout :
          /\ ~stale[c]
          /\ status[c] = "processing" => \E w \in Worker :
                job[w].of = c /\ job[w].pc \in Owning
          /\ status[c] = "fulfilled" => order[c] /\ effects[c] = 1
    /\ \A w \in Worker :
          /\ job[w].pc = "recheck" => ~order[job[w].of]
          /\ job[w].pc = "mark" => effects[job[w].of] = 1

LEMMA RequestFinishes ==
    ASSUME OwnedInv, FinishInv, NEW c \in Checkout, RequestStep(c)
    PROVE  FinishInv'
<1>0. /\ TypeInv /\ JobTyped /\ OtherTyped /\ Kinds /\ OpenInv /\ PlacedInv
  BY DEF OwnedInv, EffectsInv, TypeInv, Claims
<1>o. /\ Checkout = Online \union Cod /\ Online \intersect Cod = {}
      /\ \A w \in Worker : job[w].pc # "idle" => job[w].of \in Online
      /\ \A d \in Cod : status[d] = "none"
  BY <1>0, CheckoutAssumption DEF Checkout, Kinds, OpenInv
<1> USE <1>0 DEF intentVars, orderVars
<1>1. CASE \/ CreateOrder(c) \/ SweepNext(c) \/ StartReserve(c) \/ Rejected(c)
           \/ ReserveDone(c) \/ InsertIntentFails(c)
           \/ \E i \in Item : \/ SweepRestore(c, i) \/ ReserveLine(c, i)
                              \/ ReserveFails(c, i) \/ GiveBackLine(c, i)
  <2>1. UNCHANGED <<stale, status, order, effects, job>>
    BY <1>1 DEF CreateOrder, SweepNext, StartReserve, Rejected, ReserveDone,
                InsertIntentFails, SweepRestore, ReserveLine, ReserveFails,
                GiveBackLine
  <2> QED
    BY <2>1 DEF FinishInv
<1>2. CASE InsertIntent(c) \/ \E d \in Checkout : SweepOne(c, d)
  <2>1. UNCHANGED <<stale, order, effects, job>>
    BY <1>2 DEF InsertIntent, SweepOne
  <2>2. \A d \in Checkout : status'[d] \in {"processing", "fulfilled"} =>
           status'[d] = status[d]
    <3>1. CASE InsertIntent(c)
      BY <3>1 DEF InsertIntent, OtherTyped
    <3>2. ASSUME NEW d \in Checkout, SweepOne(c, d)
          PROVE  \A e \in Checkout : status'[e] \in {"processing", "fulfilled"} =>
                    status'[e] = status[e]
      BY <3>2 DEF SweepOne, OtherTyped
    <3> QED
      BY <1>2, <3>1, <3>2
  <2> QED
    BY <2>1, <2>2 DEF FinishInv
<1>3. CASE InsertCodOrder(c) \/ CodSideEffects(c)
  <2>1. /\ c \in Cod /\ UNCHANGED <<stale, status, job>>
        /\ \A d \in Checkout \ {c} : order'[d] = order[d] /\ effects'[d] = effects[d]
    BY <1>3 DEF InsertCodOrder, CodSideEffects, Kinds, OtherTyped
  <2>2. \A w \in Worker : job[w].pc # "idle" =>
           order'[job[w].of] = order[job[w].of] /\ effects'[job[w].of] = effects[job[w].of]
    BY <1>o, <2>1
  <2>3. \A d \in Checkout : status[d] # "none" =>
           order'[d] = order[d] /\ effects'[d] = effects[d]
    BY <1>o, <2>1
  <2> QED
    BY <2>1, <2>2, <2>3 DEF FinishInv
<1> QED
  BY <1>1, <1>2, <1>3 DEF RequestStep

\* A worker that keeps what it owns and ends nothing.
LEMMA WorkerKeepsOn ==
    ASSUME FinishInv, NEW w \in Worker,
           UNCHANGED <<stale, status, order, effects>>,
           \A v \in Worker \ {w} : job'[v].pc = job[v].pc /\ job'[v].of = job[v].of,
           \/ /\ job'[w].of = job[w].of /\ job'[w].pc \notin {"recheck", "mark"}
              /\ job[w].pc \in Owning => job'[w].pc \in Owning
           \/ job[w].pc \notin Owning /\ job'[w].pc = "idle"
    PROVE  FinishInv'
<1>1. ASSUME NEW c \in Checkout, status[c] = "processing"
      PROVE  \E v \in Worker : job'[v].of = c /\ job'[v].pc \in Owning
  <2>1. PICK v \in Worker : job[v].of = c /\ job[v].pc \in Owning
    BY <1>1 DEF FinishInv
  <2>2. job'[v].of = c /\ job'[v].pc \in Owning
    BY <2>1
  <2> QED
    BY <2>2
<1> QED
  BY <1>1 DEF FinishInv

LEMMA WorkerFinishes ==
    ASSUME OwnedInv, FinishInv, NEW w \in Worker, WorkerStep(w)
    PROVE  FinishInv'
<1>0. /\ TypeInv /\ JobTyped /\ OtherTyped /\ Kinds /\ OpenInv /\ OwnerInv
      /\ PlacedInv /\ ElectedInv
  BY DEF OwnedInv, EffectsInv, TypeInv, Claims
<1> DEFINE c == job[w].of
<1>o. ~At(w, "idle") => c \in Online /\ c \in Checkout
  BY <1>0 DEF Kinds, At, Checkout
<1> USE <1>0 DEF intentVars, orderVars, At
<1>1. CASE Validate(w)
  BY <1>1, StepMoves, AnswerMoves, WorkerKeepsOn DEF Validate, Owning, Before, After
<1>2. CASE FindExisting(w)
  BY <1>2, StepMoves, AnswerMoves, WorkerKeepsOn
     DEF FindExisting, Owning, Before, After
<1>3. CASE CheckIntent(w)
  BY <1>3, StepMoves, AnswerMoves, WorkerKeepsOn
     DEF CheckIntent, Owning, Before, After
<1>4. CASE Claim(w)
  <2>1. /\ UNCHANGED <<order, effects>> /\ c \in Checkout /\ c \in Online
        /\ job[w].pc = "claim"
        /\ \A v \in Worker : job'[v].of = job[v].of
        /\ \A v \in Worker \ {w} : job'[v] = job[v]
    BY <1>4, <1>o, ClaimMoves DEF Claim
  <2>2. CASE ~Claimable(c)
    <3>1. job'[w].pc = "refind" /\ UNCHANGED <<status, stale>>
      BY <1>4, <2>2, ClaimMoves DEF Claim
    <3> QED
      BY <2>1, <3>1, WorkerKeepsOn DEF Owning, Before, After
  <2>3. CASE Claimable(c)
    <3>1. job'[w].pc = "recheck"
      BY <1>4, <2>3 DEF Claim, JobTyped, Job
    <3>2. \A d \in Checkout :
             /\ status'[d] = IF d = c THEN "processing" ELSE status[d]
             /\ stale'[d] = IF d = c THEN FALSE ELSE stale[d]
      BY <1>4, <2>3 DEF Claim, OtherTyped
    <3>3. status[c] = "pending"
      BY <2>1, <2>3, Zenon DEF Claimable, FinishInv
    <3>4. ~order[c]
      BY <2>1, <3>3 DEF PlacedInv
    <3>5. ASSUME NEW d \in Checkout, status'[d] = "processing"
          PROVE  \E v \in Worker : job'[v].of = d /\ job'[v].pc \in Owning
      <4>1. CASE d = c
        BY <2>1, <3>1, <4>1 DEF Owning
      <4>2. CASE d # c
        <5>1. PICK v \in Worker : job[v].of = d /\ job[v].pc \in Owning
          BY <3>2, <3>5, <4>2 DEF FinishInv
        <5> QED
          BY <2>1, <4>2, <5>1
      <4> QED
        BY <4>1, <4>2
    <3>6. \A v \in Worker : /\ job'[v].pc = "recheck" => ~order'[job'[v].of]
                            /\ job'[v].pc = "mark" => effects'[job'[v].of] = 1
      BY <2>1, <3>1, <3>4 DEF FinishInv
    <3>7. \A d \in Checkout : ~stale'[d]
      BY <3>2 DEF FinishInv
    <3>8. ASSUME NEW d \in Checkout, status'[d] = "fulfilled"
          PROVE  order'[d] /\ effects'[d] = 1
      <4>1. status[d] = "fulfilled"
        BY <3>2, <3>8
      <4>2. order[d] /\ effects[d] = 1
        BY <4>1 DEF FinishInv
      <4>3. order' = order /\ effects' = effects
        BY <2>1
      <4> QED
        BY <4>2, <4>3, Zenon
    <3> QED
      BY <3>5, <3>6, <3>7, <3>8 DEF FinishInv
  <2> QED
    BY <2>2, <2>3
<1>5. CASE Refind(w)
  BY <1>5, AnswerMoves, WorkerKeepsOn DEF Refind, Owning, Before, After
<1>6. CASE Recheck(w)
  <2>1. ~order[c] /\ job[w].pc = "recheck"
    BY <1>6 DEF Recheck, FinishInv
  <2>2. Step(w, "prepare") /\ UNCHANGED <<stale, status, order, effects>>
    BY <1>6, <2>1 DEF Recheck
  <2> QED
    BY <2>1, <2>2, StepMoves, WorkerKeepsOn DEF Owning, Before, After
<1>7. CASE Prepare(w)
  BY <1>7, StepMoves, StepWithMoves, WorkerKeepsOn
     DEF Prepare, Owning, Before, After
<1>8. CASE PaidRollbackDone(w)
  BY <1>8, StepMoves, WorkerKeepsOn DEF PaidRollbackDone, Owning, Before, After
<1>9. CASE PaidReserveDone(w)
  BY <1>9, StepMoves, WorkerKeepsOn DEF PaidReserveDone, Owning, Before, After
<1>10. CASE FlagReserved(w)
  BY <1>10, StepMoves, WorkerKeepsOn DEF FlagReserved, Owning, Before, After
<1>11. CASE Refund(w)
  BY <1>11, StepMoves, WorkerKeepsOn DEF Refund, Owning, Before, After
<1>12. CASE MarkRefunded(w) \/ MarkFulfilled(w)
  <2>1. PICK end \in {"refunded", "refund_failed", "fulfilled"} :
           /\ status' = [status EXCEPT ![c] = end]
           /\ end = "fulfilled" => job[w].pc = "mark"
    BY <1>12 DEF MarkRefunded, MarkFulfilled
  <2>2. /\ UNCHANGED <<stale, order, effects>> /\ ~At(w, "idle")
        /\ job[w].pc \in Owning
    BY <1>12 DEF MarkRefunded, MarkFulfilled, Owning, Before, After
  <2>3. /\ job'[w].pc = "idle"
        /\ \A v \in Worker \ {w} : job'[v] = job[v]
    BY <1>12, AnswerMoves DEF MarkRefunded, MarkFulfilled
  <2>4. /\ c \in Checkout
        /\ \A d \in Checkout : status'[d] = IF d = c THEN end ELSE status[d]
    BY <1>o, <2>1, <2>2 DEF OtherTyped
  <2>5. end = "fulfilled" => order[c] /\ effects[c] = 1
    BY <2>1 DEF PlacedInv, FinishInv, After
  <2>6. ASSUME NEW d \in Checkout, status'[d] = "processing"
        PROVE  \E v \in Worker : job'[v].of = d /\ job'[v].pc \in Owning
    <3>1. d # c /\ status[d] = "processing"
      BY <2>1, <2>4, <2>6
    <3>2. PICK v \in Worker : job[v].of = d /\ job[v].pc \in Owning
      BY <3>1 DEF FinishInv
    <3> QED
      BY <2>3, <3>1, <3>2
  <2>7. \A d \in Checkout : status'[d] = "fulfilled" => order[d] /\ effects[d] = 1
    BY <2>4, <2>5 DEF FinishInv
  <2>8. \A v \in Worker : /\ job'[v].pc = "recheck" => ~order[job'[v].of]
                          /\ job'[v].pc = "mark" => effects[job'[v].of] = 1
    BY <2>3 DEF FinishInv
  <2> QED
    BY <2>2, <2>6, <2>7, <2>8 DEF FinishInv
<1>13. CASE InsertOrder(w) \/ SideEffects(w)
  <2>1. /\ c \in Checkout /\ job[w].pc \in {"insert", "effects"}
        /\ status[c] = "processing"
        /\ \A v \in Worker \ {w} : job[v].pc \in Owning => job[v].of # c
    BY <1>13, <1>o DEF InsertOrder, SideEffects, OwnerInv, Owning, Before, After
  <2>2. /\ UNCHANGED <<stale, status>>
        /\ \A d \in Checkout \ {c} : order'[d] = order[d] /\ effects'[d] = effects[d]
    BY <1>13 DEF InsertOrder, SideEffects, OtherTyped
  <2>3. \A v \in Worker : /\ job'[v].of = job[v].of
                          /\ v # w => job'[v].pc = job[v].pc
                          /\ v = w => \/ job'[v].pc = "ledger"
                                      \/ job'[v].pc = "mark" /\ effects'[c] = 1
    <3>1. CASE InsertOrder(w)
      <4>1. ~order[c] /\ job[w].pc = "insert"
        BY <3>1 DEF InsertOrder, PlacedInv, Before
      <4> QED
        BY <3>1, <4>1, StepMoves DEF InsertOrder, Duplicate
    <3>2. CASE SideEffects(w)
      <4>1. effects[c] = 0
        BY <3>2 DEF SideEffects, ElectedInv, Won
      <4>2. effects'[c] = 1
        BY <2>1, <3>2, <4>1 DEF SideEffects, OtherTyped
      <4> QED
        BY <3>2, <4>2, StepMoves DEF SideEffects
    <3> QED
      BY <1>13, <3>1, <3>2
  <2>4. ASSUME NEW d \in Checkout, status[d] = "processing"
        PROVE  \E v \in Worker : job'[v].of = d /\ job'[v].pc \in Owning
    <3>1. PICK v \in Worker : job[v].of = d /\ job[v].pc \in Owning
      BY <2>4 DEF FinishInv
    <3>2. job'[v].of = d /\ job'[v].pc \in Owning
      BY <2>3, <3>1 DEF Owning, After
    <3> QED
      BY <3>2
  <2>5. \A d \in Checkout : status[d] = "fulfilled" => order'[d] /\ effects'[d] = 1
    BY <2>1, <2>2 DEF FinishInv
  <2>6. \A v \in Worker : /\ job'[v].pc = "recheck" => ~order'[job'[v].of]
                          /\ job'[v].pc = "mark" => effects'[job'[v].of] = 1
    <3> SUFFICES ASSUME NEW v \in Worker, job'[v].pc \in {"recheck", "mark"}
                 PROVE  /\ job'[v].pc = "recheck" => ~order'[job'[v].of]
                        /\ job'[v].pc = "mark" => effects'[job'[v].of] = 1
      OBVIOUS
    <3>1. CASE v = w
      BY <2>3, <3>1
    <3>2. CASE v # w
      <4>1. job[v].pc = job'[v].pc /\ job'[v].of = job[v].of
        BY <2>3, <3>2
      <4>2. job[v].of \in Checkout \ {c}
        BY <2>1, <3>2, <4>1 DEF JobTyped, Owning, After
      <4> QED
        BY <2>2, <4>1, <4>2 DEF FinishInv
    <3> QED
      BY <3>1, <3>2
  <2> QED
    BY <2>2, <2>4, <2>5, <2>6 DEF FinishInv
<1>14. CASE RecordLedger(w)
  BY <1>14, StepMoves, WorkerKeepsOn DEF RecordLedger, Owning, Before, After
<1>15. ASSUME NEW i \in Item, PaidReserveLine(w, i) PROVE FinishInv'
  BY <1>15, JobTodoMoves, WorkerKeepsOn DEF PaidReserveLine, Owning, Before, After
<1>16. ASSUME NEW i \in Item, PaidReserveFails(w, i) PROVE FinishInv'
  BY <1>16, StepWithMoves, WorkerKeepsOn DEF PaidReserveFails, Owning, Before, After
<1>17. ASSUME NEW i \in Item, PaidGiveBack(w, i) PROVE FinishInv'
  BY <1>17, JobTodoMoves, WorkerKeepsOn DEF PaidGiveBack, Owning, Before, After
<1> QED
  BY <1>1, <1>2, <1>3, <1>4, <1>5, <1>6, <1>7, <1>8, <1>9, <1>10, <1>11,
     <1>12, <1>13, <1>14, <1>15, <1>16, <1>17 DEF WorkerStep

LEMMA EnvironmentFinishes ==
    ASSUME ~SlowHandlers, OwnedInv, FinishInv, Environment, UNCHANGED crashes
    PROVE  FinishInv'
<1>0. TypeInv /\ JobTyped /\ OtherTyped
  BY DEF OwnedInv, EffectsInv, TypeInv
<1> USE <1>0 DEF intentVars, orderVars
<1>1. ASSUME NEW c \in Checkout, Pay(c) \/ Abandon(c) PROVE FinishInv'
  BY <1>1 DEF Pay, Abandon, FinishInv
<1>2. ASSUME NEW c \in Checkout PROVE ~ClaimAges(c)
  <2>1. status[c] = "processing" => \E w \in Worker : job[w].of = c
    BY DEF FinishInv
  <2> QED
    BY <2>1 DEF ClaimAges
<1>3. ASSUME NEW c \in Checkout PROVE ~CrashRequest(c)
  BY DEF CrashRequest, OtherTyped
<1>4. ASSUME NEW w \in Worker PROVE ~CrashWorker(w)
  BY DEF CrashWorker, OtherTyped
<1>5. ASSUME NEW w \in Worker, NEW c \in Checkout, Deliver(w, c)
      PROVE  FinishInv'
  <2>1. /\ UNCHANGED <<stale, status, order, effects>>
        /\ job[w].pc = "idle" /\ job'[w].pc = "validate"
        /\ \A v \in Worker \ {w} : job'[v] = job[v]
    BY <1>5, DeliverMoves DEF Deliver, At
  <2>2. ASSUME NEW d \in Checkout, status[d] = "processing"
        PROVE  \E v \in Worker : job'[v].of = d /\ job'[v].pc \in Owning
    <3>1. PICK v \in Worker : job[v].of = d /\ job[v].pc \in Owning
      BY <2>2 DEF FinishInv
    <3>2. v # w
      BY <2>1, <3>1 DEF Owning, Before, After
    <3> QED
      BY <2>1, <3>1, <3>2
  <2> QED
    BY <2>1, <2>2 DEF FinishInv
<1> QED
  BY <1>1, <1>2, <1>3, <1>4, <1>5 DEF Environment

-------------------------------------------------------------------------------
(* Who holds a checkout's units: at most one party at a time                   *)

RequestHolds(c, i) ==
    \/ req[c].pc \in {"held", "insert"}
    \/ req[c].pc = "reserve" /\ i \notin req[c].todo
    \/ req[c].pc \in {"rollback", "release"} /\ i \in req[c].todo

WorkerHolds(w, i) ==
    \/ job[w].pc \in {"recheck", "prepare"} /\ job[w].had
    \/ job[w].pc = "reserve" /\ i \notin job[w].todo
    \/ job[w].pc = "rollback" /\ i \in job[w].todo
    \/ job[w].pc \in {"flag", "insert"}

Holds(c, i) ==
    \/ order[c]
    \/ RequestHolds(c, i)
    \/ status[c] = "pending" /\ reserved[c]
    \/ \E d \in Checkout :
          req[d].pc = "restore" /\ req[d].victim = c /\ i \in req[d].todo
    \/ \E w \in Worker : job[w].of = c /\ WorkerHolds(w, i)

\* What the party in charge of a checkout says of its units.
InCharge ==
    \A c \in Checkout, i \in Item :
        /\ req[c].pc # "open" => (Holds(c, i) <=> order[c] \/ RequestHolds(c, i))
        /\ status[c] = "pending" => (Holds(c, i) <=> reserved[c])
        /\ \A w \in Worker : job[w].of = c /\ job[w].pc \in Owning =>
              (Holds(c, i) <=> order[c] \/ WorkerHolds(w, i))
        /\ \A d \in Checkout : req[d].pc = "restore" /\ req[d].victim = c =>
              (Holds(c, i) <=> i \in req[d].todo)
        /\ status[c] \in {"fulfilled", "refunded", "refund_failed"} =>
              (Holds(c, i) <=> order[c])
        /\ /\ status[c] = "expired"
           /\ \A d \in Checkout : ~(req[d].pc = "restore" /\ req[d].victim = c)
           => ~Holds(c, i)

LEMMA OneInCharge == OwnedInv /\ SweepInv => InCharge
<1> SUFFICES ASSUME OwnedInv, SweepInv, NEW c \in Checkout, NEW i \in Item
             PROVE
        /\ req[c].pc # "open" => (Holds(c, i) <=> order[c] \/ RequestHolds(c, i))
        /\ status[c] = "pending" => (Holds(c, i) <=> reserved[c])
        /\ \A w \in Worker : job[w].of = c /\ job[w].pc \in Owning =>
              (Holds(c, i) <=> order[c] \/ WorkerHolds(w, i))
        /\ \A d \in Checkout : req[d].pc = "restore" /\ req[d].victim = c =>
              (Holds(c, i) <=> i \in req[d].todo)
        /\ status[c] \in {"fulfilled", "refunded", "refund_failed"} =>
              (Holds(c, i) <=> order[c])
        /\ /\ status[c] = "expired"
           /\ \A d \in Checkout : ~(req[d].pc = "restore" /\ req[d].victim = c)
           => ~Holds(c, i)
  BY DEF InCharge
<1>0. /\ OtherTyped /\ OpenInv /\ OwnerInv /\ PlacedInv /\ Kinds
  BY DEF OwnedInv, EffectsInv, TypeInv, Claims
<1>1. \A w \in Worker : job[w].of = c /\ WorkerHolds(w, i) =>
         status[c] = "processing" /\ job[w].pc \in Owning
  BY <1>0 DEF WorkerHolds, OwnerInv, Owning, Before
<1>2. \A d \in Checkout : req[d].pc = "restore" /\ req[d].victim = c =>
         status[c] = "expired"
  BY DEF SweepInv
<1>3. RequestHolds(c, i) => req[c].pc # "open"
  BY DEF RequestHolds
<1>4. status[c] # "none" <=> req[c].pc = "open"
  BY <1>0 DEF OpenInv
<1>5. order[c] => status[c] \in {"none", "processing", "fulfilled"}
  <2>1. CASE c \in Online
    BY <1>0, <2>1 DEF PlacedInv
  <2>2. CASE c \in Cod
    BY <1>0, <1>4, <2>2 DEF PlacedInv
  <2> QED
    BY <2>1, <2>2 DEF Checkout
<1>6. req[c].pc # "open" => (Holds(c, i) <=> order[c] \/ RequestHolds(c, i))
  BY <1>1, <1>2, <1>4 DEF Holds
<1>7. status[c] = "pending" => (Holds(c, i) <=> reserved[c])
  BY <1>1, <1>2, <1>3, <1>4, <1>5 DEF Holds
<1>8. ASSUME NEW w \in Worker, job[w].of = c, job[w].pc \in Owning
      PROVE  Holds(c, i) <=> order[c] \/ WorkerHolds(w, i)
  <2>1. status[c] = "processing"
    BY <1>0, <1>8 DEF OwnerInv
  <2>2. \A v \in Worker : job[v].of = c /\ WorkerHolds(v, i) => v = w
    BY <1>0, <1>1, <1>8 DEF OwnerInv
  <2> QED
    BY <1>2, <1>3, <1>4, <1>8, <2>1, <2>2 DEF Holds
<1>9. ASSUME NEW d \in Checkout, req[d].pc = "restore", req[d].victim = c
      PROVE  Holds(c, i) <=> i \in req[d].todo
  <2>1. status[c] = "expired"
    BY <1>2, <1>9
  <2>2. \A e \in Checkout : req[e].pc = "restore" /\ req[e].victim = c => e = d
    BY <1>9 DEF SweepInv
  <2> QED
    BY <1>1, <1>3, <1>4, <1>5, <1>9, <2>1, <2>2 DEF Holds
<1>10. status[c] \in {"fulfilled", "refunded", "refund_failed"} =>
          (Holds(c, i) <=> order[c])
  BY <1>1, <1>2, <1>3, <1>4 DEF Holds
<1>11. /\ status[c] = "expired"
       /\ \A d \in Checkout : ~(req[d].pc = "restore" /\ req[d].victim = c)
       => ~Holds(c, i)
  BY <1>1, <1>3, <1>4, <1>5 DEF Holds
<1> QED
  BY <1>6, <1>7, <1>8, <1>9, <1>10, <1>11

\* The account of every checkout: its holder's units are taken, and no others.
AccountInv ==
    \A c \in Checkout, i \in Item :
        taken[c][i] = IF Holds(c, i) THEN Want[c][i] ELSE 0

\* Only a legacy intent lacks a reservation to refund without one.
LegacyInv ==
    /\ \A c \in Legacy : status[c] = "pending" => ~reserved[c]
    /\ \A w \in Worker :
          job[w].pc \in {"recheck", "prepare"} /\ job[w].of \in Legacy =>
             ~job[w].had

LEMMA AccountKept ==
    ASSUME AccountInv, UNCHANGED taken,
           \A c \in Checkout, i \in Item :
              Want[c][i] = 0 \/ (Holds(c, i)' <=> Holds(c, i))
    PROVE  AccountInv'
<1> SUFFICES ASSUME NEW c \in Checkout, NEW i \in Item
             PROVE  taken'[c][i] = IF Holds(c, i)' THEN Want[c][i] ELSE 0
  BY DEF AccountInv
<1>1. taken'[c][i] = IF Holds(c, i) THEN Want[c][i] ELSE 0
  BY DEF AccountInv
<1> HIDE DEF Holds
<1> QED
  BY <1>1

LEMMA AccountTaken ==
    ASSUME AccountInv, StockTyped, NEW c \in Checkout, NEW i \in Item,
           Decrement(c, i), ~Holds(c, i), Holds(c, i)',
           \A d \in Checkout, j \in Item :
              (d # c \/ j # i) => (Holds(d, j)' <=> Holds(d, j))
    PROVE  AccountInv'
<1>1. Want[c][i] \in Nat /\ taken[c][i] = 0
  BY StockAssumption DEF AccountInv
<1>2. \A d \in Checkout, j \in Item :
         taken'[d][j] = IF d = c /\ j = i THEN taken[c][i] + Want[c][i]
                        ELSE taken[d][j]
  BY DEF StockTyped, Decrement
<1>3. taken'[c][i] = Want[c][i]
  BY <1>1, <1>2
<1> SUFFICES ASSUME NEW d \in Checkout, NEW j \in Item
             PROVE  taken'[d][j] = IF Holds(d, j)' THEN Want[d][j] ELSE 0
  BY DEF AccountInv
<1>4. CASE d = c /\ j = i
  BY <1>3, <1>4
<1>5. CASE d # c \/ j # i
  <2>1. taken'[d][j] = taken[d][j]
    BY <1>2, <1>5
  <2>2. taken[d][j] = IF Holds(d, j) THEN Want[d][j] ELSE 0
    BY DEF AccountInv
  <2> QED
    BY <1>5, <2>1, <2>2
<1> QED
  BY <1>4, <1>5

LEMMA AccountGivenBack ==
    ASSUME AccountInv, StockTyped, NEW c \in Checkout, NEW i \in Item,
           Restore(c, i), Holds(c, i), ~Holds(c, i)',
           \A d \in Checkout, j \in Item :
              (d # c \/ j # i) => (Holds(d, j)' <=> Holds(d, j))
    PROVE  AccountInv'
<1>1. Want[c][i] \in Nat /\ taken[c][i] = Want[c][i]
  BY StockAssumption DEF AccountInv
<1>2. \A d \in Checkout, j \in Item :
         taken'[d][j] = IF d = c /\ j = i THEN taken[c][i] - Want[c][i]
                        ELSE taken[d][j]
  BY DEF StockTyped, Restore
<1>3. taken'[c][i] = 0
  BY <1>1, <1>2
<1> SUFFICES ASSUME NEW d \in Checkout, NEW j \in Item
             PROVE  taken'[d][j] = IF Holds(d, j)' THEN Want[d][j] ELSE 0
  BY DEF AccountInv
<1>4. CASE d = c /\ j = i
  BY <1>3, <1>4
<1>5. CASE d # c \/ j # i
  <2>1. taken'[d][j] = taken[d][j]
    BY <1>2, <1>5
  <2>2. taken[d][j] = IF Holds(d, j) THEN Want[d][j] ELSE 0
    BY DEF AccountInv
  <2> QED
    BY <1>5, <2>1, <2>2
<1> QED
  BY <1>4, <1>5

\* Who holds the units of a checkout that a step does not touch.
LEMMA Untouched ==
    ASSUME NEW d \in Checkout, NEW i \in Item,
           /\ order'[d] <=> order[d]
           /\ status'[d] = status[d]
           /\ reserved'[d] <=> reserved[d],
           req'[d].pc = req[d].pc /\ req'[d].todo = req[d].todo,
           \A e \in Checkout :
              /\ req'[e].pc = "restore" /\ req'[e].victim = d
                 <=> req[e].pc = "restore" /\ req[e].victim = d
              /\ req[e].pc = "restore" /\ req[e].victim = d =>
                    (i \in req'[e].todo <=> i \in req[e].todo),
           \A w \in Worker :
              /\ job'[w].of = d <=> job[w].of = d
              /\ job[w].of = d => (WorkerHolds(w, i)' <=> WorkerHolds(w, i))
    PROVE  Holds(d, i)' <=> Holds(d, i)
BY Zenon DEF Holds, RequestHolds

\* A request that only moves on, and gives up nothing but empty lines.
LEMMA RequestAccountKept ==
    ASSUME InCharge, InCharge', AccountInv, NEW c \in Checkout,
           UNCHANGED <<taken, status, reserved, order, job>>,
           \A d \in Checkout \ {c} :
              /\ req'[d].pc = req[d].pc /\ req'[d].todo = req[d].todo
              /\ req'[d].victim = req[d].victim,
           req[c].pc \notin {"open", "restore"},
           req'[c].pc \notin {"open", "restore"},
           \A i \in Item : \/ Want[c][i] = 0
                           \/ RequestHolds(c, i)' <=> RequestHolds(c, i)
    PROVE  AccountInv'
<1> SUFFICES ASSUME NEW d \in Checkout, NEW i \in Item
             PROVE  Want[d][i] = 0 \/ (Holds(d, i)' <=> Holds(d, i))
  BY AccountKept
<1>1. CASE d = c
  <2>1. Holds(c, i) <=> order[c] \/ RequestHolds(c, i)
    BY DEF InCharge
  <2>2. Holds(c, i)' <=> order'[c] \/ RequestHolds(c, i)'
    BY DEF InCharge
  <2> HIDE DEF Holds
  <2> QED
    BY <1>1, <2>1, <2>2
<1>2. CASE d # c
  BY <1>2, Untouched DEF WorkerHolds
<1> QED
  BY <1>1, <1>2

\* The sweep lists only reserved intents, and a reservation is never unwritten.
ListedInv ==
    /\ \A c, d \in Checkout : d \in req[c].found => reserved[d]
    /\ \A c \in Legacy : req[c].pc = "open"

LEMMA RequestAccounts ==
    ASSUME OwnedInv, OwnedInv', SweepInv, SweepInv', ListedInv, AccountInv,
           NEW c \in Checkout, RequestStep(c)
    PROVE  AccountInv'
<1>0. /\ TypeInv /\ ReqTyped /\ JobTyped /\ StockTyped /\ OtherTyped /\ Kinds
      /\ OpenInv /\ PlacedInv /\ InCharge
  BY OneInCharge DEF OwnedInv, EffectsInv, TypeInv, Claims
<1>1. InCharge'
  BY OneInCharge, PTL
<1>n. ASSUME NEW d \in Checkout PROVE \A i \in Item : i \notin Lines(d) <=> Want[d][i] = 0
  BY StockAssumption DEF Lines
<1>h. ASSUME NEW i \in Item, req[c].pc # "open"
      PROVE  Holds(c, i) <=> order[c] \/ RequestHolds(c, i)
  BY <1>0, <1>h DEF InCharge
<1>p. ASSUME NEW i \in Item, req'[c].pc # "open"
      PROVE  Holds(c, i)' <=> order'[c] \/ RequestHolds(c, i)'
  BY <1>1, <1>p DEF InCharge
<1>o. req[c].pc \in {"reserve", "rollback", "release", "held", "insert"} => ~order[c]
  <2>1. CASE c \in Online
    BY <1>0, <2>1 DEF PlacedInv, OpenInv
  <2>2. CASE c \in Cod
    BY <1>0, <2>2 DEF PlacedInv
  <2> QED
    BY <2>1, <2>2 DEF Checkout
<1> USE <1>0, <1>1 DEF intentVars, orderVars
<1>2. CASE CreateOrder(c)
  <2>1. /\ req[c].pc = "idle"
        /\ UNCHANGED <<taken, status, reserved, order, job>>
    BY <1>2 DEF CreateOrder
  <2>2. \A d \in Checkout :
           /\ req'[d].pc = IF d = c THEN "sweep" ELSE req[d].pc
           /\ req'[d].todo = req[d].todo /\ req'[d].victim = req[d].victim
    BY <1>2, CreateOrderMoves
  <2> QED
    BY <2>1, <2>2, RequestAccountKept DEF RequestHolds
<1>3. CASE SweepNext(c)
  <2>1. /\ req[c].pc = "restore" /\ req[c].todo = {} /\ req'[c].pc = "sweep"
        /\ UNCHANGED <<taken, status, reserved, order, job>>
        /\ \A d \in Checkout \ {c} : req'[d] = req[d]
    BY <1>3 DEF SweepNext, ReqTyped, Request
  <2>v. PICK v \in Checkout : v = req[c].victim
    BY <2>1 DEF ReqTyped
  <2>2. status[v] = "expired" /\ v # c
    BY <2>1, <2>v DEF SweepInv, OpenInv
  <2>3. \A d \in Checkout \ {c} : req[d].pc = "restore" => req[d].victim # v
    BY <2>1, <2>v DEF SweepInv
  <2> SUFFICES ASSUME NEW d \in Checkout, NEW i \in Item
               PROVE  Want[d][i] = 0 \/ (Holds(d, i)' <=> Holds(d, i))
    BY <2>1, AccountKept
  <2>4. CASE d = v
    <3>1. ~Holds(v, i)
      BY <2>1, <2>v DEF InCharge
    <3>2. ~Holds(v, i)'
      <4>1. \A e \in Checkout : ~(req'[e].pc = "restore" /\ req'[e].victim = v)
        BY <2>1, <2>3
      <4> QED
        BY <2>1, <2>2, <4>1 DEF InCharge
    <3> QED
      BY <2>4, <3>1, <3>2
  <2>5. CASE d = c
    <3>1. ~RequestHolds(c, i) /\ ~RequestHolds(c, i)'
      BY <2>1 DEF RequestHolds
    <3> QED
      BY <1>h, <1>p, <2>1, <2>5, <3>1
  <2>6. CASE d # v /\ d # c
    BY <2>1, <2>v, <2>6, Untouched DEF WorkerHolds
  <2> QED
    BY <2>4, <2>5, <2>6
<1>4. CASE StartReserve(c)
  <2>1. /\ req[c].pc \in {"sweep", "idle"}
        /\ UNCHANGED <<taken, status, reserved, order, job>>
        /\ \A d \in Checkout :
              /\ req'[d].pc = IF d = c THEN "reserve" ELSE req[d].pc
              /\ req'[d].todo = IF d = c THEN Lines(c) ELSE req[d].todo
              /\ req'[d].victim = req[d].victim
    BY <1>4, GotoWithMoves DEF StartReserve
  <2> QED
    BY <1>n, <2>1, RequestAccountKept DEF RequestHolds
<1>5. CASE Rejected(c)
  <2>1. /\ req[c].pc \in {"rollback", "release"} /\ req[c].todo = {}
        /\ UNCHANGED <<taken, status, reserved, order, job>>
        /\ \A d \in Checkout :
              /\ req'[d].pc = IF d = c THEN "rejected" ELSE req[d].pc
              /\ req'[d].todo = req[d].todo /\ req'[d].victim = req[d].victim
    BY <1>5, GotoMoves DEF Rejected
  <2> QED
    BY <2>1, RequestAccountKept DEF RequestHolds
<1>6. CASE ReserveDone(c)
  <2>1. /\ req[c].pc = "reserve" /\ req[c].todo = {}
        /\ UNCHANGED <<taken, status, reserved, order, job>>
        /\ \A d \in Checkout :
              /\ req'[d].pc = IF d = c THEN IF c \in Online THEN "held" ELSE "insert"
                              ELSE req[d].pc
              /\ req'[d].todo = req[d].todo /\ req'[d].victim = req[d].victim
    BY <1>6, GotoMoves DEF ReserveDone
  <2> QED
    BY <2>1, RequestAccountKept DEF RequestHolds
<1>7. CASE InsertIntent(c)
  <2>1. \A d \in Checkout :
           /\ req'[d].pc = IF d = c THEN "open" ELSE req[d].pc
           /\ req'[d].todo = req[d].todo /\ req'[d].victim = req[d].victim
    BY <1>7, GotoMoves DEF InsertIntent
  <2>2. /\ req[c].pc = "held" /\ UNCHANGED <<taken, order, job>>
        /\ \A d \in Checkout :
              /\ status'[d] = IF d = c THEN "pending" ELSE status[d]
              /\ reserved'[d] = IF d = c THEN TRUE ELSE reserved[d]
    BY <1>7 DEF InsertIntent, OtherTyped
  <2> SUFFICES ASSUME NEW d \in Checkout, NEW i \in Item
               PROVE  Want[d][i] = 0 \/ (Holds(d, i)' <=> Holds(d, i))
    BY <2>2, AccountKept
  <2>3. CASE d = c
    <3>1. Holds(c, i)
      BY <1>h, <2>2 DEF RequestHolds
    <3>2. Holds(c, i)'
      BY <2>2 DEF InCharge
    <3> QED
      BY <2>3, <3>1, <3>2
  <2>4. CASE d # c
    BY <2>1, <2>2, <2>4, Untouched DEF WorkerHolds
  <2> QED
    BY <2>3, <2>4
<1>8. CASE InsertIntentFails(c)
  <2>1. /\ req[c].pc = "held"
        /\ UNCHANGED <<taken, status, reserved, order, job>>
        /\ \A d \in Checkout :
              /\ req'[d].pc = IF d = c THEN "release" ELSE req[d].pc
              /\ req'[d].todo = IF d = c THEN Lines(c) ELSE req[d].todo
              /\ req'[d].victim = req[d].victim
    BY <1>8, GotoWithMoves DEF InsertIntentFails
  <2> QED
    BY <1>n, <2>1, RequestAccountKept DEF RequestHolds
<1>9. CASE InsertCodOrder(c)
  <2>1. /\ req[c].pc = "insert" /\ UNCHANGED <<taken, status, reserved, job>>
        /\ \A d \in Checkout : order'[d] <=> (d = c \/ order[d])
        /\ \A d \in Checkout :
              /\ req'[d].pc = IF d = c THEN "effects" ELSE req[d].pc
              /\ req'[d].todo = req[d].todo /\ req'[d].victim = req[d].victim
    BY <1>9, GotoMoves DEF InsertCodOrder, OtherTyped
  <2> SUFFICES ASSUME NEW d \in Checkout, NEW i \in Item
               PROVE  Want[d][i] = 0 \/ (Holds(d, i)' <=> Holds(d, i))
    BY <2>1, AccountKept
  <2>2. CASE d = c
    <3>1. Holds(c, i) /\ Holds(c, i)'
      BY <1>h, <1>p, <2>1 DEF RequestHolds
    <3> QED
      BY <2>2, <3>1
  <2>3. CASE d # c
    BY <2>1, <2>3, Untouched DEF WorkerHolds
  <2> QED
    BY <2>2, <2>3
<1>10. CASE CodSideEffects(c)
  <2>1. /\ req[c].pc = "effects"
        /\ UNCHANGED <<taken, status, reserved, order, job>>
        /\ \A d \in Checkout :
              /\ req'[d].pc = IF d = c THEN "done" ELSE req[d].pc
              /\ req'[d].todo = req[d].todo /\ req'[d].victim = req[d].victim
    BY <1>10, GotoMoves DEF CodSideEffects
  <2> QED
    BY <2>1, RequestAccountKept DEF RequestHolds
<1>11. ASSUME NEW v \in Checkout, SweepOne(c, v) PROVE AccountInv'
  <2>1. /\ req[c].pc = "sweep" /\ UNCHANGED <<taken, reserved, order, job>>
        /\ \A d \in Checkout \ {c} : req'[d] = req[d]
        /\ reserved[v]
    BY <1>11, SweepOneMoves DEF SweepOne, ListedInv
  <2>2. CASE ~ExpireGuard(v)
    <3>1. req'[c].pc = "sweep" /\ UNCHANGED status
      BY <1>11, <2>2, SweepOneMoves DEF SweepOne
    <3> QED
      BY <2>1, <3>1, RequestAccountKept DEF RequestHolds
  <2>3. CASE ExpireGuard(v)
    <3>1. /\ req'[c].pc = "restore" /\ req'[c].todo = Lines(v) /\ req'[c].victim = v
      BY <1>11, <2>3, SweepOneMoves
    <3>2. /\ status[v] = "pending"
          /\ \A d \in Checkout :
                status'[d] = IF d = v THEN "expired" ELSE status[d]
      BY <1>11, <2>3 DEF SweepOne, ExpireGuard, OtherTyped
    <3>3. v # c
      BY <2>1, <3>2 DEF OpenInv
    <3> SUFFICES ASSUME NEW d \in Checkout, NEW i \in Item
                 PROVE  Want[d][i] = 0 \/ (Holds(d, i)' <=> Holds(d, i))
      BY <2>1, AccountKept
    <3>4. CASE d = v
      <4>1. Holds(v, i)
        BY <2>1, <3>2 DEF InCharge
      <4>2. Holds(v, i)' <=> i \in Lines(v)
        BY <3>1 DEF InCharge
      <4> QED
        BY <1>n, <3>4, <4>1, <4>2
    <3>5. CASE d = c
      <4>1. ~RequestHolds(c, i) /\ ~RequestHolds(c, i)'
        BY <2>1, <3>1 DEF RequestHolds
      <4> QED
        BY <1>h, <1>p, <2>1, <3>1, <3>5, <4>1
    <3>6. CASE d # v /\ d # c
      BY <2>1, <3>1, <3>2, <3>6, Untouched DEF WorkerHolds
    <3> QED
      BY <3>4, <3>5, <3>6
  <2> QED
    BY <2>2, <2>3
<1>12. ASSUME NEW i \in Item, SweepRestore(c, i) PROVE AccountInv'
  <2> DEFINE v == req[c].victim
  <2>1. /\ req[c].pc = "restore" /\ i \in req[c].todo /\ Restore(v, i)
        /\ UNCHANGED <<status, reserved, order, job>>
        /\ \A d \in Checkout :
              /\ req'[d].pc = req[d].pc
              /\ req'[d].todo = IF d = c THEN req[d].todo \ {i} ELSE req[d].todo
              /\ req'[d].victim = req[d].victim
    BY <1>12, ReqTodoMoves DEF SweepRestore
  <2>2. v \in Checkout /\ status[v] = "expired" /\ v # c
    BY <2>1 DEF ReqTyped, SweepInv, OpenInv
  <2>3. Holds(v, i) /\ ~Holds(v, i)'
    <3>1. Holds(v, i)
      BY <2>1, <2>2 DEF InCharge
    <3>2. Holds(v, i)' <=> i \in req'[c].todo
      BY <2>1, <2>2 DEF InCharge
    <3> QED
      BY <2>1, <3>1, <3>2
  <2>4. ASSUME NEW d \in Checkout, NEW j \in Item, d # v \/ j # i
        PROVE  Holds(d, j)' <=> Holds(d, j)
    <3>1. CASE d = c
      <4>1. ~RequestHolds(c, j) /\ ~RequestHolds(c, j)'
        BY <2>1 DEF RequestHolds
      <4> QED
        BY <1>h, <1>p, <2>1, <3>1, <4>1
    <3>2. CASE d # c
      BY <2>1, <2>4, <3>2, Untouched DEF WorkerHolds
    <3> QED
      BY <3>1, <3>2
  <2> QED
    BY <2>1, <2>2, <2>3, <2>4, AccountGivenBack
<1>13. ASSUME NEW i \in Item, ReserveLine(c, i) PROVE AccountInv'
  <2>1. /\ req[c].pc = "reserve" /\ i \in req[c].todo /\ Decrement(c, i)
        /\ UNCHANGED <<status, reserved, order, job>>
        /\ \A d \in Checkout :
              /\ req'[d].pc = req[d].pc
              /\ req'[d].todo = IF d = c THEN req[d].todo \ {i} ELSE req[d].todo
              /\ req'[d].victim = req[d].victim
    BY <1>13, ReqTodoMoves DEF ReserveLine, TakeLine
  <2>2. ~Holds(c, i) /\ Holds(c, i)'
    BY <1>h, <1>p, <1>o, <2>1 DEF RequestHolds
  <2>3. ASSUME NEW d \in Checkout, NEW j \in Item, d # c \/ j # i
        PROVE  Holds(d, j)' <=> Holds(d, j)
    <3>1. CASE d = c
      <4>1. RequestHolds(c, j)' <=> RequestHolds(c, j)
        BY <2>1, <2>3, <3>1 DEF RequestHolds
      <4> QED
        BY <1>h, <1>p, <2>1, <3>1, <4>1
    <3>2. CASE d # c
      BY <2>1, <3>2, Untouched DEF WorkerHolds
    <3> QED
      BY <3>1, <3>2
  <2> QED
    BY <2>1, <2>2, <2>3, AccountTaken
<1>14. ASSUME NEW i \in Item, ReserveFails(c, i) PROVE AccountInv'
  <2>1. /\ req[c].pc = "reserve"
        /\ UNCHANGED <<taken, status, reserved, order, job>>
        /\ \A d \in Checkout :
              /\ req'[d].pc = IF d = c THEN "rollback" ELSE req[d].pc
              /\ req'[d].todo = IF d = c THEN Lines(c) \ req[c].todo ELSE req[d].todo
              /\ req'[d].victim = req[d].victim
    BY <1>14, GotoWithMoves DEF ReserveFails, TakenBefore
  <2> QED
    BY <1>n, <2>1, RequestAccountKept DEF RequestHolds
<1>15. ASSUME NEW i \in Item, GiveBackLine(c, i) PROVE AccountInv'
  <2>1. /\ req[c].pc \in {"rollback", "release"} /\ i \in req[c].todo
        /\ Restore(c, i) /\ UNCHANGED <<status, reserved, order, job>>
        /\ \A d \in Checkout :
              /\ req'[d].pc = req[d].pc
              /\ req'[d].todo = IF d = c THEN req[d].todo \ {i} ELSE req[d].todo
              /\ req'[d].victim = req[d].victim
    BY <1>15, ReqTodoMoves DEF GiveBackLine
  <2>2. Holds(c, i) /\ ~Holds(c, i)'
    BY <1>h, <1>p, <1>o, <2>1 DEF RequestHolds
  <2>3. ASSUME NEW d \in Checkout, NEW j \in Item, d # c \/ j # i
        PROVE  Holds(d, j)' <=> Holds(d, j)
    <3>1. CASE d = c
      <4>1. RequestHolds(c, j)' <=> RequestHolds(c, j)
        BY <2>1, <2>3, <3>1 DEF RequestHolds
      <4> QED
        BY <1>h, <1>p, <2>1, <3>1, <4>1
    <3>2. CASE d # c
      BY <2>1, <3>2, Untouched DEF WorkerHolds
    <3> QED
      BY <3>1, <3>2
  <2> QED
    BY <2>1, <2>2, <2>3, AccountGivenBack
<1> QED
  BY <1>2, <1>3, <1>4, <1>5, <1>6, <1>7, <1>8, <1>9, <1>10, <1>11, <1>12,
     <1>13, <1>14, <1>15 DEF RequestStep

\* A worker that only moves on, and gives up nothing but empty lines.
LEMMA WorkerAccountKept ==
    ASSUME InCharge, InCharge', AccountInv, NEW w \in Worker,
           UNCHANGED <<taken, req, status, reserved, order>>,
           \A v \in Worker \ {w} : job'[v] = job[v],
           job[w].of \in Checkout,
           \/ /\ job'[w].of = job[w].of
              /\ \A i \in Item : \/ Want[job[w].of][i] = 0
                                 \/ WorkerHolds(w, i)' <=> WorkerHolds(w, i)
           \/ \A i \in Item : ~WorkerHolds(w, i) /\ ~WorkerHolds(w, i)'
    PROVE  AccountInv'
<1> SUFFICES ASSUME NEW d \in Checkout, NEW i \in Item
             PROVE  Want[d][i] = 0 \/ (Holds(d, i)' <=> Holds(d, i))
  BY AccountKept
<1> DEFINE Rest == \/ order[d]
                   \/ RequestHolds(d, i)
                   \/ status[d] = "pending" /\ reserved[d]
                   \/ \E e \in Checkout : req[e].pc = "restore"
                         /\ req[e].victim = d /\ i \in req[e].todo
           Mine == job[w].of = d /\ WorkerHolds(w, i)
           Theirs == \E v \in Worker \ {w} : job[v].of = d /\ WorkerHolds(v, i)
<1>1. Rest' <=> Rest
  BY DEF RequestHolds
<1>2. Theirs' <=> Theirs
  BY DEF WorkerHolds
<1>3. Want[d][i] = 0 \/ (Mine' <=> Mine)
  OBVIOUS
<1>4. Holds(d, i) <=> Rest \/ Mine \/ Theirs
  BY DEF Holds
<1>5. Holds(d, i)' <=> Rest' \/ Mine' \/ Theirs'
  BY DEF Holds
<1> HIDE DEF Rest, Mine, Theirs
<1> QED
  BY <1>1, <1>2, <1>3, <1>4, <1>5

LEMMA WorkerAccounts ==
    ASSUME OwnedInv, OwnedInv', SweepInv, SweepInv', FinishInv, LegacyInv,
           AccountInv, NEW w \in Worker, WorkerStep(w)
    PROVE  AccountInv'
<1>0. /\ TypeInv /\ ReqTyped /\ JobTyped /\ StockTyped /\ OtherTyped /\ Kinds
      /\ OpenInv /\ OwnerInv /\ PlacedInv /\ InCharge
  BY OneInCharge DEF OwnedInv, EffectsInv, TypeInv, Claims
<1>1. InCharge'
  BY OneInCharge, PTL
<1>n. ASSUME NEW d \in Checkout PROVE \A i \in Item : i \notin Lines(d) <=> Want[d][i] = 0
  BY StockAssumption DEF Lines
<1>w. job[w].pc # "idle"
  BY DEF WorkerStep, Validate, FindExisting, CheckIntent, Claim, Refind, Recheck,
         Prepare, PaidRollbackDone, PaidReserveDone, FlagReserved, Refund,
         MarkRefunded, InsertOrder, RecordLedger, SideEffects, MarkFulfilled,
         PaidReserveLine, PaidReserveFails, PaidGiveBack, At
<1>c. PICK c \in Checkout : c = job[w].of
  BY <1>0, <1>w DEF JobTyped
<1>h. ASSUME NEW i \in Item, job[w].pc \in Owning
      PROVE  Holds(c, i) <=> order[c] \/ WorkerHolds(w, i)
  BY <1>0, <1>c, <1>h DEF InCharge
<1>p. ASSUME NEW i \in Item, job'[w].pc \in Owning, job'[w].of = c
      PROVE  Holds(c, i)' <=> order'[c] \/ WorkerHolds(w, i)'
  BY <1>1, <1>p DEF InCharge
<1>b. job[w].pc \in Before => ~order[c]
  BY <1>0, <1>c DEF PlacedInv
<1>a. job[w].pc \in After => order[c]
  BY <1>0, <1>c DEF PlacedInv
<1> USE <1>0, <1>1 DEF intentVars, orderVars, At
\* The moves of a worker that touch nothing but its own record.
<1>s. ASSUME NEW pc, Step(w, pc)
      PROVE  /\ \A v \in Worker \ {w} : job'[v] = job[v]
             /\ job'[w].pc = pc /\ job'[w].of = c
             /\ job'[w].had = job[w].had /\ job'[w].todo = job[w].todo
  BY <1>c, <1>s DEF Step, JobTyped, Job
<1>t. ASSUME NEW pc, NEW todo, StepWith(w, pc, todo)
      PROVE  /\ \A v \in Worker \ {w} : job'[v] = job[v]
             /\ job'[w].pc = pc /\ job'[w].of = c /\ job'[w].todo = todo
  BY <1>c, <1>t DEF StepWith, JobTyped, Job
<1>u. ASSUME NEW i \in Item, job' = [job EXCEPT ![w].todo = @ \ {i}]
      PROVE  /\ \A v \in Worker \ {w} : job'[v] = job[v]
             /\ job'[w].pc = job[w].pc /\ job'[w].of = c
             /\ job'[w].todo = job[w].todo \ {i}
  BY <1>c, <1>u DEF JobTyped, Job
<1>2. CASE Validate(w) \/ FindExisting(w) \/ CheckIntent(w) \/ Refind(w)
  <2>1. /\ UNCHANGED <<taken, req, status, reserved, order>>
        /\ job[w].pc \in {"validate", "find", "check", "refind"}
        /\ \A v \in Worker \ {w} : job'[v] = job[v]
        /\ job'[w].pc \in {"idle", "find", "check", "claim"}
    <3>1. \/ Answer(w)
          \/ \E pc \in {"find", "check", "claim"} : Step(w, pc)
      BY <1>2 DEF Validate, FindExisting, CheckIntent, Refind
    <3> QED
      BY <1>2, <1>s, <3>1, AnswerMoves DEF Validate, FindExisting, CheckIntent, Refind
  <2> QED
    BY <1>c, <2>1, WorkerAccountKept DEF WorkerHolds
<1>3. CASE Claim(w)
  <2>1. /\ UNCHANGED <<taken, req, reserved, order>> /\ job[w].pc = "claim"
        /\ \A v \in Worker \ {w} : job'[v] = job[v]
        /\ job'[w].of = c
    BY <1>3, <1>c, ClaimMoves DEF Claim
  <2>2. CASE ~Claimable(c)
    <3>1. job'[w].pc = "refind" /\ UNCHANGED status
      BY <1>3, <1>c, <2>2, ClaimMoves DEF Claim
    <3> QED
      BY <1>c, <2>1, <3>1, WorkerAccountKept DEF WorkerHolds
  <2>3. CASE Claimable(c)
    <3>1. job'[w].pc = "recheck" /\ (job'[w].had <=> reserved[c])
      BY <1>3, <1>c, <2>3 DEF Claim, JobTyped, Job
    <3>2. \A d \in Checkout : status'[d] = IF d = c THEN "processing" ELSE status[d]
      BY <1>3, <1>c, <2>3 DEF Claim, OtherTyped
    <3>3. status[c] = "pending"
      BY <2>3, Zenon DEF Claimable, FinishInv
    <3>4. ~order[c]
      BY <3>3 DEF PlacedInv, OpenInv, Checkout
    <3> SUFFICES ASSUME NEW d \in Checkout, NEW i \in Item
                 PROVE  Want[d][i] = 0 \/ (Holds(d, i)' <=> Holds(d, i))
      BY <2>1, AccountKept
    <3>5. CASE d = c
      <4>1. Holds(c, i) <=> reserved[c]
        BY <3>3 DEF InCharge
      <4>2. Holds(c, i)' <=> order'[c] \/ WorkerHolds(w, i)'
        BY <1>p, <2>1, <3>1 DEF Owning
      <4>3. WorkerHolds(w, i)' <=> reserved[c]
        BY <3>1 DEF WorkerHolds
      <4> QED
        BY <2>1, <3>4, <3>5, <4>1, <4>2, <4>3
    <3>6. CASE d # c
      <4>1. \A v \in Worker :
               /\ job'[v].of = d <=> job[v].of = d
               /\ job[v].of = d => (WorkerHolds(v, i)' <=> WorkerHolds(v, i))
        BY <1>c, <2>1, <3>6 DEF WorkerHolds
      <4> QED
        BY <2>1, <3>2, <3>6, <4>1, Untouched
    <3> QED
      BY <3>5, <3>6
  <2> QED
    BY <2>2, <2>3
<1>4. CASE Recheck(w)
  <2>1. ~order[c] /\ job[w].pc = "recheck"
    BY <1>4, <1>c DEF Recheck, FinishInv
  <2>2. Step(w, "prepare") /\ UNCHANGED <<taken, req, status, reserved, order>>
    BY <1>4, <1>c, <2>1 DEF Recheck
  <2> QED
    BY <1>c, <1>s, <2>1, <2>2, WorkerAccountKept DEF WorkerHolds
<1>5. CASE Prepare(w)
  <2>1. /\ job[w].pc = "prepare" /\ UNCHANGED <<taken, req, status, reserved, order>>
        /\ \/ job[w].had /\ Step(w, "insert")
           \/ ~job[w].had /\ StepWith(w, "reserve", Lines(c))
           \/ c \in Legacy /\ Step(w, "refund")
    BY <1>5, <1>c DEF Prepare
  <2>2. CASE job[w].had /\ Step(w, "insert")
    BY <1>c, <1>s, <2>1, <2>2, WorkerAccountKept DEF WorkerHolds
  <2>3. CASE ~job[w].had /\ StepWith(w, "reserve", Lines(c))
    BY <1>c, <1>n, <1>t, <2>1, <2>3, WorkerAccountKept DEF WorkerHolds
  <2>4. CASE c \in Legacy /\ Step(w, "refund")
    <3>1. ~job[w].had
      BY <1>c, <2>1, <2>4 DEF LegacyInv
    <3> QED
      BY <1>c, <1>s, <2>1, <2>4, <3>1, WorkerAccountKept DEF WorkerHolds
  <2> QED
    BY <2>1, <2>2, <2>3, <2>4
<1>6. CASE PaidRollbackDone(w)
  <2>1. /\ job[w].pc = "rollback" /\ job[w].todo = {} /\ Step(w, "refund")
        /\ UNCHANGED <<taken, req, status, reserved, order>>
    BY <1>6 DEF PaidRollbackDone
  <2> QED
    BY <1>c, <1>s, <2>1, WorkerAccountKept DEF WorkerHolds
<1>7. CASE PaidReserveDone(w)
  <2>1. /\ job[w].pc = "reserve" /\ job[w].todo = {} /\ Step(w, "flag")
        /\ UNCHANGED <<taken, req, status, reserved, order>>
    BY <1>7 DEF PaidReserveDone
  <2> QED
    BY <1>c, <1>s, <2>1, WorkerAccountKept DEF WorkerHolds
<1>8. CASE FlagReserved(w)
  <2>1. /\ job[w].pc = "flag" /\ Step(w, "insert")
        /\ UNCHANGED <<taken, req, status, order>>
        /\ \A d \in Checkout : reserved'[d] = IF d = c THEN TRUE ELSE reserved[d]
    BY <1>8, <1>c DEF FlagReserved, OtherTyped
  <2> SUFFICES ASSUME NEW d \in Checkout, NEW i \in Item
               PROVE  Want[d][i] = 0 \/ (Holds(d, i)' <=> Holds(d, i))
    BY <2>1, AccountKept
  <2>2. CASE d = c
    <3>1. Holds(c, i) <=> order[c] \/ WorkerHolds(w, i)
      BY <1>h, <2>1 DEF Owning, Before
    <3>2. Holds(c, i)' <=> order'[c] \/ WorkerHolds(w, i)'
      BY <1>p, <1>s, <2>1 DEF Owning, Before
    <3>3. WorkerHolds(w, i) /\ WorkerHolds(w, i)'
      BY <1>s, <2>1 DEF WorkerHolds
    <3> QED
      BY <2>2, <3>1, <3>2, <3>3
  <2>3. CASE d # c
    <3>1. \A v \in Worker :
             /\ job'[v].of = d <=> job[v].of = d
             /\ job[v].of = d => (WorkerHolds(v, i)' <=> WorkerHolds(v, i))
      BY <1>c, <1>s, <2>1, <2>3 DEF WorkerHolds
    <3> QED
      BY <2>1, <2>3, <3>1, Untouched
  <2> QED
    BY <2>2, <2>3
<1>9. CASE Refund(w)
  <2>1. /\ job[w].pc = "refund" /\ UNCHANGED <<taken, req, status, reserved, order>>
        /\ \E pc \in {"refunded", "refundFailed"} : Step(w, pc)
    BY <1>9 DEF Refund
  <2> QED
    BY <1>c, <1>s, <2>1, WorkerAccountKept DEF WorkerHolds
<1>10. CASE MarkRefunded(w) \/ MarkFulfilled(w)
  <2>1. PICK end \in {"refunded", "refund_failed", "fulfilled"} :
           status' = [status EXCEPT ![c] = end]
    BY <1>10, <1>c DEF MarkRefunded, MarkFulfilled
  <2>2. /\ UNCHANGED <<taken, req, reserved, order>>
        /\ job[w].pc \in {"refunded", "refundFailed", "mark"}
    BY <1>10 DEF MarkRefunded, MarkFulfilled
  <2>3. /\ job'[w].pc = "idle" /\ job'[w].of = None
        /\ \A v \in Worker \ {w} : job'[v] = job[v]
    BY <1>10, AnswerMoves DEF MarkRefunded, MarkFulfilled
  <2>4. \A d \in Checkout : status'[d] = IF d = c THEN end ELSE status[d]
    BY <2>1 DEF OtherTyped
  <2> SUFFICES ASSUME NEW d \in Checkout, NEW i \in Item
               PROVE  Want[d][i] = 0 \/ (Holds(d, i)' <=> Holds(d, i))
    BY <2>2, AccountKept
  <2>5. CASE d = c
    <3>1. Holds(c, i) <=> order[c] \/ WorkerHolds(w, i)
      BY <1>h, <2>2 DEF Owning, Before, After
    <3>2. ~WorkerHolds(w, i)
      BY <2>2 DEF WorkerHolds
    <3>3. Holds(c, i)' <=> order'[c]
      BY <2>1, <2>4 DEF InCharge
    <3> QED
      BY <2>2, <2>5, <3>1, <3>2, <3>3
  <2>6. CASE d # c
    <3>1. \A v \in Worker :
             /\ job'[v].of = d <=> job[v].of = d
             /\ job[v].of = d => (WorkerHolds(v, i)' <=> WorkerHolds(v, i))
      BY <1>c, <2>3, <2>6, CheckoutAssumption DEF WorkerHolds
    <3> QED
      BY <2>2, <2>4, <2>6, <3>1, Untouched
  <2> QED
    BY <2>5, <2>6
<1>11. CASE InsertOrder(w)
  <2>1. /\ job[w].pc = "insert" /\ ~order[c]
        /\ UNCHANGED <<taken, req, status, reserved>>
        /\ \A d \in Checkout : order'[d] <=> (d = c \/ order[d])
        /\ Step(w, "ledger")
    BY <1>11, <1>b, <1>c DEF InsertOrder, Before, Duplicate, OtherTyped
  <2> SUFFICES ASSUME NEW d \in Checkout, NEW i \in Item
               PROVE  Want[d][i] = 0 \/ (Holds(d, i)' <=> Holds(d, i))
    BY <2>1, AccountKept
  <2>2. CASE d = c
    <3>1. Holds(c, i) <=> order[c] \/ WorkerHolds(w, i)
      BY <1>h, <2>1 DEF Owning, Before
    <3>2. Holds(c, i)' <=> order'[c] \/ WorkerHolds(w, i)'
      BY <1>p, <1>s, <2>1 DEF Owning, After
    <3>3. WorkerHolds(w, i) /\ order'[c]
      BY <2>1 DEF WorkerHolds
    <3> QED
      BY <2>2, <3>1, <3>2, <3>3
  <2>3. CASE d # c
    <3>1. \A v \in Worker :
             /\ job'[v].of = d <=> job[v].of = d
             /\ job[v].of = d => (WorkerHolds(v, i)' <=> WorkerHolds(v, i))
      BY <1>c, <1>s, <2>1, <2>3 DEF WorkerHolds
    <3> QED
      BY <2>1, <2>3, <3>1, Untouched
  <2> QED
    BY <2>2, <2>3
<1>12. CASE RecordLedger(w) \/ SideEffects(w)
  <2>1. /\ job[w].pc \in {"ledger", "effects"}
        /\ UNCHANGED <<taken, req, status, reserved, order>>
        /\ \E pc \in {"effects", "mark"} : Step(w, pc)
    BY <1>12 DEF RecordLedger, SideEffects
  <2> QED
    BY <1>c, <1>s, <2>1, WorkerAccountKept DEF WorkerHolds
<1>13. ASSUME NEW i \in Item, PaidReserveLine(w, i) PROVE AccountInv'
  <2>1. /\ job[w].pc = "reserve" /\ i \in job[w].todo /\ Decrement(c, i)
        /\ UNCHANGED <<req, status, reserved, order>>
        /\ job' = [job EXCEPT ![w].todo = @ \ {i}]
    BY <1>13, <1>c DEF PaidReserveLine, TakeLine
  <2>2. job[w].pc \in Owning /\ job'[w].pc \in Owning /\ ~order[c]
    BY <1>b, <1>u, <2>1 DEF Owning, Before
  <2>3. ~Holds(c, i)
    BY <1>h, <2>1, <2>2 DEF WorkerHolds
  <2>4. Holds(c, i)'
    <3>1. WorkerHolds(w, i)'
      BY <1>u, <2>1 DEF WorkerHolds
    <3> QED
      BY <1>p, <1>u, <2>1, <2>2, <3>1
  <2>5. ASSUME NEW d \in Checkout, NEW j \in Item, d # c \/ j # i
        PROVE  Holds(d, j)' <=> Holds(d, j)
    <3>1. \A v \in Worker :
             /\ job'[v].of = d <=> job[v].of = d
             /\ job[v].of = d => (WorkerHolds(v, j)' <=> WorkerHolds(v, j))
      BY <1>c, <1>u, <2>1, <2>5 DEF WorkerHolds
    <3> QED
      BY <2>1, <3>1, Untouched
  <2> QED
    BY <2>1, <2>3, <2>4, <2>5, AccountTaken
<1>14. ASSUME NEW i \in Item, PaidReserveFails(w, i) PROVE AccountInv'
  <2>1. /\ job[w].pc = "reserve" /\ StepWith(w, "rollback", Lines(c) \ job[w].todo)
        /\ UNCHANGED <<taken, req, status, reserved, order>>
    BY <1>14, <1>c DEF PaidReserveFails, TakenBefore
  <2> QED
    BY <1>c, <1>n, <1>t, <2>1, WorkerAccountKept DEF WorkerHolds
<1>15. ASSUME NEW i \in Item, PaidGiveBack(w, i) PROVE AccountInv'
  <2>1. /\ job[w].pc = "rollback" /\ i \in job[w].todo /\ Restore(c, i)
        /\ UNCHANGED <<req, status, reserved, order>>
        /\ job' = [job EXCEPT ![w].todo = @ \ {i}]
    BY <1>15, <1>c DEF PaidGiveBack
  <2>2. job[w].pc \in Owning /\ job'[w].pc \in Owning /\ ~order[c]
    BY <1>b, <1>u, <2>1 DEF Owning, Before
  <2>3. Holds(c, i)
    BY <1>h, <2>1, <2>2 DEF WorkerHolds
  <2>4. ~Holds(c, i)'
    <3>1. ~WorkerHolds(w, i)'
      BY <1>u, <2>1 DEF WorkerHolds
    <3> QED
      BY <1>p, <1>u, <2>1, <2>2, <3>1
  <2>5. ASSUME NEW d \in Checkout, NEW j \in Item, d # c \/ j # i
        PROVE  Holds(d, j)' <=> Holds(d, j)
    <3>1. \A v \in Worker :
             /\ job'[v].of = d <=> job[v].of = d
             /\ job[v].of = d => (WorkerHolds(v, j)' <=> WorkerHolds(v, j))
      BY <1>c, <1>u, <2>1, <2>5 DEF WorkerHolds
    <3> QED
      BY <2>1, <3>1, Untouched
  <2> QED
    BY <2>1, <2>3, <2>4, <2>5, AccountGivenBack
<1> QED
  BY <1>2, <1>3, <1>4, <1>5, <1>6, <1>7, <1>8, <1>9, <1>10, <1>11, <1>12,
     <1>13, <1>14, <1>15 DEF WorkerStep

LEMMA RequestListed ==
    ASSUME OwnedInv, ListedInv, LegacyInv, NEW c \in Checkout, RequestStep(c)
    PROVE  ListedInv' /\ LegacyInv'
<1>0. TypeInv /\ ReqTyped /\ OtherTyped /\ OpenInv
  BY DEF OwnedInv, EffectsInv, TypeInv, Claims
<1> USE <1>0 DEF intentVars, orderVars
<1>k. ASSUME UNCHANGED <<reserved, job>>, req[c].pc # "open",
             \A d \in Checkout : status'[d] = "pending" => status[d] = "pending",
             \A d \in Checkout \ {c} : req'[d] = req[d],
             req'[c].found \subseteq req[c].found
      PROVE  ListedInv' /\ LegacyInv'
  <2>1. \A d \in Checkout : req'[d].found \subseteq req[d].found
    BY <1>k
  <2>2. \A d \in Legacy : req'[d].pc = "open"
    BY <1>k, CheckoutAssumption DEF ListedInv, Checkout
  <2>3. ListedInv'
    BY <1>k, <2>1, <2>2 DEF ListedInv
  <2>4. LegacyInv'
    BY <1>k, CheckoutAssumption DEF LegacyInv, Checkout
  <2> QED
    BY <2>3, <2>4
<1>1. CASE CreateOrder(c)
  <2>1. PICK batch \in SUBSET {d \in Checkout : Sweepable(d)} :
           req' = [req EXCEPT ![c].pc = "sweep", ![c].found = batch]
    BY <1>1 DEF CreateOrder
  <2>2. /\ req[c].pc = "idle" /\ UNCHANGED <<reserved, job, status>>
    BY <1>1 DEF CreateOrder
  <2>3. /\ \A d \in Checkout \ {c} : req'[d] = req[d]
        /\ req'[c].found = batch
    BY <2>1 DEF ReqTyped, Request
  <2>4. \A d \in batch : reserved[d]
    BY DEF Sweepable
  <2>5. \A d \in Legacy : req'[d].pc = "open"
    BY <2>2, <2>3, CheckoutAssumption DEF ListedInv, Checkout
  <2>6. ListedInv'
    BY <2>2, <2>3, <2>4, <2>5 DEF ListedInv
  <2>7. LegacyInv'
    BY <2>2 DEF LegacyInv
  <2> QED
    BY <2>6, <2>7
<1>2. CASE SweepNext(c) \/ StartReserve(c) \/ Rejected(c) \/ ReserveDone(c)
  <2>1. /\ req[c].pc # "open" /\ UNCHANGED <<reserved, job, status>>
    BY <1>2 DEF SweepNext, StartReserve, Rejected, ReserveDone
  <2>2. /\ \A d \in Checkout \ {c} : req'[d] = req[d]
        /\ req'[c].found = req[c].found
    BY <1>2 DEF SweepNext, StartReserve, Rejected, ReserveDone, Goto, GotoWith,
                ReqTyped, Request
  <2> QED
    BY <1>k, <2>1, <2>2
<1>3. CASE InsertIntentFails(c) \/ InsertCodOrder(c) \/ CodSideEffects(c)
  <2>1. /\ req[c].pc # "open" /\ UNCHANGED <<reserved, job, status>>
    BY <1>3 DEF InsertIntentFails, InsertCodOrder, CodSideEffects
  <2>2. /\ \A d \in Checkout \ {c} : req'[d] = req[d]
        /\ req'[c].found = req[c].found
    BY <1>3 DEF InsertIntentFails, InsertCodOrder, CodSideEffects, Goto, GotoWith,
                ReqTyped, Request
  <2> QED
    BY <1>k, <2>1, <2>2
<1>4. CASE InsertIntent(c)
  <2>1. /\ req[c].pc = "held" /\ UNCHANGED job
        /\ \A d \in Checkout :
              /\ status'[d] = IF d = c THEN "pending" ELSE status[d]
              /\ reserved'[d] = IF d = c THEN TRUE ELSE reserved[d]
    BY <1>4 DEF InsertIntent, OtherTyped
  <2>2. /\ \A d \in Checkout \ {c} : req'[d] = req[d]
        /\ req'[c].found = req[c].found
    BY <1>4 DEF InsertIntent, Goto, ReqTyped, Request
  <2>3. c \notin Legacy
    BY <2>1 DEF ListedInv
  <2>4. \A d \in Legacy : req'[d].pc = "open"
    BY <2>2, <2>3, CheckoutAssumption DEF ListedInv, Checkout
  <2>5. \A d, e \in Checkout : e \in req'[d].found => reserved'[e]
    <3> SUFFICES ASSUME NEW d \in Checkout, NEW e \in Checkout, e \in req'[d].found
                 PROVE  reserved'[e]
      OBVIOUS
    <3>1. e \in req[d].found
      BY <2>2
    <3>2. reserved[e]
      BY <3>1 DEF ListedInv
    <3> QED
      BY <2>1, <3>2
  <2>6. LegacyInv'
    BY <2>1, <2>3, CheckoutAssumption DEF LegacyInv, Checkout
  <2> QED
    BY <2>4, <2>5, <2>6 DEF ListedInv
<1>5. ASSUME NEW d \in Checkout, SweepOne(c, d) PROVE ListedInv' /\ LegacyInv'
  <2>1. /\ req[c].pc # "open" /\ UNCHANGED <<reserved, job>>
    BY <1>5 DEF SweepOne
  <2>2. /\ \A e \in Checkout \ {c} : req'[e] = req[e]
        /\ req'[c].found = req[c].found \ {d}
    BY <1>5 DEF SweepOne, ReqTyped, Request
  <2>3. \A e \in Checkout : status'[e] = "pending" => status[e] = "pending"
    BY <1>5 DEF SweepOne, OtherTyped
  <2> QED
    BY <1>k, <2>1, <2>2, <2>3
<1>6. ASSUME NEW i \in Item, \/ SweepRestore(c, i) \/ ReserveLine(c, i)
                             \/ ReserveFails(c, i) \/ GiveBackLine(c, i)
      PROVE  ListedInv' /\ LegacyInv'
  <2>1. /\ req[c].pc # "open" /\ UNCHANGED <<reserved, job, status>>
    BY <1>6 DEF SweepRestore, ReserveLine, ReserveFails, GiveBackLine
  <2>2. /\ \A d \in Checkout \ {c} : req'[d] = req[d]
        /\ req'[c].found = req[c].found
    BY <1>6 DEF SweepRestore, ReserveLine, ReserveFails, GiveBackLine, GotoWith,
                ReqTyped, Request
  <2> QED
    BY <1>k, <2>1, <2>2
<1> QED
  BY <1>1, <1>2, <1>3, <1>4, <1>5, <1>6 DEF RequestStep

LEMMA WorkerListed ==
    ASSUME OwnedInv, FinishInv, ListedInv, LegacyInv, NEW w \in Worker,
           WorkerStep(w)
    PROVE  ListedInv' /\ LegacyInv'
<1>0. TypeInv /\ JobTyped /\ OtherTyped /\ OwnerInv
  BY DEF OwnedInv, EffectsInv, TypeInv, Claims
<1> DEFINE c == job[w].of
<1> USE <1>0 DEF intentVars, orderVars, At
<1>k. ASSUME UNCHANGED <<req, reserved>>,
             \A d \in Checkout : status'[d] = "pending" => status[d] = "pending",
             \A v \in Worker \ {w} : job'[v].pc = job[v].pc
                /\ job'[v].of = job[v].of /\ job'[v].had = job[v].had,
             job'[w].pc \in {"recheck", "prepare"} =>
                \/ job'[w].of \notin Legacy \/ ~job'[w].had
                \/ /\ job[w].pc = "recheck" /\ job'[w].of = job[w].of
                   /\ job'[w].had = job[w].had
      PROVE  ListedInv' /\ LegacyInv'
  <2>1. ListedInv'
    BY <1>k DEF ListedInv
  <2>2. LegacyInv'
    BY <1>k, CheckoutAssumption DEF LegacyInv, Checkout
  <2> QED
    BY <2>1, <2>2
<1>1. CASE Validate(w) \/ FindExisting(w) \/ CheckIntent(w) \/ Refind(w)
  <2>1. \/ Answer(w)
        \/ \E pc \in {"find", "check", "claim"} : Step(w, pc)
    BY <1>1 DEF Validate, FindExisting, CheckIntent, Refind
  <2>2. UNCHANGED <<req, reserved, status>>
    BY <1>1 DEF Validate, FindExisting, CheckIntent, Refind
  <2> QED
    BY <1>k, <2>1, <2>2, AnswerMoves, StepMoves
<1>2. CASE Claim(w)
  <2>1. CASE ~Claimable(c)
    <3>1. Step(w, "refind") /\ UNCHANGED <<req, reserved, status>>
      BY <1>2, <2>1 DEF Claim
    <3> QED
      BY <1>k, <3>1, StepMoves
  <2>2. CASE Claimable(c)
    <3>1. /\ UNCHANGED <<req, reserved>> /\ c \in Checkout
          /\ status' = [status EXCEPT ![c] = "processing"]
          /\ job'[w].of = c /\ job'[w].had = reserved[c]
          /\ \A v \in Worker \ {w} : job'[v] = job[v]
      BY <1>2, <2>2 DEF Claim, JobTyped, Job
    <3>2. \A d \in Checkout : status'[d] = "pending" => status[d] = "pending"
      BY <3>1 DEF OtherTyped
    <3>3. status[c] = "pending"
      BY <2>2, <3>1, Zenon DEF Claimable, FinishInv
    <3>4. job'[w].of \notin Legacy \/ ~job'[w].had
      BY <3>1, <3>3 DEF LegacyInv
    <3> QED
      BY <1>k, <3>1, <3>2, <3>4
  <2> QED
    BY <2>1, <2>2
<1>3. CASE Recheck(w)
  <2>1. /\ job[w].pc = "recheck" /\ UNCHANGED <<req, reserved, status>>
        /\ \E pc \in {"mark", "prepare"} : Step(w, pc)
    BY <1>3 DEF Recheck
  <2> QED
    BY <1>k, <2>1, StepMoves
<1>4. CASE \/ Prepare(w) \/ PaidRollbackDone(w) \/ PaidReserveDone(w) \/ Refund(w)
           \/ InsertOrder(w) \/ RecordLedger(w) \/ SideEffects(w)
  <2>1. UNCHANGED <<req, reserved, status>>
    BY <1>4 DEF Prepare, PaidRollbackDone, PaidReserveDone, Refund, InsertOrder,
                RecordLedger, SideEffects
  <2>2. \/ Answer(w) \/ StepWith(w, "reserve", Lines(c))
        \/ \E pc \in {"insert", "refund", "flag", "refunded", "refundFailed",
                      "ledger", "effects", "mark"} : Step(w, pc)
    BY <1>4 DEF Prepare, PaidRollbackDone, PaidReserveDone, Refund, InsertOrder,
                RecordLedger, SideEffects
  <2> QED
    BY <1>k, <2>1, <2>2, AnswerMoves, StepMoves, StepWithMoves
<1>5. CASE FlagReserved(w)
  <2>1. /\ job[w].pc = "flag" /\ UNCHANGED <<req, status>> /\ Step(w, "insert")
        /\ reserved' = [reserved EXCEPT ![c] = TRUE]
    BY <1>5 DEF FlagReserved
  <2>2. status[c] = "processing"
    BY <2>1 DEF OwnerInv, Owning, Before
  <2>3. \A d \in Checkout : /\ reserved[d] => reserved'[d]
                            /\ d # c => (reserved'[d] <=> reserved[d])
    BY <2>1 DEF OtherTyped
  <2>4. ListedInv'
    BY <2>1, <2>3 DEF ListedInv
  <2>5. \A d \in Legacy : status'[d] = "pending" => ~reserved'[d]
    BY <2>1, <2>2, <2>3, CheckoutAssumption DEF LegacyInv, Checkout
  <2>6. \A v \in Worker :
           job'[v].pc \in {"recheck", "prepare"} /\ job'[v].of \in Legacy =>
             ~job'[v].had
    BY <2>1, StepMoves DEF LegacyInv
  <2> QED
    BY <2>4, <2>5, <2>6 DEF LegacyInv
<1>6. CASE MarkRefunded(w) \/ MarkFulfilled(w)
  <2>1. PICK end \in {"refunded", "refund_failed", "fulfilled"} :
           status' = [status EXCEPT ![c] = end]
    BY <1>6 DEF MarkRefunded, MarkFulfilled
  <2>2. UNCHANGED <<req, reserved>> /\ Answer(w)
    BY <1>6 DEF MarkRefunded, MarkFulfilled
  <2>3. \A d \in Checkout : status'[d] = "pending" => status[d] = "pending"
    BY <2>1 DEF OtherTyped
  <2> QED
    BY <1>k, <2>2, <2>3, AnswerMoves
<1>7. ASSUME NEW i \in Item, PaidReserveLine(w, i) \/ PaidGiveBack(w, i)
      PROVE  ListedInv' /\ LegacyInv'
  <2>1. /\ UNCHANGED <<req, reserved, status>>
        /\ job[w].pc \notin {"recheck", "prepare"}
        /\ job' = [job EXCEPT ![w].todo = @ \ {i}]
    BY <1>7 DEF PaidReserveLine, PaidGiveBack
  <2> QED
    BY <1>k, <2>1, JobTodoMoves
<1>8. ASSUME NEW i \in Item, PaidReserveFails(w, i) PROVE ListedInv' /\ LegacyInv'
  BY <1>8, <1>k, StepWithMoves DEF PaidReserveFails
<1> QED
  BY <1>1, <1>2, <1>3, <1>4, <1>5, <1>6, <1>7, <1>8 DEF WorkerStep

\* What holds until the first crash.
TidyInv == FinishInv /\ ListedInv /\ LegacyInv /\ AccountInv

LEMMA EnvironmentTidies ==
    ASSUME ~SlowHandlers, OwnedInv, OwnedInv', SweepInv, SweepInv', TidyInv,
           Environment, UNCHANGED crashes
    PROVE  TidyInv'
<1>0. /\ TypeInv /\ JobTyped /\ OtherTyped /\ CheckoutAssumption
      /\ FinishInv /\ ListedInv /\ LegacyInv /\ AccountInv
  BY CheckoutAssumption DEF OwnedInv, EffectsInv, TypeInv, TidyInv
<1>1. FinishInv'
  BY <1>0, EnvironmentFinishes
<1>2. UNCHANGED <<taken, req, status, reserved, order>>
  <2>1. ASSUME NEW c \in Checkout PROVE ~CrashRequest(c)
    BY <1>0 DEF CrashRequest, OtherTyped
  <2>2. CASE \E c \in Checkout : Pay(c) \/ Abandon(c) \/ ClaimAges(c)
    BY <2>2 DEF Pay, Abandon, ClaimAges, orderVars, intentVars
  <2>3. CASE \E w \in Worker : CrashWorker(w) \/ \E c \in Checkout : Deliver(w, c)
    BY <2>3 DEF CrashWorker, Deliver, orderVars, intentVars
  <2> QED
    BY <2>1, <2>2, <2>3 DEF Environment
<1>3. \A v \in Worker :
         job'[v] = job[v] \/ (job[v].pc = "idle" /\ job'[v].pc = "validate")
  <2>1. ASSUME NEW w \in Worker, NEW c \in Checkout, Deliver(w, c)
        PROVE  \A v \in Worker :
                 job'[v] = job[v] \/ (job[v].pc = "idle" /\ job'[v].pc = "validate")
    BY <1>0, <2>1, DeliverMoves DEF Deliver, At
  <2>2. ASSUME NEW w \in Worker PROVE ~CrashWorker(w)
    BY <1>0 DEF CrashWorker, OtherTyped
  <2>3. ASSUME NEW c \in Checkout,
               Pay(c) \/ Abandon(c) \/ ClaimAges(c) \/ CrashRequest(c)
        PROVE  UNCHANGED job
    BY <2>3 DEF Pay, Abandon, ClaimAges, CrashRequest
  <2> QED
    BY <2>1, <2>2, <2>3 DEF Environment
<1>4. ListedInv' /\ LegacyInv'
  BY <1>0, <1>2, <1>3 DEF ListedInv, LegacyInv
<1>5. AccountInv'
  <2> SUFFICES ASSUME NEW c \in Checkout, NEW i \in Item
               PROVE  Holds(c, i)' <=> Holds(c, i)
    BY <1>0, <1>2, AccountKept
  <2>1. \A v \in Worker : (job'[v].of = c /\ WorkerHolds(v, i)')
                             <=> (job[v].of = c /\ WorkerHolds(v, i))
    BY <1>3 DEF WorkerHolds
  <2> QED
    BY <1>2, <2>1, Zenon DEF Holds, RequestHolds
<1> QED
  BY <1>1, <1>4, <1>5 DEF TidyInv

LEMMA InitTidy == Init => SweepInv /\ TidyInv
<1> SUFFICES ASSUME Init PROVE SweepInv /\ TidyInv
  OBVIOUS
<1>1. SweepInv /\ FinishInv
  BY DEF Init, SweepInv, FinishInv, NoJob
<1>2. ListedInv /\ LegacyInv
  BY CheckoutAssumption DEF Init, ListedInv, LegacyInv, NoJob, Checkout
<1>3. AccountInv
  BY DEF Init, AccountInv, Holds, RequestHolds, WorkerHolds, NoJob
<1> QED
  BY <1>1, <1>2, <1>3 DEF TidyInv

CalmInv == OwnedInv /\ SweepInv /\ (crashes = 0 => TidyInv)

LEMMA AlwaysCalm ==
    ASSUME ~SlowHandlers
    PROVE  Spec => []CalmInv
<1>1. OwnedInv /\ OwnedInv' /\ SweepInv /\ (crashes = 0 => TidyInv) /\ [Next]_vars
         => SweepInv' /\ (crashes = 0 => TidyInv)'
  <2> SUFFICES ASSUME OwnedInv, OwnedInv', SweepInv, crashes = 0 => TidyInv,
                      [Next]_vars
               PROVE  SweepInv' /\ (crashes' = 0 => TidyInv')
    OBVIOUS
  <2>1. CASE UNCHANGED vars
    BY <2>1 DEF vars, SweepInv, TidyInv, FinishInv, ListedInv, LegacyInv,
                AccountInv, Holds, RequestHolds, WorkerHolds
  <2>2. SweepInv'
    BY <2>1, RequestSweeps, WorkerSweeps, EnvironmentSweeps DEF Next
  <2>3. ASSUME NEW c \in Checkout, RequestStep(c), crashes' = 0 PROVE TidyInv'
    <3>1. UNCHANGED crashes
      BY <2>3
         DEF RequestStep, CreateOrder, SweepNext, StartReserve, Rejected, ReserveDone,
             InsertIntent, InsertIntentFails, InsertCodOrder, CodSideEffects, SweepOne,
             SweepRestore, ReserveLine, ReserveFails, GiveBackLine
    <3>2. TidyInv
      BY <2>3, <3>1
    <3> QED
      BY <2>2, <2>3, <3>2, RequestFinishes, RequestListed, RequestAccounts
         DEF TidyInv
  <2>4. ASSUME NEW w \in Worker, WorkerStep(w), crashes' = 0 PROVE TidyInv'
    <3>1. UNCHANGED crashes
      BY <2>4
         DEF WorkerStep, Validate, FindExisting, CheckIntent, Claim, Refind, Recheck,
             Prepare, PaidRollbackDone, PaidReserveDone, FlagReserved, Refund,
             MarkRefunded, InsertOrder, RecordLedger, SideEffects, MarkFulfilled,
             PaidReserveLine, PaidReserveFails, PaidGiveBack
    <3>2. TidyInv
      BY <2>4, <3>1
    <3> QED
      BY <2>2, <2>4, <3>2, WorkerFinishes, WorkerListed, WorkerAccounts
         DEF TidyInv
  <2>5. ASSUME Environment, crashes' = 0 PROVE TidyInv'
    <3>1. crashes \in Nat
      BY BoundAssumption DEF OwnedInv, EffectsInv, TypeInv, OtherTyped
    <3>2. crashes' = crashes \/ crashes' = crashes + 1
      BY <2>5 DEF Environment, Pay, Abandon, ClaimAges, CrashRequest, CrashWorker,
                  Deliver
    <3>3. UNCHANGED crashes
      BY <2>5, <3>1, <3>2
    <3> QED
      BY <2>2, <2>5, <3>3, EnvironmentTidies
  <2> QED
    BY <2>1, <2>2, <2>3, <2>4, <2>5 DEF Next
<1> QED
  BY <1>1, InitTidy, AlwaysOwned, PTL DEF Spec, CalmInv

\* Nothing leaks: while no handler outlasts its claim and nothing has crashed, a
\* checkout nobody works on holds exactly its cart or nothing, legacy or not.
THEOREM NothingIsLeft ==
    ASSUME ~SlowHandlers
    PROVE  Spec => []NothingLeaks
<1>1. CalmInv => NothingLeaks
  <2> SUFFICES ASSUME CalmInv, crashes = 0, NEW c \in Checkout, Quiet(c),
                      NEW i \in Item
               PROVE  taken[c][i] = IF order[c] \/ (status[c] = "pending" /\ reserved[c])
                                    THEN Want[c][i] ELSE 0
    BY DEF NothingLeaks
  <2>1. Holds(c, i) <=> order[c] \/ (status[c] = "pending" /\ reserved[c])
    BY DEF Holds, RequestHolds, Quiet
  <2>2. taken[c][i] = IF Holds(c, i) THEN Want[c][i] ELSE 0
    BY DEF CalmInv, TidyInv, AccountInv
  <2> HIDE DEF Holds
  <2> QED
    BY <2>1, <2>2
<1> QED
  BY <1>1, AlwaysCalm, PTL

\* A fulfilled intent has its order, its coupon counted and its cart cleared, under
\* the same conditions, however deliveries overlap.
THEOREM FulfilledMeansDone ==
    ASSUME ~SlowHandlers
    PROVE  Spec => []FulfilledIsComplete
<1>1. CalmInv => FulfilledIsComplete
  BY DEF CalmInv, TidyInv, FinishInv, FulfilledIsComplete
<1> QED
  BY <1>1, AlwaysCalm, PTL
====
