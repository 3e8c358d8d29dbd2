---------------------------- MODULE StoreBilling ----------------------------
(***************************************************************************)
(* The subscription of one store.  Nothing runs on a clock: every request  *)
(* that checks the store loads it and writes what has become of its status *)
(* since; Razorpay charges a subscription and tells the store by webhooks; *)
(* a super admin may exempt the store or take that back.                   *)
(*                                                                         *)
(* A request writes from the document it has loaded, whatever others wrote *)
(* since; a webhook may come twice, late, or after a newer one.  What goes *)
(* wrong that way is written down in upset, where it happens.              *)
(*                                                                         *)
(* Source: app/services/billing_service.py.  autopaySetUp, which no        *)
(* handler reads, is left out.                                             *)
(***************************************************************************)
EXTENDS Naturals, Sequences

CONSTANTS
  Requests, \* requests and webhooks handled at the same time
  TrialEnd, Grace, Period, \* in days of the model
  MaxTime, MaxVisits, MaxEvents, MaxPlans, \* bounds: the days, the requests, what
            \* Razorpay tells, the subscriptions
  None

VARIABLES
  now,
  visits,  \* requests so far (bounded)
  billing, \* the store's billing document
  copy,    \* the document each request has loaded, what for, and the webhook it handles
           \* or the subscription it made
  plans,   \* the store's subscriptions at Razorpay
  mail,    \* webhooks Razorpay sends until it hears an answer
  told,    \* how many it has sent
  heard,   \* history: the day up to which the store was told that it has paid
  charge,  \* history: the charge that told so, of the subscription it knows
  upset    \* history: something went wrong since then

billingVars == <<now, visits, billing, copy, plans, mail, told, heard, charge, upset>>
razorpay == <<plans, mail, told>>

\* What may go wrong: an exemption is taken back (Bill); a request writes what it would
\* not have written from the document as it is by then (Write); a new subscription takes
\* over in a period that was paid (Enrol); the store is told of a charge, or of one that
\* failed, after a newer charge (Webhook).
NewStore == [status |-> "trialing", grace |-> None, end |-> None, plan |-> 0,
             cancelled |-> FALSE]
Init ==
  /\ now = 0 /\ visits = 0 /\ billing = NewStore
  /\ copy = [r \in Requests |-> None]
  /\ plans = <<>> /\ mail = {} /\ told = 0
  /\ heard = 0 /\ charge = 0 /\ upset = FALSE

Tick ==
  /\ now < MaxTime
  /\ now' = now + 1
  /\ UNCHANGED <<visits, billing, copy, razorpay, heard, charge, upset>>

Loaded(why, was, event, made) ==
  [why |-> why, was |-> was, event |-> event, made |-> made]
Visit == visits < MaxVisits /\ visits' = visits + 1

\* A request loads the store: to check it, to subscribe, to bill it again, or to handle a
\* webhook about the subscription the store knows.
Load(r) ==
  /\ copy[r] = None /\ Visit
  /\ \/ \E why \in {"check", "bill"} :
          copy' = [copy EXCEPT ![r] = Loaded(why, billing, None, 0)]
     \/ \E e \in mail :
          /\ e.plan = billing.plan
          /\ copy' = [copy EXCEPT ![r] = Loaded("webhook", billing, e, 0)]
  /\ UNCHANGED <<now, billing, razorpay, heard, charge, upset>>

\* ensure_billing_status_current, from the copy b at time t: the status and the end of
\* the grace it arrives at.
Overdue(b, t) ==
  \/ b.status = "trialing" /\ t >= TrialEnd
  \/ b.status = "active" /\ b.end # None /\ t >= b.end
GraceFrom(b) == (IF b.status = "trialing" THEN TrialEnd ELSE b.end) + Grace
Current(b, t) ==
  LET due == b.status = "past_due" \/ Overdue(b, t)
      g == IF Overdue(b, t) THEN GraceFrom(b) ELSE b.grace
  IN IF ~due THEN [status |-> b.status, grace |-> b.grace]
     ELSE IF g = None THEN [status |-> "past_due", grace |-> t + Grace]
     ELSE [status |-> IF t >= g THEN "suspended" ELSE "past_due", grace |-> g]

\* What it writes on the document of now: the status if it has changed, the end of the
\* grace if it worked one out.
Checked(b) ==
  LET c == Current(b, now)
  IN [billing EXCEPT !.status = IF c.status = b.status THEN @ ELSE c.status,
                     !.grace = IF Overdue(b, now) \/ c.grace # b.grace THEN c.grace ELSE @]

\* A request writes what it made of its copy; fresh is what it would have made of the
\* document as it is.
Write(written, fresh) ==
  /\ billing' = written
  /\ upset' = (upset \/ written # fresh)

Is(r, why) == copy[r] # None /\ copy[r].why = why
Ends(r) == copy' = [copy EXCEPT ![r] = None]

Check(r) ==
  /\ Is(r, "check")
  /\ Write(Checked(copy[r].was), Checked(billing))
  /\ Ends(r)
  /\ UNCHANGED <<now, visits, razorpay, heard, charge>>

\* create_subscription_for_tenant: an exempt store has none; one made during the trial is
\* charged from its end on.  One that still stands is reused when Razorpay shows it, and
\* Razorpay may refuse to make one: that is a Check.
Subscribe(r) ==
  /\ Is(r, "check")
  /\ LET b == copy[r].was
         start == IF Current(b, now).status = "trialing" THEN TrialEnd ELSE now
     IN /\ b.status # "exempt" /\ Len(plans) < MaxPlans
        /\ Write(Checked(b), Checked(billing))
        /\ plans' = Append(plans, [status |-> "active", start |-> start, paidUntil |-> 0])
  /\ copy' = [copy EXCEPT ![r] = Loaded("enrol", NewStore, None, Len(plans) + 1)]
  /\ UNCHANGED <<now, visits, mail, told, heard, charge>>

\* The store knows the new subscription from here on.
Enrol(r) ==
  /\ Is(r, "enrol")
  /\ billing' = [billing EXCEPT !.plan = copy[r].made, !.cancelled = FALSE]
  /\ charge' = 0
  /\ upset' = (upset \/ now < heard)
  /\ Ends(r)
  /\ UNCHANGED <<now, visits, razorpay, heard>>

\* set_billing_exempt, which writes nothing of what it has loaded, and its opposite; the
\* summary they answer with is a Check of its own.
Exempt ==
  /\ Visit
  /\ billing' = [billing EXCEPT !.status = "exempt", !.grace = None]
  /\ UNCHANGED <<now, copy, razorpay, heard, charge, upset>>
Bill(r) ==
  /\ Is(r, "bill")
  /\ billing' = [billing EXCEPT !.status = "past_due", !.grace = now + Grace,
                   !.end = copy[r].was.end, !.plan = copy[r].was.plan]
  /\ upset' = TRUE
  /\ Ends(r)
  /\ UNCHANGED <<now, visits, razorpay, heard, charge>>

\* Mutant: a charge revives no store that is shut already.
ChargedUnlessShut(b, e) ==
  LET paid == [billing EXCEPT !.end = e.end]
  IN IF b.status \in {"exempt", "suspended"} THEN paid
     ELSE [paid EXCEPT !.status = "active", !.grace = None]

\* handle_subscription_event, for the event e of a store loaded as b.
Charged(b, e) ==
  LET paid == [billing EXCEPT !.end = e.end]
  IN IF b.status = "exempt" THEN paid ELSE [paid EXCEPT !.status = "active", !.grace = None]
Failed(b) ==
  IF b.status \in {"exempt", "suspended"} THEN billing
  ELSE [billing EXCEPT !.status = "past_due",
                       !.grace = IF b.grace = None THEN now + Grace ELSE @]
Handled(b, e) ==
  CASE e.kind = "charged" -> Charged(b, e)
    [] e.kind = "failed" -> Failed(b)
    [] e.kind = "cancelled" -> [billing EXCEPT !.cancelled = TRUE]

\* Razorpay sends a webhook again until it hears an answer.  A charge the store is told
\* of in time, and writes down as it should, settles what went wrong before.
Webhook(r) ==
  /\ Is(r, "webhook")
  /\ LET e == copy[r].event
         known == e.plan = billing.plan
         charged == e.kind = "charged"
         late == e.kind # "cancelled" /\ e.n < charge
         written == Handled(copy[r].was, e)
         fresh == IF known THEN Handled(billing, e) ELSE billing
     IN /\ billing' = written
        /\ IF known /\ charged /\ ~late
           THEN heard' = e.end /\ charge' = e.n /\ upset' = (written # fresh)
           ELSE upset' = (upset \/ late \/ written # fresh) /\ UNCHANGED <<heard, charge>>
        /\ mail' \in {mail, mail \ {e}}
  /\ Ends(r)
  /\ UNCHANGED <<now, visits, plans, told>>
\* One about another subscription is ignored.
Ignore ==
  /\ \E e \in mail : e.plan # billing.plan /\ mail' = mail \ {e}
  /\ UNCHANGED <<now, visits, billing, copy, plans, told, heard, charge, upset>>

\* Razorpay charges a subscription when a period is over, or fails to and tries again,
\* or the owner cancels it.
Tells(i, kind, end) ==
  /\ mail' = mail \cup {[n |-> told + 1, kind |-> kind, end |-> end, plan |-> i]}
  /\ told' = told + 1
Razorpay(i) ==
  /\ plans[i].status \in {"active", "pending"} /\ told < MaxEvents
  /\ \/ /\ now >= plans[i].start /\ now >= plans[i].paidUntil
        /\ \/ /\ plans' = [plans EXCEPT ![i].status = "active",
                                        ![i].paidUntil = now + Period]
              /\ Tells(i, "charged", now + Period)
           \/ /\ plans' = [plans EXCEPT ![i].status = "pending"]
              /\ Tells(i, "failed", None)
     \/ plans' = [plans EXCEPT ![i].status = "cancelled"] /\ Tells(i, "cancelled", None)
  /\ UNCHANGED <<now, visits, billing, copy, heard, charge, upset>>

Next ==
  \/ Tick \/ Exempt \/ Ignore
  \/ \E i \in DOMAIN plans : Razorpay(i)
  \/ \E r \in Requests :
       \/ Load(r) \/ Check(r) \/ Subscribe(r) \/ Enrol(r) \/ Bill(r) \/ Webhook(r)

Spec == Init /\ [][Next]_billingVars

-----------------------------------------------------------------------------
\* A store is shut only when its grace is over, and never while it knows that it has
\* paid, whatever charges failed in between and whatever requests overlapped, unless one
\* of the upsets befell it since the last charge it was told of.
PaidStaysOpen ==
  billing.status = "suspended" /\ ~upset =>
    /\ billing.grace # None /\ now >= billing.grace
    /\ now >= heard
=============================================================================
