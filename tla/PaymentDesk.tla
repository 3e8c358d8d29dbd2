----------------------------- MODULE PaymentDesk -----------------------------
(***************************************************************************)
(* The page of a store's payments: a statement for a range of dates, and   *)
(* the platform's payouts, delivery charges and commission rate.  Each     *)
(* range has its own answer in the query cache, good until a change of     *)
(* this page marks it; a statement that has no answer yet takes the whole  *)
(* page.                                                                   *)
(*                                                                         *)
(* An entry is "open" (its delivery charge unknown), "due" or "paid"; an   *)
(* open entry can be paid too ("paid open").  The amounts follow from      *)
(* these.  Pages of a statement are not told apart.                        *)
(*                                                                         *)
(* Sources: client/src/features/admin/pages/AdminTenantPayments.tsx,       *)
(* hooks/useLedger.ts and api/ledger.api.ts; what the server does with a   *)
(* payout is in Ledger.                                                    *)
(***************************************************************************)
EXTENDS Naturals, FiniteSets

CONSTANTS
  Entries, Ranges, Calls,
  EntriesOf(_), \* the entries of a range
  Rates,        \* commission rates
  MaxPayCalls,  \* bound: calls sent
  None

VARIABLES
  ledger,    \* server: how each entry stands
  rate,      \* server: the store's commission rate
  range,     \* the dates chosen
  answers,   \* query cache: [data, stale] of a range, or None
  fetching,  \* the fetch of a range and what it read
  rateShown, \* the store's data as last fetched
  rateTyped, \* commissionValue once touched, or None
  paying,    \* each call: None or [what, ..., done]
  syncing,   \* syncingOrderId
  payCalls,  \* calls sent (bounded)
  unheard,   \* a change was made whose answer was lost
  outlived   \* dates were left while their statement was on its way

payVars == <<ledger, rate, range, answers, fetching, rateShown, rateTyped, paying,
             syncing, payCalls, unheard, outlived>>
ghosts == <<unheard, outlived>>

Paid(e) == ledger[e] \in {"paid", "paid open"}
Opened(e) == ledger[e] \in {"open", "paid open"}
Statement(r) == [e \in EntriesOf(r) |-> ledger[e]]
Fetch(step, data) == [step |-> step, data |-> data]
NoFetch == Fetch("none", None)
Asked == Fetch("asked", None)

Init ==
  /\ ledger \in [Entries -> {"open", "due"}]
  /\ rate \in Rates /\ rateShown = rate /\ rateTyped = None
  /\ range \in Ranges
  /\ answers = [r \in Ranges |-> None]
  /\ fetching = [r \in Ranges |-> IF r = range THEN Asked ELSE NoFetch]
  /\ paying = [c \in Calls |-> None] /\ syncing = None /\ payCalls = 0
  /\ unheard = FALSE /\ outlived = FALSE

\* isStatementLoading hides everything, the dates too.
Shown == answers[range] # None
Due(e) == answers[range].data[e] \in {"open", "due"}

\* The dates change, or are cleared: a range with a good answer is not fetched.
ChooseDates(r) ==
  /\ Shown /\ r # range
  /\ range' = r
  /\ fetching' = IF fetching[r] = NoFetch /\ (answers[r] = None \/ answers[r].stale)
                 THEN [fetching EXCEPT ![r] = Asked] ELSE fetching
  /\ outlived' = (outlived \/ fetching[range] # NoFetch)
  /\ UNCHANGED <<ledger, rate, answers, rateShown, rateTyped, paying, syncing, payCalls, unheard>>

StatementRead(r) ==
  /\ fetching[r] = Asked
  /\ fetching' = [fetching EXCEPT ![r] = Fetch("read", Statement(r))]
  /\ UNCHANGED <<ledger, rate, range, answers, rateShown, rateTyped, paying, syncing, payCalls>>
  /\ UNCHANGED ghosts
\* An answer counts as good however old what it read is.
StatementArrives(r) ==
  /\ fetching[r].step = "read"
  /\ answers' = [answers EXCEPT ![r] = [data |-> fetching[r].data, stale |-> FALSE]]
  /\ fetching' = [fetching EXCEPT ![r] = NoFetch]
  /\ UNCHANGED <<ledger, rate, range, rateShown, rateTyped, paying, syncing, payCalls>>
  /\ UNCHANGED ghosts

-----------------------------------------------------------------------------
Send(c, what) ==
  /\ Shown /\ paying[c] = None /\ payCalls < MaxPayCalls
  /\ payCalls' = payCalls + 1
  /\ paying' = [paying EXCEPT ![c] = what]
  /\ UNCHANGED <<ledger, rate, range, answers, fetching, rateShown>> /\ UNCHANGED ghosts

Pending(what) == \E c \in Calls : paying[c] # None /\ paying[c].what = what

\* handleRecordPayout, while the statement shows a balance due.
HandleRecordPayout(c) ==
  /\ Shown /\ ~Pending("payout")
  /\ \E e \in EntriesOf(range) : Due(e)
  /\ Send(c, [what |-> "payout", of |-> range, done |-> FALSE])
  /\ UNCHANGED <<rateTyped, syncing>>
\* handleSyncDeliveryCharge: only the row of the last click is marked busy.
HandleSyncDeliveryCharge(c, e) ==
  /\ Shown /\ e \in EntriesOf(range) /\ answers[range].data[e] \in {"open", "paid open"}
  /\ syncing # e
  /\ Send(c, [what |-> "sync", of |-> e, done |-> FALSE])
  /\ syncing' = e
  /\ UNCHANGED rateTyped
TypeCommission(v) ==
  /\ Shown /\ rateTyped # v
  /\ rateTyped' = v
  /\ UNCHANGED <<ledger, rate, range, answers, fetching, rateShown, paying, syncing, payCalls>>
  /\ UNCHANGED ghosts
HandleSaveCommission(c) ==
  /\ ~Pending("commission")
  /\ Send(c, [what |-> "commission", of |-> IF rateTyped = None THEN rateShown ELSE rateTyped,
              done |-> FALSE])
  /\ UNCHANGED <<rateTyped, syncing>>

\* The server: a payout settles what is due in its range, and none is recorded
\* when nothing is; a delivery charge becomes known.
ServerActs(c) ==
  /\ paying[c] # None /\ ~paying[c].done
  /\ LET call == paying[c]
     IN \/ /\ call.what = "payout"
           /\ \E e \in EntriesOf(call.of) : ~Paid(e)
           /\ ledger' = [e \in Entries |->
                IF e \notin EntriesOf(call.of) \/ Paid(e) THEN ledger[e]
                ELSE IF Opened(e) THEN "paid open" ELSE "paid"]
           /\ rate' = rate
        \/ /\ call.what = "sync"
           /\ ledger' = [ledger EXCEPT ![call.of] = IF Paid(call.of) THEN "paid" ELSE "due"]
           /\ rate' = rate
        \/ /\ call.what = "commission"
           /\ rate' = call.of
           /\ ledger' = ledger
  /\ paying' = [paying EXCEPT ![c].done = TRUE]
  /\ UNCHANGED <<range, answers, fetching, rateShown, rateTyped, syncing, payCalls>>
  /\ UNCHANGED ghosts

\* Mutant: only the payouts are marked.
KeepAnswers == UNCHANGED <<answers, fetching>>

\* onSuccess: every statement is marked, and the one shown is asked for again,
\* whatever was on its way.
Invalidate ==
  /\ answers' = [r \in Ranges |->
       IF answers[r] = None THEN None ELSE [answers[r] EXCEPT !.stale = TRUE]]
  /\ fetching' = [fetching EXCEPT ![range] = Asked]

Ended(c) == paying' = [paying EXCEPT ![c] = None]
Unmark(c) ==
  syncing' = IF paying[c].what = "sync" /\ paying[c].of = syncing THEN None ELSE syncing
Answered(c) ==
  /\ paying[c] # None /\ paying[c].done
  /\ Invalidate
  /\ rateShown' = IF paying[c].what = "commission" THEN rate ELSE rateShown
  /\ Unmark(c) /\ Ended(c)
  /\ UNCHANGED <<ledger, rate, range, rateTyped, payCalls>> /\ UNCHANGED ghosts
CallFails(c) ==
  /\ paying[c] # None
  /\ unheard' = (unheard \/ paying[c].done)
  /\ Unmark(c) /\ Ended(c)
  /\ UNCHANGED <<ledger, rate, range, answers, fetching, rateShown, rateTyped, payCalls,
                 outlived>>

Next ==
  \/ \E r \in Ranges : ChooseDates(r) \/ StatementRead(r) \/ StatementArrives(r)
  \/ \E v \in Rates : TypeCommission(v)
  \/ \E c \in Calls :
       \/ HandleRecordPayout(c) \/ HandleSaveCommission(c)
       \/ \E e \in Entries : HandleSyncDeliveryCharge(c, e)
       \/ ServerActs(c) \/ Answered(c) \/ CallFails(c)

Spec == Init /\ [][Next]_payVars

-----------------------------------------------------------------------------
\* When every call was heard and nothing is on its way, the statement is what
\* the ledger holds for its dates, whichever dates were looked at in between,
\* so that a payout is announced with the amount it will settle; unless dates
\* were left while their statement was on its way, which then counts as good
\* however old it is.
StatementIsLedger ==
  (/\ Shown /\ fetching[range] = NoFetch
   /\ \A c \in Calls : paying[c] = None \/ ~paying[c].done
   /\ ~unheard /\ ~outlived)
    => answers[range].data = Statement(range)
=============================================================================
