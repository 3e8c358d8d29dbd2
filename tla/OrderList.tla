------------------------------ MODULE OrderList ------------------------------
(***************************************************************************)
(* The store's list of orders: filter chips, search, pages, and the        *)
(* buttons that move an order out of the view it is listed in.  A handler  *)
(* goes on, after its answer, with the filter, the page and the rows of    *)
(* the moment its button was clicked.                                      *)
(*                                                                         *)
(* Statuses are three of a retail order's: listed, moved on, cancelled.    *)
(*                                                                         *)
(* Sources: client/src/features/admin/pages/AdminTenantOrders.tsx,         *)
(* useAdminOrders; the list is served by app/routes/orders.py.             *)
(***************************************************************************)
EXTENDS Naturals, FiniteSets

CONSTANTS
  Orders,   \* numbered, the newest first
  Matches,  \* the sets of orders a search or a pair of dates can find
  PageSize,
  Calls,    \* bound: the changes in flight at once
  None

VARIABLES
  status,   \* server: the status of each order
  filter, page, search, \* the view asked for
  rows, total,          \* the view shown: the status of each order listed
  listing,  \* the fetch of the view
  updating, \* updatingOrderId
  pending,  \* the changes in flight, with what their handlers remember
  question, \* the change that waits for "Cancel this order?"
  apart     \* something was clicked while a change or a fetch was under way

listVars == <<status, filter, page, search, rows, total, listing, updating,
              pending, question, apart>>

Status == {"confirmed", "packed", "cancelled"}
Actions(s) == CASE s = "confirmed" -> {"packed", "cancelled"}
                [] s = "packed"    -> {"cancelled"}
                [] s = "cancelled" -> {}

NoRows == [o \in {} |-> None]
NoChange == [order |-> None, to |-> None, filter |-> None, page |-> 0,
             alone |-> FALSE, made |-> FALSE]
Idle == [step |-> "done", rows |-> NoRows, total |-> 0]
Asked == [step |-> "asked", rows |-> NoRows, total |-> 0]

Found(f, m) == {o \in m : f = "all" \/ status[o] = f}
PageOf(set, n) ==
  {o \in set : Cardinality({p \in set : p <= o}) \in (n - 1) * PageSize + 1 .. n * PageSize}
TotalPages == IF total = 0 THEN 1 ELSE (total + PageSize - 1) \div PageSize

Init ==
  /\ status = [o \in Orders |-> "confirmed"]
  /\ filter = "all" /\ page = 1 /\ search = Orders
  /\ rows = NoRows /\ total = 0
  /\ listing = Asked
  /\ updating = None
  /\ pending = [c \in Calls |-> NoChange]
  /\ question = NoChange
  /\ apart = FALSE

Settled == question = NoChange /\ \A c \in Calls : pending[c] = NoChange
Underway == listing # Idle \/ ~Settled
Show == listing' = Asked /\ apart' = (apart \/ Underway)

\* A chip; a search or dates that settled, or the customer taken off: page 1.
ChangeFilter(f) ==
  /\ question = NoChange /\ f # filter
  /\ filter' = f /\ page' = 1
  /\ Show
  /\ UNCHANGED <<status, search, rows, total, updating, pending, question>>
ChangeSearch(m) ==
  /\ question = NoChange /\ m # search
  /\ search' = m /\ page' = 1
  /\ Show
  /\ UNCHANGED <<status, filter, rows, total, updating, pending, question>>

\* Previous and Next: they are drawn under the rows, when there are any.
Turn(n) ==
  /\ question = NoChange /\ rows # NoRows
  /\ \/ page > 1 /\ n = page - 1
     \/ page < TotalPages /\ n = page + 1
  /\ page' = n
  /\ Show
  /\ UNCHANGED <<status, filter, search, rows, total, updating, pending, question>>

\* What handleStatusUpdate closes over.
Change(o, to) ==
  [order |-> o, to |-> to, filter |-> filter, page |-> page,
   alone |-> DOMAIN rows = {o}, made |-> FALSE]

Send(c, change) ==
  /\ pending[c] = NoChange
  /\ pending' = [pending EXCEPT ![c] = change]
  /\ updating' = change.order

HandleStatusUpdate(c, o, to) ==
  /\ question = NoChange
  /\ o \in DOMAIN rows /\ updating # o
  /\ to \in Actions(rows[o])
  /\ IF to = "cancelled"
     THEN question' = Change(o, to) /\ UNCHANGED <<pending, updating>>
     ELSE Send(c, Change(o, to)) /\ UNCHANGED question
  /\ apart' = (apart \/ Underway)
  /\ UNCHANGED <<status, filter, page, search, rows, total, listing>>

AnswerQuestion(c, yes) ==
  /\ question # NoChange
  /\ IF yes THEN Send(c, question) ELSE UNCHANGED <<pending, updating>>
  /\ question' = NoChange
  /\ UNCHANGED <<status, filter, page, search, rows, total, listing, apart>>

ServerMoves(c) ==
  LET k == pending[c]
  IN  /\ k # NoChange /\ ~k.made /\ k.to \in Actions(status[k.order])
      /\ status' = [status EXCEPT ![k.order] = k.to]
      /\ pending' = [pending EXCEPT ![c].made = TRUE]
      /\ UNCHANGED <<filter, page, search, rows, total, listing, updating, question, apart>>

\* Mutant: the page is kept though its only order left it.
StaysOnPage(k) == page

\* The list is fetched again; a page whose only order left the view is left too.
PageAfter(k) ==
  IF k.filter # "all" /\ k.alone /\ k.page > 1 THEN k.page - 1 ELSE page

Answered(c) ==
  /\ pending[c].made
  /\ page' = PageAfter(pending[c])
  /\ listing' = Asked
  /\ updating' = None
  /\ pending' = [pending EXCEPT ![c] = NoChange]
  /\ UNCHANGED <<status, filter, search, rows, total, question, apart>>

CallFailed(c) ==
  /\ pending[c] # NoChange
  /\ updating' = None
  /\ pending' = [pending EXCEPT ![c] = NoChange]
  /\ apart' = (apart \/ pending[c].made)
  /\ UNCHANGED <<status, filter, page, search, rows, total, listing, question>>

ServerLists ==
  /\ listing.step = "asked"
  /\ \E set \in {Found(filter, search)} :
       listing' = [step |-> "read", rows |-> [o \in PageOf(set, page) |-> status[o]],
                   total |-> Cardinality(set)]
  /\ apart' = (apart /\ ~(listing'.rows # NoRows /\ Settled))
  /\ UNCHANGED <<status, filter, page, search, rows, total, updating, pending, question>>
ListArrives ==
  /\ listing.step = "read"
  /\ rows' = listing.rows /\ total' = listing.total
  /\ listing' = Idle
  /\ UNCHANGED <<status, filter, page, search, updating, pending, question, apart>>

Next ==
  \/ \E f \in Status \union {"all"} : ChangeFilter(f)
  \/ \E m \in Matches : ChangeSearch(m)
  \/ \E n \in 1..Cardinality(Orders) : Turn(n)
  \/ \E c \in Calls, o \in Orders, to \in Status : HandleStatusUpdate(c, o, to)
  \/ \E c \in Calls, yes \in BOOLEAN : AnswerQuestion(c, yes)
  \/ \E c \in Calls : ServerMoves(c) \/ Answered(c) \/ CallFailed(c)
  \/ ServerLists \/ ListArrives

Spec == Init /\ [][Next]_listVars

-----------------------------------------------------------------------------
EmptyPage == listing = Idle /\ total > 0 /\ rows = NoRows

\* A change that runs alone never strands the staff on a page beyond the last
\* one, which has no buttons to turn back.
ChangeLeavesNoEmptyPage == EmptyPage => apart

\* handleStatusUpdate promises it of every change: the view is never an empty
\* page of a list that has orders.
NeverAnEmptyPage == ~EmptyPage
=============================================================================
