------------------------------ MODULE CartPage ------------------------------
(***************************************************************************)
(* The cart page: the lines as they were last fetched, the changes sent    *)
(* for them and the one line of each kind that is marked busy.  Clicking   *)
(* on a second line takes the mark from the first one, so several changes  *)
(* of one line can be on their way, and be answered in any order.          *)
(*                                                                         *)
(* Sources: client/src/pages/Cart and client/src/features/cart.            *)
(***************************************************************************)
EXTENDS Naturals

CONSTANTS
  Products, None,
  Calls,  \* bound: the changes in flight at once
  MaxQty  \* bound: the quantity of a line

VARIABLES
  cart,     \* server: the quantity of each line, 0 when there is none
  lines,    \* the page's lines
  updating, \* updatingItemId
  removing, \* removingItemId
  call,     \* the changes in flight
  fetch,    \* the fetch of the cart
  missed    \* an answer was lost: of a change the server has made, or of a fetch

cartVars == <<cart, lines, updating, removing, call, fetch, missed>>

NoCall == [kind |-> "none", product |-> None, qty |-> 0, done |-> FALSE]
Empty == [p \in Products |-> 0]
Idle == [step |-> "done", cart |-> Empty]
Asked == [step |-> "asked", cart |-> Empty]
Line(p) == lines[p] > 0

Init ==
  /\ cart = [p \in Products |-> 1]
  /\ lines = cart
  /\ updating = None
  /\ removing = None
  /\ call = [c \in Calls |-> NoCall]
  /\ fetch = Idle
  /\ missed = FALSE

Send(c, kind, p, q) ==
  /\ call[c] = NoCall
  /\ call' = [call EXCEPT ![c] = [kind |-> kind, product |-> p, qty |-> q, done |-> FALSE]]
  /\ UNCHANGED <<cart, lines, fetch, missed>>

\* The - and + of a line: they are off while this line is the one marked, and
\* count from the quantity shown.
UpdateQuantity(c, p, q) ==
  /\ Line(p) /\ updating # p
  /\ q = lines[p] + 1 \/ (lines[p] > 1 /\ q = lines[p] - 1)
  /\ q <= MaxQty
  /\ Send(c, "update", p, q)
  /\ updating' = p
  /\ UNCHANGED removing

RemoveItem(c, p) ==
  /\ Line(p) /\ removing # p
  /\ Send(c, "remove", p, 0)
  /\ removing' = p
  /\ UNCHANGED updating

\* The button of the header, off while clearing.
ClearCart(c) ==
  /\ \E p \in Products : Line(p)
  /\ \A d \in Calls : call[d].kind # "clear"
  /\ Send(c, "clear", None, 0)
  /\ UNCHANGED <<updating, removing>>

\* The server makes the change; a line that is gone cannot be updated.
ServerChanges(c) ==
  LET k == call[c]
  IN  /\ k.kind # "none" /\ ~k.done
      /\ k.kind = "update" => cart[k.product] > 0
      /\ cart' = IF k.kind = "clear" THEN Empty ELSE [cart EXCEPT ![k.product] = k.qty]
      /\ call' = [call EXCEPT ![c].done = TRUE]
      /\ UNCHANGED <<lines, updating, removing, fetch, missed>>

\* Every end of a handler takes the mark away, whichever line has it by now.
Unmark(kind) ==
  /\ updating' = IF kind = "update" THEN None ELSE updating
  /\ removing' = IF kind = "remove" THEN None ELSE removing

\* Mutant: an answer on its way is still taken.
KeepFetch == UNCHANGED fetch

\* onSuccess: the cart is fetched again, and an answer on its way is dropped.
FetchAgain == fetch' = Asked

Changed(c) ==
  /\ call[c].done
  /\ FetchAgain
  /\ Unmark(call[c].kind)
  /\ call' = [call EXCEPT ![c] = NoCall]
  /\ UNCHANGED <<cart, lines, missed>>

ChangeFailed(c) ==
  /\ call[c].kind # "none"
  /\ missed' = (missed \/ call[c].done)
  /\ Unmark(call[c].kind)
  /\ call' = [call EXCEPT ![c] = NoCall]
  /\ UNCHANGED <<cart, lines, fetch>>

ServerAnswers ==
  /\ fetch.step = "asked"
  /\ fetch' = [step |-> "answered", cart |-> cart]
  /\ missed' = FALSE
  /\ UNCHANGED <<cart, lines, updating, removing, call>>
CartArrives ==
  /\ fetch.step = "answered"
  /\ lines' = fetch.cart
  /\ fetch' = Idle
  /\ UNCHANGED <<cart, updating, removing, call, missed>>
FetchFailed ==
  /\ fetch.step # "done"
  /\ fetch' = Idle
  /\ missed' = TRUE
  /\ UNCHANGED <<cart, lines, updating, removing, call>>

Next ==
  \/ \E c \in Calls, p \in Products :
       RemoveItem(c, p) \/ \E q \in 1..MaxQty : UpdateQuantity(c, p, q)
  \/ \E c \in Calls : ClearCart(c) \/ ServerChanges(c) \/ Changed(c) \/ ChangeFailed(c)
  \/ ServerAnswers \/ CartArrives \/ FetchFailed

Spec == Init /\ [][Next]_cartVars

-----------------------------------------------------------------------------
\* However the changes of the lines overtake each other, the page ends up with
\* the cart the server has (and checkout will charge), unless an answer was
\* lost: the last change to succeed is followed by a fetch that started later.
CartShownIsCartKept ==
  (fetch = Idle /\ ~missed /\ \A c \in Calls : ~call[c].done) => lines = cart
=============================================================================
