---------------------------- MODULE AddressBook ----------------------------
(***************************************************************************)
(* The address section of the checkout: the list of the customer's         *)
(* addresses as the page last fetched it, the one that is highlighted, the *)
(* one the checkout will order with, and the form and the deletion that    *)
(* change the list on the server and have it fetched again.                *)
(*                                                                         *)
(* Sources: client/src/pages/Checkout/CheckoutLayout/CheckoutMain/         *)
(* AddressSection and client/src/features/address.                         *)
(***************************************************************************)
EXTENDS Naturals, FiniteSets

CONSTANTS
  Places,    \* the addresses the customer may ever save
  Versions,  \* bound: the contents an address can have
  None

VARIABLES
  saved,     \* server: the contents of each saved address, None when there is none
  shown,     \* the list of the page, as it was last fetched
  listing,   \* the fetch of the list: "done", "asked", or the answer on its way
  selected,  \* selectedAddressId
  chosen,    \* the checkout's selectedAddress: id and contents
  form,      \* the form: "closed", "new" or the address being edited
  saving,    \* a create or an update in flight, and whether the server has done it
  deleting,  \* the confirm dialog or the request of a deletion
  lost       \* an answer was lost: of a change the server has made, or of a fetch

bookVars ==
  <<saved, shown, listing, selected, chosen, form, saving, deleting, lost>>

Ids(list) == {a \in Places : list[a] # None}
NoList == [a \in Places |-> None]
Listless == [step |-> "done", list |-> NoList]
Asked == [step |-> "asked", list |-> NoList]
NoRequest == [id |-> None, version |-> None, done |-> FALSE]
NoDelete == [id |-> None, step |-> "none", wasSelected |-> FALSE]
Nobody == [id |-> None, version |-> None]

\* The effect of the section: it keeps the selection while it is listed, else
\* falls back to the default address or the first one, and tells the checkout.
Tell(list, next) ==
  IF Ids(list) = {} THEN selected' = next /\ chosen' = Nobody
  ELSE \E a \in IF next \in Ids(list) THEN {next} ELSE Ids(list) :
         /\ selected' = a
         /\ chosen' = [id |-> a, version |-> list[a]]

Init ==
  /\ saved = NoList
  /\ shown = saved
  /\ listing = Listless
  /\ selected = None
  /\ chosen = Nobody
  /\ form = "closed"
  /\ saving = NoRequest
  /\ deleting = NoDelete
  /\ lost = FALSE

\* The cards are there while the form is not, and no dialog covers the page.
OnCards == form = "closed" /\ deleting.step # "confirm"

Select(a) ==
  /\ OnCards /\ a \in Ids(shown)
  /\ Tell(shown, a)
  /\ UNCHANGED <<saved, shown, listing, form, saving, deleting, lost>>

OpenForm(a) ==
  /\ OnCards
  /\ form' = IF a \in Ids(shown) THEN a ELSE "new"
  /\ UNCHANGED <<saved, shown, listing, selected, chosen, saving, deleting, lost>>

CancelForm ==
  /\ form # "closed" /\ saving = NoRequest
  /\ form' = "closed"
  /\ UNCHANGED <<saved, shown, listing, selected, chosen, saving, deleting, lost>>

\* The form, valid and submitted; its fields and buttons are disabled meanwhile.
Submit(a, v) ==
  /\ form # "closed" /\ saving = NoRequest
  /\ IF form = "new" THEN saved[a] = None ELSE a = form
  /\ saving' = [id |-> a, version |-> v, done |-> FALSE]
  /\ UNCHANGED <<saved, shown, listing, selected, chosen, form, deleting, lost>>

\* The server saves the address; of an address deleted meanwhile it says 404.
ServerSaves ==
  /\ saving.id # None /\ ~saving.done
  /\ form # "new" => saved[saving.id] # None
  /\ saved' = [saved EXCEPT ![saving.id] = saving.version]
  /\ saving' = [saving EXCEPT !.done = TRUE]
  /\ UNCHANGED <<shown, listing, selected, chosen, form, deleting, lost>>

\* The mutation's onSuccess has the list fetched again, then the handler moves
\* the selection (to the edited address; off the old one if the new one is the
\* default) and closes the form.
Saved ==
  /\ saving.done
  /\ listing' = Asked
  /\ \E next \in IF form = "new" THEN {None, selected} ELSE {form} : Tell(shown, next)
  /\ form' = "closed"
  /\ saving' = NoRequest
  /\ UNCHANGED <<saved, shown, deleting, lost>>

SaveFailed ==
  /\ saving.id # None
  /\ saving' = NoRequest
  /\ lost' = (lost \/ saving.done)
  /\ UNCHANGED <<saved, shown, listing, selected, chosen, form, deleting>>

\* handleDeleteAddress: the dialog, the request, the answer.
AskDelete(a) ==
  /\ OnCards /\ a \in Ids(shown) /\ deleting = NoDelete
  /\ deleting' = [id |-> a, step |-> "confirm", wasSelected |-> selected = a]
  /\ UNCHANGED <<saved, shown, listing, selected, chosen, form, saving, lost>>
AnswerConfirm(yes) ==
  /\ deleting.step = "confirm"
  /\ deleting' = IF yes THEN [deleting EXCEPT !.step = "sent"] ELSE NoDelete
  /\ UNCHANGED <<saved, shown, listing, selected, chosen, form, saving, lost>>
ServerDeletes ==
  /\ deleting.step = "sent" /\ saved[deleting.id] # None
  /\ saved' = [saved EXCEPT ![deleting.id] = None]
  /\ deleting' = [deleting EXCEPT !.step = "done"]
  /\ UNCHANGED <<shown, listing, selected, chosen, form, saving, lost>>

\* Mutant: the list is not fetched again.
DeletedUnlisted ==
  /\ deleting.step = "done"
  /\ listing' = listing
  /\ Tell(shown, IF deleting.wasSelected THEN None ELSE selected)
  /\ deleting' = NoDelete
  /\ UNCHANGED <<saved, shown, form, saving, lost>>

\* The selection is reset if it was the deleted address when its button was
\* pressed, whatever is selected by now; the effect may well pick the deleted
\* one again from the old list, until the fetched one is there.
Deleted ==
  /\ deleting.step = "done"
  /\ listing' = Asked
  /\ Tell(shown, IF deleting.wasSelected THEN None ELSE selected)
  /\ deleting' = NoDelete
  /\ UNCHANGED <<saved, shown, form, saving, lost>>
DeleteFailed ==
  /\ deleting.step \in {"sent", "done"}
  /\ lost' = (lost \/ deleting.step = "done")
  /\ deleting' = NoDelete
  /\ UNCHANGED <<saved, shown, listing, selected, chosen, form, saving>>

\* A fetch of the list: invalidating asks again, dropping an answer on its way.
ServerLists ==
  /\ listing.step = "asked"
  /\ listing' = [step |-> "answered", list |-> saved]
  /\ lost' = FALSE
  /\ UNCHANGED <<saved, shown, selected, chosen, form, saving, deleting>>
ListArrives ==
  /\ listing.step = "answered"
  /\ shown' = listing.list
  /\ listing' = Listless
  /\ Tell(shown', selected)
  /\ UNCHANGED <<saved, form, saving, deleting, lost>>
ListFailed ==
  /\ listing.step # "done"
  /\ listing' = Listless
  /\ lost' = TRUE
  /\ UNCHANGED <<saved, shown, selected, chosen, form, saving, deleting>>

Next ==
  \/ \E a \in Places : Select(a) \/ OpenForm(a) \/ AskDelete(a)
  \/ CancelForm
  \/ \E a \in Places, v \in Versions : Submit(a, v)
  \/ ServerSaves \/ Saved \/ SaveFailed
  \/ \E yes \in BOOLEAN : AnswerConfirm(yes)
  \/ ServerDeletes \/ Deleted \/ DeleteFailed
  \/ ServerLists \/ ListArrives \/ ListFailed

Spec == Init /\ [][Next]_bookVars

-----------------------------------------------------------------------------
\* The address the checkout orders with is the card that is highlighted, as it
\* is listed, and once nothing is in flight that address exists on the server
\* with these very contents, unless an answer was lost on the way: a deletion
\* or an edit does not leave the old address behind in the checkout.
OrdersGoToTheAddressShown ==
  /\ chosen = IF selected \in Ids(shown) THEN [id |-> selected, version |-> shown[selected]]
              ELSE Nobody
  /\ (listing.step = "done" /\ ~saving.done /\ deleting.step # "done" /\ ~lost)
     => (chosen.id # None => saved[chosen.id] = chosen.version)
=============================================================================
