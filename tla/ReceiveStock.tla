----------------------------- MODULE ReceiveStock -----------------------------
(***************************************************************************)
(* The modal that receives stock: choose a product (or describe a new      *)
(* one), type the quantities, look at the preview the server signed, and   *)
(* confirm it.  A preview asked for earlier may arrive when the staff has  *)
(* gone back to choose something else.                                     *)
(*                                                                         *)
(* A name stands for a colour and size that normalize() takes for the      *)
(* same; a row with a text in only one of them is "half".                  *)
(*                                                                         *)
(* Sources: client/src/features/admin/components/ReceiveStockModal.tsx,    *)
(* api/receiving.api.ts.  The server's half is the receiving of Inventory. *)
(***************************************************************************)
EXTENDS Naturals, FiniteSets, Sequences

CONSTANTS
  Products,   \* those the search finds
  Variants,   \* the variants each of them has
  Forms,      \* what the staff can type: [known, rows, named]
  None,
  MaxTokens,  \* bound: the previews asked for
  MaxSales    \* bound: how often stock changes meanwhile

VARIABLES
  step, mode, product,
  form,        \* existingQty, newRows and the name and category, as typed
  lastPayload,
  preview,     \* the preview shown
  confirmed,   \* the box under the warnings
  error,       \* the kind of the error shown
  asked,       \* is a preview on its way? it is lastPayload's
  committing,  \* the commit's call
  issued,      \* server: the previews signed: [lines, needs, sales]
  received,    \* server: the previews received
  sales,       \* server: changes of the stock
  agreed       \* history: the previews whose warnings were ticked

receiveVars == <<step, mode, product, form, lastPayload, preview, confirmed, error,
                 asked, committing, issued, received, sales, agreed>>

Blank == [known |-> "", rows |-> <<>>, named |-> FALSE]
NoPreview == [token |-> 0, needs |-> FALSE, match |-> None]
NoCommit == [token |-> 0, confirm |-> FALSE]

Init ==
  /\ \/ step = "choose" /\ product = None
     \/ step = "enter" /\ product \in Products
  /\ mode = "existing"
  /\ form = Blank
  /\ lastPayload = None /\ preview = NoPreview /\ confirmed = FALSE /\ error = None
  /\ asked = FALSE /\ committing = NoCommit
  /\ issued = <<>> /\ received = {} /\ sales = 0
  /\ agreed = {}

Busy == asked \/ committing # NoCommit
Server == <<issued, received, sales>>

-----------------------------------------------------------------------------
\* buildPayload.  A quantity is blank, "0", a number ("n") or not one ("bad").
Known == IF mode = "existing" /\ product # None THEN Variants ELSE {}
Written(row) == row.name # "" \/ row.qty # ""
RowAt(i) == form.rows[i]
RowsWritten == {i \in DOMAIN form.rows : Written(RowAt(i))}

KnownLines == IF Known # {} /\ form.known = "n" THEN Known ELSE {}
Lines == KnownLines \union {RowAt(i).name : i \in RowsWritten}

\* Mutant: the rows are not looked at.
RowsAnyhow == TRUE

\* The messages it returns instead of a payload.
RowsAreRight ==
  /\ \A i \in RowsWritten : RowAt(i).name \notin {"", "half"} /\ RowAt(i).qty = "n"
  /\ \A i \in RowsWritten : RowAt(i).name \notin Known
  /\ \A i, j \in RowsWritten : RowAt(i).name = RowAt(j).name => i = j
Buildable ==
  /\ Known # {} => form.known # "bad"
  /\ RowsAreRight
  /\ mode = "new" => form.named
  /\ Lines # {}

\* How many of the lines are for one variant.
Payload ==
  [product |-> IF mode = "existing" THEN product ELSE None,
   lines |-> [v \in Lines |->
                Cardinality({i \in RowsWritten : RowAt(i).name = v})
                  + (IF v \in KnownLines THEN 1 ELSE 0)]]

-----------------------------------------------------------------------------
SelectProduct(p) ==
  /\ step = "choose" /\ mode = "existing"
  /\ product' = p /\ form' = [form EXCEPT !.known = "", !.rows = <<>>]
  /\ error' = None /\ step' = "enter"
  /\ UNCHANGED <<mode, lastPayload, preview, confirmed, asked, committing, agreed, Server>>

StartNewProduct ==
  /\ step = "choose"
  /\ mode' = "new" /\ product' = None
  /\ form' = [form EXCEPT !.rows = <<>>]
  /\ error' = None /\ step' = "enter"
  /\ UNCHANGED <<lastPayload, preview, confirmed, asked, committing, agreed, Server>>

\* Back, and Change product: a preview on its way is not called back.
BackToChoose ==
  /\ step = "enter"
  /\ mode' = "existing" /\ product' = None /\ preview' = NoPreview
  /\ error' = None /\ step' = "choose"
  /\ UNCHANGED <<form, lastPayload, confirmed, asked, committing, agreed, Server>>

Type(f) ==
  /\ step = "enter" /\ f # form
  /\ form' = f
  /\ UNCHANGED <<step, mode, product, lastPayload, preview, confirmed, error, asked,
                 committing, agreed, Server>>

RequestPreview(payload) ==
  /\ ~Busy
  /\ lastPayload' = payload
  /\ asked' = TRUE

SubmitQuantities ==
  /\ step = "enter" /\ Buildable
  /\ RequestPreview(Payload)
  /\ UNCHANGED <<step, mode, product, form, preview, confirmed, error, committing,
                 agreed, Server>>

RefreshPreview ==
  /\ step = "preview" /\ error = "stale"
  /\ RequestPreview(lastPayload)
  /\ UNCHANGED <<step, mode, product, form, preview, confirmed, error, committing,
                 agreed, Server>>

\* A name the store already has: the same lines for that product.
ChooseCandidate ==
  /\ step = "preview" /\ preview.token = 0
  /\ RequestPreview([lastPayload EXCEPT !.product = preview.match])
  /\ mode' = "existing" /\ product' = preview.match
  /\ UNCHANGED <<step, form, preview, confirmed, error, committing, agreed, Server>>

\* POST /inventory/receiving/preview: signed, unless the name is a product's.
ServerPreviews(needs) ==
  \/ /\ Len(issued) < MaxTokens
     /\ issued' = Append(issued, [lines |-> lastPayload.lines, needs |-> needs, sales |-> sales])
     /\ preview' = [token |-> Len(issued'), needs |-> needs, match |-> lastPayload.product]
  \/ /\ lastPayload.product = None
     /\ \E p \in Products : preview' = [NoPreview EXCEPT !.match = p]
     /\ UNCHANGED issued

\* Mutant: the box stays ticked for the new preview.
KeepTick == UNCHANGED confirmed

\* onSuccess of the preview: the box is taken back with the old preview.
TakeTickBack == confirmed' = FALSE

PreviewArrives(needs) ==
  /\ asked
  /\ ServerPreviews(needs)
  /\ TakeTickBack
  /\ error' = None /\ step' = "preview" /\ asked' = FALSE
  /\ UNCHANGED <<mode, product, form, lastPayload, committing, received, sales, agreed>>

PreviewFails ==
  /\ asked
  /\ asked' = FALSE /\ error' = "other"
  /\ UNCHANGED <<step, mode, product, form, lastPayload, preview, confirmed, committing,
                 agreed, Server>>

Tick ==
  /\ step = "preview" /\ preview.token # 0 /\ preview.needs
  /\ confirmed' = ~confirmed
  /\ agreed' = IF confirmed THEN agreed ELSE agreed \union {preview.token}
  /\ UNCHANGED <<step, mode, product, form, lastPayload, preview, error, asked,
                 committing, Server>>

BackToEnter ==
  /\ step = "preview" /\ ~Busy
  /\ error' = None /\ step' = "enter"
  /\ UNCHANGED <<mode, product, form, lastPayload, preview, confirmed, asked, committing,
                 agreed, Server>>

-----------------------------------------------------------------------------
CanCommit == preview.token # 0 /\ (preview.needs => confirmed) /\ ~Busy

ConfirmReceiving ==
  /\ step = "preview" /\ CanCommit
  /\ committing' = [token |-> preview.token, confirm |-> confirmed]
  /\ error' = None
  /\ UNCHANGED <<step, mode, product, form, lastPayload, preview, confirmed, asked, agreed,
                 Server>>

\* POST /inventory/receiving/commit: once for a preview, never for a stale one.
Stale(token) == token \notin received /\ issued[token].sales # sales
Receives ==
  /\ ~Stale(committing.token)
  /\ issued[committing.token].needs => committing.confirm
  /\ received' = received \union {committing.token}

CommitSucceeds ==
  /\ committing # NoCommit
  /\ Receives
  /\ error' = None /\ step' = "done" /\ committing' = NoCommit
  /\ UNCHANGED <<mode, product, form, lastPayload, preview, confirmed, asked, issued, sales,
                 agreed>>

\* Stale, expired or unconfirmed; or lost, before or after it was received.
CommitFails ==
  /\ committing # NoCommit
  /\ \/ error' = "stale" /\ UNCHANGED received
     \/ error' = "other" /\ (Receives \/ UNCHANGED received)
  /\ committing' = NoCommit
  /\ UNCHANGED <<step, mode, product, form, lastPayload, preview, confirmed, asked, issued,
                 sales, agreed>>

ReceiveMore ==
  /\ step = "done"
  /\ preview' = NoPreview /\ lastPayload' = None
  /\ form' = Blank
  /\ mode' = "existing" /\ product' = None /\ error' = None /\ step' = "choose"
  /\ UNCHANGED <<confirmed, asked, committing, agreed, Server>>

Sale ==
  /\ sales < MaxSales
  /\ sales' = sales + 1
  /\ UNCHANGED <<step, mode, product, form, lastPayload, preview, confirmed, error, asked,
                 committing, issued, received, agreed>>

Next ==
  \/ \E p \in Products : SelectProduct(p)
  \/ StartNewProduct \/ BackToChoose \/ SubmitQuantities \/ RefreshPreview \/ ChooseCandidate
  \/ \E f \in Forms : Type(f)
  \/ \E needs \in BOOLEAN : PreviewArrives(needs)
  \/ PreviewFails \/ Tick \/ BackToEnter
  \/ ConfirmReceiving \/ CommitSucceeds \/ CommitFails \/ ReceiveMore \/ Sale

Spec == Init /\ [][Next]_receiveVars

-----------------------------------------------------------------------------
\* What is received is a preview whose own warnings the staff has ticked, or
\* that had none, whatever previews were shown, refreshed or left before it;
\* and it counts no variant twice.
ReceivedAsAgreed ==
  \A t \in received :
    /\ issued[t].needs => t \in agreed
    /\ \A v \in DOMAIN issued[t].lines : issued[t].lines[v] = 1
=============================================================================
