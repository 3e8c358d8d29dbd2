------------------------------ MODULE StockAdjust ------------------------------
(***************************************************************************)
(* The dialog that adds or removes stock of one variant with a reason, over *)
(* the table of products it is opened from.  It works with the stock the    *)
(* table had when it was opened and with what its own adjustments answer;   *)
(* closing it calls no adjustment back.                                     *)
(*                                                                         *)
(* Sources: client/src/features/admin/components/StockAdjustModal.tsx,     *)
(* api/stock.api.ts, app/routes/product.py (adjust_product_stock).         *)
(***************************************************************************)
EXTENDS Integers, Sequences

CONSTANTS
  Variants, None,
  MaxStock,       \* bound: the stock of a variant
  MaxAdjustments, \* bound: the adjustments sent
  MaxDialogs,     \* bound: how often the dialog is opened
  MaxSold         \* bound: the stock changes made elsewhere

VARIABLES
  stock,     \* server: the stock of each variant
  movements, \* server: the variants of its stock changes, oldest first
  listed,    \* the table's stock
  captured,  \* the stock the dialog was opened with, or None when it is closed
  override,  \* stockOverride
  fields,    \* the form: the variant, the change (0: none yet), is a note wanting?
  saving,    \* the adjustments in flight, each of the dialog it was sent from
  history,   \* the movements last read, and whether they are to be read again
  reading,   \* the fetch of the movements and what it read
  adjusted, dialogs, sold, \* adjustments, openings and other changes so far
  untold,    \* variants that changed without the dialog being told
  unread     \* nothing has asked for the last movements

adjustVars == <<stock, movements, listed, captured, override, fields, saving, history,
                reading, adjusted, dialogs, sold, untold, unread>>
server == <<stock, movements>>
counters == <<adjusted, dialogs, sold>>
records == <<history, reading, unread>>

NoOverride == [v \in Variants |-> None]
NotReading == [step |-> "none", data |-> <<>>]
Asked == [step |-> "asked", data |-> <<>>]
Blank(v) == [variant |-> v, change |-> 0, wanting |-> FALSE]
First == CHOOSE v \in Variants : TRUE

Init ==
  /\ stock = [v \in Variants |-> 1] /\ movements = <<>>
  /\ listed = stock
  /\ captured = None /\ override = NoOverride /\ fields = Blank(First)
  /\ saving = {}
  /\ history = [data |-> <<>>, stale |-> TRUE] /\ reading = NotReading
  /\ adjusted = 0 /\ dialogs = 0 /\ sold = 0
  /\ untold = {} /\ unread = FALSE

Opened == captured # None
Shown(v) == IF override[v] # None THEN override[v] ELSE captured[v]
Own(call) == Opened /\ call.dialog = dialogs

\* Adjust stock in a row of the table.  Movements read lately are not asked for.
OpenDialog(again) ==
  /\ ~Opened /\ dialogs < MaxDialogs
  /\ history.stale => again
  /\ dialogs' = dialogs + 1
  /\ captured' = listed /\ override' = NoOverride /\ fields' = Blank(First)
  /\ untold' = {v \in Variants : listed[v] # stock[v]}
  /\ reading' = IF again /\ reading = NotReading THEN Asked ELSE reading
  /\ UNCHANGED <<server, listed, saving, history, unread, adjusted, sold>>

\* Close, the cross or the overlay: nothing waits for the adjustment.
CloseDialog ==
  /\ Opened
  /\ captured' = None
  /\ UNCHANGED <<server, listed, override, fields, saving, records, counters, untold>>

\* The fields.  The reason turns the direction and may want a note.
Fill(f) ==
  /\ Opened
  /\ fields' = f /\ f # fields
  /\ UNCHANGED <<server, listed, captured, override, saving, records, counters, untold>>
ChooseVariant(v) == Fill([fields EXCEPT !.variant = v])
ChooseReason(removes, wanting) ==
  Fill([fields EXCEPT !.change = IF (@ < 0) = removes THEN @ ELSE -@, !.wanting = wanting])
TypeChange(n) == Fill([fields EXCEPT !.change = n])
TypeNote == Fill([fields EXCEPT !.wanting = FALSE])

CanSubmit ==
  /\ fields.change # 0 /\ ~fields.wanting
  /\ Shown(fields.variant) + fields.change >= 0

Submit ==
  /\ Opened /\ CanSubmit
  /\ \A call \in saving : ~Own(call)
  /\ adjusted < MaxAdjustments /\ adjusted' = adjusted + 1
  /\ saving' = saving \union
       {[variant |-> fields.variant, change |-> fields.change, after |-> None,
         dialog |-> dialogs]}
  /\ UNCHANGED <<server, listed, captured, override, fields, records, dialogs, sold, untold>>

\* adjust_product_stock: the stock is never taken below zero.
Adjusts(call) ==
  /\ call \in saving /\ call.after = None
  /\ LET v == call.variant
         now == stock[v] + call.change
     IN /\ now \in 0..MaxStock
        /\ stock' = [stock EXCEPT ![v] = now]
        /\ movements' = Append(movements, v)
        /\ saving' = (saving \ {call}) \union {[call EXCEPT !.after = now]}
        /\ untold' = IF Own(call) THEN untold ELSE untold \union {v}
  /\ UNCHANGED <<listed, captured, override, fields, records, counters>>

\* What the movements shown are is asked for again, whatever was on its way;
\* those of a closed dialog are only marked, and an answer on its way unmarks them.
ReadAgain ==
  /\ history' = [history EXCEPT !.stale = TRUE]
  /\ reading' = IF Opened THEN Asked ELSE reading
  /\ unread' = (unread \/ (~Opened /\ reading.step = "read"))

\* Mutant: the stock answered is shown for the variant chosen by then.
OverrideChosen(call) == override' = [override EXCEPT ![fields.variant] = call.after]

\* onSuccess: the stock answered is shown for the variant it is of, whichever
\* variant is chosen by then.
OverrideAnswered(call) == override' = [override EXCEPT ![call.variant] = call.after]

Answered(call) ==
  /\ call \in saving /\ call.after # None
  /\ IF Own(call)
     THEN /\ OverrideAnswered(call)
          /\ fields' = [fields EXCEPT !.change = 0]
          /\ untold' = IF stock[call.variant] = call.after THEN untold \ {call.variant}
                       ELSE untold \union {call.variant}
     ELSE UNCHANGED <<override, fields, untold>>
  /\ ReadAgain
  /\ saving' = saving \ {call}
  /\ UNCHANGED <<server, listed, captured, counters>>

\* Refused, or lost before or after it was made; the form is as it was.
CallFails(call) ==
  /\ call \in saving
  /\ saving' = saving \ {call}
  /\ untold' = IF call.after = None THEN untold ELSE untold \union {call.variant}
  /\ unread' = (unread \/ call.after # None)
  /\ UNCHANGED <<server, listed, captured, override, fields, history, reading, counters>>

\* The table is read again, after an adjustment or for its own reasons; the
\* dialog keeps the product it was given.
TableArrives ==
  /\ listed # stock
  /\ listed' = stock
  /\ UNCHANGED <<server, captured, override, fields, saving, records, counters, untold>>

HistoryRead ==
  /\ reading = Asked
  /\ reading' = [step |-> "read", data |-> movements]
  /\ unread' = FALSE
  /\ UNCHANGED <<server, listed, captured, override, fields, saving, history, counters, untold>>
HistoryArrives ==
  /\ reading.step = "read"
  /\ history' = [data |-> reading.data, stale |-> FALSE]
  /\ reading' = NotReading
  /\ UNCHANGED <<server, listed, captured, override, fields, saving, unread, counters, untold>>
HistoryFails ==
  /\ reading # NotReading
  /\ reading' = NotReading
  /\ unread' = TRUE
  /\ UNCHANGED <<server, listed, captured, override, fields, saving, history, counters, untold>>

\* An order, a return, or another member of staff.
ChangedElsewhere(v) ==
  /\ sold < MaxSold /\ sold' = sold + 1
  /\ stock[v] > 0
  /\ stock' = [stock EXCEPT ![v] = @ - 1]
  /\ movements' = Append(movements, v)
  /\ untold' = untold \union {v}
  /\ unread' = TRUE
  /\ UNCHANGED <<listed, captured, override, fields, saving, history, reading, adjusted, dialogs>>

Next ==
  \/ \E again \in BOOLEAN : OpenDialog(again)
  \/ CloseDialog \/ TypeNote \/ Submit \/ TableArrives
  \/ HistoryRead \/ HistoryArrives \/ HistoryFails
  \/ \E v \in Variants : ChooseVariant(v) \/ ChangedElsewhere(v)
  \/ \E removes, wanting \in BOOLEAN : ChooseReason(removes, wanting)
  \/ \E n \in -1..1 : TypeChange(n)
  \/ \E call \in saving : Adjusts(call) \/ Answered(call) \/ CallFails(call)

Spec == Init /\ [][Next]_adjustVars

-----------------------------------------------------------------------------
\* The stock and the movements in the dialog are the store's, save for changes
\* the dialog could not know of: whatever was chosen, closed or opened again
\* while an adjustment was on its way.
StockShownIsKept ==
  Opened =>
    /\ \A v \in Variants :
         \/ v \in untold \/ Shown(v) = stock[v]
         \/ \E call \in saving : Own(call) /\ call.variant = v /\ call.after # None
    /\ \/ unread \/ reading # NotReading \/ \E call \in saving : call.after # None
       \/ history.data = movements
=============================================================================
