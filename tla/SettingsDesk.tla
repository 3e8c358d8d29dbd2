------------------------------ MODULE SettingsDesk ------------------------------
(***************************************************************************)
(* The three pages of a store's settings that read them once and keep them *)
(* in a form: Delhivery (with the pickup location registered from the same *)
(* page), WhatsApp (with the log of notifications, read again together     *)
(* with the settings) and GST.  An answer replaces what the form holds by  *)
(* then, except for what Delhivery's Save answers.                         *)
(*                                                                         *)
(* A setting is a switch, "on", and a "name": the pickup location, the     *)
(* phone that is notified, the GSTIN.                                      *)
(*                                                                         *)
(* Sources: client/src/features/admin/pages/DelhiverySettingsPage.tsx,     *)
(* PeriskopeSettingsPage.tsx, TaxSettingsPage.tsx and their api;           *)
(* app/routes/delhivery.py, periskope.py and tax.py.                       *)
(***************************************************************************)
EXTENDS Naturals

CONSTANTS
  Names, None,
  Odd,       \* a GSTIN of another state than the one chosen
  MaxErrands \* bound: the calls sent

VARIABLES
  desk,     \* which page it is
  settings, \* server: [on, name]
  notices,  \* server: has a notification failed, that can be sent again?
  sheet,    \* the form: [on, name]
  loaded,   \* "loading", "yes", "failed", or "saved" from a form that was never read
  failedShown, \* the log shows a failed notification
  errands,  \* the calls under way
  run,      \* calls sent so far (bounded)
  dirty,    \* fields typed in and neither saved nor replaced since
  outdated  \* the form took an answer that was no longer true, or one was lost

deskVars == <<desk, settings, notices, sheet, loaded, failedShown, errands, run, dirty,
              outdated>>
server == <<settings, notices>>
ghosts == <<dirty, outdated>>

Fields == {"on", "name"}
Values == [on : BOOLEAN, name : Names \union {None}]
Empty == [on |-> FALSE, name |-> None]

Errand(what, sent, seen) ==
  [what |-> what, sent |-> sent, seen |-> seen, stage |-> "sent", got |-> None, number |-> run,
   old |-> FALSE, failed |-> FALSE]

Init ==
  /\ desk \in {"delhivery", "whatsapp", "tax"}
  /\ settings \in {Empty} \union {[on |-> TRUE, name |-> n] : n \in Names \ {Odd}}
  /\ notices \in IF desk = "whatsapp" THEN BOOLEAN ELSE {FALSE}
  /\ sheet = Empty /\ loaded = "loading" /\ failedShown = FALSE
  /\ errands = {[what |-> "load", sent |-> None, seen |-> Empty, stage |-> "served",
                 got |-> None, number |-> 0, old |-> FALSE, failed |-> FALSE]}
  /\ run = 1
  /\ dirty = {} /\ outdated = FALSE

\* A page whose settings could not be read shows an empty form; WhatsApp's stays loading.
OnForm == loaded \in {"yes", "saved"} \/ (loaded = "failed" /\ desk # "whatsapp")
Underway(what) == \E e \in errands : e.what = what

Type(field, value) ==
  /\ OnForm /\ sheet[field] # value
  /\ sheet' = [sheet EXCEPT ![field] = value]
  /\ dirty' = dirty \union {field}
  /\ UNCHANGED <<desk, server, loaded, failedShown, errands, run, outdated>>

Send(errand) ==
  /\ OnForm /\ run < MaxErrands
  /\ run' = run + 1
  /\ errands' = errands \union {errand}
  /\ UNCHANGED <<desk, server, sheet, loaded, failedShown, ghosts>>

\* onSave, handleSubmit.  GST is not saved for another state's GSTIN.
OnSave ==
  /\ ~Underway("save")
  /\ ~(desk = "tax" /\ sheet.on /\ sheet.name = Odd)
  /\ Send(Errand("save", sheet, sheet))
\* onWarehouse registers the pickup location of the form.
OnWarehouse ==
  /\ desk = "delhivery" /\ loaded \in {"yes", "saved"}
  /\ ~Underway("warehouse") /\ sheet.name # None
  /\ Send(Errand("warehouse", sheet, sheet))
\* onRetry marks one notification busy; its button goes once it is not failed.
OnRetry ==
  /\ desk = "whatsapp" /\ failedShown /\ ~Underway("retry")
  /\ Send(Errand("retry", None, sheet))
\* Refresh.
Refresh ==
  /\ desk = "whatsapp"
  /\ Send([Errand("load", None, sheet) EXCEPT !.stage = "served"])

\* The server.  Delhivery's save without a name keeps the one there is; GST that
\* is on wants a GSTIN.
Saved(given) ==
  IF desk = "delhivery" /\ given.name = None THEN [given EXCEPT !.name = settings.name] ELSE given
Refused(given) == desk = "tax" /\ given.on /\ given.name = None

Serve(e) ==
  /\ e \in errands /\ e.stage = "sent"
  /\ \/ /\ e.what = "save" /\ ~Refused(e.sent)
        /\ settings' = Saved(e.sent)
        /\ notices' = notices
     \/ /\ e.what = "warehouse"
        /\ settings' = [settings EXCEPT !.name = e.sent.name]
        /\ notices' = notices
     \/ /\ e.what = "retry" /\ notices
        /\ settings' = settings
        /\ notices' \in BOOLEAN
  /\ errands' = {[o EXCEPT !.old = @ \/ o.stage = "answered"] : o \in errands \ {e}} \union
       {[e EXCEPT !.stage = IF e.what = "save" THEN "answered" ELSE "served",
                  !.got = IF e.what = "save" THEN settings' ELSE None]}
  /\ UNCHANGED <<desk, sheet, loaded, failedShown, run, ghosts>>

\* load: after a warehouse, a retry, Refresh or the opening of the page.
ServerReads(e) ==
  /\ e \in errands /\ e.stage = "served"
  /\ errands' = (errands \ {e}) \union {[e EXCEPT !.stage = "answered", !.got = settings, !.failed = notices]}
  /\ UNCHANGED <<desk, server, sheet, loaded, failedShown, run, ghosts>>

\* Mutant: no form takes what its save answered.
AnySaveKeepsForm(e) == e.what = "save"

\* What the form takes from an answer.  Delhivery's Save answers the settings,
\* and the form stays as it is; its load does not empty a name.
KeepsForm(e) == desk = "delhivery" /\ e.what = "save"
Taken(e) ==
  IF KeepsForm(e) THEN sheet
  ELSE IF desk = "delhivery" /\ e.got.name = None THEN [sheet EXCEPT !.on = e.got.on]
  ELSE e.got

\* Old: an answer read before the settings changed, and Delhivery's Save when
\* the form was replaced before it was answered.
Uncorrected(e) == desk = "delhivery" /\ e.what = "save"
Answered(e) ==
  /\ e \in errands /\ e.stage = "answered"
  /\ sheet' = Taken(e)
  /\ loaded' = IF Uncorrected(e) /\ loaded # "yes" THEN "saved" ELSE "yes"
  /\ failedShown' = IF e.what = "save" THEN failedShown ELSE e.failed
  /\ dirty' = {f \in dirty : \/ (desk = "delhivery" /\ sheet'[f] = None)
                              \/ (KeepsForm(e) /\ sheet[f] # e.seen[f])}
  /\ outdated' = (e.old \/ (outdated /\ Uncorrected(e)))
  /\ errands' = {[o EXCEPT !.old = @ \/ (Uncorrected(o) /\ ~Uncorrected(e))] : o \in errands \ {e}}
  /\ UNCHANGED <<desk, server, run>>

\* A call is refused or lost, before or after it was served.
ErrandFails(e) ==
  /\ e \in errands
  /\ errands' = errands \ {e}
  /\ loaded' = IF loaded = "loading" THEN "failed" ELSE loaded
  /\ outdated' = (outdated \/ (e.what # "load" /\ e.stage # "sent"))
  /\ UNCHANGED <<desk, server, sheet, failedShown, run, dirty>>

Next ==
  \/ \E on \in BOOLEAN : Type("on", on)
  \/ \E n \in Names \union {None} : Type("name", n)
  \/ OnSave \/ OnWarehouse \/ OnRetry \/ Refresh
  \/ \E e \in errands : Serve(e) \/ ServerReads(e) \/ Answered(e) \/ ErrandFails(e)

Spec == Init /\ [][Next]_deskVars

-----------------------------------------------------------------------------
\* Once the calls are answered, however they overlapped, a field that was not
\* typed in since shows what the store keeps, unless the form last took an answer
\* that was no longer true.
SettingsShownAreKept ==
  loaded = "yes" /\ errands = {} /\ ~outdated =>
    \A f \in Fields \ dirty : sheet[f] = settings[f]
=============================================================================
