------------------------------- MODULE StoreHours -------------------------------
(***************************************************************************)
(* A store's opening hours: the page that edits them, the server that      *)
(* keeps them and refuses checkouts while the store is closed, and the     *)
(* notice a shopper's page shows.  Page and server each work out from the  *)
(* windows whether the store is open; a window that does not end after it  *)
(* starts is ignored, and so is every one past the limit.                  *)
(*                                                                         *)
(* Sources: client/src/features/tenant/storeHours.ts,                      *)
(* features/admin/components/TenantStoreHoursField.tsx and                 *)
(* pages/EditTenant.tsx, components/StoreClosedOverlay; server             *)
(* app/services/store_schedule.py, checkout_service.py.                    *)
(***************************************************************************)
EXTENDS Naturals, FiniteSets, Sequences

CONSTANTS
  MaxTime,    \* bound: the clock, and the times of a window
  Span,       \* how long a new window lasts
  MaxWindows, \* windows that count: MAX_WINDOWS
  MaxRows,    \* bound: windows of the form
  MaxEdits,   \* bound: changes of the form
  None

VARIABLES
  clock,   \* the shopper's page sees it tick
  kept,    \* the hours on the server
  cache,   \* the hours of the tenant read by the admin's pages
  reading, \* is the tenant asked for again?
  hoursForm,  \* the hours of the edit form, or None
  uploading, \* the hours captured when a picture was chosen, or None
  saving,  \* a save on its way, or None
  edits,   \* changes made (bounded)
  copy,    \* the hours of the shopper's page
  passed   \* "Continue as store staff" was pressed in this browser tab

hoursVars == <<clock, kept, cache, reading, hoursForm, uploading, saving, edits, copy, passed>>
admin == <<cache, reading, hoursForm, uploading, saving, edits>>
shopper == <<copy, passed>>

Times == 0..MaxTime
Always == [enabled |-> FALSE, defaultOpen |-> TRUE, picture |-> FALSE, windows |-> <<>>]
Closing ==
  [enabled |-> TRUE, defaultOpen |-> TRUE, picture |-> TRUE,
   windows |-> <<[kind |-> "off", from |-> 1, to |-> 1 + Span]>>]

-----------------------------------------------------------------------------
(* resolveStoreHours, and its twin on the server. *)

Valid(w) == w.from < w.to

\* The windows that count: the first ones that are right.
Counting(ws) ==
  {i \in DOMAIN ws : Valid(ws[i]) /\ Cardinality({j \in 1..i : Valid(ws[j])}) <= MaxWindows}
Counted(hours) == {hours.windows[i] : i \in Counting(hours.windows)}

Covering(ws, t) == {w \in ws : w.from <= t /\ t < w.to}
Decided(hours, ws, t) ==
  \/ ~hours.enabled
  \/ /\ \A w \in Covering(ws, t) : w.kind = "on"
     /\ hours.defaultOpen \/ Covering(ws, t) # {}
IsOpen(hours, t) == Decided(hours, Counted(hours), t)

\* Mutant: the ends of the windows are forgotten.
StartsOnly(ws) == {w.from : w \in ws}

Boundaries(ws) == {w.from : w \in ws} \union {w.to : w \in ws}
NextChangeAt(hours, t) ==
  LET later == {b \in Boundaries(Counted(hours)) : b > t}
  IN IF ~hours.enabled \/ later = {} THEN None
     ELSE CHOOSE b \in later : \A c \in later : b <= c

\* The server keeps the windows that count, sorted by their start: those that start
\* together stay as they were listed.
Upto(ws, counting, i) ==
  {j \in counting : ws[j].from < ws[i].from \/ (ws[j].from = ws[i].from /\ j <= i)}
Sorted(ws, counting) ==
  [n \in 1..Cardinality(counting) |->
     ws[CHOOSE i \in counting : Cardinality(Upto(ws, counting, i)) = n]]

\* Mutant: windows that are wrong count against the limit.
CutBeforeChecked(hours) ==
  [hours EXCEPT !.windows = Sorted(@, {i \in DOMAIN @ : i <= MaxWindows /\ Valid(@[i])})]

Normalized(hours) == [hours EXCEPT !.windows = Sorted(@, Counting(@))]
KeptWindows(hours) == {Normalized(hours).windows[i] : i \in DOMAIN Normalized(hours).windows}
Refused(t) == ~Decided(kept, KeptWindows(kept), t)

-----------------------------------------------------------------------------
Init ==
  /\ clock = 0 /\ kept \in {Always, Closing} /\ cache = kept /\ reading = "no"
  /\ hoursForm = None /\ uploading = None /\ saving = None /\ edits = 0
  /\ copy = kept /\ passed = FALSE

\* EditTenantForm takes the tenant read so far, also while it is asked for again.
OpenForm ==
  /\ hoursForm = None /\ edits < MaxEdits
  /\ hoursForm' = cache
  /\ UNCHANGED <<clock, kept, cache, reading, uploading, saving, edits, shopper>>

\* Cancel waits for a save; "Back to Tenant" does not.
CloseForm ==
  /\ hoursForm # None
  /\ hoursForm' = None /\ uploading' = None
  /\ saving' = IF saving = None THEN None ELSE [saving EXCEPT !.here = FALSE]
  /\ UNCHANGED <<clock, kept, cache, reading, edits, shopper>>

Update(next) ==
  /\ hoursForm # None /\ edits < MaxEdits
  /\ hoursForm' = next /\ hoursForm' # hoursForm
  /\ edits' = edits + 1
  /\ UNCHANGED <<clock, kept, cache, reading, uploading, saving, shopper>>

\* The switches wait for the form's own save; a window's fields do not.
Busy == saving # None /\ saving.here
Toggle == /\ hoursForm # None /\ ~Busy
          /\ Update([hoursForm EXCEPT !.enabled = ~@])
Shown == hoursForm # None /\ hoursForm.enabled
DefaultOpen == /\ Shown /\ ~Busy
               /\ Update([hoursForm EXCEPT !.defaultOpen = ~@])
AddWindow(kind) ==
  /\ Shown /\ Len(hoursForm.windows) < MaxRows
  /\ Update([hoursForm EXCEPT !.windows =
               Append(@, [kind |-> kind, from |-> clock, to |-> clock + Span])])
UpdateWindow(i, field, value) ==
  /\ Shown /\ i \in DOMAIN hoursForm.windows
  /\ Update([hoursForm EXCEPT !.windows[i][field] = value])
RemoveWindow(i) ==
  /\ Shown /\ i \in DOMAIN hoursForm.windows
  /\ Update([hoursForm EXCEPT !.windows =
               SubSeq(@, 1, i - 1) \o SubSeq(@, i + 1, Len(@))])
RemovePicture == Shown /\ Update([hoursForm EXCEPT !.picture = FALSE])

\* handleUpload: its answer puts back the hours as they were when the picture was
\* chosen, with the picture.
ChoosePicture ==
  /\ Shown /\ uploading = None /\ ~Busy /\ edits < MaxEdits
  /\ uploading' = hoursForm /\ edits' = edits + 1
  /\ UNCHANGED <<clock, kept, cache, reading, hoursForm, saving, shopper>>
PictureArrives ==
  /\ uploading # None
  /\ hoursForm' \in {hoursForm, [uploading EXCEPT !.picture = TRUE]}
  /\ uploading' = None
  /\ UNCHANGED <<clock, kept, cache, reading, saving, edits, shopper>>

\* handleSubmit sends every window of the form (bound: one save at a time).
HandleSubmit ==
  /\ hoursForm # None /\ saving = None
  /\ saving' = [sent |-> hoursForm, here |-> TRUE, served |-> FALSE]
  /\ UNCHANGED <<clock, kept, cache, reading, hoursForm, uploading, edits, shopper>>
ServerSaves ==
  /\ saving # None /\ ~saving.served
  /\ kept' = Normalized(saving.sent)
  /\ saving' = [saving EXCEPT !.served = TRUE]
  /\ UNCHANGED <<clock, cache, reading, hoursForm, uploading, edits, shopper>>
\* The tenant is asked for again and the store's page opened, from a form opened
\* since as well.
SaveAnswered ==
  /\ saving # None /\ saving.served
  /\ saving' = None /\ reading' = "asked"
  /\ hoursForm' = None /\ uploading' = None
  /\ UNCHANGED <<clock, kept, cache, edits, shopper>>
SaveFails ==
  /\ saving # None
  /\ saving' = None
  /\ UNCHANGED <<clock, kept, cache, reading, hoursForm, uploading, edits, shopper>>

TenantArrives ==
  /\ reading = "asked"
  /\ cache' \in {cache, kept} /\ reading' = "no"
  /\ UNCHANGED <<clock, kept, hoursForm, uploading, saving, edits, shopper>>

-----------------------------------------------------------------------------
\* The shopper's page: the store is read, ticks pass, staff go on.
StoreArrives ==
  /\ copy # kept
  /\ copy' = kept
  /\ UNCHANGED <<clock, kept, admin, passed>>
OverlayShown == ~IsOpen(copy, clock) /\ ~passed
ContinueAsStaff ==
  /\ OverlayShown
  /\ passed' = TRUE
  /\ UNCHANGED <<clock, kept, admin, copy>>
TimePasses ==
  /\ clock < MaxTime
  /\ clock' = clock + 1
  /\ UNCHANGED <<kept, admin, shopper>>

Next ==
  \/ OpenForm \/ CloseForm \/ Toggle \/ DefaultOpen \/ RemovePicture
  \/ \E kind \in {"on", "off"} : AddWindow(kind)
  \/ \E i \in 1..MaxRows :
       \/ RemoveWindow(i)
       \/ \E kind \in {"on", "off"} : UpdateWindow(i, "kind", kind)
       \/ \E t \in Times : UpdateWindow(i, "from", t) \/ UpdateWindow(i, "to", t)
  \/ ChoosePicture \/ PictureArrives \/ HandleSubmit \/ ServerSaves \/ SaveAnswered \/ SaveFails
  \/ TenantArrives \/ StoreArrives \/ ContinueAsStaff \/ TimePasses

Spec == Init /\ [][Next]_hoursVars

-----------------------------------------------------------------------------
\* The hours the server made of a form decide, at every time, as the form's own
\* preview did; and a page with the store's hours shows the notice exactly while
\* checkouts are refused, staff who went on excepted.
HoursAsShown ==
  /\ saving # None /\ saving.served =>
       \A t \in Times : IsOpen(saving.sent, t) = ~Refused(t)
  /\ copy = kept =>
       /\ OverlayShown => Refused(clock)
       /\ Refused(clock) => OverlayShown \/ passed

\* The store does not open or close on a page before the change it announced.
Announced ==
  copy' = copy /\ IsOpen(copy, clock') # IsOpen(copy, clock) =>
    /\ NextChangeAt(copy, clock) # None
    /\ NextChangeAt(copy, clock) <= clock'
\* Every step of the page is so.
ChangeIsAnnounced == [][Announced]_hoursVars

\* The countdown of the notice is labelled "Opens in".
OpensWhenCountedDown ==
  OverlayShown /\ NextChangeAt(copy, clock) # None => IsOpen(copy, NextChangeAt(copy, clock))
=============================================================================
