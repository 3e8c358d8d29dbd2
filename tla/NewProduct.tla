------------------------------ MODULE NewProduct ------------------------------
(***************************************************************************)
(* The form that adds a product: colours, sizes, a stock row for each pair *)
(* of them, photos for each colour, and the call that creates it.  The     *)
(* store's kind may arrive after the staff started typing: a service then  *)
(* gets the one standard row whatever was there.                           *)
(*                                                                         *)
(* A colour stands for all spellings of its name, and is in photos while   *)
(* it has at least one; their order is layout.                             *)
(*                                                                         *)
(* Sources: client/src/features/admin/pages/CreateProduct.tsx and          *)
(* hooks/useTenantProducts.ts; the server's answer is app/routes/product.py. *)
(***************************************************************************)
EXTENDS Naturals

CONSTANTS
  Colours, Sizes,
  Names,    \* what can be typed as name and category
  Standard, OneSize, \* SERVICE_DEFAULT_COLOR, SERVICE_DEFAULT_SIZE
  MaxEdits, \* bound: changes to colours, sizes and photos
  None

VARIABLES
  business, \* what the store is
  known,    \* the page has the store's data
  title,    \* the name typed, or None
  filled,   \* the other required fields are right
  palette, cut, \* colors, sizes
  grid,     \* the pairs that have an inventory row
  pictured, \* colours with photos
  sending,  \* the colour whose photos are on their way
  creating, \* the call in flight
  notice,   \* duplicateNotice is shown
  gone,     \* the staff left the page
  shelf,    \* server: the products created, by name
  orphaned, \* a colour was dropped while it had photos on their way, or by the store's kind
  tweaks    \* changes so far (bounded)

newVars == <<business, known, title, filled, palette, cut, grid, pictured, sending,
             creating, notice, gone, shelf, orphaned, tweaks>>

formVars == <<palette, cut, grid, pictured, orphaned>>
callVars == <<sending, creating, notice, gone, shelf>>

Init ==
  /\ business \in {"retail", "service"} /\ known = FALSE
  /\ title = None /\ filled = FALSE
  /\ palette = {} /\ cut = {} /\ grid = {} /\ pictured = {}
  /\ sending = None /\ creating = None /\ notice = FALSE /\ gone = FALSE
  /\ shelf = [n \in Names |-> None]
  /\ orphaned = FALSE /\ tweaks = 0

ServiceMode == known /\ business = "service"
OnForm == ~gone /\ ~notice

\* The effect on the store's kind; changing the availability writes the same row.
TenantArrives ==
  /\ ~known /\ ~gone
  /\ known' = TRUE
  /\ IF business = "service"
     THEN /\ palette' = {Standard} /\ cut' = {OneSize} /\ grid' = {<<Standard, OneSize>>}
          /\ orphaned' = (orphaned \/ pictured \union ({sending} \ {None}) # {})
     ELSE UNCHANGED <<palette, cut, grid, orphaned>>
  /\ UNCHANGED <<business, title, filled, pictured, tweaks>> /\ UNCHANGED callVars

TypeName(n) ==
  /\ OnForm /\ title # n
  /\ title' = n
  /\ UNCHANGED <<business, known, filled, tweaks>> /\ UNCHANGED formVars /\ UNCHANGED callVars
FillIn ==
  /\ OnForm
  /\ filled' = ~filled
  /\ UNCHANGED <<business, known, title, tweaks>> /\ UNCHANGED formVars /\ UNCHANGED callVars

Tweak ==
  /\ OnForm /\ tweaks < MaxEdits
  /\ tweaks' = tweaks + 1
  /\ UNCHANGED <<business, known, title, filled>>

HandleAddColor(c) ==
  /\ ~ServiceMode /\ c \notin palette
  /\ Tweak
  /\ palette' = palette \union {c}
  /\ grid' = grid \union ({c} \X cut)
  /\ UNCHANGED <<cut, pictured, orphaned>> /\ UNCHANGED callVars
HandleAddSize(s) ==
  /\ ~ServiceMode /\ s \notin cut
  /\ Tweak
  /\ cut' = cut \union {s}
  /\ grid' = grid \union (palette \X {s})
  /\ UNCHANGED <<palette, pictured, orphaned>> /\ UNCHANGED callVars

\* Mutant: what the colour has is forgotten, and stays.
RemoveColorOnly(c) ==
  /\ ~ServiceMode /\ c \in palette
  /\ Tweak
  /\ palette' = palette \ {c}
  /\ UNCHANGED <<cut, grid, pictured, orphaned>> /\ UNCHANGED callVars

\* A colour goes with its cells and its photos.
HandleRemoveColor(c) ==
  /\ ~ServiceMode /\ c \in palette
  /\ Tweak
  /\ palette' = palette \ {c}
  /\ grid' = {cell \in grid : cell[1] # c}
  /\ pictured' = pictured \ {c}
  /\ orphaned' = (orphaned \/ sending = c)
  /\ UNCHANGED cut /\ UNCHANGED callVars
HandleRemoveSize(s) ==
  /\ ~ServiceMode /\ s \in cut
  /\ Tweak
  /\ cut' = cut \ {s}
  /\ grid' = {cell \in grid : cell[2] # s}
  /\ UNCHANGED <<palette, pictured, orphaned>> /\ UNCHANGED callVars

\* handleChooseImages, handleImageSelect: the colour is read now, and the
\* photos are added to whatever the form is when they are up.
HandleImageSelect(c) ==
  /\ c \in palette /\ sending = None
  /\ Tweak
  /\ sending' = c
  /\ UNCHANGED formVars /\ UNCHANGED <<creating, notice, gone, shelf>>
PhotosArrive(ok) ==
  /\ sending # None
  /\ pictured' = IF ok THEN pictured \union {sending} ELSE pictured
  /\ sending' = None
  /\ UNCHANGED <<business, known, title, filled, palette, cut, grid, orphaned, tweaks>>
  /\ UNCHANGED <<creating, notice, gone, shelf>>
HandleRemoveColorImage(c) ==
  /\ c \in palette \intersect pictured
  /\ Tweak
  /\ pictured' = pictured \ {c}
  /\ UNCHANGED <<palette, cut, grid, orphaned>> /\ UNCHANGED callVars

-----------------------------------------------------------------------------
\* handleSubmit's checks of the variants.
Complete ==
  IF ServiceMode THEN Standard \in pictured
  ELSE /\ palette # {} /\ cut # {}
       /\ palette \X cut \subseteq grid
       /\ palette \subseteq pictured

\* Create or Save as draft, which is what Enter presses in a field.
HandleSubmit ==
  /\ OnForm /\ creating = None /\ sending = None
  /\ title # None /\ filled /\ Complete
  /\ creating' = [name |-> title,
                  rows |-> IF ServiceMode THEN {<<Standard, OneSize>>} ELSE grid,
                  photos |-> pictured]
  /\ UNCHANGED <<business, known, title, filled, tweaks>> /\ UNCHANGED formVars
  /\ UNCHANGED <<sending, notice, gone, shelf>>

\* create_product: photos may only be of colours that have stock.
Accepted(doc) == doc.photos \subseteq {cell[1] : cell \in doc.rows}
Created ==
  IF shelf[creating.name] = None /\ Accepted(creating)
  THEN [shelf EXCEPT ![creating.name] = creating]
  ELSE shelf

\* A product of that name and category opens the dialog; any other refusal is
\* an error under the form; a product created leaves the page.
CreateAnswered ==
  /\ creating # None
  /\ shelf' = Created
  /\ notice' = (~gone /\ shelf[creating.name] # None)
  /\ gone' = (gone \/ shelf' # shelf)
  /\ creating' = None
  /\ UNCHANGED <<business, known, title, filled, sending, tweaks>> /\ UNCHANGED formVars
CreateFails ==
  /\ creating # None
  /\ shelf' \in {shelf, Created}
  /\ creating' = None
  /\ UNCHANGED <<business, known, title, filled, sending, notice, gone, tweaks>>
  /\ UNCHANGED formVars

\* Stay here, or the overlay.
StayHere ==
  /\ notice /\ ~gone
  /\ notice' = FALSE
  /\ UNCHANGED <<business, known, title, filled, sending, creating, gone, shelf, tweaks>>
  /\ UNCHANGED formVars
\* Edit existing product from the dialog; or Back, which waits for nothing.
\* Cancel goes the same way and waits for the calls.
Leave ==
  /\ ~gone
  /\ gone' = TRUE
  /\ notice' = FALSE
  /\ UNCHANGED <<business, known, title, filled, sending, creating, shelf, tweaks>>
  /\ UNCHANGED formVars

Next ==
  \/ TenantArrives \/ FillIn \/ HandleSubmit
  \/ CreateAnswered \/ CreateFails \/ StayHere \/ Leave
  \/ \E n \in Names : TypeName(n)
  \/ \E c \in Colours : HandleAddColor(c) \/ HandleRemoveColor(c)
  \/ \E s \in Sizes : HandleAddSize(s) \/ HandleRemoveSize(s)
  \/ \E c \in palette : HandleImageSelect(c) \/ HandleRemoveColorImage(c)
  \/ \E ok \in BOOLEAN : PhotosArrive(ok)

Spec == Init /\ [][Next]_newVars

-----------------------------------------------------------------------------
\* In whatever order colours, sizes and photos come and go, a form the page
\* lets through is one the server takes, with a row for every colour and size
\* the staff kept and for no other; only photos of a colour dropped while they
\* were on their way can make it refused.
SubmittedIsCreatable ==
  creating # None =>
    /\ creating.rows = {cell[1] : cell \in creating.rows} \X {cell[2] : cell \in creating.rows}
    /\ {cell[1] : cell \in creating.rows} \subseteq creating.photos
    /\ orphaned \/ Accepted(creating)
=============================================================================
