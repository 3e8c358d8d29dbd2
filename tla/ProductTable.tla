----------------------------- MODULE ProductTable -----------------------------
(***************************************************************************)
(* The store's products and the modal that edits one: its colours, sizes   *)
(* and photos, the upload that runs beside the editing, the save and the   *)
(* deletion.  Only the Save button waits for the upload: the modal can be  *)
(* closed, and another product opened, while a call of it is under way.    *)
(*                                                                         *)
(* Names are compared without case, so a member of Colours stands for all  *)
(* spellings of one.  A photo is remembered by the product it was chosen   *)
(* for, which the code does not keep.                                      *)
(*                                                                         *)
(* Sources: client/src/features/admin/pages/AdminTenantProducts.tsx and    *)
(* hooks/useTenantProducts.ts.                                             *)
(***************************************************************************)
EXTENDS Naturals, FiniteSets

CONSTANTS
  Shelf,   \* the products
  Colours, Sizes,
  Stocked, \* the documents they start with
  MaxEdits, \* bound: changes made to forms and uploads to them
  None

VARIABLES
  docs,     \* server: each product's document, or None
  editing,  \* editingProduct
  form,     \* editForm
  renaming, \* editingColorName
  removal,  \* the colour or size whose removal is being confirmed
  upload,   \* the photos on their way: for which colour, of which product
  saving,   \* the save in flight
  doomed,   \* deleteProduct, the product in the deletion dialog
  deleting, \* the deletion in flight
  linked,   \* the product of ?edit=, while it is being fetched
  strayed,  \* an upload outlived the modal it was started in
  edits     \* changes and uploads so far (bounded)

tableVars == <<docs, editing, form, renaming, removal, upload, saving, doomed,
               deleting, linked, strayed, edits>>

\* cells: how many rows the inventory has for a colour and size.
Blank == [cells |-> [cell \in Colours \X Sizes |-> 0], colours |-> {}, sizes |-> {},
          photos |-> {}]
HasColour(cells, c) == \E s \in Sizes : cells[<<c, s>>] > 0
HasSize(cells, s) == \E c \in Colours : cells[<<c, s>>] > 0

\* editColors, editSizes: what the inventory, the form or a photo names.
EditColours == {c \in Colours : HasColour(form.cells, c)} \union form.colours
                 \union {ph.colour : ph \in form.photos}
EditSizes == {s \in Sizes : HasSize(form.cells, s)} \union form.sizes

Init ==
  /\ docs = Stocked
  /\ editing = None /\ form = Blank /\ renaming = None /\ removal = None
  /\ upload = None /\ saving = None /\ doomed = None /\ deleting = None
  /\ linked \in Shelf \union {None}
  /\ strayed = FALSE
  /\ edits = 0

\* The modal and the dialogs cover the page; a question covers them all.
Modal == editing # None /\ removal = None
Page == editing = None /\ doomed = None /\ removal = None

\* handleEdit: the form is filled from the document it is given.
Fill(p, doc) ==
  /\ editing' = p
  /\ form' = [cells |-> doc.cells,
              colours |-> {c \in Colours : HasColour(doc.cells, c)}
                            \union {ph.colour : ph \in doc.photos},
              sizes |-> {s \in Sizes : HasSize(doc.cells, s)},
              photos |-> doc.photos]
HandleEdit(p) ==
  /\ Page /\ docs[p] # None
  /\ Fill(p, docs[p])
  /\ UNCHANGED <<docs, renaming, removal, upload, saving, doomed, deleting, linked, strayed, edits>>

\* The effect of ?edit=: the document may arrive when another one is open.
LinkedArrives ==
  /\ linked # None
  /\ IF docs[linked] # None
     THEN Fill(linked, docs[linked]) /\ strayed' = (strayed \/ upload # None)
     ELSE UNCHANGED <<editing, form, strayed>>
  /\ linked' = None
  /\ UNCHANGED <<docs, renaming, removal, upload, saving, doomed, deleting, edits>>

\* Cancel, the cross or the overlay; what was typed shows nowhere afterwards.
Close == editing' = None /\ form' = Blank /\ strayed' = (strayed \/ upload # None)
CloseModal ==
  /\ Modal
  /\ Close
  /\ UNCHANGED <<docs, renaming, removal, upload, saving, doomed, deleting, linked, edits>>

Keep(f) ==
  /\ form' = f
  /\ UNCHANGED <<docs, editing, upload, saving, doomed, deleting, linked, strayed>>
Edit(f) ==
  /\ edits < MaxEdits
  /\ edits' = edits + 1
  /\ Keep(f)

\* Rows for a colour in every size, or for a size in every colour.
AddRows(pairs) ==
  [cell \in Colours \X Sizes |-> form.cells[cell] + (IF cell \in pairs THEN 1 ELSE 0)]

\* Mutant: the comparison minds the case.
ColourIsSpeltAnew(c) == TRUE

\* A name the form has not got; names that differ in their case are one.
ColourIsNew(c) == c \notin EditColours
SizeIsNew(s) == s \notin EditSizes

HandleAddColor(c) ==
  /\ Modal /\ ColourIsNew(c)
  /\ LET sizes == IF EditSizes = {} THEN {CHOOSE s \in Sizes : TRUE} ELSE EditSizes
     IN Edit([form EXCEPT !.cells = AddRows({c} \X sizes), !.colours = @ \union {c}])
  /\ UNCHANGED <<renaming, removal>>
HandleAddSize(s) ==
  /\ Modal /\ SizeIsNew(s)
  /\ Edit([form EXCEPT !.cells = AddRows(EditColours \X {s}), !.sizes = @ \union {s}])
  /\ UNCHANGED <<renaming, removal>>

\* A stock typed into a cell that has no row makes one.
HandleStockChange(c, s) ==
  /\ Modal /\ c \in EditColours /\ s \in EditSizes /\ form.cells[<<c, s>>] = 0
  /\ Edit([form EXCEPT !.cells[<<c, s>>] = 1])
  /\ UNCHANGED <<renaming, removal>>

StartRenameColor(c) ==
  /\ Modal /\ c \in EditColours
  /\ renaming' = c
  /\ Keep(form) /\ UNCHANGED <<removal, edits>>
CancelRenameColor ==
  /\ Modal /\ renaming # None
  /\ renaming' = None
  /\ Keep(form) /\ UNCHANGED <<removal, edits>>

Renamed(old, new) ==
  [cells |-> [cell \in Colours \X Sizes |->
                IF cell[1] = old THEN 0
                ELSE form.cells[cell]
                       + (IF cell[1] = new THEN form.cells[<<old, cell[2]>>] ELSE 0)],
   colours |-> (form.colours \ {old}) \union {new},
   sizes |-> form.sizes,
   photos |-> {IF ph.colour = old THEN [ph EXCEPT !.colour = new] ELSE ph : ph \in form.photos}]

\* The box is drawn for a colour of the form; a name another colour has is refused.
SaveRenameColor(new) ==
  /\ Modal /\ renaming \in EditColours /\ ColourIsNew(new)
  /\ Edit(Renamed(renaming, new))
  /\ renaming' = None
  /\ UNCHANGED removal

\* The last colour and the last size stay.  The removal is applied to the form
\* there is when the question is answered.
HandleRemoveColor(c) ==
  /\ Modal /\ c \in EditColours /\ EditColours # {c}
  /\ removal' = [colour |-> c, size |-> None]
  /\ Keep(form) /\ UNCHANGED <<renaming, edits>>
HandleRemoveSize(s) ==
  /\ Modal /\ s \in EditSizes /\ EditSizes # {s}
  /\ removal' = [colour |-> None, size |-> s]
  /\ Keep(form) /\ UNCHANGED <<renaming, edits>>

Without(gone) ==
  [cells |-> [cell \in Colours \X Sizes |->
                IF cell[1] = gone.colour \/ cell[2] = gone.size THEN 0 ELSE form.cells[cell]],
   colours |-> form.colours \ {gone.colour},
   sizes |-> form.sizes \ {gone.size},
   photos |-> {ph \in form.photos : ph.colour # gone.colour}]

AnswerRemoval(yes) ==
  /\ removal # None
  /\ IF yes /\ editing # None THEN Edit(Without(removal)) ELSE Keep(form) /\ UNCHANGED edits
  /\ renaming' = IF yes /\ renaming = removal.colour THEN None ELSE renaming
  /\ removal' = None

HandleRemoveImage(ph) ==
  /\ Modal /\ ph \in form.photos
  /\ Edit([form EXCEPT !.photos = @ \ {ph}])
  /\ UNCHANGED <<renaming, removal>>

\* handleImageSelect: the colour is read now, the form when the photos are up.
HandleImageSelect(c) ==
  /\ Modal /\ upload = None /\ c \in EditColours
  /\ edits < MaxEdits /\ edits' = edits + 1
  /\ upload' = [colour |-> c, of |-> editing]
  /\ UNCHANGED <<docs, editing, form, renaming, removal, saving, doomed, deleting, linked, strayed>>
PhotosArrive(ok) ==
  /\ upload # None
  /\ form' = IF ok /\ editing # None THEN [form EXCEPT !.photos = @ \union {upload}] ELSE form
  /\ upload' = None
  /\ UNCHANGED <<docs, editing, renaming, removal, saving, doomed, deleting, linked, strayed, edits>>

-----------------------------------------------------------------------------
\* handleUpdate: photos of colours that are not sold are left out.  Save waits
\* for the upload.
SaveIsOn == saving = None /\ upload = None
HandleUpdate ==
  /\ Modal /\ SaveIsOn
  /\ \E c \in Colours : HasColour(form.cells, c)
  /\ saving' = [product |-> editing,
                doc |-> [cells |-> form.cells,
                         photos |-> {ph \in form.photos : HasColour(form.cells, ph.colour)}]]
  /\ UNCHANGED <<docs, editing, form, renaming, removal, upload, doomed, deleting, linked, strayed, edits>>

\* The product that is open then is closed.
SaveSucceeds ==
  /\ saving # None /\ docs[saving.product] # None
  /\ docs' = [docs EXCEPT ![saving.product] = saving.doc]
  /\ saving' = None
  /\ Close
  /\ UNCHANGED <<renaming, removal, upload, doomed, deleting, linked, edits>>
SaveFails ==
  /\ saving # None
  /\ saving' = None
  /\ UNCHANGED <<docs, editing, form, renaming, removal, upload, doomed, deleting, linked, strayed, edits>>

AskDelete(p) ==
  /\ Page /\ docs[p] # None
  /\ doomed' = p
  /\ UNCHANGED <<docs, editing, form, renaming, removal, upload, saving, deleting, linked, strayed, edits>>
KeepProduct ==
  /\ doomed # None
  /\ doomed' = None
  /\ UNCHANGED <<docs, editing, form, renaming, removal, upload, saving, deleting, linked, strayed, edits>>
HandleDelete ==
  /\ doomed # None /\ deleting = None
  /\ deleting' = doomed
  /\ UNCHANGED <<docs, editing, form, renaming, removal, upload, saving, doomed, linked, strayed, edits>>
DeleteAnswered(ok) ==
  /\ deleting # None
  /\ IF ok THEN docs' = [docs EXCEPT ![deleting] = None] /\ doomed' = None
     ELSE UNCHANGED <<docs, doomed>>
  /\ deleting' = None
  /\ UNCHANGED <<editing, form, renaming, removal, upload, saving, linked, strayed, edits>>

Next ==
  \/ \E p \in Shelf : HandleEdit(p) \/ AskDelete(p)
  \/ LinkedArrives \/ CloseModal \/ CancelRenameColor
  \/ \E c \in Colours :
       \/ HandleAddColor(c) \/ StartRenameColor(c) \/ SaveRenameColor(c)
       \/ HandleRemoveColor(c) \/ HandleImageSelect(c)
       \/ \E s \in Sizes : HandleStockChange(c, s)
  \/ \E s \in Sizes : HandleAddSize(s) \/ HandleRemoveSize(s)
  \/ \E ph \in form.photos : HandleRemoveImage(ph)
  \/ \E ok \in BOOLEAN : AnswerRemoval(ok) \/ PhotosArrive(ok) \/ DeleteAnswered(ok)
  \/ HandleUpdate \/ SaveSucceeds \/ SaveFails
  \/ KeepProduct \/ HandleDelete

Spec == Init /\ [][Next]_tableVars

-----------------------------------------------------------------------------
\* However the names are added, renamed and removed and the calls overlap, a
\* product is saved with one row at most for a colour and size, and with photos
\* that were chosen for it, unless an upload outlived its modal.
SavedAsEdited ==
  \A p \in Shelf : docs[p] # None =>
    /\ \A cell \in Colours \X Sizes : docs[p].cells[cell] <= 1
    /\ strayed \/ \A ph \in docs[p].photos : ph.of = p
=============================================================================
