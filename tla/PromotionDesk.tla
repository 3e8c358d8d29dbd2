---------------------------- MODULE PromotionDesk ----------------------------
(***************************************************************************)
(* The pages of a store's coupons and of its home banners, which work the  *)
(* same way: one form that adds or edits, the list beside it, and after    *)
(* each change the whole list read again.  Nothing waits for anything but  *)
(* the submit button, so changes, reloads and edits overlap.  Only banners *)
(* have media to upload and can be deleted.                                *)
(*                                                                         *)
(* A record is [on, text]; text stands for the rest of its fields.  A form *)
(* remembers the record its fields were taken from, which the code does    *)
(* not keep beside the id it saves to.                                     *)
(*                                                                         *)
(* Sources: client/src/features/admin/pages/AdminTenantCoupons.tsx,        *)
(* AdminTenantBanners.tsx, api/coupon.api.ts and api/banner.api.ts.        *)
(***************************************************************************)
EXTENDS Naturals, FiniteSets

CONSTANTS
  Records, \* ids, the first of them taken when the page opens
  Texts,
  MaxJobs, \* bound: changes sent
  None

VARIABLES
  kind,      \* which page it is
  kept,      \* server: the records by id
  list,      \* what the page lists: the records as last read, or None
  editingId,
  draft,     \* form: [of, on, text]
  uploading, \* an upload is under way
  asking,    \* the deletion being confirmed, and what was edited when it was asked for
  jobs,      \* changes under way, each up to the reload that follows it
  sent,      \* changes sent so far (bounded)
  crossed    \* two of them overlapped, or one failed after it may have been done

deskVars == <<kind, kept, list, editingId, draft, uploading, asking, jobs, sent, crossed>>

Emptied == [of |-> None, on |-> TRUE, text |-> None]
Init ==
  /\ kind \in {"coupons", "banners"}
  /\ kept \in {[r \in Records |-> IF r \in there THEN [on |-> TRUE, text |-> t] ELSE None] :
                 there \in SUBSET Records, t \in Texts}
  /\ Cardinality({r \in Records : kept[r] # None}) = 1
  /\ list = None
  /\ editingId = None /\ draft = Emptied
  /\ uploading = FALSE /\ asking = None
  /\ jobs = {} /\ sent = 0 /\ crossed = FALSE

Listed(r) == list # None /\ list[r] # None
\* The confirmation covers the page.
OnDesk == list # None /\ asking = None

\* The list is read when the page opens.
FirstLoad ==
  /\ list = None
  /\ list' = kept
  /\ UNCHANGED <<kind, kept, editingId, draft, uploading, asking, jobs, sent, crossed>>

\* Mutant: the form is emptied and its id left behind.
ResetKeepingId == editingId' = editingId /\ draft' = Emptied

\* Leaving an edit empties the form and forgets which record it was of.
ResetForm == editingId' = None /\ draft' = Emptied

\* handleEdit takes the record as the list shows it.
HandleEdit(r) ==
  /\ OnDesk /\ Listed(r)
  /\ editingId' = r
  /\ draft' = [of |-> r, on |-> list[r].on, text |-> list[r].text]
  /\ UNCHANGED <<kind, kept, list, uploading, asking, jobs, sent, crossed>>
\* New coupon, New banner, Cancel edit.
NewForm ==
  /\ OnDesk /\ editingId # None
  /\ ResetForm
  /\ UNCHANGED <<kind, kept, list, uploading, asking, jobs, sent, crossed>>
UpdateField(on, text) ==
  /\ OnDesk
  /\ draft' = [draft EXCEPT !.on = on, !.text = text]
  /\ draft' # draft
  /\ UNCHANGED <<kind, kept, list, editingId, uploading, asking, jobs, sent, crossed>>

\* handleUpload: the media goes to the form there is when it is up.
HandleUpload ==
  /\ OnDesk /\ kind = "banners" /\ ~uploading
  /\ uploading' = TRUE
  /\ UNCHANGED <<kind, kept, list, editingId, draft, asking, jobs, sent, crossed>>
Uploaded(text) ==
  /\ uploading
  /\ uploading' = FALSE
  /\ draft' = IF text = None THEN draft ELSE [draft EXCEPT !.text = text]
  /\ UNCHANGED <<kind, kept, list, editingId, asking, jobs, sent, crossed>>

-----------------------------------------------------------------------------
Send(job) ==
  /\ sent < MaxJobs
  /\ sent' = sent + 1
  /\ jobs' = jobs \union {job}
  /\ crossed' = (crossed \/ jobs # {})
Job(what, id, of, record) ==
  [what |-> what, id |-> id, of |-> of, record |-> record, stage |-> "sent", got |-> None,
   number |-> sent]

Saving == \E job \in jobs : job.what = "save"

\* handleSubmit; the button waits for the save and its reload, and the upload.
HandleSubmit ==
  /\ OnDesk /\ ~Saving /\ ~uploading
  /\ draft.text # None
  /\ Send(Job("save", editingId, draft.of, [on |-> draft.on, text |-> draft.text]))
  /\ UNCHANGED <<kind, kept, list, editingId, draft, uploading, asking>>
\* handleToggleActive sends the opposite of what the list shows.
HandleToggleActive(r) ==
  /\ OnDesk /\ Listed(r)
  /\ Send(Job("toggle", r, r, [on |-> ~list[r].on, text |-> None]))
  /\ UNCHANGED <<kind, kept, list, editingId, draft, uploading, asking>>
AskDelete(r) ==
  /\ OnDesk /\ kind = "banners" /\ Listed(r)
  /\ asking' = [id |-> r, editing |-> editingId]
  /\ UNCHANGED <<kind, kept, list, editingId, draft, uploading, jobs, sent, crossed>>
AnswerDelete(yes) ==
  /\ asking # None
  /\ asking' = None
  /\ IF yes THEN Send(Job("delete", asking.id, asking.editing, [on |-> FALSE, text |-> None]))
     ELSE UNCHANGED <<jobs, sent, crossed>>
  /\ UNCHANGED <<kind, kept, list, editingId, draft, uploading>>

\* The server: update_coupon and its like set the fields they are given.
Served(job) ==
  CASE job.what = "save" /\ job.id = None ->
         {[kept EXCEPT ![r] = job.record] : r \in {id \in Records : kept[id] = None}}
    [] job.what = "save" /\ job.id # None -> {[kept EXCEPT ![job.id] = job.record]}
    [] job.what = "toggle" -> {[kept EXCEPT ![job.id].on = job.record.on]}
    [] job.what = "delete" -> {[kept EXCEPT ![job.id] = None]}
Possible(job) == job.id \in {None} \union {r \in Records : kept[r] # None}

Serve(job) ==
  /\ job \in jobs /\ job.stage = "sent" /\ Possible(job)
  /\ kept' \in Served(job)
  /\ jobs' = (jobs \ {job}) \union {[job EXCEPT !.stage = "done"]}
  /\ UNCHANGED <<kind, list, editingId, draft, uploading, asking, sent, crossed>>

\* A save clears the form there is; a deletion, the form if it showed the record
\* when Delete was pressed.  Then the list is asked for.
Heard(job) ==
  /\ job \in jobs /\ job.stage = "done"
  /\ IF job.what = "save" \/ (job.what = "delete" /\ job.of = job.id)
     THEN ResetForm ELSE UNCHANGED <<editingId, draft>>
  /\ jobs' = (jobs \ {job}) \union {[job EXCEPT !.stage = "reading"]}
  /\ UNCHANGED <<kind, kept, list, uploading, asking, sent, crossed>>
Read(job) ==
  /\ job \in jobs /\ job.stage = "reading"
  /\ jobs' = (jobs \ {job}) \union {[job EXCEPT !.stage = "read", !.got = kept]}
  /\ UNCHANGED <<kind, kept, list, editingId, draft, uploading, asking, sent, crossed>>
\* setCoupons, setBanners, whichever answer comes last.
Reloaded(job) ==
  /\ job \in jobs /\ job.stage = "read"
  /\ list' = job.got
  /\ jobs' = jobs \ {job}
  /\ UNCHANGED <<kind, kept, editingId, draft, uploading, asking, sent, crossed>>
\* A call of it fails, or was refused: an error is shown and nothing is read again.
JobFails(job) ==
  /\ job \in jobs
  /\ jobs' = jobs \ {job}
  /\ crossed' = TRUE
  /\ UNCHANGED <<kind, kept, list, editingId, draft, uploading, asking, sent>>

Next ==
  \/ FirstLoad \/ NewForm \/ HandleUpload \/ HandleSubmit
  \/ \E r \in Records : HandleEdit(r) \/ HandleToggleActive(r) \/ AskDelete(r)
  \/ \E on \in BOOLEAN, text \in Texts : UpdateField(on, text)
  \/ \E text \in Texts \union {None} : Uploaded(text)
  \/ \E yes \in BOOLEAN : AnswerDelete(yes)
  \/ \E job \in jobs : Serve(job) \/ Heard(job) \/ Read(job) \/ Reloaded(job) \/ JobFails(job)

Spec == Init /\ [][Next]_deskVars

-----------------------------------------------------------------------------
\* However edits, saves, deletions and reloads overlap, fields taken from one
\* record are never saved over another, nor added as a new one; and unless
\* changes overlapped or failed, the list shows what the store has.
ListIsKept == (list # None /\ jobs = {} /\ ~crossed) => list = kept
SavedToItsOwn == \A job \in jobs : job.what = "save" => job.id = job.of
DeskIsTrue == SavedToItsOwn /\ ListIsKept
=============================================================================
