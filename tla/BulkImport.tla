------------------------------ MODULE BulkImport ------------------------------
(***************************************************************************)
(* The bulk import of products: a sheet of variants, the photos its rows   *)
(* name, and the call that imports them.  Reading the sheet, unpacking a   *)
(* ZIP and uploading photos run on beside whatever is chosen next, each    *)
(* with the products and the files of the moment it was started.           *)
(*                                                                         *)
(* A row is [product, cell (its colour and size), id (the variant id typed *)
(* in, or None: then it is made of the cell), stock, photo (or None)]; a   *)
(* sheet is [rows, unread (a row lacks what is required), broken (not an   *)
(* Excel file)].  The photos are named by local paths.                     *)
(*                                                                         *)
(* Sources: client/src/features/admin/utils/bulkProductImport.ts,          *)
(* pages/BulkProductImport.tsx and hooks/useBulkImportProducts.ts.         *)
(***************************************************************************)
EXTENDS Naturals, Sequences, FiniteSets

CONSTANTS
  Sheets,  \* the sheets there are, each a sequence of rows with its flags
  Photos,  \* image files
  MaxJobs, \* bound: sheets and photo files chosen
  None

VARIABLES
  jobs,        \* reading, unpacking and uploading under way
  drafts,      \* products: their items, the photos wanted and those missing, or None
  files,       \* uploadedImageFiles
  parseErrors, \* there are messages about the sheet, or from the server
  imageErrors, \* there are messages about photos
  resolving,   \* isResolvingImages
  importing,   \* the call in flight
  imported,    \* the page was left after an import
  jobsStarted  \* files chosen so far (bounded)

bulkVars == <<jobs, drafts, files, parseErrors, imageErrors, resolving, importing,
              imported, jobsStarted>>

-----------------------------------------------------------------------------
\* parseExcelToProducts: the rows are gathered by product.  A row whose variant
\* id or whose colour and size an item has replaces every such item.
VariantId(row) == IF row.id = None THEN row.cell ELSE row.id

\* Mutant: the colour and size are not compared.
SameId(item, row) == item.id = VariantId(row)

SameVariant(item, row) == item.id = VariantId(row) \/ item.cell = row.cell

ItemOf(row) == [id |-> VariantId(row), cell |-> row.cell, stock |-> row.stock]

AddRow(items, row) ==
  IF \E i \in DOMAIN items : SameVariant(items[i], row)
  THEN [i \in DOMAIN items |-> IF SameVariant(items[i], row) THEN ItemOf(row) ELSE items[i]]
  ELSE Append(items, ItemOf(row))

RowsOf(sheet, p) == {i \in DOMAIN sheet.rows : sheet.rows[i].product = p}
Items(sheet, p) ==
  LET after[n \in 0..Len(sheet.rows)] ==
        IF n = 0 THEN <<>>
        ELSE IF n \in RowsOf(sheet, p) THEN AddRow(after[n - 1], sheet.rows[n])
        ELSE after[n - 1]
  IN after[Len(sheet.rows)]

ProductsOf(sheet) == {sheet.rows[i].product : i \in DOMAIN sheet.rows}
Parsed(sheet) ==
  [sheet |-> sheet,
   items |-> [p \in ProductsOf(sheet) |-> Items(sheet, p)],
   wanted |-> {sheet.rows[i].photo : i \in DOMAIN sheet.rows} \ {None},
   missing |-> {}]

-----------------------------------------------------------------------------
Init ==
  /\ jobs = {} /\ drafts = None /\ files = {}
  /\ parseErrors = FALSE /\ imageErrors = FALSE /\ resolving = FALSE
  /\ importing = None /\ imported = FALSE
  /\ jobsStarted = 0

Open == ~imported
Start(job) ==
  /\ Open /\ jobsStarted < MaxJobs
  /\ jobsStarted' = jobsStarted + 1
  /\ jobs' = jobs \union {[job EXCEPT !.number = jobsStarted]}
Job(kind, ofDrafts, ofFiles) ==
  [kind |-> kind, drafts |-> ofDrafts, files |-> ofFiles, number |-> 0]

\* handleExcelSelect, up to the reading of the file.
HandleExcelSelect(sheet) ==
  /\ Start(Job("reading", sheet, files))
  /\ parseErrors' = FALSE /\ imageErrors' = FALSE
  /\ drafts' = None
  /\ UNCHANGED <<files, resolving, importing, imported>>

\* The file is read: what it says goes on to have its photos uploaded.
ExcelRead(job) ==
  /\ job \in jobs /\ job.kind = "reading"
  /\ parseErrors' = (job.drafts.unread \/ job.drafts.broken)
  /\ resolving' = ~job.drafts.broken
  /\ jobs' = (jobs \ {job}) \union
       (IF job.drafts.broken THEN {}
        ELSE {[job EXCEPT !.kind = "uploading", !.drafts = Parsed(@)]})
  /\ UNCHANGED <<drafts, files, imageErrors, importing, imported, jobsStarted>>

\* applyUploadedImages.
ApplyImages(theDrafts, theFiles, others) ==
  /\ files' = theFiles
  /\ imageErrors' = FALSE
  /\ IF theDrafts = None THEN jobs' = others /\ UNCHANGED resolving
     ELSE /\ resolving' = TRUE
          /\ jobs' = others \union {[kind |-> "uploading", drafts |-> theDrafts,
                                     files |-> theFiles, number |-> jobsStarted]}

HandleImageFolderSelect(photo) ==
  /\ Open /\ jobsStarted < MaxJobs
  /\ jobsStarted' = jobsStarted + 1
  /\ ApplyImages(drafts, files \union {photo}, jobs)
  /\ UNCHANGED <<drafts, parseErrors, importing, imported>>

\* handleZipSelect: what is unpacked joins the files and the products there
\* were when the ZIP was chosen.
HandleZipSelect ==
  /\ Start(Job("unpacking", drafts, files))
  /\ UNCHANGED <<drafts, files, parseErrors, imageErrors, resolving, importing, imported>>
ZipUnpacked(job, photo) ==
  /\ job \in jobs /\ job.kind = "unpacking"
  /\ ApplyImages(job.drafts, job.files \union {photo}, jobs \ {job})
  /\ UNCHANGED <<drafts, parseErrors, importing, imported, jobsStarted>>
ZipIsNoUse(job) ==
  /\ job \in jobs /\ job.kind = "unpacking"
  /\ imageErrors' = TRUE
  /\ jobs' = jobs \ {job}
  /\ UNCHANGED <<drafts, files, parseErrors, resolving, importing, imported, jobsStarted>>

\* resolveImageValue: a photo that is not among the files, or does not go up.
Missing(job, up) == job.drafts.wanted \ (IF up THEN job.files ELSE {})

\* resolveAllProductImages: each is an error, which comes with its product.
ImagesResolved(job, up) ==
  /\ job \in jobs /\ job.kind = "uploading"
  /\ up \/ job.drafts.wanted \intersect job.files # {}
  /\ drafts' = [job.drafts EXCEPT !.missing = Missing(job, up)]
  /\ imageErrors' = (drafts'.missing # {})
  /\ resolving' = FALSE
  /\ jobs' = jobs \ {job}
  /\ UNCHANGED <<files, parseErrors, importing, imported, jobsStarted>>

\* handleImport behind its button.
HandleImport ==
  /\ Open /\ importing = None /\ ~resolving
  /\ drafts # None /\ ~parseErrors /\ ~imageErrors
  /\ importing' = drafts
  /\ UNCHANGED <<jobs, drafts, files, parseErrors, imageErrors, resolving, imported, jobsStarted>>

\* Products the server refused are listed like errors of the sheet; a call that
\* fails leaves the page ready to import again.
ImportAnswered(refused) ==
  /\ importing # None
  /\ importing' = None
  /\ parseErrors' = (parseErrors \/ refused)
  /\ imported' = ~refused
  /\ UNCHANGED <<jobs, drafts, files, imageErrors, resolving, jobsStarted>>
ImportFails ==
  /\ importing # None
  /\ importing' = None
  /\ UNCHANGED <<jobs, drafts, files, parseErrors, imageErrors, resolving, imported, jobsStarted>>

Next ==
  \/ \E sheet \in Sheets : HandleExcelSelect(sheet)
  \/ \E photo \in Photos : HandleImageFolderSelect(photo)
  \/ HandleZipSelect \/ HandleImport \/ ImportFails
  \/ \E job \in jobs :
       \/ ExcelRead(job) \/ ZipIsNoUse(job)
       \/ \E photo \in Photos : ZipUnpacked(job, photo)
       \/ \E up \in BOOLEAN : ImagesResolved(job, up)
  \/ \E refused \in BOOLEAN : ImportAnswered(refused)

Spec == Init /\ [][Next]_bulkVars

-----------------------------------------------------------------------------
\* What the staff get for a product of a sheet: an item for each cell its rows
\* name, with the stock of the last of them.
LastStock(sheet, p, cell) ==
  LET named == {i \in RowsOf(sheet, p) : sheet.rows[i].cell = cell}
      last == CHOOSE i \in named : \A j \in named : j <= i
  IN sheet.rows[last].stock
IdsOfTheirOwn(sheet) ==
  \A i, j \in DOMAIN sheet.rows :
    /\ sheet.rows[i].product = sheet.rows[j].product
    /\ SameId(ItemOf(sheet.rows[i]), sheet.rows[j])
    => sheet.rows[i].cell = sheet.rows[j].cell

\* A product is imported with one item for each colour and size its rows name,
\* holding the stock the last of them gives, unless the sheet gives one variant
\* id to two of them (then both items become the row that repeats it).
ImportedAsRead ==
  (importing # None /\ IdsOfTheirOwn(importing.sheet)) =>
    \A p \in DOMAIN importing.items :
      LET items == importing.items[p]
          cells == {importing.sheet.rows[i].cell : i \in RowsOf(importing.sheet, p)}
      IN /\ {items[i].cell : i \in DOMAIN items} = cells
         /\ Cardinality({items[i].cell : i \in DOMAIN items}) = Len(items)
         /\ \A i \in DOMAIN items :
              items[i].stock = LastStock(importing.sheet, p, items[i].cell)

\* The page asks to fix what is wrong before importing (BulkProductImport.tsx:294):
\* no import starts without a photo the rows name.  A ZIP chosen before the
\* sheet was read clears the messages about its photos when it is unpacked.
NoPhotoIsSkipped == importing # None => importing.missing = {}
=============================================================================
