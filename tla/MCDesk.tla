------------------------------- MODULE MCDesk -------------------------------
(***************************************************************************)
(* The pages of a store's staff and of the one who opens a store, and five *)
(* services of the back end, each explored on its own: "part" says which   *)
(* one runs.  No two run together, and the variables of what does not run  *)
(* stay None.                                                              *)
(***************************************************************************)
EXTENDS Naturals, Sequences, FiniteSets, TLC

CONSTANTS
  Papers,                                                  \* see OrderPage
  Orders, Matches, PageSize, Changes,                      \* see OrderList
  Records, Texts, MaxChanges,                              \* see PromotionDesk
  Entries, Ranges, PaymentCalls, EntriesIn(_), Rates, MaxPayCalls, \* see PaymentDesk
  Products, ProductVariants, ReceiveForms, MaxTokens, MaxSales, \* see ReceiveStock
  Shelf, Colours, Sizes, Stocked, MaxEdits,                \* see ProductTable
  Names, Standard, OneSize, MaxTweaks,                     \* see NewProduct
  Sheets, Photos, MaxJobs,                                 \* see BulkImport
  Variants, MaxStock, MaxAdjustments, MaxDialogs, MaxSold, \* see StockAdjust
  Managers, Grants, ReadOnly, MaxTeamMoves,                \* see ManagerDesk
  SettingNames, Odd, MaxErrands,                           \* see SettingsDesk
  MaxClock, Span, MaxWindows, MaxRows, MaxHoursEdits,      \* see StoreHours
  Themes, DefaultTheme, Base, Footers, OwnName, MaxThemeMoves, \* see ThemeStudio
  Phones, Slugs, Elsewhere, SignupAttempts, SignupCalls, \* see StoreSignup
  Checkers, OtpAttempts, HourlyCodes, MaxCodes,          \* see CustomerOtp
  Runners, Migrations, MaxStops,                         \* see MigrationRunner
  Visits, TrialEnd, Grace, Period, MaxTime, MaxVisits, MaxEvents, MaxPlans, \* see StoreBilling
  Clerks, TaxedOrders, Total, MaxYear, MaxNotes, MaxNumbers, \* see Invoices
  None

\* The pages.  Orders are numbers, listed by them, and a page of the list has room for
\* one; there is a variant; a new manager may read; the products on the shelf have at most
\* one row for a colour and size, and no photos yet; the rows of a sheet are a sequence;
\* times are numbers; and None is none of the things it stands for the absence of.
ASSUME PagesAssumption ==
  /\ Orders \subseteq Nat /\ IsFiniteSet(Orders) /\ Matches \subseteq SUBSET Orders
  /\ PageSize \in Nat \ {0}
  /\ Variants # {} /\ MaxStock \in Nat
  /\ ReadOnly \in Grants /\ None \notin Grants
  /\ Stocked \in [Shelf -> [cells : [Colours \X Sizes -> 0..1], photos : {{}}]]
  /\ \A sh \in Sheets : sh.rows \in Seq({sh.rows[i] : i \in DOMAIN sh.rows})
  /\ {MaxClock, Span, MaxWindows} \subseteq Nat
  /\ None \notin Nat /\ None \notin BOOLEAN
  /\ None \notin [of : Grants \cup Managers, done : BOOLEAN]
  /\ None \notin [id : Managers, of : Grants, done : BOOLEAN]
  /\ None \notin [what : {"payout", "sync", "commission"}, of : Ranges \cup Entries \cup Rates,
               done : BOOLEAN]

\* The services.  There is a number and an address to sign up with, and None is neither
\* a number nor one of the documents it stands for the absence of.
ASSUME ServicesAssumption ==
  /\ Phones # {} /\ Slugs # {}
  /\ SignupAttempts \in Nat
  /\ IsFiniteSet(Checkers) /\ OtpAttempts \in Nat \ {0}
  /\ Migrations \subseteq Nat
  /\ {TrialEnd, Grace, Period} \subseteq Nat
  /\ MaxYear \in Nat \ {0}
  /\ None \notin Nat
  /\ None \notin [owner : Runners, expired : BOOLEAN]
  /\ None \notin (1..MaxYear) \X (Nat \ {0})

VARIABLES
  part,
  order, shown, orderReading, asking, sent, rejectReason, errand, behind, \* OrderPage
  status, filter, page, search, rows, total, listing, rowUpdating, pending, question,
  apart, \* OrderList
  promotionKind, promotions, promotionList, editingId, draft, uploading, deletionAsked,
  jobs, changesSent, crossed, \* PromotionDesk
  ledger, rate, range, answers, fetching, rateShown, rateTyped, paying, syncing, payCalls,
  unheard, outlived, \* PaymentDesk
  step, mode, product, form, lastPayload, preview, confirmed, error, previewAsked,
  committing, issued, received, sales, agreed, \* ReceiveStock
  docs, editing, editForm, renaming, removal, upload, saving, doomed, deleting, linked,
  strayed, edits, \* ProductTable
  business, known, title, filled, palette, cut, grid, pictured, sending, creating, notice,
  gone, shelf, orphaned, tweaks, \* NewProduct
  importJobs, drafts, files, parseErrors, imageErrors, resolving, importing, imported,
  jobsStarted, \* BulkImport
  stock, movements, listed, captured, override, fields, adjustments, history,
  historyReading, adjusted, dialogs, sold, untold, unread, \* StockAdjust
  staff, managersIssued, team, teamReading, rowDraft, granted, adding, managerUpdating,
  removing, touched, silent, teamMoves, \* ManagerDesk
  desk, settings, notices, sheet, loaded, failedShown, errands, run, dirty, outdated, \* SettingsDesk
  clock, hours, hoursCache, tenantReading, hoursForm, pictureUploading, hoursSaving,
  hoursEdits, hoursCopy, passed, \* StoreHours
  storeLayout, query, tenant, studio, live, themePreview, publishing, themeMoves, mixed,
  layoutBehind, reverted, \* ThemeStudio
  signupStep, details, otp, waiting, requests, sentCount, codes, stores, \* StoreSignup
  otpCodes, job, customers, staffs, disabled, opened, guesses, landed,   \* CustomerOtp
  lock, applied, runner, started, stops,                                 \* MigrationRunner
  now, visits, billing, copy, plans, mail, told, heard, charge, upset,   \* StoreBilling
  year, profile, counter, invoice, notes, request, answered, asked       \* Invoices

\* A product without a name, and one with a row left empty.
DeskForms == {
  [known |-> "n", rows |-> <<>>, named |-> FALSE],
  [known |-> "n", rows |-> <<[name |-> "v1", qty |-> "n"], [name |-> "", qty |-> ""]>>,
   named |-> TRUE]}

OneRedShirt == [cells |-> [cell \in {"red", "blue"} \X {"S", "M"} |->
                             IF cell = <<"red", "S">> THEN 1 ELSE 0], photos |-> {}]
ShelfStocked == ("A" :> OneRedShirt) @@ ("B" :> OneRedShirt)

\* A sheet whose last row names a variant, one with a variant's id typed twice, and one
\* that cannot be read.
Row(p, c, i, s, ph) == [product |-> p, cell |-> c, id |-> i, stock |-> s, photo |-> ph]
ImportSheets == {
  [rows |-> <<Row("p", "a", None, 1, "x"), Row("p", "b", None, 2, None),
              Row("q", "a", None, 5, None), Row("p", "a", "w", 3, "y")>>,
   unread |-> FALSE, broken |-> FALSE],
  [rows |-> <<Row("p", "a", "v", 1, "x"), Row("p", "b", "v", 2, None)>>,
   unread |-> TRUE, broken |-> FALSE],
  [rows |-> <<>>, unread |-> FALSE, broken |-> TRUE]}

\* Orders the staff look for among both, and those a search finds.
OrderMatches == {{1, 2}, {2}}

RangeEntries(r) == IF r = "all" THEN {"x", "y"} ELSE {"y"}

Order == INSTANCE OrderPage WITH reading <- orderReading
List == INSTANCE OrderList WITH updating <- rowUpdating, Calls <- Changes
Promotions == INSTANCE PromotionDesk WITH kind <- promotionKind, kept <- promotions,
    list <- promotionList, asking <- deletionAsked, sent <- changesSent, MaxJobs <- MaxChanges
Payments == INSTANCE PaymentDesk WITH Calls <- PaymentCalls, EntriesOf <- EntriesIn
Receive == INSTANCE ReceiveStock WITH asked <- previewAsked, Variants <- ProductVariants,
    Forms <- ReceiveForms
Table == INSTANCE ProductTable WITH form <- editForm
New == INSTANCE NewProduct WITH MaxEdits <- MaxTweaks
Import == INSTANCE BulkImport WITH jobs <- importJobs
Adjust == INSTANCE StockAdjust WITH saving <- adjustments, reading <- historyReading
Team == INSTANCE ManagerDesk WITH issued <- managersIssued, reading <- teamReading,
    updating <- managerUpdating, moves <- teamMoves, MaxEdits <- MaxTeamMoves
Settings == INSTANCE SettingsDesk WITH Names <- SettingNames
Hours == INSTANCE StoreHours WITH kept <- hours, cache <- hoursCache,
    reading <- tenantReading, uploading <- pictureUploading, saving <- hoursSaving,
    edits <- hoursEdits, copy <- hoursCopy, MaxTime <- MaxClock, MaxEdits <- MaxHoursEdits
Theme == INSTANCE ThemeStudio WITH preview <- themePreview, moves <- themeMoves,
    behind <- layoutBehind, Default <- DefaultTheme, MaxMoves <- MaxThemeMoves
Signup == INSTANCE StoreSignup WITH MaxAttempts <- SignupAttempts, MaxCalls <- SignupCalls
Otp == INSTANCE CustomerOtp WITH codes <- otpCodes, Requests <- Checkers,
    MaxAttempts <- OtpAttempts, MaxSendsPerHour <- HourlyCodes
Runner == INSTANCE MigrationRunner
Billing == INSTANCE StoreBilling WITH Requests <- Visits
Taxes == INSTANCE Invoices WITH Requests <- Clerks, Orders <- TaxedOrders

-----------------------------------------------------------------------------
orderVars == <<order, shown, orderReading, asking, sent, rejectReason, errand, behind>>
listVars == <<status, filter, page, search, rows, total, listing, rowUpdating, pending,
    question, apart>>
promotionVars == <<promotionKind, promotions, promotionList, editingId, draft, uploading,
    deletionAsked, jobs, changesSent, crossed>>
paymentVars == <<ledger, rate, range, answers, fetching, rateShown, rateTyped, paying,
    syncing, payCalls, unheard, outlived>>
receiveVars == <<step, mode, product, form, lastPayload, preview, confirmed, error,
    previewAsked, committing, issued, received, sales, agreed>>
tableVars == <<docs, editing, editForm, renaming, removal, upload, saving, doomed,
    deleting, linked, strayed, edits>>
newVars == <<business, known, title, filled, palette, cut, grid, pictured, sending,
    creating, notice, gone, shelf, orphaned, tweaks>>
importVars == <<importJobs, drafts, files, parseErrors, imageErrors, resolving, importing,
    imported, jobsStarted>>
adjustVars == <<stock, movements, listed, captured, override, fields, adjustments,
    history, historyReading, adjusted, dialogs, sold, untold, unread>>
teamVars == <<staff, managersIssued, team, teamReading, rowDraft, granted, adding,
    managerUpdating, removing, touched, silent, teamMoves>>
settingsVars == <<desk, settings, notices, sheet, loaded, failedShown, errands, run,
    dirty, outdated>>
hoursVars == <<clock, hours, hoursCache, tenantReading, hoursForm, pictureUploading,
    hoursSaving, hoursEdits, hoursCopy, passed>>
themeVars == <<storeLayout, query, tenant, studio, live, themePreview, publishing,
    themeMoves, mixed, layoutBehind, reverted>>
signupVars == <<signupStep, details, otp, waiting, requests, sentCount, codes, stores>>
otpVars == <<otpCodes, job, customers, staffs, disabled, opened, guesses, landed>>
runnerVars == <<lock, applied, runner, started, stops>>
billingVars == <<now, visits, billing, copy, plans, mail, told, heard, charge, upset>>
invoiceVars == <<year, profile, counter, invoice, notes, request, answered, asked>>
salesVars == <<orderVars, listVars, promotionVars, paymentVars>>
goodsVars == <<receiveVars, tableVars, newVars, importVars, adjustVars>>
storeVars == <<teamVars, settingsVars, hoursVars, themeVars>>
serviceVars == <<signupVars, otpVars, runnerVars, billingVars, invoiceVars>>

\* What does not run stays None.
NoOrder ==
  /\ order = None /\ shown = None /\ orderReading = None /\ asking = None /\ sent = None
  /\ rejectReason = None /\ errand = None /\ behind = None
NoList ==
  /\ status = None /\ filter = None /\ page = None /\ search = None /\ rows = None
  /\ total = None /\ listing = None /\ rowUpdating = None /\ pending = None
  /\ question = None /\ apart = None
NoPromotions ==
  /\ promotionKind = None /\ promotions = None /\ promotionList = None
  /\ editingId = None /\ draft = None /\ uploading = None /\ deletionAsked = None
  /\ jobs = None /\ changesSent = None /\ crossed = None
NoPayments ==
  /\ ledger = None /\ rate = None /\ range = None /\ answers = None /\ fetching = None
  /\ rateShown = None /\ rateTyped = None /\ paying = None /\ syncing = None
  /\ payCalls = None /\ unheard = None /\ outlived = None
NoReceive ==
  /\ step = None /\ mode = None /\ product = None /\ form = None /\ lastPayload = None
  /\ preview = None /\ confirmed = None /\ error = None /\ previewAsked = None
  /\ committing = None /\ issued = None /\ received = None /\ sales = None
  /\ agreed = None
NoTable ==
  /\ docs = None /\ editing = None /\ editForm = None /\ renaming = None
  /\ removal = None /\ upload = None /\ saving = None /\ doomed = None /\ deleting = None
  /\ linked = None /\ strayed = None /\ edits = None
NoNew ==
  /\ business = None /\ known = None /\ title = None /\ filled = None /\ palette = None
  /\ cut = None /\ grid = None /\ pictured = None /\ sending = None /\ creating = None
  /\ notice = None /\ gone = None /\ shelf = None /\ orphaned = None /\ tweaks = None
NoImport ==
  /\ importJobs = None /\ drafts = None /\ files = None /\ parseErrors = None
  /\ imageErrors = None /\ resolving = None /\ importing = None /\ imported = None
  /\ jobsStarted = None
NoAdjust ==
  /\ stock = None /\ movements = None /\ listed = None /\ captured = None
  /\ override = None /\ fields = None /\ adjustments = None /\ history = None
  /\ historyReading = None /\ adjusted = None /\ dialogs = None /\ sold = None
  /\ untold = None /\ unread = None
NoTeam ==
  /\ staff = None /\ managersIssued = None /\ team = None /\ teamReading = None
  /\ rowDraft = None /\ granted = None /\ adding = None /\ managerUpdating = None
  /\ removing = None /\ touched = None /\ silent = None /\ teamMoves = None
NoSettings ==
  /\ desk = None /\ settings = None /\ notices = None /\ sheet = None /\ loaded = None
  /\ failedShown = None /\ errands = None /\ run = None /\ dirty = None
  /\ outdated = None
NoHours ==
  /\ clock = None /\ hours = None /\ hoursCache = None /\ tenantReading = None
  /\ hoursForm = None /\ pictureUploading = None /\ hoursSaving = None
  /\ hoursEdits = None /\ hoursCopy = None /\ passed = None
NoTheme ==
  /\ storeLayout = None /\ query = None /\ tenant = None /\ studio = None /\ live = None
  /\ themePreview = None /\ publishing = None /\ themeMoves = None /\ mixed = None
  /\ layoutBehind = None /\ reverted = None
NoSignup ==
  /\ signupStep = None /\ details = None /\ otp = None /\ waiting = None
  /\ requests = None /\ sentCount = None /\ codes = None /\ stores = None
NoOtp ==
  /\ otpCodes = None /\ job = None /\ customers = None /\ staffs = None
  /\ disabled = None /\ opened = None /\ guesses = None /\ landed = None
NoRunner ==
  lock = None /\ applied = None /\ runner = None /\ started = None /\ stops = None
NoBilling ==
  /\ now = None /\ visits = None /\ billing = None /\ copy = None /\ plans = None
  /\ mail = None /\ told = None /\ heard = None /\ charge = None /\ upset = None
NoTaxes ==
  /\ year = None /\ profile = None /\ counter = None /\ invoice = None
  /\ notes = None /\ request = None /\ answered = None /\ asked = None

\* Where each page or service starts, and its steps.
OrderStart == IF part = "order" THEN Order!Init ELSE NoOrder
OrderStep ==
  /\ part = "order" /\ Order!Next
  /\ UNCHANGED <<part, listVars, promotionVars, paymentVars, goodsVars, storeVars,
       serviceVars>>
ListStart == IF part = "orders" THEN List!Init ELSE NoList
ListStep ==
  /\ part = "orders" /\ List!Next
  /\ UNCHANGED <<part, orderVars, promotionVars, paymentVars, goodsVars, storeVars,
       serviceVars>>
PromotionsStart == IF part = "promotions" THEN Promotions!Init ELSE NoPromotions
PromotionsStep ==
  /\ part = "promotions" /\ Promotions!Next
  /\ UNCHANGED <<part, orderVars, listVars, paymentVars, goodsVars, storeVars,
       serviceVars>>
PaymentsStart == IF part = "payments" THEN Payments!Init ELSE NoPayments
PaymentsStep ==
  /\ part = "payments" /\ Payments!Next
  /\ UNCHANGED <<part, orderVars, listVars, promotionVars, goodsVars, storeVars,
       serviceVars>>
ReceiveStart == IF part = "receive" THEN Receive!Init ELSE NoReceive
ReceiveStep ==
  /\ part = "receive" /\ Receive!Next
  /\ UNCHANGED <<part, tableVars, newVars, importVars, adjustVars, salesVars, storeVars,
       serviceVars>>
TableStart == IF part = "products" THEN Table!Init ELSE NoTable
TableStep ==
  /\ part = "products" /\ Table!Next
  /\ UNCHANGED <<part, receiveVars, newVars, importVars, adjustVars, salesVars, storeVars,
       serviceVars>>
NewStart == IF part = "new" THEN New!Init ELSE NoNew
NewStep ==
  /\ part = "new" /\ New!Next
  /\ UNCHANGED <<part, receiveVars, tableVars, importVars, adjustVars, salesVars,
       storeVars, serviceVars>>
ImportStart == IF part = "import" THEN Import!Init ELSE NoImport
ImportStep ==
  /\ part = "import" /\ Import!Next
  /\ UNCHANGED <<part, receiveVars, tableVars, newVars, adjustVars, salesVars, storeVars,
       serviceVars>>
AdjustStart == IF part = "stock" THEN Adjust!Init ELSE NoAdjust
AdjustStep ==
  /\ part = "stock" /\ Adjust!Next
  /\ UNCHANGED <<part, receiveVars, tableVars, newVars, importVars, salesVars, storeVars,
       serviceVars>>
TeamStart == IF part = "managers" THEN Team!Init ELSE NoTeam
TeamStep ==
  /\ part = "managers" /\ Team!Next
  /\ UNCHANGED <<part, settingsVars, hoursVars, themeVars, salesVars, goodsVars,
       serviceVars>>
SettingsStart == IF part = "settings" THEN Settings!Init ELSE NoSettings
SettingsStep ==
  /\ part = "settings" /\ Settings!Next
  /\ UNCHANGED <<part, teamVars, hoursVars, themeVars, salesVars, goodsVars, serviceVars>>
HoursStart == IF part = "hours" THEN Hours!Init ELSE NoHours
HoursStep ==
  /\ part = "hours" /\ Hours!Next
  /\ UNCHANGED <<part, teamVars, settingsVars, themeVars, salesVars, goodsVars,
       serviceVars>>
ThemeStart == IF part = "theme" THEN Theme!Init ELSE NoTheme
ThemeStep ==
  /\ part = "theme" /\ Theme!Next
  /\ UNCHANGED <<part, teamVars, settingsVars, hoursVars, salesVars, goodsVars,
       serviceVars>>
SignupStart == IF part = "signup" THEN Signup!Init ELSE NoSignup
SignupStep ==
  /\ part = "signup" /\ Signup!Next
  /\ UNCHANGED <<part, otpVars, runnerVars, billingVars, invoiceVars, salesVars,
       goodsVars, storeVars>>
OtpStart == IF part = "otp" THEN Otp!Init ELSE NoOtp
OtpStep ==
  /\ part = "otp" /\ Otp!Next
  /\ UNCHANGED <<part, signupVars, runnerVars, billingVars, invoiceVars, salesVars,
       goodsVars, storeVars>>
RunnerStart == IF part = "migrations" THEN Runner!Init ELSE NoRunner
RunnerStep ==
  /\ part = "migrations" /\ Runner!Next
  /\ UNCHANGED <<part, signupVars, otpVars, billingVars, invoiceVars, salesVars,
       goodsVars, storeVars>>
BillingStart == IF part = "billing" THEN Billing!Init ELSE NoBilling
BillingStep ==
  /\ part = "billing" /\ Billing!Next
  /\ UNCHANGED <<part, signupVars, otpVars, runnerVars, invoiceVars, salesVars, goodsVars,
       storeVars>>
TaxesStart == IF part = "invoices" THEN Taxes!Init ELSE NoTaxes
TaxesStep ==
  /\ part = "invoices" /\ Taxes!Next
  /\ UNCHANGED <<part, signupVars, otpVars, runnerVars, billingVars, salesVars, goodsVars,
       storeVars>>

Parts == {"order", "orders", "promotions", "payments", "receive", "products", "new",
          "import", "stock", "managers", "settings", "hours", "theme", "signup", "otp",
          "migrations", "billing", "invoices"}

Init ==
  /\ part \in Parts
  /\ OrderStart /\ ListStart /\ PromotionsStart /\ PaymentsStart /\ ReceiveStart /\ TableStart
  /\ NewStart /\ ImportStart /\ AdjustStart /\ TeamStart /\ SettingsStart /\ HoursStart
  /\ ThemeStart /\ SignupStart /\ OtpStart /\ RunnerStart /\ BillingStart /\ TaxesStart

Next ==
  \/ OrderStep \/ ListStep \/ PromotionsStep \/ PaymentsStep \/ ReceiveStep \/ TableStep
  \/ NewStep \/ ImportStep \/ AdjustStep \/ TeamStep \/ SettingsStep \/ HoursStep
  \/ ThemeStep \/ SignupStep \/ OtpStep \/ RunnerStep \/ BillingStep \/ TaxesStep

allVars == <<part, salesVars, goodsVars, storeVars, serviceVars>>

Spec == Init /\ [][Next]_allVars

\* The requests that check a store are alike: TLC need not tell them apart.
Alike == Permutations(Visits)

-----------------------------------------------------------------------------
\* What the staff's pages show is what the server keeps, once nothing is on its way and
\* no answer was lost: the order, the team, the statement of the ledger, coupons and
\* banners, the stock and its history, the settings, the layout of the store; a change
\* made in the list of orders leaves no empty page behind, and the store is open when
\* its hours, as the form shows them, say so.
DesksShowWhatIsKept ==
  CASE part = "order" -> Order!OrderShownIsOrderKept
    [] part = "orders" -> List!ChangeLeavesNoEmptyPage
    [] part = "managers" -> Team!TeamShownIsTeamKept
    [] part = "payments" -> Payments!StatementIsLedger
    [] part = "promotions" -> Promotions!DeskIsTrue
    [] part = "stock" -> Adjust!StockShownIsKept
    [] part = "settings" -> Settings!SettingsShownAreKept
    [] part = "hours" -> Hours!HoursAsShown
    [] part = "theme" -> Theme!StudioShowsStore
    [] OTHER -> TRUE

\* What a form writes is what was agreed on its page: the units received, the product
\* saved or created, the sheet imported.
WrittenAsAgreed ==
  CASE part = "receive" -> Receive!ReceivedAsAgreed
    [] part = "products" -> Table!SavedAsEdited
    [] part = "new" -> New!SubmittedIsCreatable
    [] part = "import" -> Import!ImportedAsRead
    [] OTHER -> TRUE

\* What must happen once, or only to whom it is due, does: a store is opened only with the
\* code sent for it, a sign-in code lets one in, migrations are applied once and in
\* order, an order has one invoice, and a store that has paid is not shut.
ServicesKeepTheirWord ==
  CASE part = "signup" -> Signup!CodesOpenTheirStore
    [] part = "otp" -> Otp!CodesLetOneIn
    [] part = "migrations" -> Runner!AppliedOnceInOrder
    [] part = "invoices" -> Taxes!InvoicesStand
    [] part = "billing" -> Billing!PaidStaysOpen
    [] OTHER -> TRUE

\* A store whose hours open or close it had announced that moment.
ChangeIsAnnounced == [][part = "hours" => Hours!Announced]_allVars
=============================================================================
