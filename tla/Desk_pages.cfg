SPECIFICATION Spec
CONSTANTS
    None = None
    Papers = {"paper"}
    Orders = {1, 2}
    Matches <- OrderMatches
    PageSize = 1
    Changes = {1}
    Records = {"a", "b"}
    Texts = {"t"}
    MaxChanges = 2
    Entries = {"x", "y"}
    Ranges = {"all", "late"}
    EntriesIn <- RangeEntries
    PaymentCalls = {1, 2}
    Rates = {"5%"}
    MaxPayCalls = 2
    Products = {"shirt"}
    ProductVariants = {"v1"}
    ReceiveForms <- DeskForms
    MaxTokens = 2
    MaxSales = 1
    Shelf = {"A", "B"}
    Colours = {"red", "blue"}
    Sizes = {"S", "M"}
    Stocked <- ShelfStocked
    MaxEdits = 1
    Names = {"n"}
    Standard = "Standard"
    OneSize = "One Size"
    MaxTweaks = 5
    Sheets <- ImportSheets
    Photos = {"x", "y"}
    MaxJobs = 3
    Variants = {"v1", "v2"}
    MaxStock = 2
    MaxAdjustments = 1
    MaxDialogs = 2
    MaxSold = 1
    Managers = {"a", "b"}
    Grants = {"read", "all"}
    ReadOnly = "read"
    MaxTeamMoves = 4
    SettingNames = {"n1", "odd"}
    Odd = "odd"
    MaxErrands = 3
    MaxClock = 2
    Span = 1
    MaxWindows = 2
    MaxRows = 3
    MaxHoursEdits = 2
    Themes = {"green", "blue"}
    DefaultTheme = "green"
    Base = "base"
    Footers = {"ours"}
    OwnName = "name"
    MaxThemeMoves = 2
    Phones = {"p", "q"}
    Slugs = {"a", "b"}
    Elsewhere = "taken"
    SignupAttempts = 1
    SignupCalls = 3
    Checkers = {1, 2}
    OtpAttempts = 1
    HourlyCodes = 2
    MaxCodes = 2
    Runners = {1, 2}
    Migrations = {1, 2}
    MaxStops = 2
    Visits = {k1, k2}
    TrialEnd = 1
    Grace = 1
    Period = 2
    MaxTime = 4
    MaxVisits = 3
    MaxEvents = 2
    MaxPlans = 2
    Clerks = {1, 2}
    TaxedOrders = {1, 2}
    Total = 1
    MaxYear = 2
    MaxNotes = 2
    MaxNumbers = 2
SYMMETRY Alike
CHECK_DEADLOCK FALSE
INVARIANTS
    
    WrittenAsAgreed
    ServicesKeepTheirWord
PROPERTY ChangeIsAnnounced
