SPECIFICATION Spec
CONSTANTS
    None = None
    Addresses = {"home"}
    Coupons = {"tenOff"}
    Places = {"home", "work"}
    Versions = {"old", "new"}
    Goods = {"mug", "cap"}
    Changes = {1, 2}
    MaxQty = 2
    Dialogs = {"ask", "askAgain", "tell"}
    Confirms = {"ask", "askAgain"}
    Lasting = {"tell"}
    Wishes = {"wish", "cart"}
    Requests = {1, 2}
    MaxForms = 4
    Facets = {"red", "M"}
    Sorts = {"newest", "cheap"}
    Newest = "newest"
    MaxMoves = 3
    Variants <- ShirtVariants
    Pincodes = {"here", "there"}
    MaxStock = 2
    MaxClicks = 2
CHECK_DEADLOCK FALSE
INVARIANTS
    CouponOrdersAreQuoted
    ActsAreMeant
    CatalogueSettles
    ShopShowsWhatIsKept
PROPERTIES
    NeverStuckBusy
    PromiseKept
