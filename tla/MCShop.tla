------------------------------- MODULE MCShop -------------------------------
(***************************************************************************)
(* The pages of a store's shopper, each explored on its own: "part" says   *)
(* which one runs.                                                         *)
(***************************************************************************)
EXTENDS Naturals, Sequences

CONSTANTS
  Addresses, Coupons,        \* of the checkout
  Places, Versions,          \* of the address section, see AddressBook
  Goods, Changes, MaxQty,    \* of the cart: its products and the changes in flight
  Dialogs, Confirms, Lasting, \* of the client's popups, see AlertQueue
  Wishes, Requests, MaxForms, \* of the sign-in, see SignInModal
  Facets, Sorts, Newest, MaxMoves, \* of the catalogue, see Browsing
  Variants, Pincodes, MaxStock, MaxClicks, \* of a product, see ProductPage
  None

\* What there is to choose, ask for or answer is something.
ASSUME ShopAssumption ==
  /\ None \notin Addresses \cup Coupons \cup Dialogs \cup Wishes \cup {"yes", "no"}
  /\ None \notin Places \cup Pincodes /\ None \notin [got : (SUBSET Goods) \cup {None}]
  /\ Goods # {} /\ Newest \in Sorts

VARIABLES
  part,
  choice, preview, couponError, processing, placing, leaving, sent, cartFull, cartShown,
  saved, listShown, listing, selected, chosen, addressForm, saving, deleting, lost,
  cart, lines, updating, removing, call, fetch, missed,
  handler, queue, current, answer, clicked, clicks,
  isOpen, view, form, loading, cooling, onSuccess, pending, signedIn, performed, dropped,
  address, entries, here, moving, filters, catalog, debouncedPrice, moves, wanted,
  stock, copies, productShown, productView, line, review, submitting, delivery, customer,
  shareWanted, sharing, wished, wishCopy, reading, calls, pendingCard, outdated,
  productClicks

checkoutVars == <<choice, preview, couponError, processing, placing, leaving, sent,
    cartFull, cartShown>>
bookVars == <<saved, listShown, listing, selected, chosen, addressForm, saving, deleting,
    lost>>
cartVars == <<cart, lines, updating, removing, call, fetch, missed>>
alertVars == <<handler, queue, current, answer, clicked, clicks>>
modalVars == <<isOpen, view, form, loading, cooling, onSuccess, pending, signedIn,
    performed, dropped>>
browsingVars == <<address, entries, here, moving, filters, catalog, debouncedPrice, moves,
    wanted>>
productVars == <<stock, copies, productShown, productView, line, review, submitting,
    delivery, customer, shareWanted, sharing, wished, wishCopy, reading, calls, pendingCard,
    outdated, productClicks>>

\* The variants of a shirt, for the run.
ShirtVariants == <<[colour |-> "red", size |-> "S"], [colour |-> "red", size |-> "M"],
                   [colour |-> "blue", size |-> "M"]>>

Checkout == INSTANCE CheckoutPage
Book == INSTANCE AddressBook WITH shown <- listShown, form <- addressForm
Cart == INSTANCE CartPage WITH Products <- Goods, Calls <- Changes
Alerts == INSTANCE AlertQueue WITH Calls <- Dialogs
SignIn == INSTANCE SignInModal
Browse == INSTANCE Browsing
Product == INSTANCE ProductPage WITH Products <- Goods, shown <- productShown,
    view <- productView, wanted <- shareWanted, clicks <- productClicks

-----------------------------------------------------------------------------
CheckoutStep ==
  /\ part = "checkout" /\ Checkout!Next
  /\ UNCHANGED <<part, bookVars, cartVars, alertVars, modalVars, browsingVars, productVars>>
BookStep ==
  /\ part = "addresses" /\ Book!Next
  /\ UNCHANGED <<part, checkoutVars, cartVars, alertVars, modalVars, browsingVars,
      productVars>>
CartStep ==
  /\ part = "cart" /\ Cart!Next
  /\ UNCHANGED <<part, checkoutVars, bookVars, alertVars, modalVars, browsingVars,
      productVars>>
AlertsStep ==
  /\ part = "dialogs" /\ Alerts!Next
  /\ UNCHANGED <<part, checkoutVars, bookVars, cartVars, modalVars, browsingVars,
      productVars>>
SignInStep ==
  /\ part = "sign-in" /\ SignIn!Next
  /\ UNCHANGED <<part, checkoutVars, bookVars, cartVars, alertVars, browsingVars,
      productVars>>
BrowseStep ==
  /\ part = "catalogue" /\ Browse!Next
  /\ UNCHANGED <<part, checkoutVars, bookVars, cartVars, alertVars, modalVars, productVars>>
ProductStep ==
  /\ part = "product" /\ Product!Next
  /\ UNCHANGED <<part, checkoutVars, bookVars, cartVars, alertVars, modalVars,
      browsingVars>>

Parts == {"checkout", "addresses", "cart", "dialogs", "sign-in", "catalogue", "product"}

\* A page that does not run stays as it starts; the product page that does not run has
\* one of its states.
Init ==
  /\ part \in Parts
  /\ Checkout!Init /\ Book!Init /\ Cart!Init /\ Alerts!Init /\ SignIn!Init /\ Browse!Init
  /\ Product!Init
  /\ part # "product" => /\ stock = [p \in Goods |-> [i \in Product!Ids |-> MaxStock]]
                         /\ customer /\ wished = {}

Next ==
  \/ CheckoutStep \/ BookStep \/ CartStep \/ AlertsStep \/ SignInStep \/ BrowseStep
  \/ ProductStep

allVars == <<part, checkoutVars, bookVars, cartVars, alertVars, modalVars, browsingVars,
             productVars>>

\* The fairness of the pages that state one, see CheckoutPage and AlertQueue.
Spec ==
  /\ Init /\ [][Next]_allVars
  /\ WF_checkoutVars(Checkout!OrderAnswered)
  /\ WF_checkoutVars(Checkout!Left)
  /\ WF_alertVars(Alerts!Click)

-----------------------------------------------------------------------------
\* An order with a coupon is sent only once the page shows its price with that coupon.
CouponOrdersAreQuoted == Checkout!CouponOrdersAreQuoted

\* The order button never stays busy, whatever fails: see CheckoutPage.
NeverStuckBusy == Checkout!NeverStuckBusy

\* The queue of dialogs implements the promise its callers rely on, that they are
\* answered in the end included: see AlertPromise.
PromiseKept == Alerts!PromiseKept

\* The client does what was asked of it just then: no click answers a dialog it was not
\* made on, and what a shopper gave up at the sign-in is not done by a later one.
ActsAreMeant == Alerts!AnsweredByItsOwnDialog /\ SignIn!GivenUpIsNotDone

\* The filters of the catalogue are those its shopper picked last, once nothing is on
\* its way, and their two copies come to rest: see Browsing.
CatalogueSettles == Browse!CatalogueSettles

\* What the shopper's pages show is what the server keeps, once nothing is on its way
\* and no answer was lost: the cart, the address an order goes to, the hearts, the
\* delivery terms.
ShopShowsWhatIsKept ==
  Cart!CartShownIsCartKept /\ Book!OrdersGoToTheAddressShown /\ Product!ProductPageHolds
=============================================================================
