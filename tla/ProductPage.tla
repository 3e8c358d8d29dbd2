------------------------------- MODULE ProductPage -------------------------------
(***************************************************************************)
(* The page of a product: its colours, sizes and quantity, "Add to Cart",  *)
(* the heart, the delivery check, the review form, "Send to my WhatsApp"   *)
(* and the hearts of the similar products below.  The page is not keyed by *)
(* its product: going to a product whose data is still cached keeps what   *)
(* was picked, and what was written in the review form is kept always.     *)
(* The page and the similar products share one cached wishlist, read again *)
(* after each call that succeeds and never after one that fails.  Modelled *)
(* for a store that sells products; services and menus show a part of it.  *)
(*                                                                         *)
(* Sources: client/src/pages/ProductDetails, features/wishlist/hooks/      *)
(* useWishlist.ts, features/reviews/hooks/useReviews.ts, features/products/*)
(* hooks, features/storefront/hooks/useStorefrontProductActions.ts;        *)
(* server app/routes/wishlist.py.                                          *)
(***************************************************************************)
EXTENDS Naturals, Sequences

CONSTANTS
  Products,   \* products of the store
  Variants,   \* variants of every product in the order listed: [colour, size]
  Pincodes,   \* pincodes typed
  MaxStock,   \* bound: units of a variant
  MaxClicks,  \* bound: what the shopper does, and what others do
  None

VARIABLES
  stock,    \* server: the units of each product's variants
  copies,   \* the browser's copy of each product's stock, or None
  shown,    \* the product of the address
  view,     \* what the mounted view holds: [colour, size, quantity], or None
  line,     \* a line being added to the cart: [product, variant, quantity], or None
  review,   \* the review form: [open, written]
  submitting, \* the product of a review on its way, or None
  delivery, \* the pincodes typed, being checked and quoted, or None
  customer, \* a customer is signed in
  wanted,   \* the product whose message waits for the sign-in, or None
  sharing,  \* a message on its way to the customer's WhatsApp, or None
  wished, wishCopy, \* the wishlist kept by the server, and the cached one
  reading,  \* a reading of the wishlist: [got], the products or None; or None
  calls,    \* wishlist calls under way: [by, of, op, step]
  pendingCard, \* the similar product whose heart shows a call, or None
  outdated, \* the wishlist changed and no reading follows
  clicks

productVars == <<stock, copies, shown, view, line, review, submitting, delivery, customer,
                 wanted, sharing, wished, wishCopy, reading, calls, pendingCard, outdated, clicks>>
pageVars == <<shown, view, line, review, submitting, delivery, wanted, sharing>>
wishVars == <<wished, wishCopy, reading, calls, pendingCard, outdated>>

-----------------------------------------------------------------------------
Ids == 1 .. Len(Variants)
Picked(units, colour, size) ==
  {i \in Ids : units[i] > 0 /\ Variants[i].colour = colour /\ Variants[i].size = size}
Earliest(ids) == CHOOSE i \in ids : \A j \in ids : i <= j

\* selectedVariant
SelectedVariant(units, v) ==
  LET found == Picked(units, v.colour, v.size)
  IN IF found = {} THEN None ELSE Earliest(found)
CurrentStock == IF SelectedVariant(copies[shown], view) = None THEN 0
                ELSE copies[shown][SelectedVariant(copies[shown], view)]

AvailableColors == {Variants[i].colour : i \in {j \in Ids : copies[shown][j] > 0}}
AvailableSizes == {Variants[i].size : i \in {j \in Ids : /\ copies[shown][j] > 0
                                                         /\ Variants[j].colour = view.colour}}

\* The view's state when it is mounted, and after a colour is chosen: the first size in
\* stock, none when every variant is sold out.
FirstSize(units, colour) ==
  LET found == {i \in Ids : units[i] > 0 /\ Variants[i].colour = colour}
  IN IF found = {} THEN None ELSE Variants[Earliest(found)].size
Mounted(units) ==
  LET found == {i \in Ids : units[i] > 0}
      colour == IF found = {} THEN None ELSE Variants[Earliest(found)].colour
  IN [colour |-> colour, size |-> FirstSize(units, colour), quantity |-> 1]

NoReview == [open |-> FALSE, written |-> FALSE]
Asked == [got |-> None]
NoQuote == [pincode |-> None, checking |-> None, quoted |-> None]

Init ==
  /\ \E units \in [Ids -> {0, MaxStock}] : stock = [p \in Products |-> units]
  /\ copies = [p \in Products |-> None]
  /\ shown = CHOOSE p \in Products : TRUE  \* the products are alike
  /\ view = None /\ line = None /\ review = NoReview /\ submitting = None
  /\ delivery = NoQuote /\ wanted = None /\ sharing = None
  /\ customer \in BOOLEAN
  /\ wished \in SUBSET Products
  /\ wishCopy = (IF customer THEN wished ELSE {}) /\ reading = None /\ calls = {} /\ pendingCard = None
  /\ outdated = FALSE /\ clicks = 0

-----------------------------------------------------------------------------
Click == clicks < MaxClicks /\ clicks' = clicks + 1

\* Someone buys a unit.
SoldElsewhere(p, i) ==
  /\ Click
  /\ stock[p][i] > 0
  /\ stock' = [stock EXCEPT ![p][i] = @ - 1]
  /\ UNCHANGED <<copies, pageVars, customer, wishVars>>

\* useProductDetails: a copy mounts the view when there is none and leaves the one
\* there is as it was.
ProductArrives ==
  /\ copies[shown] # stock[shown]
  /\ copies' = [copies EXCEPT ![shown] = stock[shown]]
  /\ view' = IF view = None THEN Mounted(stock[shown]) ELSE view
  /\ UNCHANGED <<stock, shown, line, review, submitting, delivery, wanted, sharing, customer,
                 wishVars, clicks>>

\* Another product's page: the view of a cached one keeps what was picked.
GoTo(p) ==
  /\ Click
  /\ p # shown
  /\ shown' = p
  /\ view' = IF copies[p] = None THEN None ELSE IF view = None THEN Mounted(copies[p]) ELSE view
  /\ delivery' = IF copies[p] = None THEN NoQuote ELSE delivery
  /\ UNCHANGED <<stock, copies, line, review, submitting, wanted, sharing, customer, wishVars>>

HandleColorChange(colour) ==
  /\ view # None
  /\ Click
  /\ colour \in AvailableColors
  /\ LET size == FirstSize(copies[shown], colour)
         same == view.colour = colour /\ view.size = size
     IN view' = [colour |-> colour, size |-> size, quantity |-> IF same THEN view.quantity ELSE 1]
  /\ UNCHANGED <<stock, copies, shown, line, review, submitting, delivery, wanted, sharing,
                 customer, wishVars>>
SelectSize(size) ==
  /\ view # None
  /\ Click
  /\ size \in AvailableSizes \ {view.size}
  /\ view' = [view EXCEPT !.size = size, !.quantity = 1]
  /\ UNCHANGED <<stock, copies, shown, line, review, submitting, delivery, wanted, sharing,
                 customer, wishVars>>
IncreaseQuantity ==
  /\ view # None
  /\ Click
  /\ view.quantity < CurrentStock
  /\ view' = [view EXCEPT !.quantity = @ + 1]
  /\ UNCHANGED <<stock, copies, shown, line, review, submitting, delivery, wanted, sharing,
                 customer, wishVars>>
DecreaseQuantity ==
  /\ view # None
  /\ Click
  /\ view.quantity > 1
  /\ view' = [view EXCEPT !.quantity = @ - 1]
  /\ UNCHANGED <<stock, copies, shown, line, review, submitting, delivery, wanted, sharing,
                 customer, wishVars>>

\* A click without a variant only shows a message.
HandleAddToCart ==
  /\ view # None /\ customer /\ line = None
  /\ Click
  /\ SelectedVariant(copies[shown], view) # None
  /\ line' = [product |-> shown, quantity |-> view.quantity,
              variant |-> SelectedVariant(copies[shown], view)]
  /\ UNCHANGED <<stock, copies, shown, view, review, submitting, delivery, wanted, sharing,
                 customer, wishVars>>
AddAnswered ==
  /\ line # None
  /\ line' = None
  /\ UNCHANGED <<stock, copies, shown, view, review, submitting, delivery, wanted, sharing,
                 customer, wishVars, clicks>>

-----------------------------------------------------------------------------
\* The delivery check; the pincode cannot be typed while it is checked.
\* TypeableAlways would let it.
TypeableAlways == TRUE
Typeable == delivery.checking = None
TypePincode(pincode) ==
  /\ view # None
  /\ Typeable
  /\ Click
  /\ delivery' = [delivery EXCEPT !.pincode = pincode, !.quoted = None]
  /\ UNCHANGED <<stock, copies, shown, view, line, review, submitting, wanted, sharing,
                 customer, wishVars>>
HandlePincodeCheck ==
  /\ view # None /\ delivery.checking = None /\ delivery.pincode # None
  /\ delivery' = [delivery EXCEPT !.checking = delivery.pincode]
  /\ UNCHANGED <<stock, copies, shown, view, line, review, submitting, wanted, sharing,
                 customer, wishVars, clicks>>
CheckAnswered(quoted) ==
  /\ delivery.checking # None
  /\ quoted \in {None, delivery.checking}
  /\ delivery' = [delivery EXCEPT !.checking = None, !.quoted = quoted]
  /\ UNCHANGED <<stock, copies, shown, view, line, review, submitting, wanted, sharing,
                 customer, wishVars, clicks>>

-----------------------------------------------------------------------------
\* The review form belongs to the page, whichever product it shows.
HandleWriteReview ==
  /\ view # None /\ customer /\ ~review.open
  /\ Click
  /\ review' = [review EXCEPT !.open = TRUE]
  /\ UNCHANGED <<stock, copies, shown, view, line, submitting, delivery, wanted, sharing,
                 customer, wishVars>>
WriteReview ==
  /\ view # None /\ review.open /\ ~review.written
  /\ Click
  /\ review' = [review EXCEPT !.written = TRUE]
  /\ UNCHANGED <<stock, copies, shown, view, line, submitting, delivery, wanted, sharing,
                 customer, wishVars>>
HandleSubmitReview ==
  /\ view # None /\ customer /\ review.open /\ review.written /\ submitting = None
  /\ submitting' = shown
  /\ UNCHANGED <<stock, copies, shown, view, line, review, delivery, wanted, sharing,
                 customer, wishVars, clicks>>
ReviewAnswered ==
  /\ submitting # None
  /\ submitting' = None
  /\ review' \in {review, NoReview}
  /\ UNCHANGED <<stock, copies, shown, view, line, delivery, wanted, sharing, customer,
                 wishVars, clicks>>

\* "Send to my WhatsApp": before the sign-in, the product waits for it.
HandleWhatsAppShare ==
  /\ view # None /\ sharing = None
  /\ Click
  /\ IF customer THEN sharing' = shown /\ UNCHANGED wanted
     ELSE wanted' = shown /\ UNCHANGED sharing
  /\ UNCHANGED <<stock, copies, shown, view, line, review, submitting, delivery, customer,
                 wishVars>>
SignIn ==
  /\ ~customer
  /\ customer' = TRUE
  /\ sharing' = wanted /\ wanted' = None
  /\ reading' = Asked
  /\ UNCHANGED <<stock, copies, shown, view, line, review, submitting, delivery, wished, wishCopy,
                 calls, pendingCard, outdated, clicks>>
ShareAnswered ==
  /\ sharing # None
  /\ sharing' = None
  /\ UNCHANGED <<stock, copies, shown, view, line, review, submitting, delivery, wanted,
                 customer, wishVars, clicks>>

-----------------------------------------------------------------------------
\* The page's heart and those of the similar products: what a click does is decided by
\* the cached wishlist.  The page's waits for its own calls; a card's for the call that
\* was last started by a card, until any of them ends.
Decided(p) == IF p \in wishCopy THEN "remove" ELSE "add"
HandleWishlist ==
  /\ view # None /\ customer
  /\ ~\E c \in calls : c.by = "page"
  /\ Click
  /\ calls' = calls \union {[by |-> "page", of |-> shown, op |-> Decided(shown), step |-> "sent"]}
  /\ UNCHANGED <<stock, copies, pageVars, customer, wished, wishCopy, reading, pendingCard, outdated>>
CardWishlist(p) ==
  /\ view # None /\ customer
  /\ p # shown /\ pendingCard # p
  /\ ~\E c \in calls : c.by = "card" /\ c.of = p /\ c.step = "sent"
  /\ Click
  /\ calls' = calls \union {[by |-> "card", of |-> p, op |-> Decided(p), step |-> "sent"]}
  /\ pendingCard' = p
  /\ UNCHANGED <<stock, copies, pageVars, customer, wished, wishCopy, reading, outdated>>

\* add_to_wishlist and remove_from_wishlist refuse what is so already.
ServerWishes(c) ==
  /\ c \in calls /\ c.step = "sent"
  /\ LET refused == (c.op = "add") = (c.of \in wished)
     IN /\ calls' = (calls \ {c}) \union {[c EXCEPT !.step = IF refused THEN "refused" ELSE "done"]}
        /\ wished' = IF c.op = "add" THEN wished \union {c.of} ELSE wished \ {c.of}
  /\ UNCHANGED <<stock, copies, pageVars, customer, wishCopy, reading, pendingCard, outdated, clicks>>

\* Mutant: an answer on its way is still taken.
KeepReading == IF reading = None THEN Asked ELSE reading

\* invalidateQueries: a reading under way is given up for a new one.
Reread == Asked
Ended(c) ==
  /\ calls' = calls \ {c}
  /\ pendingCard' = IF c.by = "card" THEN None ELSE pendingCard
  /\ UNCHANGED <<stock, copies, pageVars, customer, wished, wishCopy, clicks>>
WishAnswered(c) ==
  /\ c \in calls /\ c.step \in {"done", "refused"}
  /\ Ended(c)
  /\ reading' = IF c.step = "done" THEN Reread ELSE reading
  /\ UNCHANGED outdated
WishLost(c) ==
  /\ c \in calls
  /\ Ended(c)
  /\ outdated' = (outdated \/ c.step = "done")
  /\ UNCHANGED reading

\* getWishlist, asked once (retry: false).
ServerReads ==
  /\ reading = Asked
  /\ reading' = [got |-> wished] /\ outdated' = FALSE
  /\ UNCHANGED <<stock, copies, pageVars, customer, wished, wishCopy, calls, pendingCard, clicks>>
WishlistArrives ==
  /\ reading \notin {None, Asked}
  /\ wishCopy' = reading.got /\ reading' = None
  /\ UNCHANGED <<stock, copies, pageVars, customer, wished, calls, pendingCard, outdated, clicks>>
WishlistFails ==
  /\ reading # None
  /\ reading' = None /\ outdated' = TRUE
  /\ UNCHANGED <<stock, copies, pageVars, customer, wished, wishCopy, calls, pendingCard, clicks>>

\* Another tab of the customer.
WishedElsewhere(p) ==
  /\ Click
  /\ wished' = IF p \in wished THEN wished \ {p} ELSE wished \union {p}
  /\ outdated' = TRUE
  /\ UNCHANGED <<stock, copies, pageVars, customer, wishCopy, reading, calls, pendingCard>>

Next ==
  \/ ProductArrives \/ SignIn
  \/ \E p \in Products : \/ GoTo(p) \/ CardWishlist(p) \/ WishedElsewhere(p)
                        \/ \E i \in Ids : SoldElsewhere(p, i)
  \/ \E i \in Ids : HandleColorChange(Variants[i].colour) \/ SelectSize(Variants[i].size)
  \/ IncreaseQuantity \/ DecreaseQuantity \/ HandleAddToCart \/ AddAnswered
  \/ \E q \in Pincodes : TypePincode(q)
  \/ HandlePincodeCheck
  \/ \E q \in Pincodes \union {None} : CheckAnswered(q)
  \/ HandleWriteReview \/ WriteReview \/ HandleSubmitReview \/ ReviewAnswered
  \/ HandleWhatsAppShare \/ ShareAnswered
  \/ HandleWishlist
  \/ \E c \in calls : ServerWishes(c) \/ WishAnswered(c) \/ WishLost(c)
  \/ ServerReads \/ WishlistArrives \/ WishlistFails

Spec == Init /\ [][Next]_productVars

-----------------------------------------------------------------------------
\* The delivery terms shown are those of the pincode shown.
QuoteIsForPincode == delivery.quoted # None => delivery.quoted = delivery.pincode

\* Every heart shows the wishlist as it is kept, whatever was clicked on the page and on
\* its cards at once, unless it was changed by another tab, or an answer was lost, since
\* it was read.
HeartsAreTrue == customer /\ calls = {} /\ reading = None /\ ~outdated => wishCopy = wished

ProductPageHolds == QuoteIsForPincode /\ HeartsAreTrue
=============================================================================
