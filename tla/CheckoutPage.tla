---------------------------- MODULE CheckoutPage ----------------------------
(***************************************************************************)
(* The checkout page of a retail store, for a signed-in customer: the      *)
(* choices an order is made of, the quote the server gives for them, and   *)
(* the asynchronous handler that places the order and pays for it.         *)
(*                                                                         *)
(* Sources: client/src/pages/Checkout, client/src/features/checkout and    *)
(* client/src/features/payment.                                            *)
(***************************************************************************)
EXTENDS Naturals

CONSTANTS Addresses, Coupons, None

VARIABLES
  choice,      \* address, coupon, delivery method and payment method chosen
  preview,     \* the quote for that choice: its data, error and fetch in flight
  couponError, \* the message under the coupon field
  processing,  \* isProcessing
  placing,     \* what handlePlaceOrder waits for
  leaving,     \* an order is confirmed; its handler awaits the cart before it redirects
  sent,        \* the choice of the last order sent, and whether it was quoted
  cartFull,    \* the cart on the server
  cartShown    \* the cart on the page

checkoutVars ==
  <<choice, preview, couponError, processing, placing, leaving, sent, cartFull, cartShown>>

\* Netbanking is paid like a card.
Methods == {"upi", "card", "cod"}
Choices == [address : Addresses \cup {None}, coupon : Coupons \cup {None},
            delivery : {"standard", "express"}, method : Methods]
Quotes == [data : BOOLEAN, error : BOOLEAN, fetching : BOOLEAN]

\* The query cache when the page asks for another key: the quote may be there
\* (fresh, or too old and fetched again), or has to be fetched.
Fresh == [data |-> TRUE, error |-> FALSE, fetching |-> FALSE]
Loading == [data |-> FALSE, error |-> FALSE, fetching |-> TRUE]
OtherKey == {Fresh, Loading} \cup [data : {TRUE}, error : BOOLEAN, fetching : {TRUE}]

\* The effect that turns the preview's error into the coupon's message.
CouponMessage(coupon, quote, before) ==
  IF coupon = None THEN FALSE
  ELSE IF quote.error THEN TRUE
  ELSE IF quote.data THEN FALSE
  ELSE before

Init ==
  /\ choice = [address |-> None, coupon |-> None, delivery |-> "standard", method |-> "upi"]
  /\ preview = Loading
  /\ couponError = FALSE
  /\ processing = FALSE
  /\ placing = "nothing"
  /\ leaving = FALSE
  /\ sent = [choice |-> choice, quoted |-> TRUE]
  /\ cartFull = TRUE
  /\ cartShown = TRUE

OnPage == cartShown \/ processing
Order == <<processing, placing, leaving, sent, cartFull, cartShown>>

\* Another choice is another quote.
Choose(c, message) ==
  /\ OnPage /\ c # choice
  /\ choice' = c
  /\ preview' \in OtherKey
  /\ couponError' = CouponMessage(c.coupon, preview', message)
  /\ UNCHANGED Order

SelectAddress(a) == placing # "modal" /\ Choose([choice EXCEPT !.address = a], couponError)
ChooseDelivery(d) ==
  placing # "modal" /\ preview.data /\ Choose([choice EXCEPT !.delivery = d], couponError)
ChooseMethod(m) == placing # "modal" /\ Choose([choice EXCEPT !.method = m], couponError)

\* The coupon form is there only while no coupon is applied.
ApplyCoupon(k) ==
  /\ placing # "modal" /\ choice.coupon = None
  /\ Choose([choice EXCEPT !.coupon = k], FALSE)
RemoveCoupon ==
  /\ placing # "modal" /\ choice.coupon # None
  /\ Choose([choice EXCEPT !.coupon = None], FALSE)

PreviewAnswered(ok) ==
  /\ preview.fetching
  /\ preview' = [data |-> preview.data \/ ok, error |-> ~ok, fetching |-> FALSE]
  /\ couponError' = CouponMessage(choice.coupon, preview', couponError)
  /\ UNCHANGED <<choice, Order>>

-----------------------------------------------------------------------------
(* The order *)

Requesting == placing \in {"cod", "creating", "verifying"}

\* Mutant: the button does not wait for the quote.
ButtonOffWhileBusyOnly == processing \/ Requesting

\* When the button of the sidebar is disabled.
ButtonOff == processing \/ Requesting \/ preview.fetching

\* handlePlaceOrder up to its first await; its refusals change nothing.
\* Razorpay's own window covers the page while it is open.
PlaceOrder ==
  /\ cartShown /\ ~ButtonOff /\ placing = "nothing"
  /\ choice.address # None
  /\ ~(choice.coupon # None /\ couponError)
  /\ processing' = TRUE
  /\ placing' = IF choice.method = "cod" THEN "cod" ELSE "creating"
  /\ sent' = [choice |-> choice, quoted |-> preview.data /\ ~preview.error]
  /\ UNCHANGED <<choice, preview, couponError, leaving, cartFull, cartShown>>

\* The order is confirmed: the handler awaits the refetched cart.
Confirmed ==
  /\ placing' = "nothing" /\ leaving' = TRUE
  /\ cartFull' = FALSE
  /\ UNCHANGED <<choice, couponError, sent, cartShown>>

\* placeCodOrder answers; its success has the quote fetched again too.
CodPlaced ==
  /\ placing = "cod" /\ cartFull
  /\ preview' = [preview EXCEPT !.fetching = TRUE]
  /\ processing' = processing
  /\ Confirmed

\* Mutant: the catch leaves isProcessing set.
GivenUpStillBusy ==
  /\ placing' = "nothing"
  /\ UNCHANGED <<processing, choice, preview, couponError, leaving, sent, cartShown>>

\* The catch of handlePlaceOrder, and of the payment handler.
GivenUp ==
  /\ placing' = "nothing" /\ processing' = FALSE
  /\ UNCHANGED <<choice, preview, couponError, leaving, sent, cartShown>>
OrderFailed == placing \in {"cod", "creating"} /\ GivenUp /\ UNCHANGED cartFull

OrderCreated ==
  /\ placing = "creating" /\ cartFull
  /\ placing' = "modal"
  /\ UNCHANGED <<choice, preview, couponError, processing, leaving, sent, cartFull, cartShown>>

\* Razorpay reports a failed payment and lets the customer try again.
PaymentFailed ==
  /\ placing = "modal"
  /\ processing' = FALSE
  /\ UNCHANGED <<choice, preview, couponError, placing, leaving, sent, cartFull, cartShown>>
Dismissed == placing = "modal" /\ GivenUp /\ UNCHANGED cartFull

Paid ==
  /\ placing = "modal"
  /\ placing' = "verifying"
  /\ UNCHANGED <<choice, preview, couponError, processing, leaving, sent, cartFull, cartShown>>

Verified ==
  /\ placing = "verifying"
  /\ UNCHANGED <<preview, processing>>
  /\ Confirmed

\* The answer may be lost after the server has made the order.
VerifyFailed ==
  /\ placing = "verifying" /\ GivenUp
  /\ cartFull' \in {cartFull, FALSE}

\* The refetched cart is there (or failed to come), and the page is left for
\* the thank-you page: it unmounts.
Left ==
  /\ leaving
  /\ leaving' = FALSE
  /\ processing' = FALSE
  /\ cartShown' = FALSE
  /\ UNCHANGED <<choice, preview, couponError, placing, sent, cartFull>>

OrderAnswered == CodPlaced \/ OrderFailed \/ OrderCreated \/ Verified \/ VerifyFailed

Next ==
  \/ \E a \in Addresses : SelectAddress(a)
  \/ \E d \in {"standard", "express"} : ChooseDelivery(d)
  \/ \E m \in Methods : ChooseMethod(m)
  \/ \E k \in Coupons : ApplyCoupon(k)
  \/ RemoveCoupon
  \/ PlaceOrder
  \/ PaymentFailed \/ Dismissed \/ Paid
  \/ \E ok \in BOOLEAN : PreviewAnswered(ok)
  \/ OrderAnswered
  \/ Left

\* Every request is answered or fails; nobody has to pay or to close Razorpay.
Spec == Init /\ [][Next]_checkoutVars /\ WF_checkoutVars(OrderAnswered) /\ WF_checkoutVars(Left)

-----------------------------------------------------------------------------
CheckoutTypeOK ==
  /\ choice \in Choices /\ preview \in Quotes
  /\ couponError \in BOOLEAN /\ processing \in BOOLEAN /\ leaving \in BOOLEAN
  /\ placing \in {"nothing", "cod", "creating", "modal", "verifying"}
  /\ sent \in [choice : Choices, quoted : BOOLEAN]
  /\ cartFull \in BOOLEAN /\ cartShown \in BOOLEAN

\* An order is sent with a coupon only when the server had quoted a price for
\* exactly the choice that is sent (address, delivery and payment method
\* included), and a coupon it refused is never sent: the disabled button, the
\* effect behind the message and the check in handlePlaceOrder together.
CouponOrdersAreQuoted == sent.choice.coupon # None => sent.quoted

\* The button never stays busy: once the handler waits for the server, it ends
\* in a cleared isProcessing or in Razorpay's window, whatever fails.
NeverStuckBusy == Requesting \/ leaving ~> ~processing \/ placing = "modal"

=============================================================================
