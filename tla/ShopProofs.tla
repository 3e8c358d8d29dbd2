------------------------------ MODULE ShopProofs ------------------------------
(***************************************************************************)
(* For any addresses, coupons, dialogs and wishes: no order is sent with a *)
(* coupon that was not quoted for it; no click answers a dialog it was not *)
(* made on; what a shopper gave up at the sign-in is not done; and every   *)
(* step of AlertProvider is a step of what alertService promises, or       *)
(* changes nothing of it.  For any products, places, filters and clicks:   *)
(* what the pages show is what the server keeps, and the catalogue's       *)
(* filters are those picked last.  That requests are answered is left to   *)
(* model checking.                                                         *)
(***************************************************************************)
EXTENDS MCShop, TLAPS

-----------------------------------------------------------------------------
(* The checkout: while a coupon is applied and no quote is on its way, the   *)
(* page has either the quote with that coupon or the message that refuses it *)

QuotedOrRefused ==
  /\ preview \in Checkout!Quotes
  /\ choice.coupon # None /\ ~preview.fetching =>
       couponError \/ (preview.data /\ ~preview.error)

QuoteInv == QuotedOrRefused /\ Checkout!CouponOrdersAreQuoted

LEMMA InitQuoteInv == Checkout!Init => QuoteInv
BY DEF Checkout!Init, Checkout!Loading, Checkout!Quotes, QuoteInv, QuotedOrRefused, Checkout!CouponOrdersAreQuoted

LEMMA ChooseKeeps ==
  ASSUME QuoteInv, NEW c, NEW message, Checkout!Choose(c, message)
  PROVE  QuoteInv'
<1>1. preview' \in Checkout!Quotes /\ (~preview'.fetching => preview' = Checkout!Fresh)
  <2>1. \/ preview' = Checkout!Fresh \/ preview' = Checkout!Loading
        \/ preview' \in [data : {TRUE}, error : BOOLEAN, fetching : {TRUE}]
    BY DEF Checkout!Choose, Checkout!OtherKey
  <2>2. CASE preview' = Checkout!Fresh
    BY <2>2 DEF Checkout!Fresh, Checkout!Quotes
  <2>3. CASE preview' = Checkout!Loading
    BY <2>3 DEF Checkout!Loading, Checkout!Quotes
  <2>4. CASE preview' \in [data : {TRUE}, error : BOOLEAN, fetching : {TRUE}]
    BY <2>4 DEF Checkout!Quotes
  <2> QED
    BY <2>1, <2>2, <2>3, <2>4
<1>2. choice'.coupon # None /\ ~preview'.fetching =>
        couponError' \/ (preview'.data /\ ~preview'.error)
  BY <1>1 DEF Checkout!Fresh
<1>3. UNCHANGED sent
  BY DEF Checkout!Choose, Checkout!Order
<1> QED
  BY <1>1, <1>2, <1>3 DEF QuoteInv, QuotedOrRefused, Checkout!CouponOrdersAreQuoted

LEMMA AnswerKeeps ==
  ASSUME QuoteInv, NEW ok \in BOOLEAN, Checkout!PreviewAnswered(ok)
  PROVE  QuoteInv'
<1>1. /\ preview' = [data |-> preview.data \/ ok, error |-> ~ok, fetching |-> FALSE]
      /\ couponError' = Checkout!CouponMessage(choice.coupon, preview', couponError)
      /\ UNCHANGED <<choice, sent>>
  BY DEF Checkout!PreviewAnswered, Checkout!Order
<1>2. preview' \in Checkout!Quotes
  BY <1>1 DEF QuoteInv, QuotedOrRefused, Checkout!Quotes
<1>3. CASE ok
  BY <1>1, <1>2, <1>3 DEF QuoteInv, QuotedOrRefused, Checkout!CouponOrdersAreQuoted
<1>4. CASE ~ok
  <2>1. preview'.error
    BY <1>1, <1>4
  <2>2. choice'.coupon # None => couponError'
    BY <1>1, <2>1 DEF Checkout!CouponMessage
  <2> QED
    BY <1>1, <1>2, <2>2 DEF QuoteInv, QuotedOrRefused, Checkout!CouponOrdersAreQuoted
<1> QED
  BY <1>3, <1>4

LEMMA PlaceOrderKeeps ==
  ASSUME QuoteInv, Checkout!PlaceOrder
  PROVE  QuoteInv'
<1>1. choice.coupon # None => preview.data /\ ~preview.error
  BY DEF Checkout!PlaceOrder, Checkout!ButtonOff, QuoteInv, QuotedOrRefused
<1>2. sent' = [choice |-> choice, quoted |-> preview.data /\ ~preview.error]
  BY DEF Checkout!PlaceOrder
<1>3. Checkout!CouponOrdersAreQuoted'
  BY <1>1, <1>2 DEF Checkout!CouponOrdersAreQuoted
<1> QED
  BY <1>3 DEF Checkout!PlaceOrder, QuoteInv, QuotedOrRefused

LEMMA CodPlacedKeeps ==
  ASSUME QuoteInv, Checkout!CodPlaced
  PROVE  QuoteInv'
<1>1. preview' \in Checkout!Quotes /\ preview'.fetching
  BY DEF Checkout!CodPlaced, QuoteInv, QuotedOrRefused, Checkout!Quotes
<1> QED
  BY <1>1 DEF Checkout!CodPlaced, Checkout!Confirmed, QuoteInv, QuotedOrRefused, Checkout!CouponOrdersAreQuoted

LEMMA NextQuoteInv == QuoteInv /\ [Checkout!Next]_checkoutVars => QuoteInv'
<1> SUFFICES ASSUME QuoteInv, [Checkout!Next]_checkoutVars PROVE QuoteInv'
  OBVIOUS
<1>1. CASE UNCHANGED <<choice, preview, couponError, sent>>
  BY <1>1 DEF QuoteInv, QuotedOrRefused, Checkout!CouponOrdersAreQuoted
<1>2. CASE \E a \in Addresses : Checkout!SelectAddress(a)
  BY <1>2, ChooseKeeps DEF Checkout!SelectAddress
<1>3. CASE \E d \in {"standard", "express"} : Checkout!ChooseDelivery(d)
  BY <1>3, ChooseKeeps DEF Checkout!ChooseDelivery
<1>4. CASE \E m \in Checkout!Methods : Checkout!ChooseMethod(m)
  BY <1>4, ChooseKeeps DEF Checkout!ChooseMethod
<1>5. CASE (\E k \in Coupons : Checkout!ApplyCoupon(k)) \/ Checkout!RemoveCoupon
  BY <1>5, ChooseKeeps DEF Checkout!ApplyCoupon, Checkout!RemoveCoupon
<1>6. CASE Checkout!PaymentFailed \/ Checkout!Dismissed \/ Checkout!Paid \/ Checkout!Left
  BY <1>1, <1>6 DEF Checkout!PaymentFailed, Checkout!Dismissed, Checkout!GivenUp, Checkout!Paid, Checkout!Left
<1>7. CASE Checkout!OrderFailed \/ Checkout!OrderCreated \/ Checkout!Verified \/ Checkout!VerifyFailed
  BY <1>1, <1>7 DEF Checkout!OrderFailed, Checkout!GivenUp, Checkout!OrderCreated, Checkout!Verified, Checkout!Confirmed, Checkout!VerifyFailed
<1>8. CASE UNCHANGED checkoutVars
  BY <1>1, <1>8 DEF checkoutVars
<1> QED
  BY <1>2, <1>3, <1>4, <1>5, <1>6, <1>7, <1>8, AnswerKeeps, PlaceOrderKeeps, CodPlacedKeeps
     DEF Checkout!Next, Checkout!OrderAnswered

-----------------------------------------------------------------------------
(* The dialogs *)

DialogTypes ==
  /\ queue \in Seq(Dialogs)
  /\ answer \in [Dialogs -> {"unasked", "asked", "yes", "no"}]
  /\ clicked \in [Dialogs -> {None, "yes", "no"}]
  /\ clicks \subseteq Dialogs

\* The dialog on the screen is the first of those that wait, each of them once.
QueueOK ==
  /\ current = Alerts!FirstOf(queue)
  /\ \A i, j \in 1..Len(queue) : i # j => queue[i] # queue[j]
  /\ \A i \in 1..Len(queue) : answer[queue[i]] = "asked"

\* Who was clicked has that answer, and a click still to be handled is of an answered
\* dialog.
ClicksOK ==
  /\ Alerts!AnsweredByItsOwnDialog
  /\ \A c \in clicks : answer[c] \in {"yes", "no"}

DialogInv == DialogTypes /\ QueueOK /\ ClicksOK

-----------------------------------------------------------------------------
LEMMA SeqFacts ==
  ASSUME NEW S, NEW q \in Seq(S)
  PROVE  /\ Len(q) \in Nat /\ \A i \in 1..Len(q) : q[i] \in S
         /\ q # <<>> => Head(q) = q[1] /\ 1 \in 1..Len(q) /\ Tail(q) \in Seq(S)
         /\ q # <<>> => Len(Tail(q)) = Len(q) - 1
         /\ q # <<>> => \A i \in 1..Len(Tail(q)) : Tail(q)[i] = q[i+1]
OBVIOUS

\* Taking out the first element of a sequence leaves its tail.
LEMMA RemoveHead ==
  ASSUME NEW S, NEW q \in Seq(S), q # <<>>
  PROVE  Alerts!RemoveFirst(q, Head(q)) = Tail(q)
<1>1. Len(q) \in Nat /\ 1 \in 1..Len(q) /\ q[1] = Head(q)
  BY SeqFacts
<1> DEFINE I == {i \in 1..Len(q) : q[i] = Head(q)}
<1>2. 1 \in I /\ \A i \in I : 1 =< i
  BY <1>1
<1>3. Alerts!Min(I) = 1
  <2>1. \E x \in I : \A y \in I : x =< y
    BY <1>2
  <2>2. Alerts!Min(I) \in I /\ \A y \in I : Alerts!Min(I) =< y
    BY <2>1 DEF Alerts!Min
  <2>3. Alerts!Min(I) \in 1..Len(q) /\ Alerts!Min(I) =< 1
    BY <1>2, <2>2
  <2> QED
    BY <1>1, <2>3
<1>4. Alerts!SelectInSeq(q, LAMBDA v : v = Head(q)) = 1
  BY <1>2, <1>3 DEF Alerts!SelectInSeq
<1>5. Alerts!RemoveFirst(q, Head(q)) = Alerts!RemoveAt(q, 1)
  BY <1>1, <1>4 DEF Alerts!RemoveFirst
<1>6. Alerts!RemoveAt(q, 1) = SubSeq(q, 1, 0) \o SubSeq(q, 2, Len(q))
  BY <1>1 DEF Alerts!RemoveAt
<1>7. SubSeq(q, 1, 0) \o SubSeq(q, 2, Len(q)) = Tail(q)
  BY <1>1
<1> QED
  BY <1>5, <1>6, <1>7

LEMMA InitDialogInv == Alerts!Init => DialogInv
<1> SUFFICES ASSUME Alerts!Init PROVE DialogInv
  OBVIOUS
<1>1. DialogTypes
  BY DEF Alerts!Init, DialogTypes
<1>2. QueueOK /\ ClicksOK
  BY DEF Alerts!Init, QueueOK, ClicksOK, Alerts!AnsweredByItsOwnDialog, Alerts!FirstOf
<1> QED
  BY <1>1, <1>2 DEF DialogInv

\* The dialog on the screen is the head of the queue.
LEMMA OnScreen ==
  ASSUME DialogInv, current # None
  PROVE  /\ queue # <<>> /\ current = Head(queue) /\ current = queue[1] /\ current \in Dialogs
         /\ Alerts!Contains(queue, current) /\ answer[current] = "asked" /\ clicked[current] = None
         /\ Alerts!RemoveFirst(queue, current) = Tail(queue)
<1>1. queue \in Seq(Dialogs) /\ queue # <<>> /\ current = Head(queue)
  BY DEF DialogInv, DialogTypes, QueueOK, Alerts!FirstOf
<1>2. Len(queue) \in Nat /\ 1 \in 1..Len(queue) /\ current = queue[1] /\ current \in Dialogs
  BY <1>1, SeqFacts
<1>3. Alerts!Contains(queue, current)
  BY <1>2 DEF Alerts!Contains
<1>4. answer[current] = "asked"
  BY <1>2 DEF DialogInv, QueueOK
<1>5. clicked[current] = None
  BY <1>2, <1>4 DEF DialogInv, DialogTypes, ClicksOK, Alerts!AnsweredByItsOwnDialog
<1> QED
  BY <1>1, <1>2, <1>3, <1>4, <1>5, RemoveHead

\* A click on a dialog already answered does nothing.
LEMMA LateClick ==
  ASSUME DialogInv, NEW c \in Dialogs, Alerts!ClickAgain(c)
  PROVE  UNCHANGED <<handler, queue, current, answer, clicked>> /\ clicks' \subseteq clicks
<1>1. answer[c] \in {"yes", "no"} /\ c \in clicks
  BY DEF Alerts!ClickAgain, DialogInv, ClicksOK
<1>2. ~Alerts!Contains(queue, c)
  BY <1>1 DEF DialogInv, QueueOK, Alerts!Contains
<1>3. PICK a \in Alerts!Answers(c) : Alerts!Settle(c, a)
  BY DEF Alerts!ClickAgain
<1> QED
  BY <1>2, <1>3 DEF Alerts!Settle, Alerts!ClickAgain

LEMMA ShowKeeps ==
  ASSUME DialogInv, NEW c \in Dialogs, Alerts!Show(c)
  PROVE  DialogInv'
<1>1. queue \in Seq(Dialogs) /\ queue' = Append(queue, c) /\ answer[c] = "unasked"
  BY DEF Alerts!Show, DialogInv, DialogTypes
<1>2. /\ queue' \in Seq(Dialogs) /\ queue' # <<>> /\ Len(queue) \in Nat
      /\ Len(queue') = Len(queue) + 1 /\ queue'[Len(queue) + 1] = c
      /\ \A i \in 1..Len(queue) : queue'[i] = queue[i] /\ queue[i] \in Dialogs
  BY <1>1
<1>3. answer' = [answer EXCEPT ![c] = "asked"] /\ UNCHANGED <<clicked, clicks>>
  BY DEF Alerts!Show
<1>4. /\ answer' \in [Dialogs -> {"unasked", "asked", "yes", "no"}]
      /\ answer'[c] = "asked"
      /\ \A d \in Dialogs : d # c => answer'[d] = answer[d]
  BY <1>3 DEF DialogInv, DialogTypes
<1>5. DialogTypes'
  BY <1>2, <1>3, <1>4 DEF DialogInv, DialogTypes
<1>6. \A i \in 1..Len(queue) : queue[i] # c
  BY <1>1 DEF DialogInv, QueueOK
<1>7. QueueOK'
  <2>1. \A i \in 1..Len(queue') : i \in 1..Len(queue) \/ i = Len(queue) + 1
    BY <1>2
  <2>2. \A i, j \in 1..Len(queue') : i # j => queue'[i] # queue'[j]
    BY <1>2, <1>6, <2>1 DEF DialogInv, QueueOK
  <2>3. \A i \in 1..Len(queue') : answer'[queue'[i]] = "asked"
    BY <1>2, <1>4, <1>6, <2>1 DEF DialogInv, QueueOK
  <2>4. current' = Alerts!FirstOf(queue')
    BY <1>2 DEF Alerts!Show, Alerts!FirstOf
  <2> QED
    BY <2>2, <2>3, <2>4 DEF QueueOK, Alerts!FirstOf
<1>8. clicked[c] = None /\ c \notin clicks
  BY <1>1 DEF DialogInv, DialogTypes, ClicksOK, Alerts!AnsweredByItsOwnDialog
<1>9. ClicksOK'
  BY <1>3, <1>4, <1>8 DEF DialogInv, DialogTypes, ClicksOK, Alerts!AnsweredByItsOwnDialog
<1> QED
  BY <1>5, <1>7, <1>9 DEF DialogInv

LEMMA ShowNativeKeeps ==
  ASSUME DialogInv, NEW c \in Dialogs, Alerts!ShowNative(c)
  PROVE  DialogInv'
<1> PICK a \in {"yes", "no"} :
      answer' = [answer EXCEPT ![c] = a] /\ clicked' = [clicked EXCEPT ![c] = a]
  BY DEF Alerts!ShowNative
<1>1. answer[c] = "unasked" /\ UNCHANGED <<queue, current, clicks>>
  BY DEF Alerts!ShowNative
<1>2. /\ answer' \in [Dialogs -> {"unasked", "asked", "yes", "no"}]
      /\ clicked' \in [Dialogs -> {None, "yes", "no"}]
      /\ answer'[c] = a /\ clicked'[c] = a
      /\ \A d \in Dialogs : d # c => answer'[d] = answer[d] /\ clicked'[d] = clicked[d]
  BY DEF DialogInv, DialogTypes
<1>3. DialogTypes'
  BY <1>1, <1>2 DEF DialogInv, DialogTypes
<1>4. \A i \in 1..Len(queue) : queue[i] \in Dialogs /\ queue[i] # c
  BY <1>1, SeqFacts DEF DialogInv, DialogTypes, QueueOK
<1>5. QueueOK'
  BY <1>1, <1>2, <1>4 DEF DialogInv, QueueOK, Alerts!FirstOf
<1>6. ClicksOK'
  BY <1>1, <1>2 DEF DialogInv, DialogTypes, ClicksOK, Alerts!AnsweredByItsOwnDialog
<1> QED
  BY <1>3, <1>5, <1>6 DEF DialogInv

LEMMA UnmountKeeps ==
  ASSUME DialogInv, Alerts!Unmount
  PROVE  DialogInv'
<1>1. queue' = <<>> /\ current' = None /\ UNCHANGED <<clicked, clicks>>
  BY DEF Alerts!Unmount
<1>2. \A c \in Dialogs : answer'[c] = IF Alerts!Contains(queue, c) THEN "no" ELSE answer[c]
  BY DEF Alerts!Unmount
<1>3. answer' \in [Dialogs -> {"unasked", "asked", "yes", "no"}]
  BY DEF Alerts!Unmount, DialogInv, DialogTypes
<1>4. DialogTypes'
  BY <1>1, <1>3 DEF DialogInv, DialogTypes
<1>5. QueueOK'
  BY <1>1 DEF QueueOK, Alerts!FirstOf
<1>6. \A c \in Dialogs : Alerts!Contains(queue, c) => answer[c] = "asked"
  BY DEF DialogInv, QueueOK, Alerts!Contains
<1>7. \A c \in Dialogs : Alerts!Contains(queue, c) => clicked[c] = None
  BY <1>6 DEF DialogInv, DialogTypes, ClicksOK, Alerts!AnsweredByItsOwnDialog
<1>8. Alerts!AnsweredByItsOwnDialog'
  BY <1>1, <1>2, <1>7 DEF DialogInv, ClicksOK, Alerts!AnsweredByItsOwnDialog
<1>9. \A c \in clicks' : answer'[c] \in {"yes", "no"}
  BY <1>1, <1>2, <1>6 DEF DialogInv, DialogTypes, ClicksOK
<1> QED
  BY <1>4, <1>5, <1>8, <1>9 DEF DialogInv, ClicksOK

\* The place after one of a shorter sequence is a place of the longer one.
LEMMA NextPlace ==
  ASSUME NEW n \in Nat, NEW m, m = n - 1, NEW i \in 1..m
  PROVE  i + 1 \in 1..n /\ i + 1 # 1
OBVIOUS

LEMMA ClickKeeps ==
  ASSUME DialogInv, Alerts!Click
  PROVE  /\ DialogInv'
         /\ queue # <<>> /\ queue' = Tail(queue)
         /\ \E a \in {"yes", "no"} : answer' = [answer EXCEPT ![Head(queue)] = a]
<1> DEFINE c == current
<1>1. PICK a \in Alerts!Answers(c) : Alerts!Settle(c, a) /\ clicked' = [clicked EXCEPT ![c] = a]
  BY DEF Alerts!Click
<1>2. /\ queue # <<>> /\ c = Head(queue) /\ c = queue[1] /\ c \in Dialogs
      /\ Alerts!Contains(queue, c) /\ answer[c] = "asked" /\ clicked[c] = None
      /\ Alerts!RemoveFirst(queue, c) = Tail(queue)
  BY OnScreen DEF Alerts!Click
<1>3. answer' = [answer EXCEPT ![c] = a] /\ queue' = Tail(queue) /\ current' = Alerts!FirstOf(queue')
  BY <1>1, <1>2 DEF Alerts!Settle
<1>4. a \in {"yes", "no"} /\ clicks' \subseteq clicks \cup {c}
  BY DEF Alerts!Answers, Alerts!Click
<1>5. clicked' = [clicked EXCEPT ![c] = a]
  BY <1>1
<1> HIDE DEF c
<1>6. /\ answer' \in [Dialogs -> {"unasked", "asked", "yes", "no"}]
      /\ clicked' \in [Dialogs -> {None, "yes", "no"}]
      /\ answer'[c] = a /\ clicked'[c] = a
      /\ \A d \in Dialogs : d # c => answer'[d] = answer[d] /\ clicked'[d] = clicked[d]
  BY <1>2, <1>3, <1>4, <1>5 DEF DialogInv, DialogTypes
<1>7. /\ queue' \in Seq(Dialogs) /\ Len(queue) \in Nat /\ Len(queue') = Len(queue) - 1
      /\ 1 \in 1..Len(queue)
      /\ \A i \in 1..Len(queue') : queue'[i] = queue[i + 1]
      /\ \A i \in 1..Len(queue) : queue[i] \in Dialogs
  BY <1>2, <1>3, SeqFacts DEF DialogInv, DialogTypes
<1>8. DialogTypes'
  BY <1>2, <1>4, <1>6, <1>7 DEF DialogInv, DialogTypes
<1>9. QueueOK'
  <2>1. \A i \in 1..Len(queue') : i + 1 \in 1..Len(queue) /\ i + 1 # 1 /\ queue'[i] = queue[i + 1]
    <3> TAKE i \in 1..Len(queue')
    <3>1. i + 1 \in 1..Len(queue) /\ i + 1 # 1
      BY <1>7, NextPlace
    <3>2. queue'[i] = queue[i + 1]
      BY <1>7
    <3> QED
      BY <3>1, <3>2
  <2>2. \A i, j \in 1..Len(queue') : i # j => queue'[i] # queue'[j]
    <3> TAKE i, j \in 1..Len(queue')
    <3> HAVE i # j
    <3>1. i + 1 # j + 1 /\ i + 1 \in 1..Len(queue) /\ j + 1 \in 1..Len(queue)
      BY <2>1
    <3> QED
      BY <2>1, <3>1 DEF DialogInv, QueueOK
  <2>3. \A i \in 1..Len(queue') : queue'[i] # c /\ queue'[i] \in Dialogs
    BY <1>2, <1>7, <2>1 DEF DialogInv, QueueOK
  <2>4. \A i \in 1..Len(queue') : answer'[queue'[i]] = "asked"
    BY <1>6, <2>1, <2>3 DEF DialogInv, QueueOK
  <2> QED
    BY <1>3, <2>2, <2>4 DEF QueueOK, Alerts!FirstOf
<1>10. ClicksOK'
  BY <1>2, <1>4, <1>6 DEF DialogInv, DialogTypes, ClicksOK, Alerts!AnsweredByItsOwnDialog
<1> QED
  BY <1>2, <1>3, <1>4, <1>8, <1>9, <1>10 DEF DialogInv

LEMMA NextDialogInv == DialogInv /\ [Alerts!Next]_alertVars => DialogInv'
<1> SUFFICES ASSUME DialogInv, [Alerts!Next]_alertVars PROVE DialogInv'
  OBVIOUS
<1>1. ASSUME UNCHANGED <<queue, current, answer, clicked>>, clicks' \subseteq clicks
      PROVE  DialogInv'
  BY <1>1 DEF DialogInv, DialogTypes, QueueOK, ClicksOK, Alerts!AnsweredByItsOwnDialog, Alerts!FirstOf
<1>2. CASE Alerts!Mount \/ UNCHANGED alertVars
  BY <1>1, <1>2 DEF Alerts!Mount, alertVars
<1>3. CASE \E c \in Dialogs : Alerts!ClickAgain(c)
  BY <1>1, <1>3, LateClick
<1> QED
  BY <1>2, <1>3, UnmountKeeps, ShowKeeps, ShowNativeKeeps, ClickKeeps DEF Alerts!Next

-----------------------------------------------------------------------------
(* The promise *)

LEMMA StepsKeepThePromise ==
  ASSUME DialogInv, [Alerts!Next]_alertVars
  PROVE  [Alerts!Promise!Next]_(Alerts!Promise!promiseVars)
<1>1. CASE Alerts!Mount \/ UNCHANGED alertVars \/ \E c \in Dialogs : Alerts!ClickAgain(c)
  BY <1>1, LateClick DEF Alerts!Mount, alertVars, Alerts!Promise!promiseVars
<1>2. CASE Alerts!Unmount
  BY <1>2 DEF Alerts!Unmount, Alerts!Contains, Alerts!Promise!Next, Alerts!Promise!GiveUp
<1>3. CASE \E c \in Dialogs : Alerts!Show(c)
  BY <1>3 DEF Alerts!Show, Alerts!Promise!Next, Alerts!Promise!Ask
<1>4. CASE \E c \in Dialogs : Alerts!ShowNative(c)
  BY <1>4 DEF Alerts!ShowNative, Alerts!Promise!Next, Alerts!Promise!AnswerAtOnce
<1>5. CASE Alerts!Click
  BY <1>5, ClickKeeps DEF Alerts!Promise!Next, Alerts!Promise!AnswerFirst
<1> QED
  BY <1>1, <1>2, <1>3, <1>4, <1>5 DEF Alerts!Next


-----------------------------------------------------------------------------
(* The sign-in: what the popup is open for was neither done nor given up *)

WishInv ==
  /\ performed \cap dropped = {}
  /\ onSuccess # None => isOpen /\ onSuccess \notin performed \cup dropped

LEMMA InitWishInv == SignIn!Init => WishInv
BY DEF SignIn!Init, WishInv

LEMMA NextWishInv == WishInv /\ [SignIn!Next]_modalVars => WishInv'
<1> SUFFICES ASSUME WishInv, [SignIn!Next]_modalVars PROVE WishInv'
  OBVIOUS
<1>1. CASE UNCHANGED <<isOpen, onSuccess, performed, dropped>>
  BY <1>1 DEF WishInv
<1>2. ASSUME NEW w \in Wishes, SignIn!OpenLogin(w) PROVE WishInv'
  BY <1>2, ShopAssumption DEF SignIn!OpenLogin, WishInv
<1>3. CASE SignIn!CloseLogin
  BY <1>3 DEF SignIn!CloseLogin, WishInv
<1>4. ASSUME NEW r \in Requests, SignIn!SignedIn(r) PROVE WishInv'
  BY <1>4 DEF SignIn!SignedIn, SignIn!HandleSuccess, WishInv
<1>5. ASSUME NEW r \in Requests,
             SignIn!CodeSent(r) \/ SignIn!Registered(r) \/ SignIn!Refused(r)
      PROVE  WishInv'
  BY <1>1, <1>5 DEF SignIn!CodeSent, SignIn!Registered, SignIn!Refused
<1>6. ASSUME NEW r \in Requests, NEW kind, SignIn!Submit(r, kind) PROVE WishInv'
  BY <1>1, <1>6 DEF SignIn!Submit
<1>7. ASSUME NEW v, SignIn!SwitchForm(v) PROVE WishInv'
  BY <1>1, <1>7 DEF SignIn!SwitchForm
<1>8. CASE SignIn!ChangeNumber \/ SignIn!CoolingOver \/ SignIn!SignOut \/ UNCHANGED modalVars
  BY <1>1, <1>8 DEF SignIn!ChangeNumber, SignIn!CoolingOver, SignIn!SignOut, modalVars
<1> QED
  BY <1>2, <1>3, <1>4, <1>5, <1>6, <1>7, <1>8 DEF SignIn!Next

-----------------------------------------------------------------------------
(* The cart page: while no change that the server has made waits for its     *)
(* answer, what was fetched or is being fetched is the cart as it is         *)

Fetches == [step : {"done", "asked", "answered"}, cart : [Goods -> Nat]]
Sent == [kind : {"none", "update", "remove", "clear"}, product : Goods \cup {None},
         qty : Nat, done : BOOLEAN]

CartKept ==
  (~missed /\ \A c \in Changes : ~call[c].done) =>
    /\ fetch.step = "done" => lines = cart
    /\ fetch.step = "answered" => fetch.cart = cart

CartInv ==
  /\ cart \in [Goods -> Nat] /\ lines \in [Goods -> Nat]
  /\ fetch \in Fetches /\ call \in [Changes -> Sent]
  /\ CartKept

LEMMA InitCartInv == Cart!Init => CartInv
<1> SUFFICES ASSUME Cart!Init PROVE CartInv
  OBVIOUS
<1>1. Cart!NoCall \in Sent /\ Cart!Idle \in Fetches
  BY DEF Cart!NoCall, Cart!Idle, Cart!Empty, Sent, Fetches
<1>2. cart \in [Goods -> Nat] /\ lines = cart
  BY DEF Cart!Init
<1>3. call \in [Changes -> Sent] /\ fetch \in Fetches /\ fetch.step = "done"
  BY <1>1 DEF Cart!Init, Cart!Idle
<1> QED
  BY <1>2, <1>3 DEF CartInv, CartKept

LEMMA SendKeepsCart ==
  ASSUME CartInv, ShopAssumption, NEW c \in Changes,
         NEW kind \in {"update", "remove", "clear"},
         NEW p \in Goods \cup {None}, NEW q \in Nat, Cart!Send(c, kind, p, q)
  PROVE  CartInv'
<1>1. call' = [call EXCEPT ![c] = [kind |-> kind, product |-> p, qty |-> q, done |-> FALSE]]
  BY DEF Cart!Send
<1>2. call' \in [Changes -> Sent]
  BY <1>1 DEF CartInv, Sent
<1>3. \A d \in Changes : call'[d].done = call[d].done
  <2> TAKE d \in Changes
  <2>1. CASE d = c
    <3>1. call[c].done = FALSE
      BY DEF Cart!Send, Cart!NoCall
    <3>2. call'[c].done = FALSE
      BY <1>1 DEF CartInv
    <3> QED
      BY <2>1, <3>1, <3>2
  <2>2. CASE d # c
    BY <1>1, <2>2 DEF CartInv
  <2> QED
    BY <2>1, <2>2
<1> QED
  BY <1>2, <1>3 DEF Cart!Send, CartInv, CartKept

LEMMA ServerKeepsCart ==
  ASSUME CartInv, NEW c \in Changes, Cart!ServerChanges(c)
  PROVE  CartInv'
<1>1. call' = [call EXCEPT ![c].done = TRUE] /\ UNCHANGED <<lines, fetch, missed>>
  BY DEF Cart!ServerChanges
<1>2. call' \in [Changes -> Sent] /\ call'[c].done
  BY <1>1 DEF CartInv, Sent
<1>3. cart' \in [Goods -> Nat]
  BY DEF Cart!ServerChanges, Cart!Empty, CartInv, Sent
<1> QED
  BY <1>1, <1>2, <1>3 DEF CartInv, CartKept

LEMMA EndKeepsCart ==
  ASSUME CartInv, NEW c \in Changes, Cart!Changed(c) \/ Cart!ChangeFailed(c)
  PROVE  CartInv'
<1>1. call' = [call EXCEPT ![c] = Cart!NoCall] /\ UNCHANGED <<cart, lines>>
  BY DEF Cart!Changed, Cart!ChangeFailed
<1>2. call' \in [Changes -> Sent]
  BY <1>1 DEF CartInv, Sent, Cart!NoCall
<1>3. CASE Cart!Changed(c)
  <2>1. fetch' = Cart!Asked /\ fetch' \in Fetches
    BY <1>3 DEF Cart!Changed, Cart!FetchAgain, Cart!Asked, Cart!Empty, Fetches
  <2> QED
    BY <1>1, <1>2, <2>1 DEF CartInv, CartKept, Cart!Asked
<1>4. CASE Cart!ChangeFailed(c)
  <2>1. ~missed' => ~missed /\ ~call[c].done
    BY <1>4 DEF Cart!ChangeFailed
  <2>2. \A d \in Changes : d # c => call'[d] = call[d]
    BY <1>1 DEF CartInv
  <2>3. UNCHANGED fetch
    BY <1>4 DEF Cart!ChangeFailed
  <2> QED
    BY <1>1, <1>2, <2>1, <2>2, <2>3 DEF CartInv, CartKept
<1> QED
  BY <1>3, <1>4

LEMMA FetchKeepsCart ==
  ASSUME CartInv, Cart!ServerAnswers \/ Cart!CartArrives \/ Cart!FetchFailed
  PROVE  CartInv'
<1>1. CASE Cart!ServerAnswers
  BY <1>1 DEF Cart!ServerAnswers, CartInv, CartKept, Fetches
<1>2. CASE Cart!CartArrives
  BY <1>2 DEF Cart!CartArrives, Cart!Idle, Cart!Empty, CartInv, CartKept, Fetches
<1>3. CASE Cart!FetchFailed
  BY <1>3 DEF Cart!FetchFailed, Cart!Idle, Cart!Empty, CartInv, CartKept, Fetches
<1> QED
  BY <1>1, <1>2, <1>3

LEMMA NextCartInv == CartInv /\ [Cart!Next]_cartVars => CartInv'
<1> SUFFICES ASSUME CartInv, [Cart!Next]_cartVars PROVE CartInv'
  OBVIOUS
<1>1. ASSUME NEW c \in Changes, NEW p \in Goods, Cart!RemoveItem(c, p) PROVE CartInv'
  BY <1>1, SendKeepsCart, ShopAssumption DEF Cart!RemoveItem
<1>2. ASSUME NEW c \in Changes, NEW p \in Goods, NEW q \in 1..MaxQty,
             Cart!UpdateQuantity(c, p, q)
      PROVE  CartInv'
  BY <1>2, SendKeepsCart, ShopAssumption DEF Cart!UpdateQuantity
<1>3. ASSUME NEW c \in Changes, Cart!ClearCart(c) PROVE CartInv'
  BY <1>3, SendKeepsCart, ShopAssumption DEF Cart!ClearCart
<1>4. CASE UNCHANGED cartVars
  BY <1>4 DEF cartVars, CartInv, CartKept
<1> QED
  BY <1>1, <1>2, <1>3, <1>4, ServerKeepsCart, EndKeepsCart, FetchKeepsCart DEF Cart!Next

LEMMA CartHolds == CartInv => Cart!CartShownIsCartKept
BY DEF CartInv, CartKept, Cart!CartShownIsCartKept, Cart!Idle

-----------------------------------------------------------------------------
(* The address section: the checkout has the card that is highlighted, and,  *)
(* but for a change waiting for its answer, the list is the one the server   *)
(* has, or is being fetched                                                  *)

Lists == [Places -> Versions \cup {None}]

ChosenIsShown ==
  chosen = IF selected \in Book!Ids(listShown)
           THEN [id |-> selected, version |-> listShown[selected]]
           ELSE Book!Nobody

BookKept ==
  (~saving.done /\ deleting.step # "done" /\ ~lost) =>
    /\ listing.step = "done" => listShown = saved
    /\ listing.step = "answered" => listing.list = saved

BookTypes ==
  /\ saved \in Lists
  /\ listing.step \in {"done", "asked", "answered"}
  /\ saving \in [id : Places \cup {None}, version : Versions \cup {None}, done : BOOLEAN]
  /\ deleting \in [id : Places \cup {None}, step : {"none", "confirm", "sent", "done"},
                   wasSelected : BOOLEAN]

BookInv == BookTypes /\ ChosenIsShown /\ BookKept

LEMMA InitBookInv == Book!Init => BookInv
BY DEF Book!Init, BookInv, BookTypes, ChosenIsShown, BookKept, Book!Ids, Book!NoList,
       Book!Listless, Book!Nobody, Book!NoRequest, Book!NoDelete, Lists

LEMMA TellShows ==
  ASSUME NEW next, Book!Tell(listShown', next)
  PROVE  ChosenIsShown'
<1>1. CASE Book!Ids(listShown') = {}
  BY <1>1 DEF Book!Tell, ChosenIsShown, Book!Ids, Book!Nobody
<1>2. CASE Book!Ids(listShown') # {}
  <2>1. PICK a \in Book!Ids(listShown') :
              selected' = a /\ chosen' = [id |-> a, version |-> listShown'[a]]
    BY <1>2 DEF Book!Tell
  <2> QED
    BY <2>1 DEF ChosenIsShown, Book!Ids
<1> QED
  BY <1>1, <1>2

LEMMA TellsKeepBook ==
  ASSUME BookInv,
         \/ \E a \in Places : Book!Select(a)
         \/ Book!Saved \/ Book!Deleted \/ Book!ListArrives
  PROVE  BookInv'
<1>1. ASSUME NEW a \in Places, Book!Select(a) PROVE BookInv'
  <2>1. ChosenIsShown'
    BY <1>1, TellShows DEF Book!Select
  <2> QED
    BY <1>1, <2>1 DEF Book!Select, BookInv, BookTypes, BookKept
<1>2. CASE Book!Saved
  <2>1. ChosenIsShown'
    BY <1>2, TellShows DEF Book!Saved
  <2> QED
    BY <1>2, <2>1 DEF Book!Saved, BookInv, BookTypes, BookKept, Book!Asked, Book!NoRequest
<1>3. CASE Book!Deleted
  <2>1. ChosenIsShown'
    BY <1>3, TellShows DEF Book!Deleted
  <2> QED
    BY <1>3, <2>1 DEF Book!Deleted, BookInv, BookTypes, BookKept, Book!Asked, Book!NoDelete
<1>4. CASE Book!ListArrives
  <2>1. ChosenIsShown'
    BY <1>4, TellShows DEF Book!ListArrives
  <2> QED
    BY <1>4, <2>1 DEF Book!ListArrives, BookInv, BookTypes, BookKept, Book!Listless
<1> QED
  BY <1>1, <1>2, <1>3, <1>4

LEMMA SavesKeepBook ==
  ASSUME BookInv,
         \/ \E a \in Places, v \in Versions : Book!Submit(a, v)
         \/ Book!ServerSaves \/ Book!SaveFailed
  PROVE  BookInv'
<1>1. ASSUME NEW a \in Places, NEW v \in Versions, Book!Submit(a, v) PROVE BookInv'
  BY <1>1 DEF Book!Submit, BookInv, BookTypes, BookKept, ChosenIsShown, Book!NoRequest
<1>2. CASE Book!ServerSaves
  <2>1. saved' \in Lists /\ saving'.done
    BY <1>2 DEF Book!ServerSaves, BookInv, BookTypes, Lists
  <2>2. BookTypes'
    BY <1>2, <2>1 DEF Book!ServerSaves, BookInv, BookTypes
  <2> QED
    BY <1>2, <2>1, <2>2 DEF Book!ServerSaves, BookInv, BookKept, ChosenIsShown
<1>3. CASE Book!SaveFailed
  BY <1>3 DEF Book!SaveFailed, BookInv, BookTypes, BookKept, ChosenIsShown, Book!NoRequest
<1> QED
  BY <1>1, <1>2, <1>3

LEMMA DeletesKeepBook ==
  ASSUME BookInv,
         \/ \E a \in Places : Book!AskDelete(a)
         \/ \E yes \in BOOLEAN : Book!AnswerConfirm(yes)
         \/ Book!ServerDeletes \/ Book!DeleteFailed
  PROVE  BookInv'
<1>1. ASSUME NEW a \in Places, Book!AskDelete(a) PROVE BookInv'
  <2>1. deleting.step # "done" /\ deleting'.step # "done"
    BY <1>1 DEF Book!AskDelete, Book!NoDelete
  <2>2. BookTypes'
    BY <1>1 DEF Book!AskDelete, BookInv, BookTypes
  <2> QED
    BY <1>1, <2>1, <2>2 DEF Book!AskDelete, BookInv, BookKept, ChosenIsShown
<1>2. ASSUME NEW yes \in BOOLEAN, Book!AnswerConfirm(yes) PROVE BookInv'
  BY <1>2 DEF Book!AnswerConfirm, BookInv, BookTypes, BookKept, ChosenIsShown, Book!NoDelete
<1>3. CASE Book!ServerDeletes
  <2>1. saved' \in Lists /\ deleting'.step = "done"
    BY <1>3 DEF Book!ServerDeletes, BookInv, BookTypes, Lists
  <2>2. BookTypes'
    BY <1>3, <2>1 DEF Book!ServerDeletes, BookInv, BookTypes
  <2> QED
    BY <1>3, <2>1, <2>2 DEF Book!ServerDeletes, BookInv, BookKept, ChosenIsShown
<1>4. CASE Book!DeleteFailed
  BY <1>4 DEF Book!DeleteFailed, BookInv, BookTypes, BookKept, ChosenIsShown, Book!NoDelete
<1> QED
  BY <1>1, <1>2, <1>3, <1>4

LEMMA NextBookInv == BookInv /\ [Book!Next]_bookVars => BookInv'
<1> SUFFICES ASSUME BookInv, [Book!Next]_bookVars PROVE BookInv'
  OBVIOUS
<1>1. CASE Book!ServerLists \/ Book!ListFailed
  BY <1>1 DEF Book!ServerLists, Book!ListFailed, BookInv, BookTypes, BookKept, ChosenIsShown,
              Book!Listless
<1>2. CASE (\E a \in Places : Book!OpenForm(a)) \/ Book!CancelForm \/ UNCHANGED bookVars
  BY <1>2 DEF Book!OpenForm, Book!CancelForm, bookVars, BookInv, BookTypes, BookKept,
              ChosenIsShown
<1> QED
  BY <1>1, <1>2, TellsKeepBook, SavesKeepBook, DeletesKeepBook DEF Book!Next

LEMMA BookHolds == BookInv => Book!OrdersGoToTheAddressShown
BY ShopAssumption DEF BookInv, ChosenIsShown, BookKept, Book!OrdersGoToTheAddressShown,
   Book!Ids, Book!Nobody

-----------------------------------------------------------------------------
(* The product page: the pincode being checked is the one shown, and, but    *)
(* for a call that was done and waits for its answer, the wishlist read or   *)
(* being read is the one kept                                                *)

Quotes == [pincode : Pincodes \cup {None}, checking : Pincodes \cup {None},
           quoted : Pincodes \cup {None}]

QuotesOwnPincode ==
  /\ delivery \in Quotes
  /\ delivery.checking # None => delivery.checking = delivery.pincode
  /\ delivery.quoted # None => delivery.quoted = delivery.pincode

Hearts == [by : {"page", "card"}, of : Goods, op : {"add", "remove"},
           step : {"sent", "done", "refused"}]

WishesKept ==
  (customer /\ ~outdated /\ \A c \in calls : c.step # "done") =>
    /\ reading = None => wishCopy = wished
    /\ reading \notin {None, Product!Asked} => reading.got = wished

HeartsInv ==
  /\ productShown \in Goods /\ wished \in SUBSET Goods /\ calls \in SUBSET Hearts
  /\ WishesKept

ProductInv == QuotesOwnPincode /\ HeartsInv

LEMMA InitProductInv == Product!Init => ProductInv
<1> SUFFICES ASSUME Product!Init PROVE ProductInv
  OBVIOUS
<1>1. productShown \in Goods
  BY ShopAssumption DEF Product!Init
<1>2. QuotesOwnPincode
  BY DEF Product!Init, Product!NoQuote, QuotesOwnPincode, Quotes
<1> QED
  BY <1>1, <1>2 DEF Product!Init, ProductInv, HeartsInv, WishesKept

LEMMA QuotesKept == ProductInv /\ [Product!Next]_productVars => QuotesOwnPincode'
<1> SUFFICES ASSUME ProductInv, [Product!Next]_productVars PROVE QuotesOwnPincode'
  OBVIOUS
<1>1. CASE UNCHANGED delivery
  BY <1>1 DEF ProductInv, QuotesOwnPincode
<1>2. ASSUME NEW p \in Goods, Product!GoTo(p) PROVE QuotesOwnPincode'
  BY <1>2 DEF Product!GoTo, Product!NoQuote, ProductInv, QuotesOwnPincode, Quotes
<1>3. ASSUME NEW q \in Pincodes, Product!TypePincode(q) PROVE QuotesOwnPincode'
  BY <1>3 DEF Product!TypePincode, Product!Typeable, ProductInv, QuotesOwnPincode, Quotes
<1>4. CASE Product!HandlePincodeCheck
  BY <1>4 DEF Product!HandlePincodeCheck, ProductInv, QuotesOwnPincode, Quotes
<1>5. ASSUME NEW q \in Pincodes \union {None}, Product!CheckAnswered(q)
      PROVE  QuotesOwnPincode'
  BY <1>5 DEF Product!CheckAnswered, ProductInv, QuotesOwnPincode, Quotes
<1> QED
  <2>1. ASSUME NEW p \in Goods,
               \/ Product!CardWishlist(p) \/ Product!WishedElsewhere(p)
               \/ \E i \in Product!Ids : Product!SoldElsewhere(p, i)
        PROVE  UNCHANGED delivery
    BY <2>1 DEF Product!CardWishlist, Product!WishedElsewhere, Product!SoldElsewhere,
                Product!pageVars
  <2>2. ASSUME NEW i \in Product!Ids,
               \/ Product!HandleColorChange(Variants[i].colour)
               \/ Product!SelectSize(Variants[i].size)
        PROVE  UNCHANGED delivery
    BY <2>2 DEF Product!HandleColorChange, Product!SelectSize
  <2>3. ASSUME NEW c \in calls,
               Product!ServerWishes(c) \/ Product!WishAnswered(c) \/ Product!WishLost(c)
        PROVE  UNCHANGED delivery
    BY <2>3 DEF Product!ServerWishes, Product!WishAnswered, Product!WishLost, Product!Ended,
                Product!pageVars
  <2>4. CASE \/ Product!ProductArrives \/ Product!SignIn \/ Product!IncreaseQuantity
             \/ Product!DecreaseQuantity \/ Product!HandleAddToCart \/ Product!AddAnswered
             \/ Product!HandleWriteReview \/ Product!WriteReview
             \/ Product!HandleSubmitReview \/ Product!ReviewAnswered
             \/ Product!HandleWhatsAppShare \/ Product!ShareAnswered
    <3>1. UNCHANGED delivery
      BY <2>4 DEF Product!ProductArrives, Product!SignIn, Product!IncreaseQuantity,
           Product!DecreaseQuantity, Product!HandleAddToCart, Product!AddAnswered,
           Product!HandleWriteReview, Product!WriteReview, Product!HandleSubmitReview,
           Product!ReviewAnswered, Product!HandleWhatsAppShare, Product!ShareAnswered
    <3> QED
      BY <1>1, <3>1
  <2>5. CASE \/ Product!HandleWishlist \/ Product!ServerReads \/ Product!WishlistArrives
             \/ Product!WishlistFails \/ UNCHANGED productVars
    <3>1. UNCHANGED delivery
      BY <2>5 DEF Product!HandleWishlist, Product!ServerReads, Product!WishlistArrives,
           Product!WishlistFails, Product!pageVars, productVars
    <3> QED
      BY <1>1, <3>1
  <2> QED
    BY <1>1, <1>2, <1>3, <1>4, <1>5, <2>1, <2>2, <2>3, <2>4, <2>5 DEF Product!Next

LEMMA CallsKeepHearts ==
  ASSUME HeartsInv, NEW p \in Goods,
         \/ Product!HandleWishlist \/ Product!CardWishlist(p)
  PROVE  HeartsInv'
<1>1. PICK by \in {"page", "card"}, of \in Goods :
        calls' = calls \union
          {[by |-> by, of |-> of, op |-> Product!Decided(of), step |-> "sent"]}
  BY DEF Product!HandleWishlist, Product!CardWishlist, HeartsInv
<1>2. [by |-> by, of |-> of, op |-> Product!Decided(of), step |-> "sent"] \in Hearts
  BY DEF Product!Decided, Hearts
<1>3. calls' \in SUBSET Hearts
  BY <1>1, <1>2 DEF HeartsInv
<1>4. (\A c \in calls' : c.step # "done") => \A c \in calls : c.step # "done"
  BY <1>1
<1>5. UNCHANGED <<productShown, customer, wished, wishCopy, reading, outdated>>
  BY DEF Product!HandleWishlist, Product!CardWishlist, Product!pageVars
<1> QED
  BY <1>3, <1>4, <1>5 DEF HeartsInv, WishesKept, Product!Asked

LEMMA ServerKeepsHearts ==
  ASSUME HeartsInv, NEW c \in calls, Product!ServerWishes(c)
  PROVE  HeartsInv'
<1> DEFINE refused == (c.op = "add") = (c.of \in wished)
           after == [c EXCEPT !.step = IF refused THEN "refused" ELSE "done"]
<1>1. /\ calls' = (calls \ {c}) \union {after}
      /\ wished' = IF c.op = "add" THEN wished \union {c.of} ELSE wished \ {c.of}
      /\ UNCHANGED <<productShown, customer, wishCopy, reading, outdated>>
      /\ c.step = "sent"
  BY DEF Product!ServerWishes, Product!pageVars
<1>2. c \in Hearts
  BY DEF HeartsInv
<1>3. after \in Hearts /\ (after.step = "refused" <=> refused)
      /\ after.step \in {"refused", "done"}
  BY <1>2 DEF Hearts
<1>4. wished' \in SUBSET Goods /\ (refused => wished' = wished)
  BY <1>1, <1>2 DEF Hearts, HeartsInv
<1> HIDE DEF refused, after
<1>5. calls' \in SUBSET Hearts
  BY <1>1, <1>3 DEF HeartsInv
<1>6. (\A d \in calls' : d.step # "done") =>
        refused /\ \A d \in calls : d.step # "done"
  BY <1>1, <1>3
<1> QED
  BY <1>1, <1>4, <1>5, <1>6 DEF HeartsInv, WishesKept, Product!Asked

LEMMA EndKeepsHearts ==
  ASSUME HeartsInv, NEW c \in calls, Product!WishAnswered(c) \/ Product!WishLost(c)
  PROVE  HeartsInv'
<1>1. /\ calls' = calls \ {c}
      /\ UNCHANGED <<productShown, customer, wished, wishCopy>>
  BY DEF Product!WishAnswered, Product!WishLost, Product!Ended, Product!pageVars
<1>2. CASE Product!WishAnswered(c) /\ c.step = "done"
  <2>1. reading' = Product!Asked /\ reading' # None
    BY <1>2, ShopAssumption DEF Product!WishAnswered, Product!Reread, Product!Asked
  <2> QED
    BY <1>1, <2>1 DEF HeartsInv, WishesKept, Product!Asked
<1>3. CASE Product!WishAnswered(c) /\ c.step # "done"
  BY <1>1, <1>3 DEF Product!WishAnswered, HeartsInv, WishesKept, Product!Asked
<1>4. CASE Product!WishLost(c)
  BY <1>1, <1>4 DEF Product!WishLost, HeartsInv, WishesKept, Product!Asked
<1> QED
  BY <1>2, <1>3, <1>4

LEMMA ReadsKeepHearts ==
  ASSUME HeartsInv,
         \/ Product!ServerReads \/ Product!WishlistArrives \/ Product!WishlistFails
  PROVE  HeartsInv'
<1>1. CASE Product!ServerReads
  <2>1. reading' = [got |-> wished] /\ reading'.got = wished
    BY <1>1 DEF Product!ServerReads
  <2>2. reading' # None
    BY <2>1, ShopAssumption DEF HeartsInv
  <2> QED
    BY <1>1, <2>1, <2>2 DEF Product!ServerReads, Product!pageVars, HeartsInv, WishesKept,
                            Product!Asked
<1>2. CASE Product!WishlistArrives
  BY <1>2 DEF Product!WishlistArrives, Product!pageVars, HeartsInv, WishesKept, Product!Asked
<1>3. CASE Product!WishlistFails
  BY <1>3 DEF Product!WishlistFails, Product!pageVars, HeartsInv, WishesKept, Product!Asked
<1> QED
  BY <1>1, <1>2, <1>3

LEMMA OthersKeepHearts ==
  ASSUME HeartsInv, NEW p \in Goods,
         Product!GoTo(p) \/ Product!SignIn \/ Product!WishedElsewhere(p)
  PROVE  HeartsInv'
<1>1. CASE Product!GoTo(p)
  BY <1>1 DEF Product!GoTo, Product!wishVars, HeartsInv, WishesKept, Product!Asked
<1>2. CASE Product!SignIn
  <2>1. reading' # None
    BY <1>2, ShopAssumption DEF Product!SignIn, Product!Asked
  <2> QED
    BY <1>2, <2>1 DEF Product!SignIn, HeartsInv, WishesKept, Product!Asked
<1>3. CASE Product!WishedElsewhere(p)
  BY <1>3 DEF Product!WishedElsewhere, Product!pageVars, HeartsInv, WishesKept, Product!Asked
<1> QED
  BY <1>1, <1>2, <1>3

LEMMA HeartsKept == ProductInv /\ [Product!Next]_productVars => HeartsInv'
<1> SUFFICES ASSUME HeartsInv, [Product!Next]_productVars PROVE HeartsInv'
  BY DEF ProductInv
<1>1. CASE UNCHANGED <<productShown, customer, wished, wishCopy, reading, calls, outdated>>
  BY <1>1 DEF HeartsInv, WishesKept, Product!Asked
<1>2. ASSUME NEW p \in Goods, NEW i \in Product!Ids, Product!SoldElsewhere(p, i)
      PROVE  HeartsInv'
  BY <1>1, <1>2 DEF Product!SoldElsewhere, Product!pageVars, Product!wishVars
<1>3. ASSUME NEW i \in Product!Ids,
             \/ Product!HandleColorChange(Variants[i].colour)
             \/ Product!SelectSize(Variants[i].size)
      PROVE  HeartsInv'
  BY <1>1, <1>3 DEF Product!HandleColorChange, Product!SelectSize, Product!wishVars
<1>4. ASSUME NEW q \in Pincodes \union {None},
             Product!TypePincode(q) \/ Product!CheckAnswered(q)
      PROVE  HeartsInv'
  BY <1>1, <1>4 DEF Product!TypePincode, Product!CheckAnswered, Product!wishVars
<1>5. CASE \/ Product!ProductArrives \/ Product!IncreaseQuantity \/ Product!DecreaseQuantity
           \/ Product!HandleAddToCart \/ Product!AddAnswered \/ Product!HandlePincodeCheck
  <2>1. UNCHANGED <<productShown, customer, wished, wishCopy, reading, calls, outdated>>
    BY <1>5 DEF Product!ProductArrives, Product!IncreaseQuantity, Product!DecreaseQuantity,
         Product!HandleAddToCart, Product!AddAnswered, Product!HandlePincodeCheck,
         Product!wishVars
  <2> QED
    BY <1>1, <2>1
<1>6. CASE \/ Product!HandleWriteReview \/ Product!WriteReview \/ Product!HandleSubmitReview
           \/ Product!ReviewAnswered \/ Product!HandleWhatsAppShare
           \/ Product!ShareAnswered \/ UNCHANGED productVars
  <2>1. UNCHANGED <<productShown, customer, wished, wishCopy, reading, calls, outdated>>
    BY <1>6 DEF Product!HandleWriteReview, Product!WriteReview, Product!HandleSubmitReview,
         Product!ReviewAnswered, Product!HandleWhatsAppShare, Product!ShareAnswered,
         Product!wishVars, productVars
  <2> QED
    BY <1>1, <2>1
<1> QED
  BY <1>2, <1>3, <1>4, <1>5, <1>6, CallsKeepHearts, ServerKeepsHearts, EndKeepsHearts,
     ReadsKeepHearts, OthersKeepHearts, ShopAssumption DEF Product!Next

LEMMA NextProductInv == ProductInv /\ [Product!Next]_productVars => ProductInv'
BY QuotesKept, HeartsKept DEF ProductInv

LEMMA ProductHolds == ProductInv => Product!ProductPageHolds
BY DEF ProductInv, QuotesOwnPincode, HeartsInv, WishesKept, Product!ProductPageHolds,
       Product!QuoteIsForPincode, Product!HeartsAreTrue

-----------------------------------------------------------------------------
(* The catalogue.  An address that is where the page stands agrees with the  *)
(* filters; the choices wanted are those of the address the history stands   *)
(* at; and of the history there is room for one more address while the two   *)
(* copies still differ, and for one until the catalogue is known.            *)

Searches == {"", "x"}
Urls == [lists : SUBSET Facets, price : Browse!Ranges \cup {None}, search : Searches,
         sort : Sorts, page : BOOLEAN]
Filters == [lists : SUBSET Facets, price : Browse!Ranges \cup {"all", "unset"},
            search : Searches, sort : Sorts]

Agree(u, f) == u.lists = f.lists /\ u.price \in {None, f.price}

\* What rendering the address the history stands at will append.
Differ(u, f) == u.sort # f.sort \/ (f.search = "" /\ u.search # "")
Owed(u, target, f, f2) == IF Differ(u, f) \/ (target # u /\ f2 # f) THEN 1 ELSE 0
Room == IF catalog THEN 0 ELSE 1
Due == Owed(address, entries[here], filters, Browse!FromUrl(entries[here]))

CatalogueTypes ==
  /\ address \in Urls /\ filters \in Filters
  /\ entries \in Seq(Urls) /\ here \in 1 .. Len(entries)
  /\ moving \in BOOLEAN /\ catalog \in BOOLEAN /\ moves \in Nat

Standing ==
  /\ ~moving => entries[here] = address
  /\ entries[here] = address => Agree(address, filters)
  /\ wanted \in {None, entries[here].lists}

CatalogueInv ==
  CatalogueTypes /\ Standing /\ Len(entries) + Due + Room <= 2 + 3 * moves

LEMMA BareUrl == Browse!Bare \in Urls
BY ShopAssumption DEF Browse!Bare, Urls, Searches

LEMMA InitCatalogueInv == Browse!Init => CatalogueInv
<1> SUFFICES ASSUME Browse!Init PROVE CatalogueInv
  OBVIOUS
<1>1. /\ address \in Urls /\ entries = <<address>> /\ here = 1 /\ ~moving
      /\ entries[here] = address /\ Len(entries) = 1
      /\ entries \in Seq(Urls)
  <2>1. address \in Urls /\ entries = <<address>> /\ here = 1 /\ ~moving
    BY BareUrl DEF Browse!Init
  <2> QED
    BY <2>1
<1>2. /\ filters \in Filters /\ Agree(address, filters) /\ ~Differ(address, filters)
      /\ wanted = address.lists /\ moves = 0 /\ ~catalog /\ catalog \in BOOLEAN
      /\ moving \in BOOLEAN
  BY ShopAssumption DEF Browse!Init, Browse!Bare, Filters, Searches, Agree, Differ
<1>3. Due = 0 /\ Room = 1
  BY <1>1, <1>2 DEF Due, Owed, Room
<1> QED
  BY <1>1, <1>2, <1>3 DEF CatalogueInv, CatalogueTypes, Standing

\* The address the filters make, when it is rendered, gives the filters back, but for a
\* search or an order that only the address has.
LEMMA TowardUrl ==
  ASSUME NEW f \in Filters, NEW u \in Urls
  PROVE  /\ Browse!Toward(f, u) \in Urls
         /\ Browse!Toward(f, u).lists = f.lists
         /\ Agree(Browse!Toward(f, u), f)
         /\ f.search = u.search /\ f.sort = u.sort => ~Differ(Browse!Toward(f, u), f)
BY DEF Filters, Urls, Browse!Toward, Browse!Active, Agree, Differ

LEMMA KeptHistory ==
  ASSUME NEW h \in Seq(Urls), NEW n \in 1 .. Len(h)
  PROVE  /\ SubSeq(h, 1, n) \in Seq(Urls) /\ Len(SubSeq(h, 1, n)) = n
         /\ SubSeq(h, 1, n)[n] = h[n]
OBVIOUS

LEMMA PushedHistory ==
  ASSUME NEW h \in Seq(Urls), NEW u \in Urls
  PROVE  /\ Browse!Pushed(h, u) \in Seq(Urls) /\ Len(Browse!Pushed(h, u)) = Len(h) + 1
         /\ Browse!Pushed(h, u)[Len(h) + 1] = u
BY DEF Browse!Pushed

LEMMA FewDue ==
  ASSUME CatalogueTypes
  PROVE  Due \in {0, 1} /\ Due' \in {0, 1} /\ Room \in {0, 1} /\ Room' \in {0, 1}
BY DEF Due, Owed, Room

\* A dispatch: where the history stands then, and how long it is.
LEMMA DispatchLeads ==
  ASSUME CatalogueTypes, NEW f \in Filters, NEW h \in Seq(Urls), h # <<>>, NEW going,
         Browse!Dispatch(f, address, h, going)
  PROVE  /\ filters' = f /\ entries' \in Seq(Urls) /\ here' = Len(entries') /\ here' \in Nat \ {0}
         /\ f # filters => /\ moving' = TRUE /\ Len(entries') = Len(h) + 1
                           /\ entries'[here'] = Browse!Toward(f, address)
         /\ f = filters => moving' = going /\ entries' = h
<1>1. CASE f # filters
  <2>1. /\ entries' = Browse!Pushed(h, Browse!Toward(f, address)) /\ moving' = TRUE
        /\ filters' = f /\ here' = Len(entries')
    BY <1>1 DEF Browse!Dispatch
  <2>2. Browse!Toward(f, address) \in Urls /\ Len(h) \in Nat
    BY TowardUrl DEF CatalogueTypes
  <2>3. /\ entries' \in Seq(Urls) /\ Len(entries') = Len(h) + 1
        /\ entries'[Len(h) + 1] = Browse!Toward(f, address)
    BY <2>1, <2>2, PushedHistory
  <2>4. here' = Len(h) + 1 /\ here' \in Nat \ {0}
    BY <2>1, <2>2, <2>3
  <2>5. entries'[here'] = Browse!Toward(f, address)
    BY <2>3, <2>4
  <2> QED
    BY <1>1, <2>1, <2>3, <2>4, <2>5
<1>2. CASE f = filters
  <2>1. Len(h) \in Nat \ {0}
    OBVIOUS
  <2> QED
    BY <1>2, <2>1 DEF Browse!Dispatch
<1> QED
  BY <1>1, <1>2

\* What keeps the invariant in a move of the shopper: it adds at most two addresses, and
\* where it leaves the history standing agrees with the filters.
LEMMA MoveKeeps ==
  ASSUME CatalogueInv, CatalogueTypes', Standing', moves' = moves + 1,
         UNCHANGED catalog, Len(entries') <= Len(entries) + 2
  PROVE  CatalogueInv'
<1>1. Len(entries) \in Nat /\ Len(entries') \in Nat
  BY DEF CatalogueInv, CatalogueTypes
<1>2. Room' = Room
  BY DEF Room
<1> HIDE DEF Due, Room
<1>3. Due \in {0, 1} /\ Due' \in {0, 1} /\ Room \in {0, 1}
  BY FewDue DEF CatalogueInv
<1> QED
  BY <1>1, <1>2, <1>3 DEF CatalogueInv, CatalogueTypes

\* A move of the shopper that dispatches from where the history stands.
LEMMA DispatchKeeps ==
  ASSUME CatalogueInv, Browse!ShopperMoves, UNCHANGED <<address, catalog>>,
         NEW f \in Filters, Browse!Dispatch(f, address, Browse!Kept, moving),
         f.lists = filters.lists \/ f # filters,
         NEW s, Browse!Wants(s), s = f.lists \/ (s = wanted /\ f.lists = filters.lists)
  PROVE  CatalogueInv'
<1>1. /\ CatalogueTypes /\ Standing /\ entries[here].lists = entries[here].lists
      /\ Len(entries) \in Nat
  BY DEF CatalogueInv, CatalogueTypes
<1>2. /\ Browse!Kept \in Seq(Urls) /\ Len(Browse!Kept) = here
      /\ Browse!Kept[here] = entries[here]
  BY <1>1, KeptHistory DEF CatalogueTypes, Browse!Kept
<1>3. here \in Nat /\ here <= Len(entries) /\ Browse!Kept # <<>>
  BY <1>1, <1>2 DEF CatalogueTypes
<1>4. /\ filters' = f /\ entries' \in Seq(Urls) /\ here' = Len(entries') /\ here' \in Nat \ {0}
      /\ f # filters => /\ moving' = TRUE /\ Len(entries') = here + 1
                        /\ entries'[here'] = Browse!Toward(f, address)
      /\ f = filters => moving' = moving /\ entries' = Browse!Kept
  BY <1>1, <1>2, <1>3, DispatchLeads
<1>5. moves' = moves + 1 /\ moves' \in Nat
  BY <1>1 DEF Browse!ShopperMoves, CatalogueTypes
<1>6. CatalogueTypes'
  <2>1. here' \in 1 .. Len(entries') /\ filters' \in Filters
    BY <1>4
  <2>2. moving' \in BOOLEAN
    BY <1>1, <1>4 DEF CatalogueTypes
  <2> QED
    BY <1>1, <1>4, <1>5, <2>1, <2>2 DEF CatalogueTypes
<1>7. Len(entries') <= Len(entries) + 2
  BY <1>1, <1>2, <1>3, <1>4
<1>8. CASE f # filters
  <2>1. /\ entries'[here'] = Browse!Toward(f, address) /\ entries'[here'].lists = f.lists
        /\ Agree(entries'[here'], filters') /\ moving'
    BY <1>1, <1>4, <1>8, TowardUrl DEF CatalogueTypes
  <2>2. wanted' \in {None, f.lists}
    <3>1. CASE moving
      BY <3>1 DEF Browse!Wants
    <3>2. CASE ~moving
      <4>1. wanted \in {None, filters.lists}
        BY <1>1, <3>2 DEF Standing, Agree
      <4> QED
        BY <3>2, <4>1 DEF Browse!Wants
    <3> QED
      BY <3>1, <3>2
  <2>3. Standing'
    BY <2>1, <2>2 DEF Standing
  <2> QED
    BY <1>5, <1>6, <1>7, <2>3, MoveKeeps
<1>9. CASE f = filters
  <2>1. entries'[here'] = entries[here] /\ moving' = moving /\ filters' = filters
    BY <1>2, <1>4, <1>9
  <2>2. wanted' \in {None, entries[here].lists}
    <3>1. CASE moving
      BY <3>1 DEF Browse!Wants
    <3>2. CASE ~moving
      <4>1. entries[here].lists = filters.lists /\ wanted \in {None, filters.lists}
        BY <1>1, <3>2 DEF Standing, Agree
      <4> QED
        BY <1>9, <3>2, <4>1 DEF Browse!Wants
    <3> QED
      BY <3>1, <3>2
  <2>3. Standing'
    BY <1>1, <2>1, <2>2 DEF Standing
  <2> QED
    BY <1>5, <1>6, <1>7, <2>3, MoveKeeps
<1> QED
  BY <1>8, <1>9

\* A button that tells the store f and sends the address to u: where the lists the
\* history then stands at are those of f, and u is not the address rendered when the
\* store has f already.
LEMMA BothKeeps ==
  ASSUME CatalogueInv, NEW f \in Filters, NEW u \in Urls, Browse!Both(f, u),
         f = filters => u # address,
         NEW s, Browse!Wants(s),
         ~moving => s \in {None, f.lists} /\ (f = filters => u.lists = f.lists)
  PROVE  CatalogueInv'
<1>1. CatalogueTypes /\ Standing /\ Len(entries) \in Nat
  BY DEF CatalogueInv, CatalogueTypes
<1>2. Browse!Kept \in Seq(Urls) /\ Len(Browse!Kept) = here
  BY <1>1, KeptHistory DEF CatalogueTypes, Browse!Kept
<1>3. here \in Nat /\ here <= Len(entries)
  BY <1>1 DEF CatalogueTypes
<1> DEFINE h == Browse!Pushed(Browse!Kept, u)
<1>4. h \in Seq(Urls) /\ Len(h) = here + 1 /\ h[here + 1] = u
  BY <1>2, PushedHistory
<1>5. /\ Browse!ShopperMoves /\ Browse!Dispatch(f, address, h, TRUE)
      /\ UNCHANGED <<address, catalog>>
  BY DEF Browse!Both
<1>6. moves' = moves + 1 /\ moves' \in Nat
  BY <1>1, <1>5 DEF Browse!ShopperMoves, CatalogueTypes
<1> HIDE DEF h
<1>7. h # <<>>
  BY <1>3, <1>4
<1>8. /\ filters' = f /\ entries' \in Seq(Urls) /\ here' = Len(entries') /\ here' \in Nat \ {0}
      /\ f # filters => /\ moving' = TRUE /\ Len(entries') = here + 2
                        /\ entries'[here'] = Browse!Toward(f, address)
      /\ f = filters => moving' = TRUE /\ entries' = h
  <2>1. /\ filters' = f /\ entries' \in Seq(Urls) /\ here' = Len(entries') /\ here' \in Nat \ {0}
        /\ f # filters => /\ moving' = TRUE /\ Len(entries') = Len(h) + 1
                          /\ entries'[here'] = Browse!Toward(f, address)
        /\ f = filters => moving' = TRUE /\ entries' = h
    BY <1>1, <1>4, <1>5, <1>7, DispatchLeads
  <2> QED
    BY <1>3, <1>4, <2>1
<1>9. CatalogueTypes'
  <2>1. here' \in 1 .. Len(entries') /\ filters' \in Filters /\ moving' = TRUE
    BY <1>8
  <2> QED
    BY <1>1, <1>5, <1>6, <1>8, <2>1 DEF CatalogueTypes
<1>10. Len(entries') <= Len(entries) + 2
  BY <1>1, <1>3, <1>4, <1>8
<1>11. Standing'
  <2>1. CASE f # filters
    <3>1. /\ entries'[here'].lists = f.lists /\ Agree(entries'[here'], filters') /\ moving'
      BY <1>1, <1>8, <2>1, TowardUrl DEF CatalogueTypes
    <3>2. wanted' \in {None, f.lists}
      BY DEF Browse!Wants
    <3> QED
      BY <1>5, <3>1, <3>2 DEF Standing
  <2>2. CASE f = filters
    <3>1. entries'[here'] = u /\ moving' /\ u # address'
      BY <1>3, <1>4, <1>5, <1>8, <2>2
    <3>2. wanted' \in {None, u.lists}
      BY <2>2 DEF Browse!Wants
    <3> QED
      BY <3>1, <3>2 DEF Standing
  <2> QED
    BY <2>1, <2>2
<1> QED
  BY <1>5, <1>6, <1>9, <1>10, <1>11, MoveKeeps

LEMMA AtRest ==
  ASSUME CatalogueInv, ~moving
  PROVE  /\ entries[here] = address /\ address.lists = filters.lists
         /\ wanted \in {None, filters.lists}
BY DEF CatalogueInv, Standing, Agree

LEMMA ClearedFilters == CatalogueTypes => Browse!Cleared \in Filters
BY ShopAssumption DEF Browse!Cleared, Filters, Searches

LEMMA PanelKeeps ==
  ASSUME CatalogueInv,
         \/ \E c \in Facets : Browse!Toggle(c)
         \/ \E p \in Browse!Ranges \union {"all"} : Browse!SlidePrice(p)
         \/ Browse!ClearPanel
  PROVE  CatalogueInv'
<1>0. filters \in Filters /\ CatalogueTypes
  BY DEF CatalogueInv, CatalogueTypes
<1>1. ASSUME NEW c \in Facets, Browse!Toggle(c) PROVE CatalogueInv'
  <2> DEFINE s == IF c \in filters.lists THEN filters.lists \ {c} ELSE filters.lists \union {c}
             f == [filters EXCEPT !.lists = s]
  <2>1. f \in Filters /\ f.lists = s /\ s # filters.lists
    BY <1>0 DEF Filters
  <2>2. /\ Browse!ShopperMoves /\ UNCHANGED <<address, catalog>>
        /\ Browse!Dispatch(f, address, Browse!Kept, moving) /\ Browse!Wants(s)
    BY <1>1 DEF Browse!Toggle
  <2> HIDE DEF s, f
  <2>3. f.lists = filters.lists \/ f # filters
    BY <2>1
  <2> QED
    BY <2>1, <2>2, <2>3, DispatchKeeps
<1>2. ASSUME NEW p \in Browse!Ranges \union {"all"}, Browse!SlidePrice(p) PROVE CatalogueInv'
  <2> DEFINE f == [filters EXCEPT !.price = p]
  <2>1. f \in Filters /\ f.lists = filters.lists
    BY <1>0 DEF Filters
  <2>2. /\ Browse!ShopperMoves /\ UNCHANGED <<address, catalog>>
        /\ Browse!Dispatch(f, address, Browse!Kept, moving) /\ Browse!Wants(wanted)
    BY <1>2 DEF Browse!SlidePrice
  <2> HIDE DEF f
  <2> QED
    BY <2>1, <2>2, DispatchKeeps
<1>3. CASE Browse!ClearPanel
  <2>1. Browse!Cleared \in Filters /\ Browse!Cleared.lists = {} /\ Browse!Cleared # filters
    <3>1. Browse!Cleared.price # "low" /\ Browse!Cleared.lists = {} /\ Browse!Cleared.search = ""
      BY DEF Browse!Cleared
    <3>2. filters.lists # {} \/ filters.price = "low" \/ filters.search # ""
      BY <1>3 DEF Browse!ClearPanel, Browse!Filtered, Browse!Active, Browse!Ranges
    <3> QED
      BY <1>0, <3>1, <3>2, ClearedFilters
  <2>2. /\ Browse!ShopperMoves /\ UNCHANGED <<address, catalog>>
        /\ Browse!Dispatch(Browse!Cleared, address, Browse!Kept, moving) /\ Browse!Wants({})
    BY <1>3 DEF Browse!ClearPanel
  <2> QED
    BY <2>1, <2>2, DispatchKeeps
<1> QED
  BY <1>1, <1>2, <1>3

LEMMA ButtonsKeep ==
  ASSUME CatalogueInv,
         \/ \E c \in Facets : Browse!RemoveChoice(c)
         \/ Browse!RemovePrice \/ Browse!ClearSearch \/ Browse!ClearAll
  PROVE  CatalogueInv'
<1>0. filters \in Filters /\ address \in Urls /\ CatalogueTypes
  BY DEF CatalogueInv, CatalogueTypes
<1>1. ASSUME NEW c \in Facets, Browse!RemoveChoice(c) PROVE CatalogueInv'
  <2> DEFINE s == address.lists \ {c}
             f == [filters EXCEPT !.lists = s]
             u == [address EXCEPT !.lists = s, !.page = TRUE]
  <2>1. /\ f \in Filters /\ f.lists = s /\ f # filters /\ u \in Urls
    BY <1>0, <1>1 DEF Browse!RemoveChoice, Filters, Urls
  <2>2. Browse!Both(f, u) /\ Browse!Wants(filters.lists \ {c})
    BY <1>1 DEF Browse!RemoveChoice
  <2>3. ~moving => filters.lists \ {c} = s
    BY AtRest
  <2> HIDE DEF s, f, u
  <2> QED
    BY <2>1, <2>2, <2>3, BothKeeps
<1>2. CASE Browse!RemovePrice
  <2> DEFINE f == [filters EXCEPT !.price = "all"]
             u == [address EXCEPT !.price = None, !.page = TRUE]
  <2>1. /\ f \in Filters /\ f.lists = filters.lists /\ f # filters /\ u \in Urls
    BY <1>0, <1>2 DEF Browse!RemovePrice, Browse!Active, Browse!Ranges, Filters, Urls
  <2>2. Browse!Both(f, u) /\ Browse!Wants(wanted)
    BY <1>2 DEF Browse!RemovePrice
  <2>3. ~moving => wanted \in {None, filters.lists}
    BY AtRest
  <2> HIDE DEF f, u
  <2> QED
    BY <2>1, <2>2, <2>3, BothKeeps
<1>3. CASE Browse!ClearSearch
  <2> DEFINE f == [filters EXCEPT !.search = ""]
             u == [address EXCEPT !.search = "", !.page = TRUE]
  <2>1. /\ f \in Filters /\ f.lists = filters.lists /\ u \in Urls /\ u # address
        /\ u.lists = address.lists
    BY <1>0, <1>3 DEF Browse!ClearSearch, Filters, Urls, Searches
  <2>2. Browse!Both(f, u) /\ Browse!Wants(wanted)
    BY <1>3 DEF Browse!ClearSearch
  <2>3. ~moving => wanted \in {None, filters.lists} /\ address.lists = filters.lists
    BY AtRest
  <2> HIDE DEF f, u
  <2> QED
    BY <2>1, <2>2, <2>3, BothKeeps
<1>4. CASE Browse!ClearAll
  <2>1. Browse!Cleared \in Filters /\ Browse!Cleared.lists = {}
    BY <1>0, ClearedFilters DEF Browse!Cleared
  <2>2. Browse!Bare.lists = {} /\ Browse!Bare.search = "" /\ Browse!Bare \in Urls
    BY BareUrl DEF Browse!Bare
  <2>3. Browse!Both(Browse!Cleared, Browse!Bare) /\ Browse!Wants({})
    BY <1>4 DEF Browse!ClearAll
  <2>4. Browse!Cleared = filters => Browse!Bare # address
    <3> SUFFICES ASSUME Browse!Cleared = filters PROVE address.search # ""
      BY <2>2
    <3>1. ~Browse!Filtered
      BY DEF Browse!Filtered, Browse!Cleared, Browse!Active, Browse!Ranges
    <3> QED
      BY <1>4, <3>1 DEF Browse!ClearAll
  <2> QED
    BY <2>1, <2>2, <2>3, <2>4, BothKeeps
<1> QED
  BY <1>1, <1>2, <1>3, <1>4

\* The address alone is sent on, or the history gone through.
LEMMA TravelsKeep ==
  ASSUME CatalogueInv,
         \/ \E s \in Sorts : Browse!HandleSortChange(s)
         \/ \E u \in Browse!Links : Browse!FollowLink(u)
         \/ \E to \in DOMAIN entries : Browse!Travel(to)
  PROVE  CatalogueInv'
<1>0. /\ filters \in Filters /\ address \in Urls /\ CatalogueTypes /\ Standing
      /\ Len(entries) \in Nat /\ here \in Nat /\ here <= Len(entries)
  BY DEF CatalogueInv, CatalogueTypes
<1>1. Browse!Kept \in Seq(Urls) /\ Len(Browse!Kept) = here
  BY <1>0, KeptHistory DEF CatalogueTypes, Browse!Kept
<1>2. ASSUME NEW u \in Urls, Browse!ShopperMoves, entries' = Browse!Pushed(Browse!Kept, u),
             here' = Len(entries'), moving' = TRUE, wanted' \in {None, u.lists},
             UNCHANGED <<address, filters, catalog>>,
             u = address => Agree(address, filters)
      PROVE  CatalogueInv'
  <2>1. /\ entries' \in Seq(Urls) /\ Len(entries') = here + 1
        /\ entries'[here + 1] = u
    BY <1>1, <1>2, PushedHistory
  <2>2. here' \in 1 .. Len(entries') /\ entries'[here'] = u
    BY <1>0, <1>2, <2>1
  <2>3. moves' = moves + 1 /\ moves' \in Nat
    BY <1>0, <1>2 DEF Browse!ShopperMoves, CatalogueTypes
  <2>4. CatalogueTypes'
    BY <1>0, <1>2, <2>1, <2>2, <2>3 DEF CatalogueTypes
  <2>5. Standing'
    BY <1>2, <2>2 DEF Standing
  <2>6. Len(entries') <= Len(entries) + 2
    BY <1>0, <2>1
  <2> QED
    BY <1>2, <2>3, <2>4, <2>5, <2>6, MoveKeeps
<1>3. ASSUME NEW s \in Sorts, Browse!HandleSortChange(s) PROVE CatalogueInv'
  <2> DEFINE u == [address EXCEPT !.sort = s, !.page = TRUE]
  <2>1. u \in Urls /\ u.lists = address.lists /\ u # address
    BY <1>0, <1>3 DEF Browse!HandleSortChange, Urls
  <2>2. /\ Browse!ShopperMoves /\ entries' = Browse!Pushed(Browse!Kept, u)
        /\ here' = Len(entries') /\ moving' = TRUE /\ Browse!Wants(address.lists)
        /\ UNCHANGED <<address, filters, catalog>>
    BY <1>3 DEF Browse!HandleSortChange
  <2> HIDE DEF u
  <2>3. wanted' \in {None, u.lists}
    BY <2>1, <2>2 DEF Browse!Wants
  <2> QED
    BY <1>2, <2>1, <2>2, <2>3
<1>4. ASSUME NEW u \in Browse!Links, Browse!FollowLink(u) PROVE CatalogueInv'
  <2>1. u \in Urls
    <3>1. CASE u = [Browse!Bare EXCEPT !.search = "x"]
      BY <3>1, BareUrl DEF Urls, Searches
    <3>2. ASSUME NEW c \in Facets, u = [Browse!Bare EXCEPT !.lists = {c}] PROVE u \in Urls
      <4>1. {c} \in SUBSET Facets
        OBVIOUS
      <4> HIDE DEF Browse!Bare
      <4> QED
        BY <3>2, <4>1, BareUrl DEF Urls
    <3> QED
      BY <3>1, <3>2 DEF Browse!Links
  <2>2. /\ Browse!ShopperMoves /\ entries' = Browse!Pushed(Browse!Kept, u)
        /\ here' = Len(entries') /\ moving' = TRUE /\ wanted' \in {None, u.lists}
        /\ UNCHANGED <<address, filters, catalog>> /\ ~moving
    BY <1>4 DEF Browse!FollowLink, Browse!Wants
  <2>3. Agree(address, filters)
    BY <1>0, <2>2 DEF Standing
  <2> QED
    BY <1>2, <2>1, <2>2, <2>3
<1>5. ASSUME NEW to \in DOMAIN entries, Browse!Travel(to) PROVE CatalogueInv'
  <2>1. /\ Browse!ShopperMoves /\ here' = to /\ moving' = TRUE /\ ~moving
        /\ wanted' \in {None, entries[to].lists}
        /\ UNCHANGED <<address, entries, filters, catalog>>
    BY <1>5 DEF Browse!Travel, Browse!Wants
  <2>2. moves' = moves + 1 /\ moves' \in Nat
    BY <1>0, <2>1 DEF Browse!ShopperMoves, CatalogueTypes
  <2>3. to \in 1 .. Len(entries)
    BY <1>0 DEF CatalogueTypes
  <2>4. CatalogueTypes'
    BY <1>0, <2>1, <2>2, <2>3 DEF CatalogueTypes
  <2>5. Agree(address, filters)
    BY <1>0, <2>1 DEF Standing
  <2>6. Standing'
    BY <2>1, <2>5 DEF Standing
  <2>7. Len(entries') <= Len(entries) + 2
    BY <1>0, <2>1
  <2> QED
    BY <2>1, <2>2, <2>4, <2>6, <2>7, MoveKeeps
<1> QED
  BY <1>3, <1>4, <1>5

\* What is rendered agrees with the filters it gives, and they lead to no other address
\* than one that gives them back.
LEMMA RenderedUrl ==
  ASSUME CatalogueTypes, NEW u \in Urls
  PROVE  LET f == Browse!FromUrl(u)
             back == Browse!Toward(f, u)
         IN  /\ f \in Filters /\ f.lists = u.lists /\ Agree(u, f) /\ ~Differ(u, f)
             /\ back \in Urls /\ back.lists = u.lists
             /\ back.search = f.search /\ back.sort = f.sort
             /\ back.price \in {None, f.price}
<1> DEFINE f == Browse!FromUrl(u)
<1>1. /\ f \in Filters /\ f.lists = u.lists /\ f.search = u.search /\ f.sort = u.sort
      /\ u.price \in {None, f.price}
  BY DEF Browse!FromUrl, CatalogueTypes, Urls, Filters
<1> HIDE DEF f
<1>2. /\ Browse!Toward(f, u) \in Urls /\ Browse!Toward(f, u).lists = f.lists
      /\ Agree(Browse!Toward(f, u), f)
  BY <1>1, TowardUrl
<1>3. Browse!Toward(f, u).search = f.search /\ Browse!Toward(f, u).sort = f.sort
  BY <1>1 DEF Browse!Toward
<1>4. Agree(u, f) /\ ~Differ(u, f)
  BY <1>1 DEF Agree, Differ
<1>5. Browse!Toward(f, u).price \in {None, f.price}
  BY <1>2 DEF Agree
<1> QED
  BY <1>1, <1>2, <1>3, <1>4, <1>5 DEF f

LEMMA AddressRenderedKeeps ==
  ASSUME CatalogueInv, Browse!AddressRendered
  PROVE  CatalogueInv'
<1>0. /\ filters \in Filters /\ address \in Urls /\ CatalogueTypes /\ Standing
      /\ Len(entries) \in Nat /\ here \in Nat /\ here <= Len(entries)
      /\ entries[here] \in Urls /\ moves \in Nat
  BY DEF CatalogueInv, CatalogueTypes
<1>1. Browse!Kept \in Seq(Urls) /\ Len(Browse!Kept) = here
  BY <1>0, KeptHistory DEF CatalogueTypes, Browse!Kept
<1>2. address' = entries[here] /\ UNCHANGED <<catalog, moves, wanted>> /\ Room' = Room
  BY DEF Browse!AddressRendered, Room
<1>3. Len(entries) + Due + Room <= 2 + 3 * moves
  BY DEF CatalogueInv
<1>4. Due \in {0, 1} /\ Due' \in {0, 1} /\ Room \in {0, 1}
  BY <1>0, FewDue
<1> DEFINE u == entries[here]
           f == Browse!FromUrl(u)
           back == Browse!Toward(f, u)
<1>5. /\ f \in Filters /\ f.lists = u.lists /\ Agree(u, f) /\ ~Differ(u, f)
      /\ back \in Urls /\ back.lists = u.lists
      /\ back.search = f.search /\ back.sort = f.sort /\ back.price \in {None, f.price}
  BY <1>0, RenderedUrl
<1>6. CASE u = address
  <2>1. UNCHANGED <<address, entries, here, filters>> /\ moving' = FALSE
    BY <1>6, <1>2 DEF Browse!AddressRendered
  <2>2. CatalogueTypes'
    BY <1>0, <1>2, <2>1 DEF CatalogueTypes
  <2>3. Standing'
    BY <1>0, <1>2, <1>6, <2>1 DEF Standing
  <2>4. Due' = Due
    BY <1>6, <2>1 DEF Due, Owed
  <2> HIDE DEF Due, Room
  <2> QED
    BY <1>2, <1>3, <2>1, <2>2, <2>3, <2>4 DEF CatalogueInv
<1>7. CASE u # address /\ f = filters
  <2>1. UNCHANGED <<entries, here, filters>> /\ moving' = FALSE
    BY <1>7, <1>2 DEF Browse!AddressRendered
  <2>2. CatalogueTypes'
    BY <1>0, <1>2, <2>1 DEF CatalogueTypes
  <2>3. Standing'
    BY <1>0, <1>2, <1>5, <1>7, <2>1 DEF Standing
  <2>4. Due' = 0
    BY <1>2, <1>5, <1>7, <2>1 DEF Due, Owed
  <2> HIDE DEF Due, Room
  <2>5. Len(entries') + Due' + Room' <= 2 + 3 * moves'
    BY <1>0, <1>2, <1>3, <1>4, <2>1, <2>4
  <2> QED
    BY <2>2, <2>3, <2>5 DEF CatalogueInv
<1>8. CASE u # address /\ f # filters
  <2>1. /\ entries' = Browse!Pushed(Browse!Kept, back) /\ here' = Len(entries')
        /\ moving' = TRUE /\ filters' = f
    BY <1>8, <1>2 DEF Browse!AddressRendered
  <2>2. /\ entries' \in Seq(Urls) /\ Len(entries') = here + 1 /\ entries'[here + 1] = back
    BY <1>1, <1>5, <2>1, PushedHistory
  <2>3. here' \in 1 .. Len(entries') /\ here' = here + 1
    BY <1>0, <2>1, <2>2
  <2>4. CatalogueTypes'
    BY <1>0, <1>2, <1>5, <2>1, <2>2, <2>3 DEF CatalogueTypes
  <2>5. entries'[here'] = back
    BY <2>2, <2>3
  <2>6. Standing'
    BY <1>0, <1>2, <1>5, <2>1, <2>5 DEF Standing
  <2>7. Due' = 0
    <3>1. PICK b \in Urls : b = back
      BY <1>5
    <3>2. PICK g \in Filters : g = f
      BY <1>5
    <3>3. /\ entries'[here'] = b /\ filters' = g /\ b.lists = g.lists /\ b.search = g.search
          /\ b.sort = g.sort /\ b.price \in {None, g.price} /\ ~Differ(address', g)
      BY <1>2, <1>5, <2>1, <2>5, <3>1, <3>2
    <3>4. [lists |-> b.lists, price |-> IF b.price = None THEN g.price ELSE b.price,
           search |-> b.search, sort |-> b.sort] = g
      BY <3>3 DEF Filters
    <3> QED
      BY <3>3, <3>4 DEF Due, Owed, Browse!FromUrl
  <2>8. Due = 1
    BY <1>8 DEF Due, Owed
  <2> HIDE DEF Due, Room
  <2>9. Len(entries') + Due' + Room' <= 2 + 3 * moves'
    BY <1>0, <1>2, <1>3, <1>4, <2>2, <2>7, <2>8
  <2> QED
    BY <2>4, <2>6, <2>9 DEF CatalogueInv
<1> QED
  BY <1>6, <1>7, <1>8

\* The catalogue's span costs the address it has room for, and no more: it changes
\* neither search nor order.
LEMMA CatalogArrivesKeeps ==
  ASSUME CatalogueInv, Browse!CatalogArrives
  PROVE  CatalogueInv'
<1>0. /\ filters \in Filters /\ address \in Urls /\ CatalogueTypes /\ Standing
      /\ Len(entries) \in Nat /\ here \in Nat /\ here <= Len(entries) /\ moves \in Nat
  BY DEF CatalogueInv, CatalogueTypes
<1>1. /\ Browse!Kept \in Seq(Urls) /\ Len(Browse!Kept) = here
  BY <1>0, KeptHistory DEF CatalogueTypes, Browse!Kept
<1>2. /\ Room = 1 /\ Room' = 0 /\ catalog' = TRUE /\ UNCHANGED <<address, moves>>
      /\ wanted' \in {None, wanted} /\ (moving => wanted' = None)
  BY DEF Browse!CatalogArrives, Browse!Wants, Room
<1>3. Len(entries) + Due + Room <= 2 + 3 * moves
  BY DEF CatalogueInv
<1>4. Due \in {0, 1} /\ Due' \in {0, 1}
  BY <1>0, FewDue
<1>5. CASE UNCHANGED <<filters, entries, here, moving>>
  <2>1. CatalogueTypes'
    BY <1>0, <1>2, <1>5 DEF CatalogueTypes
  <2>2. Standing'
    BY <1>0, <1>2, <1>5 DEF Standing
  <2>3. Due' = Due
    BY <1>2, <1>5 DEF Due, Browse!FromUrl
  <2> HIDE DEF Due, Room
  <2>4. Len(entries') + Due' + Room' <= 2 + 3 * moves'
    BY <1>0, <1>2, <1>3, <1>4, <1>5, <2>3
  <2> QED
    BY <2>1, <2>2, <2>4 DEF CatalogueInv
<1>6. CASE ~UNCHANGED <<filters, entries, here, moving>>
  <2> DEFINE f == [filters EXCEPT !.price = "all"]
  <2>1. filters.price = "unset" /\ Browse!Dispatch(f, address, Browse!Kept, moving)
    BY <1>6 DEF Browse!CatalogArrives
  <2>2. /\ f \in Filters /\ f # filters /\ f.lists = filters.lists
        /\ f.search = filters.search /\ f.sort = filters.sort
    BY <1>0, <2>1 DEF Filters
  <2> HIDE DEF f
  <2>3. Browse!Kept # <<>>
    BY <1>0, <1>1 DEF CatalogueTypes
  <2>4. /\ filters' = f /\ entries' \in Seq(Urls) /\ here' = Len(entries')
        /\ here' \in Nat \ {0} /\ moving' = TRUE /\ Len(entries') = here + 1
        /\ entries'[here'] = Browse!Toward(f, address)
    BY <1>0, <1>1, <2>1, <2>2, <2>3, DispatchLeads
  <2>5. here' \in 1 .. Len(entries')
    BY <2>4
  <2>6. CatalogueTypes'
    BY <1>0, <1>2, <2>2, <2>4, <2>5 DEF CatalogueTypes
  <2> DEFINE b == Browse!Toward(f, address)
  <2>7. /\ b \in Urls /\ b.lists = f.lists /\ Agree(b, f)
    BY <1>0, <2>2, TowardUrl
  <2>8. Standing'
    <3>1. wanted' \in {None, f.lists}
      BY <1>2, <2>2, AtRest
    <3> QED
      BY <1>2, <2>4, <2>7, <3>1 DEF Standing
  <2>9. Due' = 1 => Due = 1
    <3> SUFFICES ASSUME ~Differ(address, filters) PROVE Due' = 0
      BY <1>4 DEF Due, Owed
    <3>1. b.search = f.search /\ b.sort = f.sort
      BY <2>2 DEF Browse!Toward, Differ
    <3>2. ~Differ(address', f)
      BY <1>2, <2>2 DEF Differ
    <3>3. PICK d \in Urls : d = b
      BY <2>7
    <3>4. PICK g \in Filters : g = f
      BY <2>2
    <3>5. /\ entries'[here'] = d /\ filters' = g /\ d.lists = g.lists /\ d.search = g.search
          /\ d.sort = g.sort /\ d.price \in {None, g.price} /\ ~Differ(address', g)
      BY <2>4, <2>7, <3>1, <3>2, <3>3, <3>4 DEF Agree
    <3>6. [lists |-> d.lists, price |-> IF d.price = None THEN g.price ELSE d.price,
           search |-> d.search, sort |-> d.sort] = g
      BY <3>5 DEF Filters
    <3> QED
      BY <3>5, <3>6 DEF Due, Owed, Browse!FromUrl
  <2> HIDE DEF Due, Room, b
  <2>10. Len(entries') + Due' + Room' <= 2 + 3 * moves'
    <3>1. Due \in Nat /\ Due' \in Nat /\ Due' <= Due
      BY <1>4, <2>9
    <3>2. Len(entries') <= Len(entries) + 1 /\ Len(entries') \in Nat
      BY <1>0, <2>4
    <3>3. Room = 1 /\ Room' = 0 /\ moves' = moves
      BY <1>2
    <3>4. Len(entries) + Due + 1 <= 2 + 3 * moves
      BY <1>3, <3>3
    <3> QED
      BY <1>0, <3>1, <3>2, <3>3, <3>4
  <2> QED
    BY <2>6, <2>8, <2>10 DEF CatalogueInv
<1> QED
  BY <1>5, <1>6

LEMMA NextCatalogueInv == CatalogueInv /\ [Browse!Next]_browsingVars => CatalogueInv'
<1> SUFFICES ASSUME CatalogueInv, [Browse!Next]_browsingVars PROVE CatalogueInv'
  OBVIOUS
<1>1. CASE Browse!Debounced \/ UNCHANGED browsingVars
  BY <1>1 DEF Browse!Debounced, browsingVars, CatalogueInv, CatalogueTypes, Standing, Due,
              Room, Browse!FromUrl
<1> QED
  BY <1>1, PanelKeeps, ButtonsKeep, TravelsKeep, AddressRenderedKeeps, CatalogArrivesKeeps
     DEF Browse!Next

LEMMA CatalogueHolds == CatalogueInv => Browse!CatalogueSettles
<1> SUFFICES ASSUME CatalogueInv PROVE Browse!PickedAsWanted /\ Browse!CopiesSettle
  BY DEF Browse!CatalogueSettles
<1>1. Browse!PickedAsWanted
  <2> SUFFICES ASSUME ~moving, debouncedPrice = filters.price
               PROVE  /\ address.lists = filters.lists /\ Browse!Asked.lists = filters.lists
                      /\ wanted \in {None, filters.lists}
                      /\ address.price \in {None, Browse!Asked.price}
    BY DEF Browse!PickedAsWanted, Browse!Quiet
  <2>1. /\ address.lists = filters.lists /\ wanted \in {None, filters.lists}
        /\ address.price \in {None, filters.price}
    BY DEF CatalogueInv, Standing, Agree
  <2>2. address.price \in Browse!Ranges \cup {None}
    BY DEF CatalogueInv, CatalogueTypes, Urls
  <2> QED
    BY <2>1, <2>2 DEF Browse!Asked, Browse!Active
<1>2. Browse!CopiesSettle
  <2>1. Len(entries) \in Nat /\ moves \in Nat /\ Len(entries) + Due + Room <= 2 + 3 * moves
    BY DEF CatalogueInv, CatalogueTypes
  <2>2. Due \in {0, 1} /\ Room \in {0, 1}
    BY DEF Due, Owed, Room
  <2> QED
    BY <2>1, <2>2 DEF Browse!CopiesSettle
<1> QED
  BY <1>1, <1>2

-----------------------------------------------------------------------------
(* The pages together: a page moves by its own steps only *)

LEMMA OwnSteps ==
  ASSUME [Next]_allVars
  PROVE  /\ [Checkout!Next]_checkoutVars
         /\ [Alerts!Next]_alertVars
         /\ [SignIn!Next]_modalVars
         /\ [Cart!Next]_cartVars
         /\ [Book!Next]_bookVars
         /\ [Product!Next]_productVars
         /\ [Browse!Next]_browsingVars
BY DEF Next, CheckoutStep, BookStep, CartStep, AlertsStep, SignInStep, BrowseStep, ProductStep,
       allVars

ShopInv ==
  /\ QuoteInv /\ DialogInv /\ WishInv
  /\ CartInv /\ BookInv /\ ProductInv /\ CatalogueInv

LEMMA InitShopInv == Init => ShopInv
BY InitQuoteInv, InitDialogInv, InitWishInv, InitCartInv, InitBookInv, InitProductInv,
   InitCatalogueInv DEF Init, ShopInv

LEMMA NextShopInv == ShopInv /\ [Next]_allVars => ShopInv'
BY OwnSteps, NextQuoteInv, NextDialogInv, NextWishInv, NextCartInv, NextBookInv,
   NextProductInv, NextCatalogueInv DEF ShopInv

\* However the checkout is used and its answers arrive, no order is sent with a coupon the
\* server has not quoted for it.
THEOREM CouponsAreQuoted == Spec => []CouponOrdersAreQuoted
<1>1. ShopInv => CouponOrdersAreQuoted
  BY DEF ShopInv, QuoteInv, CouponOrdersAreQuoted
<1> QED
  BY InitShopInv, NextShopInv, <1>1, PTL DEF Spec

\* However calls, clicks, sign-ins and the popups' mounts and unmounts interleave, a
\* dialog is answered by a click on itself, or given up; and a wish that was given up is
\* not done.
THEOREM NothingIsDoneUnasked == Spec => []ActsAreMeant
<1>1. ShopInv => ActsAreMeant
  BY DEF ShopInv, DialogInv, ClicksOK, WishInv, ActsAreMeant, SignIn!GivenUpIsNotDone
<1> QED
  BY InitShopInv, NextShopInv, <1>1, PTL DEF Spec

\* AlertProvider does nothing alertService does not promise: calls are answered once and
\* in turn, or given up together.
THEOREM ProviderKeepsThePromise ==
  Spec => Alerts!Promise!Init /\ [][Alerts!Promise!Next]_(Alerts!Promise!promiseVars)
<1>1. Init => Alerts!Promise!Init
  BY DEF Init, Alerts!Init, Alerts!Promise!Init
<1>2. ShopInv /\ [Next]_allVars => [Alerts!Promise!Next]_(Alerts!Promise!promiseVars)
  BY OwnSteps, StepsKeepThePromise DEF ShopInv
<1> QED
  BY InitShopInv, NextShopInv, <1>1, <1>2, PTL DEF Spec

\* However changes overtake each other and answers come late, once nothing is on its way
\* and no answer was lost the cart shown is the one kept, the order goes to an address as
\* it is saved, the hearts are the wishlist, and delivery terms are of the pincode shown.
THEOREM ShownIsKept == Spec => []ShopShowsWhatIsKept
<1>1. ShopInv => ShopShowsWhatIsKept
  BY CartHolds, BookHolds, ProductHolds DEF ShopInv, ShopShowsWhatIsKept
<1> QED
  BY InitShopInv, NextShopInv, <1>1, PTL DEF Spec

\* For any number of clicks the filters end as they were picked last, and their two copies
\* add no more addresses to the history than a few for each click.
THEOREM FiltersSettle == Spec => []CatalogueSettles
<1>1. ShopInv => CatalogueSettles
  BY CatalogueHolds DEF ShopInv, CatalogueSettles
<1> QED
  BY InitShopInv, NextShopInv, <1>1, PTL DEF Spec
=============================================================================
