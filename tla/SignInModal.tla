---------------------------- MODULE SignInModal ----------------------------
(***************************************************************************)
(* The sign-in popup of a storefront.  A page that needs a customer opens  *)
(* it with what it wants done afterwards; the shopper signs in with        *)
(* password, with a code sent to the phone, or by registering, or closes   *)
(* the popup.  A request goes on after its form is gone, and its answer    *)
(* signs the shopper in and reports success all the same.                  *)
(*                                                                         *)
(* Sources: client/src/features/tenant/StorefrontAuthModal.tsx,            *)
(* client/src/components/Auth and                                          *)
(* client/src/features/auth/components/PhoneOtpForm.tsx.                   *)
(***************************************************************************)
EXTENDS Naturals

CONSTANTS
  Wishes,   \* what pages want done after the sign-in, each wanted once
  Requests, \* bound: requests in flight at once
  MaxForms, \* bound: forms shown in all
  None

VARIABLES
  isOpen,    \* whether the popup is open
  view,      \* the form shown: "login", "phone", "code" or "register"
  form,      \* which mounted form that is
  loading,   \* its loading flag
  cooling,   \* resendIn > 0
  onSuccess, \* onSuccessRef
  pending,   \* requests in flight, each sent by a form
  signedIn,  \* there is a customer's session
  performed, \* wishes that were performed
  dropped    \* wishes given up: their popup was closed, or opened for another one

modalVars ==
  <<isOpen, view, form, loading, cooling, onSuccess, pending, signedIn, performed, dropped>>

NoRequest == [kind |-> "none", form |-> 0]

Init ==
  /\ isOpen = FALSE
  /\ view = "login"
  /\ form = 0
  /\ loading = FALSE
  /\ cooling = FALSE
  /\ onSuccess = None
  /\ pending = [r \in Requests |-> NoRequest]
  /\ signedIn = FALSE
  /\ performed = {}
  /\ dropped = {}

\* Another form is mounted, with a state of its own.
Mount(v) ==
  /\ form < MaxForms
  /\ form' = form + 1
  /\ view' = v
  /\ loading' = FALSE
  /\ cooling' = FALSE
SameForm == UNCHANGED <<view, form, loading, cooling>>

\* openLogin; a page asks for it only while there is no customer.
OpenLogin(w) ==
  /\ ~signedIn /\ w \notin performed \cup dropped \cup {onSuccess}
  /\ dropped' = dropped \cup ({onSuccess} \ {None})
  /\ onSuccess' = w
  /\ isOpen' = TRUE
  /\ IF isOpen THEN SameForm ELSE Mount("login")
  /\ UNCHANGED <<pending, signedIn, performed>>

\* Mutant: what was to be done after the sign-in is kept.
CloseKeepingWish ==
  /\ isOpen
  /\ isOpen' = FALSE
  /\ dropped' = dropped \cup ({onSuccess} \ {None})
  /\ SameForm
  /\ UNCHANGED <<onSuccess, pending, signedIn, performed>>

\* closeLogin: the close icon, Escape or a click beside the popup.
CloseLogin ==
  /\ isOpen
  /\ isOpen' = FALSE
  /\ dropped' = dropped \cup ({onSuccess} \ {None})
  /\ onSuccess' = None
  /\ SameForm
  /\ UNCHANGED <<pending, signedIn, performed>>

\* The links between the forms.
Links == [login |-> {"register", "phone"}, register |-> {"login"},
          phone |-> {"login"}, code |-> {"login"}]
SwitchForm(v) ==
  /\ isOpen /\ v \in Links[view]
  /\ Mount(v)
  /\ UNCHANGED <<isOpen, onSuccess, pending, signedIn, performed, dropped>>

\* PhoneOtpForm's "Change number", which stays enabled while it is loading.
ChangeNumber ==
  /\ isOpen /\ view = "code"
  /\ view' = "phone"
  /\ UNCHANGED <<isOpen, form, loading, cooling, onSuccess, pending, signedIn, performed, dropped>>

\* What each form sends; its button is disabled while it is loading.
Submits == [login |-> {"login"}, register |-> {"register"}, phone |-> {"send"},
            code |-> IF cooling THEN {"verify"} ELSE {"verify", "send"}]
Submit(r, kind) ==
  /\ isOpen /\ ~loading /\ kind \in Submits[view]
  /\ pending[r] = NoRequest
  /\ pending' = [pending EXCEPT ![r] = [kind |-> kind, form |-> form]]
  /\ loading' = TRUE
  /\ UNCHANGED <<isOpen, view, form, cooling, onSuccess, signedIn, performed, dropped>>

Live(r) == isOpen /\ pending[r].form = form
Done(r) == pending' = [pending EXCEPT ![r] = NoRequest]

\* The code was sent: the form, if it is still there, goes on to the code.
CodeSent(r) ==
  /\ pending[r].kind = "send"
  /\ Done(r)
  /\ IF Live(r) THEN view' = "code" /\ cooling' = TRUE /\ loading' = FALSE
     ELSE UNCHANGED <<view, cooling, loading>>
  /\ UNCHANGED <<isOpen, form, onSuccess, signedIn, performed, dropped>>
CoolingOver ==
  /\ cooling /\ cooling' = FALSE
  /\ UNCHANGED <<isOpen, view, form, loading, onSuccess, pending, signedIn, performed, dropped>>

\* The account is there: RegisterForm signs in with the same credentials.
Registered(r) ==
  /\ pending[r].kind = "register"
  /\ pending' = [pending EXCEPT ![r].kind = "autologin"]
  /\ UNCHANGED <<isOpen, view, form, loading, cooling, onSuccess, signedIn, performed, dropped>>

\* handleSuccess performs what the popup is open for by now.
HandleSuccess ==
  /\ performed' = performed \cup ({onSuccess} \ {None})
  /\ onSuccess' = None
  /\ isOpen' = FALSE

\* login, verifyPhoneOtp: the session is stored and success is reported.
SignedIn(r) ==
  /\ pending[r].kind \in {"login", "verify", "autologin"}
  /\ Done(r)
  /\ signedIn' = TRUE
  /\ HandleSuccess
  /\ IF Live(r) THEN loading' = FALSE /\ UNCHANGED <<view, form, cooling>> ELSE SameForm
  /\ UNCHANGED dropped

\* A refusal shows in the form; an automatic sign-in that fails leads to login.
Refused(r) ==
  /\ pending[r].kind # "none"
  /\ Done(r)
  /\ IF ~Live(r) THEN SameForm
     ELSE IF pending[r].kind = "autologin" THEN Mount("login")
     ELSE loading' = FALSE /\ UNCHANGED <<view, form, cooling>>
  /\ UNCHANGED <<isOpen, onSuccess, signedIn, performed, dropped>>

SignOut ==
  /\ signedIn /\ signedIn' = FALSE
  /\ UNCHANGED <<isOpen, view, form, loading, cooling, onSuccess, pending, performed, dropped>>

Next ==
  \/ \E w \in Wishes : OpenLogin(w)
  \/ CloseLogin
  \/ \E v \in {"login", "phone", "register"} : SwitchForm(v)
  \/ ChangeNumber
  \/ \E r \in Requests, kind \in {"login", "register", "send", "verify"} : Submit(r, kind)
  \/ \E r \in Requests : CodeSent(r) \/ Registered(r) \/ SignedIn(r) \/ Refused(r)
  \/ CoolingOver
  \/ SignOut

Spec == Init /\ [][Next]_modalVars

-----------------------------------------------------------------------------
\* What the shopper gave up by closing the popup, or replaced by asking for
\* something else, is never done, not even by the answer to a sign-in that was
\* sent for it and comes after all; and nothing is done without a sign-in.
GivenUpIsNotDone ==
  /\ performed \cap dropped = {}
  /\ onSuccess # None => isOpen /\ onSuccess \notin performed
=============================================================================
