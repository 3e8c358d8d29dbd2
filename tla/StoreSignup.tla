------------------------------- MODULE StoreSignup -------------------------------
(***************************************************************************)
(* "Create your store": a merchant's details, a code sent to the WhatsApp  *)
(* number among them, and the store opened with it.  The page waits for    *)
(* one call at a time and gives a lost one up; the server may still be at  *)
(* it.  There a code is read, then spent, and the store inserted, each a   *)
(* step of its own; the unique indexes of the stores have the last word.   *)
(*                                                                         *)
(* The merchant's email stays the same (bound).                            *)
(*                                                                         *)
(* Sources: client/src/pages/CreateStore/CreateStore.tsx,                  *)
(* features/tenant/api/registerStore.api.ts; server                        *)
(* app/services/store_signup_otp_service.py, tenant_service.py.            *)
(***************************************************************************)
EXTENDS Naturals, Sequences

CONSTANTS
  Phones, Slugs,
  Elsewhere,   \* the slug of another merchant's store
  MaxAttempts, \* wrong codes before a code is of no use: MAX_ATTEMPTS
  MaxCalls,    \* bound: calls of the page
  None

VARIABLES
  signupStep, \* "details", "otp", or "in", the admin of the new store
  details, \* the form: [phone, slug]
  otp,     \* the code typed: its number, or 0 for one never sent
  waiting, \* the number of the call the page waits for, or None
  requests, \* the calls the server has not finished, and the answers under way
  sentCount, \* calls made (bounded)
  codes,   \* server: the codes sent, oldest first: [phone, spent, attempts]
  stores   \* server: the stores opened here: [slug, phone, code]

signupVars == <<signupStep, details, otp, waiting, requests, sentCount, codes, stores>>
page == <<signupStep, details, otp, waiting>>

Init ==
  /\ signupStep = "details" /\ otp = 0 /\ waiting = None
  /\ details = CHOOSE d \in [phone : Phones, slug : Slugs] : TRUE
  /\ requests = {} /\ sentCount = 0 /\ codes = <<>> /\ stores = {}

-----------------------------------------------------------------------------
\* The fields can be typed in while a call is on its way.
TypeDetails(d) ==
  /\ signupStep = "details" /\ d # details
  /\ details' = d
  /\ UNCHANGED <<signupStep, otp, waiting, requests, sentCount, codes, stores>>
TypeCode(n) ==
  /\ signupStep = "otp" /\ n # otp
  /\ otp' = n
  /\ UNCHANGED <<signupStep, details, waiting, requests, sentCount, codes, stores>>
EditDetails ==
  /\ signupStep = "otp" /\ waiting = None
  /\ signupStep' = "details"
  /\ UNCHANGED <<details, otp, waiting, requests, sentCount, codes, stores>>

Call(kind) ==
  /\ waiting = None /\ sentCount < MaxCalls
  /\ sentCount' = sentCount + 1 /\ waiting' = sentCount'
  /\ requests' = requests \union
       {[kind |-> kind, number |-> sentCount', details |-> details,
         code |-> IF kind = "store" THEN otp ELSE 0, at |-> "sent"]}
  /\ UNCHANGED <<signupStep, details, otp, codes, stores>>
\* "Send verification code" and "Resend code".
HandleSendOtp == signupStep \in {"details", "otp"} /\ Call("code")
HandleCreateStore == signupStep = "otp" /\ Call("store")

-----------------------------------------------------------------------------
\* The server.  Advance(r, at) has the call r go on to at; the answer of a call that
\* was given up reaches nobody.
Answers == {"done", "refused"}
Advance(r, at) ==
  requests' = (requests \ {r}) \union
    (IF at \in Answers /\ r.number # waiting THEN {} ELSE {[r EXCEPT !.at = at]})

EmailUsed == stores # {}
\* send_store_signup_otp; the message that cannot be sent takes its code along.
ServerSendsCode(r) ==
  /\ r \in requests /\ r.kind = "code" /\ r.at = "sent"
  /\ \/ /\ ~EmailUsed
        /\ codes' = Append(codes, [phone |-> r.details.phone, spent |-> FALSE, attempts |-> 0])
        /\ Advance(r, "done")
     \/ codes' = codes /\ Advance(r, "refused")
  /\ UNCHANGED <<page, sentCount, stores>>

\* An expired code is of no more use than one tried too often.
Expires(n) ==
  /\ n \in DOMAIN codes /\ codes[n].attempts < MaxAttempts
  /\ codes' = [codes EXCEPT ![n].attempts = MaxAttempts]
  /\ UNCHANGED <<page, requests, sentCount, stores>>

\* Mutant: any number's code will do.
UnspentAnyPhone(r) == {n \in DOMAIN codes : ~codes[n].spent}

\* consume_store_signup_otp reads the newest unspent code of the number.
Unspent(r) == {n \in DOMAIN codes : ~codes[n].spent /\ codes[n].phone = r.details.phone}
Newest(s) == CHOOSE n \in s : \A o \in s : o <= n

Usable(s) ==
  s # {} /\ codes[Newest(s)].attempts < MaxAttempts
ReadsCode(r) ==
  /\ r \in requests /\ r.kind = "store" /\ r.at = "sent"
  /\ \/ /\ Usable(Unspent(r)) /\ Newest(Unspent(r)) = r.code
        /\ codes' = codes
        /\ Advance(r, "read")
     \/ /\ Usable(Unspent(r)) /\ Newest(Unspent(r)) # r.code
        /\ codes' = [codes EXCEPT ![Newest(Unspent(r))].attempts = @ + 1]
        /\ Advance(r, "refused")
     \/ /\ ~Usable(Unspent(r))
        /\ codes' = codes /\ Advance(r, "refused")
  /\ UNCHANGED <<page, sentCount, stores>>
\* Nothing is asked of the code again when it is spent.
SpendsCode(r) ==
  /\ r \in requests /\ r.at = "read"
  /\ codes' = [codes EXCEPT ![r.code].spent = TRUE]
  /\ Advance(r, "spent")
  /\ UNCHANGED <<page, sentCount, stores>>
\* create_tenant_document: the slug and the email are looked for, then the store is
\* inserted, past the unique indexes on both.
SlugUsed(r) == r.details.slug = Elsewhere \/ \E s \in stores : s.slug = r.details.slug
ChecksStore(r) ==
  /\ r \in requests /\ r.at = "spent"
  /\ Advance(r, IF SlugUsed(r) \/ EmailUsed THEN "refused" ELSE "checked")
  /\ UNCHANGED <<page, sentCount, codes, stores>>
Indexed(r) == ~SlugUsed(r) /\ ~EmailUsed
InsertsStore(r) ==
  /\ r \in requests /\ r.at = "checked"
  /\ IF Indexed(r)
     THEN /\ stores' = stores \union {[slug |-> r.details.slug, phone |-> r.details.phone,
                                       code |-> r.code]}
          /\ Advance(r, "done")
     ELSE stores' = stores /\ Advance(r, "refused")
  /\ UNCHANGED <<page, sentCount, codes>>

-----------------------------------------------------------------------------
\* The answers the page waits for; the others are given up.
Awaited(r) == r \in requests /\ r.number = waiting /\ r.at \in Answers
CodeSent(r) ==
  /\ Awaited(r) /\ r.kind = "code" /\ r.at = "done"
  /\ signupStep' = "otp" /\ otp' = 0 /\ waiting' = None
  /\ requests' = requests \ {r}
  /\ UNCHANGED <<details, sentCount, codes, stores>>
StoreOpened(r) ==
  /\ Awaited(r) /\ r.kind = "store" /\ r.at = "done"
  /\ signupStep' = "in" /\ waiting' = None
  /\ requests' = requests \ {r}
  /\ UNCHANGED <<details, otp, sentCount, codes, stores>>
Refused(r) ==
  /\ Awaited(r) /\ r.at = "refused"
  /\ waiting' = None /\ requests' = requests \ {r}
  /\ UNCHANGED <<signupStep, details, otp, sentCount, codes, stores>>
AnswerLost ==
  /\ waiting # None
  /\ waiting' = None
  /\ requests' = {r \in requests : r.at \notin Answers}
  /\ UNCHANGED <<signupStep, details, otp, sentCount, codes, stores>>

Next ==
  \/ \E d \in [phone : Phones, slug : Slugs \union {Elsewhere}] : TypeDetails(d)
  \/ \E n \in 0..Len(codes) : TypeCode(n) \/ Expires(n)
  \/ EditDetails \/ HandleSendOtp \/ HandleCreateStore \/ AnswerLost
  \/ \E r \in requests :
       \/ ServerSendsCode(r) \/ ReadsCode(r) \/ SpendsCode(r) \/ ChecksStore(r)
       \/ InsertsStore(r) \/ CodeSent(r) \/ StoreOpened(r) \/ Refused(r)

Spec == Init /\ [][Next]_signupVars

-----------------------------------------------------------------------------
\* However the calls of a merchant overlap, a code opens at most one store, and only
\* one of the number it was sent to.
CodesOpenTheirStore ==
  \A s \in stores :
    /\ codes[s.code].phone = s.phone
    /\ \A o \in stores : o.code = s.code => o = s
=============================================================================
