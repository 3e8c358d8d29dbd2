------------------------------ MODULE DeskProofs ------------------------------
(***************************************************************************)
(* What MCDesk's pages and services promise, for any orders, products,     *)
(* sheets, staff, requests, codes, runners and clerks: the staff's pages   *)
(* show what the server keeps, a form writes what was agreed on it, a      *)
(* store's hours change when announced, and the services keep their word.  *)
(* Each service and each page has its own inductive invariant below; the   *)
(* last two sections join them.                                            *)
(***************************************************************************)
EXTENDS MCDesk, FiniteSetTheorems, WellFoundedInduction, TLAPS

\* The instances name the operators of the standard modules their own way.
LEMMA SameCount ==
  \A S : /\ Runner!Cardinality(S) = Cardinality(S)
         /\ Otp!Cardinality(S) = Cardinality(S)
         /\ List!Cardinality(S) = Cardinality(S)
         /\ Hours!Cardinality(S) = Cardinality(S)
BY DEF Runner!Cardinality, Otp!Cardinality, List!Cardinality, Hours!Cardinality, Cardinality

\* A set of numbers has a least one.
LEMMA LeastExists ==
  ASSUME NEW S \in SUBSET Nat, S # {}
  PROVE  Runner!First(S) \in S /\ \A k \in S : Runner!First(S) <= k
<1> DEFINE R == OpToRel(<, Nat)
<1>1. IsWellFoundedOn(R, Nat)
  BY NatLessThanWellFounded
<1>2. \A k, m \in Nat : <<k, m>> \notin R => m <= k
  BY DEF OpToRel
<1> HIDE DEF R
<1>3. PICK m \in S : \A k \in S : ~ (<<k, m>> \in R)
  BY <1>1, WFMin
<1>4. \A k \in S : m <= k
  BY <1>2, <1>3
<1> QED
  BY <1>4 DEF Runner!First, Runner!Min

\* One more at the end of a sequence.
LEMMA AppendIs ==
  ASSUME NEW S, NEW s \in Seq(S), NEW x
  PROVE  /\ Append(s, x) \in Seq(S \cup {x}) /\ Len(Append(s, x)) = Len(s) + 1 /\ Len(s) \in Nat
         /\ \A i \in 1..Len(s) : Append(s, x)[i] = s[i]
         /\ Append(s, x)[Len(s) + 1] = x
<1>1. s \in Seq(S \cup {x})
  OBVIOUS
<1> QED
  BY <1>1

-----------------------------------------------------------------------------
(* Opening a store: what a call holds, a code sent to its number, it holds   *)
(* for good, and no second store passes the indexes                          *)

SignupCodes == [phone : Phones, spent : BOOLEAN, attempts : Nat]
Forms == [phone : Phones, slug : Slugs \cup {Elsewhere}]
CallSteps == {"sent", "read", "spent", "checked", "done", "refused"}
PageCalls == [kind : {"code", "store"}, number : Nat, details : Forms, code : Nat,
              at : CallSteps]

\* cs are the codes sent, of which the call may hold one.
HoldsCode(cs, phone, n) == n \in 1..Len(cs) /\ cs[n].phone = phone
CallStands(cs, q) ==
  /\ q \in PageCalls
  /\ q.at \in {"read", "spent", "checked"} => HoldsCode(cs, q.details.phone, q.code)

SignupInv ==
  /\ details \in Forms /\ otp \in Nat /\ sentCount \in Nat
  /\ codes \in Seq(SignupCodes)
  /\ \A q \in requests : CallStands(codes, q)
  /\ \A s \in stores : HoldsCode(codes, s.phone, s.code)
  /\ \A s, t \in stores : s = t

LEMMA InitSignupInv == Signup!Init => SignupInv
<1> SUFFICES ASSUME Signup!Init PROVE SignupInv
  OBVIOUS
<1>1. /\ otp = 0 /\ sentCount = 0 /\ requests = {} /\ stores = {} /\ codes = <<>>
      /\ details = CHOOSE d \in [phone : Phones, slug : Slugs] : TRUE
  BY DEF Signup!Init
<1>2. PICK p \in Phones, a \in Slugs : TRUE
  BY ServicesAssumption
<1>3. [phone |-> p, slug |-> a] \in [phone : Phones, slug : Slugs]
  OBVIOUS
<1>4. details \in [phone : Phones, slug : Slugs]
  BY <1>1, <1>3
<1>5. details \in Forms
  BY <1>4 DEF Forms
<1>6. codes \in Seq(SignupCodes)
  BY <1>1
<1> QED
  BY <1>1, <1>5, <1>6 DEF SignupInv

\* The numbers the codes were sent to.
PhonesStand ==
  /\ codes' \in Seq(SignupCodes)
  /\ \A n \in 1..Len(codes) : n \in 1..Len(codes') /\ codes'[n].phone = codes[n].phone

LEMMA CodesUnchanged == SignupInv /\ UNCHANGED codes => PhonesStand
BY DEF SignupInv, PhonesStand

LEMMA CodeStands ==
  ASSUME SignupInv, NEW n \in 1..Len(codes), NEW c \in SignupCodes,
         codes' = [codes EXCEPT ![n] = c], c.phone = codes[n].phone
  PROVE  PhonesStand
BY DEF SignupInv, PhonesStand

LEMMA HeldStands ==
  ASSUME PhonesStand, NEW q, CallStands(codes, q)
  PROVE  CallStands(codes', q)
BY DEF PhonesStand, CallStands, HoldsCode

LEMMA SignupStands ==
  ASSUME SignupInv, PhonesStand, UNCHANGED stores,
         details' \in Forms, otp' \in Nat, sentCount' \in Nat,
         \A q \in requests' : q \in requests \/ CallStands(codes', q)
  PROVE  SignupInv'
<1>1. \A q \in requests' : CallStands(codes', q)
  BY HeldStands DEF SignupInv
<1>2. \A s \in stores' : HoldsCode(codes', s.phone, s.code)
  BY DEF SignupInv, PhonesStand, HoldsCode
<1>3. \A s, t \in stores' : s = t
  BY DEF SignupInv
<1> QED
  BY <1>1, <1>2, <1>3 DEF SignupInv, PhonesStand

LEMMA AdvanceStands ==
  ASSUME SignupInv, NEW q \in requests, NEW at \in CallSteps, Signup!Advance(q, at),
         PhonesStand,
         at \in {"read", "spent", "checked"} => HoldsCode(codes, q.details.phone, q.code)
  PROVE  \A p \in requests' : p \in requests \/ CallStands(codes', p)
<1> DEFINE n == [q EXCEPT !.at = at]
<1>1. CallStands(codes, q)
  BY DEF SignupInv
<1>2. q \in PageCalls
  BY <1>1 DEF CallStands
<1>3. n \in PageCalls /\ n.at = at /\ n.details = q.details /\ n.code = q.code
  BY <1>2 DEF PageCalls
<1>4. requests' \subseteq requests \cup {n}
  BY DEF Signup!Advance
<1> HIDE DEF n
<1>5. CallStands(codes, n)
  BY <1>3 DEF CallStands
<1> QED
  BY <1>4, <1>5, HeldStands

LEMMA NewestIs ==
  ASSUME NEW m \in Nat, NEW S \in SUBSET (1..m), S # {}
  PROVE  Signup!Newest(S) \in S
<1> DEFINE T == {m - n : n \in S}
<1>1. T \in SUBSET Nat /\ T # {}
  <2>1. ASSUME NEW n \in S PROVE m - n \in Nat
    <3>1. n \in 1..m
      OBVIOUS
    <3> QED
      BY <3>1
  <2>2. T \in SUBSET Nat
    BY <2>1
  <2> QED
    BY <2>2
<1>2. PICK l : l = Runner!First(T)
  OBVIOUS
<1>3. l \in T /\ \A k \in T : l <= k
  BY <1>1, <1>2, LeastExists
<1>4. PICK n \in S : l = m - n
  BY <1>3
<1>5. \A o \in S : o <= n
  <2> TAKE o \in S
  <2>1. l <= m - o
    BY <1>3
  <2>2. o \in Nat /\ n \in Nat
    OBVIOUS
  <2> QED
    BY <1>4, <2>1, <2>2
<1> QED
  BY <1>5 DEF Signup!Newest

\* The page.
LEMMA PageStepKeeps ==
  ASSUME SignupInv,
         \/ \E d \in Forms : Signup!TypeDetails(d)
         \/ \E n \in 0..Len(codes) : Signup!TypeCode(n)
         \/ Signup!EditDetails \/ Signup!AnswerLost
         \/ \E q \in requests : Signup!CodeSent(q) \/ Signup!StoreOpened(q) \/ Signup!Refused(q)
  PROVE  SignupInv'
<1>1. UNCHANGED <<codes, stores, sentCount>> /\ requests' \subseteq requests
  BY DEF Signup!TypeDetails, Signup!TypeCode, Signup!EditDetails, Signup!AnswerLost,
         Signup!CodeSent, Signup!StoreOpened, Signup!Refused
<1>2. details' \in Forms
  BY DEF SignupInv, Signup!TypeDetails, Signup!TypeCode, Signup!EditDetails,
         Signup!AnswerLost, Signup!CodeSent, Signup!StoreOpened, Signup!Refused
<1>3. otp' \in Nat
  <2>1. otp' = otp \/ otp' = 0 \/ otp' \in 0..Len(codes)
    BY DEF Signup!TypeDetails, Signup!TypeCode, Signup!EditDetails,
           Signup!AnswerLost, Signup!CodeSent, Signup!StoreOpened, Signup!Refused
  <2>2. otp \in Nat /\ Len(codes) \in Nat
    BY DEF SignupInv
  <2> QED
    BY <2>1, <2>2
<1>4. PhonesStand
  BY <1>1, CodesUnchanged
<1>5. sentCount' \in Nat
  BY <1>1 DEF SignupInv
<1> QED
  BY <1>1, <1>2, <1>3, <1>4, <1>5, SignupStands

LEMMA CallKeeps ==
  ASSUME SignupInv, Signup!HandleSendOtp \/ Signup!HandleCreateStore
  PROVE  SignupInv'
<1> PICK kind \in {"code", "store"} : Signup!Call(kind)
  BY DEF Signup!HandleSendOtp, Signup!HandleCreateStore
<1> DEFINE q == [kind |-> kind, number |-> sentCount', details |-> details,
                 code |-> IF kind = "store" THEN otp ELSE 0, at |-> "sent"]
<1>1. /\ requests' = requests \cup {q} /\ sentCount' = sentCount + 1
      /\ UNCHANGED <<details, otp, codes, stores>>
  BY DEF Signup!Call
<1>2. details \in Forms /\ otp \in Nat /\ sentCount \in Nat
  BY DEF SignupInv
<1>3. sentCount' \in Nat
  BY <1>1, <1>2
<1>4. q \in PageCalls /\ q.at = "sent"
  BY <1>2, <1>3 DEF PageCalls, CallSteps
<1> HIDE DEF q
<1>5. CallStands(codes', q)
  BY <1>4 DEF CallStands
<1>6. PhonesStand
  BY <1>1, CodesUnchanged
<1> QED
  BY <1>1, <1>2, <1>3, <1>5, <1>6, SignupStands

\* The server.
LEMMA ServerSendsCodeKeeps ==
  ASSUME SignupInv, NEW q \in requests, Signup!ServerSendsCode(q)
  PROVE  SignupInv'
<1>1. UNCHANGED <<details, otp, sentCount, stores>>
  BY DEF Signup!ServerSendsCode, Signup!page
<1>2. details \in Forms /\ otp \in Nat /\ sentCount \in Nat
  BY DEF SignupInv
<1>3. PhonesStand
  <2>1. CASE codes' = codes
    BY <2>1, CodesUnchanged
  <2>2. CASE codes' # codes
    <3> DEFINE c == [phone |-> q.details.phone, spent |-> FALSE, attempts |-> 0]
    <3>1. codes' = Append(codes, c)
      BY <2>2 DEF Signup!ServerSendsCode
    <3>2. q \in PageCalls
      BY DEF SignupInv, CallStands
    <3>3. q.details.phone \in Phones
      BY <3>2 DEF PageCalls, Forms
    <3>4. c \in SignupCodes
      BY <3>3 DEF SignupCodes
    <3> HIDE DEF c
    <3> QED
      BY <3>1, <3>4 DEF SignupInv, PhonesStand
  <2> QED
    BY <2>1, <2>2
<1>4. PICK at \in {"done", "refused"} : Signup!Advance(q, at)
  BY DEF Signup!ServerSendsCode
<1>5. \A p \in requests' : p \in requests \/ CallStands(codes', p)
  BY <1>3, <1>4, AdvanceStands DEF CallSteps
<1> QED
  BY <1>1, <1>2, <1>3, <1>5, SignupStands

LEMMA ExpiresKeeps ==
  ASSUME SignupInv, NEW n, Signup!Expires(n)
  PROVE  SignupInv'
<1>1. /\ UNCHANGED <<details, otp, sentCount, requests, stores>> /\ n \in DOMAIN codes
      /\ codes' = [codes EXCEPT ![n].attempts = SignupAttempts]
  BY DEF Signup!Expires, Signup!page
<1>2. n \in 1..Len(codes) /\ codes[n] \in SignupCodes
  BY <1>1 DEF SignupInv
<1> DEFINE c == [codes[n] EXCEPT !.attempts = SignupAttempts]
<1>3. c \in SignupCodes /\ c.phone = codes[n].phone
  BY <1>2, ServicesAssumption DEF SignupCodes
<1>4. codes' = [codes EXCEPT ![n] = c]
  BY <1>1, <1>2
<1> HIDE DEF c
<1>5. PhonesStand
  BY <1>2, <1>3, <1>4, CodeStands
<1> QED
  BY <1>1, <1>5, SignupStands DEF SignupInv

LEMMA ReadsCodeKeeps ==
  ASSUME SignupInv, NEW q \in requests, Signup!ReadsCode(q)
  PROVE  SignupInv'
<1> PICK S : S = Signup!Unspent(q)
  OBVIOUS
<1> PICK n : n = Signup!Newest(S)
  OBVIOUS
<1>1. UNCHANGED <<details, otp, sentCount, stores>>
  BY DEF Signup!ReadsCode, Signup!page
<1>2. details \in Forms /\ otp \in Nat /\ sentCount \in Nat
  BY DEF SignupInv
<1>3. codes \in Seq(SignupCodes) /\ DOMAIN codes = 1..Len(codes) /\ Len(codes) \in Nat
  BY DEF SignupInv
<1>4. S # {} => n \in 1..Len(codes) /\ codes[n].phone = q.details.phone
  <2>1. S \in SUBSET (1..Len(codes)) /\ \A k \in S : codes[k].phone = q.details.phone
    BY <1>3 DEF Signup!Unspent
  <2> QED
    BY <1>3, <2>1, NewestIs
<1>5. CASE UNCHANGED codes /\ Signup!Advance(q, "read") /\ S # {} /\ n = q.code
  <2>1. HoldsCode(codes, q.details.phone, q.code)
    BY <1>4, <1>5 DEF HoldsCode
  <2>2. PhonesStand
    BY <1>5, CodesUnchanged
  <2>3. \A p \in requests' : p \in requests \/ CallStands(codes', p)
    BY <1>5, <2>1, <2>2, AdvanceStands DEF CallSteps
  <2> QED
    BY <1>1, <1>2, <2>2, <2>3, SignupStands
<1>6. CASE /\ Signup!Advance(q, "refused")
           /\ UNCHANGED codes \/ (S # {} /\ codes' = [codes EXCEPT ![n].attempts = @ + 1])
  <2>1. PhonesStand
    <3>1. CASE UNCHANGED codes
      BY <3>1, CodesUnchanged
    <3>2. CASE S # {} /\ codes' = [codes EXCEPT ![n].attempts = @ + 1]
      <4>1. n \in 1..Len(codes) /\ codes[n] \in SignupCodes
        BY <1>3, <1>4, <3>2
      <4> DEFINE c == [codes[n] EXCEPT !.attempts = @ + 1]
      <4>2. c \in SignupCodes /\ c.phone = codes[n].phone
        BY <4>1 DEF SignupCodes
      <4>3. codes' = [codes EXCEPT ![n] = c]
        BY <3>2, <4>1
      <4> HIDE DEF c
      <4> QED
        BY <4>1, <4>2, <4>3, CodeStands
    <3> QED
      BY <1>6, <3>1, <3>2
  <2>2. \A p \in requests' : p \in requests \/ CallStands(codes', p)
    BY <1>6, <2>1, AdvanceStands DEF CallSteps
  <2> QED
    BY <1>1, <1>2, <2>1, <2>2, SignupStands
<1> QED
  BY <1>5, <1>6 DEF Signup!ReadsCode, Signup!Usable

LEMMA SpendsCodeKeeps ==
  ASSUME SignupInv, NEW q \in requests, Signup!SpendsCode(q)
  PROVE  SignupInv'
<1> PICK n : n = q.code
  OBVIOUS
<1>1. /\ UNCHANGED <<details, otp, sentCount, stores>> /\ q.at = "read"
      /\ codes' = [codes EXCEPT ![n].spent = TRUE] /\ Signup!Advance(q, "spent")
  BY DEF Signup!SpendsCode, Signup!page
<1>2. details \in Forms /\ otp \in Nat /\ sentCount \in Nat
  BY DEF SignupInv
<1>3. HoldsCode(codes, q.details.phone, q.code)
  BY <1>1 DEF SignupInv, CallStands
<1>4. n \in 1..Len(codes) /\ codes[n] \in SignupCodes
  BY <1>3 DEF SignupInv, HoldsCode
<1> DEFINE c == [codes[n] EXCEPT !.spent = TRUE]
<1>5. c \in SignupCodes /\ c.phone = codes[n].phone
  BY <1>4 DEF SignupCodes
<1>6. codes' = [codes EXCEPT ![n] = c]
  BY <1>1, <1>4
<1> HIDE DEF c
<1>7. PhonesStand
  BY <1>4, <1>5, <1>6, CodeStands
<1>8. \A p \in requests' : p \in requests \/ CallStands(codes', p)
  BY <1>1, <1>3, <1>7, AdvanceStands DEF CallSteps
<1> QED
  BY <1>1, <1>2, <1>7, <1>8, SignupStands

LEMMA ChecksStoreKeeps ==
  ASSUME SignupInv, NEW q \in requests, Signup!ChecksStore(q)
  PROVE  SignupInv'
<1> PICK at \in {"refused", "checked"} : Signup!Advance(q, at)
  BY DEF Signup!ChecksStore
<1>1. UNCHANGED <<details, otp, sentCount, codes, stores>> /\ q.at = "spent"
  BY DEF Signup!ChecksStore, Signup!page
<1>2. PhonesStand
  BY <1>1, CodesUnchanged
<1>3. HoldsCode(codes, q.details.phone, q.code)
  BY <1>1 DEF SignupInv, CallStands
<1>4. \A p \in requests' : p \in requests \/ CallStands(codes', p)
  BY <1>2, <1>3, AdvanceStands DEF CallSteps
<1> QED
  BY <1>1, <1>2, <1>4, SignupStands DEF SignupInv

\* The indexes let a store in only as the first.
LEMMA InsertsStoreKeeps ==
  ASSUME SignupInv, NEW q \in requests, Signup!InsertsStore(q)
  PROVE  SignupInv'
<1> PICK at \in {"refused", "done"} : Signup!Advance(q, at)
  BY DEF Signup!InsertsStore
<1>1. UNCHANGED <<details, otp, sentCount, codes>> /\ q.at = "checked"
  BY DEF Signup!InsertsStore, Signup!page
<1>2. PhonesStand
  BY <1>1, CodesUnchanged
<1>3. \A p \in requests' : p \in requests \/ CallStands(codes', p)
  BY <1>2, AdvanceStands DEF CallSteps
<1>4. CASE stores' = stores
  BY <1>1, <1>2, <1>3, <1>4, SignupStands DEF SignupInv
<1>5. CASE stores' # stores
  <2> DEFINE s == [slug |-> q.details.slug, phone |-> q.details.phone, code |-> q.code]
  <2>1. stores = {} /\ stores' = stores \cup {s}
    BY <1>5 DEF Signup!InsertsStore, Signup!Indexed, Signup!EmailUsed
  <2>2. HoldsCode(codes, s.phone, s.code)
    BY <1>1 DEF SignupInv, CallStands
  <2> HIDE DEF s
  <2>3. stores' = {s}
    BY <2>1
  <2>4. \A p \in requests' : CallStands(codes', p)
    BY <1>2, <1>3, HeldStands DEF SignupInv
  <2>5. \A t \in stores' : HoldsCode(codes', t.phone, t.code)
    BY <1>1, <2>2, <2>3
  <2>6. \A t, u \in stores' : t = u
    BY <2>3
  <2> QED
    BY <1>1, <2>4, <2>5, <2>6 DEF SignupInv
<1> QED
  BY <1>4, <1>5

LEMMA NextSignupInv == SignupInv /\ [Signup!Next]_signupVars => SignupInv'
<1> SUFFICES ASSUME SignupInv, [Signup!Next]_signupVars PROVE SignupInv'
  OBVIOUS
<1>1. CASE \/ \E d \in Forms : Signup!TypeDetails(d)
           \/ \E n \in 0..Len(codes) : Signup!TypeCode(n)
           \/ Signup!EditDetails \/ Signup!AnswerLost
           \/ \E q \in requests : Signup!CodeSent(q) \/ Signup!StoreOpened(q) \/ Signup!Refused(q)
  BY <1>1, PageStepKeeps
<1>2. CASE Signup!HandleSendOtp \/ Signup!HandleCreateStore
  BY <1>2, CallKeeps
<1>3. CASE \E n \in 0..Len(codes) : Signup!Expires(n)
  BY <1>3, ExpiresKeeps
<1>4. CASE \E q \in requests :
             \/ Signup!ServerSendsCode(q) \/ Signup!ReadsCode(q) \/ Signup!SpendsCode(q)
             \/ Signup!ChecksStore(q) \/ Signup!InsertsStore(q)
  BY <1>4, ServerSendsCodeKeeps, ReadsCodeKeeps, SpendsCodeKeeps, ChecksStoreKeeps,
     InsertsStoreKeeps
<1>5. CASE UNCHANGED signupVars
  BY <1>5 DEF signupVars, SignupInv
<1> QED
  BY <1>1, <1>2, <1>3, <1>4, <1>5 DEF Signup!Next, Forms

LEMMA SignupHolds == SignupInv => Signup!CodesOpenTheirStore
BY DEF SignupInv, HoldsCode, Signup!CodesOpenTheirStore
-----------------------------------------------------------------------------
(* The sign-in codes: a wrong code is compared before it is counted, and as  *)
(* many may be between the two as there are requests                         *)

OtpSteps == {"idle", "read last", "insert", "whatsapp", "count", "consume", "look up",
             "create", "look again"}
WithCode == {"whatsapp", "count", "consume", "look up", "create", "look again"}
Jobs == [at : OtpSteps, code : (Nat \ {0}) \cup {None}]
OtpCodes == [age : Nat, attempts : Nat, consumed : BOOLEAN, kept : BOOLEAN]
OtpTypes ==
  /\ otpCodes \in Seq(OtpCodes)
  /\ opened \in Seq(Nat) /\ Len(opened) = Len(otpCodes)
  /\ guesses \in Seq(Nat) /\ Len(guesses) = Len(otpCodes)
  /\ job \in [Checkers -> Jobs]
  /\ \A r \in Checkers : job[r].at \in WithCode => job[r].code \in 1..Len(otpCodes)

Counting(i) == {r \in Checkers : job[r].at = "count" /\ job[r].code = i}
GuessesCounted ==
  \A i \in 1..Len(otpCodes) :
    /\ opened[i] = IF otpCodes[i].consumed THEN 1 ELSE 0
    /\ guesses[i] <= otpCodes[i].attempts + Cardinality(Counting(i))
    /\ guesses[i] < OtpAttempts + Cardinality(Checkers)

\* There is one account to sign in to, made when there was none.
OneCustomer ==
  /\ customers \in SUBSET Nat /\ \A c, d \in customers : c = d
  /\ landed \subseteq customers
  /\ \A r \in Checkers : job[r].at \in {"create", "look again"} => 0 \notin customers

OtpInv == OtpTypes /\ GuessesCounted /\ OneCustomer

LEMMA CountingCount ==
  ASSUME NEW i
  PROVE  /\ IsFiniteSet(Counting(i)) /\ Cardinality(Counting(i)) \in Nat
         /\ Cardinality(Counting(i)) <= Cardinality(Checkers) /\ Cardinality(Checkers) \in Nat
<1>1. Counting(i) \subseteq Checkers /\ IsFiniteSet(Checkers)
  BY ServicesAssumption DEF Counting
<1> QED
  BY <1>1, FS_Subset, FS_CardinalityType

LEMMA InitOtpInv == Otp!Init => OtpInv
<1> SUFFICES ASSUME Otp!Init PROVE OtpInv
  OBVIOUS
<1>1. /\ otpCodes = <<>> /\ opened = <<>> /\ guesses = <<>>
      /\ job = [r \in Checkers |-> [at |-> "idle", code |-> None]]
      /\ customers \in {{}, {0}} /\ landed = {}
  BY DEF Otp!Init, Otp!Idle
<1>2. /\ job \in [Checkers -> Jobs] /\ \A r \in Checkers : job[r].at = "idle"
  BY <1>1 DEF Jobs, OtpSteps
<1>3. OtpTypes
  <2>1. /\ otpCodes \in Seq(OtpCodes) /\ opened \in Seq(Nat) /\ guesses \in Seq(Nat)
        /\ Len(otpCodes) = 0 /\ Len(opened) = 0 /\ Len(guesses) = 0
    BY <1>1
  <2>2. \A r \in Checkers : job[r].at \notin WithCode
    BY <1>2 DEF WithCode
  <2> QED
    BY <1>2, <2>1, <2>2 DEF OtpTypes
<1>4. GuessesCounted
  BY <1>1 DEF GuessesCounted
<1>5. OneCustomer
  <2>1. customers \in SUBSET Nat /\ \A c, d \in customers : c = d
    BY <1>1
  <2> QED
    BY <1>1, <1>2, <2>1 DEF OneCustomer
<1> QED
  BY <1>3, <1>4, <1>5 DEF OtpInv

LEMMA JobMoves ==
  ASSUME OtpTypes, NEW r \in Checkers, NEW at \in OtpSteps,
         NEW code \in (Nat \ {0}) \cup {None},
         job' = [job EXCEPT ![r] = [at |-> at, code |-> code]]
  PROVE  /\ job' \in [Checkers -> Jobs] /\ job'[r].at = at /\ job'[r].code = code
         /\ \A q \in Checkers : q # r => job'[q] = job[q]
BY DEF OtpTypes, Jobs

LEMMA JobGoes ==
  ASSUME OtpTypes, NEW r \in Checkers, NEW at \in OtpSteps,
         NEW code \in (Nat \ {0}) \cup {None},
         Otp!Goes(r, at, code)
  PROVE  /\ job' \in [Checkers -> Jobs] /\ job'[r].at = at /\ job'[r].code = code
         /\ \A q \in Checkers : q # r => job'[q] = job[q]
BY JobMoves DEF Otp!Goes

LEMMA JobEnds ==
  ASSUME OtpTypes, NEW r \in Checkers, Otp!Refuse(r)
  PROVE  /\ job' \in [Checkers -> Jobs] /\ job'[r].at = "idle" /\ job'[r].code = None
         /\ \A q \in Checkers : q # r => job'[q] = job[q]
BY JobMoves DEF Otp!Refuse, Otp!Idle, OtpSteps

\* Codes that change only their age, or are removed.
SameTries ==
  /\ otpCodes' \in Seq(OtpCodes) /\ Len(otpCodes') = Len(otpCodes)
  /\ \A i \in 1..Len(otpCodes) :
       /\ otpCodes'[i].consumed = otpCodes[i].consumed
       /\ otpCodes'[i].attempts = otpCodes[i].attempts

LEMMA CodeChanges ==
  ASSUME OtpTypes, NEW i \in 1..Len(otpCodes), NEW c \in OtpCodes,
         otpCodes' = [otpCodes EXCEPT ![i] = c]
  PROVE  /\ otpCodes' \in Seq(OtpCodes) /\ Len(otpCodes') = Len(otpCodes)
         /\ otpCodes'[i] = c
         /\ \A j \in 1..Len(otpCodes) : j # i => otpCodes'[j] = otpCodes[j]
BY DEF OtpTypes

LEMMA TriesStand ==
  ASSUME OtpInv, SameTries, UNCHANGED <<opened, guesses>>,
         \A q \in Checkers : (job'[q].at = "count" <=> job[q].at = "count")
                             /\ (job[q].at = "count" => job'[q] = job[q])
  PROVE  GuessesCounted'
<1>1. \A i : Counting(i)' = Counting(i)
  BY DEF Counting
<1> QED
  BY <1>1 DEF OtpInv, GuessesCounted, SameTries

LEMMA SendKeeps ==
  ASSUME OtpInv, NEW r \in Checkers, Otp!CountSends(r) \/ Otp!ReadLast(r) \/ Otp!Sent(r)
  PROVE  OtpInv'
<1>1. /\ UNCHANGED <<opened, guesses, customers, landed>>
      /\ job[r].at \in {"idle", "read last", "whatsapp"}
  BY DEF Otp!CountSends, Otp!ReadLast, Otp!Sent, Otp!Accounts
<1>2. /\ job' \in [Checkers -> Jobs] /\ job'[r].at \in {"idle", "read last", "insert"}
      /\ \A q \in Checkers : q # r => job'[q] = job[q]
  <2>1. CASE Otp!CountSends(r)
    BY <2>1, JobGoes DEF OtpInv, Otp!CountSends, OtpSteps
  <2>2. CASE Otp!ReadLast(r)
    BY <2>2, JobGoes, JobEnds DEF OtpInv, Otp!ReadLast, OtpSteps
  <2>3. CASE Otp!Sent(r)
    BY <2>3, JobEnds DEF OtpInv, Otp!Sent
  <2> QED
    BY <2>1, <2>2, <2>3
<1>3. SameTries
  <2>1. CASE otpCodes' = otpCodes
    BY <2>1 DEF SameTries, OtpInv, OtpTypes
  <2>2. CASE otpCodes' # otpCodes
    <3> DEFINE i == job[r].code
               c == [otpCodes[i] EXCEPT !.kept = FALSE]
    <3>1. job[r].at = "whatsapp" /\ otpCodes' = [otpCodes EXCEPT ![i].kept = FALSE]
      BY <2>2 DEF Otp!CountSends, Otp!ReadLast, Otp!Sent
    <3>2. i \in 1..Len(otpCodes)
      BY <3>1 DEF OtpInv, OtpTypes, WithCode
    <3> HIDE DEF i
    <3>3. otpCodes[i] \in OtpCodes /\ otpCodes' = [otpCodes EXCEPT ![i] = c]
      BY <3>1, <3>2 DEF OtpInv, OtpTypes
    <3>4. /\ c \in OtpCodes /\ c.consumed = otpCodes[i].consumed
          /\ c.attempts = otpCodes[i].attempts
      BY <3>3 DEF OtpCodes
    <3> HIDE DEF c
    <3> QED
      BY <3>2, <3>3, <3>4, CodeChanges DEF SameTries, OtpInv
  <2> QED
    BY <2>1, <2>2
<1>4. OtpTypes'
  BY <1>1, <1>2, <1>3 DEF OtpInv, OtpTypes, SameTries, WithCode
<1>5. GuessesCounted'
  BY <1>1, <1>2, <1>3, TriesStand
<1>6. OneCustomer'
  BY <1>1, <1>2 DEF OtpInv, OneCustomer
<1> QED
  BY <1>4, <1>5, <1>6 DEF OtpInv

LEMMA InsertCodeKeeps ==
  ASSUME OtpInv, NEW r \in Checkers, Otp!InsertCode(r)
  PROVE  OtpInv'
<1> DEFINE n == Len(otpCodes) + 1
<1>1. /\ otpCodes' = Append(otpCodes, Otp!Code) /\ job[r].at = "insert"
      /\ opened' = Append(opened, 0) /\ guesses' = Append(guesses, 0)
      /\ UNCHANGED <<customers, landed>>
  BY DEF Otp!InsertCode, Otp!Accounts
<1>2. Otp!Code \in OtpCodes /\ Otp!Code.attempts = 0 /\ ~Otp!Code.consumed
  BY DEF Otp!Code, Otp!Fresh, OtpCodes
<1>3. /\ otpCodes' \in Seq(OtpCodes) /\ Len(otpCodes') = n /\ n \in Nat \ {0}
      /\ opened' \in Seq(Nat) /\ Len(opened') = n /\ guesses' \in Seq(Nat) /\ Len(guesses') = n
      /\ otpCodes'[n] = Otp!Code /\ opened'[n] = 0 /\ guesses'[n] = 0
      /\ \A i \in 1..Len(otpCodes) :
           otpCodes'[i] = otpCodes[i] /\ opened'[i] = opened[i] /\ guesses'[i] = guesses[i]
  BY <1>1, <1>2 DEF OtpInv, OtpTypes
<1>4. Otp!Goes(r, "whatsapp", n)
  BY <1>3 DEF Otp!InsertCode
<1>5. /\ job' \in [Checkers -> Jobs] /\ job'[r].at = "whatsapp" /\ job'[r].code = n
      /\ \A q \in Checkers : q # r => job'[q] = job[q]
  BY <1>3, <1>4, JobGoes DEF OtpInv, OtpSteps
<1>6. Len(otpCodes) \in Nat /\ n = Len(otpCodes) + 1
  BY DEF OtpInv, OtpTypes
<1> HIDE DEF n
<1>7. OtpTypes'
  <2>1. \A q \in Checkers : job'[q].at \in WithCode => job'[q].code \in 1..n
    BY <1>5, <1>6 DEF OtpInv, OtpTypes
  <2> QED
    BY <1>3, <1>5, <2>1 DEF OtpTypes
<1>8. GuessesCounted'
  <2>1. \A i : Counting(i)' = Counting(i)
    BY <1>1, <1>5 DEF Counting
  <2>2. \A i \in 1..Len(otpCodes') : i \in 1..Len(otpCodes) \/ i = n
    BY <1>3, <1>6
  <2>3. /\ Cardinality(Counting(n)) \in Nat /\ Cardinality(Checkers) \in Nat
        /\ OtpAttempts \in Nat \ {0}
    BY CountingCount, ServicesAssumption
  <2>4. /\ opened'[n] = IF otpCodes'[n].consumed THEN 1 ELSE 0
        /\ guesses'[n] <= otpCodes'[n].attempts + Cardinality(Counting(n))
        /\ guesses'[n] < OtpAttempts + Cardinality(Checkers)
    BY <1>2, <1>3, <2>3
  <2>5. ASSUME NEW i \in 1..Len(otpCodes')
        PROVE  /\ opened'[i] = IF otpCodes'[i].consumed THEN 1 ELSE 0
               /\ guesses'[i] <= otpCodes'[i].attempts + Cardinality(Counting(i))
               /\ guesses'[i] < OtpAttempts + Cardinality(Checkers)
    BY <1>3, <2>2, <2>4 DEF OtpInv, GuessesCounted
  <2> QED
    BY <2>1, <2>5 DEF GuessesCounted
<1>9. OneCustomer'
  BY <1>1, <1>5 DEF OtpInv, OneCustomer
<1> QED
  BY <1>7, <1>8, <1>9 DEF OtpInv

\* Arithmetic of the limit: one who counts below it stays below it and the checkers.
LEMMA BelowTheSum ==
  ASSUME NEW g \in Nat, NEW a \in Nat, NEW limit \in Nat, NEW c \in Nat, NEW all \in Nat,
         a < limit, g <= a + c, c <= all
  PROVE  g < limit + all
OBVIOUS

\* The newest unspent code is read and compared with the one typed.
LEMMA ReadCodeKeeps ==
  ASSUME OtpInv, NEW r \in Checkers, Otp!ReadCode(r)
  PROVE  OtpInv'
<1> PICK i \in Otp!Kept, typed \in (1..Len(otpCodes)) \cup {None} :
      /\ otpCodes[i].attempts < OtpAttempts
      /\ Otp!Goes(r, IF typed = i THEN "consume" ELSE "count", i)
      /\ guesses' = IF typed = i THEN guesses ELSE [guesses EXCEPT ![i] = @ + 1]
  BY DEF Otp!ReadCode
<1>1. job[r].at = "idle" /\ UNCHANGED <<otpCodes, opened, customers, landed>>
  BY DEF Otp!ReadCode, Otp!Accounts
<1>2. i \in 1..Len(otpCodes) /\ i \in Nat \ {0}
  BY DEF Otp!Kept
<1>3. PICK at : at = IF typed = i THEN "consume" ELSE "count"
  OBVIOUS
<1>4. /\ job' \in [Checkers -> Jobs] /\ job'[r].at = at /\ job'[r].code = i
      /\ \A q \in Checkers : q # r => job'[q] = job[q]
  BY <1>2, <1>3, JobGoes DEF OtpInv, OtpSteps
<1>5. OtpTypes'
  <2>1. guesses' \in Seq(Nat) /\ Len(guesses') = Len(guesses)
    BY <1>2 DEF OtpInv, OtpTypes
  <2>2. \A q \in Checkers : job'[q].at \in WithCode => job'[q].code \in 1..Len(otpCodes)
    BY <1>2, <1>4 DEF OtpInv, OtpTypes
  <2> QED
    BY <1>1, <1>4, <2>1, <2>2 DEF OtpInv, OtpTypes
<1>6. OneCustomer'
  BY <1>1, <1>3, <1>4 DEF OtpInv, OneCustomer
<1>7. CASE typed = i
  BY <1>1, <1>3, <1>4, <1>5, <1>6, <1>7, TriesStand DEF OtpInv, OtpTypes, SameTries
<1>8. CASE typed # i
  <2>1. Counting(i)' = Counting(i) \cup {r} /\ r \notin Counting(i)
    BY <1>1, <1>3, <1>4, <1>8 DEF Counting
  <2>2. Cardinality(Counting(i)') = Cardinality(Counting(i)) + 1
    BY <2>1, CountingCount, FS_AddElement
  <2>3. \A j \in 1..Len(otpCodes) : j # i => Counting(j)' = Counting(j)
    BY <1>1, <1>3, <1>4, <1>8 DEF Counting
  <2>4. /\ guesses'[i] = guesses[i] + 1 /\ guesses[i] \in Nat /\ otpCodes[i].attempts \in Nat
        /\ \A j \in 1..Len(otpCodes) : j # i => guesses'[j] = guesses[j]
    <3>1. guesses' = [guesses EXCEPT ![i] = guesses[i] + 1]
      BY <1>8
    <3>2. /\ guesses \in Seq(Nat) /\ Len(guesses) = Len(otpCodes) /\ Len(otpCodes) \in Nat
          /\ otpCodes[i] \in OtpCodes
      BY <1>2 DEF OtpInv, OtpTypes
    <3>3. otpCodes[i].attempts \in Nat
      BY <3>2 DEF OtpCodes
    <3>4. guesses[i] \in Nat /\ DOMAIN guesses = 1..Len(otpCodes)
      BY <1>2, <3>2
    <3> QED
      BY <1>2, <3>1, <3>3, <3>4
  <2>5. guesses[i] <= otpCodes[i].attempts + Cardinality(Counting(i))
    BY <1>2 DEF OtpInv, GuessesCounted
  <2>6. guesses'[i] <= otpCodes[i].attempts + Cardinality(Counting(i)')
    BY <2>2, <2>4, <2>5, CountingCount
  <2>7. Cardinality(Counting(i)') <= Cardinality(Checkers)
        /\ Cardinality(Counting(i)') \in Nat /\ Cardinality(Checkers) \in Nat
    <3>1. Counting(i)' \subseteq Checkers /\ IsFiniteSet(Checkers)
      BY ServicesAssumption DEF Counting
    <3> QED
      BY <3>1, FS_Subset, FS_CardinalityType
  <2>8. guesses'[i] < OtpAttempts + Cardinality(Checkers)
    <3>1. guesses'[i] \in Nat /\ otpCodes[i].attempts \in Nat
      BY <2>4
    <3>2. OtpAttempts \in Nat /\ otpCodes[i].attempts < OtpAttempts
      BY ServicesAssumption
    <3> QED
      BY <2>6, <2>7, <3>1, <3>2, BelowTheSum
  <2>9. ASSUME NEW j \in 1..Len(otpCodes)
        PROVE  /\ opened[j] = IF otpCodes[j].consumed THEN 1 ELSE 0
               /\ guesses'[j] <= otpCodes[j].attempts + Cardinality(Counting(j)')
               /\ guesses'[j] < OtpAttempts + Cardinality(Checkers)
    <3>1. CASE j = i
      BY <2>6, <2>8, <3>1 DEF OtpInv, GuessesCounted
    <3>2. CASE j # i
      BY <2>3, <2>4, <3>2 DEF OtpInv, GuessesCounted
    <3> QED
      BY <3>1, <3>2
  <2>10. GuessesCounted'
    BY <1>1, <2>9 DEF GuessesCounted
  <2> QED
    BY <1>5, <1>6, <2>10 DEF OtpInv
<1> QED
  BY <1>7, <1>8

LEMMA CountAttemptKeeps ==
  ASSUME OtpInv, NEW r \in Checkers, Otp!CountAttempt(r)
  PROVE  OtpInv'
<1> PICK i : i = job[r].code
  OBVIOUS
<1> DEFINE c == [otpCodes[i] EXCEPT !.attempts = @ + 1]
<1>1. /\ job[r].at = "count" /\ UNCHANGED <<opened, guesses, customers, landed>>
      /\ otpCodes' = [otpCodes EXCEPT ![i].attempts = @ + 1]
  BY DEF Otp!CountAttempt, Otp!Accounts
<1>2. /\ job' \in [Checkers -> Jobs] /\ job'[r].at = "idle"
      /\ \A q \in Checkers : q # r => job'[q] = job[q]
  BY JobEnds DEF OtpInv, Otp!CountAttempt
<1>3. i \in 1..Len(otpCodes)
  BY <1>1 DEF OtpInv, OtpTypes, WithCode
<1>4. otpCodes[i] \in OtpCodes /\ otpCodes' = [otpCodes EXCEPT ![i] = c]
  BY <1>1, <1>3 DEF OtpInv, OtpTypes
<1>5. /\ c \in OtpCodes /\ c.consumed = otpCodes[i].consumed
      /\ c.attempts = otpCodes[i].attempts + 1 /\ otpCodes[i].attempts \in Nat
  BY <1>4 DEF OtpCodes
<1> HIDE DEF c
<1>6. /\ otpCodes' \in Seq(OtpCodes) /\ Len(otpCodes') = Len(otpCodes)
      /\ otpCodes'[i] = c
      /\ \A j \in 1..Len(otpCodes) : j # i => otpCodes'[j] = otpCodes[j]
  BY <1>3, <1>4, <1>5, CodeChanges DEF OtpInv
<1>7. OtpTypes'
  BY <1>1, <1>2, <1>6 DEF OtpInv, OtpTypes, WithCode
<1>8. GuessesCounted'
  <2>1. Counting(i)' = Counting(i) \ {r} /\ r \in Counting(i)
    BY <1>1, <1>2 DEF Counting
  <2>2. /\ Cardinality(Counting(i)') = Cardinality(Counting(i)) - 1
        /\ Cardinality(Counting(i)) \in Nat
    BY SMTT(30), <2>1, CountingCount, FS_RemoveElement
  <2>3. \A j \in 1..Len(otpCodes) : j # i => Counting(j)' = Counting(j)
    BY <1>1, <1>2 DEF Counting
  <2>4. /\ guesses[i] \in Nat /\ guesses[i] < OtpAttempts + Cardinality(Checkers)
        /\ guesses[i] <= otpCodes[i].attempts + Cardinality(Counting(i))
        /\ opened[i] = IF otpCodes[i].consumed THEN 1 ELSE 0
    BY <1>3 DEF OtpInv, GuessesCounted, OtpTypes
  <2>5. guesses[i] <= c.attempts + Cardinality(Counting(i)')
    BY <1>5, <2>2, <2>4
  <2>6. ASSUME NEW j \in 1..Len(otpCodes)
        PROVE  /\ opened[j] = IF otpCodes'[j].consumed THEN 1 ELSE 0
               /\ guesses[j] <= otpCodes'[j].attempts + Cardinality(Counting(j)')
               /\ guesses[j] < OtpAttempts + Cardinality(Checkers)
    <3>1. CASE j = i
      BY <1>5, <1>6, <2>4, <2>5, <3>1
    <3>2. CASE j # i
      BY <1>6, <2>3, <3>2 DEF OtpInv, GuessesCounted
    <3> QED
      BY <3>1, <3>2
  <2> QED
    BY <1>1, <1>6, <2>6 DEF GuessesCounted
<1>9. OneCustomer'
  BY <1>1, <1>2 DEF OtpInv, OneCustomer
<1> QED
  BY <1>7, <1>8, <1>9 DEF OtpInv

\* A code is spent by the update that finds it unspent.
LEMMA ConsumeKeeps ==
  ASSUME OtpInv, NEW r \in Checkers, Otp!Consume(r)
  PROVE  OtpInv'
<1> PICK i : i = job[r].code
  OBVIOUS
<1>1. job[r].at = "consume" /\ UNCHANGED <<guesses, customers, landed>>
  BY DEF Otp!Consume, Otp!Accounts
<1>2. i \in 1..Len(otpCodes) /\ i \in Nat \ {0}
  <2>1. i \in 1..Len(otpCodes)
    BY <1>1 DEF OtpInv, OtpTypes, WithCode
  <2>2. Len(otpCodes) \in Nat
    BY DEF OtpInv, OtpTypes
  <2> QED
    BY <2>1, <2>2
<1>3. CASE otpCodes[i].consumed \/ ~otpCodes[i].kept
  <2>1. Otp!Refuse(r) /\ UNCHANGED <<otpCodes, opened>>
    BY <1>3 DEF Otp!Consume
  <2>2. /\ job' \in [Checkers -> Jobs] /\ job'[r].at = "idle"
        /\ \A q \in Checkers : q # r => job'[q] = job[q]
    BY <2>1, JobEnds DEF OtpInv
  <2>3. OtpTypes'
    BY <1>1, <2>1, <2>2 DEF OtpInv, OtpTypes, WithCode
  <2>4. GuessesCounted'
    BY <1>1, <2>1, <2>2, TriesStand DEF SameTries, OtpInv, OtpTypes
  <2>5. OneCustomer'
    BY <1>1, <2>2 DEF OtpInv, OneCustomer
  <2> QED
    BY <2>3, <2>4, <2>5 DEF OtpInv
<1>4. CASE ~otpCodes[i].consumed /\ otpCodes[i].kept
  <2> DEFINE c == [otpCodes[i] EXCEPT !.consumed = TRUE]
  <2>1. /\ otpCodes' = [otpCodes EXCEPT ![i].consumed = TRUE]
        /\ opened' = [opened EXCEPT ![i] = @ + 1] /\ Otp!Goes(r, "look up", i)
    BY <1>4 DEF Otp!Consume
  <2>2. /\ job' \in [Checkers -> Jobs] /\ job'[r].at = "look up" /\ job'[r].code = i
        /\ \A q \in Checkers : q # r => job'[q] = job[q]
    BY <1>2, <2>1, JobGoes DEF OtpInv, OtpSteps
  <2>3. otpCodes[i] \in OtpCodes /\ otpCodes' = [otpCodes EXCEPT ![i] = c]
    <3>1. otpCodes[i] \in OtpCodes
      BY <1>2 DEF OtpInv, OtpTypes
    <3> QED
      BY <2>1, <3>1
  <2>4. c \in OtpCodes /\ c.consumed /\ c.attempts = otpCodes[i].attempts
    BY <2>3 DEF OtpCodes
  <2> HIDE DEF c
  <2>5. /\ otpCodes' \in Seq(OtpCodes) /\ Len(otpCodes') = Len(otpCodes)
        /\ otpCodes'[i] = c
        /\ \A j \in 1..Len(otpCodes) : j # i => otpCodes'[j] = otpCodes[j]
    BY <1>2, <2>3, <2>4, CodeChanges DEF OtpInv
  <2>6. opened[i] = 0
    BY <1>2, <1>4 DEF OtpInv, GuessesCounted
  <2>7. /\ opened' \in Seq(Nat) /\ Len(opened') = Len(opened) /\ opened'[i] = 1
        /\ \A j \in 1..Len(otpCodes) : j # i => opened'[j] = opened[j]
    <3>1. PICK n : n = opened[i] + 1
      OBVIOUS
    <3>3. opened' = [opened EXCEPT ![i] = n]
      BY <2>1, <3>1
    <3>4. n = 1
      BY <2>6, <3>1
    <3>2. opened \in Seq(Nat) /\ Len(opened) = Len(otpCodes) /\ DOMAIN opened = 1..Len(otpCodes)
      BY DEF OtpInv, OtpTypes
    <3> QED
      BY <1>2, <3>2, <3>3, <3>4
  <2>8. OtpTypes'
    <3>1. \A q \in Checkers : job'[q].at \in WithCode => job'[q].code \in 1..Len(otpCodes)
      BY <1>2, <2>2 DEF OtpInv, OtpTypes
    <3> QED
      BY <1>1, <2>2, <2>5, <2>7, <3>1 DEF OtpInv, OtpTypes
  <2>9. GuessesCounted'
    <3>1. \A j : Counting(j)' = Counting(j)
      BY <1>1, <2>2 DEF Counting
    <3>2. ASSUME NEW j \in 1..Len(otpCodes)
          PROVE  /\ opened'[j] = IF otpCodes'[j].consumed THEN 1 ELSE 0
                 /\ guesses[j] <= otpCodes'[j].attempts + Cardinality(Counting(j))
                 /\ guesses[j] < OtpAttempts + Cardinality(Checkers)
      <4>1. CASE j = i
        BY <2>4, <2>5, <2>7, <4>1 DEF OtpInv, GuessesCounted
      <4>2. CASE j # i
        BY <2>5, <2>7, <4>2 DEF OtpInv, GuessesCounted
      <4> QED
        BY <4>1, <4>2
    <3> QED
      BY <1>1, <2>5, <3>1, <3>2 DEF GuessesCounted
  <2>10. OneCustomer'
    BY <1>1, <2>2 DEF OtpInv, OneCustomer
  <2> QED
    BY <2>8, <2>9, <2>10 DEF OtpInv
<1> QED
  BY <1>3, <1>4

\* The account that is found, or made, is the only one.
LEMMA SignInLands ==
  ASSUME OtpInv, NEW r \in Checkers, NEW c, Otp!SignIn(r, c)
  PROVE  /\ job' \in [Checkers -> Jobs] /\ job'[r].at = "idle"
         /\ \A q \in Checkers : q # r => job'[q] = job[q]
         /\ landed' \in {landed, landed \cup {c}}
BY JobEnds DEF Otp!SignIn, OtpInv

LEMMA AccountKeeps ==
  ASSUME OtpInv, NEW r \in Checkers, Otp!LookUp(r) \/ Otp!Create(r) \/ Otp!LookAgain(r)
  PROVE  OtpInv'
<1>1. /\ UNCHANGED <<otpCodes, opened, guesses>>
      /\ job[r].at \in {"look up", "create", "look again"}
  BY DEF Otp!LookUp, Otp!Create, Otp!LookAgain
<1>2. job[r].code \in 1..Len(otpCodes) /\ job[r].code \in Nat \ {0}
  <2>1. job[r].code \in 1..Len(otpCodes)
    BY <1>1 DEF OtpInv, OtpTypes, WithCode
  <2>2. Len(otpCodes) \in Nat
    BY DEF OtpInv, OtpTypes
  <2> QED
    BY <2>1, <2>2
<1>3. /\ job' \in [Checkers -> Jobs] /\ job'[r].at \in {"idle", "create", "look again"}
      /\ (job'[r].at # "idle" => job'[r].code = job[r].code /\ 0 \notin customers')
      /\ \A q \in Checkers : q # r => job'[q] = job[q]
      /\ \/ customers' = customers
         \/ customers = {} /\ customers' = {job[r].code}
      /\ landed' \subseteq customers'
  <2>1. CASE Otp!LookUp(r)
    <3>1. CASE customers = {}
      BY <1>2, <2>1, <3>1, JobGoes DEF Otp!LookUp, OtpInv, OtpSteps, OneCustomer
    <3>2. CASE customers # {}
      <4>1. PICK c \in customers : Otp!SignIn(r, c)
        BY <2>1, <3>2 DEF Otp!LookUp
      <4>2. customers' = customers /\ landed \subseteq customers
        BY <2>1 DEF Otp!LookUp, OtpInv, OneCustomer
      <4>3. landed' \subseteq customers'
        BY <4>1, <4>2, SignInLands
      <4> QED
        BY <4>1, <4>2, <4>3, SignInLands
    <3> QED
      BY <3>1, <3>2
  <2>2. CASE Otp!Create(r)
    <3>1. 0 \notin customers
      BY <2>2 DEF Otp!Create, OtpInv, OneCustomer
    <3>2. CASE staffs \/ customers \ {0} # {}
      <4>1. /\ Otp!Goes(r, "look again", job[r].code) /\ landed' = landed
            /\ customers' = customers /\ landed \subseteq customers
        BY <2>2, <3>2 DEF Otp!Create, OtpInv, OneCustomer
      <4>2. OtpTypes /\ "look again" \in OtpSteps
        BY DEF OtpInv, OtpSteps
      <4> QED
        BY <1>2, <3>1, <4>1, <4>2, JobGoes
    <3>3. CASE ~(staffs \/ customers \ {0} # {})
      <4>1. customers = {} /\ landed = {}
        <5>1. \A c \in customers : FALSE
          BY <3>1, <3>3
        <5>2. landed \subseteq customers
          BY DEF OtpInv, OneCustomer
        <5> QED
          BY <5>1, <5>2
      <4>2. customers' = customers \cup {job[r].code} /\ Otp!SignIn(r, job[r].code)
        BY <2>2, <3>3 DEF Otp!Create
      <4> QED
        BY <4>1, <4>2, SignInLands
    <3> QED
      BY <3>2, <3>3
  <2>3. CASE Otp!LookAgain(r)
    <3>1. CASE customers = {}
      BY <2>3, <3>1, JobEnds DEF Otp!LookAgain, OtpInv, OneCustomer
    <3>2. CASE customers # {}
      <4>1. PICK c \in customers : Otp!SignIn(r, c)
        BY <2>3, <3>2 DEF Otp!LookAgain
      <4>2. customers' = customers /\ landed \subseteq customers
        BY <2>3 DEF Otp!LookAgain, OtpInv, OneCustomer
      <4>3. landed' \subseteq customers'
        BY <4>1, <4>2, SignInLands
      <4> QED
        BY <4>1, <4>2, <4>3, SignInLands
    <3> QED
      BY <3>1, <3>2
  <2> QED
    BY <2>1, <2>2, <2>3
<1>4. OtpTypes'
  BY <1>1, <1>2, <1>3 DEF OtpInv, OtpTypes, WithCode
<1>5. GuessesCounted'
  BY <1>1, <1>3, TriesStand DEF SameTries, OtpInv, OtpTypes
<1>6. OneCustomer'
  <2>1. customers' \in SUBSET Nat /\ \A c, d \in customers' : c = d
    BY <1>2, <1>3 DEF OtpInv, OneCustomer
  <2>2. landed' \subseteq customers'
    BY <1>3
  <2>3. \A q \in Checkers : job'[q].at \in {"create", "look again"} => 0 \notin customers'
    BY <1>2, <1>3 DEF OtpInv, OneCustomer
  <2> QED
    BY <2>1, <2>2, <2>3 DEF OneCustomer
<1> QED
  BY <1>4, <1>5, <1>6 DEF OtpInv

LEMMA CodeAgesKeeps ==
  ASSUME OtpInv, NEW i \in 1..Len(otpCodes), Otp!Age(i) \/ Otp!Remove(i)
  PROVE  OtpInv'
<1>1. UNCHANGED <<job, opened, guesses, customers, landed>>
  BY DEF Otp!Age, Otp!Remove, Otp!Accounts
<1>2. PICK c \in OtpCodes :
        /\ otpCodes' = [otpCodes EXCEPT ![i] = c]
        /\ c.consumed = otpCodes[i].consumed /\ c.attempts = otpCodes[i].attempts
  <2> DEFINE older == [otpCodes[i] EXCEPT !.age = @ + 1]
             deleted == [otpCodes[i] EXCEPT !.kept = FALSE]
  <2>1. otpCodes[i] \in OtpCodes
    BY DEF OtpInv, OtpTypes
  <2>2. /\ older \in OtpCodes /\ older.consumed = otpCodes[i].consumed
        /\ older.attempts = otpCodes[i].attempts
    BY <2>1 DEF OtpCodes
  <2>3. /\ deleted \in OtpCodes /\ deleted.consumed = otpCodes[i].consumed
        /\ deleted.attempts = otpCodes[i].attempts
    BY <2>1 DEF OtpCodes
  <2>4. otpCodes' = [otpCodes EXCEPT ![i] = older] \/ otpCodes' = [otpCodes EXCEPT ![i] = deleted]
    BY DEF Otp!Age, Otp!Remove, OtpInv, OtpTypes
  <2> HIDE DEF older, deleted
  <2> QED
    BY <2>2, <2>3, <2>4
<1>3. SameTries
  BY <1>2, CodeChanges DEF OtpInv, SameTries
<1>4. OtpTypes'
  BY <1>1, <1>3 DEF OtpInv, OtpTypes, SameTries
<1>5. GuessesCounted'
  BY <1>1, <1>3, TriesStand
<1>6. OneCustomer'
  BY <1>1 DEF OtpInv, OneCustomer
<1> QED
  BY <1>4, <1>5, <1>6 DEF OtpInv

LEMMA NextOtpInv == OtpInv /\ [Otp!Next]_otpVars => OtpInv'
<1> SUFFICES ASSUME OtpInv, [Otp!Next]_otpVars PROVE OtpInv'
  OBVIOUS
<1>1. ASSUME NEW r \in Checkers,
             \/ Otp!CountSends(r) \/ Otp!ReadLast(r) \/ Otp!InsertCode(r) \/ Otp!Sent(r)
             \/ Otp!ReadCode(r) \/ Otp!CountAttempt(r) \/ Otp!Consume(r)
             \/ Otp!LookUp(r) \/ Otp!Create(r) \/ Otp!LookAgain(r)
      PROVE  OtpInv'
  BY <1>1, SendKeeps, InsertCodeKeeps, ReadCodeKeeps, CountAttemptKeeps, ConsumeKeeps,
     AccountKeeps
<1>2. CASE \E i \in 1..Len(otpCodes) : Otp!Age(i) \/ Otp!Remove(i)
  BY <1>2, CodeAgesKeeps
<1>3. CASE UNCHANGED otpVars
  BY <1>3 DEF otpVars, OtpInv, OtpTypes, GuessesCounted, OneCustomer, Counting
<1> QED
  BY <1>1, <1>2, <1>3 DEF Otp!Next

LEMMA OtpHolds == OtpInv => Otp!CodesLetOneIn
<1> SUFFICES ASSUME OtpInv PROVE Otp!CodesLetOneIn
  OBVIOUS
<1>1. \A i \in 1..Len(otpCodes) :
        opened[i] <= 1 /\ guesses[i] < OtpAttempts + Otp!Cardinality(Checkers)
  BY SameCount DEF OtpInv, GuessesCounted
<1>2. Otp!Cardinality(landed) <= 1
  <2>1. \A c, d \in landed : c = d
    BY DEF OtpInv, OneCustomer
  <2>2. CASE landed = {}
    BY <2>2, SameCount, FS_EmptySet
  <2>3. CASE landed # {}
    <3>1. PICK c : landed = {c}
      BY <2>1, <2>3
    <3> QED
      BY <3>1, SameCount, FS_Singleton
  <2> QED
    BY <2>2, <2>3
<1> QED
  BY <1>1, <1>2 DEF Otp!CodesLetOneIn
-----------------------------------------------------------------------------
(* Migrations: what is not applied is still to do for every runner, a start  *)
(* beyond the first is paid for by a stop, and until there is a stop the     *)
(* lock's holder is the only one at work                                     *)

RunnerSteps == {"rest", "insert", "take over", "read", "refresh", "up", "refresh again",
                "record", "release"}
RunnerStates == [at : RunnerSteps, todo : SUBSET Migrations, seen : SUBSET Migrations]
Locks == [owner : Runners, expired : BOOLEAN]
RunnerTypes ==
  /\ lock \in Locks \cup {None}
  /\ applied \in SUBSET Migrations
  /\ runner \in [Runners -> RunnerStates]
  /\ started \in [Migrations -> Nat] /\ stops \in Nat

Working == {"up", "refresh again", "record"}
Engaged == {"refresh"} \cup Working
Session == {"read"} \cup Engaged

\* Whatever is not applied is still to do for every runner.
LeftToDo ==
  \A r \in Runners :
    /\ runner[r].seen \subseteq applied
    /\ runner[r].at # "rest" => Migrations \ applied \subseteq runner[r].todo
    /\ runner[r].at \in Engaged => runner[r].todo # {}
InOrder == \A m \in applied : \A k \in Migrations : k < m => k \in applied

\* The lock's holder is at m; m may begin under the lock there is, or the next one.
Applying(m) ==
  /\ lock # None /\ ~lock.expired /\ runner[lock.owner].at \in Working
  /\ m = Runner!First(runner[lock.owner].todo)
MayBegin(m) ==
  \/ m \notin applied
  \/ /\ lock # None /\ runner[lock.owner].at \in Engaged
     /\ m \in runner[lock.owner].todo \ runner[lock.owner].seen
StartsAccounted ==
  \A m \in Migrations :
    /\ started[m] <= stops + 1
    /\ MayBegin(m) /\ ~Applying(m) => started[m] <= stops

OneAtWork ==
  stops = 0 =>
    /\ \A r \in Runners : runner[r].at \in Session => lock # None /\ lock.owner = r
    /\ lock # None => ~lock.expired /\ runner[lock.owner].at \in Session \cup {"release"}

RunnerInv == RunnerTypes /\ LeftToDo /\ InOrder /\ StartsAccounted /\ OneAtWork

LEMMA InitRunnerInv == Runner!Init => RunnerInv
<1> SUFFICES ASSUME Runner!Init PROVE RunnerInv
  OBVIOUS
<1>1. /\ lock = None /\ applied = {} /\ stops = 0
      /\ runner = [r \in Runners |-> [at |-> "rest", todo |-> {}, seen |-> {}]]
      /\ started = [m \in Migrations |-> 0]
  BY DEF Runner!Init, Runner!Resting
<1>2. RunnerTypes
  BY <1>1 DEF RunnerTypes, RunnerStates, RunnerSteps
<1>3. LeftToDo /\ InOrder
  BY <1>1 DEF LeftToDo, InOrder, Engaged, Working
<1>4. StartsAccounted
  BY <1>1 DEF StartsAccounted
<1>5. OneAtWork
  BY <1>1 DEF OneAtWork, Session, Engaged, Working
<1> QED
  BY <1>2, <1>3, <1>4, <1>5 DEF RunnerInv

\* One runner takes a step: where it stands then, and the others where they stood.
LEMMA RunnerMoves ==
  ASSUME RunnerTypes, NEW r \in Runners, NEW x \in RunnerStates,
         runner' = [runner EXCEPT ![r] = x]
  PROVE  /\ runner' \in [Runners -> RunnerStates] /\ runner'[r] = x
         /\ \A q \in Runners : q # r => runner'[q] = runner[q]
BY DEF RunnerTypes

LEMMA RunnerGoes ==
  ASSUME RunnerTypes, NEW r \in Runners, NEW place \in RunnerSteps, Runner!Goes(r, place)
  PROVE  /\ runner' \in [Runners -> RunnerStates]
         /\ runner'[r].at = place /\ runner'[r].todo = runner[r].todo
         /\ runner'[r].seen = runner[r].seen
         /\ \A q \in Runners : q # r => runner'[q] = runner[q]
<1> DEFINE x == [runner[r] EXCEPT !.at = place]
<1>1. /\ x \in RunnerStates /\ x.at = place /\ x.todo = runner[r].todo
      /\ x.seen = runner[r].seen
  BY DEF RunnerTypes, RunnerStates
<1>2. runner' = [runner EXCEPT ![r] = x]
  BY DEF Runner!Goes, RunnerTypes
<1> HIDE DEF x
<1> QED
  BY <1>1, <1>2, RunnerMoves

\* The lock is its holder's, if anybody's.
LEMMA RunnerOwner ==
  RunnerTypes /\ lock # None => lock.owner \in Runners /\ lock.expired \in BOOLEAN
BY DEF RunnerTypes, Locks

LEMMA StartsStand ==
  ASSUME StartsAccounted, UNCHANGED <<started, stops>>,
         \A m \in Migrations : MayBegin(m)' /\ ~Applying(m)' => MayBegin(m) /\ ~Applying(m)
  PROVE  StartsAccounted'
BY DEF StartsAccounted

\* A step of a runner that neither applies anything nor is about to.
LEMMA IdleMove ==
  ASSUME RunnerInv, NEW r \in Runners, runner[r].at \notin Engaged, runner'[r].at \notin Engaged,
         \A q \in Runners : q # r => runner'[q] = runner[q],
         UNCHANGED <<lock, applied, started, stops>>
  PROVE  StartsAccounted'
<1>1. ASSUME lock # None
      PROVE  /\ runner'[lock.owner].at \in Engaged <=> runner[lock.owner].at \in Engaged
             /\ runner[lock.owner].at \in Engaged => runner'[lock.owner] = runner[lock.owner]
  BY <1>1, RunnerOwner DEF RunnerInv
<1>2. \A m \in Migrations : MayBegin(m)' /\ ~Applying(m)' => MayBegin(m) /\ ~Applying(m)
  BY <1>1 DEF MayBegin, Applying, Engaged
<1> QED
  BY <1>2, StartsStand DEF RunnerInv

LEMMA BeginKeeps == ASSUME RunnerInv, NEW r \in Runners, Runner!Begin(r) PROVE RunnerInv'
<1> DEFINE x == [Runner!Resting EXCEPT !.at = "insert", !.todo = Migrations \ applied]
<1>1. /\ runner[r].at = "rest" /\ runner' = [runner EXCEPT ![r] = x]
      /\ UNCHANGED <<lock, applied, started, stops>>
  BY DEF Runner!Begin, Runner!At
<1>2. x \in RunnerStates /\ x.at = "insert" /\ x.todo = Migrations \ applied /\ x.seen = {}
  BY DEF Runner!Resting, RunnerStates, RunnerSteps
<1> HIDE DEF x
<1>3. /\ runner' \in [Runners -> RunnerStates] /\ runner'[r] = x
      /\ \A q \in Runners : q # r => runner'[q] = runner[q]
  BY <1>1, <1>2, RunnerMoves DEF RunnerInv
<1>4. RunnerTypes'
  BY <1>1, <1>3 DEF RunnerInv, RunnerTypes
<1>5. LeftToDo' /\ InOrder'
  BY <1>1, <1>2, <1>3 DEF RunnerInv, LeftToDo, InOrder, Engaged, Working
<1>6. StartsAccounted'
  BY <1>1, <1>2, <1>3, IdleMove DEF Engaged, Working
<1>7. OneAtWork'
  BY <1>1, <1>2, <1>3, RunnerOwner DEF RunnerInv, OneAtWork, Session, Engaged, Working
<1> QED
  BY <1>4, <1>5, <1>6, <1>7 DEF RunnerInv

LEMMA NewLock ==
  ASSUME NEW r \in Runners
  PROVE  LET l == Runner!LockOf(r) IN
         l \in Locks /\ l # None /\ l.owner = r /\ ~l.expired
<1> DEFINE l == Runner!LockOf(r)
<1>1. l \in Locks /\ l.owner = r /\ ~l.expired
  BY DEF Runner!LockOf, Locks
<1>2. None \notin Locks
  BY ServicesAssumption DEF Locks
<1> QED
  BY <1>1, <1>2

LEMMA LockTaken ==
  ASSUME RunnerInv, NEW r \in Runners, runner[r].at \in {"insert", "take over"},
         lock = None \/ lock.expired, lock' = Runner!LockOf(r), Runner!Goes(r, "read"),
         UNCHANGED <<applied, started, stops>>
  PROVE  RunnerInv'
<1>1. /\ runner' \in [Runners -> RunnerStates]
      /\ runner'[r].at = "read" /\ runner'[r].todo = runner[r].todo
      /\ runner'[r].seen = runner[r].seen
      /\ \A q \in Runners : q # r => runner'[q] = runner[q]
  BY RunnerGoes DEF RunnerInv, RunnerSteps
<1>2. lock' \in Locks /\ lock' # None /\ lock'.owner = r /\ ~lock'.expired
  BY NewLock
<1>3. RunnerTypes'
  BY <1>1, <1>2 DEF RunnerInv, RunnerTypes
<1>4. LeftToDo' /\ InOrder'
  BY <1>1 DEF RunnerInv, LeftToDo, InOrder, Engaged, Working
<1>5. StartsAccounted'
  <2>1. \A m \in Migrations : MayBegin(m)' => m \notin applied
    BY <1>1, <1>2 DEF MayBegin, Engaged, Working
  <2> QED
    BY <2>1, StartsStand DEF RunnerInv, MayBegin, Applying
<1>6. OneAtWork'
  <2>1. stops = 0 => \A q \in Runners : runner[q].at \notin Session
    BY DEF RunnerInv, OneAtWork
  <2> QED
    BY <1>1, <1>2, <2>1 DEF RunnerInv, OneAtWork, Session
<1> QED
  BY <1>3, <1>4, <1>5, <1>6 DEF RunnerInv

\* A step on which only the runner's place changes, outside the migrations.
LEMMA IdleGoes ==
  ASSUME RunnerInv, NEW r \in Runners, NEW place \in {"take over", "rest"},
         runner[r].at \in {"insert", "take over"}, Runner!Goes(r, place),
         UNCHANGED <<lock, applied, started, stops>>
  PROVE  RunnerInv'
<1>1. /\ runner' \in [Runners -> RunnerStates]
      /\ runner'[r].at = place /\ runner'[r].todo = runner[r].todo
      /\ runner'[r].seen = runner[r].seen
      /\ \A q \in Runners : q # r => runner'[q] = runner[q]
  BY RunnerGoes DEF RunnerInv, RunnerSteps
<1>2. RunnerTypes'
  BY <1>1 DEF RunnerInv, RunnerTypes
<1>3. LeftToDo' /\ InOrder'
  BY <1>1 DEF RunnerInv, LeftToDo, InOrder, Engaged, Working
<1>4. StartsAccounted'
  BY <1>1, IdleMove DEF Engaged, Working
<1>5. OneAtWork'
  <2>1. lock # None /\ stops = 0 => lock.owner \in Runners /\ lock.owner # r
    BY RunnerOwner DEF RunnerInv, OneAtWork, Session, Engaged, Working
  <2> QED
    BY <1>1, <2>1 DEF RunnerInv, OneAtWork, Session, Engaged, Working
<1> QED
  BY <1>2, <1>3, <1>4, <1>5 DEF RunnerInv

LEMMA AcquireKeeps ==
  ASSUME RunnerInv, NEW r \in Runners, Runner!InsertLock(r) \/ Runner!TakeOver(r)
  PROVE  RunnerInv'
<1>1. CASE Runner!InsertLock(r)
  BY <1>1, LockTaken, IdleGoes DEF Runner!InsertLock, Runner!At
<1>2. CASE Runner!TakeOver(r)
  BY <1>2, LockTaken, IdleGoes DEF Runner!TakeOver, Runner!At
<1> QED
  BY <1>1, <1>2

LEMMA ReadAppliedKeeps ==
  ASSUME RunnerInv, NEW r \in Runners, Runner!ReadApplied(r)
  PROVE  RunnerInv'
<1> DEFINE place == Runner!NextFor(runner[r].todo)
           x == [runner[r] EXCEPT !.seen = applied, !.at = place]
<1>1. /\ runner[r].at = "read" /\ UNCHANGED <<lock, applied, started, stops>>
      /\ runner' = [runner EXCEPT ![r].seen = applied, ![r].at = place]
  BY DEF Runner!ReadApplied, Runner!At
<1>2. place \in {"release", "refresh"} /\ (place = "refresh" => runner[r].todo # {})
  BY DEF Runner!NextFor
<1> HIDE DEF place
<1>3. runner' = [runner EXCEPT ![r] = x]
  BY <1>1 DEF RunnerInv, RunnerTypes
<1>4. /\ x \in RunnerStates /\ x.at = place /\ x.todo = runner[r].todo /\ x.seen = applied
  BY <1>2 DEF RunnerInv, RunnerTypes, RunnerStates, RunnerSteps
<1> HIDE DEF x
<1>5. /\ runner' \in [Runners -> RunnerStates] /\ runner'[r] = x
      /\ \A q \in Runners : q # r => runner'[q] = runner[q]
  BY <1>3, <1>4, RunnerMoves DEF RunnerInv
<1>6. RunnerTypes'
  BY <1>1, <1>5 DEF RunnerInv, RunnerTypes
<1>7. LeftToDo' /\ InOrder'
  BY <1>1, <1>2, <1>4, <1>5 DEF RunnerInv, LeftToDo, InOrder, Engaged, Working
<1>8. StartsAccounted'
  <2>1. ASSUME NEW m \in Migrations, MayBegin(m)', ~Applying(m)'
        PROVE  MayBegin(m) /\ ~Applying(m)
    <3>1. CASE lock # None /\ lock.owner = r
      BY <1>1, <1>2, <1>4, <1>5, <2>1, <3>1 DEF MayBegin, Applying, Engaged, Working
    <3>2. CASE lock # None /\ lock.owner # r
      BY <1>1, <1>5, <2>1, <3>2, RunnerOwner DEF RunnerInv, MayBegin, Applying
    <3>3. CASE lock = None
      BY <1>1, <2>1, <3>3 DEF MayBegin, Applying
    <3> QED
      BY <3>1, <3>2, <3>3
  <2> QED
    BY <1>1, <2>1, StartsStand DEF RunnerInv
<1>9. OneAtWork'
  BY <1>1, <1>2, <1>4, <1>5, RunnerOwner DEF RunnerInv, OneAtWork, Session, Engaged, Working
<1> QED
  BY <1>6, <1>7, <1>8, <1>9 DEF RunnerInv

\* A runner without the lock gives up, leaving everything but its own place.
LEMMA GiveUpKeeps ==
  ASSUME RunnerInv, NEW r \in Runners, ~Runner!Owns(r), runner[r].at \in Engaged,
         Runner!Goes(r, "release"), UNCHANGED <<lock, applied, started, stops>>
  PROVE  RunnerInv'
<1>1. /\ runner' \in [Runners -> RunnerStates]
      /\ runner'[r].at = "release" /\ runner'[r].todo = runner[r].todo
      /\ runner'[r].seen = runner[r].seen
      /\ \A q \in Runners : q # r => runner'[q] = runner[q]
  BY RunnerGoes DEF RunnerInv, RunnerSteps
<1>2. lock # None => lock.owner # r /\ lock.owner \in Runners
  BY RunnerOwner DEF RunnerInv, Runner!Owns
<1>3. RunnerTypes'
  BY <1>1 DEF RunnerInv, RunnerTypes
<1>4. LeftToDo' /\ InOrder'
  BY <1>1 DEF RunnerInv, LeftToDo, InOrder, Engaged, Working
<1>5. StartsAccounted'
  <2>1. \A m \in Migrations : MayBegin(m)' /\ ~Applying(m)' => MayBegin(m) /\ ~Applying(m)
    BY <1>1, <1>2 DEF MayBegin, Applying
  <2> QED
    BY <2>1, StartsStand DEF RunnerInv
<1>6. OneAtWork'
  BY <1>2 DEF RunnerInv, OneAtWork, Session
<1> QED
  BY <1>3, <1>4, <1>5, <1>6 DEF RunnerInv

\* The lock's holder renews it and goes on with the same migration.
LEMMA RenewKeeps ==
  ASSUME RunnerInv, NEW r \in Runners, Runner!Owns(r), runner[r].at \in Working,
         NEW place \in Working, Runner!Goes(r, place), lock' \in {lock, Runner!LockOf(r)},
         UNCHANGED <<applied, started, stops>>
  PROVE  RunnerInv'
<1>1. /\ runner' \in [Runners -> RunnerStates]
      /\ runner'[r].at = place /\ runner'[r].todo = runner[r].todo
      /\ runner'[r].seen = runner[r].seen
      /\ \A q \in Runners : q # r => runner'[q] = runner[q]
  BY RunnerGoes DEF RunnerInv, RunnerSteps, Working
<1>2. /\ lock # None /\ lock.owner = r /\ lock' \in Locks /\ lock' # None
      /\ lock'.owner = r /\ (lock' = lock \/ ~lock'.expired)
  BY NewLock DEF RunnerInv, RunnerTypes, Runner!Owns
<1>3. RunnerTypes'
  BY <1>1, <1>2 DEF RunnerInv, RunnerTypes
<1>4. LeftToDo' /\ InOrder'
  BY <1>1 DEF RunnerInv, LeftToDo, InOrder, Engaged, Working
<1>5. StartsAccounted'
  <2>1. \A m \in Migrations : MayBegin(m)' /\ ~Applying(m)' => MayBegin(m) /\ ~Applying(m)
    BY <1>1, <1>2 DEF MayBegin, Applying, Engaged
  <2> QED
    BY <2>1, StartsStand DEF RunnerInv
<1>6. OneAtWork'
  BY <1>1, <1>2 DEF RunnerInv, OneAtWork, Session, Engaged
<1> QED
  BY <1>3, <1>4, <1>5, <1>6 DEF RunnerInv

\* Work that is done or known to be done is taken off the runner's list.
LEMMA TakenOff ==
  ASSUME RunnerTypes, NEW r \in Runners, NEW todo \in SUBSET Migrations,
         runner' = [runner EXCEPT ![r].todo = todo, ![r].at = Runner!NextFor(todo)]
  PROVE  /\ runner' \in [Runners -> RunnerStates]
         /\ runner'[r].todo = todo /\ runner'[r].seen = runner[r].seen
         /\ runner'[r].at \in {"release", "refresh"}
         /\ runner'[r].at = "refresh" => todo # {}
         /\ \A q \in Runners : q # r => runner'[q] = runner[q]
<1> DEFINE place == Runner!NextFor(todo)
           x == [runner[r] EXCEPT !.todo = todo, !.at = place]
<1>1. place \in {"release", "refresh"} /\ (place = "refresh" => todo # {})
  BY DEF Runner!NextFor
<1>2. runner' = [runner EXCEPT ![r].todo = todo, ![r].at = place]
  OBVIOUS
<1> HIDE DEF place
<1>3. runner' = [runner EXCEPT ![r] = x]
  BY <1>2 DEF RunnerTypes
<1>4. x \in RunnerStates /\ x.at = place /\ x.todo = todo /\ x.seen = runner[r].seen
  BY <1>1 DEF RunnerTypes, RunnerStates, RunnerSteps
<1> HIDE DEF x
<1> QED
  BY <1>1, <1>3, <1>4, RunnerMoves

LEMMA SkipKeeps ==
  ASSUME RunnerInv, NEW r \in Runners, Runner!Owns(r), runner[r].at = "refresh",
         NEW m \in runner[r].seen,
         runner' = [runner EXCEPT ![r].todo = runner[r].todo \ {m},
                                  ![r].at = Runner!NextFor(runner[r].todo \ {m})],
         lock' = Runner!LockOf(r), UNCHANGED <<applied, started, stops>>
  PROVE  RunnerInv'
<1> DEFINE todo == runner[r].todo \ {m}
<1>1. todo \in SUBSET Migrations
  BY DEF RunnerInv, RunnerTypes, RunnerStates
<1>2. /\ runner' \in [Runners -> RunnerStates]
      /\ runner'[r].todo = todo /\ runner'[r].seen = runner[r].seen
      /\ runner'[r].at \in {"release", "refresh"}
      /\ runner'[r].at = "refresh" => todo # {}
      /\ \A q \in Runners : q # r => runner'[q] = runner[q]
  BY <1>1, TakenOff DEF RunnerInv
<1>3. /\ lock # None /\ lock.owner = r /\ lock' \in Locks /\ lock' # None
      /\ lock'.owner = r /\ ~lock'.expired
  BY NewLock DEF RunnerInv, RunnerTypes, Runner!Owns
<1>4. m \in applied
  BY DEF RunnerInv, LeftToDo
<1>5. RunnerTypes'
  BY <1>2, <1>3 DEF RunnerInv, RunnerTypes
<1>6. LeftToDo' /\ InOrder'
  BY <1>2, <1>4 DEF RunnerInv, LeftToDo, InOrder, Engaged, Working
<1>7. StartsAccounted'
  <2>1. \A k \in Migrations : MayBegin(k)' => MayBegin(k) /\ ~Applying(k)
    BY <1>2, <1>3 DEF MayBegin, Applying, Engaged, Working
  <2> QED
    BY <2>1, StartsStand DEF RunnerInv
<1>8. OneAtWork'
  BY <1>2, <1>3 DEF RunnerInv, OneAtWork, Session, Engaged
<1> QED
  BY <1>5, <1>6, <1>7, <1>8 DEF RunnerInv

LEMMA StartKeeps ==
  ASSUME RunnerInv, NEW r \in Runners, Runner!Owns(r), runner[r].at = "refresh",
         Runner!First(runner[r].todo) \notin runner[r].seen,
         started' = [started EXCEPT ![Runner!First(runner[r].todo)] = @ + 1],
         Runner!Goes(r, "up"), lock' = Runner!LockOf(r), UNCHANGED <<applied, stops>>
  PROVE  RunnerInv'
<1> PICK m : m = Runner!First(runner[r].todo)
  OBVIOUS
<1>1. /\ runner' \in [Runners -> RunnerStates]
      /\ runner'[r].at = "up" /\ runner'[r].todo = runner[r].todo
      /\ runner'[r].seen = runner[r].seen
      /\ \A q \in Runners : q # r => runner'[q] = runner[q]
  BY RunnerGoes DEF RunnerInv, RunnerSteps
<1>2. /\ lock # None /\ lock.owner = r /\ lock' \in Locks /\ lock' # None
      /\ lock'.owner = r /\ ~lock'.expired
  BY NewLock DEF RunnerInv, RunnerTypes, Runner!Owns
<1>3. m \in runner[r].todo /\ m \in Migrations
  <2>1. runner[r].todo # {} /\ runner[r].todo \subseteq Migrations
    BY DEF RunnerInv, LeftToDo, Engaged, RunnerTypes, RunnerStates
  <2>2. runner[r].todo \in SUBSET Nat
    BY <2>1, ServicesAssumption
  <2> QED
    BY <2>1, <2>2, LeastExists
<1>4. Applying(m)'
  BY <1>1, <1>2 DEF Applying, Working
<1>5. m \notin runner[r].seen /\ started' = [started EXCEPT ![m] = @ + 1]
  OBVIOUS
<1>6. RunnerTypes'
  BY <1>1, <1>2, <1>3, <1>5 DEF RunnerInv, RunnerTypes
<1>7. LeftToDo' /\ InOrder'
  BY <1>1 DEF RunnerInv, LeftToDo, InOrder, Engaged, Working
<1>8. StartsAccounted'
  <2>1. MayBegin(m) /\ \A k \in Migrations : ~Applying(k)
    BY <1>2, <1>3, <1>5 DEF MayBegin, Applying, Engaged, Working
  <2>2. /\ started'[m] = started[m] + 1 /\ started[m] \in Nat /\ stops \in Nat
        /\ started[m] <= stops
    BY <1>3, <1>5, <2>1 DEF RunnerInv, RunnerTypes, StartsAccounted
  <2>3. \A k \in Migrations : k # m => started'[k] = started[k]
    BY <1>5 DEF RunnerInv, RunnerTypes
  <2>4. \A k \in Migrations : MayBegin(k)' => MayBegin(k)
    BY <1>1, <1>2 DEF MayBegin, Engaged
  <2>5. ASSUME NEW k \in Migrations
        PROVE  /\ started'[k] <= stops' + 1
               /\ MayBegin(k)' /\ ~Applying(k)' => started'[k] <= stops'
    <3>1. CASE k = m
      BY <1>4, <2>2, <3>1
    <3>2. CASE k # m
      BY <2>1, <2>3, <2>4, <3>2 DEF RunnerInv, StartsAccounted
    <3> QED
      BY <3>1, <3>2
  <2> QED
    BY <2>5 DEF StartsAccounted
<1>9. OneAtWork'
  BY <1>1, <1>2 DEF RunnerInv, OneAtWork, Session, Engaged, Working
<1> QED
  BY <1>6, <1>7, <1>8, <1>9 DEF RunnerInv

LEMMA RefreshKeeps ==
  ASSUME RunnerInv, NEW r \in Runners, Runner!Refresh(r)
  PROVE  RunnerInv'
<1> DEFINE m == Runner!First(runner[r].todo)
<1>1. /\ runner[r].at = "refresh" /\ UNCHANGED <<applied, stops>>
      /\ lock' = IF Runner!Owns(r) THEN Runner!LockOf(r) ELSE lock
  BY DEF Runner!Refresh, Runner!At, Runner!Refreshed
<1>2. CASE ~Runner!Owns(r)
  <2>1. Runner!Goes(r, "release") /\ UNCHANGED <<lock, started>>
    BY <1>1, <1>2 DEF Runner!Refresh
  <2> QED
    BY <1>1, <1>2, <2>1, GiveUpKeeps DEF Engaged
<1>3. CASE Runner!Owns(r) /\ m \in runner[r].seen
  <2>1. /\ runner' = [runner EXCEPT ![r].todo = runner[r].todo \ {m},
                                    ![r].at = Runner!NextFor(runner[r].todo \ {m})]
        /\ UNCHANGED started
    BY <1>3 DEF Runner!Refresh
  <2> HIDE DEF m
  <2> QED
    BY <1>1, <1>3, <2>1, SkipKeeps
<1>4. CASE Runner!Owns(r) /\ m \notin runner[r].seen
  <2>1. Runner!Goes(r, "up") /\ started' = [started EXCEPT ![m] = @ + 1]
    BY <1>4 DEF Runner!Refresh
  <2> QED
    BY <1>1, <1>4, <2>1, StartKeeps
<1> QED
  BY <1>2, <1>3, <1>4

LEMMA AtWorkKeeps ==
  ASSUME RunnerInv, NEW r \in Runners,
         Runner!Heartbeat(r) \/ Runner!Done(r) \/ Runner!RefreshAgain(r)
  PROVE  RunnerInv'
<1>1. runner[r].at \in Working /\ UNCHANGED <<applied, started, stops>>
  BY DEF Runner!Heartbeat, Runner!Done, Runner!RefreshAgain, Runner!At, Working
<1>2. CASE Runner!Owns(r) /\ ~Runner!Done(r)
  <2>1. PICK place \in Working : Runner!Goes(r, place)
    BY <1>2 DEF Runner!Heartbeat, Runner!RefreshAgain, Working
  <2>2. lock' = Runner!LockOf(r)
    BY <1>2 DEF Runner!Heartbeat, Runner!RefreshAgain, Runner!Refreshed
  <2> QED
    BY <1>1, <1>2, <2>1, <2>2, RenewKeeps
<1>3. CASE ~Runner!Owns(r) /\ ~Runner!Done(r)
  <2>1. Runner!Goes(r, "release") /\ UNCHANGED lock
    BY <1>3 DEF Runner!Heartbeat, Runner!RefreshAgain, Runner!Refreshed
  <2> QED
    BY <1>1, <1>3, <2>1, GiveUpKeeps DEF Engaged
<1>4. CASE Runner!Done(r)
  <2>1. Runner!Goes(r, "refresh again") /\ UNCHANGED lock
    BY <1>4 DEF Runner!Done
  <2>2. CASE Runner!Owns(r)
    BY <1>1, <2>1, <2>2, RenewKeeps DEF Working
  <2>3. CASE ~Runner!Owns(r)
    <3>1. /\ runner' \in [Runners -> RunnerStates]
          /\ runner'[r].at = "refresh again" /\ runner'[r].todo = runner[r].todo
          /\ runner'[r].seen = runner[r].seen
          /\ \A q \in Runners : q # r => runner'[q] = runner[q]
      BY <2>1, RunnerGoes DEF RunnerInv, RunnerSteps
    <3>2. lock # None => lock.owner # r /\ lock.owner \in Runners
      BY <2>3, RunnerOwner DEF RunnerInv, Runner!Owns
    <3>3. RunnerTypes'
      BY <1>1, <2>1, <3>1 DEF RunnerInv, RunnerTypes
    <3>4. LeftToDo' /\ InOrder'
      BY <1>1, <3>1 DEF RunnerInv, LeftToDo, InOrder, Engaged, Working
    <3>5. \A m \in Migrations : MayBegin(m)' /\ ~Applying(m)' => MayBegin(m) /\ ~Applying(m)
      BY <1>1, <2>1, <3>1, <3>2 DEF MayBegin, Applying
    <3>6. StartsAccounted'
      BY <1>1, <3>5, StartsStand DEF RunnerInv
    <3>7. OneAtWork'
      BY <1>1, <3>2 DEF RunnerInv, OneAtWork, Session, Engaged
    <3> QED
      BY <3>3, <3>4, <3>6, <3>7 DEF RunnerInv
  <2> QED
    BY <2>2, <2>3
<1> QED
  BY <1>2, <1>3, <1>4

LEMMA RecordKeeps ==
  ASSUME RunnerInv, NEW r \in Runners, Runner!Record(r)
  PROVE  RunnerInv'
<1> DEFINE m == Runner!First(runner[r].todo)
           todo == runner[r].todo \ {m}
<1>1. /\ runner[r].at = "record" /\ applied' = applied \cup {m}
      /\ runner' = [runner EXCEPT ![r].todo = todo, ![r].at = Runner!NextFor(todo)]
      /\ UNCHANGED <<lock, started, stops>>
  BY DEF Runner!Record, Runner!At
<1>2. /\ m \in runner[r].todo /\ m \in Migrations /\ todo \in SUBSET Migrations
      /\ \A k \in runner[r].todo : m <= k
  <2>1. runner[r].todo # {} /\ runner[r].todo \subseteq Migrations
    BY <1>1 DEF RunnerInv, LeftToDo, Engaged, Working, RunnerTypes, RunnerStates
  <2>2. runner[r].todo \in SUBSET Nat
    BY <2>1, ServicesAssumption
  <2> QED
    BY <2>1, <2>2, LeastExists
<1>3. /\ runner' \in [Runners -> RunnerStates]
      /\ runner'[r].todo = todo /\ runner'[r].seen = runner[r].seen
      /\ runner'[r].at \in {"release", "refresh"}
      /\ runner'[r].at = "refresh" => todo # {}
      /\ \A q \in Runners : q # r => runner'[q] = runner[q]
  BY <1>1, <1>2, TakenOff DEF RunnerInv
<1>4. todo = runner[r].todo \ {m} /\ \A k : Runner!First(runner[r].todo) = k => k = m
  OBVIOUS
<1> HIDE DEF m, todo
<1>5. RunnerTypes'
  BY <1>1, <1>2, <1>3 DEF RunnerInv, RunnerTypes
<1>6. LeftToDo'
  <2>1. Migrations \ applied \subseteq runner[r].todo
    BY <1>1 DEF RunnerInv, LeftToDo
  <2> QED
    BY <1>1, <1>3, <1>4, <2>1 DEF RunnerInv, LeftToDo, Engaged, Working
<1>7. InOrder'
  <2>1. ASSUME NEW k \in Migrations, k < m PROVE k \in applied
    <3>1. k \in Nat /\ m \in Nat /\ k \notin runner[r].todo
      BY <1>2, <2>1, ServicesAssumption
    <3> QED
      BY <1>1, <3>1 DEF RunnerInv, LeftToDo
  <2> QED
    BY <1>1, <2>1 DEF RunnerInv, InOrder
<1>8. StartsAccounted'
  <2>1. ASSUME NEW k \in Migrations, MayBegin(k)', ~Applying(k)'
        PROVE  MayBegin(k) /\ ~Applying(k)
    <3>1. CASE lock # None /\ lock.owner = r
      <4>1. k # m
        BY <1>1, <1>3, <1>4, <2>1, <3>1 DEF MayBegin
      <4>2. ~Applying(k)
        BY <1>4, <3>1, <4>1 DEF Applying
      <4>3. MayBegin(k)
        BY <1>1, <1>3, <1>4, <2>1, <3>1, <4>1 DEF MayBegin, Engaged, Working
      <4> QED
        BY <4>2, <4>3
    <3>2. CASE lock # None /\ lock.owner # r
      BY <1>1, <1>3, <2>1, <3>2, RunnerOwner DEF RunnerInv, MayBegin, Applying
    <3>3. CASE lock = None
      BY <1>1, <2>1, <3>3 DEF MayBegin, Applying
    <3> QED
      BY <3>1, <3>2, <3>3
  <2> QED
    BY <1>1, <2>1, StartsStand DEF RunnerInv
<1>9. OneAtWork'
  BY <1>1, <1>3, RunnerOwner DEF RunnerInv, OneAtWork, Session, Engaged, Working
<1> QED
  BY <1>5, <1>6, <1>7, <1>8, <1>9 DEF RunnerInv

\* A stop pays for one more beginning of everything.
LEMMA StopPays ==
  ASSUME RunnerInv, UNCHANGED started, stops' = stops + 1
  PROVE  StartsAccounted' /\ OneAtWork'
<1>1. stops \in Nat /\ \A m \in Migrations : started[m] \in Nat /\ started[m] <= stops + 1
  BY DEF RunnerInv, RunnerTypes, StartsAccounted
<1> QED
  BY <1>1 DEF StartsAccounted, OneAtWork

LEMMA StopKeeps ==
  ASSUME RunnerInv, NEW r \in Runners, Runner!Fails(r) \/ Runner!Crash(r)
  PROVE  RunnerInv'
<1>1. /\ UNCHANGED <<lock, applied, started>> /\ stops' = stops + 1
      /\ stops' \in Nat
  BY DEF Runner!Fails, Runner!Crash, RunnerInv, RunnerTypes
<1>2. /\ runner' \in [Runners -> RunnerStates]
      /\ \/ runner'[r].at = "rest" /\ runner'[r].seen = {}
         \/ /\ runner[r].at = "up" /\ runner'[r].at = "release"
            /\ runner'[r].todo = runner[r].todo /\ runner'[r].seen = runner[r].seen
      /\ \A q \in Runners : q # r => runner'[q] = runner[q]
  <2>1. CASE Runner!Fails(r)
    BY <2>1, RunnerGoes DEF Runner!Fails, Runner!At, RunnerInv, RunnerSteps
  <2>2. CASE Runner!Crash(r)
    <3>1. /\ Runner!Resting \in RunnerStates /\ Runner!Resting.at = "rest"
          /\ Runner!Resting.seen = {}
      BY DEF Runner!Resting, RunnerStates, RunnerSteps
    <3> QED
      BY <2>2, <3>1, RunnerMoves DEF Runner!Crash, RunnerInv
  <2> QED
    BY <2>1, <2>2
<1>3. RunnerTypes'
  BY <1>1, <1>2 DEF RunnerInv, RunnerTypes
<1>4. LeftToDo' /\ InOrder'
  BY <1>1, <1>2 DEF RunnerInv, LeftToDo, InOrder, Engaged, Working
<1> QED
  BY <1>1, <1>3, <1>4, StopPays DEF RunnerInv

LEMMA ReleaseKeeps ==
  ASSUME RunnerInv, NEW r \in Runners, Runner!Release(r)
  PROVE  RunnerInv'
<1>1. /\ runner[r].at = "release" /\ UNCHANGED <<applied, started, stops>>
      /\ lock' = IF Runner!Owns(r) THEN None ELSE lock
      /\ runner' = [runner EXCEPT ![r] = Runner!Resting]
  BY DEF Runner!Release, Runner!At
<1>2. Runner!Resting \in RunnerStates /\ Runner!Resting.at = "rest" /\ Runner!Resting.seen = {}
  BY DEF Runner!Resting, RunnerStates, RunnerSteps
<1>3. /\ runner' \in [Runners -> RunnerStates]
      /\ runner'[r].at = "rest" /\ runner'[r].seen = {}
      /\ \A q \in Runners : q # r => runner'[q] = runner[q]
  BY <1>1, <1>2, RunnerMoves DEF RunnerInv
<1>4. lock' \in {lock, None} /\ (lock' # None => lock.owner # r /\ lock.owner \in Runners)
  BY <1>1, RunnerOwner DEF RunnerInv, Runner!Owns
<1>5. RunnerTypes'
  BY <1>1, <1>3, <1>4 DEF RunnerInv, RunnerTypes
<1>6. LeftToDo' /\ InOrder'
  BY <1>1, <1>3 DEF RunnerInv, LeftToDo, InOrder, Engaged, Working
<1>7. StartsAccounted'
  <2>1. CASE Runner!Owns(r)
    BY <1>1, <2>1, StartsStand DEF RunnerInv, MayBegin, Applying, Working, Runner!Owns
  <2>2. CASE ~Runner!Owns(r)
    BY <1>1, <1>3, <2>2, IdleMove DEF Engaged, Working
  <2> QED
    BY <2>1, <2>2
<1>8. OneAtWork'
  BY <1>1, <1>3, <1>4 DEF RunnerInv, OneAtWork, Session, Engaged, Working, Runner!Owns
<1> QED
  BY <1>5, <1>6, <1>7, <1>8 DEF RunnerInv

LEMMA LockGoesKeeps ==
  ASSUME RunnerInv, Runner!ForceUnlock \/ Runner!Expire
  PROVE  RunnerInv'
<1>1. lock # None /\ UNCHANGED <<applied, runner, started>>
  BY DEF Runner!ForceUnlock, Runner!Expire
<1>2. /\ lock' \in Locks \cup {None} /\ (lock' # None => lock'.owner = lock.owner)
      /\ \/ UNCHANGED stops /\ runner[lock.owner].at = "rest"
         \/ stops' = stops + 1
  <2>1. CASE Runner!ForceUnlock
    BY <2>1 DEF Runner!ForceUnlock, Runner!At
  <2>2. CASE Runner!Expire
    BY <1>1, <2>2 DEF Runner!Expire, Runner!At, RunnerInv, RunnerTypes, Locks
  <2> QED
    BY <2>1, <2>2
<1>3. RunnerTypes'
  BY <1>1, <1>2 DEF RunnerInv, RunnerTypes
<1>4. LeftToDo' /\ InOrder'
  BY <1>1 DEF RunnerInv, LeftToDo, InOrder
<1>5. CASE UNCHANGED stops /\ runner[lock.owner].at = "rest"
  <2>1. \A m \in Migrations : MayBegin(m)' /\ ~Applying(m)' => MayBegin(m) /\ ~Applying(m)
    BY <1>1, <1>2, <1>5 DEF MayBegin, Applying, Engaged, Working
  <2>2. stops # 0
    BY <1>1, <1>5 DEF RunnerInv, OneAtWork, Session, Engaged, Working
  <2> QED
    BY <1>1, <1>3, <1>4, <1>5, <2>1, <2>2, StartsStand DEF RunnerInv, OneAtWork
<1>6. CASE stops' = stops + 1
  BY <1>1, <1>3, <1>4, <1>6, StopPays DEF RunnerInv
<1> QED
  BY <1>2, <1>5, <1>6

LEMMA NextRunnerInv == RunnerInv /\ [Runner!Next]_runnerVars => RunnerInv'
<1> SUFFICES ASSUME RunnerInv, [Runner!Next]_runnerVars PROVE RunnerInv'
  OBVIOUS
<1>1. ASSUME NEW r \in Runners,
             \/ Runner!Begin(r) \/ Runner!InsertLock(r) \/ Runner!TakeOver(r)
             \/ Runner!ReadApplied(r) \/ Runner!Refresh(r) \/ Runner!Heartbeat(r)
             \/ Runner!Done(r) \/ Runner!Fails(r) \/ Runner!RefreshAgain(r)
             \/ Runner!Record(r) \/ Runner!Release(r) \/ Runner!Crash(r)
      PROVE  RunnerInv'
  BY <1>1, BeginKeeps, AcquireKeeps, ReadAppliedKeeps, RefreshKeeps, AtWorkKeeps, StopKeeps,
     RecordKeeps, ReleaseKeeps
<1>2. CASE Runner!ForceUnlock \/ Runner!Expire
  BY <1>2, LockGoesKeeps
<1>3. CASE UNCHANGED runnerVars
  BY <1>3 DEF runnerVars, RunnerInv, RunnerTypes, LeftToDo, InOrder, StartsAccounted,
     OneAtWork, MayBegin, Applying
<1> QED
  BY <1>1, <1>2, <1>3 DEF Runner!Next

LEMMA RunnerHolds == RunnerInv => Runner!AppliedOnceInOrder
<1> SUFFICES ASSUME RunnerInv PROVE Runner!AppliedOnceInOrder
  OBVIOUS
<1>1. \A m \in Migrations : started[m] <= 1 + stops
  <2>1. \A m \in Migrations : started[m] \in Nat /\ started[m] <= stops + 1 /\ stops \in Nat
    BY DEF RunnerInv, RunnerTypes, StartsAccounted
  <2> QED
    BY <2>1
<1>2. ASSUME stops = 0 PROVE Runner!Cardinality(Runner!Working) <= 1
  <2>1. \A r \in Runner!Working : lock.owner = r
    BY <1>2 DEF RunnerInv, OneAtWork, Session, Engaged, Working, Runner!Working
  <2>2. Runner!Working \subseteq {lock.owner}
    BY <2>1
  <2>3. IsFiniteSet({lock.owner}) /\ Cardinality({lock.owner}) = 1
    BY FS_Singleton
  <2>4. Cardinality(Runner!Working) <= Cardinality({lock.owner})
    BY <2>2, <2>3, FS_Subset
  <2> QED
    BY <2>3, <2>4, SameCount
<1>3. InOrder
  BY DEF RunnerInv
<1> QED
  BY <1>1, <1>2, <1>3 DEF InOrder, Runner!AppliedOnceInOrder

-----------------------------------------------------------------------------
(* The subscription: what Razorpay has told fits what it has charged, and,   *)
(* unless something upset it, the status fits what the store was told        *)

Statuses == {"trialing", "active", "past_due", "suspended", "exempt"}
Documents == [status : Statuses, grace : Nat \cup {None}, end : Nat \cup {None}, plan : Nat,
              cancelled : BOOLEAN]
Plans == [status : {"active", "pending", "cancelled"}, start : Nat, paidUntil : Nat]
Events == [n : Nat, kind : {"charged", "failed", "cancelled"}, end : Nat \cup {None},
           plan : Nat]
Copies == [why : {"check", "bill", "webhook", "enrol"}, was : Documents,
           event : Events \cup {None}, made : Nat]
BillingTypes ==
  /\ now \in Nat /\ heard \in Nat /\ charge \in Nat /\ told \in Nat /\ upset \in BOOLEAN
  /\ billing \in Documents
  /\ copy \in [Visits -> Copies \cup {None}]
  /\ \A r \in Visits : Billing!Is(r, "webhook") => copy[r].event \in Events
  /\ plans \in Seq(Plans)
  /\ mail \in SUBSET Events

\* The webhooks that are on their way or being handled.
Sent == mail \cup {copy[r].event : r \in {s \in Visits : Billing!Is(s, "webhook")}}
Of(e, f) == e.kind = "charged" /\ f.kind = "failed" /\ e.plan = f.plan
\* Each tells what Razorpay did; a period was over when its next charge failed.
SentFit ==
  \A e \in Sent :
    /\ e.n <= told /\ e.plan \in DOMAIN plans
    /\ e.kind = "charged" => e.end \in Nat /\ e.end <= plans[e.plan].paidUntil
InOrderOfTime == \A e, f \in Sent : Of(e, f) /\ e.n <= f.n => e.end <= now
\* No charge fails that is not late, nor is one tried, while the store has paid.
FailsUnpaid ==
  \A f \in Sent : f.kind = "failed" /\ f.plan = billing.plan /\ charge <= f.n => heard <= now
PaidTo ==
  \/ heard <= now
  \/ billing.plan \in DOMAIN plans /\ heard <= plans[billing.plan].paidUntil

\* The document b at time t of a store that was told that it has paid up to h.
Agrees(b, h, t) ==
  /\ b.status \in {"trialing", "active"} => b.grace = None
  /\ b.status = "trialing" => h = 0
  /\ b.status = "active" => b.end = h
  /\ b.status = "past_due" => b.grace # None /\ b.grace >= h
  /\ b.status = "suspended" => b.grace # None /\ t >= b.grace /\ t >= h

BillingInv ==
  /\ BillingTypes /\ SentFit /\ InOrderOfTime
  /\ ~upset => FailsUnpaid /\ PaidTo /\ Agrees(billing, heard, now)

LEMMA InitBillingInv == Billing!Init => BillingInv
<1> SUFFICES ASSUME Billing!Init PROVE BillingInv
  OBVIOUS
<1>1. /\ now = 0 /\ mail = {} /\ heard = 0 /\ charge = 0 /\ told = 0 /\ upset = FALSE
      /\ plans = <<>> /\ copy = [r \in Visits |-> None] /\ billing = Billing!NewStore
  BY DEF Billing!Init
<1>2. /\ billing \in Documents /\ billing.status = "trialing" /\ billing.grace = None
  BY <1>1 DEF Billing!NewStore, Documents, Statuses
<1>3. \A r \in Visits : copy[r] = None
  BY <1>1
<1>4. plans \in Seq(Plans)
  BY <1>1
<1>5. BillingTypes
  BY <1>1, <1>2, <1>3, <1>4 DEF BillingTypes, Billing!Is
<1>6. Sent = {}
  BY <1>1, <1>3 DEF Sent, Billing!Is
<1>7. SentFit /\ InOrderOfTime /\ FailsUnpaid
  BY <1>6 DEF SentFit, InOrderOfTime, FailsUnpaid
<1>8. PaidTo /\ Agrees(billing, heard, now)
  BY <1>1, <1>2 DEF PaidTo, Agrees
<1> QED
  BY <1>5, <1>7, <1>8 DEF BillingInv

LEMMA PlanTyped ==
  ASSUME NEW q \in Seq(Plans), NEW i \in DOMAIN q
  PROVE  /\ q[i] \in Plans /\ i \in 1..Len(q)
         /\ q[i].paidUntil \in Nat /\ q[i].start \in Nat
<1>1. i \in 1..Len(q) /\ q[i] \in Plans
  OBVIOUS
<1> QED
  BY <1>1 DEF Plans

\* Time goes on, and Razorpay takes back no charge.
Onward ==
  /\ now' \in Nat /\ now <= now' /\ told' \in Nat /\ told <= told'
  /\ plans' \in Seq(Plans)
  /\ \A i \in DOMAIN plans : /\ i \in DOMAIN plans'
                             /\ plans[i].paidUntil <= plans'[i].paidUntil

\* A request handles a webhook that was sent, and what is done with is sent no more.
LEMMA NoneIsSent ==
  ASSUME BillingTypes, NEW r \in Visits, NEW c \in Copies \cup {None},
         copy' = [copy EXCEPT ![r] = c], mail' \in SUBSET mail,
         c # None /\ c.why = "webhook" => c.event \in mail
  PROVE  /\ copy' \in [Visits -> Copies \cup {None}]
         /\ \A s \in Visits : Billing!Is(s, "webhook")' => copy'[s].event \in Events
         /\ mail' \in SUBSET Events /\ Sent' \subseteq Sent
<1>1. /\ copy' \in [Visits -> Copies \cup {None}] /\ copy'[r] = c
      /\ \A s \in Visits : s # r => copy'[s] = copy[s]
  BY DEF BillingTypes
<1>2. ASSUME NEW s \in Visits, Billing!Is(s, "webhook")'
      PROVE  copy'[s].event \in Events /\ copy'[s].event \in Sent
  <2>1. CASE s = r
    BY <1>1, <1>2, <2>1 DEF Billing!Is, BillingTypes, Sent
  <2>2. CASE s # r
    <3>1. copy'[s] = copy[s] /\ Billing!Is(s, "webhook")
      BY <1>1, <1>2, <2>2 DEF Billing!Is
    <3> QED
      BY <3>1 DEF BillingTypes, Sent
  <2> QED
    BY <2>1, <2>2
<1>3. Sent' \subseteq Sent
  <2>1. ASSUME NEW e \in Sent' PROVE e \in Sent
    <3>1. CASE e \in mail'
      BY <3>1 DEF Sent
    <3>2. CASE e \notin mail'
      <4>1. PICK s \in Visits : Billing!Is(s, "webhook")' /\ e = copy'[s].event
        BY <2>1, <3>2 DEF Sent
      <4> QED
        BY <1>2, <4>1
    <3> QED
      BY <3>1, <3>2
  <2> QED
    BY <2>1
<1>4. mail' \in SUBSET Events
  BY DEF BillingTypes
<1> QED
  BY <1>1, <1>2, <1>3, <1>4

LEMMA SentTyped == ASSUME BillingTypes PROVE Sent \subseteq Events
BY DEF BillingTypes, Sent

LEMMA SentFitStays ==
  ASSUME BillingInv, Onward, Sent' \subseteq Sent
  PROVE  SentFit' /\ InOrderOfTime'
<1>1. BillingTypes /\ Sent \subseteq Events
  BY SentTyped DEF BillingInv
<1>2. ASSUME NEW e \in Sent'
      PROVE  /\ e.n <= told' /\ e.plan \in DOMAIN plans'
             /\ e.kind = "charged" => e.end \in Nat /\ e.end <= plans'[e.plan].paidUntil
  <2>1. /\ e \in Sent /\ e.n \in Nat /\ e.n <= told /\ e.plan \in DOMAIN plans
        /\ e.kind = "charged" => e.end \in Nat /\ e.end <= plans[e.plan].paidUntil
    BY <1>1, <1>2 DEF BillingInv, SentFit, Events
  <2>2. e.n <= told'
    BY <1>1, <2>1 DEF Onward, BillingTypes
  <2>3. /\ plans[e.plan].paidUntil \in Nat /\ e.plan \in DOMAIN plans'
        /\ plans'[e.plan].paidUntil \in Nat
        /\ plans[e.plan].paidUntil <= plans'[e.plan].paidUntil
    BY <1>1, <2>1, PlanTyped DEF Onward, BillingTypes
  <2> QED
    BY <2>1, <2>2, <2>3
<1>3. ASSUME NEW e \in Sent', NEW f \in Sent', Of(e, f), e.n <= f.n PROVE e.end <= now'
  <2>1. e.end <= now /\ e.end \in Nat
    BY <1>3 DEF BillingInv, InOrderOfTime, SentFit, Of
  <2> QED
    BY <1>1, <2>1 DEF Onward, BillingTypes
<1> QED
  BY <1>2, <1>3 DEF SentFit, InOrderOfTime

\* What was paid still is.
LEMMA PaidStays ==
  ASSUME BillingInv, ~upset, Onward, Sent' \subseteq Sent,
         UNCHANGED <<heard, charge>>, billing'.plan = billing.plan
  PROVE  FailsUnpaid' /\ PaidTo'
<1>1. /\ now \in Nat /\ heard \in Nat /\ now' \in Nat /\ now <= now' /\ plans \in Seq(Plans)
      /\ FailsUnpaid /\ PaidTo
  BY DEF BillingInv, BillingTypes, Onward
<1>2. heard <= now => heard' <= now'
  BY <1>1
<1>3. FailsUnpaid'
  BY <1>1, <1>2 DEF FailsUnpaid
<1>4. PaidTo'
  <2>1. CASE heard <= now
    BY <1>2, <2>1 DEF PaidTo
  <2>2. CASE ~(heard <= now)
    <3>1. billing.plan \in DOMAIN plans /\ heard <= plans[billing.plan].paidUntil
      BY <1>1, <2>2 DEF PaidTo
    <3> PICK i : i = billing.plan
      OBVIOUS
    <3>2. /\ i \in DOMAIN plans' /\ plans[i].paidUntil <= plans'[i].paidUntil
          /\ plans[i].paidUntil \in Nat /\ plans'[i].paidUntil \in Nat
      BY <1>1, <3>1, PlanTyped DEF Onward
    <3>3. heard <= plans'[i].paidUntil
      BY <1>1, <3>1, <3>2
    <3> QED
      BY <3>2, <3>3 DEF PaidTo
  <2> QED
    BY <2>1, <2>2
<1> QED
  BY <1>3, <1>4

\* Time alone makes no document wrong.
LEMMA AgreesLater ==
  ASSUME NEW b \in Documents, NEW h \in Nat, NEW t \in Nat, NEW u \in Nat, t <= u,
         Agrees(b, h, t)
  PROVE  Agrees(b, h, u)
<1>1. b.grace \in Nat \cup {None} /\ None \notin Nat
  BY ServicesAssumption DEF Documents
<1>2. b.status = "suspended" => b.grace # None /\ u >= b.grace /\ u >= h
  BY <1>1 DEF Agrees
<1> QED
  BY <1>2 DEF Agrees

\* A step that changes nothing of what the store was told, nor its subscription.
LEMMA StoreKeeps ==
  ASSUME BillingInv, Onward, Sent' \subseteq Sent, mail' \in SUBSET Events,
         copy' \in [Visits -> Copies \cup {None}],
         \A s \in Visits : Billing!Is(s, "webhook")' => copy'[s].event \in Events,
         UNCHANGED <<heard, charge>>, billing' \in Documents, upset' \in BOOLEAN,
         ~upset' => /\ ~upset /\ billing'.plan = billing.plan
                    /\ Agrees(billing', heard, now')
  PROVE  BillingInv'
<1>1. SentFit' /\ InOrderOfTime'
  BY SentFitStays
<1>2. ~upset' => FailsUnpaid' /\ PaidTo'
  BY PaidStays
<1>3. BillingTypes'
  BY DEF Onward, BillingInv, BillingTypes
<1> QED
  BY <1>1, <1>2, <1>3 DEF BillingInv

LEMMA TickKeeps == ASSUME BillingInv, Billing!Tick PROVE BillingInv'
<1>1. /\ now' = now + 1 /\ now \in Nat /\ heard \in Nat /\ told \in Nat
      /\ UNCHANGED <<billing, copy, plans, mail, told, heard, charge, upset>>
      /\ plans \in Seq(Plans) /\ billing \in Documents
  BY DEF Billing!Tick, Billing!razorpay, BillingInv, BillingTypes
<1>2. Onward
  <2>1. \A i \in DOMAIN plans : plans[i].paidUntil \in Nat
    BY <1>1, PlanTyped
  <2> QED
    BY <1>1, <2>1 DEF Onward
<1>3. Sent' = Sent /\ \A s \in Visits : Billing!Is(s, "webhook")' <=> Billing!Is(s, "webhook")
  BY <1>1 DEF Sent, Billing!Is
<1>4. ~upset => Agrees(billing, heard, now')
  BY <1>1, AgreesLater DEF BillingInv
<1> QED
  BY <1>1, <1>2, <1>3, <1>4, StoreKeeps DEF BillingInv, BillingTypes

\* A step that takes no time and leaves Razorpay alone.
LEMMA NothingOnward ==
  ASSUME BillingTypes, UNCHANGED <<now, told, plans>> PROVE Onward
<1>1. \A i \in DOMAIN plans : plans[i].paidUntil \in Nat
  BY PlanTyped DEF BillingTypes
<1> QED
  BY <1>1 DEF Onward, BillingTypes

LEMMA LoadKeeps == ASSUME BillingInv, NEW r \in Visits, Billing!Load(r) PROVE BillingInv'
<1>1. UNCHANGED <<now, billing, plans, mail, told, heard, charge, upset>>
  BY DEF Billing!Load, Billing!razorpay
<1>2. PICK c \in Copies : /\ copy' = [copy EXCEPT ![r] = c]
                          /\ c.why = "webhook" => c.event \in mail
  <2>1. CASE \E why \in {"check", "bill"} :
               copy' = [copy EXCEPT ![r] = Billing!Loaded(why, billing, None, 0)]
    <3>1. PICK why \in {"check", "bill"} :
                 copy' = [copy EXCEPT ![r] = Billing!Loaded(why, billing, None, 0)]
      BY <2>1
    <3>2. /\ Billing!Loaded(why, billing, None, 0) \in Copies
          /\ Billing!Loaded(why, billing, None, 0).why # "webhook"
      BY DEF Billing!Loaded, Copies, BillingInv, BillingTypes
    <3> QED
      BY <3>1, <3>2
  <2>2. CASE \E e \in mail :
               copy' = [copy EXCEPT ![r] = Billing!Loaded("webhook", billing, e, 0)]
    <3>1. PICK e \in mail :
                 copy' = [copy EXCEPT ![r] = Billing!Loaded("webhook", billing, e, 0)]
      BY <2>2
    <3>2. /\ Billing!Loaded("webhook", billing, e, 0) \in Copies
          /\ Billing!Loaded("webhook", billing, e, 0).event = e
      BY DEF Billing!Loaded, Copies, BillingInv, BillingTypes
    <3> QED
      BY <3>1, <3>2
  <2> QED
    BY <2>1, <2>2 DEF Billing!Load
<1>3. /\ copy' \in [Visits -> Copies \cup {None}] /\ Sent' \subseteq Sent
      /\ \A s \in Visits : Billing!Is(s, "webhook")' => copy'[s].event \in Events
      /\ mail' \in SUBSET Events
  BY <1>1, <1>2, NoneIsSent DEF BillingInv
<1>4. Onward
  BY <1>1, NothingOnward DEF BillingInv
<1> QED
  BY <1>1, <1>3, <1>4, StoreKeeps DEF BillingInv, BillingTypes

\* A request that ends, whatever it was for.
LEMMA VisitEnds ==
  ASSUME BillingInv, NEW r \in Visits, Billing!Ends(r), mail' \in SUBSET mail
  PROVE  /\ copy' \in [Visits -> Copies \cup {None}] /\ Sent' \subseteq Sent
         /\ \A s \in Visits : Billing!Is(s, "webhook")' => copy'[s].event \in Events
         /\ mail' \in SUBSET Events
BY NoneIsSent DEF Billing!Ends, BillingInv

\* What ensure_billing_status_current makes of a document agrees with what it was told.
LEMMA CheckedAgrees ==
  ASSUME BillingInv
  PROVE  /\ \A b \in Documents : /\ Billing!Checked(b) \in Documents
                                 /\ Billing!Checked(b).plan = billing.plan
         /\ ~upset => Agrees(Billing!Checked(billing), heard, now)
<1>1. /\ TrialEnd \in Nat /\ Grace \in Nat /\ None \notin Nat
      /\ now \in Nat /\ heard \in Nat /\ billing \in Documents
  BY ServicesAssumption DEF BillingInv, BillingTypes
<1>2. ASSUME NEW b \in Documents
      PROVE  /\ Billing!Checked(b) \in Documents
             /\ Billing!Checked(b).plan = billing.plan
  <2> PICK c : c = Billing!Current(b, now)
    OBVIOUS
  <2>1. b.status \in Statuses /\ b.grace \in Nat \cup {None} /\ b.end \in Nat \cup {None}
    BY DEF Documents
  <2>2. Billing!Overdue(b, now) => Billing!GraceFrom(b) \in Nat
    BY <1>1, <2>1 DEF Billing!Overdue, Billing!GraceFrom
  <2>3. c.status \in Statuses /\ c.grace \in Nat \cup {None}
    BY <1>1, <2>1, <2>2 DEF Billing!Current, Statuses
  <2> QED
    BY <1>1, <2>3 DEF Billing!Checked, Documents
<1>3. ASSUME ~upset PROVE Agrees(Billing!Checked(billing), heard, now)
  <2> PICK b : b = billing
    OBVIOUS
  <2> PICK c : c = Billing!Current(b, now)
    OBVIOUS
  <2> PICK g : g = IF Billing!Overdue(b, now) THEN Billing!GraceFrom(b) ELSE b.grace
    OBVIOUS
  <2> PICK d : d = Billing!Checked(billing)
    OBVIOUS
  <2>1. /\ b.status \in Statuses /\ b.grace \in Nat \cup {None}
        /\ b.end \in Nat \cup {None} /\ Agrees(b, heard, now)
    BY <1>1, <1>3 DEF Documents, BillingInv
  <2>2. d.end = b.end /\ d.status = c.status /\ d.grace = c.grace
    BY <1>1 DEF Billing!Checked, Documents
  <2>3. CASE b.status # "past_due" /\ ~Billing!Overdue(b, now)
    <3>1. c = [status |-> b.status, grace |-> b.grace]
      BY <2>3 DEF Billing!Current
    <3>2. c.status = b.status /\ c.grace = b.grace
      BY <3>1
    <3> QED
      BY <2>1, <2>2, <3>2 DEF Agrees
  <2>4. CASE b.status = "past_due" \/ Billing!Overdue(b, now)
    <3>1. g \in Nat /\ g >= heard
      <4>1. CASE b.status = "trialing" /\ Billing!Overdue(b, now)
        BY <1>1, <2>1, <4>1 DEF Billing!GraceFrom, Agrees
      <4>2. CASE b.status = "active" /\ Billing!Overdue(b, now)
        <5>1. b.end = heard /\ g = b.end + Grace
          BY <2>1, <4>2 DEF Agrees, Billing!GraceFrom
        <5> QED
          BY <1>1, <5>1
      <4>3. CASE b.status = "past_due"
        BY <2>1, <4>3 DEF Agrees, Billing!Overdue
      <4> QED
        BY <2>4, <4>1, <4>2, <4>3 DEF Billing!Overdue
    <3>2. c = [status |-> IF now >= g THEN "suspended" ELSE "past_due", grace |-> g]
      BY <1>1, <2>4, <3>1 DEF Billing!Current
    <3>3. c.status = (IF now >= g THEN "suspended" ELSE "past_due") /\ c.grace = g
      BY <3>2
    <3>4. now >= g => now >= heard
      BY <1>1, <3>1
    <3> QED
      BY <1>1, <2>2, <3>1, <3>3, <3>4 DEF Agrees
  <2> QED
    BY <2>3, <2>4
<1> QED
  BY <1>2, <1>3

\* A request that writes what it would write now.
LEMMA WriteAgrees ==
  ASSUME BillingInv, NEW b \in Documents, Billing!Write(Billing!Checked(b), Billing!Checked(billing))
  PROVE  /\ billing' \in Documents /\ upset' \in BOOLEAN
         /\ ~upset' => /\ ~upset /\ billing'.plan = billing.plan
                       /\ Agrees(billing', heard, now)
<1>1. billing' = Billing!Checked(b) /\ upset \in BOOLEAN
      /\ upset' = (upset \/ Billing!Checked(b) # Billing!Checked(billing))
  BY DEF Billing!Write, BillingInv, BillingTypes
<1>2. upset' \in BOOLEAN
  BY <1>1
<1>3. ~upset' => ~upset /\ billing' = Billing!Checked(billing)
  BY <1>1
<1> QED
  BY <1>1, <1>2, <1>3, CheckedAgrees

LEMMA CheckKeeps == ASSUME BillingInv, NEW r \in Visits, Billing!Check(r) PROVE BillingInv'
<1>1. /\ copy[r] # None /\ Billing!Ends(r)
      /\ UNCHANGED <<now, plans, mail, told, heard, charge>>
      /\ Billing!Write(Billing!Checked(copy[r].was), Billing!Checked(billing))
  BY DEF Billing!Check, Billing!Is, Billing!razorpay
<1>2. copy[r].was \in Documents
  BY <1>1 DEF BillingInv, BillingTypes, Copies
<1>3. Onward
  BY <1>1, NothingOnward DEF BillingInv
<1> QED
  BY <1>1, <1>2, <1>3, VisitEnds, WriteAgrees, StoreKeeps

LEMMA SubscribeKeeps ==
  ASSUME BillingInv, NEW r \in Visits, Billing!Subscribe(r)
  PROVE  BillingInv'
<1>1. /\ copy[r] # None /\ UNCHANGED <<now, mail, told, heard, charge>>
      /\ Billing!Write(Billing!Checked(copy[r].was), Billing!Checked(billing))
      /\ \E s \in {now, TrialEnd} :
           plans' = Append(plans, [status |-> "active", start |-> s, paidUntil |-> 0])
      /\ copy' = [copy EXCEPT ![r] =
                    Billing!Loaded("enrol", Billing!NewStore, None, Len(plans) + 1)]
  BY DEF Billing!Subscribe, Billing!Is
<1>2. copy[r].was \in Documents /\ plans \in Seq(Plans)
  BY <1>1 DEF BillingInv, BillingTypes, Copies
<1>3. /\ Billing!Loaded("enrol", Billing!NewStore, None, Len(plans) + 1) \in Copies
      /\ Billing!Loaded("enrol", Billing!NewStore, None, Len(plans) + 1).why # "webhook"
  <2>1. Billing!NewStore \in Documents
    BY DEF Billing!NewStore, Documents, Statuses
  <2>2. Len(plans) + 1 \in Nat
    BY <1>2
  <2> QED
    BY <2>1, <2>2 DEF Billing!Loaded, Copies
<1>4. /\ copy' \in [Visits -> Copies \cup {None}] /\ Sent' \subseteq Sent
      /\ \A s \in Visits : Billing!Is(s, "webhook")' => copy'[s].event \in Events
      /\ mail' \in SUBSET Events
  BY <1>1, <1>3, NoneIsSent DEF BillingInv
<1>5. Onward
  <2>1. PICK s \in {now, TrialEnd} :
          plans' = Append(plans, [status |-> "active", start |-> s, paidUntil |-> 0])
    BY <1>1
  <2> PICK p : p = [status |-> "active", start |-> s, paidUntil |-> 0]
    OBVIOUS
  <2>2. p \in Plans /\ plans' = Append(plans, p)
    <3>1. s \in Nat
      BY ServicesAssumption DEF BillingInv, BillingTypes
    <3> QED
      BY <2>1, <3>1 DEF Plans
  <2>3. /\ plans' \in Seq(Plans)
        /\ \A i \in DOMAIN plans : i \in DOMAIN plans' /\ plans'[i] = plans[i]
    BY <1>2, <2>2
  <2>4. \A i \in DOMAIN plans : plans[i].paidUntil \in Nat
    BY <1>2, PlanTyped
  <2> QED
    BY <1>1, <2>3, <2>4 DEF Onward, BillingInv, BillingTypes
<1> QED
  BY <1>1, <1>2, <1>4, <1>5, WriteAgrees, StoreKeeps

LEMMA EnrolKeeps == ASSUME BillingInv, NEW r \in Visits, Billing!Enrol(r) PROVE BillingInv'
<1>1. /\ copy[r] # None /\ Billing!Ends(r) /\ UNCHANGED <<now, plans, mail, told, heard>>
      /\ billing' = [billing EXCEPT !.plan = copy[r].made, !.cancelled = FALSE]
      /\ charge' = 0 /\ upset' = (upset \/ now < heard)
  BY DEF Billing!Enrol, Billing!Is, Billing!razorpay
<1>2. /\ copy[r].made \in Nat /\ now \in Nat /\ heard \in Nat /\ billing \in Documents
      /\ upset \in BOOLEAN
  BY <1>1 DEF BillingInv, BillingTypes, Copies
<1>3. /\ billing' \in Documents /\ billing'.status = billing.status
      /\ billing'.grace = billing.grace /\ billing'.end = billing.end
  BY <1>1, <1>2 DEF Documents
<1>4. /\ copy' \in [Visits -> Copies \cup {None}] /\ Sent' \subseteq Sent
      /\ \A s \in Visits : Billing!Is(s, "webhook")' => copy'[s].event \in Events
      /\ mail' \in SUBSET Events
  BY <1>1, VisitEnds
<1>5. SentFit' /\ InOrderOfTime'
  BY <1>1, <1>4, NothingOnward, SentFitStays DEF BillingInv
<1>6. ASSUME ~upset' PROVE FailsUnpaid' /\ PaidTo' /\ Agrees(billing', heard', now')
  <2>1. ~upset /\ heard' <= now'
    <3>1. ~upset /\ ~(now < heard)
      BY <1>1, <1>6
    <3> QED
      BY <1>1, <1>2, <3>1
  <2>2. Agrees(billing', heard', now')
    BY <1>1, <1>3, <2>1 DEF BillingInv, Agrees
  <2> QED
    BY <2>1, <2>2 DEF FailsUnpaid, PaidTo
<1>7. BillingTypes'
  BY <1>1, <1>3, <1>4 DEF BillingInv, BillingTypes
<1> QED
  BY <1>5, <1>6, <1>7 DEF BillingInv

LEMMA ExemptKeeps == ASSUME BillingInv, Billing!Exempt PROVE BillingInv'
<1>1. /\ UNCHANGED <<now, copy, plans, mail, told, heard, charge, upset>>
      /\ billing' = [billing EXCEPT !.status = "exempt", !.grace = None]
  BY DEF Billing!Exempt, Billing!razorpay
<1>2. /\ billing' \in Documents /\ billing'.plan = billing.plan
      /\ billing'.status = "exempt"
  BY <1>1 DEF BillingInv, BillingTypes, Documents, Statuses
<1>3. Agrees(billing', heard, now)
  BY <1>2 DEF Agrees
<1>4. Sent' = Sent /\ \A s \in Visits : Billing!Is(s, "webhook")' <=> Billing!Is(s, "webhook")
  BY <1>1 DEF Sent, Billing!Is
<1>5. Onward
  BY <1>1, NothingOnward DEF BillingInv
<1> QED
  BY <1>1, <1>2, <1>3, <1>4, <1>5, StoreKeeps DEF BillingInv, BillingTypes

LEMMA BillKeeps == ASSUME BillingInv, NEW r \in Visits, Billing!Bill(r) PROVE BillingInv'
<1> PICK b : b = copy[r].was
  OBVIOUS
<1>1. /\ copy[r] # None /\ Billing!Ends(r) /\ upset' = TRUE
      /\ UNCHANGED <<now, plans, mail, told, heard, charge>>
      /\ billing' = [billing EXCEPT !.status = "past_due", !.grace = now + Grace,
                       !.end = b.end, !.plan = b.plan]
  BY DEF Billing!Bill, Billing!Is, Billing!razorpay
<1>2. b \in Documents /\ billing \in Documents /\ now + Grace \in Nat
  BY <1>1, ServicesAssumption DEF BillingInv, BillingTypes, Copies
<1>3. billing' \in Documents
  BY <1>1, <1>2 DEF Documents, Statuses
<1>4. Onward
  BY <1>1, NothingOnward DEF BillingInv
<1> QED
  BY <1>1, <1>3, <1>4, VisitEnds, StoreKeeps

\* A webhook the store was told of in time is written as it should be.
LEMMA HandledAgrees ==
  ASSUME BillingInv, NEW b \in Documents, NEW e \in Sent
  PROVE  /\ Billing!Handled(b, e) \in Documents /\ Billing!Handled(b, e).plan = billing.plan
         /\ e.kind = "charged" => Agrees(Billing!Handled(billing, e), e.end, now)
         /\ ~upset /\ e.kind # "charged" /\ e.plan = billing.plan
            /\ (e.kind = "failed" => charge <= e.n)
              => Agrees(Billing!Handled(billing, e), heard, now)
<1>1. /\ e \in Events /\ e.kind \in {"charged", "failed", "cancelled"}
      /\ e.kind = "charged" => e.end \in Nat
  BY SentTyped DEF BillingInv, SentFit, Events
<1>2. /\ billing \in Documents /\ billing.status \in Statuses
      /\ billing.grace \in Nat \cup {None} /\ None \notin Nat
      /\ now \in Nat /\ heard \in Nat /\ Grace \in Nat /\ now + Grace \in Nat
  BY ServicesAssumption DEF BillingInv, BillingTypes, Documents
<1>3. CASE e.kind = "charged"
  <2>1. Billing!Handled(b, e) = Billing!Charged(b, e)
        /\ Billing!Handled(billing, e) = Billing!Charged(billing, e)
    BY <1>3 DEF Billing!Handled
  <2>2. Billing!Charged(b, e) \in Documents /\ Billing!Charged(b, e).plan = billing.plan
    BY <1>1, <1>2, <1>3 DEF Billing!Charged, Documents, Statuses
  <2> PICK d : d = Billing!Charged(billing, e)
    OBVIOUS
  <2>3. /\ d.end = e.end
        /\ \/ d.status = "exempt"
           \/ d.status = "active" /\ d.grace = None
    <3> PICK paid : paid = [billing EXCEPT !.end = e.end]
      OBVIOUS
    <3>1. paid.end = e.end /\ paid.status = billing.status
      BY <1>2 DEF Documents
    <3>2. CASE billing.status = "exempt"
      <4>1. d = paid
        BY <3>2 DEF Billing!Charged
      <4> QED
        BY <3>1, <3>2, <4>1
    <3>3. CASE billing.status # "exempt"
      <4>1. d = [paid EXCEPT !.status = "active", !.grace = None]
        BY <3>3 DEF Billing!Charged
      <4>2. /\ {"status", "grace", "end"} \subseteq DOMAIN paid
        BY <1>2 DEF Documents
      <4> QED
        BY <3>1, <4>1, <4>2
    <3> QED
      BY <3>2, <3>3
  <2> QED
    BY <1>3, <2>1, <2>2, <2>3 DEF Agrees
<1>4. CASE e.kind = "failed"
  <2>1. Billing!Handled(b, e) = Billing!Failed(b)
        /\ Billing!Handled(billing, e) = Billing!Failed(billing)
    BY <1>4 DEF Billing!Handled
  <2>2. Billing!Failed(b) \in Documents /\ Billing!Failed(b).plan = billing.plan
    BY <1>2 DEF Billing!Failed, Documents, Statuses
  <2>3. ASSUME ~upset, e.plan = billing.plan, charge <= e.n
        PROVE  Agrees(Billing!Failed(billing), heard, now)
    <3>1. heard <= now /\ Agrees(billing, heard, now)
      BY <1>4, <2>3 DEF BillingInv, FailsUnpaid
    <3>2. CASE billing.status \in {"exempt", "suspended"}
      BY <3>1, <3>2 DEF Billing!Failed
    <3>3. CASE billing.status \notin {"exempt", "suspended"}
      <4> PICK g : g = IF billing.grace = None THEN now + Grace ELSE billing.grace
        OBVIOUS
      <4>1. g \in Nat /\ g >= heard
        <5>1. CASE billing.grace = None
          BY <1>2, <3>1, <5>1
        <5>2. CASE billing.grace # None
          BY <1>2, <3>1, <3>3, <5>2 DEF Agrees, Statuses
        <5> QED
          BY <5>1, <5>2
      <4>2. /\ Billing!Failed(billing).status = "past_due"
            /\ Billing!Failed(billing).grace = g
        BY <1>2, <3>3 DEF Billing!Failed, Documents
      <4> QED
        BY <1>2, <4>1, <4>2 DEF Agrees
    <3> QED
      BY <3>2, <3>3
  <2> QED
    BY <1>4, <2>1, <2>2, <2>3
<1>5. CASE e.kind = "cancelled"
  <2>1. \A c : Billing!Handled(c, e) = [billing EXCEPT !.cancelled = TRUE]
    BY <1>5 DEF Billing!Handled
  <2> PICK d : d = [billing EXCEPT !.cancelled = TRUE]
    OBVIOUS
  <2>2. /\ d \in Documents /\ d.plan = billing.plan /\ d.status = billing.status
        /\ d.grace = billing.grace /\ d.end = billing.end
    BY <1>2 DEF Documents
  <2>3. ~upset => Agrees(d, heard, now)
    BY <2>2 DEF BillingInv, Agrees
  <2> QED
    BY <1>5, <2>1, <2>2, <2>3
<1> QED
  BY <1>1, <1>3, <1>4, <1>5

LEMMA WebhookKeeps ==
  ASSUME BillingInv, NEW r \in Visits, Billing!Webhook(r)
  PROVE  BillingInv'
<1> PICK e : e = copy[r].event
  OBVIOUS
<1> PICK b : b = copy[r].was
  OBVIOUS
<1> PICK fresh : fresh = IF e.plan = billing.plan THEN Billing!Handled(billing, e) ELSE billing
  OBVIOUS
<1> DEFINE late == e.kind # "cancelled" /\ e.n < charge
<1> DEFINE counts == e.plan = billing.plan /\ e.kind = "charged" /\ ~late
<1>1. /\ copy[r] # None /\ Billing!Ends(r) /\ UNCHANGED <<now, plans, told>>
      /\ mail' \in SUBSET mail /\ billing' = Billing!Handled(b, e)
      /\ counts => heard' = e.end /\ charge' = e.n /\ upset' = (billing' # fresh)
      /\ ~counts => /\ upset' = (upset \/ late \/ billing' # fresh)
                    /\ UNCHANGED <<heard, charge>>
  BY DEF Billing!Webhook, Billing!Is
<1>2. /\ b \in Documents /\ e \in Sent /\ e \in Events /\ billing \in Documents
      /\ charge \in Nat /\ e.n \in Nat /\ upset \in BOOLEAN /\ plans \in Seq(Plans)
      /\ e.kind = "charged" => e.end \in Nat
  <2>1. Billing!Is(r, "webhook")
    BY DEF Billing!Webhook
  <2>2. b \in Documents /\ e \in Events
    BY <1>1, <2>1 DEF BillingInv, BillingTypes, Copies
  <2>3. e \in Sent
    BY <2>1 DEF Sent
  <2> QED
    BY <2>2, <2>3 DEF BillingInv, BillingTypes, SentFit, Events
<1>3. /\ copy' \in [Visits -> Copies \cup {None}] /\ Sent' \subseteq Sent
      /\ \A s \in Visits : Billing!Is(s, "webhook")' => copy'[s].event \in Events
      /\ mail' \in SUBSET Events
  BY <1>1, VisitEnds
<1>4. Onward
  BY <1>1, NothingOnward DEF BillingInv
<1>5. /\ billing' \in Documents /\ billing'.plan = billing.plan
  BY <1>1, <1>2, HandledAgrees
<1>6. CASE ~counts
  <2>1. upset' \in BOOLEAN
    BY <1>1, <1>6
  <2>2. ASSUME ~upset' PROVE ~upset /\ Agrees(billing', heard, now)
    <3>1. ~upset /\ ~late /\ billing' = fresh
      BY <1>1, <1>6, <2>2
    <3>2. CASE e.plan # billing.plan
      BY <3>1, <3>2 DEF BillingInv
    <3>3. CASE e.plan = billing.plan
      <4>1. e.kind # "charged" /\ (e.kind = "failed" => charge <= e.n)
        BY <1>2, <1>6, <3>1, <3>3
      <4> QED
        BY <1>2, <3>1, <3>3, <4>1, HandledAgrees
    <3> QED
      BY <3>2, <3>3
  <2> QED
    BY <1>1, <1>3, <1>4, <1>5, <1>6, <2>1, <2>2, StoreKeeps
<1>7. CASE counts
  <2>1. /\ heard' = e.end /\ charge' = e.n /\ upset' = (billing' # fresh)
        /\ e.kind = "charged" /\ e.plan = billing.plan
    BY <1>1, <1>7
  <2>2. heard' \in Nat /\ charge' \in Nat /\ upset' \in BOOLEAN
    BY <1>2, <2>1
  <2>3. BillingTypes'
    BY <1>1, <1>3, <1>5, <2>2 DEF BillingInv, BillingTypes
  <2>4. SentFit' /\ InOrderOfTime'
    BY <1>3, <1>4, SentFitStays
  <2>5. FailsUnpaid'
    <3> SUFFICES ASSUME NEW f \in Sent', f.kind = "failed", f.plan = billing'.plan, e.n <= f.n
                 PROVE  e.end <= now
      BY <1>1, <2>1 DEF FailsUnpaid
    <3> QED
      BY <1>2, <1>3, <1>5, <2>1 DEF BillingInv, InOrderOfTime, Of
  <2>6. PaidTo'
    BY <1>1, <1>2, <1>5, <2>1 DEF BillingInv, SentFit, PaidTo
  <2>7. ~upset' => Agrees(billing', heard', now')
    BY <1>1, <1>2, <2>1, HandledAgrees
  <2> QED
    BY <2>3, <2>4, <2>5, <2>6, <2>7 DEF BillingInv
<1> QED
  BY <1>6, <1>7

LEMMA IgnoreKeeps == ASSUME BillingInv, Billing!Ignore PROVE BillingInv'
<1>1. /\ mail' \in SUBSET mail /\ copy' = copy
      /\ UNCHANGED <<now, billing, plans, told, heard, charge, upset>>
  BY DEF Billing!Ignore
<1>2. /\ Sent' \subseteq Sent /\ mail' \in SUBSET Events
      /\ \A s \in Visits : Billing!Is(s, "webhook")' <=> Billing!Is(s, "webhook")
  BY <1>1 DEF Sent, Billing!Is, BillingInv, BillingTypes
<1>3. Onward
  BY <1>1, NothingOnward DEF BillingInv
<1> QED
  BY <1>1, <1>2, <1>3, StoreKeeps DEF BillingInv, BillingTypes
\* The webhooks that are sent when Razorpay tells one more.
LEMMA TellSends ==
  ASSUME BillingTypes, NEW e, copy' = copy, mail' = mail \cup {e}
  PROVE  /\ Sent' \subseteq Sent \cup {e}
         /\ \A s \in Visits : Billing!Is(s, "webhook")' <=> Billing!Is(s, "webhook")
BY DEF Sent, Billing!Is

LEMMA RazorpayKeeps ==
  ASSUME BillingInv, NEW i \in DOMAIN plans, Billing!Razorpay(i)
  PROVE  BillingInv'
<1>1. /\ UNCHANGED <<now, billing, copy, heard, charge, upset>>
      /\ now \in Nat /\ heard \in Nat /\ charge \in Nat /\ told \in Nat
      /\ plans \in Seq(Plans) /\ plans[i] \in Plans
      /\ i \in 1..Len(plans) /\ plans[i].paidUntil \in Nat /\ Period \in Nat
      /\ Sent \subseteq Events
  BY PlanTyped, ServicesAssumption, SentTyped
     DEF Billing!Razorpay, BillingInv, BillingTypes
<1> DEFINE Does(kind, end, p) ==
             /\ kind \in {"charged", "failed", "cancelled"}
             /\ end \in Nat \cup {None} /\ p \in Plans /\ Billing!Tells(i, kind, end)
             /\ plans' = [plans EXCEPT ![i] = p] /\ plans[i].paidUntil <= p.paidUntil
             /\ kind = "charged" => end \in Nat /\ end = p.paidUntil
             /\ kind = "failed" => plans[i].paidUntil <= now
<1>2. PICK kind, end, p : Does(kind, end, p)
  <2>1. CASE /\ now >= plans[i].paidUntil /\ Billing!Tells(i, "charged", now + Period)
             /\ plans' = [plans EXCEPT ![i].status = "active", ![i].paidUntil = now + Period]
    <3> PICK p : p = [plans[i] EXCEPT !.status = "active", !.paidUntil = now + Period]
      OBVIOUS
    <3>1. now + Period \in Nat /\ plans[i].paidUntil <= now + Period
      BY <1>1, <2>1
    <3>2. p \in Plans /\ p.paidUntil = now + Period
      BY <1>1, <3>1 DEF Plans
    <3>3. plans' = [plans EXCEPT ![i] = p]
      BY <1>1, <2>1
    <3>4. Does("charged", now + Period, p)
      BY <2>1, <3>1, <3>2, <3>3
    <3> HIDE DEF Does
    <3> QED
      BY <3>4
  <2>2. CASE /\ now >= plans[i].paidUntil /\ Billing!Tells(i, "failed", None)
             /\ plans' = [plans EXCEPT ![i].status = "pending"]
    <3> PICK p : p = [plans[i] EXCEPT !.status = "pending"]
      OBVIOUS
    <3>1. p \in Plans /\ p.paidUntil = plans[i].paidUntil
      BY <1>1 DEF Plans
    <3>2. plans' = [plans EXCEPT ![i] = p] /\ plans[i].paidUntil <= now
      BY <1>1, <2>2
    <3>3. Does("failed", None, p)
      BY <1>1, <2>2, <3>1, <3>2
    <3> HIDE DEF Does
    <3> QED
      BY <3>3
  <2>3. CASE /\ plans' = [plans EXCEPT ![i].status = "cancelled"]
             /\ Billing!Tells(i, "cancelled", None)
    <3> PICK p : p = [plans[i] EXCEPT !.status = "cancelled"]
      OBVIOUS
    <3>1. p \in Plans /\ p.paidUntil = plans[i].paidUntil
      BY <1>1 DEF Plans
    <3>2. plans' = [plans EXCEPT ![i] = p]
      BY <1>1, <2>3
    <3>3. Does("cancelled", None, p)
      BY <1>1, <2>3, <3>1, <3>2
    <3> HIDE DEF Does
    <3> QED
      BY <3>3
  <2> QED
    BY <2>1, <2>2, <2>3 DEF Billing!Razorpay
<1> PICK e : e = [n |-> told + 1, kind |-> kind, end |-> end, plan |-> i]
  OBVIOUS
<1>3. /\ e \in Events /\ e.n = told + 1 /\ e.kind = kind /\ e.end = end /\ e.plan = i
      /\ mail' = mail \cup {e} /\ told' = told + 1
  BY <1>1, <1>2 DEF Events, Billing!Tells
<1>4. /\ plans' \in Seq(Plans) /\ DOMAIN plans' = DOMAIN plans /\ plans'[i] = p
      /\ \A j \in DOMAIN plans : j # i => plans'[j] = plans[j]
  BY <1>1, <1>2
<1>5. \A j \in DOMAIN plans : /\ plans[j].paidUntil \in Nat /\ plans'[j].paidUntil \in Nat
                              /\ plans[j].paidUntil <= plans'[j].paidUntil
  <2> SUFFICES ASSUME NEW j \in DOMAIN plans
               PROVE  /\ plans[j].paidUntil \in Nat /\ plans'[j].paidUntil \in Nat
                      /\ plans[j].paidUntil <= plans'[j].paidUntil
    OBVIOUS
  <2>1. plans[j].paidUntil \in Nat
    BY <1>1, PlanTyped DEF Plans
  <2>2. CASE j = i
    BY <1>2, <1>4, <2>1, <2>2 DEF Plans
  <2>3. CASE j # i
    BY <1>4, <2>1, <2>3
  <2> QED
    BY <2>2, <2>3
<1>6. /\ Sent' \subseteq Sent \cup {e}
      /\ \A s \in Visits : Billing!Is(s, "webhook")' <=> Billing!Is(s, "webhook")
  BY <1>1, <1>3, TellSends DEF BillingInv
<1>7. ASSUME NEW f \in Sent
      PROVE  /\ f.n \in Nat /\ f.n <= told /\ f.plan \in DOMAIN plans
             /\ f.kind = "charged" => f.end \in Nat /\ f.end <= plans[f.plan].paidUntil
  BY <1>1 DEF BillingInv, SentFit, Events
<1>8. SentFit'
  <2> SUFFICES ASSUME NEW f \in Sent'
               PROVE  /\ f.n <= told' /\ f.plan \in DOMAIN plans'
                      /\ f.kind = "charged" =>
                           f.end \in Nat /\ f.end <= plans'[f.plan].paidUntil
    BY DEF SentFit
  <2>1. CASE f = e
    BY <1>1, <1>2, <1>3, <1>4, <1>5, <2>1
  <2>2. CASE f \in Sent
    <3>1. f.n <= told' /\ f.plan \in DOMAIN plans'
      BY <1>1, <1>3, <1>4, <1>7, <2>2
    <3>2. f.kind = "charged" => f.end \in Nat /\ f.end <= plans'[f.plan].paidUntil
      BY <1>5, <1>7, <2>2
    <3> QED
      BY <3>1, <3>2
  <2> QED
    BY <1>6, <2>1, <2>2
<1>9. InOrderOfTime'
  <2> SUFFICES ASSUME NEW c \in Sent', NEW f \in Sent', Of(c, f), c.n <= f.n
               PROVE  c.end <= now
    BY <1>1 DEF InOrderOfTime
  <2>1. CASE c \in Sent /\ f \in Sent
    BY <2>1 DEF BillingInv, InOrderOfTime
  <2>2. CASE f = e
    <3>1. c \in Sent /\ plans[i].paidUntil <= now /\ c.plan = i /\ c.kind = "charged"
      BY <1>2, <1>3, <1>6, <2>2 DEF Of
    <3>2. c.end \in Nat /\ c.end <= plans[i].paidUntil
      BY <1>7, <3>1
    <3> QED
      BY <1>1, <3>1, <3>2
  <2>3. CASE c = e /\ f \in Sent
    <3>1. told + 1 <= f.n /\ f.n <= told /\ f.n \in Nat
      BY <1>3, <1>7, <2>3
    <3> QED
      BY <1>1, <3>1
  <2> QED
    BY <1>6, <2>1, <2>2, <2>3
<1>10. ASSUME ~upset PROVE FailsUnpaid' /\ PaidTo'
  <2>1. FailsUnpaid /\ PaidTo
    BY <1>10 DEF BillingInv
  <2>2. ASSUME kind = "failed", i = billing.plan PROVE heard <= now
    <3>1. heard <= now \/ heard <= plans[i].paidUntil
      BY <2>1, <2>2 DEF PaidTo
    <3> QED
      BY <1>1, <1>2, <2>2, <3>1
  <2>3. FailsUnpaid'
    <3> SUFFICES ASSUME NEW f \in Sent', f.kind = "failed", f.plan = billing.plan,
                        charge <= f.n
                 PROVE  heard <= now
      BY <1>1 DEF FailsUnpaid
    <3>1. CASE f = e
      BY <1>3, <2>2, <3>1
    <3>2. CASE f \in Sent
      BY <2>1, <3>2 DEF FailsUnpaid
    <3> QED
      BY <1>6, <3>1, <3>2
  <2>4. PaidTo'
    <3>1. CASE heard <= now
      BY <1>1, <3>1 DEF PaidTo
    <3>2. CASE ~(heard <= now)
      <4> PICK j : j = billing.plan
        OBVIOUS
      <4>1. j \in DOMAIN plans /\ heard <= plans[j].paidUntil
        BY <2>1, <3>2 DEF PaidTo
      <4>2. heard <= plans'[j].paidUntil
        BY <1>1, <1>5, <4>1
      <4> QED
        BY <1>1, <1>4, <4>1, <4>2 DEF PaidTo
    <3> QED
      BY <3>1, <3>2
  <2> QED
    BY <2>3, <2>4
<1>11. BillingTypes'
  BY <1>1, <1>3, <1>4, <1>6 DEF BillingInv, BillingTypes
<1> QED
  BY <1>1, <1>8, <1>9, <1>10, <1>11 DEF BillingInv

LEMMA NextBillingInv == BillingInv /\ [Billing!Next]_billingVars => BillingInv'
<1> SUFFICES ASSUME BillingInv, [Billing!Next]_billingVars PROVE BillingInv'
  OBVIOUS
<1>1. CASE Billing!Tick \/ Billing!Exempt \/ Billing!Ignore
  BY <1>1, TickKeeps, ExemptKeeps, IgnoreKeeps
<1>2. ASSUME NEW i \in DOMAIN plans, Billing!Razorpay(i) PROVE BillingInv'
  BY <1>2, RazorpayKeeps
<1>3. ASSUME NEW r \in Visits,
             \/ Billing!Load(r) \/ Billing!Check(r) \/ Billing!Subscribe(r)
             \/ Billing!Enrol(r) \/ Billing!Bill(r) \/ Billing!Webhook(r)
      PROVE  BillingInv'
  BY <1>3, LoadKeeps, CheckKeeps, SubscribeKeeps, EnrolKeeps, BillKeeps, WebhookKeeps
<1>4. CASE UNCHANGED billingVars
  <2>1. /\ UNCHANGED <<now, billing, copy, plans, mail, told, heard, charge, upset>>
    BY <1>4 DEF billingVars
  <2>2. Sent' = Sent /\ \A s \in Visits : Billing!Is(s, "webhook")' <=> Billing!Is(s, "webhook")
    BY <2>1 DEF Sent, Billing!Is
  <2>3. Onward
    BY <2>1, NothingOnward DEF BillingInv
  <2> QED
    BY <2>1, <2>2, <2>3, StoreKeeps DEF BillingInv, BillingTypes
<1> QED
  BY <1>1, <1>2, <1>3, <1>4 DEF Billing!Next

LEMMA BillingHolds == BillingInv => Billing!PaidStaysOpen
BY DEF BillingInv, Agrees, Billing!PaidStaysOpen
-----------------------------------------------------------------------------
(* Invoices and credit notes: every number in a document, and every number a *)
(* request holds for one, was drawn from its kind's counter, and no two are  *)
(* equal; a number lost by a crash is never drawn again                      *)

Numbers == (1..MaxYear) \X (Nat \ {0})

TaxSteps == {"rest", "draw", "insert", "read again", "draw note", "insert note"}
Tasks == [at : TaxSteps, order : TaxedOrders \cup {None}, amount : (1..Total) \cup {None},
         number : Numbers \cup {None}]

\* The number was drawn from the counter of its kind.
DrawnFrom(c, kind, n) == n \in Numbers /\ n[2] <= c[kind][n[1]]
Drawn(kind, n) == DrawnFrom(counter, kind, n)

TaxTypes ==
  /\ year \in 1..MaxYear
  /\ counter \in [Taxes!Kinds -> [1..MaxYear -> Nat]]
  /\ invoice \in [TaxedOrders -> Numbers \cup {None}]
  /\ request \in [Clerks -> Tasks]
  /\ \A r \in Clerks :
       request[r].at \in {"draw", "insert", "read again"} => request[r].order \in TaxedOrders

NumbersDrawn ==
  /\ \A o \in TaxedOrders : invoice[o] # None => Drawn("invoice", invoice[o])
  /\ \A n \in notes : Drawn("note", n.number)
  /\ \A r \in Clerks :
       /\ Taxes!At(r, "insert") => Drawn("invoice", request[r].number)
       /\ Taxes!At(r, "insert note") => Drawn("note", request[r].number)

\* No two documents of a kind have one number, those a request is about to insert
\* included.
InvoicesDiffer ==
  /\ \A o, p \in TaxedOrders : o # p /\ invoice[o] # None => invoice[o] # invoice[p]
  /\ \A r \in Clerks, o \in TaxedOrders : Taxes!At(r, "insert") => request[r].number # invoice[o]
  /\ \A r, s \in Clerks :
       r # s /\ Taxes!At(r, "insert") /\ Taxes!At(s, "insert") =>
         request[r].number # request[s].number
NotesDiffer ==
  /\ \A m, n \in notes : m.number = n.number => m = n
  /\ \A r \in Clerks, n \in notes : Taxes!At(r, "insert note") => request[r].number # n.number
  /\ \A r, s \in Clerks :
       r # s /\ Taxes!At(r, "insert note") /\ Taxes!At(s, "insert note") =>
         request[r].number # request[s].number

AnswersAgree ==
  /\ \A a \in answered : a \in TaxedOrders \X Numbers /\ a[2] = invoice[a[1]]
  /\ \A r \in Clerks : Taxes!At(r, "read again") => invoice[request[r].order] # None

TaxInv == TaxTypes /\ NumbersDrawn /\ InvoicesDiffer /\ NotesDiffer /\ AnswersAgree

-----------------------------------------------------------------------------
LEMMA TaxNumbers == MaxYear \in Nat \ {0} /\ None \notin Numbers
BY ServicesAssumption DEF Numbers

LEMMA InitTaxInv == Taxes!Init => TaxInv
<1> SUFFICES ASSUME Taxes!Init PROVE TaxInv
  OBVIOUS
<1>1. Taxes!Resting \in Tasks /\ Taxes!Resting.at = "rest"
  BY DEF Taxes!Resting, Taxes!Job, Tasks, TaxSteps
<1>2. \A r \in Clerks : request[r] = Taxes!Resting
  BY DEF Taxes!Init
<1>3. TaxTypes
  <2>1. year \in 1..MaxYear /\ counter \in [Taxes!Kinds -> [1..MaxYear -> Nat]]
    BY TaxNumbers DEF Taxes!Init
  <2>2. invoice \in [TaxedOrders -> Numbers \cup {None}]
    BY DEF Taxes!Init
  <2>3. request \in [Clerks -> Tasks]
    BY <1>1 DEF Taxes!Init
  <2> QED
    BY <1>1, <1>2, <2>1, <2>2, <2>3 DEF TaxTypes
<1>4. NumbersDrawn /\ InvoicesDiffer /\ NotesDiffer /\ AnswersAgree
  BY <1>1, <1>2 DEF Taxes!Init, NumbersDrawn, InvoicesDiffer, NotesDiffer, AnswersAgree, Taxes!At
<1> QED
  BY <1>3, <1>4 DEF TaxInv

\* Clerks that hold no number they did not hold before.
LEMMA NoNumberTaken ==
  ASSUME TaxInv, UNCHANGED <<counter, invoice, notes>>,
         \A s \in Clerks : \/ request'[s] = request[s]
                             \/ request'[s].at \notin {"insert", "insert note"}
  PROVE  NumbersDrawn' /\ InvoicesDiffer' /\ NotesDiffer'
<1>1. \A k, n : Drawn(k, n)' <=> Drawn(k, n)
  BY DEF Drawn, DrawnFrom
<1>2. \A s \in Clerks :
        /\ Taxes!At(s, "insert")' => Taxes!At(s, "insert") /\ request'[s] = request[s]
        /\ Taxes!At(s, "insert note")' => Taxes!At(s, "insert note") /\ request'[s] = request[s]
  BY DEF Taxes!At
<1>3. NumbersDrawn'
  BY <1>1, <1>2 DEF TaxInv, NumbersDrawn
<1>4. InvoicesDiffer'
  BY <1>2 DEF TaxInv, InvoicesDiffer
<1>5. NotesDiffer'
  BY <1>2 DEF TaxInv, NotesDiffer
<1> QED
  BY <1>3, <1>4, <1>5

\* Another task of a request, not one with a number.
LEMMA OtherJob ==
  ASSUME TaxInv, NEW r \in Clerks, NEW task \in Tasks,
         task.at \notin {"insert", "insert note"},
         task.at \in {"draw", "read again"} => task.order \in TaxedOrders,
         request' = [request EXCEPT ![r] = task], UNCHANGED <<year, counter, invoice, notes>>
  PROVE  /\ TaxTypes' /\ NumbersDrawn' /\ InvoicesDiffer' /\ NotesDiffer'
         /\ \A s \in Clerks : request'[s] = IF s = r THEN task ELSE request[s]
<1>1. \A s \in Clerks : request'[s] = IF s = r THEN task ELSE request[s]
  BY DEF TaxInv, TaxTypes
<1>2. request' \in [Clerks -> Tasks]
  BY DEF TaxInv, TaxTypes
<1>3. TaxTypes'
  BY <1>1, <1>2 DEF TaxInv, TaxTypes
<1> QED
  BY <1>1, <1>3, NoNumberTaken

LEMMA EndsKeeps ==
  ASSUME TaxInv, NEW r \in Clerks, Taxes!Ends(r), UNCHANGED <<year, counter, invoice, notes>>
  PROVE  /\ TaxTypes' /\ NumbersDrawn' /\ InvoicesDiffer' /\ NotesDiffer'
         /\ UNCHANGED answered => AnswersAgree'
         /\ \A o \in TaxedOrders : invoice[o] # None /\ answered' = answered \cup {<<o, invoice[o]>>}
                              => AnswersAgree'
<1>1. /\ request' = [request EXCEPT ![r] = Taxes!Resting]
      /\ Taxes!Resting \in Tasks /\ Taxes!Resting.at = "rest"
  BY DEF Taxes!Ends, Taxes!Job, Taxes!Resting, Tasks, TaxSteps
<1>2. /\ TaxTypes' /\ NumbersDrawn' /\ InvoicesDiffer' /\ NotesDiffer'
      /\ \A s \in Clerks : request'[s] = IF s = r THEN Taxes!Resting ELSE request[s]
  BY <1>1, OtherJob
<1>3. \A s \in Clerks : Taxes!At(s, "read again")' => invoice'[request'[s].order] # None
  BY <1>1, <1>2 DEF TaxInv, AnswersAgree, Taxes!At
<1>4. UNCHANGED answered => AnswersAgree'
  BY <1>3 DEF TaxInv, AnswersAgree
<1>5. ASSUME NEW o \in TaxedOrders, invoice[o] # None, answered' = answered \cup {<<o, invoice[o]>>}
      PROVE  AnswersAgree'
  <2>1. invoice[o] \in Numbers
    BY <1>5 DEF TaxInv, TaxTypes
  <2>2. <<o, invoice[o]>> \in TaxedOrders \X Numbers
    BY <2>1
  <2>3. \A a \in answered' : a \in answered \/ a = <<o, invoice[o]>>
    BY <1>5
  <2>4. \A a \in answered : a \in TaxedOrders \X Numbers /\ a[2] = invoice[a[1]]
    BY DEF TaxInv, AnswersAgree
  <2>5. \A a \in answered' : a \in TaxedOrders \X Numbers /\ a[2] = invoice[a[1]]
    BY <2>2, <2>3, <2>4
  <2> QED
    BY <1>3, <2>5 DEF AnswersAgree
<1> QED
  BY <1>2, <1>4, <1>5

LEMMA AskInvoiceKeeps ==
  ASSUME TaxInv, NEW r \in Clerks, Taxes!AskInvoice(r)
  PROVE  TaxInv'
<1>1. UNCHANGED <<year, counter, invoice, notes>>
  BY DEF Taxes!AskInvoice, Taxes!Register
<1> PICK o \in TaxedOrders :
      IF invoice[o] # None THEN Taxes!Answers(r, o, invoice[o])
      ELSE /\ profile
           /\ request' = [request EXCEPT ![r] = Taxes!Job("draw", o, None, None)]
           /\ UNCHANGED answered
  BY DEF Taxes!AskInvoice
<1>2. CASE invoice[o] # None
  BY <1>1, <1>2, EndsKeeps DEF Taxes!Answers, TaxInv
<1>3. CASE invoice[o] = None
  <2> DEFINE task == Taxes!Job("draw", o, None, None)
  <2>1. task \in Tasks /\ task.at = "draw" /\ task.order = o
    BY DEF Taxes!Job, Tasks, TaxSteps
  <2>2. request' = [request EXCEPT ![r] = task] /\ UNCHANGED answered
    BY <1>3
  <2> HIDE DEF task
  <2>3. /\ TaxTypes' /\ NumbersDrawn' /\ InvoicesDiffer' /\ NotesDiffer'
        /\ \A s \in Clerks : request'[s] = IF s = r THEN task ELSE request[s]
    BY <1>1, <2>1, <2>2, OtherJob
  <2>4. \A s \in Clerks :
          Taxes!At(s, "read again")' => Taxes!At(s, "read again") /\ request'[s] = request[s]
    BY <2>1, <2>3 DEF Taxes!At
  <2>5. AnswersAgree'
    BY <1>1, <2>2, <2>4 DEF TaxInv, AnswersAgree
  <2> QED
    BY <2>3, <2>5 DEF TaxInv
<1> QED
  BY <1>2, <1>3

LEMMA AskNoteKeeps ==
  ASSUME TaxInv, NEW r \in Clerks, Taxes!AskNote(r)
  PROVE  TaxInv'
<1>1. UNCHANGED <<year, counter, invoice, notes, answered>>
  BY DEF Taxes!AskNote
<1> PICK o \in {x \in TaxedOrders : invoice[x] # None}, amount \in 1..Total :
      request' = [request EXCEPT ![r] = Taxes!Job("draw note", o, amount, None)]
  BY DEF Taxes!AskNote
<1> DEFINE task == Taxes!Job("draw note", o, amount, None)
<1>2. task \in Tasks /\ task.at = "draw note"
  BY DEF Taxes!Job, Tasks, TaxSteps
<1>3. request' = [request EXCEPT ![r] = task]
  OBVIOUS
<1> HIDE DEF task
<1>4. /\ TaxTypes' /\ NumbersDrawn' /\ InvoicesDiffer' /\ NotesDiffer'
      /\ \A s \in Clerks : request'[s] = IF s = r THEN task ELSE request[s]
  BY <1>1, <1>2, <1>3, OtherJob
<1>5. AnswersAgree'
  BY <1>1, <1>2, <1>4 DEF TaxInv, AnswersAgree, Taxes!At
<1> QED
  BY <1>4, <1>5 DEF TaxInv

LEMMA ReadAgainKeeps ==
  ASSUME TaxInv, NEW r \in Clerks, Taxes!ReadAgain(r)
  PROVE  TaxInv'
<1>1. request[r].order \in TaxedOrders /\ invoice[request[r].order] # None
  BY DEF Taxes!ReadAgain, TaxInv, TaxTypes, AnswersAgree, Taxes!At
<1> QED
  BY <1>1, EndsKeeps DEF Taxes!ReadAgain, Taxes!Answers, Taxes!Register, TaxInv

LEMMA CrashKeeps ==
  ASSUME TaxInv, NEW r \in Clerks, Taxes!Crash(r)
  PROVE  TaxInv'
BY EndsKeeps DEF Taxes!Crash, Taxes!Register, TaxInv

\* A number drawn is new, and those drawn before stay drawn.
LEMMA DrawIsNew ==
  ASSUME TaxTypes, NEW r \in Clerks, NEW kind \in Taxes!Kinds, NEW then, Taxes!Draw(r, kind, then)
  PROVE  LET n == <<year, counter[kind][year] + 1>> IN
         /\ counter' \in [Taxes!Kinds -> [1..MaxYear -> Nat]]
         /\ n \in Numbers
         /\ DrawnFrom(counter', kind, n)
         /\ \A m : \A k \in Taxes!Kinds : Drawn(k, m) => DrawnFrom(counter', k, m)
         /\ \A m : Drawn(kind, m) => m # n
<1> DEFINE n == <<year, counter[kind][year] + 1>>
<1>1. year \in 1..MaxYear /\ counter \in [Taxes!Kinds -> [1..MaxYear -> Nat]]
  BY DEF TaxTypes
<1>2. counter[kind] \in [1..MaxYear -> Nat] /\ counter[kind][year] \in Nat
  BY <1>1
<1>3. counter' = [counter EXCEPT ![kind][year] = @ + 1]
  BY DEF Taxes!Draw
<1>4. counter' \in [Taxes!Kinds -> [1..MaxYear -> Nat]]
  BY <1>1, <1>2, <1>3
<1>5. n \in Numbers /\ n[1] = year /\ n[2] = counter[kind][year] + 1
  BY <1>1, <1>2 DEF Numbers
<1>6. \A k \in Taxes!Kinds, y \in 1..MaxYear : counter[k][y] <= counter'[k][y]
  <2> TAKE k \in Taxes!Kinds, y \in 1..MaxYear
  <2>1. counter[k][y] \in Nat
    BY <1>1
  <2>2. CASE k = kind /\ y = year
    BY <1>1, <1>2, <1>3, <2>1, <2>2
  <2>3. CASE k # kind \/ y # year
    BY <1>1, <1>3, <2>1, <2>3
  <2> QED
    BY <2>2, <2>3
<1>7. ASSUME NEW k \in Taxes!Kinds, NEW m, Drawn(k, m)
      PROVE  DrawnFrom(counter', k, m)
  <2>1. m \in Numbers /\ m[1] \in 1..MaxYear /\ m[2] \in Nat /\ m[2] <= counter[k][m[1]]
    BY <1>7 DEF Drawn, DrawnFrom, Numbers
  <2>2. counter[k][m[1]] \in Nat /\ counter'[k][m[1]] \in Nat
    BY <1>1, <1>4, <2>1
  <2>3. m[2] <= counter'[k][m[1]]
    BY <1>6, <2>1, <2>2
  <2> QED
    BY <2>1, <2>3 DEF Drawn, DrawnFrom
<1>8. counter'[kind][year] = counter[kind][year] + 1
  BY <1>1, <1>2, <1>3
<1> HIDE DEF n
<1>9. DrawnFrom(counter', kind, n)
  <2>1. n[2] <= counter'[kind][n[1]]
    BY <1>2, <1>5, <1>8
  <2> QED
    BY <1>5, <2>1 DEF Drawn, DrawnFrom, Numbers
<1>10. ASSUME NEW m, Drawn(kind, m) PROVE m # n
  <2>1. m[2] <= counter[kind][m[1]]
    BY <1>10 DEF Drawn, DrawnFrom
  <2> QED
    BY <1>2, <1>5, <2>1
<1> USE DEF n
<1> QED
  BY <1>4, <1>5, <1>7, <1>9, <1>10

LEMMA DrawKeeps ==
  ASSUME TaxInv, NEW r \in Clerks, Taxes!DrawInvoice(r) \/ Taxes!DrawNote(r)
  PROVE  TaxInv'
<1> PICK kind \in Taxes!Kinds, then \in {"insert", "insert note"} :
      /\ Taxes!Draw(r, kind, then)
      /\ then = IF kind = "invoice" THEN "insert" ELSE "insert note"
      /\ kind = "invoice" => request[r].order \in TaxedOrders
  BY DEF Taxes!DrawInvoice, Taxes!DrawNote, Taxes!Kinds, TaxInv, TaxTypes, Taxes!At
<1>1. UNCHANGED <<year, invoice, notes, answered>>
  BY DEF Taxes!DrawInvoice, Taxes!DrawNote, Taxes!Register
<1> DEFINE n == <<year, counter[kind][year] + 1>>
           task == Taxes!Job(then, request[r].order, request[r].amount, n)
<1>2. /\ counter' \in [Taxes!Kinds -> [1..MaxYear -> Nat]]
      /\ n \in Numbers
      /\ DrawnFrom(counter', kind, n)
      /\ \A m : \A k \in Taxes!Kinds : Drawn(k, m) => DrawnFrom(counter', k, m)
      /\ \A m : Drawn(kind, m) => m # n
  BY DrawIsNew DEF TaxInv
<1>3. request[r] \in Tasks
  BY DEF TaxInv, TaxTypes
<1>4. task \in Tasks /\ task.at = then /\ task.order = request[r].order /\ task.number = n
  BY <1>2, <1>3 DEF Taxes!Job, Tasks, TaxSteps
<1>5. request' = [request EXCEPT ![r] = task]
  BY DEF Taxes!Draw
<1> HIDE DEF n, task
<1>6. /\ request'[r] = task
      /\ \A s \in Clerks : s # r => request'[s] = request[s]
  BY <1>5 DEF TaxInv, TaxTypes
<1>7. TaxTypes'
  <2>1. request' \in [Clerks -> Tasks]
    BY <1>4, <1>5 DEF TaxInv, TaxTypes
  <2>2. \A s \in Clerks :
          request'[s].at \in {"draw", "insert", "read again"} => request'[s].order \in TaxedOrders
    BY <1>4, <1>6 DEF TaxInv, TaxTypes, Taxes!Kinds
  <2> QED
    BY <1>1, <1>2, <2>1, <2>2 DEF TaxInv, TaxTypes
<1>8. \A s \in Clerks : s # r =>
        /\ Taxes!At(s, "insert")' => Taxes!At(s, "insert") /\ request'[s] = request[s]
        /\ Taxes!At(s, "insert note")' => Taxes!At(s, "insert note") /\ request'[s] = request[s]
        /\ Taxes!At(s, "read again")' => Taxes!At(s, "read again") /\ request'[s] = request[s]
  BY <1>6 DEF Taxes!At
<1>9. /\ request'[r].number = n
      /\ Taxes!At(r, "insert")' => kind = "invoice"
      /\ Taxes!At(r, "insert note")' => kind = "note"
      /\ ~Taxes!At(r, "read again")'
  BY <1>4, <1>6 DEF Taxes!At, Taxes!Kinds
<1>10. NumbersDrawn'
  <2>1. \A o \in TaxedOrders : invoice[o] # None => DrawnFrom(counter', "invoice", invoice[o])
    BY <1>2 DEF TaxInv, NumbersDrawn, Taxes!Kinds
  <2>2. \A x \in notes : DrawnFrom(counter', "note", x.number)
    BY <1>2 DEF TaxInv, NumbersDrawn, Taxes!Kinds
  <2>3. \A s \in Clerks :
          /\ Taxes!At(s, "insert") => DrawnFrom(counter', "invoice", request[s].number)
          /\ Taxes!At(s, "insert note") => DrawnFrom(counter', "note", request[s].number)
    BY <1>2 DEF TaxInv, NumbersDrawn, Taxes!Kinds
  <2>4. /\ Taxes!At(r, "insert")' => DrawnFrom(counter', "invoice", request'[r].number)
        /\ Taxes!At(r, "insert note")' => DrawnFrom(counter', "note", request'[r].number)
    BY <1>2, <1>9
  <2>5. \A s \in Clerks :
          /\ Taxes!At(s, "insert")' => DrawnFrom(counter', "invoice", request'[s].number)
          /\ Taxes!At(s, "insert note")' => DrawnFrom(counter', "note", request'[s].number)
    BY <1>8, <2>3, <2>4
  <2> QED
    BY <1>1, <2>1, <2>2, <2>5 DEF NumbersDrawn, Drawn, DrawnFrom
<1>11. InvoicesDiffer'
  <2>1. \A s \in Clerks : s # r /\ Taxes!At(s, "insert")' /\ kind = "invoice" =>
                              request'[s].number # n
    BY <1>2, <1>8 DEF TaxInv, NumbersDrawn
  <2>2. \A o \in TaxedOrders : kind = "invoice" => n # invoice[o]
    BY <1>2, TaxNumbers DEF TaxInv, NumbersDrawn
  <2> QED
    BY ZenonT(40), <1>1, <1>8, <1>9, <2>1, <2>2 DEF TaxInv, InvoicesDiffer
<1>12. NotesDiffer'
  <2>1. \A s \in Clerks : s # r /\ Taxes!At(s, "insert note")' /\ kind = "note" =>
                              request'[s].number # n
    BY <1>2, <1>8 DEF TaxInv, NumbersDrawn
  <2>2. \A x \in notes : kind = "note" => n # x.number
    BY <1>2 DEF TaxInv, NumbersDrawn
  <2> QED
    BY ZenonT(40), <1>1, <1>8, <1>9, <2>1, <2>2 DEF TaxInv, NotesDiffer
<1>13. AnswersAgree'
  BY <1>1, <1>8, <1>9 DEF TaxInv, AnswersAgree
<1> QED
  BY <1>7, <1>10, <1>11, <1>12, <1>13 DEF TaxInv

LEMMA InsertInvoiceKeeps ==
  ASSUME TaxInv, NEW r \in Clerks, Taxes!InsertInvoice(r)
  PROVE  TaxInv'
<1> DEFINE o == request[r].order
           n == request[r].number
<1>1. UNCHANGED <<year, counter, notes>> /\ Taxes!At(r, "insert")
  BY DEF Taxes!InsertInvoice, Taxes!Register
<1>2. o \in TaxedOrders /\ n \in Numbers /\ Drawn("invoice", n)
  BY <1>1 DEF TaxInv, TaxTypes, NumbersDrawn, Drawn, DrawnFrom, Taxes!At
<1>3. IF invoice[o] = None
      THEN invoice' = [invoice EXCEPT ![o] = n] /\ Taxes!Answers(r, o, n)
      ELSE /\ request' = [request EXCEPT ![r] = Taxes!Job("read again", o, None, None)]
           /\ UNCHANGED <<invoice, answered>>
  BY DEF Taxes!InsertInvoice
<1>4. \A s \in Clerks : s # r /\ Taxes!At(s, "insert") => request[s].number # n
  BY <1>1 DEF TaxInv, InvoicesDiffer
<1>5. \A p \in TaxedOrders : invoice[p] # n
  BY <1>1 DEF TaxInv, InvoicesDiffer
<1> HIDE DEF o, n
<1>6. CASE invoice[o] = None
  <2>1. invoice' = [invoice EXCEPT ![o] = n] /\ answered' = answered \cup {<<o, n>>}
    BY <1>3, <1>6 DEF Taxes!Answers
  <2>2. /\ request' = [request EXCEPT ![r] = Taxes!Resting]
        /\ Taxes!Resting \in Tasks /\ Taxes!Resting.at = "rest"
    BY <1>3, <1>6 DEF Taxes!Answers, Taxes!Ends, Taxes!Job, Taxes!Resting, Tasks, TaxSteps
  <2>3. /\ request'[r] = Taxes!Resting
        /\ \A s \in Clerks : s # r => request'[s] = request[s]
    BY <2>2 DEF TaxInv, TaxTypes
  <2>4. /\ invoice'[o] = n
        /\ \A p \in TaxedOrders : p # o => invoice'[p] = invoice[p]
    BY <1>2, <2>1 DEF TaxInv, TaxTypes
  <2>5. \A s \in Clerks :
          /\ Taxes!At(s, "insert")' => s # r /\ Taxes!At(s, "insert") /\ request'[s] = request[s]
          /\ Taxes!At(s, "insert note")' => Taxes!At(s, "insert note") /\ request'[s] = request[s]
          /\ Taxes!At(s, "read again")' => Taxes!At(s, "read again") /\ request'[s] = request[s]
    BY <2>2, <2>3 DEF Taxes!At
  <2>6. TaxTypes'
    <3>1. request' \in [Clerks -> Tasks]
      BY <2>2 DEF TaxInv, TaxTypes
    <3>2. invoice' \in [TaxedOrders -> Numbers \cup {None}]
      BY <1>2, <2>1 DEF TaxInv, TaxTypes
    <3>3. \A s \in Clerks :
            request'[s].at \in {"draw", "insert", "read again"} => request'[s].order \in TaxedOrders
      BY <2>2, <2>3 DEF TaxInv, TaxTypes
    <3> QED
      BY <1>1, <3>1, <3>2, <3>3 DEF TaxInv, TaxTypes
  <2>7. NumbersDrawn'
    <3>1. \A p \in TaxedOrders : invoice'[p] # None => DrawnFrom(counter, "invoice", invoice'[p])
      BY <1>2, <2>4 DEF TaxInv, NumbersDrawn, Drawn
    <3> QED
      BY <1>1, <2>5, <3>1 DEF TaxInv, NumbersDrawn, Drawn, DrawnFrom
  <2>8. InvoicesDiffer'
    <3>1. \A p, q \in TaxedOrders : p # q /\ invoice'[p] # None => invoice'[p] # invoice'[q]
      BY <1>5, <2>4 DEF TaxInv, InvoicesDiffer
    <3>2. \A s \in Clerks, p \in TaxedOrders :
            Taxes!At(s, "insert")' => request'[s].number # invoice'[p]
      BY ZenonT(40), <1>4, <2>4, <2>5 DEF TaxInv, InvoicesDiffer
    <3> QED
      BY <2>5, <3>1, <3>2 DEF TaxInv, InvoicesDiffer
  <2>9. NotesDiffer'
    BY <1>1, <2>5 DEF TaxInv, NotesDiffer
  <2>10. AnswersAgree'
    <3>1. \A a \in answered : a \in TaxedOrders \X Numbers /\ a[2] = invoice[a[1]]
      BY DEF TaxInv, AnswersAgree
    <3>2. \A a \in answered : a[1] \in TaxedOrders /\ a[1] # o
      BY <1>6, <3>1, TaxNumbers
    <3>3. \A a \in answered : a \in TaxedOrders \X Numbers /\ a[2] = invoice'[a[1]]
      BY <2>4, <3>1, <3>2
    <3>4. <<o, n>> \in TaxedOrders \X Numbers /\ n = invoice'[o]
      BY <1>2, <2>4
    <3>5. \A a \in answered' : a \in TaxedOrders \X Numbers /\ a[2] = invoice'[a[1]]
      BY <2>1, <3>3, <3>4
    <3>6. \A s \in Clerks : Taxes!At(s, "read again")' => invoice'[request'[s].order] # None
      <4> SUFFICES ASSUME NEW s \in Clerks, Taxes!At(s, "read again")'
                   PROVE  invoice'[request'[s].order] # None
        OBVIOUS
      <4>1. request'[s].order \in TaxedOrders /\ invoice[request'[s].order] # None
        BY <2>5 DEF TaxInv, TaxTypes, AnswersAgree, Taxes!At
      <4> QED
        BY <1>6, <2>4, <4>1
    <3> QED
      BY <3>5, <3>6 DEF AnswersAgree
  <2> QED
    BY <2>6, <2>7, <2>8, <2>9, <2>10 DEF TaxInv
<1>7. CASE invoice[o] # None
  <2> DEFINE task == Taxes!Job("read again", o, None, None)
  <2>1. task \in Tasks /\ task.at = "read again" /\ task.order = o
    BY <1>2 DEF Taxes!Job, Tasks, TaxSteps
  <2>2. request' = [request EXCEPT ![r] = task] /\ UNCHANGED <<invoice, answered>>
    BY <1>3, <1>7
  <2> HIDE DEF task
  <2>3. /\ TaxTypes' /\ NumbersDrawn' /\ InvoicesDiffer' /\ NotesDiffer'
        /\ \A s \in Clerks : request'[s] = IF s = r THEN task ELSE request[s]
    BY <1>1, <1>2, <2>1, <2>2, OtherJob
  <2>4. \A s \in Clerks : Taxes!At(s, "read again")' => invoice[request'[s].order] # None
    BY <1>7, <2>1, <2>3 DEF TaxInv, AnswersAgree, Taxes!At
  <2>5. AnswersAgree'
    BY <2>2, <2>4 DEF TaxInv, AnswersAgree
  <2> QED
    BY <2>3, <2>5 DEF TaxInv
<1> QED
  BY <1>6, <1>7

LEMMA InsertNoteKeeps ==
  ASSUME TaxInv, NEW r \in Clerks, Taxes!InsertNote(r)
  PROVE  TaxInv'
<1> DEFINE note == [number |-> request[r].number, order |-> request[r].order,
                    amount |-> request[r].amount]
<1>1. UNCHANGED <<year, counter, invoice, answered>> /\ Taxes!At(r, "insert note")
  BY DEF Taxes!InsertNote, Taxes!Register
<1>2. notes' = notes \cup {note}
  BY DEF Taxes!InsertNote
<1>3. /\ note.number = request[r].number
      /\ DrawnFrom(counter, "note", note.number)
  BY <1>1 DEF TaxInv, NumbersDrawn, Drawn
<1> HIDE DEF note
<1>4. /\ request' = [request EXCEPT ![r] = Taxes!Resting]
      /\ Taxes!Resting \in Tasks /\ Taxes!Resting.at = "rest"
  BY DEF Taxes!InsertNote, Taxes!Ends, Taxes!Job, Taxes!Resting, Tasks, TaxSteps
<1>5. /\ request'[r] = Taxes!Resting
      /\ \A s \in Clerks : s # r => request'[s] = request[s]
  BY <1>4 DEF TaxInv, TaxTypes
<1>6. \A s \in Clerks :
        /\ Taxes!At(s, "insert")' => Taxes!At(s, "insert") /\ request'[s] = request[s]
        /\ Taxes!At(s, "insert note")' => s # r /\ Taxes!At(s, "insert note") /\ request'[s] = request[s]
        /\ Taxes!At(s, "read again")' => Taxes!At(s, "read again") /\ request'[s] = request[s]
  BY <1>4, <1>5 DEF Taxes!At
<1>7. TaxTypes'
  <2>1. request' \in [Clerks -> Tasks]
    BY <1>4 DEF TaxInv, TaxTypes
  <2>2. \A s \in Clerks :
          request'[s].at \in {"draw", "insert", "read again"} => request'[s].order \in TaxedOrders
    BY <1>4, <1>5 DEF TaxInv, TaxTypes
  <2> QED
    BY <1>1, <2>1, <2>2 DEF TaxInv, TaxTypes
<1>8. NumbersDrawn'
  <2>1. \A x \in notes' : DrawnFrom(counter, "note", x.number)
    BY <1>2, <1>3 DEF TaxInv, NumbersDrawn, Drawn
  <2> QED
    BY <1>1, <1>6, <2>1 DEF TaxInv, NumbersDrawn, Drawn, DrawnFrom
<1>9. InvoicesDiffer'
  BY <1>1, <1>6 DEF TaxInv, InvoicesDiffer
<1>10. NotesDiffer'
  <2>1. \A x \in notes : note.number # x.number
    BY <1>1, <1>3 DEF TaxInv, NotesDiffer
  <2>2. \A m, x \in notes' : m.number = x.number => m = x
    BY <1>2, <2>1 DEF TaxInv, NotesDiffer
  <2>3. \A s \in Clerks : Taxes!At(s, "insert note")' => request'[s].number # note.number
    BY <1>1, <1>3, <1>6 DEF TaxInv, NotesDiffer
  <2>4. \A s \in Clerks, x \in notes' :
          Taxes!At(s, "insert note")' => request'[s].number # x.number
    BY <1>2, <1>6, <2>3 DEF TaxInv, NotesDiffer
  <2> QED
    BY <1>6, <2>2, <2>4 DEF TaxInv, NotesDiffer
<1>11. AnswersAgree'
  BY <1>1, <1>6 DEF TaxInv, AnswersAgree
<1> QED
  BY <1>7, <1>8, <1>9, <1>10, <1>11 DEF TaxInv

LEMMA RegisterKeeps ==
  ASSUME TaxInv, UNCHANGED <<counter, invoice, notes, request, answered>>,
         year' = year \/ (year < MaxYear /\ year' = year + 1)
  PROVE  TaxInv'
<1>1. year \in 1..MaxYear /\ MaxYear \in Nat
  BY TaxNumbers DEF TaxInv, TaxTypes
<1>2. year' \in 1..MaxYear
  BY <1>1
<1>3. TaxTypes'
  BY <1>2 DEF TaxInv, TaxTypes
<1> QED
  BY <1>3
     DEF TaxInv, NumbersDrawn, InvoicesDiffer, NotesDiffer, AnswersAgree, Drawn, DrawnFrom,
         Taxes!At

LEMMA NextTaxInv == TaxInv /\ [Taxes!Next]_invoiceVars => TaxInv'
<1> SUFFICES ASSUME TaxInv, [Taxes!Next]_invoiceVars PROVE TaxInv'
  OBVIOUS
<1>1. CASE \E r \in Clerks :
             \/ Taxes!AskInvoice(r) \/ Taxes!DrawInvoice(r) \/ Taxes!InsertInvoice(r)
             \/ Taxes!ReadAgain(r)
             \/ Taxes!AskNote(r) \/ Taxes!DrawNote(r) \/ Taxes!InsertNote(r) \/ Taxes!Crash(r)
  BY <1>1, AskInvoiceKeeps, DrawKeeps, InsertInvoiceKeeps, ReadAgainKeeps, AskNoteKeeps,
     InsertNoteKeeps, CrashKeeps
<1>2. CASE Taxes!YearEnds \/ Taxes!CompleteProfile \/ UNCHANGED invoiceVars
  BY <1>2, RegisterKeeps DEF Taxes!YearEnds, Taxes!CompleteProfile, invoiceVars
<1> QED
  BY <1>1, <1>2 DEF Taxes!Next

LEMMA TaxesHold == TaxInv => Taxes!InvoicesStand
BY DEF TaxInv, InvoicesDiffer, NotesDiffer, AnswersAgree, Taxes!InvoicesStand
-----------------------------------------------------------------------------
(* The page of an order: what was read is the order kept, until an answer    *)
(* that changed it is on its way back, or somebody else changed it           *)

OrderTargets == Order!Targets \cup {"shipped", None}
OrderCalls == [to : OrderTargets, end : {"none", "sent", "made"}]

\* Every change the server made was heard; what a scan changed is behind.
OrderHeard == ~behind /\ \A k \in Order!Kinds \ {"track"} : sent[k].end # "made"

OrderInv ==
  /\ sent \in [Order!Kinds -> OrderCalls]
  /\ asking \in [kind : Order!Kinds \cup {None}, to : OrderTargets]
  /\ asking.kind # None => sent[asking.kind].end = "none"
  /\ orderReading.step = "done" /\ OrderHeard => shown = order
  /\ orderReading.step = "read" /\ OrderHeard => orderReading.order = order

LEMMA InitOrderInv == Order!Init => OrderInv
BY DEF Order!Init, OrderInv, OrderCalls, OrderTargets, Order!NoCall, Order!Read

\* A call is sent by a button, or by the answer to its question.
LEMMA OrderSends ==
  ASSUME OrderInv, UNCHANGED <<order, shown, orderReading, behind>>,
         NEW k \in Order!Kinds, NEW t \in OrderTargets, sent[k].end = "none", Order!Send(k, t),
         asking' = [kind |-> None, to |-> None] \/ (UNCHANGED asking /\ asking.kind = None)
  PROVE  OrderInv'
<1>1. sent' = [sent EXCEPT ![k] = [to |-> t, end |-> "sent"]]
  BY DEF Order!Send
<1>2. sent' \in [Order!Kinds -> OrderCalls]
  BY <1>1 DEF OrderInv, OrderCalls
<1>3. \A j \in Order!Kinds : sent'[j].end = "made" <=> sent[j].end = "made"
  BY <1>1 DEF OrderInv
<1>4. OrderHeard' <=> OrderHeard
  BY <1>3 DEF OrderHeard
<1>5. asking' \in [kind : Order!Kinds \cup {None}, to : OrderTargets] /\ asking'.kind = None
  BY DEF OrderInv, OrderTargets
<1> QED
  BY <1>2, <1>4, <1>5 DEF OrderInv

LEMMA OrderClickKeeps ==
  ASSUME OrderInv, NEW k \in Order!Kinds, NEW t \in OrderTargets, Order!Click(k, t)
  PROVE  OrderInv'
<1>1. sent[k].end = "none" /\ asking.kind = None
  BY DEF Order!Click, Order!Free, Order!NoCall, Order!NoQuestion
<1>2. CASE asking' = [kind |-> k, to |-> t] /\ UNCHANGED sent
  BY <1>1, <1>2 DEF Order!Click, OrderInv, OrderHeard
<1> QED
  BY <1>1, <1>2, OrderSends DEF Order!Click

\* A call ends: heard, or not, and then the page is behind what the server made of it.
LEMMA OrderCallEnds ==
  ASSUME OrderInv, NEW k \in Order!Kinds, sent' = [sent EXCEPT ![k] = Order!NoCall],
         UNCHANGED <<order, shown, asking>>,
         \/ k # "track" /\ orderReading' = Order!Asked
         \/ k = "track" /\ UNCHANGED <<orderReading, behind>>
         \/ UNCHANGED orderReading /\ behind' = (behind \/ sent[k].end = "made")
  PROVE  OrderInv'
<1>1. sent' \in [Order!Kinds -> OrderCalls]
  BY DEF OrderInv, OrderCalls, OrderTargets, Order!NoCall
<1>2. \A j \in Order!Kinds : sent'[j] = IF j = k THEN Order!NoCall ELSE sent[j]
  BY DEF OrderInv
<1>3. asking'.kind # None => sent'[asking'.kind].end = "none"
  BY <1>2 DEF OrderInv, Order!NoCall
<1>4. orderReading'.step = "asked" \/ (UNCHANGED orderReading /\ (OrderHeard' => OrderHeard))
  <2>1. CASE UNCHANGED orderReading /\ behind' = (behind \/ sent[k].end = "made")
    <3>1. OrderHeard' => ~behind /\ sent[k].end # "made"
      BY <2>1 DEF OrderHeard
    <3> QED
      BY <1>2, <2>1, <3>1 DEF OrderHeard
  <2>2. CASE UNCHANGED <<orderReading, behind>> /\ k = "track"
    BY <1>2, <2>2 DEF OrderHeard
  <2>3. CASE orderReading' = Order!Asked
    BY <2>3 DEF Order!Asked
  <2> QED
    BY <2>1, <2>2, <2>3
<1>5. orderReading'.step = "done" /\ OrderHeard' => shown' = order'
  BY <1>4 DEF OrderInv
<1>6. orderReading'.step = "read" /\ OrderHeard' => orderReading'.order = order'
  BY <1>4 DEF OrderInv
<1> QED
  BY <1>1, <1>3, <1>5, <1>6 DEF OrderInv

LEMMA OrderHandledKeeps ==
  ASSUME OrderInv, NEW k \in Order!Kinds, Order!ServerHandles(k)
  PROVE  OrderInv'
<1>1. /\ sent[k].end = "sent"
      /\ sent' = [sent EXCEPT ![k].end = "made"]
      /\ behind' = (behind \/ (k = "track" /\ order' # order))
      /\ UNCHANGED <<shown, orderReading, asking>>
  BY DEF Order!ServerHandles
<1>2. sent' \in [Order!Kinds -> OrderCalls]
  BY <1>1 DEF OrderInv, OrderCalls
<1>3. \A j \in Order!Kinds : sent'[j].end = IF j = k THEN "made" ELSE sent[j].end
  BY <1>1 DEF OrderInv, OrderCalls
<1>4. asking'.kind # None => sent'[asking'.kind].end = "none"
  BY <1>1, <1>3 DEF OrderInv
<1>5. OrderHeard' => OrderHeard /\ order' = order
  BY <1>1, <1>3 DEF OrderHeard
<1> QED
  BY <1>1, <1>2, <1>4, <1>5 DEF OrderInv

LEMMA NextOrderInv == OrderInv /\ [Order!Next]_orderVars => OrderInv'
<1> SUFFICES ASSUME OrderInv, [Order!Next]_orderVars PROVE OrderInv'
  OBVIOUS
<1>0. {"status", "return", "ship", "track"} \subseteq Order!Kinds
  BY DEF Order!Kinds
<1>1. ASSUME NEW t \in Order!Targets, Order!HandleStatusUpdate(t) \/ Order!HandleReturnAction(t)
      PROVE  OrderInv'
  BY <1>1, <1>0, OrderClickKeeps DEF Order!HandleStatusUpdate, Order!HandleReturnAction, OrderTargets
<1>2. CASE Order!TypeReason \/ \E p \in Papers : Order!HandlePaper(p) \/ Order!PaperEnds(p)
  BY <1>2 DEF Order!TypeReason, Order!HandlePaper, Order!PaperEnds, OrderInv, OrderHeard
<1>3. ASSUME NEW yes \in BOOLEAN, Order!AnswerQuestion(yes) PROVE OrderInv'
  <2>1. CASE yes
    <3>1. PICK k \in Order!Kinds, t \in OrderTargets : k = asking.kind /\ t = asking.to
      BY <1>3 DEF Order!AnswerQuestion, OrderInv
    <3>2. sent[k].end = "none"
      BY <1>3, <3>1 DEF Order!AnswerQuestion, OrderInv
    <3>3. /\ Order!Send(k, t) /\ asking' = [kind |-> None, to |-> None]
          /\ UNCHANGED <<order, shown, orderReading, behind>>
      BY <1>3, <2>1, <3>1 DEF Order!AnswerQuestion
    <3> QED
      BY <3>2, <3>3, OrderSends
  <2>2. CASE ~yes
    BY <1>3, <2>2 DEF Order!AnswerQuestion, OrderInv, OrderHeard, OrderTargets
  <2> QED
    BY <2>1, <2>2
<1>4. CASE Order!HandleShip \/ Order!HandleTrack
  BY <1>4, <1>0, OrderSends
     DEF Order!HandleShip, Order!HandleTrack, Order!Free, Order!NoCall, Order!NoQuestion, OrderTargets
<1>5. ASSUME NEW k \in Order!Kinds, Order!ServerHandles(k) PROVE OrderInv'
  BY <1>5, OrderHandledKeeps
<1>6. ASSUME NEW k \in Order!Kinds, Order!Answered(k) \/ Order!CallFailed(k) PROVE OrderInv'
  BY <1>6, <1>0, OrderCallEnds DEF Order!Answered, Order!CallFailed, Order!ReadAgain
<1>7. CASE Order!ServerReads \/ Order!OrderArrives \/ Order!ReadFails \/ Order!OthersMove
  BY <1>7
     DEF Order!ServerReads, Order!OrderArrives, Order!ReadFails, Order!OthersMove, Order!Read,
         OrderInv, OrderHeard
<1>8. CASE UNCHANGED orderVars
  BY <1>8 DEF orderVars, OrderInv, OrderHeard
<1> QED
  BY <1>1, <1>2, <1>3, <1>4, <1>5, <1>6, <1>7, <1>8 DEF Order!Next

LEMMA OrderHolds == OrderInv => Order!OrderShownIsOrderKept
BY DEF OrderInv, OrderHeard, Order!OrderShownIsOrderKept, Order!Read

-----------------------------------------------------------------------------
(* The list of orders: the page shown has rows while the list has any, for a  *)
(* change takes at most one order out of the view, and turns back with it     *)

Rank(S, o) == Cardinality({x \in S : x <= o})

\* The members of a finite set of numbers have the ranks 1, 2, and so on.
LEMMA RankTypes ==
  ASSUME NEW S \in SUBSET Nat, IsFiniteSet(S), NEW o \in S
  PROVE  Rank(S, o) \in 1..Cardinality(S)
<1> DEFINE below == {x \in S : x <= o}
<1>1. below \in SUBSET S /\ o \in below
  OBVIOUS
<1> HIDE DEF below
<1>2. IsFiniteSet(below) /\ Cardinality(below) <= Cardinality(S)
  BY <1>1, FS_Subset
<1>3. Cardinality(below) # 0
  BY <1>1, <1>2, FS_EmptySet
<1>4. Cardinality(below) \in Nat /\ Cardinality(S) \in Nat
  BY <1>2, FS_CardinalityType
<1>5. Rank(S, o) = Cardinality(below)
  BY DEF Rank, below
<1> QED
  BY <1>2, <1>3, <1>4, <1>5

LEMMA RanksDiffer ==
  ASSUME NEW S \in SUBSET Nat, IsFiniteSet(S), NEW o \in S, NEW q \in S, o < q
  PROVE  Rank(S, o) # Rank(S, q)
<1> DEFINE small == {x \in S : x <= o}
           large == {x \in S : x <= q}
<1>1. large \in SUBSET S /\ small \in SUBSET large /\ q \in large /\ q \notin small
  <2>1. o \in Nat /\ q \in Nat /\ \A x \in S : x \in Nat
    OBVIOUS
  <2>2. \A x \in S : x <= o => x <= q
    BY <2>1
  <2>3. q <= q /\ ~(q <= o)
    BY <2>1
  <2> QED
    BY <2>2, <2>3
<1>2. Rank(S, o) = Cardinality(small) /\ Rank(S, q) = Cardinality(large)
  BY DEF Rank
<1> HIDE DEF small, large
<1>3. IsFiniteSet(large)
  BY <1>1, FS_Subset
<1> QED
  BY <1>1, <1>2, <1>3, FS_Subset

LEMMA RankExists ==
  ASSUME NEW S \in SUBSET Nat, IsFiniteSet(S), NEW r \in 1..Cardinality(S)
  PROVE  \E o \in S : Rank(S, o) = r
<1> DEFINE f == [o \in S |-> Rank(S, o)]
           N == Cardinality(S)
<1>1. N \in Nat
  BY FS_CardinalityType
<1>2. \A o, q \in S : Rank(S, o) = Rank(S, q) => o = q
  <2> SUFFICES ASSUME NEW o \in S, NEW q \in S, o # q PROVE Rank(S, o) # Rank(S, q)
    OBVIOUS
  <2>1. o < q \/ q < o
    OBVIOUS
  <2> QED
    BY <2>1, RanksDiffer
<1>3. f \in [S -> 1..N]
  BY RankTypes
<1>4. f \in Injection(S, 1..N)
  BY <1>2, <1>3 DEF Injection, IsInjective
<1>5. IsFiniteSet(1..N) /\ Cardinality(1..N) = N
  <2>1. N \in Int /\ 1 \in Int
    BY <1>1
  <2>2. IsFiniteSet(1..N) /\ Cardinality(1..N) = IF 1 > N THEN 0 ELSE N - 1 + 1
    BY <2>1, FS_Interval
  <2> QED
    BY <1>1, <2>2
<1>6. f \in Surjection(S, 1..N)
  BY <1>4, <1>5, FS_Injection
<1> QED
  BY <1>6 DEF Surjection

LEMMA PageNumbers ==
  /\ PageSize \in Nat /\ PageSize >= 1
  /\ \A n \in Nat \ {0} :
       /\ (n - 1) * PageSize \in Nat
       /\ n * PageSize = (n - 1) * PageSize + PageSize
<1>1. PageSize \in Nat /\ PageSize >= 1
  BY PagesAssumption
<1>2. ASSUME NEW n \in Nat \ {0}
      PROVE (n - 1) * PageSize \in Nat /\ n * PageSize = (n - 1) * PageSize + PageSize
  BY <1>1
<1> QED
  BY <1>1, <1>2

\* The rows that stand before a page.
Before(n) == (n - 1) * PageSize

\* A page has rows when the list is longer than the pages before it.
LEMMA PageHasRows ==
  ASSUME NEW S \in SUBSET Nat, IsFiniteSet(S), NEW n \in Nat \ {0}
  PROVE  /\ Cardinality(S) \in Nat
         /\ List!PageOf(S, n) # {} <=> Cardinality(S) > Before(n)
         /\ \A o \in List!PageOf(S, n) : o \in S /\ Rank(S, o) > Before(n)
<1>1. Cardinality(S) \in Nat
  BY FS_CardinalityType
<1>2. Before(n) \in Nat /\ n * PageSize = Before(n) + PageSize /\ PageSize \in Nat /\ PageSize >= 1
  BY PageNumbers DEF Before
<1>3. List!PageOf(S, n) = {o \in S : Rank(S, o) \in Before(n) + 1 .. n * PageSize}
  BY SameCount DEF List!PageOf, Rank, Before
<1>4. \A o \in List!PageOf(S, n) : o \in S /\ Rank(S, o) > Before(n)
  <2> SUFFICES ASSUME NEW o \in List!PageOf(S, n) PROVE o \in S /\ Rank(S, o) > Before(n)
    OBVIOUS
  <2>1. o \in S /\ Rank(S, o) \in Before(n) + 1 .. n * PageSize
    BY <1>3
  <2> QED
    BY <1>2, <2>1
<1>5. ASSUME List!PageOf(S, n) # {} PROVE Cardinality(S) > Before(n)
  <2> PICK o \in List!PageOf(S, n) : TRUE
    BY <1>5
  <2>1. Rank(S, o) \in 1..Cardinality(S) /\ Rank(S, o) > Before(n)
    BY <1>4, RankTypes
  <2> QED
    BY <1>1, <1>2, <2>1
<1>6. ASSUME Cardinality(S) > Before(n) PROVE List!PageOf(S, n) # {}
  <2>1. Before(n) + 1 \in 1..Cardinality(S)
    BY <1>1, <1>2, <1>6
  <2> PICK o \in S : Rank(S, o) = Before(n) + 1
    BY <2>1, RankExists
  <2>2. Rank(S, o) \in Before(n) + 1 .. n * PageSize
    BY <1>2
  <2> QED
    BY <1>3, <2>2
<1> QED
  BY <1>1, <1>4, <1>5, <1>6

\* What the view asked for finds, and whether a page of it has rows.
Listed == List!Found(filter, search)
LongEnough(S, n) == S = {} \/ Cardinality(S) > Before(n)
Fits(n) == LongEnough(Listed, n)
ViewOfServer == [o \in List!PageOf(Listed, page) |-> status[o]]

ListChanges == [order : Orders, to : List!Status, filter : List!Status \cup {"all"},
                page : Nat, alone : BOOLEAN, made : BOOLEAN]

ListTypes ==
  /\ status \in [Orders -> List!Status] /\ search \in SUBSET Orders
  /\ page \in Nat \ {0} /\ filter \in List!Status \cup {"all"}
  /\ pending \in [Changes -> ListChanges \cup {List!NoChange}]
  /\ question \in ListChanges \cup {List!NoChange}
  /\ listing.step \in {"done", "asked", "read"}
  /\ listing.step = "done" => listing = List!Idle

\* A change of an order that is listed, with the view as its handler remembers it.
OfView(k) ==
  /\ k.order \in List!PageOf(Listed, page) /\ k.filter = filter /\ k.page = page /\ ~k.made
  /\ k.alone <=> List!PageOf(Listed, page) = {k.order}

NothingMade == \A c \in Changes : ~pending[c].made

\* While nothing was clicked beside it, a change or a fetch is the only one.
OneAtATime ==
  /\ listing # List!Idle => List!Settled /\ Fits(page)
  /\ listing.step = "read" =>
       listing.rows = ViewOfServer /\ listing.total = Cardinality(Listed)
  /\ question # List!NoChange =>
       OfView(question) /\ \A c \in Changes : pending[c] = List!NoChange
  /\ \A c, d \in Changes :
       pending[c] # List!NoChange /\ pending[d] # List!NoChange => c = d
  /\ \A c \in Changes : pending[c] # List!NoChange =>
       \/ pending[c].made /\ rows # List!NoRows /\ Fits(List!PageAfter(pending[c]))
       \/ OfView(pending[c])
  /\ listing = List!Idle /\ NothingMade =>
       rows = ViewOfServer /\ total = Cardinality(Listed) /\ Fits(page)

ListInv == ListTypes /\ (apart \/ OneAtATime)

LEMMA OrdersAreNumbers ==
  ASSUME NEW S \in SUBSET Orders
  PROVE  /\ S \in SUBSET Nat /\ IsFiniteSet(S) /\ Cardinality(S) \in Nat
         /\ Cardinality(S) = 0 <=> S = {}
<1>1. IsFiniteSet(Orders) /\ Orders \subseteq Nat
  BY PagesAssumption
<1>2. IsFiniteSet(S)
  BY <1>1, FS_Subset
<1> QED
  BY <1>1, <1>2, FS_CardinalityType, FS_EmptySet

LEMMA FirstPageFits ==
  ASSUME NEW S \in SUBSET Orders PROVE LongEnough(S, 1)
<1>1. Before(1) = 0
  BY PageNumbers DEF Before
<1> QED
  BY <1>1, OrdersAreNumbers DEF LongEnough

LEMMA ListedIs ==
  ASSUME search \in SUBSET Orders PROVE Listed \in SUBSET Orders
BY DEF Listed, List!Found

LEMMA NewlyListedIs ==
  ASSUME search' \in SUBSET Orders PROVE Listed' \in SUBSET Orders
BY DEF Listed, List!Found

LEMMA InitListInv == List!Init => ListInv
<1> SUFFICES ASSUME List!Init PROVE ListInv
  OBVIOUS
<1>2. ListTypes
  BY DEF List!Init, ListTypes, List!Status, List!Asked, List!Idle
<1>3. Fits(page)
  BY ListedIs, FirstPageFits DEF List!Init, Fits
<1>4. /\ listing.step = "asked" /\ listing # List!Idle /\ List!Settled
  BY DEF List!Init, List!Asked, List!Idle, List!Settled
<1>5. OneAtATime
  BY <1>3, <1>4 DEF OneAtATime, List!Settled
<1> QED
  BY <1>2, <1>5 DEF ListInv

\* When nothing is under way the rows shown are the server's.
LEMMA NothingUnderway ==
  ASSUME ListInv, ~apart, ~List!Underway
  PROVE  /\ listing = List!Idle /\ List!Settled /\ NothingMade
         /\ rows = ViewOfServer /\ total = Cardinality(Listed) /\ Fits(page)
<1>1. listing = List!Idle /\ List!Settled
  BY DEF List!Underway
<1>2. NothingMade
  BY <1>1 DEF List!Settled, NothingMade, List!NoChange
<1> QED
  BY <1>1, <1>2 DEF ListInv, OneAtATime

\* A view asked for while nothing else is under way is read by itself.
LEMMA ShowKeeps ==
  ASSUME ListInv, List!Show, ListTypes', UNCHANGED <<pending, question>>,
         ~apart /\ ~List!Underway => Fits(page)'
  PROVE  ListInv'
<1> SUFFICES ASSUME ~apart' PROVE OneAtATime'
  BY DEF ListInv
<1>1. ~apart /\ ~List!Underway /\ listing' = List!Asked
  BY DEF List!Show
<1>2. List!Settled' /\ Fits(page)'
  BY <1>1, NothingUnderway DEF List!Settled
<1>3. listing'.step = "asked" /\ listing' # List!Idle
  BY <1>1 DEF List!Asked, List!Idle
<1> QED
  BY <1>2, <1>3 DEF OneAtATime, List!Settled

LEMMA ViewChosenKeeps ==
  ASSUME ListInv,
         \/ \E f \in List!Status \cup {"all"} : List!ChangeFilter(f)
         \/ \E m \in Matches : List!ChangeSearch(m)
  PROVE  ListInv'
<1>1. /\ List!Show /\ page' = 1 /\ search' \in {search} \cup Matches
      /\ filter' \in {filter} \cup List!Status \cup {"all"}
      /\ UNCHANGED <<status, pending, question>>
  BY DEF List!ChangeFilter, List!ChangeSearch
<1>2. search' \in SUBSET Orders
  BY <1>1, PagesAssumption DEF ListInv, ListTypes
<1>3. ListTypes'
  <2>1. listing'.step = "asked"
    BY <1>1 DEF List!Show, List!Asked
  <2> QED
    BY <1>1, <1>2, <2>1 DEF ListInv, ListTypes
<1>4. Fits(page)'
  BY <1>1, <1>2, NewlyListedIs, FirstPageFits DEF Fits
<1> QED
  BY <1>1, <1>3, <1>4, ShowKeeps

\* Where the pages end.
LEMMA LastPage ==
  ASSUME NEW t \in Nat, NEW n \in Nat \ {0}, n < (t + PageSize - 1) \div PageSize
  PROVE  Before(n + 1) < t
<1> DEFINE q == (t + PageSize - 1) \div PageSize
<1>1. PageSize \in Nat /\ PageSize >= 1
  BY PageNumbers
<1>2. q \in Int /\ q * PageSize <= t + PageSize - 1
  BY <1>1
<1> HIDE DEF q
<1>3. n + 1 <= q
  BY <1>2 DEF q
<1>4. (n + 1) * PageSize <= q * PageSize
  BY <1>1, <1>2, <1>3
<1>5. (n + 1) * PageSize = n * PageSize + PageSize /\ n * PageSize \in Nat
  BY <1>1
<1>6. q * PageSize \in Int
  BY <1>1, <1>2
<1>7. Before(n + 1) = n * PageSize
  BY DEF Before
<1> QED
  BY <1>1, <1>2, <1>4, <1>5, <1>6, <1>7

LEMMA TurnKeeps ==
  ASSUME ListInv, NEW n \in 1..Cardinality(Orders), List!Turn(n) PROVE ListInv'
<1>1. /\ List!Show /\ page' = n /\ rows # List!NoRows
      /\ (page > 1 /\ n = page - 1) \/ (page < List!TotalPages /\ n = page + 1)
      /\ UNCHANGED <<status, filter, search, total, pending, question>>
  BY DEF List!Turn
<1>2. page \in Nat \ {0} /\ n \in Nat \ {0} /\ Listed \in SUBSET Orders
  BY <1>1, ListedIs DEF ListInv, ListTypes
<1>3. ListTypes'
  <2>1. listing'.step = "asked"
    BY <1>1 DEF List!Show, List!Asked
  <2> QED
    BY <1>1, <1>2, <2>1 DEF ListInv, ListTypes
<1>4. ASSUME ~apart, ~List!Underway PROVE Fits(n)
  <2>1. rows = ViewOfServer /\ total = Cardinality(Listed) /\ Fits(page)
    BY <1>4, NothingUnderway
  <2>2. Cardinality(Listed) \in Nat
    BY <1>2, OrdersAreNumbers
  <2>3. CASE page > 1 /\ n = page - 1
    <3>1. Before(n) <= Before(page) /\ Before(n) \in Nat /\ Before(page) \in Nat
      BY <1>2, <2>3, PageNumbers DEF Before
    <3> QED
      BY <2>1, <2>2, <3>1 DEF Fits, LongEnough
  <2>4. CASE page < List!TotalPages /\ n = page + 1
    <3>1. CASE total = 0
      BY <2>1, <1>2, <3>1, OrdersAreNumbers DEF Fits, LongEnough
    <3>2. CASE total # 0
      <4>1. page < (total + PageSize - 1) \div PageSize
        BY <2>4, <3>2 DEF List!TotalPages
      <4>2. Before(page + 1) < total
        BY <1>2, <2>1, <2>2, <4>1, LastPage
      <4>3. Before(page + 1) \in Nat
        BY <1>2, PageNumbers DEF Before
      <4> QED
        BY <2>1, <2>2, <2>4, <4>2, <4>3 DEF Fits, LongEnough
    <3> QED
      BY <3>1, <3>2
  <2> QED
    BY <1>1, <2>3, <2>4
<1>5. Listed' = Listed
  BY <1>1 DEF Listed, List!Found
<1>6. ~apart /\ ~List!Underway => Fits(page)'
  BY <1>1, <1>4, <1>5 DEF Fits
<1> QED
  BY <1>1, <1>3, <1>6, ShowKeeps

\* The view stays as it is and so do the lists of the server.
LEMMA SameView ==
  ASSUME UNCHANGED <<status, filter, page, search>>
  PROVE  /\ Listed' = Listed /\ ViewOfServer' = ViewOfServer
         /\ \A n : Fits(n)' = Fits(n)
         /\ \A k : OfView(k)' = OfView(k) /\ List!PageAfter(k)' = List!PageAfter(k)
BY DEF Listed, ViewOfServer, Fits, LongEnough, OfView, List!Found, List!PageAfter, List!PageOf

LEMMA ChangeOf ==
  ASSUME ListInv, NEW o \in Orders, NEW to \in List!Status
  PROVE  List!Change(o, to) \in ListChanges /\ ~List!Change(o, to).made
<1>1. page \in Nat /\ filter \in List!Status \cup {"all"}
  BY DEF ListInv, ListTypes
<1> QED
  BY <1>1 DEF ListChanges, List!Change

\* A change that is sent, alone, for an order of the view.
LEMMA SentAlone ==
  ASSUME ListTypes, OneAtATime, NEW c \in Changes, NEW k, OfView(k),
         \A d \in Changes : pending[d] = List!NoChange, listing = List!Idle,
         pending' = [pending EXCEPT ![c] = k], question' = List!NoChange,
         UNCHANGED <<status, filter, page, search, rows, total, listing>>
  PROVE  OneAtATime'
<1>1. \A d \in Changes : pending'[d] = IF d = c THEN k ELSE List!NoChange
  BY DEF ListTypes
<1>2. ~List!NoChange.made /\ ~k.made
  BY DEF List!NoChange, OfView
<1>3. NothingMade /\ NothingMade'
  BY <1>1, <1>2 DEF NothingMade
<1>4. rows = ViewOfServer /\ total = Cardinality(Listed) /\ Fits(page)
  BY <1>3 DEF OneAtATime
<1>5. /\ ViewOfServer' = ViewOfServer /\ Listed' = Listed /\ OfView(k)' /\ Fits(page)'
  BY <1>4, SameView
<1>6. listing'.step = "done"
  BY DEF List!Idle
<1> QED
  BY <1>1, <1>4, <1>5, <1>6 DEF OneAtATime

LEMMA StatusAskedKeeps ==
  ASSUME ListInv, NEW c \in Changes, NEW o \in Orders, NEW to \in List!Status,
         List!HandleStatusUpdate(c, o, to)
  PROVE  ListInv'
<1> PICK k : k = List!Change(o, to)
  OBVIOUS
<1>1. /\ o \in DOMAIN rows /\ (apart' \/ (~apart /\ ~List!Underway))
      /\ UNCHANGED <<status, filter, page, search, rows, total, listing>>
  BY DEF List!HandleStatusUpdate
<1>2. /\ question = List!NoChange
      /\ \/ question' = k /\ pending' = pending
         \/ pending' = [pending EXCEPT ![c] = k] /\ question' = question
  BY DEF List!HandleStatusUpdate, List!Send
<1>3. k \in ListChanges /\ ~k.made
  BY ChangeOf
<1>4. ListTypes'
  BY <1>1, <1>2, <1>3 DEF ListInv, ListTypes
<1>5. ASSUME ~apart' PROVE OneAtATime'
  <2>1. /\ listing = List!Idle /\ List!Settled /\ NothingMade
        /\ rows = ViewOfServer /\ total = Cardinality(Listed) /\ Fits(page)
    BY <1>1, <1>5, NothingUnderway
  <2>2. DOMAIN rows = List!PageOf(Listed, page)
    BY <2>1 DEF ViewOfServer
  <2>3. OfView(k)
    <3>1. /\ k.order = o /\ k.filter = filter /\ k.page = page
          /\ k.alone <=> DOMAIN rows = {o}
      BY DEF List!Change
    <3> QED
      BY <1>1, <1>3, <2>2, <3>1 DEF OfView
  <2>4. \A d \in Changes : pending[d] = List!NoChange
    BY <2>1 DEF List!Settled
  <2>5. CASE question' = k /\ pending' = pending
    <3>1. /\ ViewOfServer' = ViewOfServer /\ Listed' = Listed /\ OfView(k)' /\ Fits(page)'
      BY <1>1, <2>1, <2>3, SameView
    <3>2. listing'.step = "done" /\ listing' = List!Idle
      BY <1>1, <2>1 DEF List!Idle
    <3> QED
      BY <1>1, <2>1, <2>4, <2>5, <3>1, <3>2 DEF OneAtATime
  <2>6. CASE pending' = [pending EXCEPT ![c] = k] /\ question' = question
    BY <1>1, <1>2, <1>5, <2>1, <2>3, <2>4, <2>6, SentAlone DEF ListInv
  <2> QED
    BY <1>2, <2>5, <2>6
<1> QED
  BY <1>4, <1>5 DEF ListInv

LEMMA QuestionKeeps ==
  ASSUME ListInv, NEW c \in Changes, NEW yes \in BOOLEAN, List!AnswerQuestion(c, yes)
  PROVE  ListInv'
<1>1. /\ question # List!NoChange /\ question' = List!NoChange
      /\ \/ pending' = [pending EXCEPT ![c] = question]
         \/ pending' = pending
      /\ UNCHANGED <<status, filter, page, search, rows, total, listing, apart>>
  BY DEF List!AnswerQuestion, List!Send
<1>2. ListTypes'
  BY <1>1 DEF ListInv, ListTypes
<1>3. ASSUME ~apart PROVE OneAtATime'
  <2>1. /\ OneAtATime /\ OfView(question) /\ \A d \in Changes : pending[d] = List!NoChange
        /\ listing = List!Idle
    BY <1>1, <1>3 DEF ListInv, OneAtATime, List!Settled
  <2>2. CASE pending' = [pending EXCEPT ![c] = question]
    BY <1>1, <2>1, <2>2, SentAlone DEF ListInv
  <2>3. CASE pending' = pending
    <3>1. /\ ViewOfServer' = ViewOfServer /\ Listed' = Listed /\ Fits(page)' = Fits(page)
      BY <1>1, SameView
    <3>2. listing'.step = "done"
      BY <1>1, <2>1 DEF List!Idle
    <3>3. NothingMade' = NothingMade
      BY <2>3 DEF NothingMade
    <3> QED
      BY <1>1, <2>1, <2>3, <3>1, <3>2, <3>3 DEF OneAtATime
  <2> QED
    BY <1>1, <2>2, <2>3
<1> QED
  BY <1>1, <1>2, <1>3 DEF ListInv

\* The order that is moved is out of the view, and the page that is left has rows.
LEMMA MovedOut ==
  ASSUME ListInv, NEW k \in ListChanges, OfView(k), Fits(page),
         k.to \in List!Actions(status[k.order]), k.order \in Orders,
         status' = [status EXCEPT ![k.order] = k.to],
         UNCHANGED <<filter, page, search>>
  PROVE  Fits(List!PageAfter(k))'
<1> DEFINE o == k.order
           S == Listed
<1>1. /\ S \in SUBSET Orders /\ S \in SUBSET Nat /\ IsFiniteSet(S) /\ Cardinality(S) \in Nat
      /\ Listed' \in SUBSET Orders /\ page \in Nat \ {0}
  BY ListedIs, NewlyListedIs, OrdersAreNumbers DEF ListInv, ListTypes
<1>2. /\ o \in List!PageOf(S, page) /\ k.filter = filter /\ k.page = page
      /\ k.alone <=> List!PageOf(S, page) = {o}
  BY DEF OfView
<1>3. o \in S /\ Rank(S, o) > Before(page) /\ Before(page) \in Nat
  BY <1>1, <1>2, PageHasRows, PageNumbers DEF Before
<1>4. CASE filter = "all"
  <2>1. Listed' = Listed
    BY <1>4 DEF Listed, List!Found
  <2>2. List!PageAfter(k)' = page
    BY <1>2, <1>4 DEF List!PageAfter
  <2> QED
    BY <2>1, <2>2 DEF Fits
<1>5. CASE filter # "all"
  <2>1. status[o] = filter /\ k.to # filter
    <3>1. status[o] = filter /\ status[o] \in List!Status
      BY <1>3, <1>5 DEF Listed, List!Found, ListInv, ListTypes
    <3> QED
      BY <3>1 DEF List!Actions, List!Status
  <2>2. Listed' = S \ {o}
    <3>1. \A x \in search : status'[x] = IF x = o THEN k.to ELSE status[x]
      BY DEF ListInv, ListTypes
    <3> QED
      BY <1>5, <2>1, <3>1 DEF Listed, List!Found
  <2>3. Cardinality(Listed') = Cardinality(S) - 1
    BY <1>1, <1>3, <2>2, FS_RemoveElement
  <2>4. Rank(S, o) \in 1..Cardinality(S)
    BY <1>1, <1>3, RankTypes
  <2>5. CASE k.alone /\ page > 1
    <3>1. List!PageAfter(k)' = page - 1
      BY <1>2, <1>5, <2>5 DEF List!PageAfter
    <3>2. /\ Before(page) = Before(page - 1) + PageSize /\ Before(page - 1) \in Nat
          /\ PageSize \in Nat /\ PageSize >= 1
      BY <1>1, <2>5, PageNumbers DEF Before
    <3>3. Cardinality(S) - 1 > Before(page - 1)
      BY <1>1, <1>3, <2>4, <3>2
    <3> QED
      BY <2>3, <3>1, <3>3 DEF Fits, LongEnough
  <2>6. CASE ~(k.alone /\ page > 1)
    <3>1. List!PageAfter(k)' = page
      BY <1>2, <2>6 DEF List!PageAfter
    <3>2. CASE page = 1
      BY <1>1, <3>1, <3>2, FirstPageFits DEF Fits
    <3>3. CASE page # 1
      <4>1. PICK q \in List!PageOf(S, page) : q # o
        BY <1>1, <1>2, <2>6, <3>3
      <4>2. q \in S /\ Rank(S, q) > Before(page)
        BY <1>1, <4>1, PageHasRows
      <4>3. Rank(S, q) \in 1..Cardinality(S)
        BY <1>1, <4>2, RankTypes
      <4>4. Rank(S, q) # Rank(S, o)
        <5>0. q \in Nat /\ o \in Nat
          BY <1>1, <1>3, <4>2
        <5>1. q < o \/ o < q
          BY <4>1, <5>0
        <5> QED
          BY <1>1, <1>3, <4>2, <5>1, RanksDiffer
      <4>5. Cardinality(S) - 1 > Before(page)
        BY <1>1, <1>3, <2>4, <4>2, <4>3, <4>4
      <4> QED
        BY <2>3, <3>1, <4>5 DEF Fits, LongEnough
    <3> QED
      BY <3>2, <3>3
  <2> QED
    BY <2>5, <2>6
<1> QED
  BY <1>4, <1>5

LEMMA ServerMovesKeeps ==
  ASSUME ListInv, NEW c \in Changes, List!ServerMoves(c) PROVE ListInv'
<1> PICK k : k = pending[c]
  OBVIOUS
<1> DEFINE moved == [k EXCEPT !.made = TRUE]
<1>1. /\ k # List!NoChange /\ ~k.made /\ k.to \in List!Actions(status[k.order])
      /\ status' = [status EXCEPT ![k.order] = k.to]
      /\ UNCHANGED <<filter, page, search, rows, total, listing, question, apart>>
  BY DEF List!ServerMoves
<1>2. pending' = [pending EXCEPT ![c] = moved]
  BY DEF List!ServerMoves
<1>3. /\ k \in ListChanges /\ moved \in ListChanges /\ moved.made
      /\ moved.filter = k.filter /\ moved.alone = k.alone /\ moved.page = k.page
  BY <1>1 DEF ListInv, ListTypes, ListChanges
<1> HIDE DEF moved
<1>4. k.to \in List!Status /\ k.order \in Orders
  BY <1>3 DEF ListChanges
<1>5. /\ status' \in [Orders -> List!Status]
      /\ pending' \in [Changes -> ListChanges \cup {List!NoChange}]
  <2>1. /\ status \in [Orders -> List!Status]
        /\ pending \in [Changes -> ListChanges \cup {List!NoChange}]
    BY DEF ListInv, ListTypes
  <2> QED
    BY <1>1, <1>2, <1>3, <1>4, <2>1
<1>6. ListTypes'
  BY <1>1, <1>5 DEF ListInv, ListTypes
<1>7. ASSUME ~apart PROVE OneAtATime'
  <2>1. OneAtATime
    BY <1>7 DEF ListInv
  <2>2. OfView(k) /\ listing = List!Idle /\ question = List!NoChange
    BY <1>1, <2>1 DEF OneAtATime, List!Settled
  <2>3. \A d \in Changes : d # c => pending[d] = List!NoChange
    BY <1>1, <2>1 DEF OneAtATime
  <2>4. NothingMade
    BY <1>1, <2>3 DEF NothingMade, List!NoChange
  <2>5. rows = ViewOfServer /\ Fits(page)
    BY <2>1, <2>2, <2>4 DEF OneAtATime
  <2>6. k.order \in List!PageOf(Listed, page)
    BY <2>2 DEF OfView
  <2>7. rows # List!NoRows
    <3>1. k.order \in DOMAIN rows
      BY <2>5, <2>6 DEF ViewOfServer
    <3> QED
      BY <3>1 DEF List!NoRows
  <2>8. Fits(List!PageAfter(k))'
    BY <1>1, <1>3, <1>4, <2>2, <2>5, MovedOut
  <2>9. List!PageAfter(k)' = List!PageAfter(moved)'
    BY <1>1, <1>2, <1>3 DEF List!PageAfter
  <2>10. \A d \in Changes : pending'[d] = IF d = c THEN moved ELSE List!NoChange
    BY <1>2, <2>3 DEF ListInv, ListTypes
  <2>11. listing'.step = "done" /\ listing' = List!Idle /\ ~NothingMade'
    BY <1>1, <1>3, <2>2, <2>10 DEF List!Idle, NothingMade
  <2> QED
    BY <1>1, <1>3, <2>2, <2>7, <2>8, <2>9, <2>10, <2>11 DEF OneAtATime
<1> QED
  BY <1>1, <1>6, <1>7 DEF ListInv

LEMMA ChangeAnsweredKeeps ==
  ASSUME ListInv, NEW c \in Changes, List!Answered(c) PROVE ListInv'
<1> PICK k : k = pending[c]
  OBVIOUS
<1>1. /\ k.made /\ page' = List!PageAfter(k) /\ listing' = List!Asked
      /\ pending' = [pending EXCEPT ![c] = List!NoChange]
      /\ UNCHANGED <<status, filter, search, rows, total, question, apart>>
  BY DEF List!Answered
<1>2. k \in ListChanges /\ k # List!NoChange
  BY <1>1 DEF ListInv, ListTypes, List!NoChange
<1>3. listing'.step = "asked" /\ listing' # List!Idle
  BY <1>1 DEF List!Asked, List!Idle
<1>4. page' \in Nat \ {0}
  <2>1. k.page \in Nat /\ page \in Nat \ {0}
    BY <1>2 DEF ListInv, ListTypes, ListChanges
  <2> QED
    BY <1>1, <2>1 DEF List!PageAfter
<1>5. ListTypes'
  BY <1>1, <1>3, <1>4 DEF ListInv, ListTypes
<1>6. ASSUME ~apart PROVE OneAtATime'
  <2>1. OneAtATime
    BY <1>6 DEF ListInv
  <2>2. ~OfView(k)
    BY <1>1 DEF OfView
  <2>3. Fits(List!PageAfter(k)) /\ question = List!NoChange
    BY <1>2, <2>1, <2>2 DEF OneAtATime
  <2>4. \A d \in Changes : pending'[d] = List!NoChange
    BY <1>1, <1>2, <2>1 DEF OneAtATime, ListInv, ListTypes
  <2>5. Listed' = Listed
    BY <1>1 DEF Listed, List!Found
  <2>6. Fits(page')
    BY <1>1, <2>3
  <2>7. Fits(page)'
    BY <2>5, <2>6 DEF Fits
  <2>8. List!Settled'
    BY <1>1, <2>3, <2>4 DEF List!Settled
  <2> QED
    BY <1>1, <1>3, <2>3, <2>4, <2>7, <2>8 DEF OneAtATime
<1> QED
  BY <1>1, <1>5, <1>6 DEF ListInv

LEMMA ChangeFailedKeeps ==
  ASSUME ListInv, NEW c \in Changes, List!CallFailed(c) PROVE ListInv'
<1>1. /\ pending[c] # List!NoChange
      /\ pending' = [pending EXCEPT ![c] = List!NoChange]
      /\ apart' \/ (~apart /\ ~pending[c].made)
      /\ UNCHANGED <<status, filter, page, search, rows, total, listing, question>>
  BY DEF List!CallFailed
<1>2. ListTypes'
  BY <1>1 DEF ListInv, ListTypes
<1>3. ASSUME ~apart' PROVE OneAtATime'
  <2>1. OneAtATime /\ ~pending[c].made
    BY <1>1, <1>3 DEF ListInv
  <2>2. \A d \in Changes : pending'[d] = List!NoChange
    BY <1>1, <2>1 DEF OneAtATime, ListInv, ListTypes
  <2>3. NothingMade
    <3>1. \A d \in Changes : d = c \/ pending[d] = List!NoChange
      BY <1>1, <2>1 DEF OneAtATime
    <3> QED
      BY <2>1, <3>1 DEF NothingMade, List!NoChange
  <2>4. listing = List!Idle /\ question = List!NoChange
    BY <1>1, <2>1 DEF OneAtATime, List!Settled
  <2>5. rows = ViewOfServer /\ total = Cardinality(Listed) /\ Fits(page)
    BY <2>1, <2>3, <2>4 DEF OneAtATime
  <2>6. /\ ViewOfServer' = ViewOfServer /\ Listed' = Listed /\ Fits(page)'
    BY <1>1, <2>5, SameView
  <2>7. listing'.step = "done"
    BY <1>1, <2>4 DEF List!Idle
  <2> QED
    BY <1>1, <2>2, <2>4, <2>5, <2>6, <2>7 DEF OneAtATime
<1> QED
  BY <1>2, <1>3 DEF ListInv

LEMMA ViewHasRows ==
  ASSUME ListTypes
  PROVE  ViewOfServer # List!NoRows <=> Listed # {} /\ Fits(page)
<1>1. /\ Listed \in SUBSET Orders /\ Listed \in SUBSET Nat /\ IsFiniteSet(Listed)
      /\ page \in Nat \ {0}
  BY ListedIs, OrdersAreNumbers DEF ListTypes
<1>2. DOMAIN ViewOfServer = List!PageOf(Listed, page)
  BY DEF ViewOfServer
<1>3. ViewOfServer # List!NoRows <=> List!PageOf(Listed, page) # {}
  BY <1>2 DEF ViewOfServer, List!NoRows
<1>4. List!PageOf(Listed, page) # {} <=> Cardinality(Listed) > Before(page)
  BY <1>1, PageHasRows
<1>5. List!PageOf(Listed, page) \subseteq Listed
  BY DEF List!PageOf
<1> QED
  BY <1>3, <1>4, <1>5 DEF Fits, LongEnough

LEMMA ServerListsKeeps ==
  ASSUME ListInv, List!ServerLists PROVE ListInv'
<1>1. /\ listing.step = "asked"
      /\ listing' = [step |-> "read", rows |-> ViewOfServer, total |-> Cardinality(Listed)]
      /\ apart' \/ ~apart \/ (ViewOfServer # List!NoRows /\ List!Settled)
      /\ UNCHANGED <<status, filter, page, search, rows, total, pending, question>>
  <2>1. /\ listing.step = "asked"
        /\ listing' = [step |-> "read", rows |-> ViewOfServer, total |-> Cardinality(Listed)]
        /\ UNCHANGED <<status, filter, page, search, rows, total, pending, question>>
    BY SameCount DEF List!ServerLists, ViewOfServer, Listed
  <2>2. listing'.rows = ViewOfServer
    BY <2>1
  <2>3. apart' \/ ~apart \/ (listing'.rows # List!NoRows /\ List!Settled)
    BY DEF List!ServerLists
  <2> QED
    BY <2>1, <2>2, <2>3
<1>2. ListTypes'
  BY <1>1 DEF ListInv, ListTypes
<1>3. ASSUME ~apart' PROVE OneAtATime'
  <2>1. listing # List!Idle
    BY <1>1 DEF List!Idle
  <2>2. List!Settled /\ Fits(page)
    BY <1>1, <1>3, <2>1, ViewHasRows DEF ListInv, OneAtATime
  <2>3. listing'.step = "read" /\ listing' # List!Idle
    BY <1>1 DEF List!Idle
  <2>4. ViewOfServer' = ViewOfServer /\ Listed' = Listed /\ Fits(page)'
    BY <1>1, <2>2, SameView
  <2>5. List!Settled'
    BY <1>1, <2>2 DEF List!Settled
  <2> QED
    BY <1>1, <2>3, <2>4, <2>5 DEF OneAtATime, List!Settled
<1> QED
  BY <1>2, <1>3 DEF ListInv

LEMMA ListArrivesKeeps ==
  ASSUME ListInv, List!ListArrives PROVE ListInv'
<1>1. /\ listing.step = "read" /\ rows' = listing.rows /\ total' = listing.total
      /\ listing' = List!Idle
      /\ UNCHANGED <<status, filter, page, search, pending, question, apart>>
  BY DEF List!ListArrives
<1>2. ListTypes'
  BY <1>1 DEF ListInv, ListTypes, List!Idle
<1>3. ASSUME ~apart PROVE OneAtATime'
  <2>1. listing # List!Idle
    BY <1>1 DEF List!Idle
  <2>2. /\ List!Settled /\ Fits(page) /\ rows' = ViewOfServer /\ total' = Cardinality(Listed)
    BY <1>1, <1>3, <2>1 DEF ListInv, OneAtATime
  <2>3. ViewOfServer' = ViewOfServer /\ Listed' = Listed /\ Fits(page)'
    BY <1>1, <2>2, SameView
  <2>4. listing'.step = "done"
    BY <1>1 DEF List!Idle
  <2> QED
    BY <1>1, <2>2, <2>3, <2>4 DEF OneAtATime, List!Settled
<1> QED
  BY <1>1, <1>2, <1>3 DEF ListInv

LEMMA NextListInv == ListInv /\ [List!Next]_listVars => ListInv'
<1> SUFFICES ASSUME ListInv, [List!Next]_listVars PROVE ListInv'
  OBVIOUS
<1>1. CASE UNCHANGED listVars
  <2>1. /\ UNCHANGED <<status, filter, page, search>>
        /\ UNCHANGED <<rows, total, listing, pending, question, apart>>
    BY <1>1 DEF listVars
  <2>2. ListTypes'
    BY <2>1 DEF ListInv, ListTypes
  <2>3. apart' \/ OneAtATime'
    BY <2>1, SameView DEF ListInv, OneAtATime, NothingMade, List!Settled
  <2> QED
    BY <2>2, <2>3 DEF ListInv
<1>2. CASE \E n \in 1..List!Cardinality(Orders) : List!Turn(n)
  BY <1>2, SameCount, TurnKeeps
<1> QED
  BY <1>1, <1>2, ViewChosenKeeps, StatusAskedKeeps, QuestionKeeps, ServerMovesKeeps,
     ChangeAnsweredKeeps, ChangeFailedKeeps, ServerListsKeeps, ListArrivesKeeps DEF List!Next

LEMMA ListHolds == ListInv => List!ChangeLeavesNoEmptyPage
<1> SUFFICES ASSUME ListInv, List!EmptyPage, ~apart PROVE FALSE
  BY DEF List!ChangeLeavesNoEmptyPage
<1>1. listing = List!Idle /\ total > 0 /\ rows = List!NoRows
  BY DEF List!EmptyPage
<1>2. OneAtATime /\ ListTypes
  BY DEF ListInv
<1>3. CASE NothingMade
  <2>1. rows = ViewOfServer /\ total = Cardinality(Listed) /\ Fits(page)
    BY <1>1, <1>2, <1>3 DEF OneAtATime
  <2>2. Listed = {}
    BY <1>1, <1>2, <2>1, ViewHasRows
  <2> QED
    BY <1>1, <2>1, <2>2, FS_EmptySet
<1>4. CASE ~NothingMade
  <2> PICK c \in Changes : pending[c].made
    BY <1>4 DEF NothingMade
  <2>1. pending[c] # List!NoChange /\ ~OfView(pending[c])
    BY DEF List!NoChange, OfView
  <2> QED
    BY <1>1, <1>2, <2>1 DEF OneAtATime
<1> QED
  BY <1>3, <1>4

-----------------------------------------------------------------------------
(* Coupons and banners: the form knows whose fields it holds, and changes     *)
(* that did not cross run one by one, each up to the reload that follows it   *)

JobStands(c) ==
  /\ {"what", "id", "of", "stage", "got"} \subseteq DOMAIN c
  /\ c.what = "save" => c.id = c.of

PromotionInv ==
  /\ "of" \in DOMAIN draft /\ draft.of = editingId
  /\ \A c \in jobs : JobStands(c)
  /\ ~crossed =>
       /\ \A a, b \in jobs : a = b
       /\ jobs = {} /\ promotionList # None => promotionList = promotions
       /\ \A c \in jobs : c.stage = "read" => c.got = promotions

LEMMA InitPromotionInv == Promotions!Init => PromotionInv
BY DEF Promotions!Init, PromotionInv, Promotions!Emptied

\* A change is sent: alone, or it crosses another.
LEMMA ChangeSent ==
  ASSUME PromotionInv, NEW c, JobStands(c), c.stage = "sent", Promotions!Send(c),
         UNCHANGED <<promotions, promotionList, editingId, draft>>
  PROVE  PromotionInv'
<1>1. jobs' = jobs \cup {c} /\ crossed' = (crossed \/ jobs # {})
  BY DEF Promotions!Send
<1>2. ~crossed' => jobs' = {c}
  BY <1>1
<1> QED
  BY <1>1, <1>2 DEF PromotionInv

\* A change goes on to its next stage.
LEMMA JobAdvances ==
  ASSUME PromotionInv, NEW c \in jobs, NEW next, JobStands(next),
         jobs' = (jobs \ {c}) \cup {next}, UNCHANGED <<promotionList, crossed>>,
         "of" \in DOMAIN draft' /\ draft'.of = editingId',
         next.stage = "read" => next.got = promotions'
  PROVE  PromotionInv'
<1>1. ~crossed' => jobs' = {next}
  BY DEF PromotionInv
<1> QED
  BY <1>1 DEF PromotionInv

LEMMA NextPromotionInv == PromotionInv /\ [Promotions!Next]_promotionVars => PromotionInv'
<1> SUFFICES ASSUME PromotionInv, [Promotions!Next]_promotionVars PROVE PromotionInv'
  OBVIOUS
<1>1. CASE Promotions!FirstLoad \/ Promotions!HandleUpload \/ UNCHANGED promotionVars
           \/ \E r \in Records : Promotions!AskDelete(r)
  BY <1>1 DEF Promotions!FirstLoad, Promotions!HandleUpload, Promotions!AskDelete, promotionVars,
              PromotionInv
<1>2. CASE Promotions!NewForm \/ \E r \in Records : Promotions!HandleEdit(r)
  <2>1. "of" \in DOMAIN draft' /\ draft'.of = editingId'
    BY <1>2 DEF Promotions!NewForm, Promotions!HandleEdit, Promotions!ResetForm, Promotions!Emptied
  <2> QED
    BY <1>2, <2>1 DEF Promotions!NewForm, Promotions!HandleEdit, PromotionInv
<1>3. CASE \/ \E on \in BOOLEAN, text \in Texts : Promotions!UpdateField(on, text)
           \/ \E text \in Texts \cup {None} : Promotions!Uploaded(text)
  <2>1. "of" \in DOMAIN draft' /\ draft'.of = draft.of
    BY <1>3 DEF Promotions!UpdateField, Promotions!Uploaded, PromotionInv
  <2> QED
    BY <1>3, <2>1 DEF Promotions!UpdateField, Promotions!Uploaded, PromotionInv
<1>4. CASE Promotions!HandleSubmit
  <2> DEFINE c == Promotions!Job("save", editingId, draft.of,
                                   [on |-> draft.on, text |-> draft.text])
  <2>1. JobStands(c) /\ c.stage = "sent"
    BY DEF JobStands, Promotions!Job, PromotionInv
  <2>2. Promotions!Send(c) /\ UNCHANGED <<promotions, promotionList, editingId, draft>>
    BY <1>4 DEF Promotions!HandleSubmit
  <2> HIDE DEF c
  <2> QED
    BY <2>1, <2>2, ChangeSent
<1>5. ASSUME NEW r \in Records, Promotions!HandleToggleActive(r) PROVE PromotionInv'
  <2> DEFINE c == Promotions!Job("toggle", r, r, [on |-> ~promotionList[r].on, text |-> None])
  <2>1. JobStands(c) /\ c.stage = "sent"
    BY DEF JobStands, Promotions!Job
  <2>2. Promotions!Send(c) /\ UNCHANGED <<promotions, promotionList, editingId, draft>>
    BY <1>5 DEF Promotions!HandleToggleActive
  <2> HIDE DEF c
  <2> QED
    BY <2>1, <2>2, ChangeSent
<1>6. ASSUME NEW yes \in BOOLEAN, Promotions!AnswerDelete(yes) PROVE PromotionInv'
  <2> DEFINE c == Promotions!Job("delete", deletionAsked.id, deletionAsked.editing,
                                   [on |-> FALSE, text |-> None])
  <2>1. JobStands(c) /\ c.stage = "sent"
    BY DEF JobStands, Promotions!Job
  <2>2. /\ \/ Promotions!Send(c)
           \/ UNCHANGED <<jobs, changesSent, crossed>>
        /\ UNCHANGED <<promotions, promotionList, editingId, draft>>
    BY <1>6 DEF Promotions!AnswerDelete
  <2> HIDE DEF c
  <2>3. CASE UNCHANGED <<jobs, changesSent, crossed>>
    BY <2>2, <2>3 DEF PromotionInv
  <2> QED
    BY <2>1, <2>2, <2>3, ChangeSent
<1>7. ASSUME NEW c \in jobs, Promotions!Serve(c) \/ Promotions!Heard(c) PROVE PromotionInv'
  <2> PICK stage \in {"done", "reading"} :
        jobs' = (jobs \ {c}) \cup {[c EXCEPT !.stage = stage]}
    BY <1>7 DEF Promotions!Serve, Promotions!Heard
  <2> DEFINE next == [c EXCEPT !.stage = stage]
  <2>1. JobStands(c)
    BY DEF PromotionInv
  <2>2. JobStands(next) /\ next.stage # "read"
    BY <2>1 DEF JobStands
  <2>3. "of" \in DOMAIN draft' /\ draft'.of = editingId'
    BY <1>7 DEF Promotions!Serve, Promotions!Heard, Promotions!ResetForm, Promotions!Emptied,
                PromotionInv
  <2>4. UNCHANGED <<promotionList, crossed>>
    BY <1>7 DEF Promotions!Serve, Promotions!Heard
  <2> HIDE DEF next
  <2> QED
    BY <2>2, <2>3, <2>4, JobAdvances DEF next
<1>8. ASSUME NEW c \in jobs, Promotions!Read(c) PROVE PromotionInv'
  <2> DEFINE next == [c EXCEPT !.stage = "read", !.got = promotions]
  <2>1. JobStands(c)
    BY DEF PromotionInv
  <2>2. JobStands(next) /\ next.got = promotions
    BY <2>1 DEF JobStands
  <2>3. /\ jobs' = (jobs \ {c}) \cup {next}
        /\ UNCHANGED <<promotions, promotionList, crossed, editingId, draft>>
    BY <1>8 DEF Promotions!Read
  <2> HIDE DEF next
  <2> QED
    BY <2>2, <2>3, JobAdvances DEF PromotionInv
<1>9. ASSUME NEW c \in jobs, Promotions!Reloaded(c) \/ Promotions!JobFails(c)
      PROVE  PromotionInv'
  <2>1. CASE Promotions!Reloaded(c)
    BY <2>1 DEF Promotions!Reloaded, PromotionInv
  <2>2. CASE Promotions!JobFails(c)
    BY <2>2 DEF Promotions!JobFails, PromotionInv
  <2> QED
    BY <1>9, <2>1, <2>2
<1> QED
  BY <1>1, <1>2, <1>3, <1>4, <1>5, <1>6, <1>7, <1>8, <1>9 DEF Promotions!Next

LEMMA PromotionsHold == PromotionInv => Promotions!DeskIsTrue
BY DEF PromotionInv, JobStands, Promotions!DeskIsTrue, Promotions!SavedToItsOwn,
       Promotions!ListIsKept

-----------------------------------------------------------------------------
(* The payments page: an answer not marked stale is what the ledger holds,   *)
(* once every change made was heard, and the answer shown is stale only while *)
(* it is asked for again                                                     *)

Charges == [what : {"payout", "sync", "commission"}, of : Ranges \cup Entries \cup Rates,
            done : BOOLEAN]
SendableCharges == {call \in Charges : call.what = "commission" => call.of \in Rates}
IsAnswer(a) == a = None \/ "stale" \in DOMAIN a
IsFetch(f) == f.step \in {"none", "asked", "read"} /\ f = [step |-> f.step, data |-> f.data]

PayHeard == ~unheard /\ \A c \in PaymentCalls : paying[c] = None \/ ~paying[c].done

PayTypes ==
  /\ paying \in [PaymentCalls -> SendableCharges \cup {None}]
  /\ range \in Ranges /\ rate \in Rates /\ rateShown \in Rates
  /\ rateTyped \in Rates \cup {None}
  /\ answers = [r \in Ranges |-> answers[r]] /\ \A r \in Ranges : IsAnswer(answers[r])
  /\ fetching = [r \in Ranges |-> fetching[r]]
  /\ \A r \in Ranges : IsFetch(fetching[r]) /\ (fetching[r].step = "none" => fetching[r].data = None)

\* No statement but the one shown is on its way, which is asked for again when it is stale.
OneFetch ==
  ~outlived =>
    /\ \A r \in Ranges : r # range => fetching[r].step = "none"
    /\ answers[range] # None /\ answers[range].stale => fetching[range].step # "none"

AnswersFresh ==
  PayHeard /\ ~outlived =>
    /\ \A r \in Ranges : answers[r] # None /\ ~answers[r].stale =>
                           answers[r].data = Payments!Statement(r)
    /\ fetching[range].step = "read" => fetching[range].data = Payments!Statement(range)

PayInv == PayTypes /\ OneFetch /\ AnswersFresh

LEMMA NotACall == None \notin Charges
BY PagesAssumption DEF Charges

LEMMA InitPayInv == Payments!Init => PayInv
<1> SUFFICES ASSUME Payments!Init PROVE PayInv
  OBVIOUS
<1>1. /\ answers = [r \in Ranges |-> None]
      /\ fetching = [r \in Ranges |-> IF r = range THEN Payments!Asked ELSE Payments!NoFetch]
      /\ range \in Ranges /\ rate \in Rates /\ rateShown \in Rates /\ rateTyped = None
      /\ paying = [c \in PaymentCalls |-> None]
  BY DEF Payments!Init
<1>2. PayTypes
  BY <1>1 DEF PayTypes, IsAnswer, IsFetch, Payments!Asked, Payments!NoFetch, Payments!Fetch
<1>3. OneFetch /\ AnswersFresh
  BY <1>1 DEF OneFetch, AnswersFresh, Payments!Asked, Payments!NoFetch, Payments!Fetch
<1> QED
  BY <1>2, <1>3 DEF PayInv

LEMMA SameStatement ==
  UNCHANGED ledger => \A r \in Ranges : Payments!Statement(r)' = Payments!Statement(r)
BY DEF Payments!Statement

LEMMA ChooseDatesKeeps ==
  ASSUME PayInv, NEW r \in Ranges, Payments!ChooseDates(r) PROVE PayInv'
<1>1. /\ range' = r /\ r # range
      /\ fetching' = IF fetching[r] = Payments!NoFetch /\ (answers[r] = None \/ answers[r].stale)
                     THEN [fetching EXCEPT ![r] = Payments!Asked] ELSE fetching
      /\ outlived' = (outlived \/ fetching[range] # Payments!NoFetch)
      /\ UNCHANGED <<ledger, rate, answers, rateShown, rateTyped, paying, unheard>>
  BY DEF Payments!ChooseDates
<1>2. \A q \in Ranges : fetching'[q] = IF q = r /\ fetching[r] = Payments!NoFetch
                                         /\ (answers[r] = None \/ answers[r].stale)
                                       THEN Payments!Asked ELSE fetching[q]
  BY <1>1 DEF PayInv, PayTypes
<1>3. \A q \in Ranges : fetching[q].step = "none" <=> fetching[q] = Payments!NoFetch
  BY DEF PayInv, PayTypes, IsFetch, Payments!NoFetch, Payments!Fetch
<1>4. PayTypes'
  BY <1>1 DEF PayInv, PayTypes, IsFetch, Payments!Asked, Payments!Fetch
<1>5. ~outlived' => ~outlived /\ \A q \in Ranges : fetching[q].step = "none"
  BY <1>1, <1>3 DEF PayInv, OneFetch
<1>6. OneFetch'
  BY <1>1, <1>2, <1>3, <1>5 DEF OneFetch, Payments!Asked, Payments!Fetch
<1>7. AnswersFresh'
  BY <1>1, <1>2, <1>5, SameStatement
     DEF PayInv, AnswersFresh, PayHeard, Payments!Asked, Payments!Fetch
<1> QED
  BY <1>4, <1>6, <1>7 DEF PayInv

LEMMA StatementReadKeeps ==
  ASSUME PayInv, NEW r \in Ranges, Payments!StatementRead(r) PROVE PayInv'
<1>1. /\ fetching[r] = Payments!Asked
      /\ fetching' = [fetching EXCEPT ![r] = Payments!Fetch("read", Payments!Statement(r))]
      /\ UNCHANGED <<ledger, rate, range, answers, rateShown, rateTyped, paying, unheard, outlived>>
  BY DEF Payments!StatementRead, Payments!ghosts
<1>2. \A q \in Ranges : fetching'[q] = IF q = r THEN [step |-> "read", data |-> Payments!Statement(r)]
                                       ELSE fetching[q]
  BY <1>1 DEF PayInv, PayTypes, Payments!Fetch
<1>3. PayTypes'
  BY <1>1, <1>2 DEF PayInv, PayTypes, IsFetch
<1>4. fetching[r].step = "asked"
  BY <1>1 DEF Payments!Asked, Payments!Fetch
<1>5. OneFetch'
  BY <1>1, <1>2, <1>4 DEF PayInv, OneFetch
<1>6. AnswersFresh'
  BY <1>1, <1>2, SameStatement DEF PayInv, PayTypes, AnswersFresh, PayHeard
<1> QED
  BY <1>3, <1>5, <1>6 DEF PayInv

LEMMA StatementArrivesKeeps ==
  ASSUME PayInv, NEW r \in Ranges, Payments!StatementArrives(r) PROVE PayInv'
<1>1. /\ fetching[r].step = "read"
      /\ answers' = [answers EXCEPT ![r] = [data |-> fetching[r].data, stale |-> FALSE]]
      /\ fetching' = [fetching EXCEPT ![r] = Payments!NoFetch]
      /\ UNCHANGED <<ledger, rate, range, rateShown, rateTyped, paying, unheard, outlived>>
  BY DEF Payments!StatementArrives, Payments!ghosts
<1>2. \A q \in Ranges :
        /\ fetching'[q] = IF q = r THEN [step |-> "none", data |-> None] ELSE fetching[q]
        /\ answers'[q] = IF q = r THEN [data |-> fetching[r].data, stale |-> FALSE] ELSE answers[q]
  BY <1>1 DEF PayInv, PayTypes, Payments!NoFetch, Payments!Fetch
<1>3. PayTypes'
  <2>1. \A q \in Ranges : IsAnswer(answers'[q])
    BY <1>2 DEF PayInv, PayTypes, IsAnswer
  <2>2. \A q \in Ranges : IsFetch(fetching'[q])
                         /\ (fetching'[q].step = "none" => fetching'[q].data = None)
    BY <1>2 DEF PayInv, PayTypes, IsFetch
  <2>3. /\ answers' = [q \in Ranges |-> answers'[q]]
        /\ fetching' = [q \in Ranges |-> fetching'[q]]
    BY <1>1 DEF PayInv, PayTypes
  <2> QED
    BY <1>1, <2>1, <2>2, <2>3 DEF PayInv, PayTypes
<1>4. OneFetch'
  BY <1>1, <1>2 DEF PayInv, PayTypes, OneFetch
<1>5. AnswersFresh'
  BY <1>1, <1>2, SameStatement DEF PayInv, PayTypes, OneFetch, AnswersFresh, PayHeard
<1> QED
  BY <1>3, <1>4, <1>5 DEF PayInv

\* A call is sent, or what is typed changes.
LEMMA PaySends ==
  ASSUME PayInv, UNCHANGED <<ledger, rate, range, answers, fetching, rateShown, unheard, outlived>>,
         rateTyped' \in Rates \cup {None},
         \/ UNCHANGED paying
         \/ \E c \in PaymentCalls, call \in SendableCharges :
               ~call.done /\ paying[c] = None /\ paying' = [paying EXCEPT ![c] = call]
  PROVE  PayInv'
<1>1. PayTypes'
  BY DEF PayInv, PayTypes
<1>2. OneFetch'
  BY DEF PayInv, OneFetch
<1>3. PayHeard' => PayHeard
  BY DEF PayInv, PayTypes, PayHeard
<1> QED
  BY <1>1, <1>2, <1>3, SameStatement DEF PayInv, PayTypes, AnswersFresh

LEMMA PayButtonKeeps ==
  ASSUME PayInv, NEW c \in PaymentCalls,
         \/ Payments!HandleRecordPayout(c) \/ Payments!HandleSaveCommission(c)
         \/ \E e \in Entries : Payments!HandleSyncDeliveryCharge(c, e)
  PROVE  PayInv'
<1>1. CASE Payments!HandleRecordPayout(c)
  <2> DEFINE call == [what |-> "payout", of |-> range, done |-> FALSE]
  <2>1. call \in SendableCharges /\ ~call.done
    BY DEF PayInv, PayTypes, Charges, SendableCharges
  <2>2. Payments!Send(c, call) /\ UNCHANGED rateTyped
    BY <1>1 DEF Payments!HandleRecordPayout
  <2> HIDE DEF call
  <2> QED
    BY <2>1, <2>2, PaySends DEF Payments!Send, Payments!ghosts, PayInv, PayTypes
<1>2. CASE Payments!HandleSaveCommission(c)
  <2> DEFINE call == [what |-> "commission", of |-> IF rateTyped = None THEN rateShown ELSE rateTyped,
                      done |-> FALSE]
  <2>1. call \in SendableCharges /\ ~call.done
    BY DEF PayInv, PayTypes, Charges, SendableCharges
  <2>2. Payments!Send(c, call) /\ UNCHANGED rateTyped
    BY <1>2 DEF Payments!HandleSaveCommission
  <2> HIDE DEF call
  <2> QED
    BY <2>1, <2>2, PaySends DEF Payments!Send, Payments!ghosts, PayInv, PayTypes
<1>3. ASSUME NEW e \in Entries, Payments!HandleSyncDeliveryCharge(c, e) PROVE PayInv'
  <2> DEFINE call == [what |-> "sync", of |-> e, done |-> FALSE]
  <2>1. call \in SendableCharges /\ ~call.done
    BY DEF Charges, SendableCharges
  <2>2. Payments!Send(c, call) /\ UNCHANGED rateTyped
    BY <1>3 DEF Payments!HandleSyncDeliveryCharge
  <2> HIDE DEF call
  <2> QED
    BY <2>1, <2>2, PaySends DEF Payments!Send, Payments!ghosts, PayInv, PayTypes
<1> QED
  BY <1>1, <1>2, <1>3

LEMMA PayActsKeeps ==
  ASSUME PayInv, NEW c \in PaymentCalls, Payments!ServerActs(c) PROVE PayInv'
<1>1. /\ paying[c] # None /\ paying' = [paying EXCEPT ![c].done = TRUE]
      /\ UNCHANGED <<range, answers, fetching, rateShown, rateTyped, unheard, outlived>>
  BY DEF Payments!ServerActs, Payments!ghosts
<1>2. rate' = rate \/ (paying[c].what = "commission" /\ rate' = paying[c].of)
  BY DEF Payments!ServerActs
<1>3. [paying[c] EXCEPT !.done = TRUE] \in SendableCharges /\ [paying[c] EXCEPT !.done = TRUE].done
  BY <1>1 DEF PayInv, PayTypes, Charges, SendableCharges
<1>4. paying' \in [PaymentCalls -> SendableCharges \cup {None}] /\ paying'[c] \in Charges /\ paying'[c].done
  BY <1>1, <1>3 DEF PayInv, PayTypes, SendableCharges
<1>5. ~PayHeard'
  BY <1>4, NotACall DEF PayHeard
<1>6. PayTypes'
  BY <1>1, <1>2, <1>4 DEF PayInv, PayTypes, SendableCharges
<1> QED
  BY <1>1, <1>5, <1>6 DEF PayInv, OneFetch, AnswersFresh

LEMMA PayAnsweredKeeps ==
  ASSUME PayInv, NEW c \in PaymentCalls, Payments!Answered(c) PROVE PayInv'
<1>1. /\ answers' = [r \in Ranges |->
                      IF answers[r] = None THEN None ELSE [answers[r] EXCEPT !.stale = TRUE]]
      /\ fetching' = [fetching EXCEPT ![range] = Payments!Asked]
      /\ paying' = [paying EXCEPT ![c] = None]
      /\ rateShown' \in {rate, rateShown}
      /\ UNCHANGED <<ledger, rate, range, rateTyped, unheard, outlived>>
  BY DEF Payments!Answered, Payments!Invalidate, Payments!Ended, Payments!ghosts
<1>2. \A r \in Ranges :
        /\ IsAnswer(answers'[r])
        /\ answers'[r] = None \/ answers'[r].stale
  <2>1. \A r \in Ranges : answers[r] = None \/ "stale" \in DOMAIN answers[r]
    BY DEF PayInv, PayTypes, IsAnswer
  <2> QED
    BY <1>1, <2>1 DEF IsAnswer
<1>3. \A r \in Ranges : fetching'[r] = IF r = range THEN [step |-> "asked", data |-> None] ELSE fetching[r]
  BY <1>1 DEF PayInv, PayTypes, Payments!Asked, Payments!Fetch
<1>4. PayTypes'
  <2>1. \A r \in Ranges : IsFetch(fetching'[r])
                         /\ (fetching'[r].step = "none" => fetching'[r].data = None)
    BY <1>3 DEF PayInv, PayTypes, IsFetch
  <2>2. /\ answers' = [r \in Ranges |-> answers'[r]]
        /\ fetching' = [r \in Ranges |-> fetching'[r]]
    BY <1>1 DEF PayInv, PayTypes
  <2> QED
    BY <1>1, <1>2, <2>1, <2>2 DEF PayInv, PayTypes
<1>5. OneFetch'
  BY <1>1, <1>3 DEF PayInv, PayTypes, OneFetch
<1>6. AnswersFresh'
  BY <1>1, <1>2, <1>3 DEF PayInv, PayTypes, AnswersFresh
<1> QED
  BY <1>4, <1>5, <1>6 DEF PayInv

LEMMA PayFailsKeeps ==
  ASSUME PayInv, NEW c \in PaymentCalls, Payments!CallFails(c) PROVE PayInv'
<1>1. /\ paying[c] # None /\ paying' = [paying EXCEPT ![c] = None]
      /\ unheard' = (unheard \/ paying[c].done)
      /\ UNCHANGED <<ledger, rate, range, answers, fetching, rateShown, rateTyped, outlived>>
  BY DEF Payments!CallFails, Payments!Ended
<1>2. PayTypes' /\ OneFetch'
  BY <1>1 DEF PayInv, PayTypes, OneFetch
<1>3. PayHeard' => PayHeard
  <2>1. ASSUME PayHeard' PROVE ~unheard /\ ~paying[c].done
    BY <1>1, <2>1 DEF PayHeard
  <2>2. \A d \in PaymentCalls : d # c => paying'[d] = paying[d]
    BY <1>1 DEF PayInv, PayTypes
  <2> QED
    BY <2>1, <2>2 DEF PayHeard
<1> QED
  BY <1>1, <1>2, <1>3, SameStatement DEF PayInv, PayTypes, AnswersFresh

LEMMA NextPayInv == PayInv /\ [Payments!Next]_paymentVars => PayInv'
<1> SUFFICES ASSUME PayInv, [Payments!Next]_paymentVars PROVE PayInv'
  OBVIOUS
<1>1. CASE UNCHANGED paymentVars
  <2>1. UNCHANGED <<ledger, rate, range, answers, fetching, rateShown, rateTyped, paying, unheard,
                    outlived>>
    BY <1>1 DEF paymentVars
  <2> QED
    BY <2>1, PaySends DEF PayInv, PayTypes
<1>2. ASSUME NEW v \in Rates, Payments!TypeCommission(v) PROVE PayInv'
  BY <1>2, PaySends DEF Payments!TypeCommission, Payments!ghosts
<1> QED
  BY <1>1, <1>2, ChooseDatesKeeps, StatementReadKeeps, StatementArrivesKeeps, PayButtonKeeps,
     PayActsKeeps, PayAnsweredKeeps, PayFailsKeeps DEF Payments!Next

LEMMA PaymentsHold == PayInv => Payments!StatementIsLedger
BY DEF PayInv, PayTypes, OneFetch, AnswersFresh, PayHeard, Payments!StatementIsLedger,
       Payments!Shown, Payments!NoFetch, Payments!Fetch

-----------------------------------------------------------------------------
(* Receiving: a preview is signed for lines that count each variant once,     *)
(* and what is committed is the preview whose warnings were ticked            *)

OneEach(lines) == \A v \in DOMAIN lines : lines[v] = 1
PayloadRight(payload) == {"product", "lines"} \subseteq DOMAIN payload /\ OneEach(payload.lines)
Signed == 1..Len(issued)

ReceiveInv ==
  /\ \E S : issued \in Seq(S)
  /\ \A t \in Signed : OneEach(issued[t].lines)
  /\ previewAsked => committing = Receive!NoCommit
  /\ step = "done" => ~previewAsked
  /\ previewAsked \/ step = "preview" => PayloadRight(lastPayload)
  /\ preview.token = 0 \/ (preview.token \in Signed /\ preview.needs = issued[preview.token].needs)
  /\ preview.token # 0 /\ confirmed => preview.token \in agreed
  /\ \/ committing = Receive!NoCommit
     \/ /\ committing.token \in Signed
        /\ committing.confirm => committing.token \in agreed
  /\ received \subseteq Signed
  /\ \A t \in received : issued[t].needs => t \in agreed

LEMMA LinesAreOne == Receive!Buildable => PayloadRight(Receive!Payload)
<1> SUFFICES ASSUME Receive!Buildable, NEW v \in Receive!Lines
             PROVE  Cardinality({i \in Receive!RowsWritten : Receive!RowAt(i).name = v})
                      + (IF v \in Receive!KnownLines THEN 1 ELSE 0) = 1
  BY DEF PayloadRight, OneEach, Receive!Payload, Receive!Cardinality, Cardinality
<1> DEFINE rowsOf == {i \in Receive!RowsWritten : Receive!RowAt(i).name = v}
<1>1. /\ \A i \in Receive!RowsWritten : Receive!RowAt(i).name \notin Receive!Known
      /\ \A i, j \in Receive!RowsWritten :
           Receive!RowAt(i).name = Receive!RowAt(j).name => i = j
  BY DEF Receive!Buildable, Receive!RowsAreRight
<1>2. CASE v \in Receive!KnownLines
  <2>1. v \in Receive!Known
    BY <1>2 DEF Receive!KnownLines
  <2>2. rowsOf = {}
    BY <1>1, <2>1
  <2> QED
    BY <1>2, <2>2, FS_EmptySet
<1>3. CASE v \notin Receive!KnownLines
  <2>1. PICK i \in Receive!RowsWritten : Receive!RowAt(i).name = v
    BY <1>3 DEF Receive!Lines
  <2>2. rowsOf = {i}
    BY <1>1, <2>1
  <2>3. Cardinality(rowsOf) = 1
    BY <2>2, FS_Singleton
  <2> QED
    BY <1>3, <2>3
<1> QED
  BY <1>2, <1>3

LEMMA InitReceiveInv == Receive!Init => ReceiveInv
<1>1. Receive!Init => issued \in Seq({}) /\ Len(issued) = 0
  BY DEF Receive!Init
<1> QED
  BY <1>1 DEF Receive!Init, ReceiveInv, Signed, Receive!NoPreview, Receive!NoCommit

\* A step at the desk that asks for nothing.
LEMMA ReceiveStays ==
  ASSUME ReceiveInv, UNCHANGED <<lastPayload, confirmed, previewAsked, committing, issued, received,
                                 agreed>>,
         UNCHANGED preview \/ preview' = Receive!NoPreview,
         step' \in {"choose", "enter"} \/ UNCHANGED step
  PROVE  ReceiveInv'
<1>1. preview'.token = 0 \/ UNCHANGED preview
  BY DEF Receive!NoPreview
<1> QED
  BY <1>1 DEF ReceiveInv, Signed

LEMMA ReceiveAsksKeeps ==
  ASSUME ReceiveInv, PayloadRight(lastPayload'), Receive!RequestPreview(lastPayload'),
         step # "done",
         UNCHANGED <<step, preview, confirmed, committing, issued, received, agreed>>
  PROVE  ReceiveInv'
BY DEF ReceiveInv, Signed, Receive!RequestPreview, Receive!Busy

LEMMA PreviewArrivesKeeps ==
  ASSUME ReceiveInv, NEW needs \in BOOLEAN, Receive!PreviewArrives(needs)
  PROVE  ReceiveInv'
<1>1. /\ previewAsked /\ confirmed' = FALSE /\ step' = "preview" /\ previewAsked' = FALSE
      /\ Receive!ServerPreviews(needs)
      /\ UNCHANGED <<lastPayload, committing, received, agreed>>
  BY DEF Receive!PreviewArrives, Receive!TakeTickBack
<1>2. PayloadRight(lastPayload) /\ committing = Receive!NoCommit
  BY <1>1 DEF ReceiveInv
<1>3. CASE UNCHANGED issued /\ \E p \in Products : preview' = [Receive!NoPreview EXCEPT !.match = p]
  <2>1. preview'.token = 0
    BY <1>3 DEF Receive!NoPreview
  <2> QED
    BY <1>1, <1>2, <1>3, <2>1 DEF ReceiveInv, Signed
<1>4. CASE /\ issued' = Append(issued, [lines |-> lastPayload.lines, needs |-> needs, sales |-> sales])
           /\ preview' = [token |-> Len(issued'), needs |-> needs, match |-> lastPayload.product]
  <2> DEFINE new == [lines |-> lastPayload.lines, needs |-> needs, sales |-> sales]
  <2>1. PICK S : issued \in Seq(S)
    BY DEF ReceiveInv
  <2>2. /\ issued' \in Seq(S \cup {new}) /\ Len(issued') = Len(issued) + 1 /\ Len(issued) \in Nat
        /\ \A t \in Signed : issued'[t] = issued[t]
        /\ issued'[Len(issued) + 1] = new
    BY <1>4, <2>1, AppendIs DEF Signed
  <2>3. Signed' = Signed \cup {Len(issued) + 1} /\ Len(issued) + 1 # 0
    BY <2>2 DEF Signed
  <2>4. OneEach(new.lines) /\ new.needs = needs
    BY <1>2 DEF PayloadRight
  <2> HIDE DEF new
  <2>5. /\ \E T : issued' \in Seq(T)
        /\ \A t \in Signed' : OneEach(issued'[t].lines)
    BY <2>2, <2>3, <2>4 DEF ReceiveInv
  <2>6. preview'.token = Len(issued) + 1 /\ preview'.needs = needs
    BY <1>4, <2>2
  <2> QED
    BY <1>1, <1>2, <2>2, <2>3, <2>4, <2>5, <2>6 DEF ReceiveInv
<1> QED
  BY <1>1, <1>3, <1>4 DEF Receive!ServerPreviews

\* The call of a commit ends; what it received was agreed.
LEMMA CommitEndsKeeps ==
  ASSUME ReceiveInv, committing # Receive!NoCommit, committing' = Receive!NoCommit,
         step' = "done" \/ UNCHANGED step,
         Receive!Receives \/ UNCHANGED received,
         UNCHANGED <<lastPayload, preview, confirmed, previewAsked, issued, agreed>>
  PROVE  ReceiveInv'
<1>1. ~previewAsked
  BY DEF ReceiveInv
<1>2. received' \subseteq Signed /\ \A t \in received' : issued[t].needs => t \in agreed
  BY DEF ReceiveInv, Receive!Receives
<1> QED
  BY <1>1, <1>2 DEF ReceiveInv, Signed

LEMMA NextReceiveInv == ReceiveInv /\ [Receive!Next]_receiveVars => ReceiveInv'
<1> SUFFICES ASSUME ReceiveInv, [Receive!Next]_receiveVars PROVE ReceiveInv'
  OBVIOUS
<1>1. CASE \/ \E p \in Products : Receive!SelectProduct(p)
           \/ Receive!StartNewProduct \/ Receive!BackToChoose \/ Receive!BackToEnter
           \/ Receive!Sale \/ UNCHANGED receiveVars
           \/ \E f \in ReceiveForms : Receive!Type(f)
  BY <1>1, ReceiveStays
     DEF Receive!SelectProduct, Receive!StartNewProduct, Receive!BackToChoose, Receive!BackToEnter,
         Receive!Sale, Receive!Type, Receive!Server, receiveVars
<1>2. CASE Receive!SubmitQuantities
  BY <1>2, LinesAreOne, ReceiveAsksKeeps
     DEF Receive!SubmitQuantities, Receive!Server, Receive!RequestPreview
<1>3. CASE Receive!RefreshPreview
  BY <1>3, ReceiveAsksKeeps
     DEF Receive!RefreshPreview, Receive!Server, Receive!RequestPreview, ReceiveInv
<1>4. CASE Receive!ChooseCandidate
  <2>1. PayloadRight([lastPayload EXCEPT !.product = preview.match])
    BY <1>4 DEF Receive!ChooseCandidate, ReceiveInv, PayloadRight
  <2> QED
    BY <1>4, <2>1, ReceiveAsksKeeps
       DEF Receive!ChooseCandidate, Receive!Server, Receive!RequestPreview
<1>5. ASSUME NEW needs \in BOOLEAN, Receive!PreviewArrives(needs) PROVE ReceiveInv'
  BY <1>5, PreviewArrivesKeeps
<1>6. CASE Receive!PreviewFails
  BY <1>6 DEF Receive!PreviewFails, Receive!Server, ReceiveInv, Signed
<1>7. CASE Receive!Tick
  BY <1>7 DEF Receive!Tick, Receive!Server, ReceiveInv, Signed
<1>8. CASE Receive!ConfirmReceiving
  BY <1>8 DEF Receive!ConfirmReceiving, Receive!CanCommit, Receive!Busy, Receive!Server,
              Receive!NoCommit, ReceiveInv, Signed
<1>9. CASE Receive!CommitSucceeds \/ Receive!CommitFails
  BY <1>9, CommitEndsKeeps DEF Receive!CommitSucceeds, Receive!CommitFails
<1>10. CASE Receive!ReceiveMore
  BY <1>10 DEF Receive!ReceiveMore, Receive!Server, Receive!NoPreview, ReceiveInv, Signed
<1> QED
  BY <1>1, <1>2, <1>3, <1>4, <1>5, <1>6, <1>7, <1>8, <1>9, <1>10 DEF Receive!Next

LEMMA ReceiveHolds == ReceiveInv => Receive!ReceivedAsAgreed
BY DEF ReceiveInv, OneEach, Signed, Receive!ReceivedAsAgreed

-----------------------------------------------------------------------------
(* The table of products: a form has at most one row for a colour and size,  *)
(* and the photos of the product it is open for, unless an upload strayed    *)

Grids == [Colours \X Sizes -> 0..1]
ShelfPhotos == [colour : Colours, of : Shelf \cup {None}]
ProductDocs == [cells : Grids, photos : SUBSET ShelfPhotos]
EditForms == [cells : Grids, colours : SUBSET Colours, sizes : SUBSET Sizes,
              photos : SUBSET ShelfPhotos]

TableTypes ==
  /\ docs \in [Shelf -> {None} \cup ProductDocs]
  /\ editing \in Shelf \cup {None} /\ editForm \in EditForms
  /\ upload \in {None} \cup ShelfPhotos
  /\ saving \in {None} \cup [product : Shelf, doc : ProductDocs]
  /\ linked \in Shelf \cup {None}

PhotosStay ==
  /\ \A ph \in editForm.photos : ph.of = editing
  /\ upload = None \/ (upload.of = editing /\ editing # None)
  /\ saving = None \/ \A ph \in saving.doc.photos : ph.of = saving.product
  /\ \A p \in Shelf : docs[p] = None \/ \A ph \in docs[p].photos : ph.of = p

TableInv == TableTypes /\ (strayed \/ PhotosStay)

LEMMA BlankIsAForm == Table!Blank \in EditForms /\ Table!Blank.photos = {}
<1>1. [cell \in Colours \X Sizes |-> 0] \in Grids
  BY DEF Grids
<1> QED
  BY <1>1 DEF Table!Blank, EditForms

LEMMA InitTableInv == Table!Init => TableInv
<1> SUFFICES ASSUME Table!Init PROVE TableInv
  OBVIOUS
<1>1. docs \in [Shelf -> ProductDocs] /\ \A p \in Shelf : docs[p].photos = {}
  <2>1. docs \in [Shelf -> [cells : Grids, photos : {{}}]]
    BY PagesAssumption DEF Table!Init, Grids
  <2>2. [cells : Grids, photos : {{}}] \subseteq ProductDocs
    BY DEF ProductDocs
  <2> QED
    BY <2>1, <2>2
<1>2. TableTypes
  BY <1>1, BlankIsAForm DEF Table!Init, TableTypes
<1>3. PhotosStay
  BY <1>1, BlankIsAForm DEF Table!Init, PhotosStay
<1> QED
  BY <1>2, <1>3 DEF TableInv

\* A form that is changed and keeps to its product's photos.
LEMMA FormKeeps ==
  ASSUME TableInv, editForm' \in EditForms,
         strayed \/ \A ph \in editForm'.photos : ph.of = editing,
         UNCHANGED <<docs, editing, upload, saving, linked, strayed>>
  PROVE  TableInv'
<1>1. TableTypes'
  BY DEF TableInv, TableTypes
<1>2. strayed' \/ PhotosStay'
  BY DEF TableInv, PhotosStay
<1> QED
  BY <1>1, <1>2 DEF TableInv

LEMMA SameTable ==
  ASSUME TableInv, UNCHANGED <<docs, editing, editForm, upload, saving, linked, strayed>>
  PROVE  TableInv'
BY DEF TableInv, TableTypes, PhotosStay

LEMMA FillKeepsTable ==
  ASSUME TableInv, NEW p \in Shelf, docs[p] # None, Table!Fill(p, docs[p]),
         strayed => strayed', strayed' \/ upload = None \/ editing = None,
         linked' \in Shelf \cup {None}, UNCHANGED <<docs, upload, saving>>
  PROVE  TableInv'
<1>1. docs[p] \in ProductDocs
  BY DEF TableInv, TableTypes
<1>2. editing' = p /\ editForm' \in EditForms /\ editForm'.photos = docs[p].photos
  <2>1. {ph.colour : ph \in docs[p].photos} \subseteq Colours
    BY <1>1 DEF ProductDocs, ShelfPhotos
  <2> QED
    BY <1>1, <2>1 DEF Table!Fill, EditForms, ProductDocs
<1>3. TableTypes'
  BY <1>2 DEF TableInv, TableTypes
<1>4. ASSUME ~strayed' PROVE PhotosStay'
  <2>1. ~strayed /\ (upload = None \/ editing = None)
    BY <1>4
  <2>2. PhotosStay
    BY <2>1 DEF TableInv
  <2> QED
    BY <1>2, <2>1, <2>2 DEF PhotosStay
<1> QED
  BY <1>3, <1>4 DEF TableInv

LEMMA CloseKeepsTable ==
  ASSUME TableInv, Table!Close, docs' \in [Shelf -> {None} \cup ProductDocs],
         saving' \in {None, saving}, UNCHANGED <<upload, linked>>,
         \A p \in Shelf : docs'[p] = docs[p]
                            \/ (saving # None /\ saving.product = p /\ docs'[p] = saving.doc)
  PROVE  TableInv'
<1>1. editing' = None /\ editForm' = Table!Blank /\ (strayed => strayed')
      /\ (strayed' \/ upload = None)
  BY DEF Table!Close
<1>2. TableTypes'
  BY <1>1, BlankIsAForm DEF TableInv, TableTypes
<1>3. ASSUME ~strayed' PROVE PhotosStay'
  BY <1>1, <1>3, BlankIsAForm DEF TableInv, PhotosStay
<1> QED
  BY <1>2, <1>3 DEF TableInv

LEMMA LinkedKeeps ==
  ASSUME TableInv, Table!LinkedArrives PROVE TableInv'
<1>1. linked \in Shelf /\ linked' = None /\ UNCHANGED <<docs, upload, saving>>
  BY DEF Table!LinkedArrives, TableInv, TableTypes
<1>2. CASE docs[linked] # None
  <2>1. Table!Fill(linked, docs[linked]) /\ (strayed => strayed')
        /\ (strayed' \/ upload = None)
    BY <1>2 DEF Table!LinkedArrives
  <2> QED
    BY <1>1, <1>2, <2>1, FillKeepsTable
<1>3. CASE docs[linked] = None
  <2>1. UNCHANGED <<editing, editForm, strayed>>
    BY <1>3 DEF Table!LinkedArrives
  <2> QED
    BY <1>1, <2>1 DEF TableInv, TableTypes, PhotosStay
<1> QED
  BY <1>2, <1>3

LEMMA EditColoursAre ==
  ASSUME TableInv
  PROVE  /\ Table!EditColours \subseteq Colours /\ Table!EditSizes \subseteq Sizes
         /\ \A c \in Colours \ Table!EditColours, s \in Sizes : editForm.cells[<<c, s>>] = 0
         /\ \A s \in Sizes \ Table!EditSizes, c \in Colours : editForm.cells[<<c, s>>] = 0
<1>1. editForm \in EditForms
  BY DEF TableInv, TableTypes
<1>2. \A c \in Colours, s \in Sizes : editForm.cells[<<c, s>>] \in 0..1
  BY <1>1 DEF EditForms, Grids
<1>3. Table!EditColours \subseteq Colours /\ Table!EditSizes \subseteq Sizes
  BY <1>1 DEF EditForms, ShelfPhotos, Table!EditColours, Table!EditSizes
<1> QED
  BY <1>2, <1>3 DEF Table!EditColours, Table!EditSizes, Table!HasColour, Table!HasSize

LEMMA RowsAreAdded ==
  ASSUME TableInv, NEW pairs \in SUBSET (Colours \X Sizes),
         \A cell \in pairs : editForm.cells[cell] = 0
  PROVE  Table!AddRows(pairs) \in Grids
<1>1. \A cell \in Colours \X Sizes : editForm.cells[cell] \in 0..1
  BY DEF TableInv, TableTypes, EditForms, Grids
<1>2. \A cell \in Colours \X Sizes :
         editForm.cells[cell] + (IF cell \in pairs THEN 1 ELSE 0) \in 0..1
  BY <1>1
<1> QED
  BY <1>2 DEF Table!AddRows, Grids

LEMMA AddColorKeeps ==
  ASSUME TableInv, NEW c \in Colours, Table!HandleAddColor(c) PROVE TableInv'
<1> DEFINE held == IF Table!EditSizes = {} THEN {CHOOSE s \in Sizes : TRUE} ELSE Table!EditSizes
           new == [editForm EXCEPT !.cells = Table!AddRows({c} \X held),
                                   !.colours = @ \union {c}]
<1>1. c \notin Table!EditColours /\ editForm' = new
      /\ UNCHANGED <<docs, editing, upload, saving, linked, strayed>>
  BY DEF Table!HandleAddColor, Table!ColourIsNew, Table!Edit, Table!Keep
<1>2. Table!AddRows({c} \X held) \in Grids
  <2>1. \A cell \in Colours \X Sizes : editForm.cells[cell] \in 0..1
    BY DEF TableInv, TableTypes, EditForms, Grids
  <2>2. \A cell \in Colours \X Sizes : cell \in {c} \X held => editForm.cells[cell] = 0
    BY <1>1, EditColoursAre
  <2>3. \A cell \in Colours \X Sizes :
           editForm.cells[cell] + (IF cell \in {c} \X held THEN 1 ELSE 0) \in 0..1
    BY <2>1, <2>2
  <2> HIDE DEF held
  <2> QED
    BY <2>3 DEF Table!AddRows, Grids
<1> HIDE DEF held
<1>3. new \in EditForms /\ new.photos = editForm.photos
  BY <1>2 DEF TableInv, TableTypes, EditForms
<1> QED
  BY <1>1, <1>3, FormKeeps DEF TableInv, PhotosStay

LEMMA AddSizeKeeps ==
  ASSUME TableInv, NEW s \in Sizes, Table!HandleAddSize(s) PROVE TableInv'
<1> DEFINE new == [editForm EXCEPT !.cells = Table!AddRows(Table!EditColours \X {s}),
                                   !.sizes = @ \union {s}]
<1>1. s \notin Table!EditSizes /\ editForm' = new
      /\ UNCHANGED <<docs, editing, upload, saving, linked, strayed>>
  BY DEF Table!HandleAddSize, Table!SizeIsNew, Table!Edit, Table!Keep
<1>2. Table!AddRows(Table!EditColours \X {s}) \in Grids
  BY <1>1, EditColoursAre, RowsAreAdded
<1>3. new \in EditForms /\ new.photos = editForm.photos
  BY <1>2 DEF TableInv, TableTypes, EditForms
<1> QED
  BY <1>1, <1>3, FormKeeps DEF TableInv, PhotosStay

LEMMA StockTypedKeeps ==
  ASSUME TableInv, NEW c \in Colours, NEW s \in Sizes, Table!HandleStockChange(c, s)
  PROVE  TableInv'
<1> DEFINE new == [editForm EXCEPT !.cells[<<c, s>>] = 1]
<1>1. editForm' = new /\ UNCHANGED <<docs, editing, upload, saving, linked, strayed>>
  BY DEF Table!HandleStockChange, Table!Edit, Table!Keep
<1>2. new \in EditForms /\ new.photos = editForm.photos
  <2> DEFINE typed == [editForm.cells EXCEPT ![<<c, s>>] = 1]
  <2>1. editForm \in EditForms
    BY DEF TableInv, TableTypes
  <2>2. new = [editForm EXCEPT !.cells = typed]
    OBVIOUS
  <2>3. typed \in Grids
    BY <2>1 DEF EditForms, Grids
  <2> HIDE DEF typed, new
  <2> QED
    BY <2>1, <2>2, <2>3 DEF EditForms
<1> QED
  BY <1>1, <1>2, FormKeeps DEF TableInv, PhotosStay

LEMMA RenameKeeps ==
  ASSUME TableInv, NEW c \in Colours, Table!SaveRenameColor(c) PROVE TableInv'
<1> DEFINE old == renaming
           new == Table!Renamed(old, c)
<1>1. /\ old \in Table!EditColours /\ c \notin Table!EditColours /\ editForm' = new
      /\ UNCHANGED <<docs, editing, upload, saving, linked, strayed>>
  BY DEF Table!SaveRenameColor, Table!ColourIsNew, Table!Edit, Table!Keep
<1>2. old \in Colours
  BY <1>1, EditColoursAre
<1> HIDE DEF old
<1>3. \A cell \in Colours \X Sizes :
         (IF cell[1] = old THEN 0
          ELSE editForm.cells[cell] + (IF cell[1] = c THEN editForm.cells[<<old, cell[2]>>] ELSE 0))
         \in 0..1
  <2> SUFFICES ASSUME NEW x \in Colours, NEW y \in Sizes, x # old
               PROVE  editForm.cells[<<x, y>>]
                        + (IF x = c THEN editForm.cells[<<old, y>>] ELSE 0) \in 0..1
    OBVIOUS
  <2>1. editForm.cells[<<x, y>>] \in 0..1 /\ editForm.cells[<<old, y>>] \in 0..1
    BY <1>2 DEF TableInv, TableTypes, EditForms, Grids
  <2>2. x = c => editForm.cells[<<x, y>>] = 0
    BY <1>1, EditColoursAre
  <2> QED
    BY <2>1, <2>2
<1>4. new.cells \in Grids
  BY <1>3 DEF Table!Renamed, Grids
<1>5. /\ new.photos \subseteq ShelfPhotos
      /\ \A ph \in new.photos : \E taken \in editForm.photos : ph.of = taken.of
  <2>1. \A ph \in editForm.photos : ph \in ShelfPhotos
    BY DEF TableInv, TableTypes, EditForms
  <2>2. \A ph \in ShelfPhotos : [ph EXCEPT !.colour = c] \in ShelfPhotos
                                  /\ [ph EXCEPT !.colour = c].of = ph.of
    BY DEF ShelfPhotos
  <2>3. new.photos = {IF ph.colour = old THEN [ph EXCEPT !.colour = c] ELSE ph :
                        ph \in editForm.photos}
    BY DEF Table!Renamed
  <2> HIDE DEF new
  <2> QED
    BY <2>1, <2>2, <2>3
<1>6. new.colours \subseteq Colours /\ new.sizes \subseteq Sizes
  BY DEF TableInv, TableTypes, EditForms, Table!Renamed
<1>7. new = [cells |-> new.cells, colours |-> new.colours, sizes |-> new.sizes,
             photos |-> new.photos]
  BY DEF Table!Renamed
<1> HIDE DEF new
<1>8. new \in EditForms
  BY <1>4, <1>5, <1>6, <1>7 DEF EditForms
<1> QED
  BY <1>1, <1>5, <1>8, FormKeeps DEF TableInv, PhotosStay

LEMMA RemovalKeeps ==
  ASSUME TableInv, NEW yes \in BOOLEAN, Table!AnswerRemoval(yes) PROVE TableInv'
<1> DEFINE new == Table!Without(removal)
<1>1. /\ editForm' = new \/ editForm' = editForm
      /\ UNCHANGED <<docs, editing, upload, saving, linked, strayed>>
  BY DEF Table!AnswerRemoval, Table!Edit, Table!Keep
<1>2. \A cell \in Colours \X Sizes :
         (IF cell[1] = removal.colour \/ cell[2] = removal.size THEN 0 ELSE editForm.cells[cell])
         \in 0..1
  <2>1. \A cell \in Colours \X Sizes : editForm.cells[cell] \in 0..1
    BY DEF TableInv, TableTypes, EditForms, Grids
  <2> QED
    BY <2>1
<1>3. new.cells \in Grids
  BY <1>2 DEF Table!Without, Grids
<1>4. /\ new.photos \subseteq editForm.photos /\ new.colours \subseteq editForm.colours
      /\ new.sizes \subseteq editForm.sizes
  BY DEF Table!Without
<1>5. new = [cells |-> new.cells, colours |-> new.colours, sizes |-> new.sizes,
             photos |-> new.photos]
  BY DEF Table!Without
<1> HIDE DEF new
<1>6. new \in EditForms
  BY <1>3, <1>4, <1>5 DEF TableInv, TableTypes, EditForms
<1>7. CASE editForm' = new
  BY <1>1, <1>4, <1>6, <1>7, FormKeeps DEF TableInv, PhotosStay
<1>8. CASE editForm' = editForm
  BY <1>1, <1>8, SameTable
<1> QED
  BY <1>1, <1>7, <1>8

LEMMA ImageRemovedKeeps ==
  ASSUME TableInv, NEW ph \in editForm.photos, Table!HandleRemoveImage(ph) PROVE TableInv'
<1> DEFINE new == [editForm EXCEPT !.photos = @ \ {ph}]
<1>1. editForm' = new /\ UNCHANGED <<docs, editing, upload, saving, linked, strayed>>
  BY DEF Table!HandleRemoveImage, Table!Edit, Table!Keep
<1>2. new \in EditForms /\ new.photos \subseteq editForm.photos
  BY DEF TableInv, TableTypes, EditForms
<1> QED
  BY <1>1, <1>2, FormKeeps DEF TableInv, PhotosStay

LEMMA PhotosKeep ==
  ASSUME TableInv,
         \/ \E c \in Colours : Table!HandleImageSelect(c)
         \/ \E ok \in BOOLEAN : Table!PhotosArrive(ok)
  PROVE  TableInv'
<1>1. CASE \E c \in Colours : Table!HandleImageSelect(c)
  <2> PICK c \in Colours : Table!HandleImageSelect(c)
    BY <1>1
  <2>1. /\ editing # None /\ upload' = [colour |-> c, of |-> editing]
        /\ UNCHANGED <<docs, editing, editForm, saving, linked, strayed>>
    BY DEF Table!HandleImageSelect, Table!Modal
  <2>2. upload' \in ShelfPhotos /\ upload'.of = editing
    BY <2>1 DEF TableInv, TableTypes, ShelfPhotos
  <2> QED
    BY <2>1, <2>2 DEF TableInv, TableTypes, PhotosStay
<1>2. CASE \E ok \in BOOLEAN : Table!PhotosArrive(ok)
  <2> DEFINE new == [editForm EXCEPT !.photos = @ \union {upload}]
  <2>1. /\ upload # None /\ upload' = None /\ (editForm' = new \/ editForm' = editForm)
        /\ UNCHANGED <<docs, editing, saving, linked, strayed>>
    BY <1>2 DEF Table!PhotosArrive
  <2>2. new \in EditForms /\ new.photos = editForm.photos \cup {upload}
    BY <2>1 DEF TableInv, TableTypes, EditForms
  <2>3. TableTypes'
    BY <2>1, <2>2 DEF TableInv, TableTypes
  <2>4. strayed' \/ PhotosStay'
    BY <2>1, <2>2 DEF TableInv, PhotosStay
  <2> QED
    BY <2>3, <2>4 DEF TableInv
<1> QED
  BY <1>1, <1>2

LEMMA UpdateKeeps ==
  ASSUME TableInv, Table!HandleUpdate PROVE TableInv'
<1> DEFINE worn == {ph \in editForm.photos : Table!HasColour(editForm.cells, ph.colour)}
<1>1. /\ editing # None
      /\ saving' = [product |-> editing, doc |-> [cells |-> editForm.cells, photos |-> worn]]
      /\ UNCHANGED <<docs, editing, editForm, upload, linked, strayed>>
  BY DEF Table!HandleUpdate, Table!Modal
<1>2. worn \subseteq editForm.photos
  OBVIOUS
<1> HIDE DEF worn
<1>3. saving' \in [product : Shelf, doc : ProductDocs]
  BY <1>1, <1>2 DEF TableInv, TableTypes, EditForms, ProductDocs
<1>4. TableTypes'
  BY <1>1, <1>3 DEF TableInv, TableTypes
<1>5. saving'.doc.photos = worn /\ saving'.product = editing
  BY <1>1
<1>6. strayed' \/ PhotosStay'
  BY <1>1, <1>2, <1>5 DEF TableInv, PhotosStay
<1> QED
  BY <1>4, <1>6 DEF TableInv

LEMMA SaveKeeps ==
  ASSUME TableInv, Table!SaveSucceeds \/ Table!SaveFails PROVE TableInv'
<1>1. CASE Table!SaveSucceeds
  <2>1. /\ saving # None /\ docs' = [docs EXCEPT ![saving.product] = saving.doc]
        /\ saving' = None /\ Table!Close /\ UNCHANGED <<upload, linked>>
    BY <1>1 DEF Table!SaveSucceeds
  <2>2. /\ docs' \in [Shelf -> {None} \cup ProductDocs]
        /\ \A p \in Shelf : docs'[p] = docs[p]
                              \/ (saving.product = p /\ docs'[p] = saving.doc)
    BY <2>1 DEF TableInv, TableTypes
  <2> QED
    BY <2>1, <2>2, CloseKeepsTable
<1>2. CASE Table!SaveFails
  BY <1>2 DEF Table!SaveFails, TableInv, TableTypes, PhotosStay
<1> QED
  BY <1>1, <1>2

LEMMA DeletionKeeps ==
  ASSUME TableInv,
         \/ \E p \in Shelf : Table!AskDelete(p)
         \/ Table!KeepProduct \/ Table!HandleDelete
         \/ \E ok \in BOOLEAN : Table!DeleteAnswered(ok)
  PROVE  TableInv'
<1>1. /\ docs' = docs \/ docs' = [docs EXCEPT ![deleting] = None]
      /\ UNCHANGED <<editing, editForm, upload, saving, linked, strayed>>
  BY DEF Table!AskDelete, Table!KeepProduct, Table!HandleDelete, Table!DeleteAnswered
<1>2. /\ docs' \in [Shelf -> {None} \cup ProductDocs]
      /\ \A p \in Shelf : docs'[p] = docs[p] \/ docs'[p] = None
  BY <1>1 DEF TableInv, TableTypes
<1>3. TableTypes' /\ (strayed' \/ PhotosStay')
  BY <1>1, <1>2 DEF TableInv, TableTypes, PhotosStay
<1> QED
  BY <1>3 DEF TableInv

LEMMA AskingKeepsTable ==
  ASSUME TableInv,
         \/ Table!CancelRenameColor
         \/ \E c \in Colours : Table!StartRenameColor(c) \/ Table!HandleRemoveColor(c)
         \/ \E s \in Sizes : Table!HandleRemoveSize(s)
  PROVE  TableInv'
<1>1. UNCHANGED <<docs, editing, editForm, upload, saving, linked, strayed>>
  BY DEF Table!CancelRenameColor, Table!StartRenameColor, Table!HandleRemoveColor,
         Table!HandleRemoveSize, Table!Keep
<1> QED
  BY <1>1, SameTable

LEMMA OpenAndCloseKeep ==
  ASSUME TableInv, (\E p \in Shelf : Table!HandleEdit(p)) \/ Table!CloseModal PROVE TableInv'
<1>1. CASE \E p \in Shelf : Table!HandleEdit(p)
  <2> PICK p \in Shelf : Table!HandleEdit(p)
    BY <1>1
  <2>1. /\ editing = None /\ docs[p] # None /\ Table!Fill(p, docs[p])
        /\ UNCHANGED <<docs, upload, saving, linked, strayed>>
    BY DEF Table!HandleEdit, Table!Page
  <2> QED
    BY <2>1, FillKeepsTable DEF TableInv, TableTypes
<1>2. CASE Table!CloseModal
  BY <1>2, CloseKeepsTable DEF Table!CloseModal, TableInv, TableTypes
<1> QED
  BY <1>1, <1>2

LEMMA NextTableInv == TableInv /\ [Table!Next]_tableVars => TableInv'
<1> SUFFICES ASSUME TableInv, [Table!Next]_tableVars PROVE TableInv'
  OBVIOUS
<1>1. CASE UNCHANGED tableVars
  BY <1>1, SameTable DEF tableVars
<1> QED
  BY <1>1, OpenAndCloseKeep, LinkedKeeps, AskingKeepsTable, AddColorKeeps, AddSizeKeeps,
     StockTypedKeeps, RenameKeeps, RemovalKeeps, ImageRemovedKeeps, PhotosKeep, UpdateKeeps,
     SaveKeeps, DeletionKeeps DEF Table!Next

LEMMA TableHolds == TableInv => Table!SavedAsEdited
<1> SUFFICES ASSUME TableInv, NEW p \in Shelf, docs[p] # None
             PROVE  /\ \A cell \in Colours \X Sizes : docs[p].cells[cell] <= 1
                    /\ strayed \/ \A ph \in docs[p].photos : ph.of = p
  BY DEF Table!SavedAsEdited
<1>1. docs[p] \in ProductDocs
  BY DEF TableInv, TableTypes
<1>2. \A cell \in Colours \X Sizes : docs[p].cells[cell] \in 0..1
  BY <1>1 DEF ProductDocs, Grids
<1> QED
  BY <1>2 DEF TableInv, PhotosStay

-----------------------------------------------------------------------------
(* The form of a new product: a cell has a row only while its colour and size *)
(* are there, and only colours of the form have photos, but for orphans       *)

Submitted(doc) ==
  /\ doc.rows = {cell[1] : cell \in doc.rows} \X {cell[2] : cell \in doc.rows}
  /\ {cell[1] : cell \in doc.rows} \subseteq doc.photos
  /\ orphaned \/ New!Accepted(doc)

NewInv ==
  /\ grid \subseteq palette \X cut
  /\ known /\ business = "service" => palette = {Standard}
  /\ orphaned \/ (pictured \subseteq palette /\ sending \in palette \cup {None})
  /\ creating # None => Submitted(creating)

LEMMA InitNewInv == New!Init => NewInv
BY DEF New!Init, NewInv

\* What was submitted stays right while the orphans are remembered.
LEMMA SubmittedStays ==
  ASSUME NewInv, orphaned => orphaned', creating' \in {creating, None}
  PROVE  creating' # None => Submitted(creating)'
BY DEF NewInv, Submitted

LEMMA TenantKeeps ==
  ASSUME NewInv, New!TenantArrives PROVE NewInv'
<1>1. UNCHANGED <<pictured, sending, creating>>
  BY DEF New!TenantArrives, New!callVars
<1>2. CASE business = "service"
  <2>1. /\ palette' = {Standard} /\ cut' = {OneSize} /\ grid' = {<<Standard, OneSize>>}
        /\ orphaned => orphaned'
        /\ orphaned' \/ pictured \cup ({sending} \ {None}) = {}
    BY <1>2 DEF New!TenantArrives
  <2>2. orphaned' \/ (pictured' \subseteq palette' /\ sending' \in palette' \cup {None})
    BY <1>1, <2>1
  <2> QED
    BY <1>1, <2>1, <2>2, SubmittedStays DEF NewInv
<1>3. CASE business # "service"
  BY <1>1, <1>3 DEF New!TenantArrives, NewInv, Submitted
<1> QED
  BY <1>2, <1>3

LEMMA ColoursAndSizesKeep ==
  ASSUME NewInv,
         \/ \E c \in Colours : New!HandleAddColor(c) \/ New!HandleRemoveColor(c)
         \/ \E s \in Sizes : New!HandleAddSize(s) \/ New!HandleRemoveSize(s)
  PROVE  NewInv'
<1> USE DEF New!HandleAddColor, New!HandleRemoveColor, New!HandleAddSize, New!HandleRemoveSize
<1>0. UNCHANGED <<sending, creating, known, business>> /\ ~New!ServiceMode
  BY DEF New!callVars, New!Tweak
<1>1. orphaned => orphaned'
  OBVIOUS
<1>2. creating' # None => Submitted(creating)'
  BY <1>0, <1>1, SubmittedStays
<1>3. CASE \E c \in Colours : New!HandleAddColor(c)
  BY <1>0, <1>2, <1>3 DEF NewInv, New!ServiceMode
<1>4. CASE \E s \in Sizes : New!HandleAddSize(s)
  BY <1>0, <1>2, <1>4 DEF NewInv, New!ServiceMode
<1>5. CASE \E c \in Colours : New!HandleRemoveColor(c)
  <2> PICK c \in Colours : New!HandleRemoveColor(c)
    BY <1>5
  <2>1. /\ palette' = palette \ {c} /\ grid' = {cell \in grid : cell[1] # c}
        /\ pictured' = pictured \ {c} /\ cut' = cut
        /\ orphaned' \/ (~orphaned /\ sending # c)
    OBVIOUS
  <2>2. grid' \subseteq palette' \X cut'
    BY <2>1 DEF NewInv
  <2> QED
    BY <1>0, <1>2, <2>1, <2>2 DEF NewInv, New!ServiceMode
<1>6. CASE \E s \in Sizes : New!HandleRemoveSize(s)
  <2> PICK s \in Sizes : New!HandleRemoveSize(s)
    BY <1>6
  <2>1. /\ cut' = cut \ {s} /\ grid' = {cell \in grid : cell[2] # s}
        /\ UNCHANGED <<palette, pictured, orphaned>>
    OBVIOUS
  <2>2. grid' \subseteq palette' \X cut'
    BY <2>1 DEF NewInv
  <2> QED
    BY <1>0, <1>2, <2>1, <2>2 DEF NewInv, New!ServiceMode
<1> QED
  BY <1>3, <1>4, <1>5, <1>6

LEMMA PicturesKeep ==
  ASSUME NewInv,
         \/ \E c \in palette : New!HandleImageSelect(c) \/ New!HandleRemoveColorImage(c)
         \/ \E ok \in BOOLEAN : New!PhotosArrive(ok)
  PROVE  NewInv'
<1>1. UNCHANGED <<palette, cut, grid, orphaned, creating, known, business>>
  BY DEF New!HandleImageSelect, New!HandleRemoveColorImage, New!PhotosArrive, New!formVars,
         New!callVars, New!Tweak
<1>2. creating' # None => Submitted(creating)'
  BY <1>1, SubmittedStays
<1>3. /\ pictured' \subseteq pictured \cup ({sending} \ {None})
      /\ sending' \in {sending, None} \cup palette
  BY DEF New!HandleImageSelect, New!HandleRemoveColorImage, New!PhotosArrive, New!formVars,
         New!callVars
<1> QED
  BY <1>1, <1>2, <1>3 DEF NewInv

LEMMA SubmitIsRight ==
  ASSUME NewInv, New!HandleSubmit PROVE NewInv'
<1>1. /\ New!Complete
      /\ creating' = [name |-> title,
                      rows |-> IF New!ServiceMode THEN {<<Standard, OneSize>>} ELSE grid,
                      photos |-> pictured]
      /\ UNCHANGED <<palette, cut, grid, pictured, orphaned, sending, known, business>>
  BY DEF New!HandleSubmit, New!formVars
<1>2. creating'.photos = pictured
      /\ creating'.rows = IF New!ServiceMode THEN {<<Standard, OneSize>>} ELSE grid
  BY <1>1
<1>3. CASE New!ServiceMode
  <2>1. creating'.rows = {<<Standard, OneSize>>} /\ Standard \in pictured
    BY <1>1, <1>2, <1>3 DEF New!Complete
  <2>2. /\ {cell[1] : cell \in creating'.rows} = {Standard}
        /\ {cell[2] : cell \in creating'.rows} = {OneSize}
    BY <2>1
  <2>3. orphaned \/ pictured \subseteq {Standard}
    BY <1>3 DEF NewInv, New!ServiceMode
  <2>4. <<Standard, OneSize>> \in {Standard} \X {OneSize}
        /\ {<<Standard, OneSize>>} = {Standard} \X {OneSize}
    OBVIOUS
  <2> QED
    BY <1>1, <1>2, <2>1, <2>2, <2>3, <2>4 DEF NewInv, Submitted, New!Accepted
<1>4. CASE ~New!ServiceMode
  <2>1. /\ palette # {} /\ cut # {} /\ palette \X cut \subseteq grid
        /\ palette \subseteq pictured /\ creating'.rows = palette \X cut
    BY <1>1, <1>2, <1>4 DEF New!Complete, NewInv
  <2>2. /\ {cell[1] : cell \in creating'.rows} = palette
        /\ {cell[2] : cell \in creating'.rows} = cut
    <3> PICK c \in palette, s \in cut : TRUE
      BY <2>1
    <3>1. \A x \in palette : <<x, s>> \in palette \X cut /\ <<x, s>>[1] = x
      OBVIOUS
    <3>2. \A y \in cut : <<c, y>> \in palette \X cut /\ <<c, y>>[2] = y
      OBVIOUS
    <3> QED
      BY <2>1, <3>1, <3>2
  <2>3. orphaned \/ pictured \subseteq palette
    BY DEF NewInv
  <2> QED
    BY <1>1, <1>2, <2>1, <2>2, <2>3 DEF NewInv, Submitted, New!Accepted
<1> QED
  BY <1>3, <1>4

LEMMA CreateKeepsForm ==
  ASSUME NewInv,
         \/ New!CreateAnswered \/ New!CreateFails \/ New!StayHere \/ New!Leave \/ New!FillIn
         \/ (\E n \in Names : New!TypeName(n))
         \/ UNCHANGED newVars
  PROVE  NewInv'
<1>1. /\ UNCHANGED <<palette, cut, grid, pictured, orphaned, sending, known, business>>
      /\ creating' \in {creating, None}
  BY DEF New!CreateAnswered, New!CreateFails, New!StayHere, New!Leave, New!FillIn, New!TypeName,
         New!formVars, New!callVars, newVars
<1>2. creating' # None => Submitted(creating)'
  BY <1>1, SubmittedStays
<1> QED
  BY <1>1, <1>2 DEF NewInv

LEMMA NextNewInv == NewInv /\ [New!Next]_newVars => NewInv'
BY TenantKeeps, ColoursAndSizesKeep, PicturesKeep, SubmitIsRight, CreateKeepsForm DEF New!Next

LEMMA NewHolds == NewInv => New!SubmittedIsCreatable
BY DEF NewInv, Submitted, New!SubmittedIsCreatable

-----------------------------------------------------------------------------
(* The import: the items of a product, gathered row by row, are those its     *)
(* rows name with the stock of the last, and what is imported was read so     *)

\* The items after each row, as the sheet is read.
Gathers(after, sh, p, n) ==
  after = [k \in 0..n |->
             IF k = 0 THEN <<>>
             ELSE IF k \in Import!RowsOf(sh, p) THEN Import!AddRow(after[k - 1], sh.rows[k])
             ELSE after[k - 1]]

LEMMA RowsAreGathered ==
  ASSUME NEW sh, NEW p, NEW n \in Nat PROVE \E after : Gathers(after, sh, p, n)
<1> DEFINE Bad == {k \in Nat : ~ \E after : Gathers(after, sh, p, k)}
<1> SUFFICES ASSUME Bad # {} PROVE FALSE
  OBVIOUS
<1>1. PICK k \in Bad : \A j \in Bad : k <= j
  <2> HIDE DEF Bad
  <2>1. Bad \subseteq Nat
    BY DEF Bad
  <2> QED
    BY <2>1, LeastExists
<1>2. k \in Nat /\ ~ \E after : Gathers(after, sh, p, k)
  BY <1>1
<1>3. CASE k = 0
  <2> DEFINE g == [i \in 0..0 |-> <<>>]
  <2>1. Gathers(g, sh, p, 0)
    BY DEF Gathers
  <2> QED
    BY <1>2, <1>3, <2>1
<1>4. CASE k # 0
  <2>1. k - 1 \in Nat /\ k - 1 \notin Bad
    BY <1>1, <1>2, <1>4
  <2>2. PICK g : Gathers(g, sh, p, k - 1)
    BY <2>1
  <2> DEFINE last == IF k \in Import!RowsOf(sh, p) THEN Import!AddRow(g[k - 1], sh.rows[k])
                     ELSE g[k - 1]
             h == [i \in 0..k |-> IF i = k THEN last ELSE g[i]]
  <2>3. \A i \in 0..k - 1 :
           g[i] = IF i = 0 THEN <<>>
                  ELSE IF i \in Import!RowsOf(sh, p) THEN Import!AddRow(g[i - 1], sh.rows[i])
                  ELSE g[i - 1]
    BY <2>2 DEF Gathers
  <2>4. \A i \in 0..k :
           h[i] = IF i = 0 THEN <<>>
                  ELSE IF i \in Import!RowsOf(sh, p) THEN Import!AddRow(h[i - 1], sh.rows[i])
                  ELSE h[i - 1]
    <3> SUFFICES ASSUME NEW i \in 0..k
                 PROVE h[i] = IF i = 0 THEN <<>>
                        ELSE IF i \in Import!RowsOf(sh, p) THEN Import!AddRow(h[i - 1], sh.rows[i])
                        ELSE h[i - 1]
      OBVIOUS
    <3>1. i # 0 => i - 1 \in 0..k /\ i - 1 # k /\ h[i - 1] = g[i - 1]
      BY <1>2
    <3>2. CASE i = k
      BY <1>2, <1>4, <3>1, <3>2
    <3>3. CASE i # k
      <4>1. i \in 0..k - 1 /\ h[i] = g[i]
        BY <1>2, <3>3
      <4> HIDE DEF h
      <4> QED
        BY <2>3, <3>1, <4>1
    <3> QED
      BY <3>2, <3>3
  <2>5. Gathers(h, sh, p, k)
    <3> DEFINE e(i) == IF i = 0 THEN <<>>
                       ELSE IF i \in Import!RowsOf(sh, p) THEN Import!AddRow(h[i - 1], sh.rows[i])
                       ELSE h[i - 1]
    <3>1. h = [i \in 0..k |-> h[i]]
      OBVIOUS
    <3>2. \A i \in 0..k : h[i] = e(i)
      BY <2>4
    <3> HIDE DEF h
    <3>3. h = [i \in 0..k |-> e(i)]
      BY <3>1, <3>2
    <3> QED
      BY <3>3 DEF Gathers
  <2> QED
    BY <1>2, <2>5
<1> QED
  BY <1>3, <1>4

\* The rows that name a product among the first n, and the items they leave.
RowsUpTo(sh, p, n) == {j \in Import!RowsOf(sh, p) : j <= n}
FromLastRow(item, sh, p, n) ==
  \E j \in RowsUpTo(sh, p, n) :
    /\ item = Import!ItemOf(sh.rows[j])
    /\ \A k \in RowsUpTo(sh, p, n) : k > j => sh.rows[k].cell # sh.rows[j].cell
Gathered(items, sh, p, n) ==
  /\ \E S : items \in Seq(S)
  /\ \A i \in 1..Len(items) : FromLastRow(items[i], sh, p, n)
  /\ \A j \in RowsUpTo(sh, p, n) : \E i \in 1..Len(items) : items[i].cell = sh.rows[j].cell
  /\ \A i, k \in 1..Len(items) : items[i].cell = items[k].cell => i = k

LEMMA ItemIs ==
  ASSUME NEW row PROVE Import!ItemOf(row).cell = row.cell
BY DEF Import!ItemOf

LEMMA AddRowGathers ==
  ASSUME NEW sh, Import!IdsOfTheirOwn(sh), NEW p, NEW n \in Nat \ {0},
         n \in Import!RowsOf(sh, p), NEW items, Gathered(items, sh, p, n - 1),
         Import!RowsOf(sh, p) \subseteq Nat
  PROVE  Gathered(Import!AddRow(items, sh.rows[n]), sh, p, n)
<1> DEFINE row == sh.rows[n]
           new == Import!ItemOf(row)
           next == Import!AddRow(items, row)
<1>1. new.cell = row.cell
  BY ItemIs
<1>2. PICK S : items \in Seq(S)
  BY DEF Gathered
<1>3. DOMAIN items = 1..Len(items) /\ Len(items) \in Nat
  BY <1>2
<1>4. RowsUpTo(sh, p, n) = RowsUpTo(sh, p, n - 1) \cup {n}
  BY DEF RowsUpTo
<1>5. n \in RowsUpTo(sh, p, n) /\ \A k \in RowsUpTo(sh, p, n) : ~(k > n)
  BY DEF RowsUpTo
<1>6. FromLastRow(new, sh, p, n)
  BY <1>5 DEF FromLastRow
<1>7. ASSUME NEW i \in 1..Len(items)
      PROVE  /\ Import!SameVariant(items[i], row) <=> items[i].cell = row.cell
             /\ items[i].cell = row.cell \/ FromLastRow(items[i], sh, p, n)
  <2>1. PICK j \in RowsUpTo(sh, p, n - 1) :
           /\ items[i] = Import!ItemOf(sh.rows[j])
           /\ \A k \in RowsUpTo(sh, p, n - 1) : k > j => sh.rows[k].cell # sh.rows[j].cell
    BY <1>7 DEF Gathered, FromLastRow
  <2>2. items[i].cell = sh.rows[j].cell
    BY <2>1, ItemIs
  <2>3. j \in Import!RowsOf(sh, p) /\ j \in RowsUpTo(sh, p, n)
    BY <1>4 DEF RowsUpTo
  <2>4. Import!SameId(items[i], row) => items[i].cell = row.cell
    BY <2>1, <2>2, <2>3 DEF Import!IdsOfTheirOwn, Import!RowsOf
  <2>5. items[i].cell = row.cell \/ FromLastRow(items[i], sh, p, n)
    BY <1>4, <2>1, <2>2, <2>3 DEF FromLastRow
  <2> QED
    BY <2>4, <2>5 DEF Import!SameVariant, Import!SameId
<1>8. CASE \E i \in DOMAIN items : Import!SameVariant(items[i], row)
  <2>1. next = [i \in 1..Len(items) |->
                  IF Import!SameVariant(items[i], row) THEN new ELSE items[i]]
    BY <1>3, <1>8 DEF Import!AddRow
  <2>2. next \in Seq(S \cup {new}) /\ Len(next) = Len(items)
    <3>1. \A i \in 1..Len(items) :
             (IF Import!SameVariant(items[i], row) THEN new ELSE items[i]) \in S \cup {new}
      BY <1>2
    <3>2. next \in [1..Len(items) -> S \cup {new}]
      BY <2>1, <3>1
    <3> HIDE DEF next
    <3> QED
      BY <1>3, <3>2
  <2> HIDE DEF next
  <2>3. \A i \in 1..Len(items) : next[i].cell = items[i].cell /\ FromLastRow(next[i], sh, p, n)
    BY <1>1, <1>6, <1>7, <2>1
  <2>4. \A j \in RowsUpTo(sh, p, n) : \E i \in 1..Len(items) : items[i].cell = sh.rows[j].cell
    <3>1. \E i \in 1..Len(items) : items[i].cell = row.cell
      BY <1>3, <1>7, <1>8
    <3> QED
      BY <1>4, <3>1 DEF Gathered
  <2>5. \A i, k \in 1..Len(next) : next[i].cell = next[k].cell => i = k
    BY <2>2, <2>3 DEF Gathered
  <2>6. \A j \in RowsUpTo(sh, p, n) : \E i \in 1..Len(next) : next[i].cell = sh.rows[j].cell
    BY <2>2, <2>3, <2>4
  <2>7. Gathered(next, sh, p, n)
    BY <2>2, <2>3, <2>5, <2>6 DEF Gathered
  <2> QED
    BY <2>7 DEF next
<1>9. CASE ~ \E i \in DOMAIN items : Import!SameVariant(items[i], row)
  <2>1. next = Append(items, new)
    BY <1>9 DEF Import!AddRow
  <2>2. /\ next \in Seq(S \cup {new}) /\ Len(next) = Len(items) + 1
        /\ \A i \in 1..Len(items) : next[i] = items[i]
        /\ next[Len(items) + 1] = new
    BY <1>2, <2>1, AppendIs
  <2> HIDE DEF next
  <2>3. \A i \in 1..Len(items) : items[i].cell # row.cell /\ FromLastRow(items[i], sh, p, n)
    BY <1>3, <1>7, <1>9
  <2>4. \A i \in 1..Len(next) :
           \/ i \in 1..Len(items) /\ next[i] = items[i]
           \/ i = Len(items) + 1 /\ next[i] = new
    BY <1>3, <2>2
  <2>5. \A i \in 1..Len(next) : FromLastRow(next[i], sh, p, n)
    BY <1>6, <2>3, <2>4
  <2>6. \A j \in RowsUpTo(sh, p, n) : \E i \in 1..Len(next) : next[i].cell = sh.rows[j].cell
    <3>1. \A i \in 1..Len(items) : i \in 1..Len(next)
      BY <1>3, <2>2
    <3>2. Len(items) + 1 \in 1..Len(next)
      BY <1>3, <2>2
    <3> QED
      BY <1>1, <1>4, <2>2, <3>1, <3>2 DEF Gathered
  <2>7. \A i, k \in 1..Len(next) : next[i].cell = next[k].cell => i = k
    BY <1>1, <2>3, <2>4 DEF Gathered
  <2>8. Gathered(next, sh, p, n)
    BY <2>2, <2>5, <2>6, <2>7 DEF Gathered
  <2> QED
    BY <2>8 DEF next
<1> QED
  BY <1>8, <1>9

LEMMA ItemsAreGathered ==
  ASSUME NEW sh \in Sheets, Import!IdsOfTheirOwn(sh), NEW p
  PROVE  Gathered(Import!Items(sh, p), sh, p, Len(sh.rows))
<1> DEFINE N == Len(sh.rows)
<1>1. DOMAIN sh.rows = 1..N /\ N \in Nat
  BY PagesAssumption
<1>2. Import!RowsOf(sh, p) \subseteq 1..N /\ Import!RowsOf(sh, p) \subseteq Nat
  BY <1>1 DEF Import!RowsOf
<1>3. PICK after : Gathers(after, sh, p, N) /\ Import!Items(sh, p) = after[N]
  <2> DEFINE g == CHOOSE a : Gathers(a, sh, p, N)
  <2>1. Gathers(g, sh, p, N)
    BY <1>1, RowsAreGathered
  <2>2. Import!Items(sh, p) = g[N]
    BY DEF Import!Items, Gathers
  <2> QED
    BY <2>1, <2>2
<1>4. \A k \in 0..N :
        after[k] = IF k = 0 THEN <<>>
                   ELSE IF k \in Import!RowsOf(sh, p) THEN Import!AddRow(after[k - 1], sh.rows[k])
                   ELSE after[k - 1]
  BY <1>3 DEF Gathers
<1> DEFINE Bad == {k \in 0..N : ~Gathered(after[k], sh, p, k)}
<1>5. ASSUME Bad # {} PROVE FALSE
  <2>1. PICK k \in Bad : \A j \in Bad : k <= j
    <3> HIDE DEF Bad
    <3>1. Bad \subseteq Nat
      BY DEF Bad
    <3> QED
      BY <1>5, <3>1, LeastExists
  <2>2. k \in 0..N /\ ~Gathered(after[k], sh, p, k)
    BY <2>1
  <2>3. CASE k = 0
    <3>1. after[k] = <<>> /\ RowsUpTo(sh, p, 0) = {}
      BY <1>2, <1>4, <2>2, <2>3 DEF RowsUpTo
    <3>2. <<>> \in Seq({}) /\ Len(<<>>) = 0
      OBVIOUS
    <3> QED
      BY <2>2, <2>3, <3>1, <3>2 DEF Gathered
  <2>4. CASE k # 0
    <3>1. k - 1 \in 0..N /\ k \in Nat \ {0} /\ k - 1 \notin Bad
      BY <1>1, <2>1, <2>2, <2>4
    <3>2. Gathered(after[k - 1], sh, p, k - 1)
      BY <3>1
    <3>3. CASE k \in Import!RowsOf(sh, p)
      <4>1. after[k] = Import!AddRow(after[k - 1], sh.rows[k])
        BY <1>4, <2>2, <2>4, <3>3
      <4> QED
        BY <1>2, <2>2, <3>1, <3>2, <3>3, <4>1, AddRowGathers
    <3>4. CASE k \notin Import!RowsOf(sh, p)
      <4>1. after[k] = after[k - 1]
        BY <1>4, <2>2, <2>4, <3>4
      <4>2. RowsUpTo(sh, p, k) = RowsUpTo(sh, p, k - 1)
        BY <1>2, <3>1, <3>4 DEF RowsUpTo
      <4> QED
        BY <2>2, <3>2, <4>1, <4>2 DEF Gathered, FromLastRow
    <3> QED
      BY <3>3, <3>4
  <2> QED
    BY <2>3, <2>4
<1>6. N \in 0..N
  BY <1>1
<1> QED
  BY <1>3, <1>5, <1>6

\* An item for each cell, with the stock of the last row that names it.
ItemsRead(items, sh, p) ==
  /\ {items[i].cell : i \in DOMAIN items} = {sh.rows[i].cell : i \in Import!RowsOf(sh, p)}
  /\ Cardinality({items[i].cell : i \in DOMAIN items}) = Len(items)
  /\ \A i \in DOMAIN items : items[i].stock = Import!LastStock(sh, p, items[i].cell)

LEMMA ItemsAreAsRead ==
  ASSUME NEW sh \in Sheets, Import!IdsOfTheirOwn(sh), NEW p
  PROVE  ItemsRead(Import!Items(sh, p), sh, p)
<1> DEFINE items == Import!Items(sh, p)
<1> DEFINE N == Len(sh.rows)
<1>1. Gathered(items, sh, p, N)
  BY ItemsAreGathered
<1> HIDE DEF items
<1>2. RowsUpTo(sh, p, N) = Import!RowsOf(sh, p) /\ Import!RowsOf(sh, p) \subseteq Nat
  <2>1. DOMAIN sh.rows = 1..N /\ N \in Nat
    BY PagesAssumption
  <2> QED
    BY <2>1 DEF RowsUpTo, Import!RowsOf
<1>3. DOMAIN items = 1..Len(items) /\ Len(items) \in Nat
  BY <1>1 DEF Gathered
<1>4. ASSUME NEW i \in DOMAIN items
      PROVE  /\ items[i].cell \in {sh.rows[j].cell : j \in Import!RowsOf(sh, p)}
             /\ items[i].stock = Import!LastStock(sh, p, items[i].cell)
  <2>1. PICK j \in Import!RowsOf(sh, p) :
           /\ items[i] = Import!ItemOf(sh.rows[j])
           /\ \A k \in Import!RowsOf(sh, p) : k > j => sh.rows[k].cell # sh.rows[j].cell
    BY <1>1, <1>2, <1>3 DEF Gathered, FromLastRow
  <2>2. items[i].cell = sh.rows[j].cell /\ items[i].stock = sh.rows[j].stock
    BY <2>1 DEF Import!ItemOf
  <2> DEFINE named == {k \in Import!RowsOf(sh, p) : sh.rows[k].cell = items[i].cell}
             last == CHOOSE k \in named : \A l \in named : l <= k
  <2>3. j \in named /\ \A l \in named : l <= j
    BY <1>2, <2>1, <2>2
  <2>4. named \subseteq Nat
    BY <1>2
  <2> HIDE DEF named
  <2>5. last \in named /\ \A l \in named : l <= last
    BY <2>3
  <2> HIDE DEF last
  <2>6. last = j
    BY <2>3, <2>4, <2>5
  <2>7. Import!LastStock(sh, p, items[i].cell) = sh.rows[last].stock
    BY DEF named, last, Import!LastStock
  <2> QED
    BY <2>2, <2>6, <2>7
<1>5. \A j \in Import!RowsOf(sh, p) : \E i \in DOMAIN items : items[i].cell = sh.rows[j].cell
  BY <1>1, <1>2, <1>3 DEF Gathered
<1>6. {items[i].cell : i \in DOMAIN items} = {sh.rows[i].cell : i \in Import!RowsOf(sh, p)}
  BY <1>4, <1>5
<1>7. Cardinality({items[i].cell : i \in DOMAIN items}) = Len(items)
  <2> DEFINE cells == {items[i].cell : i \in 1..Len(items)}
             f == [i \in 1..Len(items) |-> items[i].cell]
  <2>1. \A i, k \in 1..Len(items) : items[i].cell = items[k].cell => i = k
    BY <1>1 DEF Gathered
  <2>2. f \in Bijection(1..Len(items), cells)
    BY <2>1 DEF Bijection, Injection, Surjection, IsInjective
  <2>3. ExistsBijection(1..Len(items), cells)
    BY <2>2 DEF ExistsBijection
  <2>4. IsFiniteSet(1..Len(items)) /\ Cardinality(1..Len(items)) = Len(items)
    <3>1. Len(items) \in Int /\ 1 \in Int
      BY <1>3
    <3>2. /\ IsFiniteSet(1..Len(items))
          /\ Cardinality(1..Len(items)) = IF 1 > Len(items) THEN 0 ELSE Len(items) - 1 + 1
      BY <3>1, FS_Interval
    <3> QED
      BY <1>3, <3>2
  <2>5. Cardinality(cells) = Len(items)
    BY <2>3, <2>4, FS_Bijection
  <2> QED
    BY <1>3, <2>5
<1>8. ItemsRead(items, sh, p)
  BY <1>4, <1>6, <1>7 DEF ItemsRead
<1> QED
  BY <1>8 DEF items

\* Products a sheet was read into.
AsRead(d) ==
  /\ {"sheet", "items", "missing"} \subseteq DOMAIN d /\ d.sheet \in Sheets
  /\ d.items = [p \in Import!ProductsOf(d.sheet) |-> Import!Items(d.sheet, p)]

WorkRight(c) ==
  /\ {"kind", "drafts", "files", "number"} \subseteq DOMAIN c
  /\ c.kind \in {"reading", "unpacking", "uploading"}
  /\ c.kind = "reading" => c.drafts \in Sheets
  /\ c.kind = "unpacking" => c.drafts = None \/ AsRead(c.drafts)
  /\ c.kind = "uploading" => AsRead(c.drafts)

ImportInv ==
  /\ \A c \in importJobs : WorkRight(c)
  /\ drafts = None \/ AsRead(drafts)
  /\ importing = None \/ AsRead(importing)

LEMMA InitImportInv == Import!Init => ImportInv
BY DEF Import!Init, ImportInv

LEMMA SheetIsRead ==
  ASSUME NEW sh \in Sheets PROVE AsRead(Import!Parsed(sh))
BY DEF AsRead, Import!Parsed

\* Work that is begun, or taken up again, with the products of the page or of itself.
LEMMA WorkBegins ==
  ASSUME NEW fs, NEW n, NEW d,
         NEW what \in {"reading", "unpacking"},
         what = "reading" => d \in Sheets,
         what = "unpacking" => d = None \/ AsRead(d)
  PROVE  WorkRight([Import!Job(what, d, fs) EXCEPT !.number = n])
<1> DEFINE c == [Import!Job(what, d, fs) EXCEPT !.number = n]
<1>1. /\ {"kind", "drafts", "files", "number"} \subseteq DOMAIN c /\ c.kind = what
      /\ c.drafts = d
  BY DEF Import!Job
<1> QED
  BY <1>1 DEF WorkRight

LEMMA ChosenKeeps ==
  ASSUME ImportInv, (\E sh \in Sheets : Import!HandleExcelSelect(sh)) \/ Import!HandleZipSelect
  PROVE  ImportInv'
<1>1. CASE \E sh \in Sheets : Import!HandleExcelSelect(sh)
  <2> PICK sh \in Sheets : Import!HandleExcelSelect(sh)
    BY <1>1
  <2> DEFINE c == [Import!Job("reading", sh, files) EXCEPT !.number = jobsStarted]
  <2>1. importJobs' = importJobs \cup {c} /\ drafts' = None /\ importing' = importing
    BY DEF Import!HandleExcelSelect, Import!Start
  <2>2. WorkRight(c)
    BY WorkBegins
  <2> HIDE DEF c
  <2> QED
    BY <2>1, <2>2 DEF ImportInv
<1>2. CASE Import!HandleZipSelect
  <2> DEFINE c == [Import!Job("unpacking", drafts, files) EXCEPT !.number = jobsStarted]
  <2>1. importJobs' = importJobs \cup {c} /\ UNCHANGED <<drafts, importing>>
    BY <1>2 DEF Import!HandleZipSelect, Import!Start
  <2>2. WorkRight(c)
    BY WorkBegins DEF ImportInv
  <2> HIDE DEF c
  <2> QED
    BY <2>1, <2>2 DEF ImportInv
<1> QED
  BY <1>1, <1>2

LEMMA ImagesApply ==
  ASSUME ImportInv, NEW theDrafts, NEW theFiles, NEW others \in SUBSET importJobs,
         Import!ApplyImages(theDrafts, theFiles, others), theDrafts = None \/ AsRead(theDrafts),
         UNCHANGED <<drafts, importing>>
  PROVE  ImportInv'
<1>1. CASE theDrafts = None
  BY <1>1 DEF Import!ApplyImages, ImportInv
<1>2. CASE theDrafts # None
  <2> PICK n : importJobs' = others \cup {[kind |-> "uploading", drafts |-> theDrafts,
                                           files |-> theFiles, number |-> n]}
    BY <1>2 DEF Import!ApplyImages
  <2> DEFINE c == [kind |-> "uploading", drafts |-> theDrafts, files |-> theFiles, number |-> n]
  <2>1. /\ {"kind", "drafts", "files", "number"} \subseteq DOMAIN c
        /\ c.kind = "uploading" /\ c.drafts = theDrafts
    OBVIOUS
  <2>2. importJobs' = others \cup {c}
    OBVIOUS
  <2> HIDE DEF c
  <2>3. WorkRight(c)
    BY <1>2, <2>1 DEF WorkRight
  <2> QED
    BY <2>2, <2>3 DEF ImportInv
<1> QED
  BY <1>1, <1>2

LEMMA ExcelReadKeeps ==
  ASSUME ImportInv, NEW c \in importJobs, Import!ExcelRead(c) PROVE ImportInv'
<1> DEFINE next == [c EXCEPT !.kind = "uploading", !.drafts = Import!Parsed(@)]
<1>1. /\ c.kind = "reading" /\ importJobs' \subseteq importJobs \cup {next}
      /\ UNCHANGED <<drafts, importing>>
  BY DEF Import!ExcelRead
<1>2. WorkRight(c) /\ AsRead(Import!Parsed(c.drafts))
  BY <1>1, SheetIsRead DEF ImportInv, WorkRight
<1>3. /\ {"kind", "drafts", "files", "number"} \subseteq DOMAIN next
      /\ next.kind = "uploading" /\ next.drafts = Import!Parsed(c.drafts)
  BY <1>2 DEF WorkRight
<1> HIDE DEF next
<1>4. WorkRight(next)
  BY <1>2, <1>3 DEF WorkRight
<1> QED
  BY <1>1, <1>4 DEF ImportInv

LEMMA WorkKeeps ==
  ASSUME ImportInv, NEW c \in importJobs,
         \/ Import!ZipIsNoUse(c)
         \/ \E photo \in Photos : Import!ZipUnpacked(c, photo)
         \/ \E up \in BOOLEAN : Import!ImagesResolved(c, up)
  PROVE  ImportInv'
<1>1. WorkRight(c)
  BY DEF ImportInv
<1>2. CASE Import!ZipIsNoUse(c)
  BY <1>2 DEF Import!ZipIsNoUse, ImportInv
<1>3. CASE \E photo \in Photos : Import!ZipUnpacked(c, photo)
  <2> PICK photo \in Photos : Import!ZipUnpacked(c, photo)
    BY <1>3
  <2>1. /\ c.kind = "unpacking"
        /\ Import!ApplyImages(c.drafts, c.files \cup {photo}, importJobs \ {c})
        /\ UNCHANGED <<drafts, importing>>
    BY DEF Import!ZipUnpacked
  <2> QED
    BY <1>1, <2>1, ImagesApply DEF WorkRight
<1>4. CASE \E up \in BOOLEAN : Import!ImagesResolved(c, up)
  <2> PICK up \in BOOLEAN : Import!ImagesResolved(c, up)
    BY <1>4
  <2>1. /\ c.kind = "uploading"
        /\ drafts' = [c.drafts EXCEPT !.missing = Import!Missing(c, up)]
        /\ importJobs' = importJobs \ {c} /\ importing' = importing
    BY DEF Import!ImagesResolved
  <2>2. AsRead(c.drafts)
    BY <1>1, <2>1 DEF WorkRight
  <2>3. /\ {"sheet", "items", "missing"} \subseteq DOMAIN drafts'
        /\ drafts'.sheet = c.drafts.sheet /\ drafts'.items = c.drafts.items
    BY <2>1, <2>2 DEF AsRead
  <2>4. AsRead(drafts')
    BY <2>2, <2>3 DEF AsRead
  <2> QED
    BY <2>1, <2>4 DEF ImportInv, AsRead
<1> QED
  BY <1>2, <1>3, <1>4

LEMMA ImportCallKeeps ==
  ASSUME ImportInv,
         \/ Import!HandleImport \/ Import!ImportFails
         \/ (\E refused \in BOOLEAN : Import!ImportAnswered(refused))
         \/ UNCHANGED importVars
  PROVE  ImportInv'
<1>1. UNCHANGED <<importJobs, drafts>> /\ importing' \in {importing, None, drafts}
  BY DEF Import!HandleImport, Import!ImportFails, Import!ImportAnswered, importVars
<1>2. /\ \A c \in importJobs' : WorkRight(c)
      /\ drafts' = None \/ AsRead(drafts')
      /\ importing' = None \/ AsRead(importing')
  BY <1>1 DEF ImportInv
<1> QED
  BY <1>2 DEF ImportInv, AsRead, WorkRight

LEMMA FolderKeeps ==
  ASSUME ImportInv, NEW photo \in Photos, Import!HandleImageFolderSelect(photo)
  PROVE  ImportInv'
BY ImagesApply DEF Import!HandleImageFolderSelect, ImportInv

LEMMA NextImportInv == ImportInv /\ [Import!Next]_importVars => ImportInv'
BY ChosenKeeps, FolderKeeps, ExcelReadKeeps, WorkKeeps, ImportCallKeeps DEF Import!Next

LEMMA ImportHolds == ImportInv => Import!ImportedAsRead
<1> SUFFICES ASSUME ImportInv, importing # None, Import!IdsOfTheirOwn(importing.sheet),
                    NEW p \in DOMAIN importing.items
             PROVE  ItemsRead(importing.items[p], importing.sheet, p)
  BY DEF Import!ImportedAsRead, ItemsRead, Import!Cardinality, Cardinality
<1>1. importing.sheet \in Sheets /\ importing.items[p] = Import!Items(importing.sheet, p)
  BY DEF ImportInv, AsRead
<1> QED
  BY <1>1, ItemsAreAsRead

-----------------------------------------------------------------------------
(* The stock dialog: what it shows of a variant is its stock, but for the one *)
(* adjustment of this dialog that was made and not yet answered               *)

StockSets == [Variants -> Nat]
Adjustments == [variant : Variants, change : Int, after : Nat \cup {None}, dialog : Nat]
StockFields == [variant : Variants, change : Int, wanting : BOOLEAN]

\* An adjustment was made whose answer is on its way.
ToldSoon == \E call \in adjustments : call.after # None

AdjustTypes ==
  /\ stock \in StockSets /\ listed \in StockSets
  /\ captured = None \/ captured \in StockSets
  /\ override \in [Variants -> Nat \cup {None}] /\ fields \in StockFields
  /\ dialogs \in Nat
  /\ adjustments \subseteq Adjustments
  /\ \A call \in adjustments : call.dialog <= dialogs
  /\ {"data", "stale"} \subseteq DOMAIN history
  /\ historyReading.step \in {"none", "asked", "read"}
  /\ historyReading.step = "none" => historyReading = Adjust!NotReading

OneOfADialog == \A a, b \in adjustments : a.dialog = b.dialog => a = b

StockShown ==
  Adjust!Opened => \A v \in Variants :
     \/ v \in untold \/ Adjust!Shown(v) = stock[v]
     \/ \E call \in adjustments : Adjust!Own(call) /\ call.variant = v /\ call.after # None

\* What a closed dialog has not heard of is read when it is opened again.
HistoryShown ==
  /\ \/ unread \/ historyReading.step # "none" \/ ToldSoon \/ history.data = movements
     \/ ~Adjust!Opened /\ history.stale
  /\ \/ unread \/ historyReading.step # "read" \/ ToldSoon
     \/ historyReading.data = movements

AdjustInv == AdjustTypes /\ OneOfADialog /\ StockShown /\ HistoryShown

LEMMA AdjustNumbers ==
  Variants # {} /\ MaxStock \in Nat /\ None \notin Nat /\ Adjust!First \in Variants
BY PagesAssumption DEF Adjust!First

LEMMA InitAdjustInv == Adjust!Init => AdjustInv
<1> SUFFICES ASSUME Adjust!Init PROVE AdjustInv
  OBVIOUS
<1>1. AdjustTypes
  BY AdjustNumbers DEF Adjust!Init, AdjustTypes, StockSets, StockFields, Adjust!Blank, Adjust!NoOverride,
    Adjust!NotReading
<1>2. OneOfADialog /\ StockShown /\ HistoryShown
  BY DEF Adjust!Init, OneOfADialog, StockShown, HistoryShown, Adjust!Opened, Adjust!NotReading
<1> QED
  BY <1>1, <1>2 DEF AdjustInv

LEMMA OpenDialogKeeps ==
  ASSUME AdjustInv, NEW again \in BOOLEAN, Adjust!OpenDialog(again) PROVE AdjustInv'
<1>1. /\ ~Adjust!Opened /\ (history.stale => again)
      /\ dialogs' = dialogs + 1
      /\ captured' = listed /\ override' = Adjust!NoOverride
      /\ fields' = Adjust!Blank(Adjust!First)
      /\ untold' = {v \in Variants : listed[v] # stock[v]}
      /\ historyReading' = IF again /\ historyReading = Adjust!NotReading THEN Adjust!Asked
                           ELSE historyReading
      /\ UNCHANGED <<stock, movements, listed, adjustments, history, unread>>
  BY DEF Adjust!OpenDialog, Adjust!server
<1>2. AdjustTypes'
  <2>1. /\ override' \in [Variants -> Nat \cup {None}] /\ fields' \in StockFields
    BY <1>1, AdjustNumbers DEF Adjust!NoOverride, StockFields, Adjust!Blank
  <2>2. /\ historyReading'.step \in {"none", "asked", "read"}
        /\ historyReading'.step = "none" => historyReading' = Adjust!NotReading
    BY <1>1 DEF AdjustInv, AdjustTypes, Adjust!Asked, Adjust!NotReading
  <2>3. dialogs' \in Nat /\ \A call \in adjustments : call.dialog <= dialogs'
    BY <1>1 DEF AdjustInv, AdjustTypes, Adjustments
  <2> QED
    BY <1>1, <2>1, <2>2, <2>3 DEF AdjustInv, AdjustTypes
<1>3. OneOfADialog'
  BY <1>1 DEF AdjustInv, OneOfADialog
<1>4. StockShown'
  BY <1>1 DEF StockShown, Adjust!Shown, Adjust!NoOverride
<1>5. HistoryShown'
  BY <1>1 DEF AdjustInv, AdjustTypes, HistoryShown, ToldSoon, Adjust!Asked
<1> QED
  BY <1>2, <1>3, <1>4, <1>5 DEF AdjustInv

LEMMA CloseDialogKeeps ==
  ASSUME AdjustInv, Adjust!CloseDialog PROVE AdjustInv'
<1>1. /\ captured' = None
      /\ UNCHANGED <<stock, movements, listed, override, fields, adjustments, history,
                     historyReading, unread, dialogs, untold>>
  BY DEF Adjust!CloseDialog, Adjust!server, Adjust!records, Adjust!counters
<1> QED
  BY <1>1 DEF AdjustInv, AdjustTypes, OneOfADialog, StockShown, HistoryShown, ToldSoon, Adjust!Opened

LEMMA FillKeeps ==
  ASSUME AdjustInv, fields' \in StockFields, Adjust!Fill(fields') \/ UNCHANGED adjustVars
  PROVE  AdjustInv'
<1>1. UNCHANGED <<stock, movements, listed, captured, override, adjustments, history,
                  historyReading, unread, dialogs, untold>>
  BY DEF Adjust!Fill, Adjust!server, Adjust!records, Adjust!counters, adjustVars
<1> QED
  BY <1>1
     DEF AdjustInv, AdjustTypes, OneOfADialog, StockShown, HistoryShown, ToldSoon, Adjust!Opened,
         Adjust!Shown, Adjust!Own

LEMMA FormChanges ==
  ASSUME AdjustInv,
         \/ \E v \in Variants : Adjust!ChooseVariant(v)
         \/ \E removes, wanting \in BOOLEAN : Adjust!ChooseReason(removes, wanting)
         \/ \E n \in -1..1 : Adjust!TypeChange(n)
         \/ Adjust!TypeNote
  PROVE  AdjustInv'
<1>1. \E f \in StockFields : Adjust!Fill(f)
  <2> USE DEF AdjustInv, AdjustTypes, StockFields
  <2>1. CASE \E v \in Variants : Adjust!ChooseVariant(v)
    BY <2>1 DEF Adjust!ChooseVariant
  <2>2. CASE \E removes, wanting \in BOOLEAN : Adjust!ChooseReason(removes, wanting)
    <3> PICK removes, wanting \in BOOLEAN : Adjust!ChooseReason(removes, wanting)
      BY <2>2
    <3> DEFINE n == IF (fields.change < 0) = removes THEN fields.change ELSE -fields.change
               f == [fields EXCEPT !.change = n, !.wanting = wanting]
    <3>1. n \in Int
      OBVIOUS
    <3>2. Adjust!Fill(f)
      BY DEF Adjust!ChooseReason
    <3> HIDE DEF n
    <3> QED
      BY <3>1, <3>2
  <2>3. CASE \E n \in -1..1 : Adjust!TypeChange(n)
    <3> PICK n \in -1..1 : Adjust!TypeChange(n)
      BY <2>3
    <3>1. n \in Int /\ [fields EXCEPT !.change = n] \in StockFields
      OBVIOUS
    <3> QED
      BY <3>1 DEF Adjust!TypeChange
  <2>4. CASE Adjust!TypeNote
    BY <2>4 DEF Adjust!TypeNote
  <2> QED
    BY <2>1, <2>2, <2>3, <2>4
<1> QED
  BY <1>1, FillKeeps DEF Adjust!Fill

LEMMA SubmitKeeps ==
  ASSUME AdjustInv, Adjust!Submit PROVE AdjustInv'
<1> DEFINE new == [variant |-> fields.variant, change |-> fields.change, after |-> None,
                   dialog |-> dialogs]
<1>1. /\ Adjust!Opened /\ \A call \in adjustments : ~Adjust!Own(call)
      /\ adjustments' = adjustments \cup {new}
      /\ UNCHANGED <<stock, movements, listed, captured, override, fields, history,
                     historyReading, unread, dialogs, untold>>
  BY DEF Adjust!Submit, Adjust!server, Adjust!records
<1>2. new \in Adjustments /\ new.dialog = dialogs /\ new.after = None
  BY DEF AdjustInv, AdjustTypes, Adjustments, StockFields
<1> HIDE DEF new
<1>3. AdjustTypes'
  BY <1>1, <1>2 DEF AdjustInv, AdjustTypes
<1>4. OneOfADialog'
  BY <1>1, <1>2 DEF AdjustInv, OneOfADialog, Adjust!Own
<1>5. StockShown'
  BY <1>1, <1>2 DEF AdjustInv, StockShown, Adjust!Opened, Adjust!Shown, Adjust!Own
<1>6. HistoryShown'
  BY <1>1, <1>2 DEF AdjustInv, HistoryShown, ToldSoon, Adjust!Opened
<1> QED
  BY <1>3, <1>4, <1>5, <1>6 DEF AdjustInv

LEMMA AdjustsKeeps ==
  ASSUME AdjustInv, NEW c \in adjustments, Adjust!Adjusts(c) PROVE AdjustInv'
<1> DEFINE v == c.variant
           left == stock[v] + c.change
           made == [c EXCEPT !.after = left]
<1>1. /\ c.after = None /\ left \in 0..MaxStock
      /\ stock' = [stock EXCEPT ![v] = left]
      /\ adjustments' = (adjustments \ {c}) \cup {made}
      /\ untold' = IF Adjust!Own(c) THEN untold ELSE untold \cup {v}
      /\ UNCHANGED <<listed, captured, override, fields, history, historyReading, unread, dialogs>>
  BY DEF Adjust!Adjusts, Adjust!records, Adjust!counters
<1>2. c \in Adjustments /\ v \in Variants /\ c.dialog <= dialogs
  BY DEF AdjustInv, AdjustTypes, Adjustments
<1>3. left \in Nat
  BY <1>1, <1>2, AdjustNumbers DEF AdjustInv, AdjustTypes, StockSets, Adjustments
<1>4. /\ made \in Adjustments /\ made.variant = v /\ made.dialog = c.dialog
      /\ made.after = left /\ made.after # None
  BY <1>2, <1>3, AdjustNumbers DEF Adjustments
<1>5. \A w \in Variants : stock'[w] = IF w = v THEN left ELSE stock[w]
  BY <1>1 DEF AdjustInv, AdjustTypes, StockSets
<1>6. stock' \in StockSets
  BY <1>1, <1>3 DEF AdjustInv, AdjustTypes, StockSets
<1> HIDE DEF v, left, made
<1>7. AdjustTypes'
  BY <1>1, <1>2, <1>4, <1>6 DEF AdjustInv, AdjustTypes
<1>8. OneOfADialog'
  BY <1>1, <1>4 DEF AdjustInv, OneOfADialog
<1>9. StockShown'
  <2> SUFFICES ASSUME Adjust!Opened, NEW w \in Variants, w \notin untold'
               PROVE  \/ Adjust!Shown(w)' = stock'[w]
                      \/ \E call \in adjustments' : Adjust!Own(call)' /\ call.variant = w /\ call.after # None
    BY <1>1 DEF StockShown, Adjust!Opened
  <2>1. CASE w = v
    <3>1. Adjust!Own(c)
      BY <1>1, <2>1
    <3>2. Adjust!Opened' /\ made.dialog = dialogs'
      BY <1>1, <1>4, <3>1 DEF Adjust!Own, Adjust!Opened
    <3>3. made \in adjustments' /\ made.variant = w /\ made.after # None
      BY <1>1, <1>4, <2>1
    <3> QED
      BY <3>2, <3>3 DEF Adjust!Own
  <2>2. CASE w # v
    <3>1. w \notin untold /\ stock'[w] = stock[w] /\ Adjust!Shown(w)' = Adjust!Shown(w)
      BY <1>1, <1>5, <2>2 DEF Adjust!Shown
    <3>2. \A call \in adjustments : call.after # None => call \in adjustments' /\ Adjust!Own(call)' = Adjust!Own(call)
      BY <1>1 DEF Adjust!Own, Adjust!Opened
    <3> QED
      BY <3>1, <3>2 DEF AdjustInv, StockShown
  <2> QED
    BY <2>1, <2>2
<1>10. HistoryShown'
  BY <1>1, <1>4 DEF HistoryShown, ToldSoon
<1> QED
  BY <1>7, <1>8, <1>9, <1>10 DEF AdjustInv

LEMMA AdjustAnsweredKeeps ==
  ASSUME AdjustInv, NEW c \in adjustments, Adjust!Answered(c) PROVE AdjustInv'
<1>1. /\ c.after # None
      /\ adjustments' = adjustments \ {c}
      /\ IF Adjust!Own(c)
         THEN /\ override' = [override EXCEPT ![c.variant] = c.after]
              /\ fields' = [fields EXCEPT !.change = 0]
              /\ untold' = IF stock[c.variant] = c.after THEN untold \ {c.variant}
                           ELSE untold \cup {c.variant}
         ELSE UNCHANGED <<override, fields, untold>>
      /\ UNCHANGED <<stock, movements, listed, captured, dialogs>>
  BY DEF Adjust!Answered, Adjust!OverrideAnswered, Adjust!server, Adjust!counters
<1>2. /\ history' = [history EXCEPT !.stale = TRUE]
      /\ historyReading' = IF Adjust!Opened THEN Adjust!Asked ELSE historyReading
      /\ unread' = (unread \/ (~Adjust!Opened /\ historyReading.step = "read"))
  BY DEF Adjust!Answered, Adjust!ReadAgain
<1>3. c \in Adjustments /\ c.variant \in Variants /\ c.after \in Nat
  BY <1>1 DEF AdjustInv, AdjustTypes, Adjustments
<1>4. AdjustTypes'
  <2>1. override' \in [Variants -> Nat \cup {None}] /\ fields' \in StockFields
    BY <1>1, <1>3 DEF AdjustInv, AdjustTypes, StockFields
  <2>2. /\ historyReading'.step \in {"none", "asked", "read"}
        /\ historyReading'.step = "none" => historyReading' = Adjust!NotReading
    BY <1>2 DEF AdjustInv, AdjustTypes, Adjust!Asked, Adjust!NotReading
  <2>3. {"data", "stale"} \subseteq DOMAIN history'
    BY <1>2 DEF AdjustInv, AdjustTypes
  <2> QED
    BY <1>1, <2>1, <2>2, <2>3 DEF AdjustInv, AdjustTypes
<1>5. OneOfADialog'
  BY <1>1 DEF AdjustInv, OneOfADialog
<1>6. StockShown'
  <2> SUFFICES ASSUME Adjust!Opened, NEW w \in Variants, w \notin untold'
               PROVE  \/ Adjust!Shown(w)' = stock[w]
                      \/ \E call \in adjustments' : Adjust!Own(call)' /\ call.variant = w /\ call.after # None
    BY <1>1 DEF StockShown, Adjust!Opened
  <2>1. \A call \in adjustments : Adjust!Own(call)' = Adjust!Own(call)
    BY <1>1 DEF Adjust!Own, Adjust!Opened
  <2>2. CASE Adjust!Own(c) /\ w = c.variant
    <3>1. override'[w] = c.after /\ stock[w] = c.after
      BY <1>1, <1>3, <2>2 DEF AdjustInv, AdjustTypes
    <3> QED
      BY <1>1, <3>1 DEF Adjust!Shown
  <2>3. CASE ~(Adjust!Own(c) /\ w = c.variant)
    <3>1. w \notin untold /\ Adjust!Shown(w)' = Adjust!Shown(w)
      BY <1>1, <2>3 DEF AdjustInv, AdjustTypes, Adjust!Shown
    <3>2. \A call \in adjustments : Adjust!Own(call) /\ call.variant = w => call \in adjustments'
      BY <1>1, <2>3
    <3> QED
      BY <2>1, <3>1, <3>2 DEF AdjustInv, StockShown
  <2> QED
    BY <2>2, <2>3
<1>7. HistoryShown'
  <2>1. CASE Adjust!Opened
    BY <1>2, <2>1 DEF HistoryShown, Adjust!Asked
  <2>2. CASE ~Adjust!Opened
    <3>1. ~Adjust!Opened' /\ history'.stale
      BY <1>1, <1>2, <2>2 DEF AdjustInv, AdjustTypes, Adjust!Opened
    <3>2. unread' \/ historyReading'.step # "read"
      BY <1>2, <2>2
    <3> QED
      BY <3>1, <3>2 DEF HistoryShown
  <2> QED
    BY <2>1, <2>2
<1> QED
  BY <1>4, <1>5, <1>6, <1>7 DEF AdjustInv

LEMMA AdjustFailsKeeps ==
  ASSUME AdjustInv, NEW c \in adjustments, Adjust!CallFails(c) PROVE AdjustInv'
<1>1. /\ adjustments' = adjustments \ {c}
      /\ untold' = IF c.after = None THEN untold ELSE untold \cup {c.variant}
      /\ unread' = (unread \/ c.after # None)
      /\ UNCHANGED <<stock, movements, listed, captured, override, fields, history, historyReading, dialogs>>
  BY DEF Adjust!CallFails, Adjust!server, Adjust!counters
<1>2. AdjustTypes' /\ OneOfADialog'
  BY <1>1 DEF AdjustInv, AdjustTypes, OneOfADialog
<1>3. StockShown'
  <2>1. \A call \in adjustments : Adjust!Own(call)' = Adjust!Own(call)
    BY <1>1 DEF Adjust!Own, Adjust!Opened
  <2>2. \A v \in Variants : Adjust!Shown(v)' = Adjust!Shown(v)
    BY <1>1 DEF Adjust!Shown
  <2> QED
    BY <1>1, <2>1, <2>2 DEF AdjustInv, StockShown, Adjust!Opened
<1>4. unread' \/ (~unread /\ (ToldSoon => ToldSoon'))
  <2>1. CASE c.after = None
    <3>1. ToldSoon => ToldSoon'
      BY <1>1, <2>1 DEF ToldSoon
    <3> QED
      BY <1>1, <2>1, <3>1
  <2> QED
    BY <1>1, <2>1
<1>5. HistoryShown'
  BY <1>1, <1>4 DEF AdjustInv, HistoryShown, Adjust!Opened
<1> QED
  BY <1>2, <1>3, <1>5 DEF AdjustInv

LEMMA HistoryKeeps ==
  ASSUME AdjustInv, Adjust!HistoryRead \/ Adjust!HistoryArrives \/ Adjust!HistoryFails
  PROVE  AdjustInv'
<1>1. UNCHANGED <<stock, movements, listed, captured, override, fields, adjustments, dialogs, untold>>
  BY DEF Adjust!HistoryRead, Adjust!HistoryArrives, Adjust!HistoryFails, Adjust!server, Adjust!counters
<1>2. StockShown' /\ OneOfADialog'
  BY <1>1 DEF AdjustInv, StockShown, OneOfADialog, Adjust!Opened, Adjust!Shown, Adjust!Own
<1>3. /\ {"data", "stale"} \subseteq DOMAIN history'
      /\ historyReading'.step \in {"none", "asked", "read"}
      /\ historyReading'.step = "none" => historyReading' = Adjust!NotReading
  BY DEF AdjustInv, AdjustTypes, Adjust!HistoryRead, Adjust!HistoryArrives, Adjust!HistoryFails,
         Adjust!NotReading
<1>4. AdjustTypes'
  BY <1>1, <1>3 DEF AdjustInv, AdjustTypes
<1>5. HistoryShown'
  BY <1>1 DEF AdjustInv, HistoryShown, ToldSoon, Adjust!HistoryRead, Adjust!HistoryArrives,
              Adjust!HistoryFails, Adjust!NotReading
<1> QED
  BY <1>2, <1>4, <1>5 DEF AdjustInv

LEMMA TableArrivesKeeps ==
  ASSUME AdjustInv, Adjust!TableArrives PROVE AdjustInv'
<1>1. /\ listed' = stock
      /\ UNCHANGED <<stock, movements, captured, override, fields, adjustments, history,
                     historyReading, unread, dialogs, untold>>
  BY DEF Adjust!TableArrives, Adjust!server, Adjust!records, Adjust!counters
<1> QED
  BY <1>1 DEF AdjustInv, AdjustTypes, OneOfADialog, StockShown, HistoryShown, ToldSoon,
              Adjust!Opened, Adjust!Shown, Adjust!Own

LEMMA ChangedElsewhereKeeps ==
  ASSUME AdjustInv, NEW v \in Variants, Adjust!ChangedElsewhere(v) PROVE AdjustInv'
<1>1. /\ stock[v] > 0 /\ stock' = [stock EXCEPT ![v] = stock[v] - 1]
      /\ untold' = untold \cup {v} /\ unread' = TRUE
      /\ UNCHANGED <<listed, captured, override, fields, adjustments, history, historyReading, dialogs>>
  BY DEF Adjust!ChangedElsewhere
<1>2. stock' \in StockSets /\ \A w \in Variants : w # v => stock'[w] = stock[w]
  <2>1. stock[v] - 1 \in Nat
    BY <1>1 DEF AdjustInv, AdjustTypes, StockSets
  <2> QED
    BY <1>1, <2>1 DEF AdjustInv, AdjustTypes, StockSets
<1>3. AdjustTypes' /\ OneOfADialog'
  BY <1>1, <1>2 DEF AdjustInv, AdjustTypes, OneOfADialog
<1>4. StockShown'
  BY <1>1, <1>2 DEF AdjustInv, StockShown, Adjust!Opened, Adjust!Shown, Adjust!Own
<1>5. HistoryShown'
  BY <1>1 DEF HistoryShown
<1> QED
  BY <1>3, <1>4, <1>5 DEF AdjustInv

LEMMA NextAdjustInv == AdjustInv /\ [Adjust!Next]_adjustVars => AdjustInv'
<1> SUFFICES ASSUME AdjustInv, [Adjust!Next]_adjustVars PROVE AdjustInv'
  OBVIOUS
<1>1. CASE UNCHANGED adjustVars
  BY <1>1, FillKeeps DEF adjustVars, AdjustInv, AdjustTypes
<1> QED
  BY <1>1, OpenDialogKeeps, CloseDialogKeeps, FormChanges, SubmitKeeps, AdjustsKeeps,
     AdjustAnsweredKeeps, AdjustFailsKeeps, HistoryKeeps, TableArrivesKeeps, ChangedElsewhereKeeps
     DEF Adjust!Next

LEMMA AdjustHolds == AdjustInv => Adjust!StockShownIsKept
BY DEF AdjustInv, AdjustTypes, StockShown, HistoryShown, ToldSoon, Adjust!StockShownIsKept,
       Adjust!NotReading

-----------------------------------------------------------------------------
(* The managers' page: a list that was read is the staff there is until a    *)
(* change that was made is heard of, and a row nobody ticked since it was    *)
(* saved holds what was saved                                                *)

Teams == [Managers -> Grants \cup {None}]
TeamCalls(W) == [of : W, done : BOOLEAN]
ManagerUpdates == [id : Managers, of : Grants, done : BOOLEAN]

TeamHeard ==
  ~silent /\ Team!Settled(adding) /\ Team!Settled(managerUpdating) /\ Team!Settled(removing)

TeamTypes ==
  /\ staff \in Teams /\ rowDraft \in Teams
  /\ team = None \/ team \in Teams
  /\ granted \in Grants /\ touched \subseteq Managers /\ managersIssued \subseteq Managers
  /\ adding = None \/ adding \in TeamCalls(Grants)
  /\ removing = None \/ removing \in TeamCalls(Managers)
  /\ managerUpdating = None \/ managerUpdating \in ManagerUpdates
  /\ teamReading \in [step : {"none", "asked", "read"}, data : Teams \cup {None}]
  /\ teamReading.step = "read" => teamReading.data \in Teams

\* None is on the team, on a list, or ticked, who was not issued an id.
IdsIssued ==
  \A m \in Managers \ managersIssued :
    /\ staff[m] = None /\ rowDraft[m] = None
    /\ team # None => team[m] = None
    /\ teamReading.step = "read" => teamReading.data[m] = None
    /\ managerUpdating # None => managerUpdating.id # m

ListsFresh ==
  TeamHeard =>
    /\ teamReading.step = "none" /\ team # None => team = staff
    /\ teamReading.step = "read" => teamReading.data = staff

\* The row of a manager holds what was saved, or is being saved, unless it was ticked.
RowsSaved ==
  \A m \in Managers \ touched :
    rowDraft[m] # None =>
      IF managerUpdating # None /\ managerUpdating.id = m
      THEN /\ rowDraft[m] = managerUpdating.of
           /\ managerUpdating.done /\ staff[m] # None => staff[m] = managerUpdating.of
      ELSE staff[m] # None => staff[m] = rowDraft[m]

TeamInv == TeamTypes /\ IdsIssued /\ ListsFresh /\ RowsSaved

LEMMA TeamNone ==
  /\ ReadOnly \in Grants /\ None \notin Grants
  /\ None \notin TeamCalls(Grants) /\ None \notin TeamCalls(Managers)
  /\ None \notin ManagerUpdates
<1>1. /\ None \notin [of : Grants \cup Managers, done : BOOLEAN]
      /\ TeamCalls(Grants) \subseteq [of : Grants \cup Managers, done : BOOLEAN]
      /\ TeamCalls(Managers) \subseteq [of : Grants \cup Managers, done : BOOLEAN]
  BY PagesAssumption DEF TeamCalls
<1> QED
  BY <1>1, PagesAssumption DEF ManagerUpdates

LEMMA InitTeamInv == Team!Init => TeamInv
BY TeamNone
   DEF Team!Init, TeamInv, TeamTypes, IdsIssued, ListsFresh, RowsSaved, Teams, Team!Asked,
       Team!Reading

\* A step by the one at the page, that changes no list.
LEMMA TeamMoves ==
  ASSUME TeamInv, TeamTypes', IdsIssued', RowsSaved', UNCHANGED <<staff, team, teamReading>>,
         TeamHeard' => TeamHeard
  PROVE  TeamInv'
BY DEF TeamInv, ListsFresh

LEMMA TeamReadKeeps ==
  ASSUME TeamInv, Team!TeamRead \/ Team!TeamArrives PROVE TeamInv'
BY DEF TeamInv, TeamTypes, IdsIssued, ListsFresh, RowsSaved, Team!TeamRead, Team!TeamArrives,
       Team!Reading, Team!NoRead, Team!Asked, TeamHeard, Team!Settled

LEMMA TickRowKeeps ==
  ASSUME TeamInv, NEW m \in Managers, NEW g \in Grants, Team!TickRow(m, g)
  PROVE  TeamInv'
<1>1. /\ team # None /\ team[m] # None
      /\ rowDraft' = [rowDraft EXCEPT ![m] = g] /\ touched' = touched \cup {m}
      /\ UNCHANGED <<staff, managersIssued, team, teamReading, silent, granted, adding,
                     managerUpdating, removing>>
  BY DEF Team!TickRow, Team!OnTeam, Team!Move
<1>2. \A n \in Managers : rowDraft'[n] = IF n = m THEN g ELSE rowDraft[n]
  BY <1>1 DEF TeamInv, TeamTypes, Teams
<1>3. TeamTypes'
  BY <1>1 DEF TeamInv, TeamTypes, Teams
<1>4. IdsIssued'
  BY <1>1, <1>2 DEF TeamInv, IdsIssued
<1>5. RowsSaved'
  BY <1>1, <1>2 DEF TeamInv, RowsSaved
<1> QED
  BY <1>1, <1>3, <1>4, <1>5, TeamMoves DEF TeamHeard, Team!Settled

LEMMA SavePermissionsKeeps ==
  ASSUME TeamInv, NEW m \in Managers, Team!SavePermissions(m)
  PROVE  TeamInv'
<1> DEFINE call == [id |-> m, of |-> Team!CurrentRow(m), done |-> FALSE]
<1>1. /\ team # None /\ team[m] # None /\ managerUpdating = None
      /\ managerUpdating' = call /\ touched' = touched \ {m}
      /\ UNCHANGED <<staff, managersIssued, team, teamReading, silent, granted, adding,
                     rowDraft, removing>>
  BY DEF Team!SavePermissions, Team!OnTeam, Team!Move
<1>2. Team!CurrentRow(m) \in Grants /\ (rowDraft[m] # None => Team!CurrentRow(m) = rowDraft[m])
  BY <1>1 DEF TeamInv, TeamTypes, Teams, Team!CurrentRow
<1>3. call \in ManagerUpdates /\ call.id = m /\ ~call.done /\ call.of = Team!CurrentRow(m)
  BY <1>2 DEF ManagerUpdates
<1> HIDE DEF call
<1>4. TeamTypes'
  BY <1>1, <1>3 DEF TeamInv, TeamTypes
<1>5. IdsIssued'
  BY <1>1, <1>3 DEF TeamInv, IdsIssued
<1>6. RowsSaved'
  BY <1>1, <1>2, <1>3, TeamNone DEF TeamInv, RowsSaved
<1>7. TeamHeard' => TeamHeard
  BY <1>1 DEF TeamHeard, Team!Settled
<1> QED
  BY <1>1, <1>4, <1>5, <1>6, <1>7, TeamMoves

LEMMA TeamFormKeeps ==
  ASSUME TeamInv, Team!HandleSubmit \/ (\E g \in Grants : Team!TickForm(g))
                    \/ (\E m \in Managers : Team!Remove(m))
  PROVE  TeamInv'
<1>1. /\ UNCHANGED <<staff, managersIssued, team, teamReading, silent, rowDraft,
                     managerUpdating, touched>>
      /\ granted' \in Grants
      /\ \/ UNCHANGED adding
         \/ adding = None /\ adding' \in TeamCalls(Grants) /\ ~adding'.done
      /\ \/ UNCHANGED removing
         \/ removing = None /\ removing' \in TeamCalls(Managers) /\ ~removing'.done
  <2>1. CASE Team!HandleSubmit
    BY <2>1 DEF TeamInv, TeamTypes, Team!HandleSubmit, Team!Move, Team!Call, TeamCalls
  <2>2. ASSUME NEW m \in Managers, Team!Remove(m)
        PROVE  /\ UNCHANGED <<staff, managersIssued, team, teamReading, silent, rowDraft,
                             managerUpdating, touched, granted, adding>>
               /\ removing = None /\ removing' \in TeamCalls(Managers) /\ ~removing'.done
    BY <2>2 DEF Team!Remove, Team!Move, Team!Call, TeamCalls
  <2>3. CASE \E g \in Grants : Team!TickForm(g)
    BY <2>3 DEF TeamInv, TeamTypes, Team!TickForm, Team!Move
  <2> QED
    BY <2>1, <2>2, <2>3 DEF TeamInv, TeamTypes
<1>2. TeamTypes'
  BY <1>1 DEF TeamInv, TeamTypes
<1>3. IdsIssued' /\ RowsSaved'
  BY <1>1 DEF TeamInv, IdsIssued, RowsSaved
<1>4. TeamHeard' => TeamHeard
  BY <1>1 DEF TeamHeard, Team!Settled
<1> QED
  BY <1>1, <1>2, <1>3, <1>4, TeamMoves

LEMMA AddedKeeps ==
  ASSUME TeamInv, Team!Added PROVE TeamInv'
<1>1. PICK m \in Managers \ managersIssued :
        /\ staff' = [staff EXCEPT ![m] = adding.of]
        /\ managersIssued' = managersIssued \cup {m}
  BY DEF Team!Added
<1>2. /\ adding # None /\ ~adding.done /\ adding' = [adding EXCEPT !.done = TRUE]
      /\ UNCHANGED <<team, teamReading, rowDraft, granted, managerUpdating, removing, touched,
                     silent>>
  BY DEF Team!Added
<1>3. adding' \in TeamCalls(Grants) /\ adding'.done /\ adding.of \in Grants
  BY <1>2 DEF TeamInv, TeamTypes, TeamCalls
<1>4. \A n \in Managers : staff'[n] = IF n = m THEN adding.of ELSE staff[n]
  BY <1>1 DEF TeamInv, TeamTypes, Teams
<1>5. TeamTypes'
  BY <1>1, <1>2, <1>3 DEF TeamInv, TeamTypes, Teams
<1>6. IdsIssued'
  BY <1>1, <1>2, <1>4 DEF TeamInv, IdsIssued
<1>7. RowsSaved'
  BY <1>1, <1>2, <1>4 DEF TeamInv, IdsIssued, RowsSaved
<1>8. TeamHeard' => FALSE
  <2>1. adding' # None
    BY <1>3, TeamNone
  <2> QED
    BY <1>3, <2>1 DEF TeamHeard, Team!Settled
<1> QED
  BY <1>5, <1>6, <1>7, <1>8 DEF TeamInv, ListsFresh

LEMMA UpdatedKeeps ==
  ASSUME TeamInv, Team!Updated PROVE TeamInv'
<1> DEFINE m == managerUpdating.id
<1>1. /\ managerUpdating # None /\ staff[m] # None
      /\ staff' = [staff EXCEPT ![m] = managerUpdating.of]
      /\ managerUpdating' = [managerUpdating EXCEPT !.done = TRUE]
      /\ UNCHANGED <<managersIssued, team, teamReading, rowDraft, granted, adding, removing,
                     touched, silent>>
  BY DEF Team!Updated
<1>2. /\ m \in Managers /\ managerUpdating.of \in Grants
      /\ managerUpdating' \in ManagerUpdates /\ managerUpdating'.done
      /\ managerUpdating'.id = m /\ managerUpdating'.of = managerUpdating.of
  BY <1>1 DEF TeamInv, TeamTypes, ManagerUpdates
<1>3. managerUpdating' # None
  BY <1>2, TeamNone
<1>4. \A n \in Managers : staff'[n] = IF n = m THEN managerUpdating.of ELSE staff[n]
  BY <1>1 DEF TeamInv, TeamTypes, Teams
<1>5. TeamTypes'
  BY <1>1, <1>2 DEF TeamInv, TeamTypes, Teams
<1>6. IdsIssued'
  BY <1>1, <1>2, <1>4 DEF TeamInv, IdsIssued
<1>7. RowsSaved'
  BY <1>1, <1>2, <1>3, <1>4 DEF TeamInv, RowsSaved
<1>8. ~TeamHeard'
  BY <1>2, <1>3 DEF TeamHeard, Team!Settled
<1> QED
  BY <1>5, <1>6, <1>7, <1>8 DEF TeamInv, ListsFresh

LEMMA RemovedKeeps ==
  ASSUME TeamInv, Team!Removed PROVE TeamInv'
<1>1. /\ removing # None /\ removing' = [removing EXCEPT !.done = TRUE]
      /\ staff' = [staff EXCEPT ![removing.of] = None]
      /\ UNCHANGED <<managersIssued, team, teamReading, rowDraft, granted, adding,
                     managerUpdating, touched, silent>>
  BY DEF Team!Removed
<1>2. removing.of \in Managers /\ removing' \in TeamCalls(Managers) /\ removing'.done
  BY <1>1 DEF TeamInv, TeamTypes, TeamCalls
<1>3. \A n \in Managers : staff'[n] = IF n = removing.of THEN None ELSE staff[n]
  BY <1>1 DEF TeamInv, TeamTypes, Teams
<1>4. TeamTypes'
  BY <1>1, <1>2 DEF TeamInv, TeamTypes, Teams
<1>5. IdsIssued' /\ RowsSaved'
  BY <1>1, <1>3 DEF TeamInv, IdsIssued, RowsSaved
<1>6. ~TeamHeard'
  BY <1>2, TeamNone DEF TeamHeard, Team!Settled
<1> QED
  BY <1>4, <1>5, <1>6 DEF TeamInv, ListsFresh

LEMMA TeamAnsweredKeeps ==
  ASSUME TeamInv, Team!AddAnswered \/ Team!UpdateAnswered \/ Team!RemoveAnswered
  PROVE  TeamInv'
<1>1. /\ teamReading' = Team!Asked /\ granted' \in Grants
      /\ UNCHANGED <<staff, managersIssued, team, rowDraft, touched>>
  BY TeamNone DEF TeamInv, TeamTypes, Team!AddAnswered, Team!UpdateAnswered, Team!RemoveAnswered,
         Team!ReadAgain
<1>2. /\ adding' = None \/ adding' = adding
      /\ removing' = None \/ removing' = removing
      /\ \/ managerUpdating' = managerUpdating
         \/ managerUpdating # None /\ managerUpdating.done /\ managerUpdating' = None
  BY DEF Team!AddAnswered, Team!UpdateAnswered, Team!RemoveAnswered
<1>3. teamReading'.step = "asked" /\ teamReading'.data = None
  BY <1>1 DEF Team!Asked, Team!Reading
<1>4. TeamTypes'
  BY <1>1, <1>2 DEF TeamInv, TeamTypes, Team!Asked, Team!Reading
<1>5. IdsIssued'
  BY <1>1, <1>2, <1>3 DEF TeamInv, IdsIssued
<1>6. RowsSaved'
  BY <1>1, <1>2 DEF TeamInv, RowsSaved
<1> QED
  BY <1>3, <1>4, <1>5, <1>6 DEF TeamInv, ListsFresh

LEMMA TeamFailsKeeps ==
  ASSUME TeamInv, Team!AddFails \/ Team!UpdateFails \/ Team!RemoveFails
  PROVE  TeamInv'
<1>1. UNCHANGED <<staff, managersIssued, team, teamReading, rowDraft, granted>>
  BY DEF Team!AddFails, Team!UpdateFails, Team!RemoveFails
<1>2. /\ adding' = None \/ adding' = adding
      /\ removing' = None \/ removing' = removing
      /\ \/ UNCHANGED <<managerUpdating, touched>>
         \/ /\ managerUpdating # None /\ managerUpdating' = None
            /\ touched' = touched \cup {managerUpdating.id}
  BY DEF Team!AddFails, Team!UpdateFails, Team!RemoveFails
<1>3. TeamHeard' => TeamHeard
  BY DEF Team!AddFails, Team!UpdateFails, Team!RemoveFails, TeamHeard, Team!Settled
<1>4. TeamTypes'
  BY <1>1, <1>2 DEF TeamInv, TeamTypes, ManagerUpdates
<1>5. IdsIssued' /\ RowsSaved'
  BY <1>1, <1>2 DEF TeamInv, IdsIssued, RowsSaved
<1> QED
  BY <1>1, <1>3, <1>4, <1>5, TeamMoves

LEMMA NextTeamInv == TeamInv /\ [Team!Next]_teamVars => TeamInv'
<1> SUFFICES ASSUME TeamInv, [Team!Next]_teamVars PROVE TeamInv'
  OBVIOUS
<1>1. CASE UNCHANGED teamVars
  BY <1>1 DEF teamVars, TeamInv, TeamTypes, IdsIssued, ListsFresh, RowsSaved, TeamHeard,
              Team!Settled
<1> QED
  BY <1>1, TeamReadKeeps, TeamFormKeeps, TickRowKeeps, SavePermissionsKeeps, AddedKeeps,
     UpdatedKeeps, RemovedKeeps, TeamAnsweredKeeps, TeamFailsKeeps DEF Team!Next

LEMMA TeamHolds == TeamInv => Team!TeamShownIsTeamKept
BY DEF TeamInv, TeamTypes, ListsFresh, RowsSaved, TeamHeard, Team!TeamShownIsTeamKept,
       Team!NoRead, Team!Reading, Team!OnTeam, Team!CurrentRow

-----------------------------------------------------------------------------
(* The settings' pages: an answer that is not old is what the store keeps,    *)
(* and a field that was not typed in is what a save in flight will write      *)

SettingValues == Settings!Values
Errands == [what : {"load", "save", "warehouse", "retry"}, sent : SettingValues \cup {None},
            seen : SettingValues, stage : {"sent", "served", "answered"}, got : SettingValues \cup {None},
            number : Nat, old : BOOLEAN, failed : BOOLEAN]

\* What a save answers is what it was given, but for a name it was not given.
Writes(given, kept) ==
  kept.on = given.on /\ (given.name # None => kept.name = given.name)

\* The one load of Delhivery's page is alone, and finds the form as it was opened.
LoadingFirst ==
  loaded = "loading" /\ sheet = Settings!Empty /\ dirty = {} /\ \A d, e \in errands : d = e

ErrandStands(e) ==
  /\ e \in Errands
  /\ e.what \in {"save", "warehouse"} => e.sent = e.seen
  /\ e.stage = "answered" => e.got \in SettingValues /\ (~e.old => e.got = settings)
  /\ e.what = "save" => e.stage # "served"
  /\ e.what = "save" /\ e.stage = "answered" => Writes(e.sent, e.got)
  /\ e.what = "warehouse" =>
       /\ desk = "delhivery" /\ e.sent.name # None
       /\ e.stage # "sent" => settings.name # None
       /\ e.stage = "answered" => e.got.name # None
  /\ desk = "delhivery" =>
       /\ e.what # "retry"
       /\ e.what = "load" => LoadingFirst /\ ~e.old
       /\ e.what = "save" /\ ~e.old => \A f \in Settings!Fields \ dirty : sheet[f] = e.seen[f]

\* A name never typed and not loaded is none the store keeps, or is about to.
Nameless ==
  desk = "delhivery" /\ loaded = "yes" /\ sheet.name = None /\ "name" \notin dirty =>
    /\ settings.name = None
    /\ \A e \in errands : e.what = "save" /\ e.sent.name = None

\* A change the server made is on its way back.
Unheard == \E e \in errands : e.what # "load" /\ e.stage # "sent"

SettingsInv ==
  /\ settings \in SettingValues /\ sheet \in SettingValues /\ notices \in BOOLEAN /\ run \in Nat
  /\ dirty \subseteq Settings!Fields
  /\ \A e \in errands : ErrandStands(e)
  /\ \A d, e \in errands : d.what = "save" /\ e.what = "save" => d = e
  /\ Nameless
  /\ loaded = "yes" /\ ~outdated /\ ~Unheard =>
       \A f \in Settings!Fields \ dirty : sheet[f] = settings[f]

LEMMA SettingNone == None \notin BOOLEAN
BY PagesAssumption

LEMMA InitSettingsInv == Settings!Init => SettingsInv
<1> SUFFICES ASSUME Settings!Init PROVE SettingsInv
  OBVIOUS
<1> DEFINE load == [what |-> "load", sent |-> None, seen |-> Settings!Empty, stage |-> "served",
                    got |-> None, number |-> 0, old |-> FALSE, failed |-> FALSE]
<1>1. /\ errands = {load} /\ sheet = Settings!Empty /\ loaded = "loading" /\ run = 1
      /\ dirty = {}
  BY DEF Settings!Init
<1>2. Settings!Empty \in SettingValues
  BY DEF Settings!Empty, SettingValues, Settings!Values
<1>3. settings \in SettingValues /\ notices \in BOOLEAN
  <2>1. \A n \in SettingNames \ {Odd} : [on |-> TRUE, name |-> n] \in SettingValues
    BY DEF SettingValues, Settings!Values
  <2>2. settings \in SettingValues
    BY <1>2, <2>1 DEF Settings!Init
  <2>3. notices \in BOOLEAN
    BY DEF Settings!Init
  <2> QED
    BY <2>2, <2>3
<1>4. load \in Errands /\ load.what = "load" /\ load.stage = "served" /\ ~load.old
  BY <1>2 DEF Errands
<1> HIDE DEF load
<1>5. ErrandStands(load)
  BY <1>1, <1>4 DEF ErrandStands, LoadingFirst
<1> QED
  BY <1>1, <1>2, <1>3, <1>4, <1>5 DEF SettingsInv, Nameless

\* A call is sent from a form that is open.
LEMMA SettingsSend ==
  ASSUME SettingsInv, NEW e \in Errands, Settings!Send(e), e.stage = "sent" \/ e.what = "load",
         e.stage # "answered", ErrandStands(e),
         e.what = "save" => \A d \in errands : d.what # "save",
         desk = "delhivery" /\ sheet.name = None => e.what = "save" /\ e.sent.name = None
  PROVE  SettingsInv'
<1>1. /\ errands' = errands \cup {e} /\ run' = run + 1
      /\ loaded \in {"yes", "saved", "failed"}
      /\ UNCHANGED <<desk, settings, notices, sheet, loaded, failedShown, dirty, outdated>>
  BY DEF Settings!Send, Settings!OnForm, Settings!server, Settings!ghosts
<1>2. desk = "delhivery" => \A d \in errands' : d.what # "load"
  BY <1>1 DEF SettingsInv, ErrandStands, LoadingFirst
<1>3. \A d \in errands' : ErrandStands(d)'
  <2> SUFFICES ASSUME NEW d \in errands' PROVE ErrandStands(d)'
    OBVIOUS
  <2>1. ErrandStands(d)
    BY <1>1 DEF SettingsInv
  <2> QED
    BY <1>1, <1>2, <2>1 DEF ErrandStands
<1>4. Unheard' <=> Unheard
  BY <1>1 DEF Unheard
<1>5. Nameless'
  BY <1>1 DEF SettingsInv, Nameless
<1>6. \A c, d \in errands' : c.what = "save" /\ d.what = "save" => c = d
  BY <1>1 DEF SettingsInv
<1> QED
  BY <1>1, <1>3, <1>4, <1>5, <1>6 DEF SettingsInv

\* The call of a button, as it is sent.
LEMMA ErrandIs ==
  ASSUME SettingsInv, NEW what \in {"save", "warehouse", "retry", "load"},
         NEW given \in SettingValues \cup {None}
  PROVE  LET e == Settings!Errand(what, given, sheet)
         IN  /\ e \in Errands /\ e.what = what /\ e.sent = given /\ e.seen = sheet
             /\ e.stage = "sent" /\ ~e.old
BY DEF SettingsInv, Settings!Errand, Errands

LEMMA SettingsButtonKeeps ==
  ASSUME SettingsInv,
         Settings!OnSave \/ Settings!OnWarehouse \/ Settings!OnRetry \/ Settings!Refresh
  PROVE  SettingsInv'
<1> sheet \in SettingValues
  BY DEF SettingsInv
<1>1. CASE Settings!OnSave
  <2> DEFINE e == Settings!Errand("save", sheet, sheet)
  <2>1. /\ e \in Errands /\ e.what = "save" /\ e.sent = sheet /\ e.seen = sheet
        /\ e.stage = "sent" /\ ~e.old
    BY ErrandIs
  <2>2. Settings!Send(e) /\ \A d \in errands : d.what # "save"
    BY <1>1 DEF Settings!OnSave, Settings!Underway
  <2> HIDE DEF e
  <2>3. ErrandStands(e)
    BY <2>1 DEF ErrandStands
  <2> QED
    BY <2>1, <2>2, <2>3, SettingsSend
<1>2. CASE Settings!OnWarehouse
  <2> DEFINE e == Settings!Errand("warehouse", sheet, sheet)
  <2>1. /\ e \in Errands /\ e.what = "warehouse" /\ e.sent = sheet /\ e.seen = sheet
        /\ e.stage = "sent" /\ ~e.old
    BY ErrandIs
  <2>2. Settings!Send(e) /\ sheet.name # None /\ desk = "delhivery"
    BY <1>2 DEF Settings!OnWarehouse
  <2> HIDE DEF e
  <2>3. ErrandStands(e)
    BY <2>1, <2>2 DEF ErrandStands
  <2> QED
    BY <2>1, <2>2, <2>3, SettingsSend
<1>3. CASE Settings!OnRetry
  <2> DEFINE e == Settings!Errand("retry", None, sheet)
  <2>1. /\ e \in Errands /\ e.what = "retry" /\ e.stage = "sent" /\ ~e.old
    BY ErrandIs
  <2>2. Settings!Send(e) /\ desk = "whatsapp"
    BY <1>3 DEF Settings!OnRetry
  <2> HIDE DEF e
  <2>3. ErrandStands(e)
    BY <2>1, <2>2 DEF ErrandStands
  <2> QED
    BY <2>1, <2>2, <2>3, SettingsSend
<1>4. CASE Settings!Refresh
  <2> DEFINE d == Settings!Errand("load", None, sheet)
             e == [d EXCEPT !.stage = "served"]
  <2>1. /\ d \in Errands /\ d.what = "load" /\ ~d.old
    BY ErrandIs
  <2>2. Settings!Send(e) /\ desk = "whatsapp"
    BY <1>4 DEF Settings!Refresh
  <2> HIDE DEF d
  <2>3. e \in Errands /\ e.what = "load" /\ e.stage = "served"
    BY <2>1 DEF Errands
  <2> HIDE DEF e
  <2>4. ErrandStands(e)
    BY <2>2, <2>3 DEF ErrandStands
  <2> QED
    BY <2>2, <2>3, <2>4, SettingsSend
<1> QED
  BY <1>1, <1>2, <1>3, <1>4

LEMMA SettingsTypeKeeps ==
  ASSUME SettingsInv, NEW field \in Settings!Fields, NEW value, Settings!Type(field, value),
         IF field = "on" THEN value \in BOOLEAN ELSE value \in SettingNames \cup {None}
  PROVE  SettingsInv'
<1>1. /\ loaded \in {"yes", "saved", "failed"}
      /\ sheet' = [sheet EXCEPT ![field] = value] /\ dirty' = dirty \cup {field}
      /\ UNCHANGED <<desk, settings, notices, loaded, errands, run, outdated>>
  BY DEF Settings!Type, Settings!OnForm, Settings!server
<1>2. sheet' \in SettingValues /\ \A f \in Settings!Fields : f # field => sheet'[f] = sheet[f]
  BY <1>1 DEF SettingsInv, SettingValues, Settings!Values, Settings!Fields
<1>3. "name" \notin dirty' => sheet'.name = sheet.name /\ "name" \notin dirty
  BY <1>1, <1>2 DEF Settings!Fields
<1>4. \A e \in errands' : ErrandStands(e)'
  <2> SUFFICES ASSUME NEW e \in errands PROVE ErrandStands(e)'
    BY <1>1
  <2>1. ErrandStands(e)
    BY DEF SettingsInv
  <2>2. desk = "delhivery" => e.what # "load"
    BY <1>1, <2>1 DEF ErrandStands, LoadingFirst
  <2> QED
    BY <1>1, <1>2, <2>1, <2>2 DEF ErrandStands
<1>5. Nameless'
  BY <1>1, <1>3 DEF SettingsInv, Nameless
<1> QED
  BY <1>1, <1>2, <1>4, <1>5 DEF SettingsInv, Unheard

LEMMA SettingsServeKeeps ==
  ASSUME SettingsInv, NEW e \in errands, Settings!Serve(e) PROVE SettingsInv'
<1> DEFINE aged(o) == [o EXCEPT !.old = @ \/ o.stage = "answered"]
           next == [e EXCEPT !.stage = IF e.what = "save" THEN "answered" ELSE "served",
                             !.got = IF e.what = "save" THEN settings' ELSE None]
<1>1. /\ e.stage = "sent"
      /\ \/ e.what = "save" /\ settings' = Settings!Saved(e.sent)
         \/ e.what = "warehouse" /\ settings' = [settings EXCEPT !.name = e.sent.name]
         \/ e.what = "retry" /\ settings' = settings
      /\ notices' = notices \/ notices' \in BOOLEAN
      /\ errands' = {aged(o) : o \in errands \ {e}} \cup {next}
      /\ UNCHANGED <<desk, sheet, loaded, failedShown, run, dirty, outdated>>
  BY DEF Settings!Serve, Settings!ghosts
<1>2. ErrandStands(e) /\ e \in Errands
  BY DEF SettingsInv, ErrandStands
<1>3. e.what \in {"save", "warehouse"} => e.sent \in SettingValues
  BY <1>2 DEF ErrandStands, Errands
<1>4. /\ settings' \in SettingValues
      /\ e.what = "save" => Writes(e.sent, settings')
      /\ desk = "delhivery" /\ settings.name # None => settings'.name # None
      /\ e.what = "warehouse" => settings'.name # None
      /\ desk = "delhivery" /\ settings.name = None /\ e.what = "save" /\ e.sent.name = None
           => settings'.name = None
  <2>1. CASE e.what = "save"
    <3>1. settings' = Settings!Saved(e.sent) /\ e.sent \in SettingValues
      BY <1>1, <1>3, <2>1
    <3> QED
      BY <2>1, <3>1 DEF SettingsInv, SettingValues, Settings!Values, Settings!Saved, Writes
  <2>2. CASE e.what = "warehouse"
    <3>1. e.sent \in SettingValues /\ e.sent.name # None
      BY <1>2, <1>3, <2>2 DEF ErrandStands
    <3> QED
      BY <1>1, <2>2, <3>1 DEF SettingsInv, SettingValues, Settings!Values
  <2> QED
    BY <1>1, <2>1, <2>2 DEF SettingsInv
<1>5. \A o \in errands : /\ aged(o) \in Errands /\ aged(o).what = o.what /\ aged(o).sent = o.sent
                         /\ aged(o).seen = o.seen /\ aged(o).stage = o.stage
                         /\ aged(o).got = o.got
                         /\ ~aged(o).old => ~o.old /\ o.stage # "answered"
  <2> SUFFICES ASSUME NEW o \in errands
               PROVE  /\ aged(o) \in Errands /\ aged(o).what = o.what /\ aged(o).sent = o.sent
                      /\ aged(o).seen = o.seen /\ aged(o).stage = o.stage
                      /\ aged(o).got = o.got
                      /\ ~aged(o).old => ~o.old /\ o.stage # "answered"
    OBVIOUS
  <2> o \in Errands
    BY DEF SettingsInv, ErrandStands
  <2> QED
    BY DEF Errands
<1>6. /\ next \in Errands /\ next.what = e.what /\ next.sent = e.sent /\ next.seen = e.seen
      /\ next.stage = (IF e.what = "save" THEN "answered" ELSE "served")
      /\ e.what = "save" => next.got = settings'
      /\ next.old = e.old
  BY <1>2, <1>4 DEF Errands
<1> HIDE DEF aged, next
<1>7. desk = "delhivery" => \A o \in errands : o.what # "load"
  BY <1>1 DEF SettingsInv, ErrandStands, LoadingFirst
<1>8. ASSUME NEW o \in errands \ {e}, NEW d, d = aged(o) PROVE ErrandStands(d)'
  <2>1. ErrandStands(o)
    BY DEF SettingsInv
  <2> QED
    BY <1>1, <1>4, <1>5, <1>7, <1>8, <2>1 DEF ErrandStands
<1>9. ASSUME NEW d, d = next PROVE ErrandStands(d)'
  BY <1>1, <1>2, <1>4, <1>6, <1>7, <1>9 DEF ErrandStands
<1>10. \A o \in errands' : ErrandStands(o)'
  BY <1>1, <1>8, <1>9
<1>11. \A c, d \in errands' : c.what = "save" /\ d.what = "save" => c = d
  BY <1>1, <1>5, <1>6 DEF SettingsInv
<1>12. Nameless'
  BY <1>1, <1>4, <1>5, <1>6 DEF SettingsInv, Nameless
<1>13. Unheard'
  BY <1>1, <1>6 DEF Unheard
<1> QED
  BY <1>1, <1>4, <1>10, <1>11, <1>12, <1>13 DEF SettingsInv

LEMMA SettingsReadKeeps ==
  ASSUME SettingsInv, NEW e \in errands, Settings!ServerReads(e) PROVE SettingsInv'
<1> DEFINE next == [e EXCEPT !.stage = "answered", !.got = settings, !.failed = notices]
<1>1. /\ e.stage = "served" /\ errands' = (errands \ {e}) \cup {next}
      /\ UNCHANGED <<desk, settings, notices, sheet, loaded, failedShown, run, dirty, outdated>>
  BY DEF Settings!ServerReads, Settings!server, Settings!ghosts
<1>2. ErrandStands(e) /\ e \in Errands
  BY DEF SettingsInv, ErrandStands
<1>3. e.what # "save"
  BY <1>1, <1>2 DEF ErrandStands
<1>4. /\ next \in Errands /\ next.what = e.what /\ next.sent = e.sent /\ next.seen = e.seen
      /\ next.stage = "answered" /\ next.got = settings /\ next.old = e.old
  BY <1>2 DEF Errands, SettingsInv
<1> HIDE DEF next
<1>5. desk = "delhivery" => (LoadingFirst => LoadingFirst')
  BY <1>1, <1>4 DEF LoadingFirst
<1>6. settings \in SettingValues
  BY DEF SettingsInv
<1>7. \A o \in errands \ {e} : ErrandStands(o)'
  <2> SUFFICES ASSUME NEW o \in errands \ {e} PROVE ErrandStands(o)'
    OBVIOUS
  <2>1. ErrandStands(o)
    BY DEF SettingsInv
  <2> QED
    BY <1>1, <1>5, <2>1 DEF ErrandStands
<1>8. ASSUME NEW d, d = next PROVE ErrandStands(d)'
  BY <1>1, <1>2, <1>3, <1>4, <1>5, <1>6, <1>8 DEF ErrandStands
<1>9. \A o \in errands' : ErrandStands(o)'
  BY <1>1, <1>7, <1>8
<1>10. \A c, d \in errands' : c.what = "save" /\ d.what = "save" => c = d
  BY <1>1, <1>3, <1>4 DEF SettingsInv
<1>11. Nameless'
  BY <1>1, <1>3, <1>4 DEF SettingsInv, Nameless
<1>12. Unheard => Unheard'
  BY <1>1, <1>4 DEF Unheard
<1> QED
  BY <1>1, <1>9, <1>10, <1>11, <1>12 DEF SettingsInv

\* The form after an answer that Delhivery's Save does not stand for: what the store has.
LEMMA AnswerTaken ==
  ASSUME SettingsInv, NEW e \in errands, Settings!Answered(e), ~Settings!KeepsForm(e)
  PROVE  sheet' = e.got
<1>1. ErrandStands(e) /\ e \in Errands /\ e.stage = "answered"
  BY DEF SettingsInv, ErrandStands, Settings!Answered
<1>2. sheet' = IF desk = "delhivery" /\ e.got.name = None THEN [sheet EXCEPT !.on = e.got.on]
               ELSE e.got
  BY DEF Settings!Answered, Settings!Taken
<1>3. CASE desk = "delhivery" /\ e.got.name = None
  <2>1. e.what = "load" /\ sheet = Settings!Empty
    BY <1>1, <1>3 DEF ErrandStands, LoadingFirst, Errands, Settings!KeepsForm
  <2>2. e.got \in SettingValues /\ [sheet EXCEPT !.on = e.got.on] \in SettingValues
    BY <1>1, <2>1 DEF ErrandStands, SettingValues, Settings!Values, Settings!Empty
  <2>3. [sheet EXCEPT !.on = e.got.on].on = e.got.on /\ [sheet EXCEPT !.on = e.got.on].name = None
    BY <2>1 DEF Settings!Empty
  <2>4. \A v, w \in SettingValues : v.on = w.on /\ v.name = w.name => v = w
    BY DEF SettingValues, Settings!Values
  <2> QED
    BY <1>2, <1>3, <2>2, <2>3, <2>4
<1> QED
  BY <1>2, <1>3

LEMMA SettingsAnsweredKeeps ==
  ASSUME SettingsInv, NEW e \in errands, Settings!Answered(e) PROVE SettingsInv'
<1> DEFINE aged(o) == [o EXCEPT !.old = @ \/ (Settings!Uncorrected(o) /\ ~Settings!Uncorrected(e))]
<1>1. /\ e.stage = "answered"
      /\ loaded' = IF Settings!Uncorrected(e) /\ loaded # "yes" THEN "saved" ELSE "yes"
      /\ dirty' = {f \in dirty : \/ (desk = "delhivery" /\ sheet'[f] = None)
                                 \/ (Settings!KeepsForm(e) /\ sheet[f] # e.seen[f])}
      /\ outdated' = (e.old \/ (outdated /\ Settings!Uncorrected(e)))
      /\ errands' = {aged(o) : o \in errands \ {e}}
      /\ UNCHANGED <<desk, settings, notices, run>>
  BY DEF Settings!Answered, Settings!server
<1>2. ErrandStands(e) /\ e \in Errands
  BY DEF SettingsInv, ErrandStands
<1>3. Settings!KeepsForm(e) <=> desk = "delhivery" /\ e.what = "save"
  BY DEF Settings!KeepsForm
<1>4. Settings!Uncorrected(e) <=> desk = "delhivery" /\ e.what = "save"
  BY DEF Settings!Uncorrected
<1>5. \A o \in errands : /\ aged(o) \in Errands /\ aged(o).what = o.what /\ aged(o).sent = o.sent
                         /\ aged(o).seen = o.seen /\ aged(o).stage = o.stage
                         /\ aged(o).got = o.got
                         /\ ~aged(o).old => ~o.old
                         /\ desk = "delhivery" /\ o.what = "save" /\ e.what # "save" => aged(o).old
  <2> SUFFICES ASSUME NEW o \in errands
               PROVE  /\ aged(o) \in Errands /\ aged(o).what = o.what /\ aged(o).sent = o.sent
                      /\ aged(o).seen = o.seen /\ aged(o).stage = o.stage
                      /\ aged(o).got = o.got
                      /\ ~aged(o).old => ~o.old
                      /\ desk = "delhivery" /\ o.what = "save" /\ e.what # "save" => aged(o).old
    OBVIOUS
  <2> o \in Errands
    BY DEF SettingsInv, ErrandStands
  <2> QED
    BY DEF Errands, Settings!Uncorrected
<1> HIDE DEF aged
<1>6. \A c, d \in errands' : c.what = "save" /\ d.what = "save" => c = d
  BY <1>1, <1>5 DEF SettingsInv
<1>7. dirty' \subseteq dirty
  BY <1>1
<1>8. e.got \in SettingValues /\ (~e.old => e.got = settings)
  BY <1>1, <1>2 DEF ErrandStands
<1>9. Unheard' => Unheard
  BY <1>1, <1>5 DEF Unheard
<1>10. CASE Settings!KeepsForm(e)
  <2>1. sheet' = sheet
    BY <1>10 DEF Settings!Answered, Settings!Taken
  <2>2. desk = "delhivery" /\ e.what = "save" /\ e.sent = e.seen
    BY <1>2, <1>3, <1>10 DEF ErrandStands
  <2>3. \A o \in errands : o.what # "load"
    BY <2>2 DEF SettingsInv, ErrandStands, LoadingFirst
  <2>4. \A o \in errands \ {e} : o.what # "save"
    BY <2>2 DEF SettingsInv
  <2>5. \A o \in errands' : ErrandStands(o)'
    <3>1. ASSUME NEW o \in errands \ {e}, NEW d, d = aged(o) PROVE ErrandStands(d)'
      <4>1. ErrandStands(o) /\ d \in Errands
        BY <1>5, <3>1 DEF SettingsInv
      <4>2. d.what \notin {"save", "load"}
        BY <1>5, <2>3, <2>4, <3>1
      <4> QED
        BY <1>1, <1>5, <3>1, <4>1, <4>2 DEF ErrandStands
    <3> QED
      BY <1>1, <3>1
  <2>6. loaded' = "yes" => loaded = "yes"
    BY <1>1, <1>4, <2>2
  <2>7. sheet.name = None /\ "name" \notin dirty' => "name" \notin dirty
    BY <1>1, <2>1, <2>2
  <2>8. Nameless'
    BY <1>1, <1>5, <2>1, <2>6, <2>7 DEF SettingsInv, Nameless
  <2>9. ASSUME loaded' = "yes", ~outdated', NEW f \in Settings!Fields \ dirty'
        PROVE  sheet[f] = settings[f]
    <3>1. ~e.old /\ e.got = settings /\ Writes(e.sent, e.got)
      BY <1>1, <1>2, <1>8, <2>2, <2>9 DEF ErrandStands
    <3>2. sheet[f] = e.seen[f]
      <4>1. f \notin dirty => sheet[f] = e.seen[f]
        BY <1>2, <2>2, <2>9, <3>1 DEF ErrandStands
      <4> QED
        BY <1>1, <1>10, <2>9, <4>1
    <3>3. CASE f = "on"
      BY <2>2, <3>1, <3>2, <3>3 DEF Writes
    <3>4. CASE f = "name" /\ sheet.name # None
      BY <2>2, <3>1, <3>2, <3>4 DEF Writes
    <3>5. CASE f = "name" /\ sheet.name = None
      BY <2>2, <2>6, <2>7, <2>9, <3>5 DEF SettingsInv, Nameless
    <3> QED
      BY <3>3, <3>4, <3>5 DEF Settings!Fields
  <2> QED
    BY <1>1, <1>6, <1>7, <2>1, <2>5, <2>8, <2>9 DEF SettingsInv
<1>11. CASE ~Settings!KeepsForm(e)
  <2>1. sheet' = e.got
    BY <1>11, AnswerTaken
  <2>2. outdated' = e.old \/ (~outdated' /\ ~e.old)
    BY <1>1, <1>2, <1>3, <1>4, <1>11 DEF Errands
  <2>3. desk = "delhivery" => e.what # "save" /\ e.what # "retry"
    BY <1>2, <1>3, <1>11 DEF ErrandStands
  <2>4. desk = "delhivery" => \A o \in errands' : o.what # "load"
    <3> SUFFICES ASSUME desk = "delhivery", NEW o \in errands \ {e}, o.what = "load" PROVE FALSE
      BY <1>1, <1>5
    <3>1. LoadingFirst
      BY DEF SettingsInv, ErrandStands
    <3> QED
      BY <3>1 DEF LoadingFirst
  <2>5. \A o \in errands' : ErrandStands(o)'
    <3>1. ASSUME NEW o \in errands \ {e}, NEW d, d = aged(o) PROVE ErrandStands(d)'
      <4>1. ErrandStands(o) /\ d \in Errands /\ d \in errands'
        BY <1>1, <1>5, <3>1 DEF SettingsInv
      <4>2. desk = "delhivery" /\ d.what = "save" => d.old
        BY <1>5, <2>3, <3>1
      <4> QED
        BY <1>1, <1>5, <2>4, <3>1, <4>1, <4>2 DEF ErrandStands
    <3> QED
      BY <1>1, <3>1
  <2>6. Nameless'
    <3> SUFFICES ASSUME desk = "delhivery", sheet'.name = None
                 PROVE  /\ settings.name = None
                        /\ \A o \in errands' : o.what = "save" /\ o.sent.name = None
      BY <1>1 DEF Nameless
    <3>1. e.what = "load"
      BY <1>1, <1>2, <2>1, <2>3 DEF ErrandStands, Errands
    <3>2. errands' = {}
      BY <1>1, <1>2, <3>1 DEF ErrandStands, LoadingFirst
    <3>3. ~e.old
      BY <1>2, <3>1 DEF ErrandStands
    <3> QED
      BY <1>8, <2>1, <3>2, <3>3
  <2>7. ~outdated' => sheet' = settings
    BY <1>1, <1>8, <2>1
  <2>8. sheet' \in SettingValues
    BY <1>8, <2>1
  <2> QED
    BY <1>1, <1>6, <1>7, <2>5, <2>6, <2>7, <2>8 DEF SettingsInv
<1> QED
  BY <1>10, <1>11

LEMMA SettingsFailKeeps ==
  ASSUME SettingsInv, NEW e \in errands, Settings!ErrandFails(e) PROVE SettingsInv'
<1>1. /\ errands' = errands \ {e}
      /\ loaded' = IF loaded = "loading" THEN "failed" ELSE loaded
      /\ outdated' = (outdated \/ (e.what # "load" /\ e.stage # "sent"))
      /\ UNCHANGED <<desk, settings, notices, sheet, run, dirty>>
  BY DEF Settings!ErrandFails, Settings!server
<1>2. \A o \in errands' : ErrandStands(o)'
  <2> SUFFICES ASSUME NEW o \in errands \ {e} PROVE ErrandStands(o)'
    BY <1>1
  <2>1. ErrandStands(o)
    BY DEF SettingsInv
  <2>2. desk = "delhivery" => o.what # "load"
    BY <2>1 DEF ErrandStands, LoadingFirst
  <2> QED
    BY <1>1, <2>1, <2>2 DEF ErrandStands
<1>3. Nameless'
  BY <1>1 DEF SettingsInv, Nameless
<1>4. ~outdated' /\ ~Unheard' => ~outdated /\ ~Unheard
  BY <1>1 DEF Unheard
<1>5. \A c, d \in errands' : c.what = "save" /\ d.what = "save" => c = d
  BY <1>1 DEF SettingsInv
<1>6. loaded' = "yes" => loaded = "yes"
  BY <1>1
<1> QED
  BY <1>1, <1>2, <1>3, <1>4, <1>5, <1>6 DEF SettingsInv

LEMMA NextSettingsInv == SettingsInv /\ [Settings!Next]_settingsVars => SettingsInv'
<1> SUFFICES ASSUME SettingsInv, [Settings!Next]_settingsVars PROVE SettingsInv'
  OBVIOUS
<1>1. CASE UNCHANGED settingsVars
  BY <1>1 DEF settingsVars, SettingsInv, ErrandStands, LoadingFirst, Nameless, Unheard
<1>2. CASE \/ \E on \in BOOLEAN : Settings!Type("on", on)
           \/ \E n \in SettingNames \cup {None} : Settings!Type("name", n)
  BY <1>2, SettingsTypeKeeps DEF Settings!Fields
<1> QED
  BY <1>1, <1>2, SettingsButtonKeeps, SettingsServeKeeps, SettingsReadKeeps, SettingsAnsweredKeeps,
     SettingsFailKeeps DEF Settings!Next

LEMMA SettingsHold == SettingsInv => Settings!SettingsShownAreKept
BY DEF SettingsInv, Unheard, Settings!SettingsShownAreKept

-----------------------------------------------------------------------------
(* The hours of a store: the windows the server keeps are those that count,   *)
(* in another order, and counting them again drops none                       *)

HoursWindow == [kind : {"on", "off"}, from : Nat, to : Nat]
Schedules == [enabled : BOOLEAN, defaultOpen : BOOLEAN, picture : BOOLEAN,
              windows : Seq(HoursWindow)]

HoursInv ==
  /\ clock \in Nat
  /\ hours \in Schedules /\ hoursCache \in Schedules /\ hoursCopy \in Schedules
  /\ hoursForm \in Schedules \cup {None} /\ pictureUploading \in Schedules \cup {None}
  /\ hoursSaving \in [sent : Schedules, here : BOOLEAN, served : BOOLEAN] \cup {None}
  /\ hoursSaving # None /\ hoursSaving.served => hours = Hours!Normalized(hoursSaving.sent)

\* The places of a list have the ranks 1, 2, and so on in the order of their windows.
LEMMA UptoOwn ==
  ASSUME NEW ws \in Seq(HoursWindow), NEW C \in SUBSET (1..Len(ws)), NEW i \in C
  PROVE  Hours!Upto(ws, C, i) \in SUBSET C /\ i \in Hours!Upto(ws, C, i)
<1>1. i \in Nat /\ ws[i] \in HoursWindow
  OBVIOUS
<1>2. ws[i].from \in Nat
  BY <1>1 DEF HoursWindow
<1> QED
  BY <1>1, <1>2 DEF Hours!Upto

LEMMA PlacesFinite ==
  ASSUME NEW ws \in Seq(HoursWindow), NEW C \in SUBSET (1..Len(ws))
  PROVE  IsFiniteSet(C) /\ Cardinality(C) \in Nat
<1>1. IsFiniteSet(1..Len(ws))
  BY FS_Interval
<1> QED
  BY <1>1, FS_Subset, FS_CardinalityType

LEMMA PlaceRanks ==
  ASSUME NEW ws \in Seq(HoursWindow), NEW C \in SUBSET (1..Len(ws)), NEW i \in C
  PROVE  Cardinality(Hours!Upto(ws, C, i)) \in 1..Cardinality(C)
<1> DEFINE U == Hours!Upto(ws, C, i)
<1>1. U \in SUBSET C /\ i \in U
  BY UptoOwn
<1> HIDE DEF U
<1>2. IsFiniteSet(C) /\ Cardinality(C) \in Nat
  BY PlacesFinite
<1>3. IsFiniteSet(U) /\ Cardinality(U) <= Cardinality(C) /\ Cardinality(U) \in Nat
  BY <1>1, <1>2, FS_Subset, FS_CardinalityType
<1>4. Cardinality(U) # 0
  BY <1>1, <1>3, FS_EmptySet
<1>5. Cardinality(U) \in 1..Cardinality(C)
  BY <1>2, <1>3, <1>4
<1> QED
  BY <1>5 DEF U

LEMMA PlacesDiffer ==
  ASSUME NEW ws \in Seq(HoursWindow), NEW C \in SUBSET (1..Len(ws)),
         NEW i \in C, NEW j \in C, i # j
  PROVE  Cardinality(Hours!Upto(ws, C, i)) # Cardinality(Hours!Upto(ws, C, j))
<1> DEFINE U(k) == Hours!Upto(ws, C, k)
<1>1. \A k \in C : k \in Nat /\ ws[k].from \in Nat
  <2>1. \A k \in C : k \in Nat /\ ws[k] \in HoursWindow
    OBVIOUS
  <2> QED
    BY <2>1 DEF HoursWindow
<1>2. \A k \in C : k \in U(k) /\ U(k) \in SUBSET C
  BY UptoOwn
<1>3. \A k, m \in C : k # m =>
        \/ k \notin U(m) /\ U(m) \in SUBSET U(k)
        \/ m \notin U(k) /\ U(k) \in SUBSET U(m)
  <2> SUFFICES ASSUME NEW k \in C, NEW m \in C, k # m
               PROVE  \/ k \notin U(m) /\ U(m) \in SUBSET U(k)
                      \/ m \notin U(k) /\ U(k) \in SUBSET U(m)
    OBVIOUS
  <2> DEFINE before(a, b) == ws[a].from < ws[b].from \/ (ws[a].from = ws[b].from /\ a <= b)
  <2>1. \A a, b : a \in U(b) <=> a \in C /\ before(a, b)
    BY DEF Hours!Upto
  <2> HIDE DEF U
  <2>2. \A a, b \in C : before(a, b) \/ before(b, a)
    BY <1>1
  <2>3. \A a, b \in C : a # b => ~(before(a, b) /\ before(b, a))
    BY <1>1
  <2>4. \A a, b, c \in C : before(a, b) /\ before(b, c) => before(a, c)
    BY <1>1
  <2> HIDE DEF before
  <2>5. CASE before(k, m)
    <3>1. m \notin U(k)
      BY <2>1, <2>3, <2>5
    <3>2. \A x \in U(k) : x \in U(m)
      BY <2>1, <2>4, <2>5
    <3> QED
      BY <3>1, <3>2
  <2>6. CASE before(m, k)
    <3>1. k \notin U(m)
      BY <2>1, <2>3, <2>6
    <3>2. \A x \in U(m) : x \in U(k)
      BY <2>1, <2>4, <2>6
    <3> QED
      BY <3>1, <3>2
  <2> QED
    BY <2>2, <2>5, <2>6
<1> HIDE DEF U
<1>4. \A k \in C : IsFiniteSet(U(k))
  BY <1>2, PlacesFinite, FS_Subset
<1>5. \A k, m \in C : k \notin U(m) /\ U(m) \in SUBSET U(k) => Cardinality(U(m)) # Cardinality(U(k))
  <2> SUFFICES ASSUME NEW k \in C, NEW m \in C, k \notin U(m), U(m) \in SUBSET U(k)
               PROVE  Cardinality(U(m)) # Cardinality(U(k))
    OBVIOUS
  <2>1. U(m) # U(k)
    BY <1>2
  <2> QED
    BY <1>4, <2>1, FS_Subset
<1>6. Cardinality(U(i)) # Cardinality(U(j))
  BY <1>3, <1>5
<1> QED
  BY <1>6 DEF U

LEMMA PlaceExists ==
  ASSUME NEW ws \in Seq(HoursWindow), NEW C \in SUBSET (1..Len(ws)),
         NEW r \in 1..Cardinality(C)
  PROVE  \E i \in C : Cardinality(Hours!Upto(ws, C, i)) = r
<1> DEFINE f == [i \in C |-> Cardinality(Hours!Upto(ws, C, i))]
           N == Cardinality(C)
<1>1. N \in Nat /\ IsFiniteSet(C)
  BY PlacesFinite
<1>2. \A i, j \in C : f[i] = f[j] => i = j
  BY PlacesDiffer
<1>3. f \in [C -> 1..N]
  BY PlaceRanks
<1>4. f \in Injection(C, 1..N)
  <2> HIDE DEF f
  <2> QED
    BY <1>2, <1>3 DEF Injection, IsInjective
<1>5. IsFiniteSet(1..N) /\ Cardinality(1..N) = N
  BY <1>1, FS_Interval
<1>6. f \in Surjection(C, 1..N)
  <2> HIDE DEF f
  <2> QED
    BY <1>1, <1>4, <1>5, FS_Surjection, FS_Injection, FS_Bijection
<1> QED
  <2>1. \A t \in 1..N : \E i \in C : f[i] = t
    <3> HIDE DEF f
    <3> QED
      BY <1>6 DEF Surjection
  <2> QED
    BY <2>1

\* Sorting the places taken of a list drops none of their windows and adds none.
LEMMA SortedIs ==
  ASSUME NEW ws \in Seq(HoursWindow), NEW C \in SUBSET (1..Len(ws))
  PROVE  /\ Hours!Sorted(ws, C) \in [1..Cardinality(C) -> {ws[i] : i \in C}]
         /\ \A i \in C : \E n \in 1..Cardinality(C) : Hours!Sorted(ws, C)[n] = ws[i]
<1> DEFINE at(n) == CHOOSE i \in C : Cardinality(Hours!Upto(ws, C, i)) = n
           N == Cardinality(C)
<1>1. Hours!Sorted(ws, C) = [n \in 1..N |-> ws[at(n)]]
  BY DEF Hours!Sorted, Hours!Cardinality, Cardinality
<1>2. \A n \in 1..N : at(n) \in C /\ Cardinality(Hours!Upto(ws, C, at(n))) = n
  <2> SUFFICES ASSUME NEW n \in 1..N
               PROVE  at(n) \in C /\ Cardinality(Hours!Upto(ws, C, at(n))) = n
    OBVIOUS
  <2>1. \E i \in C : Cardinality(Hours!Upto(ws, C, i)) = n
    BY PlaceExists
  <2> QED
    BY <2>1
<1> HIDE DEF at
<1>3. \A i \in C : \E n \in 1..N : at(n) = i
  <2> SUFFICES ASSUME NEW i \in C PROVE \E n \in 1..N : at(n) = i
    OBVIOUS
  <2> DEFINE n == Cardinality(Hours!Upto(ws, C, i))
  <2>1. n \in 1..N
    BY PlaceRanks
  <2>2. at(n) \in C /\ Cardinality(Hours!Upto(ws, C, at(n))) = n
    BY <1>2, <2>1
  <2>3. at(n) = i
    BY <2>2, PlacesDiffer
  <2> HIDE DEF n
  <2> QED
    BY <2>1, <2>3
<1> QED
  BY <1>1, <1>2, <1>3

LEMMA CountingIs ==
  ASSUME NEW ws \in Seq(HoursWindow)
  PROVE  /\ Hours!Counting(ws) \in SUBSET (1..Len(ws))
         /\ \A i \in Hours!Counting(ws) : Hours!Valid(ws[i])
         /\ \A i \in 1..Len(ws) :
              i \in Hours!Counting(ws) <=>
                /\ Hours!Valid(ws[i])
                /\ Cardinality({j \in 1..i : Hours!Valid(ws[j])}) <= MaxWindows
<1>1. DOMAIN ws = 1..Len(ws)
  OBVIOUS
<1> QED
  BY <1>1, SameCount DEF Hours!Counting

\* No more windows count than the limit allows.
LEMMA FewCount ==
  ASSUME NEW ws \in Seq(HoursWindow)
  PROVE  Cardinality(Hours!Counting(ws)) <= MaxWindows
<1> DEFINE C == Hours!Counting(ws)
           above(m) == m \in Nat /\ \A i \in C : i <= m
           right(m) == {j \in 1..m : Hours!Valid(ws[j])}
<1>1. MaxWindows \in Nat
  BY PagesAssumption
<1>2. CASE C = {}
  BY <1>1, <1>2, FS_EmptySet
<1>3. CASE C # {}
  <2>1. Len(ws) \in Nat /\ C \in SUBSET (1..Len(ws))
    BY CountingIs
  <2>2. \A i \in C : Cardinality(right(i)) <= MaxWindows /\ Hours!Valid(ws[i])
    BY CountingIs
  <2> HIDE DEF C
  <2>3. above(Len(ws))
    BY <2>1
  <2>4. PICK m \in Nat : above(m) /\ \A k \in Nat : above(k) => m <= k
    <3> DEFINE T == {m \in Nat : above(m)}
    <3>1. T # {} /\ T \subseteq Nat
      BY <2>1, <2>3
    <3>2. \E m \in T : \A k \in T : m <= k
      <4> HIDE DEF T
      <4> QED
        BY <3>1, LeastExists
    <3> QED
      BY <3>2
  <2>5. m \in C
    <3>1. ASSUME m \notin C PROVE FALSE
      <4>1. \A i \in C : i <= m - 1
        BY <2>1, <2>4, <3>1
      <4>2. m # 0
        <5>1. PICK i \in C : TRUE
          BY <1>3
        <5>2. i \in Nat \ {0} /\ i <= m
          BY <2>1, <2>4, <5>1
        <5> QED
          BY <5>2
      <4>3. above(m - 1)
        BY <2>4, <4>1, <4>2
      <4> QED
        BY <2>4, <4>2, <4>3
    <3> QED
      BY <3>1
  <2>6. C \in SUBSET right(m)
    <3>1. \A i \in C : Hours!Valid(ws[i])
      BY <2>2
    <3>2. \A i \in C : i \in 1..m
      BY <2>1, <2>4
    <3> QED
      BY <3>1, <3>2
  <2>7. IsFiniteSet(right(m)) /\ Cardinality(right(m)) \in Nat
    <3>1. right(m) \in SUBSET (1..Len(ws))
      BY <2>1, <2>5
    <3> HIDE DEF right
    <3> QED
      BY <3>1, PlacesFinite
  <2>8. Cardinality(C) <= Cardinality(right(m)) /\ Cardinality(C) \in Nat
    <3> HIDE DEF right
    <3> QED
      BY <2>1, <2>6, <2>7, FS_Subset, PlacesFinite
  <2>9. Cardinality(right(m)) <= MaxWindows
    BY <2>2, <2>5
  <2> HIDE DEF right
  <2>10. Cardinality(C) <= MaxWindows
    BY <1>1, <2>7, <2>8, <2>9
  <2> QED
    BY <2>10 DEF C
<1> QED
  BY <1>2, <1>3

\* What the server keeps of some hours is a schedule, and its windows are those that count.
LEMMA NormalizedIs ==
  ASSUME NEW h \in Schedules
  PROVE  /\ Hours!Normalized(h) \in Schedules
         /\ Hours!Normalized(h).enabled = h.enabled
         /\ Hours!Normalized(h).defaultOpen = h.defaultOpen
         /\ Hours!Normalized(h).windows = Hours!Sorted(h.windows, Hours!Counting(h.windows))
         /\ Len(Hours!Normalized(h).windows) = Cardinality(Hours!Counting(h.windows))
         /\ DOMAIN Hours!Normalized(h).windows = 1..Cardinality(Hours!Counting(h.windows))
<1> DEFINE ws == h.windows
           C == Hours!Counting(ws)
           s == Hours!Sorted(ws, C)
<1>1. ws \in Seq(HoursWindow)
  BY DEF Schedules
<1>2. C \in SUBSET (1..Len(ws)) /\ Cardinality(C) \in Nat
  BY <1>1, CountingIs, PlacesFinite
<1>3. s \in [1..Cardinality(C) -> {ws[i] : i \in C}]
  BY <1>1, <1>2, SortedIs
<1>4. {ws[i] : i \in C} \in SUBSET HoursWindow
  BY <1>1, <1>2
<1> HIDE DEF s
<1>5. s \in [1..Cardinality(C) -> HoursWindow]
  BY <1>3, <1>4
<1>6. s \in Seq(HoursWindow) /\ Len(s) = Cardinality(C) /\ DOMAIN s = 1..Cardinality(C)
  BY <1>2, <1>5
<1>7. Hours!Normalized(h) = [h EXCEPT !.windows = s]
  BY DEF Hours!Normalized, s
<1>8. [h EXCEPT !.windows = s] \in Schedules
  BY <1>6 DEF Schedules
<1>9. /\ [h EXCEPT !.windows = s].windows = s
      /\ [h EXCEPT !.windows = s].enabled = h.enabled
      /\ [h EXCEPT !.windows = s].defaultOpen = h.defaultOpen
  BY DEF Schedules
<1> QED
  BY <1>6, <1>7, <1>8, <1>9 DEF s

LEMMA KeptAreCounted ==
  ASSUME NEW h \in Schedules
  PROVE  Hours!KeptWindows(h) = Hours!Counted(h)
<1> DEFINE ws == h.windows
           C == Hours!Counting(ws)
           s == Hours!Sorted(ws, C)
<1>1. ws \in Seq(HoursWindow)
  BY DEF Schedules
<1>2. C \in SUBSET (1..Len(ws))
  BY <1>1, CountingIs
<1>3. /\ s \in [1..Cardinality(C) -> {ws[i] : i \in C}]
      /\ \A i \in C : \E n \in 1..Cardinality(C) : s[n] = ws[i]
  BY <1>1, <1>2, SortedIs
<1>4. Hours!KeptWindows(h) = {s[n] : n \in 1..Cardinality(C)}
  BY NormalizedIs DEF Hours!KeptWindows
<1>5. Hours!Counted(h) = {ws[i] : i \in C}
  BY DEF Hours!Counted
<1> HIDE DEF s, C, ws
<1> QED
  BY <1>3, <1>4, <1>5

\* Counting the windows the server keeps drops none of them.
LEMMA CountedTwice ==
  ASSUME NEW h \in Schedules
  PROVE  Hours!Counted(Hours!Normalized(h)) = Hours!Counted(h)
<1> DEFINE g == Hours!Normalized(h)
           ws == g.windows
           N == Len(ws)
<1>1. g \in Schedules /\ ws \in Seq(HoursWindow) /\ DOMAIN ws = 1..N
  BY NormalizedIs DEF Schedules
<1>2. N <= MaxWindows /\ N \in Nat /\ MaxWindows \in Nat
  <2>1. N = Cardinality(Hours!Counting(h.windows)) /\ h.windows \in Seq(HoursWindow)
    BY NormalizedIs DEF Schedules
  <2> QED
    BY <1>1, <2>1, FewCount, PagesAssumption
<1>3. \A i \in 1..N : Hours!Valid(ws[i])
  <2>1. /\ h.windows \in Seq(HoursWindow)
        /\ ws = Hours!Sorted(h.windows, Hours!Counting(h.windows))
        /\ N = Cardinality(Hours!Counting(h.windows))
    BY NormalizedIs DEF Schedules
  <2>2. \A i \in 1..N : ws[i] \in {h.windows[k] : k \in Hours!Counting(h.windows)}
    BY <2>1, SortedIs, CountingIs
  <2>3. \A k \in Hours!Counting(h.windows) : Hours!Valid(h.windows[k])
    BY <2>1, CountingIs
  <2> HIDE DEF ws, N
  <2> QED
    BY <2>2, <2>3
<1> HIDE DEF g
<1>4. \A i \in 1..N : Cardinality({j \in 1..i : Hours!Valid(ws[j])}) <= MaxWindows
  <2> SUFFICES ASSUME NEW i \in 1..N
               PROVE  Cardinality({j \in 1..i : Hours!Valid(ws[j])}) <= MaxWindows
    OBVIOUS
  <2> DEFINE R == {j \in 1..i : Hours!Valid(ws[j])}
  <2>1. R \in SUBSET (1..N)
    BY <1>2
  <2>2. IsFiniteSet(1..N) /\ Cardinality(1..N) = N
    <3>1. N \in Int /\ 1 \in Int
      BY <1>2
    <3>2. IsFiniteSet(1..N) /\ Cardinality(1..N) = IF 1 > N THEN 0 ELSE N - 1 + 1
      BY <3>1, FS_Interval
    <3> QED
      BY <1>2, <3>2
  <2> HIDE DEF R
  <2>3. Cardinality(R) <= N /\ Cardinality(R) \in Nat
    BY <2>1, <2>2, FS_Subset, FS_CardinalityType
  <2>4. Cardinality(R) <= MaxWindows
    BY <1>2, <2>3
  <2> QED
    BY <2>4 DEF R
<1>5. Hours!Counting(ws) = 1..N
  <2>1. /\ Hours!Counting(ws) \in SUBSET (1..N)
        /\ \A i \in 1..N : i \in Hours!Counting(ws) <=>
              /\ Hours!Valid(ws[i])
              /\ Cardinality({j \in 1..i : Hours!Valid(ws[j])}) <= MaxWindows
    BY <1>1, CountingIs
  <2>2. \A i \in 1..N : i \in Hours!Counting(ws)
    BY <1>3, <1>4, <2>1
  <2> QED
    BY <2>1, <2>2
<1>6. Hours!Counted(g) = {ws[i] : i \in 1..N}
  BY <1>5 DEF Hours!Counted
<1>7. Hours!KeptWindows(h) = {ws[i] : i \in 1..N}
  BY <1>1 DEF Hours!KeptWindows, g
<1> QED
  BY <1>6, <1>7, KeptAreCounted DEF g

LEMMA WindowAdded ==
  ASSUME NEW h \in Schedules, NEW w \in HoursWindow
  PROVE  [h EXCEPT !.windows = Append(@, w)] \in Schedules
<1>1. Append(h.windows, w) \in Seq(HoursWindow)
  BY DEF Schedules
<1> QED
  BY <1>1 DEF Schedules

LEMMA WindowRemoved ==
  ASSUME NEW h \in Schedules, NEW i \in DOMAIN h.windows
  PROVE  [h EXCEPT !.windows = SubSeq(@, 1, i - 1) \o SubSeq(@, i + 1, Len(@))] \in Schedules
<1> DEFINE ws == h.windows
<1>1. ws \in Seq(HoursWindow) /\ i \in 1..Len(ws) /\ Len(ws) \in Nat
  BY DEF Schedules
<1>2. SubSeq(ws, 1, i - 1) \in Seq(HoursWindow)
  BY <1>1
<1>3. SubSeq(ws, i + 1, Len(ws)) \in Seq(HoursWindow)
  BY <1>1
<1>4. SubSeq(ws, 1, i - 1) \o SubSeq(ws, i + 1, Len(ws)) \in Seq(HoursWindow)
  BY <1>2, <1>3
<1> QED
  BY <1>4 DEF Schedules

LEMMA WindowUpdated ==
  ASSUME NEW h \in Schedules, NEW i \in DOMAIN h.windows,
         NEW field, NEW value,
         \/ field = "kind" /\ value \in {"on", "off"}
         \/ field \in {"from", "to"} /\ value \in Nat
  PROVE  [h EXCEPT !.windows[i][field] = value] \in Schedules
<1> DEFINE ws == h.windows
           w == [ws[i] EXCEPT ![field] = value]
           typed == [ws EXCEPT ![i] = w]
<1>1. ws \in Seq(HoursWindow) /\ i \in 1..Len(ws)
  BY DEF Schedules
<1>2. ws[i] \in HoursWindow
  BY <1>1
<1>3. w \in HoursWindow
  BY <1>2 DEF HoursWindow
<1> HIDE DEF w
<1>4. typed \in Seq(HoursWindow)
  BY <1>1, <1>3
<1>5. [h EXCEPT !.windows[i][field] = value] = [h EXCEPT !.windows = typed]
  BY DEF w
<1> HIDE DEF typed
<1> QED
  BY <1>4, <1>5 DEF Schedules

LEMMA InitHoursInv == Hours!Init => HoursInv
<1> SUFFICES ASSUME Hours!Init PROVE HoursInv
  OBVIOUS
<1>1. <<>> \in Seq(HoursWindow)
  OBVIOUS
<1>2. Hours!Always \in Schedules
  BY <1>1 DEF Schedules, Hours!Always
<1>3. [kind |-> "off", from |-> 1, to |-> 1 + Span] \in HoursWindow
  BY PagesAssumption DEF HoursWindow
<1>4. <<[kind |-> "off", from |-> 1, to |-> 1 + Span]>> \in Seq(HoursWindow)
  BY <1>3
<1>5. Hours!Closing \in Schedules
  BY <1>4 DEF Schedules, Hours!Closing
<1> QED
  BY <1>2, <1>5 DEF Hours!Init, HoursInv

\* A change of the form leaves a schedule in it, and nothing else changes.
LEMMA HoursUpdateKeeps ==
  ASSUME HoursInv, NEW next \in Schedules, Hours!Update(next)
  PROVE  HoursInv'
BY DEF Hours!Update, Hours!shopper, HoursInv

LEMMA FormChangeKeeps ==
  ASSUME HoursInv,
         \/ Hours!Toggle \/ Hours!DefaultOpen \/ Hours!RemovePicture
         \/ \E kind \in {"on", "off"} : Hours!AddWindow(kind)
         \/ \E i \in 1..MaxRows :
              \/ Hours!RemoveWindow(i)
              \/ \E kind \in {"on", "off"} : Hours!UpdateWindow(i, "kind", kind)
              \/ \E t \in Hours!Times :
                   Hours!UpdateWindow(i, "from", t) \/ Hours!UpdateWindow(i, "to", t)
  PROVE  HoursInv'
<1>1. ASSUME hoursForm # None PROVE hoursForm \in Schedules
  BY <1>1 DEF HoursInv
<1>2. CASE Hours!Toggle
  <2>1. [hoursForm EXCEPT !.enabled = ~@] \in Schedules
    BY <1>1, <1>2 DEF Hours!Toggle, Schedules
  <2> QED
    BY <1>2, <2>1, HoursUpdateKeeps DEF Hours!Toggle
<1>3. CASE Hours!DefaultOpen
  <2>1. [hoursForm EXCEPT !.defaultOpen = ~@] \in Schedules
    BY <1>1, <1>3 DEF Hours!DefaultOpen, Hours!Shown, Schedules
  <2> QED
    BY <1>3, <2>1, HoursUpdateKeeps DEF Hours!DefaultOpen
<1>4. CASE Hours!RemovePicture
  <2>1. [hoursForm EXCEPT !.picture = FALSE] \in Schedules
    BY <1>1, <1>4 DEF Hours!RemovePicture, Hours!Shown, Schedules
  <2> QED
    BY <1>4, <2>1, HoursUpdateKeeps DEF Hours!RemovePicture
<1>5. ASSUME NEW k \in {"on", "off"}, Hours!AddWindow(k) PROVE HoursInv'
  <2>1. hoursForm \in Schedules
    BY <1>1, <1>5 DEF Hours!AddWindow, Hours!Shown
  <2>2. [kind |-> k, from |-> clock, to |-> clock + Span] \in HoursWindow
    BY PagesAssumption DEF HoursWindow, HoursInv
  <2> QED
    BY <1>5, <2>1, <2>2, WindowAdded, HoursUpdateKeeps DEF Hours!AddWindow
<1>6. ASSUME NEW i \in 1..MaxRows, Hours!RemoveWindow(i) PROVE HoursInv'
  <2>1. hoursForm \in Schedules /\ i \in DOMAIN hoursForm.windows
    BY <1>1, <1>6 DEF Hours!RemoveWindow, Hours!Shown
  <2> QED
    BY <1>6, <2>1, WindowRemoved, HoursUpdateKeeps DEF Hours!RemoveWindow
<1>7. ASSUME NEW i \in 1..MaxRows, NEW field, NEW value, Hours!UpdateWindow(i, field, value),
             \/ field = "kind" /\ value \in {"on", "off"}
             \/ field \in {"from", "to"} /\ value \in Nat
      PROVE  HoursInv'
  <2>1. hoursForm \in Schedules /\ i \in DOMAIN hoursForm.windows
    BY <1>1, <1>7 DEF Hours!UpdateWindow, Hours!Shown
  <2>2. [hoursForm EXCEPT !.windows[i][field] = value] \in Schedules
    BY <1>7, <2>1, WindowUpdated
  <2> QED
    BY <1>7, <2>2, HoursUpdateKeeps DEF Hours!UpdateWindow
<1>8. \A t \in Hours!Times : t \in Nat
  BY PagesAssumption DEF Hours!Times
<1> QED
  BY <1>2, <1>3, <1>4, <1>5, <1>6, <1>7, <1>8

LEMMA NextHoursInv == HoursInv /\ [Hours!Next]_hoursVars => HoursInv'
<1> SUFFICES ASSUME HoursInv, [Hours!Next]_hoursVars PROVE HoursInv'
  OBVIOUS
<1> USE DEF HoursInv, Hours!shopper, Hours!admin
<1>1. CASE UNCHANGED hoursVars
  BY <1>1 DEF hoursVars
<1>2. CASE Hours!OpenForm
  BY <1>2 DEF Hours!OpenForm
<1>3. CASE Hours!CloseForm
  BY <1>3 DEF Hours!CloseForm
<1>4. CASE Hours!ChoosePicture
  BY <1>4 DEF Hours!ChoosePicture, Hours!Shown
<1>5. CASE Hours!PictureArrives
  <2>1. [pictureUploading EXCEPT !.picture = TRUE] \in Schedules
    BY <1>5 DEF Hours!PictureArrives, Schedules
  <2> QED
    BY <1>5, <2>1 DEF Hours!PictureArrives
<1>6. CASE Hours!HandleSubmit
  BY <1>6 DEF Hours!HandleSubmit
<1>7. CASE Hours!ServerSaves
  <2>1. hoursSaving.sent \in Schedules
    BY <1>7 DEF Hours!ServerSaves
  <2>2. hours' \in Schedules /\ hours' = Hours!Normalized(hoursSaving.sent)
    BY <1>7, <2>1, NormalizedIs DEF Hours!ServerSaves
  <2>3. /\ hoursSaving' \in [sent : Schedules, here : BOOLEAN, served : BOOLEAN]
        /\ hoursSaving'.sent = hoursSaving.sent
    BY <1>7 DEF Hours!ServerSaves
  <2> QED
    BY <1>7, <2>2, <2>3 DEF Hours!ServerSaves
<1>8. CASE Hours!SaveAnswered
  BY <1>8 DEF Hours!SaveAnswered
<1>9. CASE Hours!SaveFails
  BY <1>9 DEF Hours!SaveFails
<1>10. CASE Hours!TenantArrives
  BY <1>10 DEF Hours!TenantArrives
<1>11. CASE Hours!StoreArrives
  BY <1>11 DEF Hours!StoreArrives
<1>12. CASE Hours!ContinueAsStaff
  BY <1>12 DEF Hours!ContinueAsStaff
<1>13. CASE Hours!TimePasses
  BY <1>13 DEF Hours!TimePasses
<1> USE DEF Hours!Next
<1> QED
  BY <1>1, <1>2, <1>3, <1>4, <1>5, <1>6, <1>7, <1>8, <1>9, <1>10, <1>11, <1>12, <1>13,
     FormChangeKeeps

\* Page and server decide alike.
LEMMA ServerDecidesAlike ==
  ASSUME NEW h \in Schedules, NEW t
  PROVE  /\ Hours!Decided(h, Hours!KeptWindows(h), t) <=> Hours!IsOpen(h, t)
         /\ Hours!IsOpen(Hours!Normalized(h), t) <=> Hours!IsOpen(h, t)
<1>1. Hours!KeptWindows(h) = Hours!Counted(h)
  BY KeptAreCounted
<1>2. /\ Hours!Counted(Hours!Normalized(h)) = Hours!Counted(h)
      /\ Hours!Normalized(h).enabled = h.enabled
      /\ Hours!Normalized(h).defaultOpen = h.defaultOpen
  BY CountedTwice, NormalizedIs
<1> QED
  BY <1>1, <1>2 DEF Hours!IsOpen, Hours!Decided

LEMMA HoursHold == HoursInv => Hours!HoursAsShown
<1> SUFFICES ASSUME HoursInv PROVE Hours!HoursAsShown
  OBVIOUS
<1>1. \A t : ~Hours!Refused(t) <=> Hours!IsOpen(hours, t)
  BY ServerDecidesAlike DEF Hours!Refused, HoursInv
<1>2. ASSUME hoursSaving # None, hoursSaving.served, NEW t
      PROVE  Hours!IsOpen(hoursSaving.sent, t) <=> ~Hours!Refused(t)
  <2>1. hoursSaving.sent \in Schedules /\ hours = Hours!Normalized(hoursSaving.sent)
    BY <1>2 DEF HoursInv
  <2> QED
    BY <1>1, <2>1, ServerDecidesAlike
<1>3. \A t : Hours!IsOpen(hoursSaving.sent, t) \in BOOLEAN /\ Hours!Refused(t) \in BOOLEAN
  BY DEF Hours!IsOpen, Hours!Refused, Hours!Decided
<1>4. ASSUME hoursCopy = hours
      PROVE  /\ Hours!OverlayShown => Hours!Refused(clock)
             /\ Hours!Refused(clock) => Hours!OverlayShown \/ passed
  BY <1>1, <1>4 DEF Hours!OverlayShown
<1> QED
  BY <1>2, <1>3, <1>4 DEF Hours!HoursAsShown

\* When the store opens or closes, a window that counts starts or ends at that moment,
\* and no change is announced for an earlier one.
LEMMA HoursAnnounced ==
  ASSUME HoursInv, [Hours!Next]_hoursVars
  PROVE  Hours!Announced
<1> DEFINE ws == Hours!Counted(hoursCopy)
<1> SUFFICES ASSUME hoursCopy' = hoursCopy,
                    Hours!IsOpen(hoursCopy, clock') # Hours!IsOpen(hoursCopy, clock)
             PROVE  /\ Hours!NextChangeAt(hoursCopy, clock) # None
                    /\ Hours!NextChangeAt(hoursCopy, clock) <= clock'
  BY DEF Hours!Announced
<1>1. clock' = clock + 1 /\ clock \in Nat
  <2>1. clock' = clock \/ clock' = clock + 1
    BY DEF hoursVars, Hours!Next, Hours!OpenForm, Hours!CloseForm, Hours!Toggle,
       Hours!DefaultOpen, Hours!RemovePicture, Hours!AddWindow, Hours!RemoveWindow,
       Hours!UpdateWindow, Hours!Update, Hours!ChoosePicture, Hours!PictureArrives,
       Hours!HandleSubmit, Hours!ServerSaves, Hours!SaveAnswered, Hours!SaveFails,
       Hours!TenantArrives, Hours!StoreArrives, Hours!ContinueAsStaff, Hours!TimePasses
  <2> QED
    BY <2>1 DEF HoursInv
<1>2. \A w \in ws : w.from \in Nat /\ w.to \in Nat
  <2>1. hoursCopy.windows \in Seq(HoursWindow)
    BY DEF HoursInv, Schedules
  <2>2. Hours!Counting(hoursCopy.windows) \in SUBSET (1..Len(hoursCopy.windows))
    BY <2>1, CountingIs
  <2>3. \A w \in ws : w \in HoursWindow
    BY <2>1, <2>2 DEF Hours!Counted
  <2> QED
    BY <2>3 DEF HoursWindow
<1> HIDE DEF ws
<1>3. hoursCopy.enabled /\ Hours!Covering(ws, clock') # Hours!Covering(ws, clock)
  BY DEF Hours!IsOpen, Hours!Decided, ws
<1>4. PICK w \in ws : ~(w.from <= clock /\ clock < w.to <=> w.from <= clock' /\ clock' < w.to)
  BY <1>3 DEF Hours!Covering
<1>5. clock' = w.from \/ clock' = w.to
  BY <1>1, <1>2, <1>4
<1> DEFINE later == {b \in Hours!Boundaries(ws) : b > clock}
<1>6. clock' \in later
  BY <1>1, <1>5 DEF Hours!Boundaries
<1>7. \A b \in later : b \in Nat /\ clock' <= b
  BY <1>1, <1>2 DEF Hours!Boundaries
<1>8. Hours!NextChangeAt(hoursCopy, clock) = CHOOSE b \in later : \A c \in later : b <= c
  BY <1>3, <1>6 DEF Hours!NextChangeAt, ws
<1> HIDE DEF later
<1>9. Hours!NextChangeAt(hoursCopy, clock) \in later
      /\ \A c \in later : Hours!NextChangeAt(hoursCopy, clock) <= c
  BY <1>6, <1>7, <1>8
<1> QED
  BY <1>6, <1>7, <1>9, PagesAssumption

-----------------------------------------------------------------------------
(* The layout studio: a draft that was not touched is what the store in Redux *)
(* resolves to, which is the server's unless it is known to be behind         *)

StudioIsRecord == {"open", "draft", "base", "touched"} \subseteq DOMAIN studio

DraftIsLayout ==
  studio.open =>
    /\ mixed \/ studio.base = Theme!Resolved(tenant, None)
    /\ studio.touched \/ (studio.draft = studio.base /\ live \in {None, studio.draft})

ThemeInv == StudioIsRecord /\ DraftIsLayout /\ (layoutBehind \/ tenant = Theme!Loaded(storeLayout))

LEMMA InitThemeInv == Theme!Init => ThemeInv
BY DEF Theme!Init, Theme!Closed, ThemeInv, StudioIsRecord, DraftIsLayout

LEMMA RebasedKeeps ==
  ASSUME Theme!Rebased(tenant'), live' \in {None, studio'.draft}
  PROVE  StudioIsRecord' /\ DraftIsLayout'
<1>1. /\ studio' = [open |-> TRUE, draft |-> Theme!Resolved(tenant', themePreview),
                    base |-> Theme!Resolved(tenant', themePreview), touched |-> FALSE]
      /\ mixed' \/ themePreview = None
  BY DEF Theme!Rebased
<1>2. mixed' \/ studio'.base = Theme!Resolved(tenant', None)
  BY <1>1
<1> QED
  BY <1>1, <1>2 DEF StudioIsRecord, DraftIsLayout, Theme!Resolved, Theme!FooterShown

LEMMA OpenAndCloseStudio ==
  ASSUME ThemeInv, Theme!OpenStudio \/ Theme!BackToStore PROVE ThemeInv'
<1>1. CASE Theme!OpenStudio
  <2>1. Theme!Rebased(tenant') /\ live' = studio'.draft
        /\ UNCHANGED <<storeLayout, tenant, layoutBehind>>
    BY <1>1 DEF Theme!OpenStudio
  <2> QED
    BY <2>1, RebasedKeeps DEF ThemeInv
<1>2. CASE Theme!BackToStore
  BY <1>2 DEF Theme!BackToStore, Theme!Closed, ThemeInv, StudioIsRecord, DraftIsLayout
<1> QED
  BY <1>1, <1>2

LEMMA EditKeepsTheme ==
  ASSUME ThemeInv, NEW d, Theme!Edit(d) PROVE ThemeInv'
<1>1. /\ studio' = [studio EXCEPT !.draft = d, !.touched = TRUE]
      /\ UNCHANGED <<storeLayout, tenant, mixed, layoutBehind>>
  BY DEF Theme!Edit
<1>2. /\ studio'.open = studio.open /\ studio'.base = studio.base /\ studio'.touched
      /\ StudioIsRecord'
  BY <1>1 DEF ThemeInv, StudioIsRecord
<1>3. Theme!Resolved(tenant, None)' = Theme!Resolved(tenant, None)
  BY <1>1
<1> QED
  BY <1>1, <1>2, <1>3 DEF ThemeInv, DraftIsLayout

LEMMA EditsKeepTheme ==
  ASSUME ThemeInv,
         \/ Theme!ResetToDefaultLayout
         \/ \E t \in Themes : Theme!ApplyPreset(t) \/ Theme!UpdateColor(Theme!Own(t))
         \/ \E f \in Footers \cup {None} : Theme!UpdateFooterContent(f)
  PROVE  ThemeInv'
BY EditKeepsTheme DEF Theme!ResetToDefaultLayout, Theme!ApplyPreset, Theme!UpdateColor,
     Theme!UpdateFooterContent

LEMMA PreviewKeeps ==
  ASSUME ThemeInv, Theme!ApplyBrowserPreview \/ Theme!ResetDraft PROVE ThemeInv'
<1>1. UNCHANGED <<storeLayout, tenant, mixed, layoutBehind>>
  BY DEF Theme!ApplyBrowserPreview, Theme!ResetDraft
<1>2. Theme!Resolved(tenant, None)' = Theme!Resolved(tenant, None)
  BY <1>1
<1>3. CASE Theme!ApplyBrowserPreview
  BY <1>1, <1>2, <1>3 DEF Theme!ApplyBrowserPreview, ThemeInv, StudioIsRecord, DraftIsLayout
<1>4. CASE Theme!ResetDraft
  <2>1. /\ studio' = [studio EXCEPT !.draft = studio.base, !.touched = FALSE]
        /\ live' \in {studio.base, None}
    BY <1>4 DEF Theme!ResetDraft
  <2>2. /\ studio'.open = studio.open /\ studio'.base = studio.base
        /\ studio'.draft = studio.base /\ StudioIsRecord'
    BY <2>1 DEF ThemeInv, StudioIsRecord
  <2> QED
    BY <1>1, <1>2, <2>1, <2>2 DEF ThemeInv, DraftIsLayout
<1> QED
  BY <1>3, <1>4

LEMMA PublishingKeeps ==
  ASSUME ThemeInv,
         \/ Theme!SaveForStore \/ Theme!ServerSavesTheme \/ Theme!GetStorefrontLayout
         \/ Theme!SaveFails \/ (\E f \in Footers : Theme!SavedElsewhere(f))
         \/ UNCHANGED themeVars
  PROVE  ThemeInv'
<1>1. /\ UNCHANGED <<tenant, studio, live, mixed>>
      /\ layoutBehind' \/ UNCHANGED <<storeLayout, layoutBehind>>
  BY DEF Theme!SaveForStore, Theme!ServerSavesTheme, Theme!GetStorefrontLayout, Theme!SaveFails,
         Theme!SavedElsewhere, themeVars
<1>2. Theme!Resolved(tenant, None)' = Theme!Resolved(tenant, None)
  BY <1>1
<1>3. StudioIsRecord' /\ DraftIsLayout'
  BY <1>1, <1>2 DEF ThemeInv, StudioIsRecord, DraftIsLayout
<1>4. layoutBehind' \/ tenant' = Theme!Loaded(storeLayout')
  BY <1>1 DEF ThemeInv
<1> QED
  BY <1>3, <1>4 DEF ThemeInv

\* The store in Redux is replaced, and an open studio takes it.
LEMMA ReplacedKeeps ==
  ASSUME ThemeInv, layoutBehind' \/ tenant' = Theme!Loaded(storeLayout'),
         IF studio.open THEN Theme!Rebased(tenant') /\ live' \in {None, studio'.draft}
         ELSE UNCHANGED <<studio, live, mixed>>
  PROVE  ThemeInv'
<1>1. CASE studio.open
  BY <1>1, RebasedKeeps DEF ThemeInv
<1>2. CASE ~studio.open
  BY <1>2 DEF ThemeInv, StudioIsRecord, DraftIsLayout
<1> QED
  BY <1>1, <1>2

LEMMA TenantReplaced ==
  ASSUME ThemeInv, Theme!SaveSucceeds \/ Theme!TenantArrives \/ Theme!ComeBack PROVE ThemeInv'
<1>1. CASE Theme!SaveSucceeds
  <2>1. /\ tenant' = [api |-> Theme!Built(publishing.got), footer |-> publishing.sent.footer]
        /\ layoutBehind' \/ (publishing.got = storeLayout /\ publishing.sent = storeLayout)
        /\ storeLayout' = storeLayout
        /\ IF studio.open THEN Theme!Rebased(tenant') /\ live' \in {None, studio'.draft}
           ELSE UNCHANGED <<studio, live, mixed>>
    BY <1>1 DEF Theme!SaveSucceeds, Theme!TenantSaved
  <2>2. layoutBehind' \/ tenant' = Theme!Loaded(storeLayout')
    BY <2>1 DEF Theme!Loaded
  <2> QED
    BY <2>1, <2>2, ReplacedKeeps
<1>2. CASE Theme!TenantArrives \/ Theme!ComeBack
  <2>1. /\ tenant' = Theme!Loaded(query') /\ storeLayout' = storeLayout
        /\ layoutBehind' \/ query' = storeLayout
        /\ IF studio.open THEN Theme!Rebased(tenant') /\ live' = studio'.draft
           ELSE UNCHANGED <<studio, live, mixed>>
    BY <1>2 DEF Theme!TenantArrives, Theme!ComeBack, Theme!Replace
  <2>2. layoutBehind' \/ tenant' = Theme!Loaded(storeLayout')
    BY <2>1
  <2> QED
    BY <2>1, <2>2, ReplacedKeeps
<1> QED
  BY <1>1, <1>2

LEMMA NextThemeInv == ThemeInv /\ [Theme!Next]_themeVars => ThemeInv'
BY OpenAndCloseStudio, EditsKeepTheme, PreviewKeeps, PublishingKeeps, TenantReplaced
   DEF Theme!Next

\* A layout that was resolved is resolved to itself.
LEMMA ResolvedStays ==
  ASSUME NEW t PROVE Theme!Resolved(t, Theme!Resolved(t, None)) = Theme!Resolved(t, None)
<1> DEFINE d == Theme!Resolved(t, None)
<1>1. /\ d = [theme |-> t.api.theme, colour |-> Theme!ColourShown(t.api.theme, t.api.colour),
              footer |-> IF t.footer # None THEN t.footer ELSE t.api.footer]
  BY DEF Theme!Resolved, Theme!FooterShown
<1>2. CASE d # None
  <2>1. Theme!ColourShown(d.theme, d.colour) = d.colour
    BY <1>1 DEF Theme!ColourShown, Theme!Own
  <2>2. Theme!FooterShown(t, d) = d.footer
    BY <1>1, <1>2 DEF Theme!FooterShown
  <2>3. Theme!Resolved(t, d) = [theme |-> d.theme, colour |-> d.colour, footer |-> d.footer]
    BY <1>2, <2>1, <2>2 DEF Theme!Resolved
  <2>4. d = [theme |-> d.theme, colour |-> d.colour, footer |-> d.footer]
    BY <1>1
  <2> QED
    BY <2>3, <2>4
<1>3. CASE d = None
  BY <1>3
<1> QED
  BY <1>2, <1>3

LEMMA ThemeHolds == ThemeInv => Theme!StudioShowsStore
<1> SUFFICES ASSUME ThemeInv, studio.open, ~studio.touched, ~mixed, ~layoutBehind
             PROVE  /\ studio.draft = Theme!Visitors
                    /\ themePreview = None => Theme!Page = Theme!Visitors
  BY DEF Theme!StudioShowsStore
<1>1. studio.draft = Theme!Resolved(tenant, None) /\ live \in {None, studio.draft}
  BY DEF ThemeInv, DraftIsLayout
<1>2. studio.draft = Theme!Visitors
  BY <1>1 DEF ThemeInv, Theme!Visitors
<1>3. ASSUME themePreview = None PROVE Theme!Page = Theme!Visitors
  <2>1. Theme!Page \in {Theme!Resolved(tenant, None), Theme!Resolved(tenant, studio.draft)}
    BY <1>1, <1>3 DEF Theme!Page
  <2> QED
    BY <1>1, <1>2, <2>1, ResolvedStays
<1> QED
  BY <1>2, <1>3

-----------------------------------------------------------------------------
(* The services together: one of them runs, or a page does                    *)

ServicesInv ==
  /\ part = "signup" => SignupInv
  /\ part = "otp" => OtpInv
  /\ part = "migrations" => RunnerInv
  /\ part = "billing" => BillingInv
  /\ part = "invoices" => TaxInv

LEMMA InitServicesInv == Init => ServicesInv
BY InitSignupInv, InitOtpInv, InitRunnerInv, InitBillingInv, InitTaxInv
   DEF Init, SignupStart, OtpStart, RunnerStart, BillingStart, TaxesStart, ServicesInv

LEMMA NextServicesInv == ServicesInv /\ [Next]_allVars => ServicesInv'
<1> SUFFICES ASSUME ServicesInv, [Next]_allVars PROVE ServicesInv'
  OBVIOUS
<1>1. CASE SignupStep
  BY <1>1, NextSignupInv DEF SignupStep, ServicesInv
<1>2. CASE OtpStep
  BY <1>2, NextOtpInv DEF OtpStep, ServicesInv
<1>3. CASE RunnerStep
  BY <1>3, NextRunnerInv DEF RunnerStep, ServicesInv
<1>4. CASE BillingStep
  BY <1>4, NextBillingInv DEF BillingStep, ServicesInv
<1>5. CASE TaxesStep
  BY <1>5, NextTaxInv DEF TaxesStep, ServicesInv
<1>6. CASE UNCHANGED <<part, serviceVars>>
  BY <1>6, NextSignupInv, NextOtpInv, NextRunnerInv, NextBillingInv, NextTaxInv
     DEF serviceVars, ServicesInv
<1>7. \/ SignupStep \/ OtpStep \/ RunnerStep \/ BillingStep \/ TaxesStep
      \/ UNCHANGED <<part, serviceVars>>
  BY DEF Next, allVars, OrderStep, ListStep, PromotionsStep, PaymentsStep, ReceiveStep,
     TableStep, NewStep, ImportStep, AdjustStep, TeamStep, SettingsStep, HoursStep, ThemeStep
<1> QED
  BY <1>1, <1>2, <1>3, <1>4, <1>5, <1>6, <1>7

LEMMA ServicesHold == ServicesInv => ServicesKeepTheirWord
BY SignupHolds, OtpHolds, RunnerHolds, BillingHolds, TaxesHold
   DEF ServicesInv, ServicesKeepTheirWord

\* What must happen once, or only to whom it is due, does, in each of the five services,
\* however the requests, the webhooks and the crashes of each interleave.
THEOREM ServicesKeep == Spec => []ServicesKeepTheirWord
<1>1. ServicesInv => ServicesKeepTheirWord
  BY ServicesHold
<1> QED
  BY InitServicesInv, NextServicesInv, <1>1, PTL DEF Spec

-----------------------------------------------------------------------------
(* The pages together: one of them runs, or a service does                    *)

PagesInv ==
  /\ part = "order" => OrderInv
  /\ part = "orders" => ListInv
  /\ part = "promotions" => PromotionInv
  /\ part = "payments" => PayInv
  /\ part = "receive" => ReceiveInv
  /\ part = "products" => TableInv
  /\ part = "new" => NewInv
  /\ part = "import" => ImportInv
  /\ part = "stock" => AdjustInv
  /\ part = "managers" => TeamInv
  /\ part = "settings" => SettingsInv
  /\ part = "hours" => HoursInv
  /\ part = "theme" => ThemeInv

LEMMA InitPagesInv == Init => PagesInv
<1> SUFFICES ASSUME Init PROVE PagesInv
  OBVIOUS
<1>1. part = "order" => OrderInv
  BY InitOrderInv DEF Init, OrderStart
<1>2. part = "orders" => ListInv
  BY InitListInv DEF Init, ListStart
<1>3. part = "promotions" => PromotionInv
  BY InitPromotionInv DEF Init, PromotionsStart
<1>4. part = "payments" => PayInv
  BY InitPayInv DEF Init, PaymentsStart
<1>5. part = "receive" => ReceiveInv
  BY InitReceiveInv DEF Init, ReceiveStart
<1>6. part = "products" => TableInv
  BY InitTableInv DEF Init, TableStart
<1>7. part = "new" => NewInv
  BY InitNewInv DEF Init, NewStart
<1>8. part = "import" => ImportInv
  BY InitImportInv DEF Init, ImportStart
<1>9. part = "stock" => AdjustInv
  BY InitAdjustInv DEF Init, AdjustStart
<1>10. part = "managers" => TeamInv
  BY InitTeamInv DEF Init, TeamStart
<1>11. part = "settings" => SettingsInv
  BY InitSettingsInv DEF Init, SettingsStart
<1>12. part = "hours" => HoursInv
  BY InitHoursInv DEF Init, HoursStart
<1>13. part = "theme" => ThemeInv
  BY InitThemeInv DEF Init, ThemeStart
<1> QED
  BY <1>1, <1>2, <1>3, <1>4, <1>5, <1>6, <1>7, <1>8, <1>9, <1>10, <1>11, <1>12, <1>13
     DEF PagesInv

LEMMA NextPagesInv == PagesInv /\ [Next]_allVars => PagesInv'
<1> SUFFICES ASSUME PagesInv, [Next]_allVars PROVE PagesInv'
  OBVIOUS
<1>1. CASE OrderStep
  BY <1>1, NextOrderInv DEF OrderStep, PagesInv
<1>2. CASE ListStep
  BY <1>2, NextListInv DEF ListStep, PagesInv
<1>3. CASE PromotionsStep
  BY <1>3, NextPromotionInv DEF PromotionsStep, PagesInv
<1>4. CASE PaymentsStep
  BY <1>4, NextPayInv DEF PaymentsStep, PagesInv
<1>5. CASE ReceiveStep
  BY <1>5, NextReceiveInv DEF ReceiveStep, PagesInv
<1>6. CASE TableStep
  BY <1>6, NextTableInv DEF TableStep, PagesInv
<1>7. CASE NewStep
  BY <1>7, NextNewInv DEF NewStep, PagesInv
<1>8. CASE ImportStep
  BY <1>8, NextImportInv DEF ImportStep, PagesInv
<1>9. CASE AdjustStep
  BY <1>9, NextAdjustInv DEF AdjustStep, PagesInv
<1>10. CASE TeamStep
  BY <1>10, NextTeamInv DEF TeamStep, PagesInv
<1>11. CASE SettingsStep
  BY <1>11, NextSettingsInv DEF SettingsStep, PagesInv
<1>12. CASE HoursStep
  BY <1>12, NextHoursInv DEF HoursStep, PagesInv
<1>13. CASE ThemeStep
  BY <1>13, NextThemeInv DEF ThemeStep, PagesInv
<1>14. CASE UNCHANGED <<part, salesVars, goodsVars, storeVars>>
  BY <1>14, NextOrderInv, NextListInv, NextPromotionInv, NextPayInv, NextReceiveInv,
     NextTableInv, NextNewInv, NextImportInv, NextAdjustInv, NextTeamInv,
     NextSettingsInv, NextHoursInv, NextThemeInv
     DEF salesVars, goodsVars, storeVars, PagesInv
<1>15. \/ OrderStep \/ ListStep \/ PromotionsStep \/ PaymentsStep \/ ReceiveStep \/ TableStep
       \/ NewStep \/ ImportStep \/ AdjustStep \/ TeamStep \/ SettingsStep \/ HoursStep
       \/ ThemeStep \/ UNCHANGED <<part, salesVars, goodsVars, storeVars>>
  BY DEF Next, allVars, SignupStep, OtpStep, RunnerStep, BillingStep, TaxesStep
<1> QED
  BY <1>1, <1>2, <1>3, <1>4, <1>5, <1>6, <1>7, <1>8, <1>9, <1>10, <1>11, <1>12, <1>13,
     <1>14, <1>15

\* What a page of the staff shows is what the server keeps, once nothing is on its way
\* and no answer was lost: for each page and any orders, entries, coupons, stock, staff,
\* settings, hours and layouts.
THEOREM DesksAreTrue == Spec => []DesksShowWhatIsKept
<1>1. PagesInv => DesksShowWhatIsKept
  BY OrderHolds, ListHolds, PromotionsHold, PaymentsHold, AdjustHolds, TeamHolds,
     SettingsHold, HoursHold, ThemeHolds
     DEF PagesInv, DesksShowWhatIsKept
<1> QED
  BY InitPagesInv, NextPagesInv, <1>1, PTL DEF Spec

\* What a form writes is what was agreed on its page: the units received, the product
\* saved or created, the sheet imported.
THEOREM FormsAreWritten == Spec => []WrittenAsAgreed
<1>1. PagesInv => WrittenAsAgreed
  BY ReceiveHolds, TableHolds, NewHolds, ImportHolds DEF PagesInv, WrittenAsAgreed
<1> QED
  BY InitPagesInv, NextPagesInv, <1>1, PTL DEF Spec

\* No step opens or closes a store on a page that had not announced the moment.
THEOREM ChangesAnnounced == Spec => ChangeIsAnnounced
<1>1. PagesInv /\ [Next]_allVars => [part = "hours" => Hours!Announced]_allVars
  <2> SUFFICES ASSUME PagesInv, [Next]_allVars, part = "hours" PROVE Hours!Announced
    OBVIOUS
  <2>1. [Hours!Next]_hoursVars
    BY DEF Next, allVars, storeVars, OrderStep, ListStep, PromotionsStep, PaymentsStep,
       ReceiveStep, TableStep, NewStep, ImportStep, AdjustStep, TeamStep, SettingsStep,
       HoursStep, ThemeStep, SignupStep, OtpStep, RunnerStep, BillingStep, TaxesStep
  <2> QED
    BY <2>1, HoursAnnounced DEF PagesInv
<1> QED
  BY InitPagesInv, NextPagesInv, <1>1, PTL DEF Spec, ChangeIsAnnounced
=============================================================================
