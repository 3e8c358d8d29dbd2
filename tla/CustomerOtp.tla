---------------------------- MODULE CustomerOtp ----------------------------
(***************************************************************************)
(* Signing in to a store with one phone number and a code sent to it over  *)
(* WhatsApp.  Requests to send a code and to check one run side by side;   *)
(* each step is one call to MongoDB (or WhatsApp) with what the handler    *)
(* decides on its answer.                                                  *)
(*                                                                         *)
(* Sources: app/services/customer_otp_service.py, app/routes/auth.py       *)
(* (otp/send, otp/verify), app/database/indexes.py.                        *)
(***************************************************************************)
EXTENDS Naturals, Sequences, FiniteSets, FiniteSetsExt

CONSTANTS
  Requests,       \* what handles requests at the same time
  MaxAttempts,    \* MAX_ATTEMPTS
  MaxSendsPerHour,
  MaxCodes,       \* bound: codes made
  None

VARIABLES
  codes,     \* customer_otps of the number, in the order they were made
  job,       \* what each request does next, and what it has read
  customers, \* the customer accounts with this number: 0 an older one, else the
             \* code whose check created it
  staffs,    \* whether a staff account of the store has the number
  disabled,  \* whether the store disabled the older account
  opened,    \* history: how often each code was spent
  guesses,   \* history: wrong codes each code was compared with
  landed     \* history: the accounts people were signed in to

otpVars == <<codes, job, customers, staffs, disabled, opened, guesses, landed>>

\* How old a code is: a new one may not be asked for yet, it works, it has expired, it
\* is more than an hour old.
Fresh == 0
Expired == 2
Old == 3
Code == [age |-> Fresh, attempts |-> 0, consumed |-> FALSE, kept |-> TRUE]
Idle == [at |-> "idle", code |-> None]

Init ==
  /\ codes = <<>> /\ opened = <<>> /\ guesses = <<>>
  /\ job = [r \in Requests |-> Idle]
  /\ customers \in {{}, {0}} /\ staffs \in {FALSE, customers = {}}
  /\ disabled \in {FALSE, customers # {}}
  /\ landed = {}

Kept == {i \in 1..Len(codes) : codes[i].kept}
Newest(S) == IF S = {} THEN None ELSE Max(S)
Goes(r, at, code) == job' = [job EXCEPT ![r] = [at |-> at, code |-> code]]
Refuse(r) == job' = [job EXCEPT ![r] = Idle]
Accounts == <<customers, staffs, disabled, landed>>

\* send_customer_otp counts the codes of the hour, reads the last one, makes a new one
\* and sends it; a code that could not be sent is deleted.
CountSends(r) ==
  /\ job[r].at = "idle"
  /\ Cardinality({i \in Kept : codes[i].age < Old}) < MaxSendsPerHour
  /\ Goes(r, "read last", None)
  /\ UNCHANGED <<codes, opened, guesses, Accounts>>
ReadLast(r) ==
  /\ job[r].at = "read last"
  /\ IF \E i \in Kept : i = Newest(Kept) /\ codes[i].age = Fresh THEN Refuse(r)
     ELSE Goes(r, "insert", None)
  /\ UNCHANGED <<codes, opened, guesses, Accounts>>
InsertCode(r) ==
  /\ job[r].at = "insert" /\ Len(codes) < MaxCodes
  /\ codes' = Append(codes, Code)
  /\ opened' = Append(opened, 0) /\ guesses' = Append(guesses, 0)
  /\ Goes(r, "whatsapp", Len(codes'))
  /\ UNCHANGED Accounts
Sent(r) ==
  /\ job[r].at = "whatsapp"
  /\ codes' \in {codes, [codes EXCEPT ![job[r].code].kept = FALSE]}
  /\ Refuse(r)
  /\ UNCHANGED <<opened, guesses, Accounts>>

\* consume_customer_otp compares the code typed with the newest one not spent: "typed" is
\* the code it is, None a wrong one.
ReadCode(r) ==
  /\ job[r].at = "idle"
  /\ \E i \in Kept, typed \in (1..Len(codes)) \cup {None} :
       /\ i = Newest({k \in Kept : ~codes[k].consumed})
       /\ codes[i].age < Expired /\ codes[i].attempts < MaxAttempts
       /\ Goes(r, IF typed = i THEN "consume" ELSE "count", i)
       /\ guesses' = IF typed = i THEN guesses ELSE [guesses EXCEPT ![i] = @ + 1]
  /\ UNCHANGED <<codes, opened, Accounts>>
CountAttempt(r) ==
  /\ job[r].at = "count"
  /\ codes' = [codes EXCEPT ![job[r].code].attempts = @ + 1]
  /\ Refuse(r)
  /\ UNCHANGED <<opened, guesses, Accounts>>

\* Mutant: the update of the code does not ask that it be unspent.
ConsumeAnyhow(r) ==
  /\ job[r].at = "consume"
  /\ codes' = [codes EXCEPT ![job[r].code].consumed = TRUE]
  /\ opened' = [opened EXCEPT ![job[r].code] = @ + 1]
  /\ Goes(r, "look up", job[r].code)
  /\ UNCHANGED <<guesses, Accounts>>
Consume(r) ==
  /\ job[r].at = "consume"
  /\ LET i == job[r].code IN
     IF codes[i].consumed \/ ~codes[i].kept
     THEN Refuse(r) /\ UNCHANGED <<codes, opened>>
     ELSE /\ codes' = [codes EXCEPT ![i].consumed = TRUE]
          /\ opened' = [opened EXCEPT ![i] = @ + 1]
          /\ Goes(r, "look up", i)
  /\ UNCHANGED <<guesses, Accounts>>

\* find_or_create_phone_customer: the account with any spelling of the number, or a new
\* one; the unique index refuses a second one with the same spelling.
Active(c) == c # 0 \/ ~disabled
SignIn(r, c) ==
  /\ landed' = IF Active(c) THEN landed \cup {c} ELSE landed
  /\ Refuse(r)
LookUp(r) ==
  /\ job[r].at = "look up"
  /\ IF customers = {} THEN Goes(r, "create", job[r].code) /\ UNCHANGED landed
     ELSE \E c \in customers : SignIn(r, c)
  /\ UNCHANGED <<codes, opened, guesses, customers, staffs, disabled>>
\* Mutant: without the index.
CreateAnyhow(r) ==
  /\ job[r].at = "create"
  /\ customers' = customers \cup {job[r].code} /\ SignIn(r, job[r].code)
  /\ UNCHANGED <<codes, opened, guesses, staffs, disabled>>
Create(r) ==
  /\ job[r].at = "create"
  /\ IF staffs \/ customers \ {0} # {}
     THEN Goes(r, "look again", job[r].code) /\ UNCHANGED <<customers, landed>>
     ELSE customers' = customers \cup {job[r].code} /\ SignIn(r, job[r].code)
  /\ UNCHANGED <<codes, opened, guesses, staffs, disabled>>
LookAgain(r) ==
  /\ job[r].at = "look again"
  /\ IF customers = {} THEN Refuse(r) /\ UNCHANGED landed
     ELSE \E c \in customers : SignIn(r, c)
  /\ UNCHANGED <<codes, opened, guesses, customers, staffs, disabled>>

\* Time passes for a code, never before an older one; the TTL index removes what has
\* expired.
Age(i) ==
  /\ codes[i].age < Old
  /\ i > 1 => codes[i - 1].age > codes[i].age
  /\ codes' = [codes EXCEPT ![i].age = @ + 1]
  /\ UNCHANGED <<job, opened, guesses, Accounts>>
Remove(i) ==
  /\ codes[i].kept /\ codes[i].age >= Expired
  /\ codes' = [codes EXCEPT ![i].kept = FALSE]
  /\ UNCHANGED <<job, opened, guesses, Accounts>>

Next ==
  \/ \E r \in Requests :
       \/ CountSends(r) \/ ReadLast(r) \/ InsertCode(r) \/ Sent(r)
       \/ ReadCode(r) \/ CountAttempt(r) \/ Consume(r)
       \/ LookUp(r) \/ Create(r) \/ LookAgain(r)
  \/ \E i \in 1..Len(codes) : Age(i) \/ Remove(i)

Spec == Init /\ [][Next]_otpVars

-----------------------------------------------------------------------------
\* A code lets one request in, however many have checked it; wrong codes are compared
\* with it no more often than allowed, but for the other requests that had read it
\* already; and all who prove they hold the number are let in to the same account.
CodesLetOneIn ==
  /\ \A i \in 1..Len(codes) :
       /\ opened[i] <= 1
       /\ guesses[i] < MaxAttempts + Cardinality(Requests)
  /\ Cardinality(landed) <= 1
=============================================================================
