------------------------------ MODULE Invoices ------------------------------
(***************************************************************************)
(* Tax invoices and credit notes of one store.  Requests for them run side *)
(* by side; a step is one call to MongoDB with what the handler decides on *)
(* its answer.  The handler takes its year when it makes the document, and *)
(* the year may end before the document is inserted.                       *)
(*                                                                         *)
(* Sources: app/services/invoice_service.py, app/routes/tax.py.            *)
(***************************************************************************)
EXTENDS Naturals, FiniteSets

CONSTANTS
  Requests, \* what handles requests at the same time
  Orders,   \* orders with tax
  Total,    \* what each invoice is about
  MaxYear, MaxNotes, MaxNumbers, \* bounds: the years, the credit notes asked for, the
            \* numbers of a kind drawn in a year
  None

VARIABLES
  year,
  profile,  \* whether the store's GST profile is complete
  counter,  \* counters: the last number drawn, of each kind and year
  invoice,  \* invoices: the number of each order's invoice, or None
  notes,    \* credit_notes: the order and amount of each number
  request,  \* what each request does next, for which order, and the number it drew
  answered, \* history: the invoices requests were answered with
  asked     \* history: the credit notes asked for

invoiceVars == <<year, profile, counter, invoice, notes, request, answered, asked>>

Kinds == {"invoice", "note"}
Job(step, o, amount, n) == [at |-> step, order |-> o, amount |-> amount, number |-> n]
Resting == Job("rest", None, None, None)
Init ==
  /\ year = 1 /\ profile \in BOOLEAN
  /\ counter = [k \in Kinds |-> [y \in 1..MaxYear |-> 0]]
  /\ invoice = [o \in Orders |-> None]
  /\ notes = {} /\ answered = {} /\ asked = 0
  /\ request = [r \in Requests |-> Resting]

At(r, step) == request[r].at = step
Ends(r) == request' = [request EXCEPT ![r] = Resting]
Answers(r, o, n) == answered' = answered \cup {<<o, n>>} /\ Ends(r)
Register == <<year, profile, asked>>

\* issue_invoice: the invoice there is, or a new one.
AskInvoice(r) ==
  /\ At(r, "rest")
  /\ \E o \in Orders :
       IF invoice[o] # None THEN Answers(r, o, invoice[o])
       ELSE /\ profile
            /\ request' = [request EXCEPT ![r] = Job("draw", o, None, None)]
            /\ UNCHANGED answered
  /\ UNCHANGED <<Register, counter, invoice, notes>>

\* _next_number.
Draw(r, kind, then) ==
  /\ counter[kind][year] < MaxNumbers
  /\ counter' = [counter EXCEPT ![kind][year] = @ + 1]
  /\ request' = [request EXCEPT ![r] = Job(then, request[r].order, request[r].amount,
                                           <<year, counter[kind][year] + 1>>)]
DrawInvoice(r) ==
  /\ At(r, "draw")
  /\ Draw(r, "invoice", "insert")
  /\ UNCHANGED <<Register, invoice, notes, answered>>

\* Mutant: who comes second answers with the one it made.
AnswerOwn(r) ==
  /\ At(r, "insert")
  /\ LET o == request[r].order  n == request[r].number IN
     /\ invoice' = [invoice EXCEPT ![o] = IF @ = None THEN n ELSE @]
     /\ Answers(r, o, n)
  /\ UNCHANGED <<Register, counter, notes>>

\* The unique index leaves one invoice to an order; who comes second answers with it.
InsertInvoice(r) ==
  /\ At(r, "insert")
  /\ LET o == request[r].order  n == request[r].number IN
     IF invoice[o] = None
     THEN invoice' = [invoice EXCEPT ![o] = n] /\ Answers(r, o, n)
     ELSE /\ request' = [request EXCEPT ![r] = Job("read again", o, None, None)]
          /\ UNCHANGED <<invoice, answered>>
  /\ UNCHANGED <<Register, counter, notes>>
ReadAgain(r) ==
  /\ At(r, "read again")
  /\ Answers(r, request[r].order, invoice[request[r].order])
  /\ UNCHANGED <<Register, counter, invoice, notes>>

\* create_credit_note, of an amount the invoice covers.
AskNote(r) ==
  /\ At(r, "rest") /\ asked < MaxNotes
  /\ \E o \in {x \in Orders : invoice[x] # None}, amount \in 1..Total :
       request' = [request EXCEPT ![r] = Job("draw note", o, amount, None)]
  /\ asked' = asked + 1
  /\ UNCHANGED <<year, profile, counter, invoice, notes, answered>>
DrawNote(r) ==
  /\ At(r, "draw note")
  /\ Draw(r, "note", "insert note")
  /\ UNCHANGED <<Register, invoice, notes, answered>>
InsertNote(r) ==
  /\ At(r, "insert note")
  /\ notes' = notes \cup {[number |-> request[r].number, order |-> request[r].order,
                           amount |-> request[r].amount]}
  /\ Ends(r)
  /\ UNCHANGED <<Register, counter, invoice, answered>>

\* A process dies between two of its calls; a year ends; the profile is completed.
Crash(r) ==
  /\ ~At(r, "rest")
  /\ Ends(r)
  /\ UNCHANGED <<Register, counter, invoice, notes, answered>>
YearEnds ==
  /\ year < MaxYear /\ year' = year + 1
  /\ UNCHANGED <<profile, counter, invoice, notes, request, answered, asked>>
CompleteProfile ==
  /\ ~profile /\ profile' = TRUE
  /\ UNCHANGED <<year, counter, invoice, notes, request, answered, asked>>

Next ==
  \/ \E r \in Requests :
       \/ AskInvoice(r) \/ DrawInvoice(r) \/ InsertInvoice(r) \/ ReadAgain(r)
       \/ AskNote(r) \/ DrawNote(r) \/ InsertNote(r) \/ Crash(r)
  \/ YearEnds \/ CompleteProfile

Spec == Init /\ [][Next]_invoiceVars

-----------------------------------------------------------------------------
\* Everybody who asks for an order's invoice gets the same one, and no two documents of
\* a kind have one number, whatever races, crashes and ends of years lost a number.
InvoicesStand ==
  /\ \A a \in answered : a[2] = invoice[a[1]]
  /\ \A o, p \in Orders : o # p /\ invoice[o] # None => invoice[o] # invoice[p]
  /\ \A m, n \in notes : m.number = n.number => m = n
=============================================================================
