----------------------------- MODULE AlertQueue -----------------------------
(***************************************************************************)
(* The popups of the web client.  Any module calls showAlert or            *)
(* showConfirm; AlertProvider keeps the calls in a queue and shows the     *)
(* first one; each call waits for the answer to its own dialog.  Without a *)
(* provider the calls fall back on the browser's own dialogs.              *)
(*                                                                         *)
(* Sources: client/src/components/Modal (alertService.ts, AlertProvider,   *)
(* AlertDialog, Modal).                                                    *)
(***************************************************************************)
EXTENDS Naturals, Sequences, SequencesExt

CONSTANTS
  Calls,    \* the calls of showAlert and showConfirm
  Confirms, \* those of showConfirm
  Lasting,  \* those with dismissible = false
  None

VARIABLES
  handler, \* whether a provider is mounted and registered
  queue,   \* queueRef: the calls not answered yet
  current, \* the dialog the provider renders
  answer,  \* what each call's promise has resolved to
  clicked, \* the answer the user gave in each call's own dialog
  clicks   \* further clicks on a dialog already answered, still to be handled

alertVars == <<handler, queue, current, answer, clicked, clicks>>

Init ==
  /\ handler = FALSE
  /\ queue = <<>>
  /\ current = None
  /\ answer = [c \in Calls |-> "unasked"]
  /\ clicked = [c \in Calls |-> None]
  /\ clicks = {}

FirstOf(q) == IF q = <<>> THEN None ELSE Head(q)

\* The provider's effect mounts and registers the handler ...
Mount ==
  /\ ~handler
  /\ handler' = TRUE
  /\ UNCHANGED <<queue, current, answer, clicked, clicks>>

\* Mutant: the calls that wait are dropped without an answer.
UnmountSilently ==
  /\ handler
  /\ handler' = FALSE
  /\ queue' = <<>> /\ current' = None
  /\ UNCHANGED <<answer, clicked, clicks>>

\* ... and its cleanup unregisters it and gives up every dialog that waits.
Unmount ==
  /\ handler
  /\ handler' = FALSE
  /\ queue' = <<>> /\ current' = None
  /\ answer' = [c \in Calls |-> IF Contains(queue, c) THEN "no" ELSE answer[c]]
  /\ UNCHANGED <<clicked, clicks>>

Show(c) ==
  /\ handler /\ answer[c] = "unasked"
  /\ queue' = Append(queue, c)
  /\ current' = Head(queue')
  /\ answer' = [answer EXCEPT ![c] = "asked"]
  /\ UNCHANGED <<handler, clicked, clicks>>

\* nativeAlert and nativeConfirm answer before they return.
ShowNative(c) ==
  /\ ~handler /\ answer[c] = "unasked"
  /\ \E a \in IF c \in Confirms THEN {"yes", "no"} ELSE {"yes"} :
       answer' = [answer EXCEPT ![c] = a] /\ clicked' = [clicked EXCEPT ![c] = a]
  /\ UNCHANGED <<handler, queue, current, clicks>>

\* Mutant: a click answers whichever dialog is first.
SettleFirst(c, a) ==
  IF queue = <<>> THEN UNCHANGED <<queue, current, answer>>
  ELSE /\ answer' = [answer EXCEPT ![Head(queue)] = a]
       /\ queue' = Tail(queue)
       /\ current' = FirstOf(queue')

\* settle: only the dialog that was clicked is answered, if it still waits.
Settle(c, a) ==
  IF ~Contains(queue, c) THEN UNCHANGED <<queue, current, answer>>
  ELSE /\ answer' = [answer EXCEPT ![c] = a]
       /\ queue' = RemoveFirst(queue, c)
       /\ current' = FirstOf(queue')

\* OK or Confirm, Cancel, and what dismisses a dialog: the close icon, Escape
\* and a click beside it.
Answers(c) == IF c \in Confirms \/ c \notin Lasting THEN {"yes", "no"} ELSE {"yes"}

\* The user answers the dialog on the screen, perhaps with a double click.
Click ==
  /\ current # None
  /\ \E a \in Answers(current) :
       /\ Settle(current, a)
       /\ clicked' = [clicked EXCEPT ![current] = a]
  /\ clicks' \in {clicks, clicks \cup {current}}
  /\ UNCHANGED handler
ClickAgain(c) ==
  /\ c \in clicks
  /\ \E a \in Answers(c) : Settle(c, a)
  /\ clicks' = clicks \ {c}
  /\ UNCHANGED <<handler, clicked>>

Next ==
  \/ Mount \/ Unmount
  \/ \E c \in Calls : Show(c) \/ ShowNative(c)
  \/ Click
  \/ \E c \in Calls : ClickAgain(c)

\* The user answers what is on the screen; a click is handled.
Spec == Init /\ [][Next]_alertVars /\ WF_alertVars(Click)

-----------------------------------------------------------------------------
\* AlertProvider implements the promise of the service: each call is answered at most
\* once and in turn, and nobody waits for ever, as long as the user answers what is on
\* the screen.
Promise == INSTANCE AlertPromise WITH waiting <- queue
PromiseKept == Promise!Spec

\* A call shown in a dialog gets the answer of that very dialog, or FALSE when
\* the provider goes away: no click meant for an earlier dialog answers it.
AnsweredByItsOwnDialog ==
  \A c \in Calls :
    /\ clicked[c] # None => answer[c] = clicked[c]
    /\ answer[c] = "yes" => clicked[c] = "yes"
=============================================================================
