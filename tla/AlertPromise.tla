---------------------------- MODULE AlertPromise ----------------------------
(***************************************************************************)
(* What alertService.ts promises the code that calls showAlert and         *)
(* showConfirm: every call is answered at most once and for good; calls    *)
(* are answered in the order they were made, except that all that wait may *)
(* be given up together (answered FALSE) when nothing can show them; and   *)
(* a call that waits is answered in the end.                               *)
(***************************************************************************)
EXTENDS Naturals, Sequences

CONSTANTS Calls

VARIABLES waiting, answer

Init == waiting = <<>> /\ answer = [c \in Calls |-> "unasked"]

Ask(c) ==
  /\ answer[c] = "unasked"
  /\ answer' = [answer EXCEPT ![c] = "asked"]
  /\ waiting' = Append(waiting, c)

AnswerAtOnce(c) ==
  /\ answer[c] = "unasked"
  /\ \E a \in {"yes", "no"} : answer' = [answer EXCEPT ![c] = a]
  /\ UNCHANGED waiting

AnswerFirst ==
  /\ waiting # <<>>
  /\ \E a \in {"yes", "no"} : answer' = [answer EXCEPT ![Head(waiting)] = a]
  /\ waiting' = Tail(waiting)

GiveUp ==
  /\ waiting' = <<>>
  /\ answer' = [c \in Calls |-> IF \E i \in 1..Len(waiting) : waiting[i] = c THEN "no"
                                ELSE answer[c]]

Next ==
  \/ \E c \in Calls : Ask(c) \/ AnswerAtOnce(c)
  \/ AnswerFirst
  \/ GiveUp

promiseVars == <<waiting, answer>>

\* While any call waits, sooner or later the first one, or all of them, are answered.
Spec == Init /\ [][Next]_promiseVars /\ WF_promiseVars(AnswerFirst \/ GiveUp)
=============================================================================
