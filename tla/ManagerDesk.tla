----------------------------- MODULE ManagerDesk -----------------------------
(***************************************************************************)
(* The page where a store's owner adds managers, sets what each may do and *)
(* removes them.  The boxes of a row are a draft from the first click on,  *)
(* and stay one after it is saved; the list is read again after a change.  *)
(*                                                                         *)
(* Grants stand for sets of permissions.                                   *)
(*                                                                         *)
(* Sources: client/src/features/admin/pages/AdminStoreManagers.tsx and     *)
(* api/storeManager.api.ts.                                                *)
(***************************************************************************)
EXTENDS Naturals

CONSTANTS
  Managers, \* ids; those never issued are given to new managers
  Grants, ReadOnly, \* defaultNewManagerPermissions
  MaxEdits, \* bound: boxes ticked and calls sent
  None

VARIABLES
  staff,    \* server: what each manager may do, or None
  issued,   \* ids given so far: none is given twice
  team,     \* the list as last read, or None
  reading,  \* the fetch of the list and what it read
  rowDraft, \* rowPermissions
  granted,  \* permissions of the form
  adding, updating, removing, \* the calls in flight
  touched,  \* rows ticked since they were last saved
  silent,   \* a change was made whose answer was lost
  moves     \* edits and calls so far (bounded)

teamVars == <<staff, issued, team, reading, rowDraft, granted, adding, updating, removing,
              touched, silent, moves>>

Reading(step, data) == [step |-> step, data |-> data]
NoRead == Reading("none", None)
Asked == Reading("asked", None)

Init ==
  /\ staff \in [Managers -> Grants \union {None}]
  /\ issued = {m \in Managers : staff[m] # None} /\ issued # Managers
  /\ team = None /\ reading = Asked
  /\ rowDraft = [m \in Managers |-> None]
  /\ granted = ReadOnly
  /\ adding = None /\ updating = None /\ removing = None
  /\ touched = {} /\ silent = FALSE /\ moves = 0

TeamRead ==
  /\ reading = Asked
  /\ reading' = Reading("read", staff)
  /\ UNCHANGED <<staff, issued, team, rowDraft, granted, adding, updating, removing, touched, silent, moves>>
TeamArrives ==
  /\ reading.step = "read"
  /\ team' = reading.data
  /\ reading' = NoRead
  /\ UNCHANGED <<staff, issued, rowDraft, granted, adding, updating, removing, touched, silent, moves>>

OnTeam(m) == team # None /\ team[m] # None
Move ==
  /\ moves < MaxEdits
  /\ moves' = moves + 1
  /\ UNCHANGED <<staff, issued, team, reading, silent>>

\* currentRowPermissions.
CurrentRow(m) == IF rowDraft[m] = None THEN team[m] ELSE rowDraft[m]

TickRow(m, g) ==
  /\ OnTeam(m) /\ CurrentRow(m) # g
  /\ Move
  /\ rowDraft' = [rowDraft EXCEPT ![m] = g]
  /\ touched' = touched \union {m}
  /\ UNCHANGED <<granted, adding, updating, removing>>
\* A box of the form, Allow all or Read only.
TickForm(g) ==
  /\ g # granted
  /\ Move
  /\ granted' = g
  /\ UNCHANGED <<rowDraft, adding, updating, removing, touched>>

Call(what) == [of |-> what, done |-> FALSE]
HandleSubmit ==
  /\ adding = None
  /\ Move
  /\ adding' = Call(granted)
  /\ UNCHANGED <<rowDraft, granted, updating, removing, touched>>
SavePermissions(m) ==
  /\ OnTeam(m) /\ updating = None
  /\ Move
  /\ updating' = [id |-> m, of |-> CurrentRow(m), done |-> FALSE]
  /\ touched' = touched \ {m}
  /\ UNCHANGED <<rowDraft, granted, adding, removing>>
\* Remove asks for nothing.
Remove(m) ==
  /\ OnTeam(m) /\ removing = None
  /\ Move
  /\ removing' = Call(m)
  /\ UNCHANGED <<rowDraft, granted, adding, updating, touched>>

-----------------------------------------------------------------------------
Added ==
  /\ adding # None /\ ~adding.done
  /\ \E m \in Managers \ issued :
       /\ staff' = [staff EXCEPT ![m] = adding.of]
       /\ issued' = issued \union {m}
  /\ adding' = [adding EXCEPT !.done = TRUE]
  /\ UNCHANGED <<team, reading, rowDraft, granted, updating, removing, touched, silent, moves>>
Updated ==
  /\ updating # None /\ ~updating.done /\ staff[updating.id] # None
  /\ staff' = [staff EXCEPT ![updating.id] = updating.of]
  /\ updating' = [updating EXCEPT !.done = TRUE]
  /\ UNCHANGED <<issued, team, reading, rowDraft, granted, adding, removing, touched, silent, moves>>
Removed ==
  /\ removing # None /\ ~removing.done /\ staff[removing.of] # None
  /\ staff' = [staff EXCEPT ![removing.of] = None]
  /\ removing' = [removing EXCEPT !.done = TRUE]
  /\ UNCHANGED <<issued, team, reading, rowDraft, granted, adding, updating, touched, silent, moves>>

\* Mutant: an answer on its way is still taken.
KeepReading == UNCHANGED reading

\* onSuccess: the list is read again, whatever reading was on its way.
ReadAgain == reading' = Asked

AddAnswered ==
  /\ adding # None /\ adding.done
  /\ granted' = ReadOnly
  /\ ReadAgain
  /\ adding' = None
  /\ UNCHANGED <<staff, issued, team, rowDraft, updating, removing, touched, silent, moves>>
UpdateAnswered ==
  /\ updating # None /\ updating.done
  /\ ReadAgain
  /\ updating' = None
  /\ UNCHANGED <<staff, issued, team, rowDraft, granted, adding, removing, touched, silent, moves>>
RemoveAnswered ==
  /\ removing # None /\ removing.done
  /\ ReadAgain
  /\ removing' = None
  /\ UNCHANGED <<staff, issued, team, rowDraft, granted, adding, updating, touched, silent, moves>>

\* A call is refused or lost; what a row has drafted is then not saved.
AddFails ==
  /\ adding # None
  /\ silent' = (silent \/ adding.done) /\ adding' = None
  /\ UNCHANGED <<staff, issued, team, reading, rowDraft, granted, updating, removing, touched, moves>>
UpdateFails ==
  /\ updating # None
  /\ silent' = (silent \/ updating.done) /\ updating' = None
  /\ touched' = touched \union {updating.id}
  /\ UNCHANGED <<staff, issued, team, reading, rowDraft, granted, adding, removing, moves>>
RemoveFails ==
  /\ removing # None
  /\ silent' = (silent \/ removing.done) /\ removing' = None
  /\ UNCHANGED <<staff, issued, team, reading, rowDraft, granted, adding, updating, touched, moves>>

Next ==
  \/ TeamRead \/ TeamArrives \/ HandleSubmit
  \/ \E m \in Managers :
       SavePermissions(m) \/ Remove(m) \/ \E g \in Grants : TickRow(m, g)
  \/ \E g \in Grants : TickForm(g)
  \/ Added \/ AddAnswered \/ AddFails
  \/ Updated \/ UpdateAnswered \/ UpdateFails
  \/ Removed \/ RemoveAnswered \/ RemoveFails

Spec == Init /\ [][Next]_teamVars

-----------------------------------------------------------------------------
\* Once every call was heard and the list was read, a row that holds no unsaved
\* ticks shows what the manager may do, and no removed manager is listed, in
\* whatever order additions, changes and removals were made and answered.
Settled(call) == call = None \/ ~call.done
TeamShownIsTeamKept ==
  (team # None /\ reading = NoRead /\ ~silent
     /\ Settled(adding) /\ Settled(updating) /\ Settled(removing)) =>
    \A m \in Managers :
      /\ OnTeam(m) <=> staff[m] # None
      /\ (OnTeam(m) /\ m \notin touched /\ (updating = None \/ updating.id # m))
           => CurrentRow(m) = staff[m]
=============================================================================
