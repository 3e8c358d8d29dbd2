-------------------------- MODULE MigrationRunner --------------------------
(***************************************************************************)
(* The runner of database migrations and its lock.  Several runners (one   *)
(* per deployment, or an operator's) list the pending migrations, take the *)
(* lock, apply them in order and record each one.  The lock expires when   *)
(* its holder does not refresh it; whoever then comes takes it over.       *)
(*                                                                         *)
(* Source: app/migrations/runner.py.                                       *)
(***************************************************************************)
EXTENDS Naturals, FiniteSets, FiniteSetsExt

CONSTANTS
  Runners,
  Migrations, \* their ids, numbers
  MaxStops,   \* bound: crashes, failed migrations, locks lost
  None

VARIABLES
  lock,    \* the lock's document: its owner, and whether it has expired; or None
  applied, \* schema_migrations: what has been recorded
  runner,  \* what each runner does next, what it still has to apply, and what it read
           \* as applied once it had the lock
  started, \* history: how often each migration has begun
  stops    \* history: what ended a run early, or overtook it

runnerVars == <<lock, applied, runner, started, stops>>

Resting == [at |-> "rest", todo |-> {}, seen |-> {}]
Init ==
  /\ lock = None /\ applied = {} /\ stops = 0
  /\ runner = [r \in Runners |-> Resting]
  /\ started = [m \in Migrations |-> 0]

At(r, step) == runner[r].at = step
Goes(r, step) == runner' = [runner EXCEPT ![r].at = step]
Owns(r) == lock # None /\ lock.owner = r
LockOf(r) == [owner |-> r, expired |-> FALSE]
\* After a migration, or before the first one.
NextFor(todo) == IF todo = {} THEN "release" ELSE "refresh"

\* In order of their ids.
First(todo) == Min(todo)

\* pending_migrations, read before the lock is held.
Begin(r) ==
  /\ At(r, "rest") /\ Migrations \ applied # {}
  /\ runner' = [runner EXCEPT ![r] = [Resting EXCEPT !.at = "insert",
                  !.todo = Migrations \ applied]]
  /\ UNCHANGED <<lock, applied, started, stops>>

\* acquire_lock: insert the document, or take over an expired one.
InsertLock(r) ==
  /\ At(r, "insert")
  /\ IF lock = None THEN lock' = LockOf(r) /\ Goes(r, "read")
     ELSE Goes(r, "take over") /\ UNCHANGED lock
  /\ UNCHANGED <<applied, started, stops>>
TakeOver(r) ==
  /\ At(r, "take over")
  /\ IF lock # None /\ lock.expired THEN lock' = LockOf(r) /\ Goes(r, "read")
     ELSE Goes(r, "rest") /\ UNCHANGED lock
  /\ UNCHANGED <<applied, started, stops>>

\* Mutant: what was applied meanwhile is not read again.
TrustPending(r) ==
  /\ At(r, "read")
  /\ Goes(r, NextFor(runner[r].todo))
  /\ UNCHANGED <<lock, applied, started, stops>>
ReadApplied(r) ==
  /\ At(r, "read")
  /\ runner' = [runner EXCEPT ![r].seen = applied, ![r].at = NextFor(runner[r].todo)]
  /\ UNCHANGED <<lock, applied, started, stops>>

\* refresh_lock: who has lost the lock stops.
Refreshed(r) == lock' = IF Owns(r) THEN LockOf(r) ELSE lock

\* Before a migration; one already applied is skipped.
Refresh(r) ==
  /\ At(r, "refresh")
  /\ Refreshed(r)
  /\ LET m == First(runner[r].todo)
         rest == runner[r].todo \ {m}
     IN CASE ~Owns(r) -> Goes(r, "release") /\ UNCHANGED started
          [] Owns(r) /\ m \in runner[r].seen ->
               /\ runner' = [runner EXCEPT ![r].todo = rest, ![r].at = NextFor(rest)]
               /\ UNCHANGED started
          [] OTHER -> Goes(r, "up") /\ started' = [started EXCEPT ![m] = @ + 1]
  /\ UNCHANGED <<applied, stops>>
\* While it runs, when the migration calls its heartbeat.
Heartbeat(r) ==
  /\ At(r, "up")
  /\ Refreshed(r)
  /\ Goes(r, IF Owns(r) THEN "up" ELSE "release")
  /\ UNCHANGED <<applied, started, stops>>
Done(r) ==
  /\ At(r, "up")
  /\ Goes(r, "refresh again")
  /\ UNCHANGED <<lock, applied, started, stops>>
Fails(r) ==
  /\ At(r, "up") /\ stops < MaxStops
  /\ Goes(r, "release") /\ stops' = stops + 1
  /\ UNCHANGED <<lock, applied, started>>
RefreshAgain(r) ==
  /\ At(r, "refresh again")
  /\ Refreshed(r)
  /\ Goes(r, IF Owns(r) THEN "record" ELSE "release")
  /\ UNCHANGED <<applied, started, stops>>
Record(r) ==
  /\ At(r, "record")
  /\ LET m == First(runner[r].todo)
         rest == runner[r].todo \ {m}
     IN /\ applied' = applied \cup {m}
        /\ runner' = [runner EXCEPT ![r].todo = rest, ![r].at = NextFor(rest)]
  /\ UNCHANGED <<lock, started, stops>>

\* Mutant: a runner releases whoever's lock there is.
ReleaseAnyones(r) ==
  /\ At(r, "release")
  /\ lock' = None /\ runner' = [runner EXCEPT ![r] = Resting]
  /\ UNCHANGED <<applied, started, stops>>

\* release_lock deletes the runner's own lock.
Release(r) ==
  /\ At(r, "release")
  /\ lock' = IF Owns(r) THEN None ELSE lock
  /\ runner' = [runner EXCEPT ![r] = Resting]
  /\ UNCHANGED <<applied, started, stops>>

\* A runner dies anywhere; its lock stays until it expires or an operator removes it
\* (force_unlock).
Crash(r) ==
  /\ ~At(r, "rest") /\ stops < MaxStops
  /\ runner' = [runner EXCEPT ![r] = Resting] /\ stops' = stops + 1
  /\ UNCHANGED <<lock, applied, started>>
ForceUnlock ==
  /\ lock # None /\ At(lock.owner, "rest")
  /\ lock' = None
  /\ UNCHANGED <<applied, runner, started, stops>>

\* Half an hour without a refresh; under a runner still at work it counts as a stop.
Expire ==
  /\ lock # None /\ ~lock.expired
  /\ At(lock.owner, "rest") \/ stops < MaxStops
  /\ stops' = IF At(lock.owner, "rest") THEN stops ELSE stops + 1
  /\ lock' = [lock EXCEPT !.expired = TRUE]
  /\ UNCHANGED <<applied, runner, started>>

Next ==
  \/ \E r \in Runners :
       \/ Begin(r) \/ InsertLock(r) \/ TakeOver(r) \/ ReadApplied(r)
       \/ Refresh(r) \/ Heartbeat(r) \/ Done(r) \/ Fails(r) \/ RefreshAgain(r)
       \/ Record(r) \/ Release(r) \/ Crash(r)
  \/ ForceUnlock \/ Expire

Spec == Init /\ [][Next]_runnerVars

-----------------------------------------------------------------------------
Working == {r \in Runners : runner[r].at \in {"up", "refresh again", "record"}}

\* Migrations are applied in order and once each; only a crash, a failure or a lock that
\* expired under its runner makes one begin again, or two run side by side.
AppliedOnceInOrder ==
  /\ \A m \in applied : \A k \in Migrations : k < m => k \in applied
  /\ \A m \in Migrations : started[m] <= 1 + stops
  /\ stops = 0 => Cardinality(Working) <= 1
=============================================================================
