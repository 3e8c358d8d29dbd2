---------------------------- MODULE StorefrontCache ----------------------------
(***************************************************************************)
(* The storefront's cache (services/cache.py): every process keeps its own *)
(* copy of a store's public pages.  A reader that misses remembers the     *)
(* store's generation, builds the page without the lock and stores it only *)
(* if the generation still stands; an invalidation drops the pages and     *)
(* raises the generation.                                                  *)
(*                                                                         *)
(* One page of one store.  A page is known by the version of the document  *)
(* it was built from.                                                      *)
(***************************************************************************)
EXTENDS Naturals

CONSTANTS
    Process,   \* server processes
    Reader,    \* request threads that serve the storefront
    NoPage     \* nothing cached

ASSUME CacheAssumption == NoPage \notin Nat

VARIABLES
    version,      \* writes to the document so far
    page,         \* TTLCache._data, per process
    generation,   \* TTLCache._generations for the store, per process
    reader,       \* where each request stands in get_or_set
    floor         \* history: the version at the process's last invalidation

cacheVars == <<version, page, generation, reader, floor>>

Request == [at : {"idle", "missed", "building", "built"}, in : Process,
            seen : Nat, got : Nat]

CacheTypeOK ==
    /\ version \in Nat
    /\ page \in [Process -> Nat \union {NoPage}]
    /\ generation \in [Process -> Nat]
    /\ reader \in [Reader -> Request]
    /\ floor \in [Process -> Nat]

CacheInit ==
    /\ version = 0
    /\ page = [p \in Process |-> NoPage]
    /\ generation = [p \in Process |-> 0]
    /\ reader \in [Reader -> [at : {"idle"}, in : Process, seen : {0}, got : {0}]]
    /\ floor = [p \in Process |-> 0]

-------------------------------------------------------------------------------
(* get_or_set, one action per stretch under the lock or outside it *)

\* get: nothing cached, or it has expired.
Miss(r) ==
    /\ reader[r].at = "idle"
    /\ page[reader[r].in] = NoPage
    /\ reader' = [reader EXCEPT ![r].at = "missed"]
    /\ UNCHANGED <<version, page, generation, floor>>

\* version = self._version(key)
NoteGeneration(r) ==
    /\ reader[r].at = "missed"
    /\ reader' = [reader EXCEPT ![r].at = "building",
                                ![r].seen = generation[reader[r].in]]
    /\ UNCHANGED <<version, page, generation, floor>>

\* value = builder(): reads the database.
Build(r) ==
    /\ reader[r].at = "building"
    /\ reader' = [reader EXCEPT ![r].at = "built", ![r].got = version]
    /\ UNCHANGED <<version, page, generation, floor>>

\* Mutant: the page is stored whatever happened meanwhile.
StillCurrentAlways(r) == TRUE

StillCurrent(r) == generation[reader[r].in] = reader[r].seen

Store(r) ==
    /\ reader[r].at = "built"
    /\ page' = IF StillCurrent(r)
                 THEN [page EXCEPT ![reader[r].in] = reader[r].got]
                 ELSE page
    /\ reader' = [reader EXCEPT ![r].at = "idle", ![r].seen = 0, ![r].got = 0]
    /\ UNCHANGED <<version, generation, floor>>

\* Expiry, or eviction of the least recently used entry.
Drop(p) ==
    /\ page[p] # NoPage
    /\ page' = [page EXCEPT ![p] = NoPage]
    /\ UNCHANGED <<version, generation, reader, floor>>

\* invalidate_tenant, by the process that handled a write.
Invalidate(p) ==
    /\ generation' = [generation EXCEPT ![p] = @ + 1]
    /\ page' = [page EXCEPT ![p] = NoPage]
    /\ floor' = [floor EXCEPT ![p] = version]
    /\ UNCHANGED <<version, reader>>

\* The document changes, with or without an invalidation to follow.
Write ==
    /\ version' = version + 1
    /\ UNCHANGED <<page, generation, reader, floor>>

\* What the readers and the clock do by themselves.
Serve ==
    \/ \E r \in Reader : Miss(r) \/ NoteGeneration(r) \/ Build(r) \/ Store(r)
    \/ \E p \in Process : Drop(p)

CacheNext ==
    \/ Serve
    \/ \E p \in Process : Invalidate(p)
    \/ Write

CacheSpec == CacheInit /\ [][CacheNext]_cacheVars

-------------------------------------------------------------------------------
\* A page a process serves is never older than what stood when the process
\* last invalidated the store: a page begun before an admin's change and
\* finished after it is not kept (get_or_set, invalidate_prefix).
ServesNothingStale ==
    \A p \in Process : page[p] = NoPage \/ page[p] >= floor[p]
===============================================================================
