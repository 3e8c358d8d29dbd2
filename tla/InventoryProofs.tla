---------------------------- MODULE InventoryProofs ----------------------------
(***************************************************************************)
(* What StorefrontCache and Inventory guarantee for every number of        *)
(* processes, readers, request threads, variants and deliveries: a process *)
(* never serves a page older than a change it answered for, a received     *)
(* delivery is added once, exactly as its preview showed, and the logged   *)
(* changes explain the stock.                                              *)
(***************************************************************************)
EXTENDS Inventory, FiniteSetTheorems, FunctionTheorems, TLAPS

-------------------------------------------------------------------------------
(* The cache by itself *)

FloorReached == \A p \in Process : floor[p] <= version

\* A page built since its generation was noted is as new as the floor, if
\* nothing was invalidated since.
FillsAreFresh ==
    \A r \in Reader :
        /\ reader[r].at \in {"building", "built"} =>
              reader[r].seen <= generation[reader[r].in]
        /\ reader[r].at = "built" /\ StillCurrent(r) =>
              reader[r].got >= floor[reader[r].in]

CacheInv == CacheTypeOK /\ ServesNothingStale /\ FloorReached /\ FillsAreFresh

LEMMA CacheStart == CacheInit => CacheInv
<1> SUFFICES ASSUME CacheInit PROVE CacheInv
  OBVIOUS
<1>1. CacheTypeOK
  BY DEF CacheInit, CacheTypeOK, Request
<1>2. ServesNothingStale /\ FloorReached /\ FillsAreFresh
  BY DEF CacheInit, ServesNothingStale, FloorReached, FillsAreFresh
<1> QED
  BY <1>1, <1>2 DEF CacheInv

LEMMA ReaderStep ==
    ASSUME CacheInv, NEW r \in Reader,
           Miss(r) \/ NoteGeneration(r) \/ Build(r) \/ Store(r)
    PROVE  CacheInv'
<1> USE CacheAssumption
<1>0. /\ reader[r] \in Request /\ reader[r].in \in Process
      /\ generation[reader[r].in] \in Nat
  BY DEF CacheInv, CacheTypeOK, Request
<1>1. CASE Miss(r) \/ NoteGeneration(r) \/ Build(r)
  <2>1. /\ reader' \in [Reader -> Request]
        /\ \A q \in Reader : q # r => reader'[q] = reader[q]
        /\ reader'[r].in = reader[r].in
        /\ reader'[r].at = "building" => reader'[r].seen = generation[reader[r].in]
        /\ reader'[r].at = "built" => /\ reader[r].at = "building"
                                      /\ reader'[r].seen = reader[r].seen
                                      /\ reader'[r].got = version
    BY <1>0, <1>1 DEF CacheInv, CacheTypeOK, Request, Miss, NoteGeneration, Build
  <2>2. UNCHANGED <<version, page, generation, floor>>
    BY <1>1 DEF Miss, NoteGeneration, Build
  <2>3. FillsAreFresh'
    BY <1>0, <2>1, <2>2
       DEF CacheInv, CacheTypeOK, FloorReached, FillsAreFresh, StillCurrent
  <2> QED
    BY <2>1, <2>2, <2>3
       DEF CacheInv, CacheTypeOK, ServesNothingStale, FloorReached
<1>2. CASE Store(r)
  <2>1. /\ reader' \in [Reader -> Request]
        /\ \A q \in Reader : q # r => reader'[q] = reader[q]
        /\ reader'[r].at = "idle"
    BY <1>0, <1>2 DEF CacheInv, CacheTypeOK, Request, Store
  <2>2. UNCHANGED <<version, generation, floor>>
    BY <1>2 DEF Store
  <2>3. page' \in [Process -> Nat \union {NoPage}] /\ ServesNothingStale'
    BY <1>0, <1>2, <2>2
       DEF CacheInv, CacheTypeOK, Request, Store, ServesNothingStale, FillsAreFresh
  <2>4. FillsAreFresh'
    BY <2>1, <2>2 DEF CacheInv, FillsAreFresh, StillCurrent
  <2> QED
    BY <2>1, <2>2, <2>3, <2>4 DEF CacheInv, CacheTypeOK, FloorReached
<1> QED
  BY <1>1, <1>2

LEMMA CacheStep == CacheInv /\ [CacheNext]_cacheVars => CacheInv'
<1> SUFFICES ASSUME CacheInv, [CacheNext]_cacheVars PROVE CacheInv'
  OBVIOUS
<1> USE CacheAssumption
<1>1. CASE UNCHANGED cacheVars
  BY <1>1 DEF cacheVars, CacheInv, CacheTypeOK, ServesNothingStale,
              FloorReached, FillsAreFresh, StillCurrent
<1>2. ASSUME NEW p \in Process, Drop(p) PROVE CacheInv'
  BY <1>2 DEF Drop, CacheInv, CacheTypeOK, ServesNothingStale,
              FloorReached, FillsAreFresh, StillCurrent
<1>3. ASSUME NEW p \in Process, Invalidate(p) PROVE CacheInv'
  <2>1. CacheTypeOK' /\ ServesNothingStale' /\ FloorReached'
    BY <1>3 DEF Invalidate, CacheInv, CacheTypeOK, ServesNothingStale, FloorReached
  <2>2. FillsAreFresh'
    <3> SUFFICES ASSUME NEW r \in Reader
                 PROVE  /\ reader'[r].at \in {"building", "built"} =>
                              reader'[r].seen <= generation'[reader'[r].in]
                        /\ reader'[r].at = "built" /\ StillCurrent(r)' =>
                              reader'[r].got >= floor'[reader'[r].in]
      BY DEF FillsAreFresh
    <3>1. /\ reader[r].in \in Process /\ reader[r].seen \in Nat
          /\ generation[reader[r].in] \in Nat
      BY DEF CacheInv, CacheTypeOK, Request
    <3> QED
      BY <1>3, <3>1
         DEF Invalidate, CacheInv, CacheTypeOK, FillsAreFresh, StillCurrent
  <2> QED
    BY <2>1, <2>2 DEF CacheInv
<1>4. CASE Write
  BY <1>4 DEF Write, CacheInv, CacheTypeOK, ServesNothingStale,
              FloorReached, FillsAreFresh, StillCurrent
<1> QED
  BY <1>1, <1>2, <1>3, <1>4, ReaderStep DEF CacheNext, Serve

\* A process never serves a page older than its last invalidation, whatever
\* readers were building pages when it happened.
THEOREM CacheIsFresh == CacheSpec => []ServesNothingStale
<1>1. CacheInv => ServesNothingStale
  BY DEF CacheInv
<1> QED
  BY <1>1, CacheStart, CacheStep, PTL DEF CacheSpec

-------------------------------------------------------------------------------
(* The inventory drives the cache as the cache's specification allows *)

LEMMA StepIsCacheStep == [Next]_vars => [CacheNext]_cacheVars
<1> SUFFICES ASSUME [Next]_vars PROVE [CacheNext]_cacheVars
  OBVIOUS
<1> USE DEF cacheVars, cacheRest
<1>1. CASE UNCHANGED vars
  BY <1>1 DEF vars
<1>2. ASSUME NEW t \in Thread, NEW v \in Variant, NEW quantity \in Quantity,
             Sell(t, v, quantity) \/ Restore(t, v, quantity)
      PROVE  [CacheNext]_cacheVars
  BY <1>2 DEF Sell, Restore, Change, CacheNext, Write
<1>3. ASSUME NEW t \in Thread, NEW v \in Variant, NEW change \in Adjustment,
             Adjust(t, v, change)
      PROVE  [CacheNext]_cacheVars
  BY <1>3 DEF Adjust, Change, CacheNext, Write
<1>4. ASSUME NEW t \in Thread, Edit(t) \/ Reload(t) \/ Log(t) \/ Alert(t)
      PROVE  [CacheNext]_cacheVars
  BY <1>4 DEF Edit, Reload, Log, Alert
<1>5. ASSUME NEW t \in Thread, WriteTotal(t) \/ WriteForm(t)
      PROVE  [CacheNext]_cacheVars
  BY <1>5 DEF WriteTotal, WriteForm, CacheNext, Write
<1>6. ASSUME NEW t \in Thread, NEW r \in Receiving, Commit(t, r)
      PROVE  [CacheNext]_cacheVars
  BY <1>6 DEF Commit, CacheNext, Write
<1>7. ASSUME NEW t \in Thread, DropPages(t) PROVE [CacheNext]_cacheVars
  BY <1>7, InventoryAssumption DEF DropPages, CacheNext
<1>8. ASSUME NEW r \in Receiving, Preview(r) PROVE [CacheNext]_cacheVars
  BY <1>8 DEF Preview
<1>9. CASE ServePages
  BY <1>9 DEF ServePages, CacheNext
<1> QED
  BY <1>1, <1>2, <1>3, <1>4, <1>5, <1>6, <1>7, <1>8, <1>9 DEF Next

\* Inventory implements StorefrontCache: every step of a request is one of
\* the cache's steps or leaves it alone.
THEOREM DrivesTheCache == Spec => CacheSpec
<1>1. Init => CacheInit
  BY DEF Init
<1> QED
  BY <1>1, StepIsCacheStep, PTL DEF Spec, CacheSpec

\* So the pages beside the stock are never stale either.
THEOREM PagesAreFresh == Spec => []ServesNothingStale
BY DrivesTheCache, CacheIsFresh, PTL

-------------------------------------------------------------------------------
(* Requests: what is left of one, and what it carries *)

Dropping == {<<"alert", "total", "invalidate", "log">>,
             <<"total", "invalidate", "log">>, <<"invalidate", "log">>,
             <<"write", "invalidate", "log">>, <<"invalidate">>}

Plans == Dropping \union
         {<<>>, <<"reload", "total", "log", "alert">>, <<"total", "log", "alert">>,
          <<"log", "alert">>, <<"alert">>, <<"reload", "total", "log">>,
          <<"total", "log">>, <<"log">>}

Stocks == UNION {[S -> Nat] : S \in SUBSET Variant}

JobRecord == [todo : Plans, of : Variant, change : [Variant -> Int],
              seen : Stocks, form : Stocks, wrote : Nat]

\* A write is covered once its request has dropped the pages.
Covered(t) ==
    /\ job[t].wrote <= version
    /\ job[t].todo \notin Dropping => job[t].wrote <= floor[Home[t]]

RequestInv ==
    /\ job \in [Thread -> JobRecord]
    /\ finished \in [Process -> Nat]
    /\ \A p \in Process : finished[p] <= floor[p]
    /\ \A t \in Thread : Covered(t)

ShowInv == CacheInv /\ RequestInv /\ inventory \in Stocks

LEMMA TailsOfPlans ==
    /\ Tail(<<"alert", "total", "invalidate", "log">>) = <<"total", "invalidate", "log">>
    /\ Tail(<<"total", "invalidate", "log">>) = <<"invalidate", "log">>
    /\ Tail(<<"write", "invalidate", "log">>) = <<"invalidate", "log">>
    /\ Tail(<<"invalidate", "log">>) = <<"log">>
    /\ Tail(<<"invalidate">>) = <<>>
    /\ Tail(<<"reload", "total", "log", "alert">>) = <<"total", "log", "alert">>
    /\ Tail(<<"total", "log", "alert">>) = <<"log", "alert">>
    /\ Tail(<<"log", "alert">>) = <<"alert">>
    /\ Tail(<<"alert">>) = <<>>
    /\ Tail(<<"reload", "total", "log">>) = <<"total", "log">>
    /\ Tail(<<"total", "log">>) = <<"log">>
    /\ Tail(<<"log">>) = <<>>
OBVIOUS

LEMMA NothingLeftToDrop == <<>> \notin Dropping
<1>1. \A plan \in Dropping : Len(plan) > 0
  BY DEF Dropping
<1>2. Len(<<>>) = 0
  OBVIOUS
<1> QED
  BY <1>1, <1>2

\* Only the invalidation leaves a plan that drops the pages.
LEMMA TailOfPlan ==
    ASSUME NEW plan \in Plans, plan # <<>>
    PROVE  /\ Tail(plan) \in Plans
           /\ plan \in Dropping /\ Head(plan) # "invalidate" => Tail(plan) \in Dropping
<1>1. ASSUME plan \in Dropping, Head(plan) # "invalidate"
      PROVE  Tail(plan) \in Dropping
  <2>1. plan # <<"invalidate", "log">> /\ plan # <<"invalidate">>
    BY <1>1
  <2> QED
    BY <1>1, <2>1, TailsOfPlans DEF Dropping
<1>2. ASSUME plan \in Dropping PROVE Tail(plan) \in Plans
  BY <1>2, TailsOfPlans, Zenon DEF Dropping, Plans
<1>3. ASSUME plan \notin Dropping PROVE Tail(plan) \in Plans
  <2>1. plan \in {<<"reload", "total", "log", "alert">>, <<"total", "log", "alert">>,
          <<"log", "alert">>, <<"alert">>, <<"reload", "total", "log">>,
          <<"total", "log">>, <<"log">>}
    BY <1>3, Zenon DEF Plans
  <2> QED
    BY <2>1, TailsOfPlans, Zenon DEF Plans
<1> QED
  BY <1>1, <1>2, <1>3

LEMMA OnlyEditsWrite ==
    ASSUME NEW plan \in Plans, plan # <<>>, Head(plan) = "write"
    PROVE  Tail(plan) \in Dropping
<1>1. plan = <<"write", "invalidate", "log">>
  BY DEF Plans, Dropping
<1> QED
  BY <1>1, TailsOfPlans, Zenon DEF Dropping

LEMMA MaxOfTwo ==
    ASSUME NEW a \in Nat, NEW b \in Nat
    PROVE  Max({a, b}) \in {a, b}
<1>1. \E x \in {a, b} : \A y \in {a, b} : x >= y
  OBVIOUS
<1> QED
  BY <1>1 DEF Max

LEMMA IdleRecord == Idle \in JobRecord /\ Idle.todo = <<>> /\ Idle.wrote = 0
<1>1. Empty \in Stocks /\ None \in [Variant -> Int]
  BY DEF Empty, Stocks, None
<1>2. (CHOOSE v \in Variant : TRUE) \in Variant
  BY InventoryAssumption
<1>3. <<>> \in Plans
  BY DEF Plans
<1> QED
  BY <1>1, <1>2, <1>3 DEF Idle, JobRecord

\* The pages' floor only rises, so what is covered stays covered.
Rises == /\ version' \in Nat /\ version <= version'
         /\ floor' \in [Process -> Nat]
         /\ \A p \in Process : floor[p] <= floor'[p]

LEMMA BeginKeeps ==
    ASSUME ShowInv, Rises, NEW t \in Thread, NEW j \in JobRecord,
           job' = [job EXCEPT ![t] = j], UNCHANGED finished,
           j.wrote <= version', j.todo \in Dropping \/ j.wrote = 0
    PROVE  RequestInv'
<1>1. /\ job' \in [Thread -> JobRecord] /\ job'[t] = j
      /\ \A u \in Thread : u # t => job'[u] = job[u]
  BY DEF ShowInv, RequestInv
<1>2. \A u \in Thread : Home[u] \in Process /\ job[u].wrote \in Nat
  BY InventoryAssumption DEF ShowInv, RequestInv, JobRecord
<1>3. \A p \in Process : finished'[p] <= floor'[p]
  BY DEF ShowInv, CacheInv, CacheTypeOK, RequestInv, Rises
<1>4. Covered(t)'
  BY <1>1, <1>2 DEF Covered, Rises
<1>5. ASSUME NEW u \in Thread, u # t PROVE Covered(u)'
  BY <1>1, <1>2, <1>5
     DEF ShowInv, RequestInv, Covered, Rises, CacheInv, CacheTypeOK
<1> QED
  BY <1>1, <1>3, <1>4, <1>5 DEF ShowInv, RequestInv

LEMMA AdvanceKeeps ==
    ASSUME ShowInv, Rises, NEW t \in Thread, NEW j \in JobRecord, Advance(t, j),
           j.todo # <<>>, j.wrote <= version',
           Tail(j.todo) \notin Dropping => j.wrote <= floor'[Home[t]]
    PROVE  RequestInv'
<1> DEFINE left == Tail(j.todo)
           next == IF left = <<>> THEN Idle ELSE [j EXCEPT !.todo = left]
<1>1. j.todo \in Plans /\ j.wrote \in Nat /\ left \in Plans
  BY TailOfPlan DEF JobRecord
<1>2. /\ next \in JobRecord /\ next.wrote <= version'
      /\ next.todo \notin Dropping => next.wrote <= floor'[Home[t]]
  <2>1. CASE left = <<>>
    BY <2>1, IdleRecord, InventoryAssumption DEF Rises
  <2>2. CASE left # <<>>
    <3>1. /\ next \in JobRecord /\ next.todo = left /\ next.wrote = j.wrote
      BY <1>1, <2>2 DEF JobRecord
    <3> QED
      BY <3>1
  <2> QED
    BY <2>1, <2>2
<1>3. job' = [job EXCEPT ![t] = next]
  BY DEF Advance
<1> HIDE DEF next
<1>4. /\ job' \in [Thread -> JobRecord] /\ job'[t] = next
      /\ \A u \in Thread : u # t => job'[u] = job[u]
  BY <1>2, <1>3 DEF ShowInv, RequestInv
<1>5. \A u \in Thread : Home[u] \in Process /\ job[u].wrote \in Nat
  BY InventoryAssumption DEF ShowInv, RequestInv, JobRecord
<1>6. /\ finished' \in [Process -> Nat]
      /\ \A p \in Process : finished'[p] <= floor'[p]
  <2>1. CASE left = <<>>
    <3> DEFINE later == Max({finished[Home[t]], j.wrote})
    <3>1. /\ later \in {finished[Home[t]], j.wrote}
          /\ finished[Home[t]] \in Nat
      BY <1>1, <1>5, MaxOfTwo DEF ShowInv, RequestInv
    <3>2. finished' = [finished EXCEPT ![Home[t]] = later]
      BY <2>1 DEF Advance
    <3>3. left \notin Dropping
      BY <2>1, NothingLeftToDrop
    <3>4. later \in Nat /\ later <= floor'[Home[t]]
      BY <1>1, <1>5, <3>1, <3>3 DEF ShowInv, RequestInv, Rises, CacheInv, CacheTypeOK
    <3> HIDE DEF later
    <3> QED
      BY <1>5, <3>2, <3>4 DEF ShowInv, RequestInv, Rises, CacheInv, CacheTypeOK
  <2>2. CASE left # <<>>
    BY <2>2 DEF Advance, ShowInv, RequestInv, Rises, CacheInv, CacheTypeOK
  <2> QED
    BY <2>1, <2>2
<1>7. Covered(t)'
  BY <1>2, <1>4 DEF Covered
<1>8. ASSUME NEW u \in Thread, u # t PROVE Covered(u)'
  BY SMTT(30), <1>4, <1>5, <1>8
     DEF ShowInv, RequestInv, Covered, Rises, CacheInv, CacheTypeOK
<1> QED
  BY <1>4, <1>6, <1>7, <1>8 DEF RequestInv

-------------------------------------------------------------------------------
(* Every step keeps the requests in order and the stock a stock *)

LEMMA RisesWhenWritten ==
    ASSUME ShowInv, version' = version + 1 \/ version' = version, UNCHANGED floor
    PROVE  Rises
BY DEF ShowInv, CacheInv, CacheTypeOK, Rises

LEMMA StockChanges ==
    ASSUME inventory \in Stocks, NEW v \in DOMAIN inventory, NEW change \in Int,
           inventory[v] + change >= 0,
           inventory' = [inventory EXCEPT ![v] = @ + change]
    PROVE  inventory' \in Stocks
<1>1. PICK S \in SUBSET Variant : inventory \in [S -> Nat]
  BY DEF Stocks
<1>2. inventory' \in [S -> Nat]
  BY <1>1
<1> QED
  BY <1>2 DEF Stocks

LEMMA FormsAreStocks ==
    ASSUME NEW inv \in Stocks, NEW form \in Forms(inv)
    PROVE  form \in Stocks
<1>1. PICK S \in SUBSET Variant : inv \in [S -> Nat]
  BY DEF Stocks
<1>2. CASE \E v \in Variant, n \in Typed : form = With(inv, v, n)
  <2>1. PICK v \in Variant, n \in Typed : form = With(inv, v, n)
    BY <1>2
  <2>2. form \in [S \union {v} -> Nat] /\ S \union {v} \in SUBSET Variant
    BY <1>1, <2>1, InventoryAssumption DEF With
  <2> QED
    BY <2>2 DEF Stocks
<1>3. CASE \E v \in DOMAIN inv : form = Without(inv, v)
  <2>1. PICK v \in DOMAIN inv : form = Without(inv, v)
    BY <1>3
  <2>2. form \in [S \ {v} -> Nat] /\ S \ {v} \in SUBSET Variant
    BY <1>1, <2>1 DEF Without
  <2> QED
    BY <2>2 DEF Stocks
<1> QED
  BY <1>2, <1>3 DEF Forms

LEMMA InitialIsStock == Initial \in Stocks
BY InventoryAssumption DEF IsInventory, Stocks

LEMMA OnlyTyped ==
    ASSUME NEW v \in Variant, NEW change \in Int
    PROVE  Only(v, change) \in [Variant -> Int]
BY DEF Only, None

LEMMA StockTyped ==
    ASSUME NEW inv \in Stocks, NEW v PROVE Stock(inv, v) \in Nat
BY DEF Stocks, Stock

\* A request that only carries a change has nothing to cover.
LEMMA ChangeJob ==
    ASSUME NEW todo \in Plans, NEW v \in Variant, NEW change \in Int
    PROVE  LET j == [Idle EXCEPT !.todo = todo, !.of = v, !.change = Only(v, change)]
           IN j \in JobRecord /\ j.wrote = 0
<1>1. Only(v, change) \in [Variant -> Int]
  BY OnlyTyped
<1> QED
  BY <1>1, IdleRecord DEF JobRecord

LEMMA BeginPlain ==
    ASSUME ShowInv, NEW t \in Thread, NEW j \in JobRecord,
           job' = [job EXCEPT ![t] = j], UNCHANGED <<finished, floor>>,
           version' = version + 1 \/ version' = version, j.wrote = 0
    PROVE  RequestInv'
<1>1. Rises
  BY RisesWhenWritten
<1>2. j.wrote <= version'
  BY <1>1 DEF Rises
<1> QED
  BY <1>1, <1>2, BeginKeeps

LEMMA SellKeeps ==
    ASSUME ShowInv, NEW t \in Thread, NEW v \in Variant, NEW quantity \in Quantity,
           Sell(t, v, quantity)
    PROVE  RequestInv' /\ inventory' \in Stocks
<1> DEFINE j == [Idle EXCEPT !.todo = AfterSale, !.of = v,
                             !.change = Only(v, -quantity)]
<1>1. -quantity \in Int /\ AfterSale \in Plans
  BY InventoryAssumption DEF AfterSale, Plans
<1>2. j \in JobRecord /\ j.wrote = 0
  BY <1>1, ChangeJob
<1>3. job' = [job EXCEPT ![t] = j] /\ UNCHANGED <<finished, floor>>
      /\ version' = version + 1
  BY DEF Sell, Start, Begin, Change, cacheRest
<1> HIDE DEF j
<1>4. RequestInv'
  BY <1>2, <1>3, BeginPlain
<1>5. inventory' \in Stocks
  BY <1>1, StockChanges, InventoryAssumption
     DEF Sell, Suffices, Change, ShowInv, Stocks
<1> QED
  BY <1>4, <1>5

LEMMA RestoreKeeps ==
    ASSUME ShowInv, NEW t \in Thread, NEW v \in Variant, NEW quantity \in Quantity,
           Restore(t, v, quantity)
    PROVE  RequestInv' /\ inventory' \in Stocks
<1> DEFINE plan == <<"reload", "total", "log">>
           j == [Idle EXCEPT !.todo = plan, !.of = v, !.change = Only(v, quantity)]
<1>1. quantity \in Nat /\ quantity \in Int /\ plan \in Plans
  BY InventoryAssumption DEF Plans
<1> HIDE DEF plan
<1>2. j \in JobRecord /\ j.wrote = 0
  BY <1>1, ChangeJob
<1>3. /\ job' = [job EXCEPT ![t] = j] /\ UNCHANGED <<finished, floor>>
      /\ version' = version + 1 \/ version' = version
  BY DEF Restore, Start, Begin, Change, cacheRest, plan
<1> HIDE DEF j
<1>4. RequestInv'
  BY <1>2, <1>3, BeginPlain
<1>5. inventory' \in Stocks
  <2>1. CASE v \in DOMAIN inventory /\ Change(v, quantity)
    <3>1. inventory[v] \in Nat
      BY <2>1 DEF ShowInv, Stocks
    <3>2. quantity \in Int /\ inventory[v] + quantity >= 0
      BY <1>1, <3>1
    <3>3. inventory' = [inventory EXCEPT ![v] = @ + quantity]
      BY <2>1 DEF Change
    <3> QED
      BY <2>1, <3>2, <3>3, StockChanges DEF ShowInv
  <2>2. CASE UNCHANGED inventory
    BY <2>2 DEF ShowInv
  <2> QED
    BY <2>1, <2>2 DEF Restore
<1> QED
  BY <1>4, <1>5

LEMMA AdjustKeeps ==
    ASSUME ShowInv, NEW t \in Thread, NEW v \in Variant, NEW change \in Adjustment,
           Adjust(t, v, change)
    PROVE  RequestInv' /\ inventory' \in Stocks
<1> DEFINE j == [Idle EXCEPT !.todo = AfterAdjust, !.of = v, !.change = Only(v, change),
                             !.seen = inventory', !.wrote = version']
<1>1. change \in Int /\ AfterAdjust \in Plans /\ AfterAdjust \in Dropping
  BY InventoryAssumption DEF AfterAdjust, Plans, Dropping
<1>2. inventory' \in Stocks
  BY <1>1, StockChanges DEF Adjust, Suffices, Change, ShowInv, Stocks
<1>3. /\ job' = [job EXCEPT ![t] = j] /\ UNCHANGED <<finished, floor>>
      /\ version' = version + 1
  BY DEF Adjust, Start, Begin, Change, cacheRest
<1>4. Rises
  BY <1>3, RisesWhenWritten
<1>5. Only(v, change) \in [Variant -> Int]
  BY <1>1, OnlyTyped
<1>6. j \in JobRecord /\ j.wrote = version' /\ j.todo \in Dropping
  BY <1>1, <1>2, <1>4, <1>5, IdleRecord DEF JobRecord, Rises
<1> HIDE DEF j
<1>7. j.wrote <= version'
  BY <1>4, <1>6 DEF Rises
<1> QED
  BY <1>2, <1>3, <1>4, <1>6, <1>7, BeginKeeps

LEMMA EditKeeps ==
    ASSUME ShowInv, NEW t \in Thread, Edit(t)
    PROVE  RequestInv' /\ inventory' \in Stocks
<1>1. inventory' \in Stocks /\ inventory \in Stocks
  BY DEF Edit, ShowInv
<1>2. PICK form \in Forms(inventory) \union Forms(Initial) :
             Start(t, [Idle EXCEPT !.todo = AfterEdit, !.seen = inventory,
                                !.form = form,
                                !.change = [v \in Variant |->
                                    Stock(form, v) - Stock(inventory, v)]])
  BY DEF Edit
<1>3. form \in Stocks
  BY <1>1, <1>2, FormsAreStocks, InitialIsStock
<1> DEFINE change == [v \in Variant |-> Stock(form, v) - Stock(inventory, v)]
           j == [Idle EXCEPT !.todo = AfterEdit, !.seen = inventory,
                             !.form = form, !.change = change]
<1>4. change \in [Variant -> Int]
  BY <1>1, <1>3, StockTyped
<1>5. job' = [job EXCEPT ![t] = j] /\ UNCHANGED <<finished, floor, version>>
  BY <1>2 DEF Start, Begin, Edit, cacheVars
<1>6. AfterEdit \in Plans
  BY DEF AfterEdit, Plans, Dropping
<1> HIDE DEF change
<1>7. j \in JobRecord /\ j.wrote = 0
  BY <1>1, <1>3, <1>4, <1>6, IdleRecord DEF JobRecord
<1> HIDE DEF j
<1> QED
  BY <1>1, <1>5, <1>7, BeginPlain

LEMMA CommitKeeps ==
    ASSUME ShowInv, NEW t \in Thread, NEW r \in Receiving, Commit(t, r)
    PROVE  RequestInv' /\ inventory' \in Stocks
<1> DEFINE plan == <<"invalidate">>
           j == [Idle EXCEPT !.todo = plan, !.wrote = version']
<1>1. Incoming[r] \in Stocks
  BY InventoryAssumption DEF IsInventory, Stocks
<1>2. inventory' \in Stocks
  <2>1. PICK S \in SUBSET Variant : inventory \in [S -> Nat]
    BY DEF ShowInv, Stocks
  <2>2. PICK R \in SUBSET Variant : Incoming[r] \in [R -> Nat]
    BY <1>1 DEF Stocks
  <2>3. \A v : Stock(inventory, v) \in Nat /\ Stock(Incoming[r], v) \in Nat
    BY <1>1, StockTyped DEF ShowInv
  <2>4. Received(r) \in [S \union R -> Nat]
    BY <2>1, <2>2, <2>3 DEF Received
  <2>5. S \union R \in SUBSET Variant
    OBVIOUS
  <2> QED
    BY <2>4, <2>5 DEF Commit, Stocks
<1>3. /\ job' = [job EXCEPT ![t] = j] /\ UNCHANGED <<finished, floor>>
      /\ version' = version + 1
  BY DEF Commit, Begin, cacheRest
<1>4. Rises
  BY <1>3, RisesWhenWritten
<1>5. plan \in Plans /\ plan \in Dropping
  BY DEF Plans, Dropping
<1>6. j \in JobRecord /\ j.wrote = version' /\ j.todo \in Dropping
  BY <1>4, <1>5, IdleRecord DEF JobRecord, Rises
<1> HIDE DEF j
<1>7. j.wrote <= version'
  BY <1>4, <1>6 DEF Rises
<1> QED
  BY <1>2, <1>3, <1>4, <1>6, <1>7, BeginKeeps

\* What the other steps of a request leave alone.
LEMMA GoOn ==
    ASSUME ShowInv, NEW t \in Thread, job[t].todo # <<>>, NEW j \in JobRecord,
           j.todo = job[t].todo, j.wrote = job[t].wrote, Advance(t, j),
           version' = version + 1 \/ version' = version, UNCHANGED floor,
           Head(job[t].todo) # "invalidate"
    PROVE  RequestInv'
<1>1. Rises
  BY RisesWhenWritten
<1>2. job[t] \in JobRecord /\ job[t].todo \in Plans /\ Covered(t)
  BY DEF ShowInv, RequestInv, JobRecord
<1>3. j.wrote <= version'
  BY <1>1, <1>2 DEF Covered, Rises, JobRecord, ShowInv, CacheInv, CacheTypeOK
<1>4. Tail(j.todo) \notin Dropping => j.wrote <= floor'[Home[t]]
  BY <1>2, TailOfPlan DEF Covered
<1> QED
  BY <1>1, <1>3, <1>4, AdvanceKeeps

LEMMA SteadyStepKeeps ==
    ASSUME ShowInv, NEW t \in Thread,
           Reload(t) \/ WriteTotal(t) \/ Log(t) \/ Alert(t)
    PROVE  RequestInv' /\ inventory' \in Stocks
<1>1. job[t] \in JobRecord /\ inventory \in Stocks
  BY DEF ShowInv, RequestInv
<1>2. inventory' \in Stocks
  BY <1>1 DEF Reload, WriteTotal, Log, Alert
<1>3. /\ job[t].todo # <<>> /\ Head(job[t].todo) # "invalidate"
      /\ version' = version + 1 \/ version' = version
      /\ UNCHANGED floor
  BY DEF Reload, WriteTotal, Log, Alert, Due, cacheVars, cacheRest
<1>4. CASE Reload(t)
  <2> DEFINE j == [job[t] EXCEPT !.seen = inventory]
  <2>1. j \in JobRecord /\ j.todo = job[t].todo /\ j.wrote = job[t].wrote
    BY <1>1 DEF JobRecord
  <2>2. Advance(t, j)
    BY <1>4 DEF Reload
  <2> HIDE DEF j
  <2> QED
    BY <1>2, <1>3, <2>1, <2>2, GoOn
<1>5. CASE WriteTotal(t) \/ Log(t) \/ Alert(t)
  <2>1. Advance(t, job[t])
    BY <1>5 DEF WriteTotal, Log, Alert
  <2> QED
    BY <1>1, <1>2, <1>3, <2>1, GoOn
<1> QED
  BY <1>4, <1>5

LEMMA WriteFormKeeps ==
    ASSUME ShowInv, NEW t \in Thread, WriteForm(t)
    PROVE  RequestInv' /\ inventory' \in Stocks
<1> DEFINE j == [job[t] EXCEPT !.wrote = version']
<1>1. /\ job[t] \in JobRecord /\ job[t].todo \in Plans /\ job[t].form \in Stocks
      /\ version' = version + 1 /\ UNCHANGED floor
  BY DEF ShowInv, RequestInv, JobRecord, WriteForm, cacheRest
<1>2. Rises
  BY <1>1, RisesWhenWritten
<1>3. j \in JobRecord /\ j.todo = job[t].todo /\ j.wrote = version'
  BY <1>1, <1>2 DEF JobRecord, Rises
<1>4. Advance(t, j) /\ inventory' = job[t].form
  BY DEF WriteForm
<1>5. job[t].todo # <<>> /\ Head(job[t].todo) = "write"
  BY DEF WriteForm, Due
<1>6. Tail(job[t].todo) \in Dropping
  BY <1>1, <1>5, OnlyEditsWrite
<1> HIDE DEF j
<1>7. j.wrote <= version'
  BY <1>2, <1>3 DEF Rises
<1>8. RequestInv'
  BY <1>2, <1>3, <1>4, <1>5, <1>6, <1>7, AdvanceKeeps
<1> QED
  BY <1>1, <1>4, <1>8

LEMMA DropPagesKeeps ==
    ASSUME ShowInv, NEW t \in Thread, DropPages(t)
    PROVE  RequestInv' /\ inventory' \in Stocks
<1>1. Home[t] \in Process /\ job[t] \in JobRecord /\ Covered(t)
  BY InventoryAssumption DEF ShowInv, RequestInv
<1>2. /\ Rises /\ UNCHANGED version /\ floor'[Home[t]] = version
  BY <1>1 DEF DropPages, Invalidate, Rises, ShowInv, CacheInv, CacheTypeOK,
              FloorReached
<1>3. Advance(t, job[t]) /\ job[t].todo # <<>> /\ UNCHANGED inventory
  BY DEF DropPages, Due
<1>4. job[t].wrote <= version' /\ job[t].wrote <= floor'[Home[t]]
  BY <1>1, <1>2 DEF Covered
<1> QED
  BY <1>1, <1>2, <1>3, <1>4, AdvanceKeeps DEF ShowInv

LEMMA ShowStart == Init => ShowInv
<1> SUFFICES ASSUME Init PROVE ShowInv
  OBVIOUS
<1>1. CacheInv
  BY CacheStart DEF Init
<1>2. inventory \in Stocks
  BY InitialIsStock DEF Init
<1>3. RequestInv
  BY IdleRecord, InventoryAssumption DEF Init, CacheInit, RequestInv, Covered
<1> QED
  BY <1>1, <1>2, <1>3 DEF ShowInv

LEMMA ShowStep == ShowInv /\ [Next]_vars => ShowInv'
<1> SUFFICES ASSUME ShowInv, [Next]_vars PROVE ShowInv'
  OBVIOUS
<1>1. CacheInv'
  BY StepIsCacheStep, CacheStep DEF ShowInv
<1>2. CASE UNCHANGED <<inventory, job, finished, version, floor>>
  BY <1>1, <1>2 DEF ShowInv, RequestInv, Covered
<1>3. ASSUME NEW t \in Thread, NEW v \in Variant, NEW quantity \in Quantity,
             Sell(t, v, quantity) \/ Restore(t, v, quantity)
      PROVE  RequestInv' /\ inventory' \in Stocks
  BY <1>3, SellKeeps, RestoreKeeps
<1>4. ASSUME NEW t \in Thread, NEW v \in Variant, NEW change \in Adjustment,
             Adjust(t, v, change)
      PROVE  RequestInv' /\ inventory' \in Stocks
  BY <1>4, AdjustKeeps
<1>5. ASSUME NEW t \in Thread,
             \/ Edit(t) \/ Reload(t) \/ WriteTotal(t) \/ WriteForm(t)
             \/ Log(t) \/ Alert(t) \/ DropPages(t)
      PROVE  RequestInv' /\ inventory' \in Stocks
  BY <1>5, EditKeeps, SteadyStepKeeps, WriteFormKeeps, DropPagesKeeps
<1>6. ASSUME NEW t \in Thread, NEW r \in Receiving, Commit(t, r)
      PROVE  RequestInv' /\ inventory' \in Stocks
  BY <1>6, CommitKeeps
<1>7. ASSUME NEW r \in Receiving, Preview(r)
      PROVE  UNCHANGED <<inventory, job, finished, version, floor>>
  BY <1>7 DEF Preview, cacheVars
<1>8. ASSUME ServePages
      PROVE  UNCHANGED <<inventory, job, finished, version, floor>>
  BY <1>8 DEF ServePages, Serve, Miss, NoteGeneration, Build, Store, Drop
<1>9. CASE UNCHANGED vars
  BY <1>2, <1>9 DEF vars, cacheVars
<1> QED
  BY <1>1, <1>2, <1>3, <1>4, <1>5, <1>6, <1>7, <1>8, <1>9 DEF Next, ShowInv

\* Once an admin's request is answered, the process that answered it shows
\* no page from before its write: the request always drops the pages after
\* the last of its writes (adjust_product_stock, update_product,
\* commit_receiving).
THEOREM ChangesShow == Spec => []ChangeShows
<1>1. ShowInv => ChangeShows
  <2> SUFFICES ASSUME ShowInv, NEW p \in Process, page[p] # NoPage
               PROVE  page[p] >= finished[p]
    BY DEF ChangeShows
  <2> QED
    BY DEF ShowInv, CacheInv, CacheTypeOK, RequestInv, ServesNothingStale
<1> QED
  BY <1>1, ShowStart, ShowStep, PTL DEF Spec

-------------------------------------------------------------------------------
(* Deliveries *)

ReceivingInv ==
    /\ receivings \subseteq DOMAIN preview /\ DOMAIN preview \subseteq Receiving
    /\ \A r \in DOMAIN preview : DOMAIN preview[r] = DOMAIN Incoming[r]
    /\ stocked = [r \in Receiving |-> IF r \in receivings THEN 1 ELSE 0]

LEMMA ReceivingStart == Init => ReceivingInv
BY DEF Init, Empty, ReceivingInv

\* Only a preview and a commit touch what receiving keeps.
LEMMA OthersLeaveReceiving ==
    ASSUME [Next]_vars
    PROVE  \/ UNCHANGED receiving
           \/ \E r \in Receiving : Preview(r)
           \/ \E t \in Thread, r \in Receiving : Commit(t, r)
<1>1. ASSUME NEW t \in Thread, NEW v \in Variant, NEW quantity \in Quantity,
             Sell(t, v, quantity) \/ Restore(t, v, quantity)
      PROVE  UNCHANGED receiving
  BY <1>1 DEF Sell, Restore
<1>2. ASSUME NEW t \in Thread, NEW v \in Variant, NEW change \in Adjustment,
             Adjust(t, v, change)
      PROVE  UNCHANGED receiving
  BY <1>2 DEF Adjust
<1>3. ASSUME NEW t \in Thread,
             \/ Edit(t) \/ Reload(t) \/ WriteTotal(t) \/ WriteForm(t)
             \/ Log(t) \/ Alert(t) \/ DropPages(t)
      PROVE  UNCHANGED receiving
  BY <1>3 DEF Edit, Reload, WriteTotal, WriteForm, Log, Alert, DropPages
<1>4. CASE ServePages
  BY <1>4 DEF ServePages
<1>5. CASE UNCHANGED vars
  BY <1>5 DEF vars
<1> QED
  BY <1>1, <1>2, <1>3, <1>4, <1>5 DEF Next

LEMMA ReceivingStep == ReceivingInv /\ [Next]_vars => ReceivingInv'
<1> SUFFICES ASSUME ReceivingInv, [Next]_vars PROVE ReceivingInv'
  OBVIOUS
<1>1. CASE UNCHANGED receiving
  BY <1>1 DEF receiving, ReceivingInv
<1>2. ASSUME NEW r \in Receiving, Preview(r) PROVE ReceivingInv'
  BY <1>2 DEF Preview, ReceivingInv
<1>3. ASSUME NEW t \in Thread, NEW r \in Receiving, Commit(t, r)
      PROVE  ReceivingInv'
  BY <1>3 DEF Commit, Replayed, ReceivingInv
<1> QED
  BY <1>1, <1>2, <1>3, OthersLeaveReceiving

\* A delivery is added to the stock at most once, however often its preview
\* is sent and whatever was sold in between (commit_receiving).
THEOREM DeliveriesOnce == Spec => []ReceivedOnce
<1>1. ReceivingInv => ReceivedOnce
  BY DEF ReceivingInv, ReceivedOnce
<1> QED
  BY <1>1, ReceivingStart, ReceivingStep, PTL DEF Spec

LEMMA CommitAsPreviewed ==
    ASSUME ShowInv, ReceivingInv, NEW t \in Thread, NEW r \in Receiving, Commit(t, r)
    PROVE  /\ receivings' \ receivings = {r}
           /\ \A v \in DOMAIN preview[r] :
                 inventory'[v] = Incoming[r][v]
                     + (IF preview[r][v] = Missing THEN 0 ELSE preview[r][v])
           /\ \A v \in DOMAIN inventory \ DOMAIN preview[r] : inventory'[v] = inventory[v]
           /\ totalStock' = Total(inventory')
<1>1. /\ DOMAIN preview[r] = DOMAIN Incoming[r]
      /\ inventory' = Received(r) /\ totalStock' = Total(inventory')
      /\ \A v \in DOMAIN preview[r] : Seen(v) = preview[r][v]
      /\ receivings' \ receivings = {r}
  BY DEF Commit, Stale, Replayed, ReceivingInv
<1>2. /\ \A v \in DOMAIN inventory : inventory[v] \in Nat /\ inventory[v] # Missing
      /\ \A v \in DOMAIN Incoming[r] : Incoming[r][v] \in Nat
  BY InventoryAssumption DEF ShowInv, Stocks, IsInventory
<1>3. \A v \in DOMAIN preview[r] :
          inventory'[v] = Incoming[r][v]
              + (IF preview[r][v] = Missing THEN 0 ELSE preview[r][v])
  BY <1>1, <1>2 DEF Received, Stock, Seen
<1>4. \A v \in DOMAIN inventory \ DOMAIN preview[r] : inventory'[v] = inventory[v]
  BY <1>1, <1>2 DEF Received, Stock
<1> QED
  BY <1>1, <1>3, <1>4

\* A committed receiving leaves exactly the final stock its preview showed,
\* or changes nothing: the comparison with the previewed stock and the
\* increments are one transaction (commit_receiving).
THEOREM DeliveriesAsPreviewed == Spec => ReceivedAsPreviewed
<1>1. ASSUME ShowInv, ReceivingInv, [Next]_vars
      PROVE  [\A r \in receivings' \ receivings :
                /\ \A v \in DOMAIN preview[r] :
                      inventory'[v] = Incoming[r][v]
                          + (IF preview[r][v] = Missing THEN 0 ELSE preview[r][v])
                /\ \A v \in DOMAIN inventory \ DOMAIN preview[r] :
                      inventory'[v] = inventory[v]
                /\ totalStock' = Total(inventory')]_vars
  <2>1. CASE UNCHANGED receiving
    BY <2>1 DEF receiving
  <2>2. ASSUME NEW r \in Receiving, Preview(r) PROVE receivings' = receivings
    BY <2>2 DEF Preview
  <2>3. ASSUME NEW t \in Thread, NEW r \in Receiving, Commit(t, r)
        PROVE  \A s \in receivings' \ receivings :
                /\ \A v \in DOMAIN preview[s] :
                      inventory'[v] = Incoming[s][v]
                          + (IF preview[s][v] = Missing THEN 0 ELSE preview[s][v])
                /\ \A v \in DOMAIN inventory \ DOMAIN preview[s] :
                      inventory'[v] = inventory[v]
                /\ totalStock' = Total(inventory')
    BY <1>1, <2>3, CommitAsPreviewed
  <2> QED
    BY <1>1, <2>1, <2>2, <2>3, OthersLeaveReceiving
<1> QED
  BY <1>1, ShowStart, ShowStep, ReceivingStart, ReceivingStep, PTL
     DEF Spec, ReceivedAsPreviewed
-------------------------------------------------------------------------------
(* The stock and its history: what a request has changed and not yet logged    *)

\* The positive amounts of P, unit by unit: a sum that can be counted.
Units(P) == {p \in Thread \X Nat : 1 <= p[2] /\ p[2] <= P[p[1]]}
Negated(P) == [t \in Thread |-> -P[t]]

Countable(P) == IsFiniteSet(Units(P)) /\ IsFiniteSet(Units(Negated(P)))

\* The sum of P over the threads.
Balance(P) == Cardinality(Units(P)) - Cardinality(Units(Negated(P)))

\* The units of thread t in an amount of n.
Share(t, n) == {t} \X (1..n)

LEMMA ShareSize ==
    ASSUME NEW t, NEW n \in Nat
    PROVE  IsFiniteSet(Share(t, n)) /\ Cardinality(Share(t, n)) = n
<1> DEFINE f == [k \in 1..n |-> <<t, k>>]
<1>1. f \in Bijection(1..n, Share(t, n))
  <2>1. f \in [1..n -> Share(t, n)]
    BY DEF Share
  <2>2. \A j, k \in 1..n : f[j] = f[k] => j = k
    OBVIOUS
  <2>3. \A p \in Share(t, n) : \E k \in 1..n : f[k] = p
    BY DEF Share
  <2> QED
    BY <2>1, <2>2, <2>3, Fun_IsBij
<1>2. ExistsBijection(1..n, Share(t, n))
  BY <1>1 DEF ExistsBijection
<1>3. IsFiniteSet(1..n) /\ Cardinality(1..n) = n
  <2>1. /\ IsFiniteSet(1..n)
        /\ Cardinality(1..n) = IF 1 > n THEN 0 ELSE n - 1 + 1
    BY FS_Interval
  <2> QED
    BY <2>1
<1> QED
  BY <1>2, <1>3, FS_Bijection

\* A set of units with a share of thread t that it did not have.
LEMMA ShareAdded ==
    ASSUME NEW S, IsFiniteSet(S), NEW t, NEW n \in Nat, S \intersect Share(t, n) = {}
    PROVE  /\ IsFiniteSet(S \union Share(t, n))
           /\ Cardinality(S \union Share(t, n)) = Cardinality(S) + n
<1>1. IsFiniteSet(Share(t, n)) /\ Cardinality(Share(t, n)) = n
  BY ShareSize
<1>2. Cardinality(S) \in Nat
  BY FS_CardinalityType
<1>3. /\ IsFiniteSet(S \union Share(t, n))
      /\ Cardinality(S \union Share(t, n)) =
            Cardinality(S) + Cardinality(Share(t, n))
              - Cardinality(S \intersect Share(t, n))
  BY <1>1, FS_Union
<1>4. Cardinality(S \intersect Share(t, n)) = 0
  BY FS_EmptySet
<1> QED
  BY <1>1, <1>2, <1>3, <1>4

\* The units beside those of thread t.
Beside(P, t) == {p \in Units(P) : p[1] # t}

Positive(n) == IF n > 0 THEN n ELSE 0

LEMMA UnitsSplit ==
    ASSUME NEW P \in [Thread -> Int], NEW t \in Thread, IsFiniteSet(Beside(P, t))
    PROVE  /\ IsFiniteSet(Units(P))
           /\ Cardinality(Units(P)) = Cardinality(Beside(P, t)) + Positive(P[t])
<1>1. PICK n \in Nat : n = Positive(P[t])
  BY DEF Positive
<1>2. Units(P) = Beside(P, t) \union Share(t, n)
  BY <1>1 DEF Units, Beside, Share, Positive
<1>3. Beside(P, t) \intersect Share(t, n) = {}
  BY DEF Beside, Share
<1> QED
  BY <1>1, <1>2, <1>3, ShareAdded

\* A sum follows the one amount that changes.
LEMMA UnitsFollow ==
    ASSUME NEW P \in [Thread -> Int], NEW Q \in [Thread -> Int], NEW t \in Thread,
           \A u \in Thread \ {t} : Q[u] = P[u], IsFiniteSet(Units(P))
    PROVE  /\ IsFiniteSet(Units(Q))
           /\ Cardinality(Units(Q)) - Positive(Q[t])
                = Cardinality(Units(P)) - Positive(P[t])
<1>1. IsFiniteSet(Beside(P, t))
  BY FS_Subset DEF Beside
<1>2. Beside(Q, t) = Beside(P, t)
  BY DEF Beside, Units
<1>3. PICK m \in Nat : m = Cardinality(Beside(P, t))
  BY <1>1, FS_CardinalityType
<1>4. Positive(P[t]) \in Nat /\ Positive(Q[t]) \in Nat
  BY DEF Positive
<1>5. Cardinality(Units(P)) = m + Positive(P[t])
  BY <1>1, <1>3, UnitsSplit
<1>6. IsFiniteSet(Units(Q)) /\ Cardinality(Units(Q)) = m + Positive(Q[t])
  BY <1>1, <1>2, <1>3, UnitsSplit
<1> QED
  BY <1>4, <1>5, <1>6

LEMMA BalanceFollows ==
    ASSUME NEW P \in [Thread -> Int], NEW Q \in [Thread -> Int], NEW t \in Thread,
           \A u \in Thread \ {t} : Q[u] = P[u], Countable(P)
    PROVE  /\ Countable(Q)
           /\ Balance(P) \in Int
           /\ Balance(Q) = Balance(P) + (Q[t] - P[t])
<1>1. /\ Negated(P) \in [Thread -> Int] /\ Negated(Q) \in [Thread -> Int]
      /\ \A u \in Thread \ {t} : Negated(Q)[u] = Negated(P)[u]
      /\ Negated(P)[t] = -P[t] /\ Negated(Q)[t] = -Q[t]
  BY DEF Negated
<1>2. /\ IsFiniteSet(Units(Q))
      /\ Cardinality(Units(Q)) - Positive(Q[t])
           = Cardinality(Units(P)) - Positive(P[t])
  BY UnitsFollow DEF Countable
<1>3. /\ IsFiniteSet(Units(Negated(Q)))
      /\ Cardinality(Units(Negated(Q))) - Positive(Negated(Q)[t])
           = Cardinality(Units(Negated(P))) - Positive(Negated(P)[t])
  BY <1>1, UnitsFollow DEF Countable
<1>4. PICK a \in Nat, b \in Nat, c \in Nat, d \in Nat :
         /\ a = Cardinality(Units(P)) /\ b = Cardinality(Units(Negated(P)))
         /\ c = Cardinality(Units(Q)) /\ d = Cardinality(Units(Negated(Q)))
  BY <1>2, <1>3, FS_CardinalityType DEF Countable
<1>5. PICK x \in Int, y \in Int : x = P[t] /\ y = Q[t]
  OBVIOUS
<1>6. /\ c - Positive(y) = a - Positive(x)
      /\ d - Positive(-y) = b - Positive(-x)
  BY <1>1, <1>2, <1>3, <1>4, <1>5
<1>7. c - d = (a - b) + (y - x)
  BY <1>6 DEF Positive
<1> QED
  BY <1>2, <1>3, <1>4, <1>5, <1>7 DEF Countable, Balance

LEMMA BalanceOfNothing ==
    ASSUME NEW P \in [Thread -> Int], \A t \in Thread : P[t] = 0
    PROVE  Countable(P) /\ Balance(P) = 0
<1>1. Units(P) = {} /\ Units(Negated(P)) = {}
  BY DEF Units, Negated
<1> QED
  BY <1>1, FS_EmptySet DEF Countable, Balance

\* What is left to do of a request that has changed the stock and not logged it.
Logging == Plans \ {<<>>, <<"alert">>, <<"invalidate">>,
                    <<"write", "invalidate", "log">>}

Pending(j, v) == IF j.todo \in Logging THEN j.change[v] ELSE 0

\* What the requests under way will still log for variant v.
Unlogged(v) == [t \in Thread |-> Pending(job[t], v)]

\* The change an edit logs is the one from the product it read to its form.
EditsAsRead ==
    \A t \in Thread : job[t].todo = <<"write", "invalidate", "log">> =>
        \A v \in Variant :
            job[t].change[v] = Stock(job[t].form, v) - Stock(job[t].seen, v)

\* Stock, save what was adrift, is the first stock with all changes logged and
\* still to be logged.
Accounted ==
    \A v \in Variant :
        /\ Countable(Unlogged(v))
        /\ Stock(inventory, v) + adrift[v]
             = Stock(Initial, v) + movements[v] + Balance(Unlogged(v))

HistoryInv ==
    /\ ShowInv
    /\ movements \in [Variant -> Int] /\ adrift \in [Variant -> Int]
    /\ EditsAsRead
    /\ Accounted

LEMMA LoggingPlans ==
    /\ \A plan \in Logging : plan # <<>>
    /\ <<>> \notin Logging /\ <<"invalidate">> \notin Logging
    /\ AfterEdit \notin Logging
    /\ AfterSale \in Logging /\ AfterAdjust \in Logging
    /\ <<"reload", "total", "log">> \in Logging
<1>1. /\ AfterSale \in Plans /\ AfterAdjust \in Plans
      /\ <<"reload", "total", "log">> \in Plans
  BY DEF AfterSale, AfterAdjust, Plans, Dropping
<1>2. /\ AfterSale # <<>> /\ AfterAdjust # <<>>
      /\ AfterSale # <<"alert">> /\ AfterAdjust # <<"alert">>
      /\ AfterSale # <<"invalidate">> /\ AfterAdjust # <<"invalidate">>
      /\ AfterSale # <<"write", "invalidate", "log">>
      /\ AfterAdjust # <<"write", "invalidate", "log">>
  BY DEF AfterSale, AfterAdjust
<1>3. /\ <<"reload", "total", "log">> # <<>>
      /\ <<"reload", "total", "log">> # <<"alert">>
      /\ <<"reload", "total", "log">> # <<"invalidate">>
      /\ <<"reload", "total", "log">> # <<"write", "invalidate", "log">>
  OBVIOUS
<1>4. /\ \A plan \in Logging : plan # <<>>
      /\ <<>> \notin Logging /\ <<"invalidate">> \notin Logging
      /\ AfterEdit \notin Logging
  BY DEF Logging, AfterEdit
<1> QED
  BY <1>1, <1>2, <1>3, <1>4, Zenon DEF Logging

\* Only the write of an edit and the log itself change what is to be logged.
LEMMA LoggingGoesOn ==
    ASSUME NEW plan \in Plans, plan # <<>>
    PROVE  /\ Head(plan) \notin {"log", "write"} =>
                 (Tail(plan) \in Logging <=> plan \in Logging)
           /\ Head(plan) = "log" => plan \in Logging /\ Tail(plan) \notin Logging
           /\ Head(plan) = "write" => /\ plan = <<"write", "invalidate", "log">>
                                      /\ plan \notin Logging
                                      /\ Tail(plan) \in Logging
           /\ Tail(plan) # <<"write", "invalidate", "log">>
<1>1. CASE plan \in {<<"log", "alert">>, <<"log">>}
  <2>1. Head(plan) = "log" /\ plan \in Logging
    BY <1>1 DEF Logging, Plans
  <2>2. Tail(plan) \in {<<"alert">>, <<>>}
    BY <1>1, TailsOfPlans
  <2> QED
    BY <2>1, <2>2 DEF Logging
<1>2. CASE plan = <<"write", "invalidate", "log">>
  <2>1. Tail(plan) = <<"invalidate", "log">> /\ Head(plan) = "write"
    BY <1>2, TailsOfPlans
  <2>2. <<"invalidate", "log">> \in Logging
    BY DEF Logging, Plans, Dropping
  <2> QED
    BY <1>2, <2>1, <2>2 DEF Logging
<1>3. CASE plan \in {<<"alert">>, <<"invalidate">>}
  <2>1. Tail(plan) = <<>>
    BY <1>3, TailsOfPlans, Zenon
  <2>2. Head(plan) \notin {"log", "write"}
    BY <1>3
  <2> QED
    BY <1>3, <2>1, <2>2 DEF Logging
<1>4. CASE plan \in {<<"alert", "total", "invalidate", "log">>,
                     <<"total", "invalidate", "log">>, <<"invalidate", "log">>,
                     <<"reload", "total", "log", "alert">>,
                     <<"total", "log", "alert">>, <<"reload", "total", "log">>,
                     <<"total", "log">>}
  <2>1. Head(plan) \notin {"log", "write"} /\ plan \in Logging
    BY <1>4 DEF Logging
  <2>2. Tail(plan) \in {<<"total", "invalidate", "log">>, <<"invalidate", "log">>,
                        <<"log">>, <<"total", "log", "alert">>, <<"log", "alert">>,
                        <<"total", "log">>}
    BY <1>4, TailsOfPlans, Zenon
  <2>3. Tail(plan) \in Plans
    BY <2>2, Zenon DEF Plans, Dropping
  <2>4. Tail(plan) \notin {<<>>, <<"alert">>, <<"invalidate">>,
                           <<"write", "invalidate", "log">>}
    <3> DEFINE rest == Tail(plan)
    <3> HIDE DEF rest
    <3>1. rest \in {<<"total", "invalidate", "log">>, <<"invalidate", "log">>,
                    <<"log">>, <<"total", "log", "alert">>, <<"log", "alert">>,
                    <<"total", "log">>}
      BY <2>2 DEF rest
    <3>2. rest \notin {<<>>, <<"alert">>, <<"invalidate">>,
                       <<"write", "invalidate", "log">>}
      BY <3>1
    <3> QED
      BY <3>2 DEF rest
  <2>5. Tail(plan) \in Logging
    BY <2>3, <2>4, Zenon DEF Logging
  <2>6. Tail(plan) # <<"write", "invalidate", "log">>
    BY <2>4
  <2> QED
    BY <2>1, <2>5, <2>6
<1> QED
  BY <1>1, <1>2, <1>3, <1>4, Zenon DEF Plans, Dropping

\* One request acts: its share of the account moves as the stock and the log do.
LEMMA AccountMoves ==
    ASSUME HistoryInv, ShowInv', NEW t \in Thread, NEW j \in JobRecord,
           job' = [job EXCEPT ![t] = j],
           movements' \in [Variant -> Int], adrift' \in [Variant -> Int],
           j.todo = <<"write", "invalidate", "log">> =>
              \A v \in Variant : j.change[v] = Stock(j.form, v) - Stock(j.seen, v),
           \A v \in Variant :
              (Stock(inventory', v) + adrift'[v]) - movements'[v]
                - ((Stock(inventory, v) + adrift[v]) - movements[v])
              = Pending(j, v) - Pending(job[t], v)
    PROVE  HistoryInv'
<1>1. /\ job \in [Thread -> JobRecord] /\ job' \in [Thread -> JobRecord]
      /\ job'[t] = j /\ \A u \in Thread \ {t} : job'[u] = job[u]
      /\ inventory \in Stocks /\ inventory' \in Stocks /\ Initial \in Stocks
  BY InitialIsStock DEF HistoryInv, ShowInv, RequestInv
<1>2. EditsAsRead'
  BY <1>1 DEF HistoryInv, EditsAsRead
<1>3. ASSUME NEW v \in Variant
      PROVE  /\ Countable(Unlogged(v)')
             /\ Stock(inventory', v) + adrift'[v]
                  = Stock(Initial, v) + movements'[v] + Balance(Unlogged(v)')
  <2> DEFINE P == Unlogged(v)
             Q == [u \in Thread |-> Pending(job'[u], v)]
  <2>1. /\ P \in [Thread -> Int] /\ Q \in [Thread -> Int]
        /\ P[t] = Pending(job[t], v) /\ Q[t] = Pending(j, v)
        /\ \A u \in Thread \ {t} : Q[u] = P[u]
    BY <1>1 DEF Unlogged, Pending, JobRecord
  <2>2. Unlogged(v)' = Q
    BY DEF Unlogged
  <2>3. /\ Countable(P)
        /\ Stock(inventory, v) + adrift[v]
             = Stock(Initial, v) + movements[v] + Balance(P)
    BY DEF HistoryInv, Accounted
  <2> HIDE DEF P, Q
  <2>4. /\ Countable(Q) /\ Balance(P) \in Int
        /\ Balance(Q) = Balance(P) + (Q[t] - P[t])
    BY <2>1, <2>3, BalanceFollows
  <2>5. /\ Stock(inventory, v) \in Int /\ Stock(inventory', v) \in Int
        /\ Stock(Initial, v) \in Int /\ adrift[v] \in Int /\ adrift'[v] \in Int
        /\ movements[v] \in Int /\ movements'[v] \in Int
    BY <1>1, StockTyped DEF HistoryInv
  <2>6. PICK a \in Int, b \in Int : a = P[t] /\ b = Q[t]
    BY <2>1
  <2>7. (Stock(inventory', v) + adrift'[v]) - movements'[v]
           - ((Stock(inventory, v) + adrift[v]) - movements[v]) = b - a
    BY <2>1, <2>6
  <2> HIDE DEF HistoryInv
  <2>8. Stock(inventory', v) + adrift'[v]
           = Stock(Initial, v) + movements'[v] + Balance(Q)
    BY <2>3, <2>4, <2>5, <2>6, <2>7
  <2> QED
    BY <2>2, <2>4, <2>8
<1>4. Accounted'
  <2>1. \A v \in Variant :
           /\ Countable(Unlogged(v)')
           /\ Stock(inventory', v) + adrift'[v]
                = Stock(Initial, v) + movements'[v] + Balance(Unlogged(v)')
    BY <1>3
  <2> QED
    BY <2>1 DEF Accounted
<1> QED
  BY <1>2, <1>4 DEF HistoryInv

LEMMA StockOfChange ==
    ASSUME inventory \in Stocks, NEW v \in DOMAIN inventory, NEW change \in Int,
           inventory' = [inventory EXCEPT ![v] = @ + change], NEW w \in Variant
    PROVE  Stock(inventory', w) = Stock(inventory, w) + Only(v, change)[w]
<1>1. PICK S \in SUBSET Variant : inventory \in [S -> Nat]
  BY DEF Stocks
<1>2. Only(v, change)[w] = IF w = v THEN change ELSE 0
  BY <1>1 DEF Only, None
<1> QED
  BY <1>1, <1>2 DEF Stock

\* A thread that takes a request on has nothing pending.
LEMMA IdleOwesNothing ==
    ASSUME NEW t \in Thread, job[t] = Idle, NEW v PROVE Pending(job[t], v) = 0
<1>1. Idle.todo = <<>>
  BY IdleRecord
<1> QED
  BY <1>1, LoggingPlans DEF Pending

LEMMA PlainJob ==
    ASSUME NEW todo \in Logging, NEW v \in Variant, NEW change \in Int
    PROVE  LET j == [Idle EXCEPT !.todo = todo, !.of = v, !.change = Only(v, change)]
           IN /\ j \in JobRecord
              /\ j.todo = todo
              /\ \A w \in Variant : Pending(j, w) = Only(v, change)[w]
<1>1. todo \in Plans
  BY DEF Logging
<1> QED
  BY <1>1, ChangeJob, IdleRecord DEF Pending, JobRecord

LEMMA OnlyIsTyped ==
    ASSUME NEW v \in Variant, NEW change \in Int, NEW w \in Variant
    PROVE  Only(v, change)[w] \in Int /\ Only(v, change)[w] = IF w = v THEN change ELSE 0
BY DEF Only, None

LEMMA SellAccounted ==
    ASSUME HistoryInv, ShowInv', NEW t \in Thread, NEW v \in Variant,
           NEW quantity \in Quantity, Sell(t, v, quantity)
    PROVE  HistoryInv'
<1> DEFINE j == [Idle EXCEPT !.todo = AfterSale, !.of = v,
                             !.change = Only(v, -quantity)]
<1>1. -quantity \in Int /\ inventory \in Stocks /\ v \in DOMAIN inventory
  BY InventoryAssumption DEF HistoryInv, ShowInv, Sell, Suffices
<1>2. /\ j \in JobRecord /\ j.todo = AfterSale
      /\ \A w \in Variant : Pending(j, w) = Only(v, -quantity)[w]
  BY ZenonT(40), <1>1, PlainJob, LoggingPlans
<1>3. /\ job' = [job EXCEPT ![t] = j] /\ job[t] = Idle
      /\ UNCHANGED <<movements, adrift>>
      /\ inventory' = [inventory EXCEPT ![v] = @ + (-quantity)]
  BY DEF Sell, Start, Begin, Change
<1> HIDE DEF j
<1>4. ASSUME NEW w \in Variant
      PROVE  (Stock(inventory', w) + adrift'[w]) - movements'[w]
                - ((Stock(inventory, w) + adrift[w]) - movements[w])
              = Pending(j, w) - Pending(job[t], w)
  <2>1. Stock(inventory', w) = Stock(inventory, w) + Only(v, -quantity)[w]
    BY <1>1, <1>3, StockOfChange
  <2>2. Pending(job[t], w) = 0 /\ Pending(j, w) = Only(v, -quantity)[w]
    BY <1>2, <1>3, IdleOwesNothing
  <2>3. /\ Stock(inventory, w) \in Int /\ adrift[w] \in Int /\ movements[w] \in Int
        /\ adrift'[w] = adrift[w] /\ movements'[w] = movements[w]
    BY <1>1, <1>3, StockTyped DEF HistoryInv
  <2>4. Only(v, -quantity)[w] \in Int
    BY <1>1, OnlyIsTyped
  <2> QED
    BY <2>1, <2>2, <2>3, <2>4
<1>5. /\ j.todo # <<"write", "invalidate", "log">>
      /\ movements' \in [Variant -> Int] /\ adrift' \in [Variant -> Int]
  BY <1>2, <1>3 DEF AfterSale, HistoryInv
<1> QED
  BY <1>2, <1>3, <1>4, <1>5, AccountMoves

LEMMA RestoreAccounted ==
    ASSUME HistoryInv, ShowInv', NEW t \in Thread, NEW v \in Variant,
           NEW quantity \in Quantity, Restore(t, v, quantity)
    PROVE  HistoryInv'
<1> DEFINE plan == <<"reload", "total", "log">>
           j == [Idle EXCEPT !.todo = plan, !.of = v, !.change = Only(v, quantity)]
<1>1. quantity \in Int /\ inventory \in Stocks /\ plan \in Logging
      /\ plan # <<"write", "invalidate", "log">>
  BY InventoryAssumption, LoggingPlans DEF HistoryInv, ShowInv
<1>3. /\ job' = [job EXCEPT ![t] = j] /\ job[t] = Idle /\ UNCHANGED movements
  BY DEF Restore, Start, Begin
<1> HIDE DEF plan
<1>2. /\ j \in JobRecord /\ j.todo = plan
      /\ \A w \in Variant : Pending(j, w) = Only(v, quantity)[w]
  BY <1>1, PlainJob
<1> HIDE DEF j
<1>4. \/ /\ v \in DOMAIN inventory /\ UNCHANGED adrift
         /\ inventory' = [inventory EXCEPT ![v] = @ + quantity]
      \/ UNCHANGED inventory /\ adrift' = [adrift EXCEPT ![v] = @ + quantity]
  BY DEF Restore, Change
<1>5. adrift' \in [Variant -> Int] /\ movements' \in [Variant -> Int]
  BY <1>1, <1>3, <1>4 DEF HistoryInv
<1>6. ASSUME NEW w \in Variant
      PROVE  (Stock(inventory', w) + adrift'[w]) - movements'[w]
                - ((Stock(inventory, w) + adrift[w]) - movements[w])
              = Pending(j, w) - Pending(job[t], w)
  <2>1. Stock(inventory', w) + adrift'[w]
          = Stock(inventory, w) + adrift[w] + Only(v, quantity)[w]
    <3>0. /\ Stock(inventory, w) \in Int /\ adrift[w] \in Int
          /\ Only(v, quantity)[w] \in Int
          /\ Only(v, quantity)[w] = IF w = v THEN quantity ELSE 0
      BY <1>1, StockTyped, OnlyIsTyped DEF HistoryInv
    <3>1. CASE v \in DOMAIN inventory /\ UNCHANGED adrift
               /\ inventory' = [inventory EXCEPT ![v] = @ + quantity]
      <4>1. Stock(inventory', w) = Stock(inventory, w) + Only(v, quantity)[w]
        BY <1>1, <3>1, StockOfChange
      <4> QED
        BY <3>0, <3>1, <4>1
    <3>2. CASE UNCHANGED inventory /\ adrift' = [adrift EXCEPT ![v] = @ + quantity]
      <4>1. adrift'[w] = adrift[w] + Only(v, quantity)[w]
        BY <3>0, <3>2 DEF HistoryInv
      <4> QED
        BY <3>0, <3>2, <4>1
    <3> QED
      BY <1>4, <3>1, <3>2
  <2>2. Pending(job[t], w) = 0 /\ Pending(j, w) = Only(v, quantity)[w]
    BY <1>2, <1>3, IdleOwesNothing
  <2>3. /\ Stock(inventory, w) \in Int /\ adrift[w] \in Int /\ movements[w] \in Int
        /\ Stock(inventory', w) \in Int /\ adrift'[w] \in Int
        /\ movements'[w] = movements[w] /\ Only(v, quantity)[w] \in Int
    BY <1>1, <1>3, <1>5, StockTyped, OnlyIsTyped DEF HistoryInv, ShowInv
  <2> QED
    BY <2>1, <2>2, <2>3
<1> QED
  BY <1>1, <1>2, <1>3, <1>5, <1>6, AccountMoves

LEMMA AdjustAccounted ==
    ASSUME HistoryInv, ShowInv', NEW t \in Thread, NEW v \in Variant,
           NEW change \in Adjustment, Adjust(t, v, change)
    PROVE  HistoryInv'
<1> DEFINE j == [Idle EXCEPT !.todo = AfterAdjust, !.of = v, !.change = Only(v, change),
                             !.seen = inventory', !.wrote = version']
<1>1. change \in Int /\ inventory \in Stocks /\ v \in DOMAIN inventory
  BY InventoryAssumption DEF HistoryInv, ShowInv, Adjust, Suffices
<1>3. /\ job' = [job EXCEPT ![t] = j] /\ job[t] = Idle
      /\ UNCHANGED <<movements, adrift>>
      /\ inventory' = [inventory EXCEPT ![v] = @ + change]
  BY DEF Adjust, Start, Begin, Change
<1>2. /\ j \in JobRecord /\ j.todo = AfterAdjust
      /\ \A w \in Variant : Pending(j, w) = Only(v, change)[w]
  <2>1. j.todo = AfterAdjust /\ j.change = Only(v, change)
    BY IdleRecord DEF JobRecord
  <2>2. job'[t] = j
    BY <1>3 DEF HistoryInv, ShowInv, RequestInv
  <2> HIDE DEF j
  <2>3. j \in JobRecord
    BY <2>2 DEF ShowInv, RequestInv
  <2> QED
    BY <2>1, <2>3, LoggingPlans DEF Pending
<1> HIDE DEF j
<1>4. ASSUME NEW w \in Variant
      PROVE  (Stock(inventory', w) + adrift'[w]) - movements'[w]
                - ((Stock(inventory, w) + adrift[w]) - movements[w])
              = Pending(j, w) - Pending(job[t], w)
  <2>1. Stock(inventory', w) = Stock(inventory, w) + Only(v, change)[w]
    BY <1>1, <1>3, StockOfChange
  <2>2. Pending(job[t], w) = 0 /\ Pending(j, w) = Only(v, change)[w]
    BY <1>2, <1>3, IdleOwesNothing
  <2>3. /\ Stock(inventory, w) \in Int /\ adrift[w] \in Int /\ movements[w] \in Int
        /\ adrift'[w] = adrift[w] /\ movements'[w] = movements[w]
    BY <1>1, <1>3, StockTyped DEF HistoryInv
  <2>4. Only(v, change)[w] \in Int
    BY <1>1, OnlyIsTyped
  <2> QED
    BY <2>1, <2>2, <2>3, <2>4
<1>5. /\ j.todo # <<"write", "invalidate", "log">>
      /\ movements' \in [Variant -> Int] /\ adrift' \in [Variant -> Int]
  BY <1>2, <1>3 DEF AfterAdjust, HistoryInv
<1> QED
  BY <1>2, <1>3, <1>4, <1>5, AccountMoves

LEMMA EditAccounted ==
    ASSUME HistoryInv, ShowInv', NEW t \in Thread, Edit(t)
    PROVE  HistoryInv'
<1>1. PICK form \in Forms(inventory) \union Forms(Initial) :
             Start(t, [Idle EXCEPT !.todo = AfterEdit, !.seen = inventory,
                                !.form = form,
                                !.change = [v \in Variant |->
                                    Stock(form, v) - Stock(inventory, v)]])
  BY DEF Edit
<1> DEFINE change == [v \in Variant |-> Stock(form, v) - Stock(inventory, v)]
           j == [Idle EXCEPT !.todo = AfterEdit, !.seen = inventory,
                             !.form = form, !.change = change]
<1>2. /\ job' = [job EXCEPT ![t] = j] /\ job[t] = Idle
      /\ UNCHANGED <<inventory, movements, adrift>>
  BY <1>1 DEF Edit, Start, Begin
<1>3. /\ j.todo = AfterEdit /\ j.seen = inventory /\ j.form = form
      /\ \A v \in Variant : j.change[v] = Stock(j.form, v) - Stock(j.seen, v)
  BY IdleRecord DEF JobRecord
<1> HIDE DEF j
<1>4. j \in JobRecord
  <2>1. job'[t] = j
    BY <1>2 DEF HistoryInv, ShowInv, RequestInv
  <2> QED
    BY <2>1 DEF ShowInv, RequestInv
<1>5. ASSUME NEW w \in Variant
      PROVE  (Stock(inventory', w) + adrift'[w]) - movements'[w]
                - ((Stock(inventory, w) + adrift[w]) - movements[w])
              = Pending(j, w) - Pending(job[t], w)
  <2>1. Pending(job[t], w) = 0 /\ Pending(j, w) = 0
    BY <1>2, <1>3, IdleOwesNothing, LoggingPlans DEF Pending
  <2>2. /\ Stock(inventory, w) \in Int /\ adrift[w] \in Int /\ movements[w] \in Int
    BY StockTyped DEF HistoryInv, ShowInv
  <2> QED
    BY <1>2, <2>1, <2>2
<1>6. movements' \in [Variant -> Int] /\ adrift' \in [Variant -> Int]
  BY <1>2 DEF HistoryInv
<1> QED
  BY <1>2, <1>3, <1>4, <1>5, <1>6, AccountMoves

LEMMA CommitAccounted ==
    ASSUME HistoryInv, ShowInv', NEW t \in Thread, NEW r \in Receiving, Commit(t, r)
    PROVE  HistoryInv'
<1> DEFINE plan == <<"invalidate">>
           j == [Idle EXCEPT !.todo = plan, !.wrote = version']
<1>1. /\ Incoming[r] \in Stocks /\ inventory \in Stocks /\ inventory' \in Stocks
      /\ plan \notin Logging /\ plan # <<"write", "invalidate", "log">>
  BY InventoryAssumption, LoggingPlans
     DEF IsInventory, Stocks, HistoryInv, ShowInv
<1>2. /\ job' = [job EXCEPT ![t] = j] /\ job[t] = Idle /\ UNCHANGED adrift
      /\ inventory' = Received(r)
      /\ movements' = [v \in Variant |-> movements[v] + Stock(Incoming[r], v)]
  BY DEF Commit, Begin
<1> HIDE DEF plan
<1>3. j.todo = plan
  BY IdleRecord DEF JobRecord
<1> HIDE DEF j
<1>4. j \in JobRecord
  <2>1. job'[t] = j
    BY <1>2 DEF HistoryInv, ShowInv, RequestInv
  <2> QED
    BY <2>1 DEF ShowInv, RequestInv
<1>5. ASSUME NEW w \in Variant
      PROVE  (Stock(inventory', w) + adrift'[w]) - movements'[w]
                - ((Stock(inventory, w) + adrift[w]) - movements[w])
              = Pending(j, w) - Pending(job[t], w)
  <2>1. Pending(job[t], w) = 0 /\ Pending(j, w) = 0
    BY <1>1, <1>2, <1>3, IdleOwesNothing DEF Pending
  <2>2. /\ Stock(inventory, w) \in Int /\ adrift[w] \in Int /\ movements[w] \in Int
        /\ Stock(Incoming[r], w) \in Int
    BY <1>1, StockTyped DEF HistoryInv
  <2>3. Stock(inventory', w) = Stock(inventory, w) + Stock(Incoming[r], w)
    BY <1>2 DEF Received, Stock
  <2>4. movements'[w] = movements[w] + Stock(Incoming[r], w) /\ adrift'[w] = adrift[w]
    BY <1>2
  <2> QED
    BY <2>1, <2>2, <2>3, <2>4
<1>6. movements' \in [Variant -> Int] /\ adrift' \in [Variant -> Int]
  <2>1. \A w \in Variant : movements[w] + Stock(Incoming[r], w) \in Int
    BY <1>1, StockTyped DEF HistoryInv
  <2> QED
    BY <1>2, <2>1 DEF HistoryInv
<1> QED
  BY <1>1, <1>2, <1>3, <1>4, <1>5, <1>6, AccountMoves

\* Going on with a request: what of it will still be logged.
LEMMA AdvanceOwes ==
    ASSUME HistoryInv, ShowInv', NEW t \in Thread, NEW j \in JobRecord,
           Advance(t, j), j.todo = job[t].todo, j.todo # <<>>
    PROVE  \E next \in JobRecord :
              /\ job' = [job EXCEPT ![t] = next]
              /\ next.todo = Tail(j.todo)
              /\ \A v : Pending(next, v) =
                           IF Tail(j.todo) \in Logging THEN j.change[v] ELSE 0
<1> DEFINE left == Tail(j.todo)
           next == IF left = <<>> THEN Idle ELSE [j EXCEPT !.todo = left]
<1>1. job' = [job EXCEPT ![t] = next]
  BY DEF Advance
<1>2. next.todo = left
  BY IdleRecord DEF JobRecord
<1>3. ASSUME NEW v PROVE Pending(next, v) = IF left \in Logging THEN j.change[v] ELSE 0
  <2>1. CASE left = <<>>
    BY <2>1, IdleRecord, LoggingPlans DEF Pending
  <2>2. CASE left # <<>>
    <3>1. next.todo = left /\ next.change = j.change
      BY <2>2 DEF JobRecord
    <3> HIDE DEF next, left
    <3> QED
      BY <3>1 DEF Pending
  <2> QED
    BY <2>1, <2>2
<1> HIDE DEF next
<1>4. next \in JobRecord
  <2>1. job'[t] = next
    BY <1>1 DEF HistoryInv, ShowInv, RequestInv
  <2> QED
    BY <2>1 DEF ShowInv, RequestInv
<1> QED
  BY <1>1, <1>2, <1>3, <1>4

\* The steps that neither change the stock nor log.
LEMMA SteadyAccounted ==
    ASSUME HistoryInv, ShowInv', NEW t \in Thread,
           Reload(t) \/ WriteTotal(t) \/ Alert(t) \/ DropPages(t)
    PROVE  HistoryInv'
<1>1. /\ job[t] \in JobRecord /\ inventory \in Stocks
  BY DEF HistoryInv, ShowInv, RequestInv
<1>2. /\ UNCHANGED <<inventory, movements, adrift>>
      /\ job[t].todo # <<>> /\ Head(job[t].todo) \notin {"log", "write"}
  BY DEF Reload, WriteTotal, Alert, DropPages, Due
<1>3. PICK j \in JobRecord :
         Advance(t, j) /\ j.todo = job[t].todo /\ j.change = job[t].change
  <2>1. CASE Reload(t)
    <3> DEFINE j == [job[t] EXCEPT !.seen = inventory]
    <3>1. j \in JobRecord /\ j.todo = job[t].todo /\ j.change = job[t].change
      BY <1>1 DEF JobRecord
    <3>2. Advance(t, j)
      BY <2>1 DEF Reload
    <3> HIDE DEF j
    <3> QED
      BY <3>1, <3>2
  <2>2. CASE WriteTotal(t) \/ Alert(t) \/ DropPages(t)
    <3>1. Advance(t, job[t])
      BY <2>2 DEF WriteTotal, Alert, DropPages
    <3> QED
      BY <1>1, <3>1
  <2> QED
    BY <2>1, <2>2
<1>4. PICK next \in JobRecord :
         /\ job' = [job EXCEPT ![t] = next]
         /\ next.todo = Tail(j.todo)
         /\ \A v : Pending(next, v) =
                      IF Tail(j.todo) \in Logging THEN j.change[v] ELSE 0
  BY <1>2, <1>3, AdvanceOwes
<1>5. /\ Tail(j.todo) \in Logging <=> job[t].todo \in Logging
      /\ next.todo # <<"write", "invalidate", "log">>
  BY <1>1, <1>2, <1>3, <1>4, LoggingGoesOn DEF JobRecord
<1>6. ASSUME NEW w \in Variant
      PROVE  (Stock(inventory', w) + adrift'[w]) - movements'[w]
                - ((Stock(inventory, w) + adrift[w]) - movements[w])
              = Pending(next, w) - Pending(job[t], w)
  <2>1. Pending(next, w) = Pending(job[t], w) /\ Pending(job[t], w) \in Int
    BY <1>1, <1>3, <1>4, <1>5 DEF Pending, JobRecord
  <2>2. /\ Stock(inventory, w) \in Int /\ adrift[w] \in Int /\ movements[w] \in Int
    BY <1>1, StockTyped DEF HistoryInv
  <2> QED
    BY <1>2, <2>1, <2>2
<1>7. movements' \in [Variant -> Int] /\ adrift' \in [Variant -> Int]
  BY <1>2 DEF HistoryInv
<1> QED
  BY <1>4, <1>5, <1>6, <1>7, AccountMoves

\* What the log is told is no longer pending.
LEMMA LogAccounted ==
    ASSUME HistoryInv, ShowInv', NEW t \in Thread, Log(t)
    PROVE  HistoryInv'
<1>1. /\ job[t] \in JobRecord /\ inventory \in Stocks
      /\ UNCHANGED <<inventory, adrift>>
      /\ movements' = [v \in Variant |-> movements[v] + job[t].change[v]]
      /\ Advance(t, job[t]) /\ job[t].todo # <<>> /\ Head(job[t].todo) = "log"
  BY DEF HistoryInv, ShowInv, RequestInv, Log, Due
<1>2. PICK next \in JobRecord :
         /\ job' = [job EXCEPT ![t] = next]
         /\ next.todo = Tail(job[t].todo)
         /\ \A v : Pending(next, v) =
                      IF Tail(job[t].todo) \in Logging THEN job[t].change[v] ELSE 0
  BY <1>1, AdvanceOwes
<1>3. /\ job[t].todo \in Logging /\ Tail(job[t].todo) \notin Logging
      /\ next.todo # <<"write", "invalidate", "log">>
  BY <1>1, <1>2, LoggingGoesOn DEF JobRecord
<1>4. ASSUME NEW w \in Variant
      PROVE  (Stock(inventory', w) + adrift'[w]) - movements'[w]
                - ((Stock(inventory, w) + adrift[w]) - movements[w])
              = Pending(next, w) - Pending(job[t], w)
  <2>1. Pending(next, w) = 0 /\ Pending(job[t], w) = job[t].change[w]
    BY <1>2, <1>3 DEF Pending
  <2>2. /\ Stock(inventory, w) \in Int /\ adrift[w] \in Int /\ movements[w] \in Int
        /\ job[t].change[w] \in Int
        /\ movements'[w] = movements[w] + job[t].change[w]
    BY <1>1, StockTyped DEF HistoryInv, JobRecord
  <2> QED
    BY <1>1, <2>1, <2>2
<1>5. movements' \in [Variant -> Int] /\ adrift' \in [Variant -> Int]
  <2>1. job[t].change \in [Variant -> Int]
    BY <1>1 DEF JobRecord
  <2>2. \A v \in Variant : movements[v] + job[t].change[v] \in Int
    BY <2>1 DEF HistoryInv
  <2> QED
    BY <1>1, <2>2 DEF HistoryInv
<1> QED
  BY <1>2, <1>3, <1>4, <1>5, AccountMoves

\* An edit writes its form over whatever the stock has become: what it did not
\* read is adrift, what it read is to be logged.
LEMMA WriteFormAccounted ==
    ASSUME HistoryInv, ShowInv', NEW t \in Thread, WriteForm(t)
    PROVE  HistoryInv'
<1> DEFINE j == [job[t] EXCEPT !.wrote = version']
<1>1. /\ job[t] \in JobRecord /\ inventory \in Stocks /\ version' \in Nat
      /\ UNCHANGED movements /\ inventory' = job[t].form
      /\ adrift' = [v \in Variant |->
                      adrift[v] + Stock(inventory, v) - Stock(job[t].seen, v)]
      /\ Advance(t, j) /\ job[t].todo # <<>> /\ Head(job[t].todo) = "write"
  BY DEF HistoryInv, ShowInv, RequestInv, CacheInv, CacheTypeOK, WriteForm, Due
<1>f. job[t].form \in Stocks /\ job[t].seen \in Stocks
  BY <1>1 DEF JobRecord
<1>2. j \in JobRecord /\ j.todo = job[t].todo /\ j.change = job[t].change
  BY <1>1 DEF JobRecord
<1> HIDE DEF j
<1>3. PICK next \in JobRecord :
         /\ job' = [job EXCEPT ![t] = next]
         /\ next.todo = Tail(j.todo)
         /\ \A v : Pending(next, v) =
                      IF Tail(j.todo) \in Logging THEN j.change[v] ELSE 0
  BY <1>1, <1>2, AdvanceOwes
<1>4. /\ job[t].todo = <<"write", "invalidate", "log">>
      /\ job[t].todo \notin Logging /\ Tail(j.todo) \in Logging
      /\ next.todo # <<"write", "invalidate", "log">>
  BY <1>1, <1>2, <1>3, LoggingGoesOn DEF JobRecord
<1>5. ASSUME NEW w \in Variant
      PROVE  (Stock(inventory', w) + adrift'[w]) - movements'[w]
                - ((Stock(inventory, w) + adrift[w]) - movements[w])
              = Pending(next, w) - Pending(job[t], w)
  <2>1. Pending(next, w) = job[t].change[w] /\ Pending(job[t], w) = 0
    BY <1>2, <1>3, <1>4 DEF Pending
  <2>2. job[t].change[w] = Stock(job[t].form, w) - Stock(job[t].seen, w)
    BY <1>4 DEF HistoryInv, EditsAsRead
  <2>3. /\ Stock(inventory, w) \in Int /\ adrift[w] \in Int /\ movements[w] \in Int
        /\ Stock(job[t].form, w) \in Int /\ Stock(job[t].seen, w) \in Int
    BY <1>1, <1>f, StockTyped DEF HistoryInv
  <2>4. /\ adrift'[w] = adrift[w] + Stock(inventory, w) - Stock(job[t].seen, w)
        /\ Stock(inventory', w) = Stock(job[t].form, w)
        /\ movements'[w] = movements[w]
    BY <1>1
  <2> QED
    BY <2>1, <2>2, <2>3, <2>4
<1>6. movements' \in [Variant -> Int] /\ adrift' \in [Variant -> Int]
  <2>1. \A v \in Variant :
           adrift[v] + Stock(inventory, v) - Stock(job[t].seen, v) \in Int
    <3> SUFFICES ASSUME NEW v \in Variant
                 PROVE  adrift[v] + Stock(inventory, v) - Stock(job[t].seen, v) \in Int
      OBVIOUS
    <3>1. Stock(inventory, v) \in Nat /\ Stock(job[t].seen, v) \in Nat
      BY <1>1, <1>f, StockTyped
    <3>2. adrift[v] \in Int
      BY DEF HistoryInv
    <3> QED
      BY <3>1, <3>2
  <2> QED
    BY <1>1, <2>1 DEF HistoryInv
<1> QED
  BY <1>3, <1>4, <1>5, <1>6, AccountMoves

LEMMA HistoryStart == Init => HistoryInv
<1> SUFFICES ASSUME Init PROVE HistoryInv
  OBVIOUS
<1>1. ShowInv
  BY ShowStart
<1>2. /\ inventory = Initial /\ Initial \in Stocks
      /\ movements = None /\ adrift = None
      /\ job = [t \in Thread |-> Idle]
  BY InitialIsStock DEF Init
<1>3. \A v \in Variant : movements[v] = 0 /\ adrift[v] = 0
  BY <1>2 DEF None
<1>4. movements \in [Variant -> Int] /\ adrift \in [Variant -> Int]
  BY <1>2 DEF None
<1>5. EditsAsRead
  <2>1. \A t \in Thread : job[t].todo = <<>>
    BY <1>2, IdleRecord
  <2>2. <<>> # <<"write", "invalidate", "log">>
    OBVIOUS
  <2> QED
    BY <2>1, <2>2, Zenon DEF EditsAsRead
<1>6. ASSUME NEW v \in Variant
      PROVE  Countable(Unlogged(v)) /\ Balance(Unlogged(v)) = 0
  <2>1. /\ Unlogged(v) \in [Thread -> Int]
        /\ \A t \in Thread : Unlogged(v)[t] = 0
    BY <1>2, IdleOwesNothing DEF Unlogged
  <2> QED
    BY <2>1, BalanceOfNothing
<1>7. Accounted
  <2>1. \A v \in Variant : Stock(Initial, v) \in Int
    BY <1>2, StockTyped
  <2> QED
    BY <1>2, <1>3, <1>6, <2>1 DEF Accounted
<1> QED
  BY <1>1, <1>4, <1>5, <1>7 DEF HistoryInv

LEMMA HistoryStep == HistoryInv /\ [Next]_vars => HistoryInv'
<1> SUFFICES ASSUME HistoryInv, [Next]_vars PROVE HistoryInv'
  OBVIOUS
<1>0. ShowInv'
  BY ShowStep DEF HistoryInv
<1>1. CASE UNCHANGED <<inventory, movements, adrift, job>>
  BY <1>0, <1>1 DEF HistoryInv, EditsAsRead, Accounted, Unlogged
<1>2. ASSUME NEW r \in Receiving, Preview(r)
      PROVE  UNCHANGED <<inventory, movements, adrift, job>>
  BY <1>2 DEF Preview
<1>3. CASE ServePages \/ UNCHANGED vars
  BY <1>1, <1>3 DEF ServePages, vars
<1>4. ASSUME NEW t \in Thread, NEW v \in Variant, NEW quantity \in Quantity,
             Sell(t, v, quantity) \/ Restore(t, v, quantity)
      PROVE  HistoryInv'
  BY <1>0, <1>4, SellAccounted, RestoreAccounted
<1>5. ASSUME NEW t \in Thread, NEW v \in Variant, NEW change \in Adjustment,
             Adjust(t, v, change)
      PROVE  HistoryInv'
  BY <1>0, <1>5, AdjustAccounted
<1>6. ASSUME NEW t \in Thread,
             \/ Edit(t) \/ Reload(t) \/ WriteTotal(t) \/ WriteForm(t)
             \/ Log(t) \/ Alert(t) \/ DropPages(t)
      PROVE  HistoryInv'
  BY <1>0, <1>6, EditAccounted, SteadyAccounted, LogAccounted, WriteFormAccounted
<1>7. ASSUME NEW t \in Thread, NEW r \in Receiving, Commit(t, r) PROVE HistoryInv'
  BY <1>0, <1>7, CommitAccounted
<1> QED
  BY <1>1, <1>2, <1>3, <1>4, <1>5, <1>6, <1>7 DEF Next

\* The stock's history explains it, however sales, edits, adjustments and
\* deliveries interleave and for any units: when no request is under way, every
\* variant's stock is the first stock and its logged changes, save what is adrift
\* (stock_movements.py).
THEOREM HistoryExplains == Spec => []HistoryExplainsStock
<1>1. HistoryInv => HistoryExplainsStock
  <2> SUFFICES ASSUME HistoryInv, Quiet, NEW v \in Variant
               PROVE  Stock(inventory, v) + adrift[v] = Stock(Initial, v) + movements[v]
    BY DEF HistoryExplainsStock
  <2>1. /\ Unlogged(v) \in [Thread -> Int]
        /\ \A t \in Thread : Unlogged(v)[t] = 0
    BY IdleOwesNothing DEF Quiet, Unlogged
  <2>2. Balance(Unlogged(v)) = 0
    BY <2>1, BalanceOfNothing
  <2>3. Stock(Initial, v) \in Int /\ movements[v] \in Int
    BY InitialIsStock, StockTyped DEF HistoryInv
  <2> QED
    BY <2>2, <2>3 DEF HistoryInv, Accounted
<1> QED
  BY <1>1, HistoryStart, HistoryStep, PTL DEF Spec

===============================================================================
