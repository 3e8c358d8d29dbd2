------------------------------- MODULE Inventory -------------------------------
(***************************************************************************)
(* One product's stock and everything that changes it: sales, restores,    *)
(* the admin's adjustments and edits, and received deliveries, beside the  *)
(* cached storefront page that shows it.                                   *)
(*                                                                         *)
(* A request is a list of database calls.  Only the commit of a receiving  *)
(* runs in a transaction; the rest of a request works from the copy of the *)
(* product it read, while other requests go on.                            *)
(***************************************************************************)
EXTENDS Integers, Sequences, FiniteSetsExt, StorefrontCache

CONSTANTS
    Variant,      \* the product's variants, present or not
    Initial,      \* the inventory at first: stock by variant
    Thread,       \* request threads
    Home,         \* the process each thread runs in
    Quantity,     \* units a sale takes
    Adjustment,   \* changes an admin enters
    Typed,        \* stock an admin types into the product form
    Receiving,    \* previews of deliveries
    Incoming,     \* per preview, the units of each variant
    Threshold,    \* lowStockThreshold
    MaxOps,       \* bound: sales, restores, adjustments and edits
    Missing       \* no such variant

\* Stock by variant, for the variants the product has.
IsInventory(inv) == \E S \in SUBSET Variant : inv \in [S -> Nat]

ASSUME InventoryAssumption ==
    /\ IsInventory(Initial)
    /\ Home \in [Thread -> Process]
    /\ Quantity \subseteq Nat \ {0} /\ Typed \subseteq Nat
    /\ Adjustment \subseteq Int \ {0}
    /\ \A r \in Receiving : IsInventory(Incoming[r])
    /\ MaxOps \in Nat /\ Threshold \in Nat
    /\ Missing \notin Nat /\ Variant # {}

VARIABLES
    inventory,    \* products.inventory: stock by variant
    totalStock,   \* products.totalStock
    movements,    \* stock_movements, summed by variant
    preview,      \* the signed previews asked for: stock by variant
    receivings,   \* inventory_receivings: the previews committed
    job,          \* what each thread has left to do
    sold,         \* units customers hold, by variant
    stocked,      \* history: times a preview's units were added
    adrift,       \* history: what the log says beyond what the stock did
    crossings,    \* history: times stock was taken down past the threshold
    alerts,       \* history: low-stock messages
    finished,     \* history: last admin write whose request is over, per process
    ops           \* sales, restores, adjustments and edits so far (bounded)

receiving == <<preview, receivings, stocked>>
lowStock == <<crossings, alerts>>
cacheRest == <<page, generation, reader, floor>>
vars == <<inventory, totalStock, movements, receiving, job, sold, adrift,
          lowStock, finished, ops, cacheVars>>

Stock(inv, v) == IF v \in DOMAIN inv THEN inv[v] ELSE 0
Total(inv) == SumFunction(inv)
None == [v \in Variant |-> 0]
Empty == [v \in {} |-> 0]
Only(v, change) == [None EXCEPT ![v] = change]

\* seen is the request's copy of the product; form, the inventory an edit
\* writes; wrote, the version an admin's request wrote.
IsJob(j) ==
    /\ j.todo \in Seq({"write", "reload", "total", "log", "alert", "invalidate"})
    /\ j.of \in Variant /\ j.change \in [Variant -> Int]
    /\ IsInventory(j.seen) /\ IsInventory(j.form) /\ j.wrote \in Nat

Idle == [todo |-> <<>>, of |-> CHOOSE v \in Variant : TRUE, change |-> None,
         seen |-> Empty, form |-> Empty, wrote |-> 0]

TypeOK ==
    /\ IsInventory(inventory)
    /\ totalStock \in Nat
    /\ movements \in [Variant -> Int]
    /\ \A r \in DOMAIN preview : r \in Receiving
    /\ receivings \subseteq DOMAIN preview
    /\ DOMAIN job = Thread /\ \A t \in Thread : IsJob(job[t])
    /\ sold \in [Variant -> Nat]
    /\ stocked \in [Receiving -> Nat]
    /\ adrift \in [Variant -> Int]
    /\ crossings \in Nat /\ alerts \in Nat
    /\ finished \in [Process -> Nat]
    /\ ops \in 0..MaxOps
    /\ CacheTypeOK

Init ==
    /\ inventory = Initial
    /\ totalStock = Total(Initial)
    /\ movements = None
    /\ preview = Empty
    /\ receivings = {}
    /\ job = [t \in Thread |-> Idle]
    /\ sold = None
    /\ stocked = [r \in Receiving |-> 0]
    /\ adrift = None
    /\ crossings = 0 /\ alerts = 0
    /\ finished = [p \in Process |-> 0]
    /\ ops = 0
    /\ CacheInit

-------------------------------------------------------------------------------
(* Requests *)

Begin(t, j) == job[t] = Idle /\ job' = [job EXCEPT ![t] = j]

Start(t, j) == Begin(t, j) /\ ops < MaxOps /\ ops' = ops + 1

\* crossed_threshold
Crossed(before, after) == Threshold > 0 /\ before > Threshold /\ Threshold >= after

\* Atomic $inc on one variant.
Change(v, change) ==
    /\ inventory' = [inventory EXCEPT ![v] = @ + change]
    /\ version' = version + 1
    /\ crossings' = IF Crossed(inventory[v], inventory[v] + change)
                      THEN crossings + 1 ELSE crossings

\* Mutant: a sale without its row.
AfterSaleUnlogged == <<"reload", "total", "alert">>

AfterSale == <<"reload", "total", "log", "alert">>

\* Matches only a variant that is there with stock enough.
Suffices(v, quantity) == v \in DOMAIN inventory /\ inventory[v] >= quantity

\* decrement_variant_stock
Sell(t, v, quantity) ==
    /\ Suffices(v, quantity)
    /\ Change(v, -quantity)
    /\ sold' = [sold EXCEPT ![v] = @ + quantity]
    /\ Start(t, [Idle EXCEPT !.todo = AfterSale, !.of = v,
                             !.change = Only(v, -quantity)])
    /\ UNCHANGED <<totalStock, movements, receiving, adrift, alerts, finished, cacheRest>>

\* restore_variant_stock: adds to a variant that is still there; the row is
\* written either way.
Restore(t, v, quantity) ==
    /\ sold[v] >= quantity
    /\ \/ /\ v \in DOMAIN inventory
          /\ Change(v, quantity)
          /\ UNCHANGED adrift
       \/ /\ v \notin DOMAIN inventory
          /\ adrift' = [adrift EXCEPT ![v] = @ + quantity]
          /\ UNCHANGED <<inventory, version, crossings>>
    /\ sold' = [sold EXCEPT ![v] = @ - quantity]
    /\ Start(t, [Idle EXCEPT !.todo = <<"reload", "total", "log">>, !.of = v,
                             !.change = Only(v, quantity)])
    /\ UNCHANGED <<totalStock, movements, receiving, alerts, finished, cacheRest>>

AfterAdjust == <<"alert", "total", "invalidate", "log">>

\* adjust_product_stock: works from the copy its own update returned.
Adjust(t, v, change) ==
    /\ Suffices(v, -change)
    /\ Change(v, change)
    /\ Start(t, [Idle EXCEPT !.todo = AfterAdjust, !.of = v,
                             !.change = Only(v, change), !.seen = inventory',
                             !.wrote = version'])
    /\ UNCHANGED <<totalStock, movements, receiving, sold, adrift, alerts, finished,
                   cacheRest>>

\* The inventories an admin may send: a form loaded from inv, with one
\* variant's stock typed in, a variant added or one removed.
With(inv, v, n) == [w \in DOMAIN inv \union {v} |-> IF w = v THEN n ELSE inv[w]]
Without(inv, v) == [w \in DOMAIN inv \ {v} |-> inv[w]]
Forms(inv) == {With(inv, v, n) : v \in Variant, n \in Typed}
              \union {Without(inv, v) : v \in DOMAIN inv}

\* Mutant: the pages are dropped before the product is written.
AfterEditEager == <<"invalidate", "write", "log">>

AfterEdit == <<"write", "invalidate", "log">>

\* update_product reads the product; the form may have been loaded earlier.
Edit(t) ==
    /\ \E form \in Forms(inventory) \union Forms(Initial) :
          Start(t, [Idle EXCEPT !.todo = AfterEdit, !.seen = inventory,
                                !.form = form,
                                !.change = [v \in Variant |->
                                    Stock(form, v) - Stock(inventory, v)]])
    /\ UNCHANGED <<inventory, totalStock, movements, receiving, sold, adrift,
                   lowStock, finished, cacheVars>>

Seen(v) == IF v \in DOMAIN inventory THEN inventory[v] ELSE Missing

\* build_receiving_preview: writes nothing, signs what it read.
Preview(r) ==
    /\ r \notin DOMAIN preview
    /\ preview' = [s \in DOMAIN preview \union {r} |->
                     IF s = r THEN [v \in DOMAIN Incoming[r] |-> Seen(v)]
                              ELSE preview[s]]
    /\ UNCHANGED <<inventory, totalStock, movements, receivings, stocked, job, sold,
                   adrift, lowStock, finished, ops, cacheVars>>

\* Mutant: the receiving's record is never looked up.
ReplayedNever(r) == FALSE

Replayed(r) == r \in receivings

\* Mutant: the previewed stock is not compared.
StaleNever(r) == FALSE

\* A variant changed, appeared or went since the preview.
Stale(r) == \E v \in DOMAIN preview[r] : Seen(v) # preview[r][v]

Received(r) ==
    [v \in DOMAIN inventory \union DOMAIN Incoming[r] |->
        Stock(inventory, v) + Stock(Incoming[r], v)]

\* commit_receiving: one transaction, then the invalidation.  A replay or a
\* stale preview changes nothing.
Commit(t, r) ==
    /\ r \in DOMAIN preview /\ ~Replayed(r) /\ ~Stale(r)
    /\ inventory' = Received(r)
    /\ totalStock' = Total(inventory')
    /\ movements' = [v \in Variant |-> movements[v] + Stock(Incoming[r], v)]
    /\ receivings' = receivings \union {r}
    /\ stocked' = [stocked EXCEPT ![r] = @ + 1]
    /\ version' = version + 1
    /\ Begin(t, [Idle EXCEPT !.todo = <<"invalidate">>, !.wrote = version'])
    /\ UNCHANGED <<preview, sold, adrift, lowStock, finished, ops, cacheRest>>

-------------------------------------------------------------------------------
(* The rest of a request, one database call or locked section at a time *)

Due(t, step) == job[t].todo # <<>> /\ Head(job[t].todo) = step

\* Thread t goes on as j, or is done.
Advance(t, j) ==
    LET left == Tail(j.todo) IN
    /\ job' = [job EXCEPT ![t] = IF left = <<>> THEN Idle
                                 ELSE [j EXCEPT !.todo = left]]
    /\ finished' = IF left = <<>>
                     THEN [finished EXCEPT ![Home[t]] = Max({@, j.wrote})]
                     ELSE finished

\* _refresh_total_stock reads the product ...
Reload(t) ==
    /\ Due(t, "reload")
    /\ Advance(t, [job[t] EXCEPT !.seen = inventory])
    /\ UNCHANGED <<inventory, totalStock, movements, receiving, sold, adrift,
                   lowStock, ops, cacheVars>>

\* ... and writes the sum of what it read.
WriteTotal(t) ==
    /\ Due(t, "total")
    /\ totalStock' = Total(job[t].seen)
    /\ version' = version + 1
    /\ Advance(t, job[t])
    /\ UNCHANGED <<inventory, movements, receiving, sold, adrift, lowStock, ops,
                   cacheRest>>

\* _persist_product_update replaces the inventory and its total.
WriteForm(t) ==
    /\ Due(t, "write")
    /\ inventory' = job[t].form
    /\ totalStock' = Total(job[t].form)
    /\ version' = version + 1
    /\ adrift' = [v \in Variant |->
                    adrift[v] + Stock(inventory, v) - Stock(job[t].seen, v)]
    /\ Advance(t, [job[t] EXCEPT !.wrote = version'])
    /\ UNCHANGED <<movements, receiving, sold, lowStock, ops, cacheRest>>

Log(t) ==
    /\ Due(t, "log")
    /\ movements' = [v \in Variant |-> movements[v] + job[t].change[v]]
    /\ Advance(t, job[t])
    /\ UNCHANGED <<inventory, totalStock, receiving, sold, adrift, lowStock, ops,
                   cacheVars>>

\* maybe_alert_low_stock, on the copy's stock and the change.
Alert(t) ==
    LET v == job[t].of
        after == Stock(job[t].seen, v)
        change == job[t].change[v]
    IN
    /\ Due(t, "alert")
    /\ alerts' = IF v \in DOMAIN job[t].seen /\ Crossed(after - change, after)
                   THEN alerts + 1 ELSE alerts
    /\ Advance(t, job[t])
    /\ UNCHANGED <<inventory, totalStock, movements, receiving, sold, adrift,
                   crossings, ops, cacheVars>>

\* invalidate_tenant
DropPages(t) ==
    /\ Due(t, "invalidate")
    /\ Invalidate(Home[t])
    /\ Advance(t, job[t])
    /\ UNCHANGED <<inventory, totalStock, movements, receiving, sold, adrift,
                   lowStock, ops>>

ServePages ==
    /\ Serve
    /\ UNCHANGED <<inventory, totalStock, movements, receiving, job, sold, adrift,
                   lowStock, finished, ops>>

Next ==
    \/ \E t \in Thread :
          \/ \E v \in Variant :
                \/ \E quantity \in Quantity : Sell(t, v, quantity) \/ Restore(t, v, quantity)
                \/ \E change \in Adjustment : Adjust(t, v, change)
          \/ Edit(t)
          \/ \E r \in Receiving : Commit(t, r)
          \/ Reload(t) \/ WriteTotal(t) \/ WriteForm(t)
          \/ Log(t) \/ Alert(t) \/ DropPages(t)
    \/ \E r \in Receiving : Preview(r)
    \/ ServePages

Spec == Init /\ [][Next]_vars

-------------------------------------------------------------------------------
(* Properties *)

Quiet == \A t \in Thread : job[t] = Idle

\* Once no request is under way, every variant's stock is what it was at
\* first plus its logged changes, save the units an edit overwrote without
\* having read them and those given back to a removed variant
\* (stock_movements.py: where each change came from).
HistoryExplainsStock ==
    Quiet => \A v \in Variant :
        Stock(inventory, v) + adrift[v] = Stock(Initial, v) + movements[v]

\* A delivery is added to the stock at most once, however often its preview
\* is sent, also after sales brought the stock back to what it showed.
ReceivedOnce ==
    \A r \in Receiving : stocked[r] <= 1 /\ (stocked[r] = 1 <=> r \in receivings)

\* A committed receiving leaves exactly the final stock its preview showed
\* the admin, touches no other variant, and the total agrees.
ReceivedAsPreviewed ==
    [][\A r \in receivings' \ receivings :
          /\ \A v \in DOMAIN preview[r] :
                inventory'[v] = Incoming[r][v]
                    + (IF preview[r][v] = Missing THEN 0 ELSE preview[r][v])
          /\ \A v \in DOMAIN inventory \ DOMAIN preview[r] : inventory'[v] = inventory[v]
          /\ totalStock' = Total(inventory')]_vars

\* Once an admin's request is answered, the process that answered it serves
\* no page from before the request's write, whatever readers were under way.
ChangeShows ==
    \A p \in Process : page[p] = NoPage \/ page[p] >= finished[p]

\* When a sale or an adjustment has taken a variant from above the threshold
\* to it or below, and the product is still that low when the requests are
\* over, the store has had a message (low_stock.py: the store gets one).
LowStockIsTold ==
    /\ Quiet /\ crossings > 0
    /\ \E v \in DOMAIN inventory : inventory[v] <= Threshold
    => alerts > 0
===============================================================================
