------------------------------ MODULE LedgerProofs ------------------------------
(***************************************************************************)
(* However many threads refund, sync and pay out one order at once from    *)
(* stale copies, fail or crash: Ledger's types; that no entry claims a     *)
(* refund above the price or a negative commission; that an entry shown as *)
(* settled shows what a payout paid for it, and stands still, unless a     *)
(* stale copy was written on it; and that payouts pay what the store is    *)
(* owed for every order that none of the mishaps befell.                   *)
(***************************************************************************)
EXTENDS Ledger, FiniteSetTheorems, TLAPS

-------------------------------------------------------------------------------
(* Arithmetic *)

LEMMA PercentNat ==
    ASSUME NEW amount \in Nat, NEW p \in 0..100
    PROVE  Percent(amount, p) \in Nat
<1>1. amount * p \in Nat
  OBVIOUS
<1>2. \A n \in Nat : (n + 50) \div 100 \in Nat
  OBVIOUS
<1> QED
  BY <1>1, <1>2 DEF Percent

LEMMA HundredthsSplit ==
    ASSUME NEW a \in Nat, NEW b \in Nat
    PROVE  LET r(n) == (n + 50) \div 100
           IN r(a) <= r(a + b) /\ r(b) - r(a + b) + r(a) \in -1..1
<1>1. \A n \in Nat : LET q == (n + 50) \div 100
                     IN q \in Int /\ 100 * q <= n + 50 /\ n + 50 < 100 * q + 100
  OBVIOUS
<1> DEFINE x == (a + 50) \div 100
           y == (b + 50) \div 100
           z == (a + b + 50) \div 100
<1>2. x \in Int /\ 100 * x <= a + 50 /\ a + 50 < 100 * x + 100
  BY <1>1
<1>3. y \in Int /\ 100 * y <= b + 50 /\ b + 50 < 100 * y + 100
  BY <1>1
<1>4. z \in Int /\ 100 * z <= a + b + 50 /\ a + b + 50 < 100 * z + 100
  <2>1. a + b \in Nat
    OBVIOUS
  <2> QED
    BY <1>1, <2>1
<1> HIDE DEF x, y, z
<1>5. x <= z /\ y - z + x \in -1..1
  BY <1>2, <1>3, <1>4
<1> QED
  BY <1>5 DEF x, y, z

\* The percentages of two parts add up to that of the whole, but for one paisa.
LEMMA PercentSplit ==
    ASSUME NEW gross \in Nat, NEW amount \in Nat, amount <= gross, NEW p \in 0..100
    PROVE  /\ Percent(amount, p) <= Percent(gross, p)
           /\ Percent(gross - amount, p) - Percent(gross, p) + Percent(amount, p) \in -1..1
<1> DEFINE a == amount * p
           b == (gross - amount) * p
<1>1. a \in Nat /\ b \in Nat
  OBVIOUS
<1>2. gross * p = a + b
  OBVIOUS
<1> HIDE DEF a, b
<1>3. /\ (a + 50) \div 100 <= (a + b + 50) \div 100
      /\ ((b + 50) \div 100) - ((a + b + 50) \div 100) + ((a + 50) \div 100) \in -1..1
  BY <1>1, HundredthsSplit
<1> QED
  BY <1>2, <1>3 DEF Percent, a, b

-------------------------------------------------------------------------------
(* What each operation leaves on the entry *)

\* No operation gives an entry another price, commission rate or fee.
Same(w, now) ==
    /\ w.live = now.live /\ w.gross = now.gross /\ w.percent = now.percent
    /\ w.fee = now.fee

Sound(e) == e.refunded <= e.gross

LEMMA EntryFields ==
    ASSUME NEW e \in Entry
    PROVE  /\ {e.gross, e.refunded, e.commission, e.fee, e.delivery} \subseteq Nat
           /\ e.percent \in 0..100 /\ {e.net, e.settledNet} \subseteq Int
           /\ e.live \in BOOLEAN /\ e.settled \in BOOLEAN
BY DEF Entry

LEMMA SyncedIs ==
    ASSUME NEW now \in Entry, NEW e \in Entry, NEW charge \in Nat
    PROVE  LET w == Synced(now, e, charge)
           IN /\ w \in Entry /\ Same(w, now)
              /\ w.refunded = now.refunded /\ w.commission = now.commission
              /\ w.delivery = charge /\ w.net = e.gross - e.commission - e.fee - charge
              /\ w.settled = now.settled /\ w.settledNet = now.settledNet
<1> DEFINE net == RecomputeNet([e EXCEPT !.delivery = charge])
<1>1. net = e.gross - e.commission - e.fee - charge
  BY DEF RecomputeNet, Entry
<1>2. net \in Int
  BY <1>1, EntryFields
<1> HIDE DEF net
<1> QED
  BY <1>1, <1>2 DEF Synced, Same, Entry, net

LEMMA ReversedIs ==
    ASSUME NEW now \in Entry, NEW e \in Entry
    PROVE  LET w == Reversed(now, e)
           IN /\ w \in Entry /\ Same(w, now)
              /\ w.refunded = e.gross /\ w.commission = 0 /\ w.delivery = now.delivery
              /\ w.net = IF e.settled THEN e.delivery - e.fee - e.settledNet
                         ELSE e.delivery - e.fee
              /\ w.settled = (now.settled /\ ~e.settled)
              /\ w.settledNet = now.settledNet
<1> DEFINE net == ReversedNet(e)
           settled == now.settled /\ ~e.settled
<1>1. net = IF e.settled THEN e.delivery - e.fee - e.settledNet ELSE e.delivery - e.fee
  BY DEF ReversedNet, NetAfterReversal
<1>2. net \in Int /\ e.gross \in Nat /\ settled \in BOOLEAN
  BY <1>1, EntryFields
<1>3. Reversed(now, e) = [now EXCEPT !.refunded = e.gross, !.commission = 0,
                            !.status = "refunded", !.net = net, !.settled = settled]
  BY DEF Reversed
<1> HIDE DEF net, settled
<1> DEFINE w == Reversed(now, e)
<1>4. w \in Entry
  <2>1. ASSUME NEW gross \in Nat
        PROVE  [now EXCEPT !.refunded = gross, !.commission = 0, !.status = "refunded",
                           !.net = net, !.settled = settled] \in Entry
    BY <1>2 DEF Entry
  <2> QED
    BY <1>2, <1>3, <2>1
<1>5. /\ Same(w, now) /\ w.refunded = e.gross /\ w.commission = 0
      /\ w.delivery = now.delivery /\ w.net = net /\ w.settledNet = now.settledNet
  BY <1>3 DEF Same, Entry
<1>6. w.settled = settled
  BY <1>3 DEF Entry
<1> HIDE DEF w
<1> QED
  BY <1>1, <1>4, <1>5, <1>6 DEF settled, w

\* The part that is booked, and the commission given back for it.
LEMMA PartFits ==
    ASSUME NEW e \in Entry, Sound(e), NEW told \in Nat
    PROVE  LET part == RefundablePart(e, told)
               back == CommissionBack(e, part)
           IN /\ part \in Nat /\ part <= told /\ e.refunded + part <= e.gross
              /\ part = told \/ e.refunded + part = e.gross
              /\ back \in Nat /\ back <= e.commission
              /\ back = e.commission \/ back = Percent(part, e.percent)
              /\ back <= Percent(part, e.percent)
<1> DEFINE part == RefundablePart(e, told)
           back == CommissionBack(e, part)
<1>1. /\ part \in Nat /\ part <= told /\ e.refunded + part <= e.gross
      /\ part = told \/ e.refunded + part = e.gross
  BY EntryFields DEF Sound, RefundablePart, Lesser
<1> HIDE DEF part
<1>2. Percent(part, e.percent) \in Nat /\ e.commission \in Nat
  BY <1>1, EntryFields, PercentNat
<1>3. /\ back \in Nat /\ back <= e.commission /\ back <= Percent(part, e.percent)
      /\ back = e.commission \/ back = Percent(part, e.percent)
  BY <1>2 DEF CommissionBack, Lesser
<1> QED
  BY <1>1, <1>3 DEF part

LEMMA SlicedIs ==
    ASSUME NEW now \in Entry, NEW e \in Entry, Sound(e), NEW told \in Nat
    PROVE  LET w == Sliced(now, e, told)
               part == RefundablePart(e, told)
               back == CommissionBack(e, part)
           IN /\ w \in Entry /\ Same(w, now)
              /\ part = 0 => w = now
              /\ part > 0 =>
                   /\ w.refunded = e.refunded + part
                   /\ w.commission = e.commission - back
                   /\ w.delivery = now.delivery /\ w.settledNet = now.settledNet
                   /\ w.net = IF e.settled THEN back - part ELSE e.net + (back - part)
                   /\ w.settled = (now.settled /\ ~e.settled)
<1> DEFINE part == RefundablePart(e, told)
           back == CommissionBack(e, part)
           delta == back - part
           status == IF e.refunded + part >= e.gross - 1 THEN "refunded" ELSE now.status
           net == IF e.settled THEN delta ELSE e.net + delta
           settled == now.settled /\ ~e.settled
           refunded == e.refunded + part
           commission == e.commission - back
<1>1. part \in Nat /\ back \in Nat /\ back <= e.commission
  BY PartFits
<1>2. Sliced(now, e, told) =
        IF part <= 0 THEN now
        ELSE [now EXCEPT !.refunded = refunded, !.commission = commission,
                         !.status = status, !.net = net, !.settled = settled]
  BY DEF Sliced
<1>3. /\ status \in {"pending", "refunded"} /\ net \in Int /\ settled \in BOOLEAN
      /\ refunded \in Nat /\ commission \in Nat
  <2>1. now.status \in {"pending", "refunded"}
    BY DEF Entry
  <2> HIDE DEF part, back
  <2> QED
    BY <1>1, <2>1, EntryFields
<1> HIDE DEF status, net, settled, refunded, commission, delta, part, back
<1> DEFINE w == Sliced(now, e, told)
<1>4. part = 0 => w = now
  BY <1>2
<1>5. ASSUME part > 0
      PROVE  /\ w \in Entry /\ Same(w, now) /\ w.settled = settled
             /\ w.refunded = refunded /\ w.commission = commission
             /\ w.delivery = now.delivery /\ w.settledNet = now.settledNet
             /\ w.net = net
  <2>1. w = [now EXCEPT !.refunded = refunded, !.commission = commission,
                        !.status = status, !.net = net, !.settled = settled]
    BY <1>1, <1>2, <1>5
  <2> HIDE DEF w
  <2>2. w \in Entry
    BY <1>3, <2>1 DEF Entry
  <2>3. w.settled = settled
    BY <2>1 DEF Entry
  <2>4. /\ Same(w, now) /\ w.refunded = refunded /\ w.commission = commission
        /\ w.delivery = now.delivery /\ w.settledNet = now.settledNet /\ w.net = net
    BY <2>1 DEF Same, Entry
  <2> QED
    BY <2>2, <2>3, <2>4
<1>6. w \in Entry /\ Same(w, now)
  BY <1>1, <1>4, <1>5 DEF Same
<1> HIDE DEF w
<1> QED
  BY <1>1, <1>4, <1>5, <1>6 DEF part, back, delta, net, settled, refunded, commission, w

LEMMA MarkedIs ==
    ASSUME NEW now \in Entry, NEW net \in Int
    PROVE  LET w == Marked(now, net)
           IN /\ w \in Entry /\ Same(w, now)
              /\ w.refunded = now.refunded /\ w.commission = now.commission
              /\ w.delivery = now.delivery /\ w.net = now.net
              /\ w.settled /\ w.settledNet = net
BY DEF Marked, Frozen, Same, Entry

\* What is on record of a mishap stays there; without one, what was written is what
\* would have been written from the entry as it was.
LEMMA WriteIs ==
    ASSUME NEW o \in Order, NEW w, NEW fresh, NEW mishaps \in SUBSET Mishap,
           marred \in [Order -> SUBSET Mishap], DOMAIN entry = Order,
           Write(o, w, fresh, mishaps)
    PROVE  /\ entry' = [entry EXCEPT ![o] = w]
           /\ entry'[o] = w /\ \A p \in Order : p # o => entry'[p] = entry[p]
           /\ marred' \in [Order -> SUBSET Mishap]
           /\ \A p \in Order : p # o => marred'[p] = marred[p]
           /\ marred[o] \cup mishaps \subseteq marred'[o]
           /\ "stale" \notin marred'[o] => w = fresh
BY DEF Write, Mishap

-------------------------------------------------------------------------------
(* The invariant: a copy may be old, but it is a copy of that order's entry, *)
(* whose price never changes, and the sums it holds respect that price.      *)

Entries == \A o \in Order : Sound(entry[o])

Copies ==
    \A t \in Thread :
        /\ thread[t].op \in {"sync", "reverse", "slice"} =>
              /\ thread[t].of \in Order
              /\ entry[thread[t].of].live
              /\ thread[t].copy.live =>
                    /\ Sound(thread[t].copy)
                    /\ thread[t].copy.gross = entry[thread[t].of].gross
        /\ thread[t].op = "sync" => thread[t].copy.live
        /\ thread[t].op # "settle" => thread[t].left = {}

LedgerInv == TypeOK /\ Entries /\ Copies

\* No entry goes away, and no price changes.
PricesStand ==
    \A p \in Order : entry[p].live => entry'[p].live /\ entry'[p].gross = entry[p].gross

\* An operation wrote w on the entry of o; fresh is what it would have written had it
\* looked again.
Wrote(o, w, fresh) ==
    /\ entry' = [entry EXCEPT ![o] = w]
    /\ entry'[o] = w /\ \A p \in Order : p # o => entry'[p] = entry[p]
    /\ marred' \in [Order -> SUBSET Mishap]
    /\ \A p \in Order : p # o => marred'[p] = marred[p]
    /\ marred[o] \subseteq marred'[o]
    /\ "stale" \notin marred'[o] => w = fresh

Others(t) == \A u \in Thread : u # t => thread'[u] = thread[u]

LEMMA IdleTyped == Idle \in Activity /\ NoEntry \in Entry
BY LedgerAssumption DEF Idle, Activity, NoEntry, Entry

LEMMA LedgerInit == Init => LedgerInv
<1> SUFFICES ASSUME Init PROVE LedgerInv
  OBVIOUS
<1>1. TypeOK
  <2>1. {} \in SUBSET Mishap
    OBVIOUS
  <2> QED
    BY <2>1, IdleTyped, LedgerAssumption DEF Init, TypeOK
<1>2. Entries
  BY DEF Init, Entries, Sound, NoEntry
<1>3. Copies
  BY DEF Init, Copies, Idle
<1> QED
  BY <1>1, <1>2, <1>3 DEF LedgerInv

\* What a thread in the middle of an operation on one order holds.
LEMMA HeldIs ==
    ASSUME LedgerInv, NEW t \in Thread, thread[t].op \in {"sync", "reverse", "slice"}
    PROVE  /\ thread[t].of \in Order /\ entry[thread[t].of] \in Entry
           /\ entry[thread[t].of].live /\ Sound(entry[thread[t].of])
           /\ thread[t].copy \in Entry /\ thread[t].amount \in Nat
           /\ thread[t].left = {}
           /\ thread[t].copy.live => /\ Sound(thread[t].copy)
                                     /\ thread[t].copy.gross = entry[thread[t].of].gross
BY DEF LedgerInv, TypeOK, Entries, Copies, Activity

\* The steps that end an operation on one order with a write, and the marks.
LEMMA SyncWriteIs ==
    ASSUME LedgerInv, NEW t \in Thread, SyncWrite(t)
    PROVE  \E o \in Order, charge \in Nat :
             /\ o = thread[t].of /\ thread[t].op = "sync" /\ thread[t].copy.live
             /\ Wrote(o, Synced(entry[o], thread[t].copy, charge),
                      IF Syncable(entry[o]) THEN Synced(entry[o], entry[o], charge)
                      ELSE entry[o])
             /\ marred'[o] = {} => ~(entry[o].refunded > 0)
<1> DEFINE o == thread[t].of
<1> PICK charge \in Charges :
      Write(o, Synced(entry[o], thread[t].copy, charge),
            IF Syncable(entry[o]) THEN Synced(entry[o], entry[o], charge) ELSE entry[o],
            IF entry[o].refunded > 0 THEN {"charge"} ELSE {})
  BY DEF SyncWrite
<1>1. thread[t].op = "sync" /\ o \in Order /\ thread[t].copy.live
  BY HeldIs DEF SyncWrite, LedgerInv, Copies
<1>2. (IF entry[o].refunded > 0 THEN {"charge"} ELSE {}) \in SUBSET Mishap
  BY DEF Mishap
<1>3. /\ Wrote(o, Synced(entry[o], thread[t].copy, charge),
               IF Syncable(entry[o]) THEN Synced(entry[o], entry[o], charge) ELSE entry[o])
      /\ (IF entry[o].refunded > 0 THEN {"charge"} ELSE {}) \subseteq marred'[o]
  BY <1>1, <1>2, WriteIs DEF Wrote, LedgerInv, TypeOK
<1>4. charge \in Nat
  BY LedgerAssumption
<1> QED
  BY <1>1, <1>3, <1>4

LEMMA ReverseWriteIs ==
    ASSUME LedgerInv, NEW t \in Thread, ReverseWrite(t)
    PROVE  \E o \in Order :
             /\ o = thread[t].of /\ thread[t].op = "reverse" /\ thread[t].copy.live
             /\ Wrote(o, Reversed(entry[o], thread[t].copy), Reversed(entry[o], entry[o]))
             /\ marred'[o] = {} => ~Unseen(o)
<1> DEFINE o == thread[t].of
<1>1. thread[t].op = "reverse" /\ o \in Order /\ thread[t].copy.live
  BY HeldIs DEF ReverseWrite
<1>2. (IF Unseen(o) THEN {"unseen"} ELSE {}) \in SUBSET Mishap
  BY DEF Mishap
<1>3. Write(o, Reversed(entry[o], thread[t].copy), Reversed(entry[o], entry[o]),
            IF Unseen(o) THEN {"unseen"} ELSE {})
  BY DEF ReverseWrite
<1>4. /\ Wrote(o, Reversed(entry[o], thread[t].copy), Reversed(entry[o], entry[o]))
      /\ (IF Unseen(o) THEN {"unseen"} ELSE {}) \subseteq marred'[o]
  BY <1>1, <1>2, <1>3, WriteIs DEF Wrote, LedgerInv, TypeOK
<1> QED
  BY <1>1, <1>4

LEMMA SliceWriteIs ==
    ASSUME LedgerInv, NEW t \in Thread, SliceWrite(t)
    PROVE  \E o \in Order, told \in Nat :
             /\ o = thread[t].of /\ thread[t].op = "slice" /\ thread[t].copy.live
             /\ told = thread[t].amount
             /\ Wrote(o, Sliced(entry[o], thread[t].copy, told),
                      Sliced(entry[o], entry[o], told))
             /\ parts' = [parts EXCEPT ![o] = @ + 1]
<1> DEFINE o == thread[t].of
           told == thread[t].amount
<1>1. thread[t].op = "slice" /\ o \in Order /\ told \in Nat /\ thread[t].copy.live
  BY HeldIs DEF SliceWrite
<1>2. /\ Write(o, Sliced(entry[o], thread[t].copy, told), Sliced(entry[o], entry[o], told), {})
      /\ parts' = [parts EXCEPT ![o] = @ + 1]
  BY DEF SliceWrite
<1>3. {} \in SUBSET Mishap
  OBVIOUS
<1>4. Wrote(o, Sliced(entry[o], thread[t].copy, told), Sliced(entry[o], entry[o], told))
  BY <1>1, <1>2, <1>3, WriteIs DEF Wrote, LedgerInv, TypeOK
<1> QED
  BY <1>1, <1>2, <1>4

\* What the thread is left with when the last of its entries, or another, is marked.
LeftAfter(t, o) == IF thread[t].left = {o} THEN Idle
                   ELSE [thread[t] EXCEPT !.left = @ \ {o}]

LEMMA PayoutMarkIs ==
    ASSUME LedgerInv, NEW t \in Thread, NEW o \in Order, PayoutMark(t, o)
    PROVE  /\ thread[t].op = "settle" /\ o \in thread[t].left
           /\ thread[t].batch \in [Order -> Int]
           /\ Wrote(o, Marked(entry[o], thread[t].batch[o]), Marked(entry[o], entry[o].net))
           /\ thread' = [thread EXCEPT ![t] = LeftAfter(t, o)]
           /\ LeftAfter(t, o) \in Activity
           /\ LeftAfter(t, o).op \in {"idle", "settle"}
           /\ LeftAfter(t, o).op # "settle" => LeftAfter(t, o).left = {}
           /\ \A p \in Order : p \in LeftAfter(t, o).left <=> p \in thread[t].left /\ p # o
           /\ LeftAfter(t, o).left # {} => LeftAfter(t, o).batch = thread[t].batch
           /\ UNCHANGED <<parts, money>>
<1>1. /\ thread[t].op = "settle" /\ o \in thread[t].left /\ thread[t] \in Activity
      /\ thread[t].batch \in [Order -> Int] /\ thread[t].left \in SUBSET Order
  BY DEF PayoutMark, LedgerInv, TypeOK, Activity
<1>2. {} \in SUBSET Mishap
  OBVIOUS
<1>3. Wrote(o, Marked(entry[o], thread[t].batch[o]), Marked(entry[o], entry[o].net))
  BY <1>2, WriteIs DEF PayoutMark, Wrote, LedgerInv, TypeOK
<1>4. thread' = [thread EXCEPT ![t] = LeftAfter(t, o)]
  BY DEF PayoutMark, Finish, LeftAfter
<1>5. CASE thread[t].left = {o}
  <2>1. LeftAfter(t, o) = Idle /\ Idle.left = {} /\ Idle.op = "idle"
    BY <1>5 DEF LeftAfter, Idle
  <2> QED
    BY <1>1, <1>3, <1>4, <1>5, <2>1, IdleTyped DEF PayoutMark
<1>6. CASE thread[t].left # {o}
  <2>1. LeftAfter(t, o) = [thread[t] EXCEPT !.left = @ \ {o}]
    BY <1>6 DEF LeftAfter
  <2>2. /\ LeftAfter(t, o) \in Activity /\ LeftAfter(t, o).op = "settle"
        /\ LeftAfter(t, o).left = thread[t].left \ {o}
        /\ LeftAfter(t, o).batch = thread[t].batch
    BY <1>1, <2>1 DEF Activity
  <2> QED
    BY <1>1, <1>3, <1>4, <2>2 DEF PayoutMark
<1> QED
  BY <1>5, <1>6

\* A write that leaves an entry sound and its price alone, by a thread that returns to
\* rest or goes on marking.
LEMMA WroteKeeps ==
    ASSUME LedgerInv, NEW o \in Order, NEW w \in Entry, NEW fresh,
           Same(w, entry[o]), Sound(w), Wrote(o, w, fresh),
           NEW t \in Thread, NEW a \in Activity, a.op \in {"idle", "settle"},
           a.op # "settle" => a.left = {},
           thread' = [thread EXCEPT ![t] = a], UNCHANGED money,
           parts' \in [Order -> Nat]
    PROVE  LedgerInv'
<1>1. entry' \in [Order -> Entry] /\ Entries' /\ PricesStand
  BY DEF LedgerInv, TypeOK, Entries, PricesStand, Wrote, Same
<1>2. thread' \in [Thread -> Activity] /\ thread'[t] = a /\ Others(t)
  BY DEF LedgerInv, TypeOK, Others
<1>3. Copies'
  BY <1>1, <1>2 DEF LedgerInv, Copies, PricesStand, Others, Sound
<1>4. TypeOK'
  BY <1>1, <1>2 DEF LedgerInv, TypeOK, Wrote, money
<1> QED
  BY <1>1, <1>3, <1>4 DEF LedgerInv

LEMMA AtRest ==
    ASSUME LedgerInv, NEW t \in Thread, Finish(t)
    PROVE  /\ thread' = [thread EXCEPT ![t] = Idle] /\ Idle \in Activity
           /\ Idle.op = "idle" /\ Idle.left = {}
           /\ thread'[t] = Idle /\ Others(t)
BY IdleTyped DEF LedgerInv, TypeOK, Finish, Others, Idle

LEMMA SyncWriteKeeps ==
    ASSUME LedgerInv, NEW t \in Thread, SyncWrite(t)
    PROVE  LedgerInv'
<1> PICK o \in Order, charge \in Nat :
      /\ o = thread[t].of /\ thread[t].op = "sync"
      /\ Wrote(o, Synced(entry[o], thread[t].copy, charge),
               IF Syncable(entry[o]) THEN Synced(entry[o], entry[o], charge) ELSE entry[o])
  BY SyncWriteIs
<1>1. entry[o] \in Entry /\ Sound(entry[o]) /\ thread[t].copy \in Entry
  BY HeldIs
<1> DEFINE w == Synced(entry[o], thread[t].copy, charge)
<1>2. w \in Entry /\ Same(w, entry[o]) /\ Sound(w)
  <2>1. w \in Entry /\ Same(w, entry[o]) /\ w.refunded = entry[o].refunded
    BY <1>1, SyncedIs
  <2> HIDE DEF w
  <2> QED
    BY <1>1, <2>1 DEF Sound, Same
<1>3. Finish(t) /\ UNCHANGED money /\ parts' \in [Order -> Nat]
  BY DEF SyncWrite, LedgerInv, TypeOK
<1> QED
  BY <1>2, <1>3, AtRest, WroteKeeps

LEMMA ReverseWriteKeeps ==
    ASSUME LedgerInv, NEW t \in Thread, ReverseWrite(t)
    PROVE  LedgerInv'
<1> PICK o \in Order :
      /\ o = thread[t].of /\ thread[t].op = "reverse" /\ thread[t].copy.live
      /\ Wrote(o, Reversed(entry[o], thread[t].copy), Reversed(entry[o], entry[o]))
  BY ReverseWriteIs
<1>1. /\ entry[o] \in Entry /\ thread[t].copy \in Entry
      /\ thread[t].copy.gross = entry[o].gross
  BY HeldIs
<1> DEFINE w == Reversed(entry[o], thread[t].copy)
<1>2. w \in Entry /\ Same(w, entry[o]) /\ Sound(w)
  BY <1>1, ReversedIs, EntryFields DEF Sound, Same
<1>3. Finish(t) /\ UNCHANGED money /\ parts' \in [Order -> Nat]
  BY DEF ReverseWrite, LedgerInv, TypeOK
<1> QED
  BY <1>2, <1>3, AtRest, WroteKeeps

\* What a slice leaves is sound whatever it was computed from.
LEMMA SlicedSound ==
    ASSUME NEW now \in Entry, NEW e \in Entry, Sound(now), Sound(e), e.gross = now.gross,
           NEW told \in Nat
    PROVE  LET w == Sliced(now, e, told) IN w \in Entry /\ Same(w, now) /\ Sound(w)
<1> DEFINE w == Sliced(now, e, told)
           part == RefundablePart(e, told)
<1>1. part \in Nat /\ e.refunded + part <= e.gross
  BY PartFits
<1>2. /\ w \in Entry /\ Same(w, now)
      /\ part = 0 => w = now
      /\ part > 0 => w.refunded = e.refunded + part
  BY SlicedIs
<1> HIDE DEF w, part
<1>3. Sound(w)
  BY <1>1, <1>2 DEF Sound, Same
<1> QED
  BY <1>2, <1>3 DEF w

LEMMA SliceWriteKeeps ==
    ASSUME LedgerInv, NEW t \in Thread, SliceWrite(t)
    PROVE  LedgerInv'
<1> PICK o \in Order, told \in Nat :
      /\ o = thread[t].of /\ thread[t].op = "slice" /\ thread[t].copy.live
      /\ Wrote(o, Sliced(entry[o], thread[t].copy, told), Sliced(entry[o], entry[o], told))
      /\ parts' = [parts EXCEPT ![o] = @ + 1]
  BY SliceWriteIs
<1>1. /\ entry[o] \in Entry /\ Sound(entry[o]) /\ thread[t].copy \in Entry
      /\ Sound(thread[t].copy) /\ thread[t].copy.gross = entry[o].gross
  BY HeldIs
<1> DEFINE w == Sliced(entry[o], thread[t].copy, told)
<1>2. w \in Entry /\ Same(w, entry[o]) /\ Sound(w)
  BY <1>1, SlicedSound
<1>3. Finish(t) /\ UNCHANGED money /\ parts' \in [Order -> Nat]
  BY DEF SliceWrite, LedgerInv, TypeOK
<1> QED
  BY <1>2, <1>3, AtRest, WroteKeeps

LEMMA PayoutMarkKeeps ==
    ASSUME LedgerInv, NEW t \in Thread, NEW o \in Order, PayoutMark(t, o)
    PROVE  LedgerInv'
<1> DEFINE w == Marked(entry[o], thread[t].batch[o])
<1>1. entry[o] \in Entry /\ Sound(entry[o]) /\ parts \in [Order -> Nat]
  BY DEF LedgerInv, TypeOK, Entries
<1>2. w \in Entry /\ Same(w, entry[o]) /\ Sound(w)
  BY <1>1, PayoutMarkIs, MarkedIs DEF Sound, Same
<1>3. PICK a \in Activity :
        /\ a.op \in {"idle", "settle"}
        /\ a.op # "settle" => a.left = {}
        /\ thread' = [thread EXCEPT ![t] = a]
  BY PayoutMarkIs
<1>4. /\ Wrote(o, w, Marked(entry[o], entry[o].net))
      /\ UNCHANGED money /\ parts' \in [Order -> Nat]
  BY <1>1, PayoutMarkIs
<1> HIDE DEF w
<1> QED
  BY <1>2, <1>3, <1>4, WroteKeeps

LEMMA RecordOrderIs ==
    ASSUME NEW o \in Order, RecordOrder(o)
    PROVE  \E e \in Entry :
             /\ entry' = [entry EXCEPT ![o] = e]
             /\ e.live /\ e.gross > 0 /\ e.refunded = 0 /\ ~e.settled
             /\ e.commission = Percent(e.gross, e.percent)
             /\ e.delivery = 0 /\ e.net = e.gross - e.commission - e.fee
<1> PICK gross \in Prices, fee \in Fees, percent \in Rates :
      entry' = [entry EXCEPT ![o] =
           [NoEntry EXCEPT !.live = TRUE, !.gross = gross,
               !.percent = percent, !.commission = Percent(gross, percent), !.fee = fee,
               !.net = gross - Percent(gross, percent) - fee]]
  BY DEF RecordOrder
<1> DEFINE commission == Percent(gross, percent)
           e == [NoEntry EXCEPT !.live = TRUE, !.gross = gross,
                    !.percent = percent, !.commission = commission,
                    !.fee = fee, !.net = gross - commission - fee]
<1>1. /\ percent \in 0..100 /\ gross \in Nat /\ gross > 0 /\ fee \in Nat
  BY LedgerAssumption
<1>2. commission \in Nat
  BY <1>1, PercentNat
<1> HIDE DEF commission
<1>3. gross - commission - fee \in Int
  BY <1>1, <1>2
<1>4. /\ e \in Entry /\ e.live /\ e.gross = gross /\ e.percent = percent /\ e.fee = fee
      /\ e.commission = commission /\ e.net = gross - commission - fee
      /\ e.refunded = NoEntry.refunded /\ e.settled = NoEntry.settled
      /\ e.delivery = NoEntry.delivery
  BY <1>1, <1>2, <1>3, IdleTyped DEF Entry
<1>5. NoEntry.refunded = 0 /\ NoEntry.settled = FALSE /\ NoEntry.delivery = 0
  BY DEF NoEntry
<1>6. entry' = [entry EXCEPT ![o] = e]
  BY DEF commission
<1> HIDE DEF e
<1> QED
  BY <1>1, <1>4, <1>5, <1>6 DEF commission

LEMMA RecordOrderKeeps ==
    ASSUME LedgerInv, NEW o \in Order, RecordOrder(o)
    PROVE  LedgerInv'
<1>1. PICK e \in Entry : entry' = [entry EXCEPT ![o] = e] /\ e.refunded = 0
  BY RecordOrderIs
<1>2. Sound(e)
  BY <1>1, EntryFields DEF Sound
<1>3. ~entry[o].live /\ UNCHANGED <<thread, history>>
  BY DEF RecordOrder
<1>4. entry' \in [Order -> Entry] /\ Entries' /\ PricesStand
  BY <1>1, <1>2, <1>3 DEF LedgerInv, TypeOK, Entries, Sound, PricesStand
<1>5. Copies'
  BY <1>3, <1>4 DEF LedgerInv, Copies, PricesStand, Sound
<1> QED
  BY <1>3, <1>4, <1>5 DEF LedgerInv, TypeOK, history, money

\* The steps that leave the entries alone.
LEMMA ThreadKeeps ==
    ASSUME LedgerInv, NEW t \in Thread, UNCHANGED entry,
           NEW a \in Activity, thread' = [thread EXCEPT ![t] = a],
           a.op \in {"sync", "reverse", "slice"} =>
              /\ a.of \in Order /\ entry[a.of].live
              /\ a.copy.live => Sound(a.copy) /\ a.copy.gross = entry[a.of].gross,
           a.op = "sync" => a.copy.live,
           a.op # "settle" => a.left = {}
    PROVE  thread' \in [Thread -> Activity] /\ Entries' /\ Copies'
<1>1. thread' \in [Thread -> Activity] /\ thread'[t] = a
      /\ \A u \in Thread : u # t => thread'[u] = thread[u]
  BY DEF LedgerInv, TypeOK
<1> QED
  BY <1>1 DEF LedgerInv, Entries, Copies, Sound

LEMMA SyncReadKeeps ==
    ASSUME LedgerInv, NEW t \in Thread, NEW o \in Order, SyncRead(t, o)
    PROVE  LedgerInv'
<1> DEFINE a == [Idle EXCEPT !.op = "sync", !.of = o, !.copy = entry[o]]
<1>1. /\ a \in Activity /\ a.op = "sync" /\ a.of = o /\ a.copy = entry[o]
      /\ a.left = {} /\ entry[o].live /\ Sound(entry[o])
  BY IdleTyped DEF SyncRead, Syncable, LedgerInv, TypeOK, Entries, Idle, Activity
<1>2. thread' = [thread EXCEPT ![t] = a] /\ UNCHANGED entry
  BY DEF SyncRead
<1> HIDE DEF a
<1>3. thread' \in [Thread -> Activity] /\ Entries' /\ Copies'
  BY <1>1, <1>2, ThreadKeeps
<1> QED
  BY <1>3 DEF LedgerInv, TypeOK, SyncRead, history, money

LEMMA BoundsTyped ==
    ASSUME LedgerInv
    PROVE  /\ bounds.refunds < MaxRefunds =>
                [bounds EXCEPT !.refunds = @ + 1] \in
                   [refunds : 0..MaxRefunds, payouts : 0..MaxPayouts, crashes : 0..MaxCrashes]
           /\ bounds.payouts < MaxPayouts =>
                [bounds EXCEPT !.payouts = @ + 1] \in
                   [refunds : 0..MaxRefunds, payouts : 0..MaxPayouts, crashes : 0..MaxCrashes]
           /\ bounds.crashes < MaxCrashes =>
                [bounds EXCEPT !.crashes = @ + 1] \in
                   [refunds : 0..MaxRefunds, payouts : 0..MaxPayouts, crashes : 0..MaxCrashes]
BY LedgerAssumption DEF LedgerInv, TypeOK

LEMMA ReverseKeeps ==
    ASSUME LedgerInv, NEW t \in Thread, NEW o \in Order, Reverse(t, o)
    PROVE  LedgerInv'
<1> DEFINE a == [Idle EXCEPT !.op = "reverse", !.of = o]
<1>1. /\ a \in Activity /\ a.op = "reverse" /\ a.of = o /\ ~a.copy.live
      /\ a.left = {} /\ entry[o].live
  BY IdleTyped DEF Reverse, Idle, Activity, NoEntry
<1>2. thread' = [thread EXCEPT ![t] = a] /\ UNCHANGED entry
  BY DEF Reverse
<1> HIDE DEF a
<1>3. thread' \in [Thread -> Activity] /\ Entries' /\ Copies'
  BY <1>1, <1>2, ThreadKeeps
<1>4. entry[o].gross \in Nat
  BY EntryFields DEF LedgerInv, TypeOK
<1>5. returned' \in [Order -> Nat] /\ reversed' \in [Order -> BOOLEAN]
  BY <1>4 DEF LedgerInv, TypeOK, Reverse
<1> QED
  BY <1>3, <1>5, BoundsTyped DEF LedgerInv, TypeOK, Reverse

LEMMA SliceKeeps ==
    ASSUME LedgerInv, NEW t \in Thread, NEW o \in Order, NEW amount \in Slices,
           Slice(t, o, amount)
    PROVE  LedgerInv'
<1> DEFINE a == [Idle EXCEPT !.op = "slice", !.of = o, !.amount = amount]
<1>1. /\ a \in Activity /\ a.op = "slice" /\ a.of = o /\ ~a.copy.live
      /\ a.left = {} /\ entry[o].live
  BY IdleTyped, LedgerAssumption DEF Slice, Idle, Activity, NoEntry
<1>2. thread' = [thread EXCEPT ![t] = a] /\ UNCHANGED entry
  BY DEF Slice
<1> HIDE DEF a
<1>3. thread' \in [Thread -> Activity] /\ Entries' /\ Copies'
  BY <1>1, <1>2, ThreadKeeps
<1>4. amount \in Nat
  BY LedgerAssumption
<1>5. returned' \in [Order -> Nat]
  BY <1>4 DEF LedgerInv, TypeOK, Slice
<1> QED
  BY <1>3, <1>5, BoundsTyped DEF LedgerInv, TypeOK, Slice

LEMMA RefundReadKeeps ==
    ASSUME LedgerInv, NEW t \in Thread, RefundRead(t)
    PROVE  LedgerInv'
<1> DEFINE a == [thread[t] EXCEPT !.copy = entry[thread[t].of]]
<1>1. /\ thread[t] \in Activity /\ thread[t].op \in {"reverse", "slice"}
      /\ thread[t].of \in Order /\ entry[thread[t].of].live /\ thread[t].left = {}
      /\ entry[thread[t].of] \in Entry /\ Sound(entry[thread[t].of])
  BY HeldIs DEF RefundRead, LedgerInv, TypeOK
<1>2. /\ a \in Activity /\ a.op = thread[t].op /\ a.of = thread[t].of
      /\ a.copy = entry[thread[t].of] /\ a.left = thread[t].left
  BY <1>1 DEF Activity
<1>3. thread' = [thread EXCEPT ![t] = a] /\ UNCHANGED entry
  BY DEF RefundRead
<1> HIDE DEF a
<1>4. thread' \in [Thread -> Activity] /\ Entries' /\ Copies'
  BY <1>1, <1>2, <1>3, ThreadKeeps
<1> QED
  BY <1>4 DEF LedgerInv, TypeOK, RefundRead, history, money

\* A payout that begins holds the nets it read.
Nets(batch) == [o \in Order |-> IF o \in batch THEN entry[o].net ELSE 0]
Payment(batch) == [Idle EXCEPT !.op = "settle", !.batch = Nets(batch), !.left = batch]

LEMMA PayoutReadIs ==
    ASSUME LedgerInv, NEW t \in Thread, NEW batch \in SUBSET Order,
           PayoutRead(t, batch)
    PROVE  /\ Nets(batch) \in [Order -> Int]
           /\ Payment(batch) \in Activity /\ Payment(batch).op = "settle"
           /\ Payment(batch).left = batch /\ Payment(batch).batch = Nets(batch)
           /\ thread' = [thread EXCEPT ![t] = Payment(batch)] /\ UNCHANGED entry
           /\ paidOut' = [o \in Order |-> paidOut[o] + Nets(batch)[o]]
           /\ marred' \in [Order -> SUBSET Mishap]
<1>1. Nets(batch) \in [Order -> Int]
  BY EntryFields DEF LedgerInv, TypeOK, Nets
<1>2. /\ Payment(batch) \in Activity /\ Payment(batch).op = "settle"
      /\ Payment(batch).left = batch /\ Payment(batch).batch = Nets(batch)
  BY <1>1, IdleTyped DEF Idle, Activity, Payment
<1>3. /\ thread' = [thread EXCEPT ![t] = Payment(batch)] /\ UNCHANGED entry
      /\ paidOut' = [o \in Order |-> paidOut[o] + Nets(batch)[o]]
  BY DEF PayoutRead, Payment, Nets
<1>4. marred' \in [Order -> SUBSET Mishap]
  BY DEF PayoutRead, LedgerInv, TypeOK, Mishap
<1> QED
  BY <1>1, <1>2, <1>3, <1>4

LEMMA PayoutReadKeeps ==
    ASSUME LedgerInv, NEW t \in Thread, NEW batch \in SUBSET Order,
           PayoutRead(t, batch)
    PROVE  LedgerInv'
<1>1. thread' \in [Thread -> Activity] /\ Entries' /\ Copies'
  BY PayoutReadIs, ThreadKeeps
<1>2. paidOut' \in [Order -> Int]
  BY PayoutReadIs DEF LedgerInv, TypeOK
<1> QED
  BY <1>1, <1>2, PayoutReadIs, BoundsTyped DEF LedgerInv, TypeOK, PayoutRead

LEMMA CrashKeeps ==
    ASSUME LedgerInv, NEW t \in Thread, Crash(t)
    PROVE  LedgerInv'
<1>1. thread' \in [Thread -> Activity] /\ Entries' /\ Copies'
  BY AtRest, ThreadKeeps DEF Crash
<1>2. marred' \in [Order -> SUBSET Mishap]
  <2>1. \A m \in SUBSET Mishap : m \cup {"crash"} \in SUBSET Mishap
    BY DEF Mishap
  <2> QED
    BY <2>1 DEF Crash, LedgerInv, TypeOK
<1> QED
  BY <1>1, <1>2, BoundsTyped DEF LedgerInv, TypeOK, Crash

LEMMA LedgerStep == LedgerInv /\ [Next]_vars => LedgerInv'
<1> SUFFICES ASSUME LedgerInv, [Next]_vars PROVE LedgerInv'
  OBVIOUS
<1>1. CASE UNCHANGED vars
  BY <1>1 DEF vars, LedgerInv, TypeOK, Entries, Copies, Sound
<1> QED
  BY <1>1, RecordOrderKeeps, SyncReadKeeps, SyncWriteKeeps, ReverseKeeps, SliceKeeps,
     RefundReadKeeps, ReverseWriteKeeps, SliceWriteKeeps, PayoutReadKeeps,
     PayoutMarkKeeps, CrashKeeps
     DEF Next

LEMMA LedgerAlways == Spec => []LedgerInv
BY LedgerInit, LedgerStep, PTL DEF Spec

\* The entries, copies and counters keep their types, so that a commission or
\* a refunded amount is never negative, for every set of orders and threads.
THEOREM LedgerTyped == Spec => []TypeOK
<1>1. LedgerInv => TypeOK
  BY DEF LedgerInv
<1> QED
  BY <1>1, LedgerAlways, PTL

\* No entry ever claims that more was refunded than the order's price, though
\* any number of threads write refunds, charges and payouts from stale copies.
THEOREM RefundsWithinPrice == Spec => []RefundWithinPrice
<1>1. LedgerInv => RefundWithinPrice
  BY EntryFields DEF LedgerInv, TypeOK, Entries, Sound, RefundWithinPrice
<1> QED
  BY <1>1, LedgerAlways, PTL

-------------------------------------------------------------------------------
(* Settled entries: what is written without a stale copy is what the entry as *)
(* it was calls for, and no operation that looks at a settled entry moves it. *)

PaidInv == LedgerInv /\ SettledAsPaid

Still == \A o \in Order :
            entry[o].settled /\ entry'[o].settled /\ "stale" \notin marred'[o]
               => entry'[o].net = entry[o].net /\ entry'[o].delivery = entry[o].delivery

LEMMA WroteStands ==
    ASSUME PaidInv, NEW o \in Order, NEW w, NEW fresh, Wrote(o, w, fresh),
           w = fresh /\ w.settled =>
              /\ (entry[o].settled => entry[o].net = entry[o].settledNet) =>
                    w.net = w.settledNet
              /\ entry[o].settled => w.net = entry[o].net /\ w.delivery = entry[o].delivery
    PROVE  SettledAsPaid' /\ Still
<1>1. ASSUME NEW p \in Order, "stale" \notin marred'[p], entry'[p].settled
      PROVE  /\ entry'[p].net = entry'[p].settledNet
             /\ entry[p].settled => /\ entry'[p].net = entry[p].net
                                    /\ entry'[p].delivery = entry[p].delivery
  <2>1. CASE p = o
    BY <1>1, <2>1 DEF Wrote, PaidInv, SettledAsPaid
  <2>2. CASE p # o
    BY <1>1, <2>2 DEF Wrote, PaidInv, SettledAsPaid
  <2> QED
    BY <2>1, <2>2
<1> QED
  BY <1>1 DEF SettledAsPaid, Still

LEMMA RestStands ==
    ASSUME PaidInv, UNCHANGED entry, \A o \in Order : marred[o] \subseteq marred'[o]
    PROVE  SettledAsPaid' /\ Still
BY DEF PaidInv, SettledAsPaid, Still

LEMMA SyncWriteStands ==
    ASSUME PaidInv, NEW t \in Thread, SyncWrite(t)
    PROVE  SettledAsPaid' /\ Still
<1> PICK o \in Order, charge \in Nat :
      /\ o = thread[t].of /\ thread[t].op = "sync"
      /\ Wrote(o, Synced(entry[o], thread[t].copy, charge),
               IF Syncable(entry[o]) THEN Synced(entry[o], entry[o], charge) ELSE entry[o])
  BY SyncWriteIs DEF PaidInv
<1> DEFINE w == Synced(entry[o], thread[t].copy, charge)
           fresh == IF Syncable(entry[o]) THEN Synced(entry[o], entry[o], charge)
                    ELSE entry[o]
<1>1. entry[o] \in Entry /\ entry[o].live
  BY HeldIs DEF PaidInv
<1>2. /\ ~entry[o].settled => fresh.settled = entry[o].settled
      /\ entry[o].settled => fresh = entry[o]
  BY <1>1, SyncedIs DEF Syncable
<1> HIDE DEF w, fresh
<1>3. Wrote(o, w, fresh)
  BY DEF w, fresh
<1> QED
  BY <1>2, <1>3, WroteStands

LEMMA ReverseWriteStands ==
    ASSUME PaidInv, NEW t \in Thread, ReverseWrite(t)
    PROVE  SettledAsPaid' /\ Still
<1> PICK o \in Order :
      /\ o = thread[t].of /\ thread[t].op = "reverse" /\ thread[t].copy.live
      /\ Wrote(o, Reversed(entry[o], thread[t].copy), Reversed(entry[o], entry[o]))
  BY ReverseWriteIs DEF PaidInv
<1>1. entry[o] \in Entry
  BY HeldIs DEF PaidInv
<1>2. ~Reversed(entry[o], entry[o]).settled
  BY <1>1, ReversedIs
<1> QED
  BY <1>2, WroteStands

LEMMA SliceWriteStands ==
    ASSUME PaidInv, NEW t \in Thread, SliceWrite(t)
    PROVE  SettledAsPaid' /\ Still
<1> PICK o \in Order, told \in Nat :
      /\ o = thread[t].of /\ thread[t].op = "slice" /\ thread[t].copy.live
      /\ Wrote(o, Sliced(entry[o], thread[t].copy, told), Sliced(entry[o], entry[o], told))
  BY SliceWriteIs DEF PaidInv
<1> DEFINE fresh == Sliced(entry[o], entry[o], told)
           part == RefundablePart(entry[o], told)
<1>1. entry[o] \in Entry /\ Sound(entry[o])
  BY HeldIs DEF PaidInv
<1>2. /\ part \in Nat
      /\ part = 0 => fresh = entry[o]
      /\ part > 0 => ~fresh.settled
  <2>1. part \in Nat
    BY <1>1, PartFits
  <2>2. /\ part = 0 => fresh = entry[o]
        /\ part > 0 => fresh.settled = (entry[o].settled /\ ~entry[o].settled)
    BY <1>1, SlicedIs
  <2> HIDE DEF fresh, part
  <2> QED
    BY <2>1, <2>2
<1> HIDE DEF part
<1>3. fresh = entry[o] \/ ~fresh.settled
  BY <1>2
<1> HIDE DEF fresh
<1>4. Wrote(o, Sliced(entry[o], thread[t].copy, told), fresh)
  BY DEF fresh
<1> QED
  BY <1>3, <1>4, WroteStands

LEMMA PayoutMarkStands ==
    ASSUME PaidInv, NEW t \in Thread, NEW o \in Order, PayoutMark(t, o)
    PROVE  SettledAsPaid' /\ Still
<1> DEFINE w == Marked(entry[o], thread[t].batch[o])
           fresh == Marked(entry[o], entry[o].net)
<1>1. entry[o] \in Entry /\ entry[o].net \in Int
  BY EntryFields DEF PaidInv, LedgerInv, TypeOK
<1>2. /\ fresh.net = entry[o].net /\ fresh.settledNet = entry[o].net
      /\ fresh.delivery = entry[o].delivery
  BY <1>1, MarkedIs
<1>3. Wrote(o, w, fresh)
  BY PayoutMarkIs DEF PaidInv
<1> HIDE DEF w, fresh
<1> QED
  BY <1>2, <1>3, WroteStands

LEMMA RecordOrderStands ==
    ASSUME PaidInv, NEW o \in Order, RecordOrder(o)
    PROVE  SettledAsPaid' /\ Still
<1>1. PICK e \in Entry : entry' = [entry EXCEPT ![o] = e] /\ ~e.settled
  BY RecordOrderIs
<1>2. UNCHANGED marred
  BY DEF RecordOrder, history
<1> QED
  BY <1>1, <1>2 DEF PaidInv, LedgerInv, TypeOK, SettledAsPaid, Still

LEMMA PaidStep ==
    ASSUME PaidInv, [Next]_vars
    PROVE  SettledAsPaid' /\ Still
<1>1. CASE UNCHANGED vars
  BY <1>1, RestStands DEF vars
<1>2. ASSUME NEW t \in Thread, NEW o \in Order,
             SyncRead(t, o) \/ Reverse(t, o) \/ (\E a \in Slices : Slice(t, o, a))
      PROVE  SettledAsPaid' /\ Still
  <2>1. UNCHANGED entry /\ UNCHANGED marred
    BY <1>2 DEF SyncRead, Reverse, Slice, history
  <2> QED
    BY <2>1, RestStands
<1>3. ASSUME NEW t \in Thread, RefundRead(t) PROVE SettledAsPaid' /\ Still
  <2>1. UNCHANGED entry /\ UNCHANGED marred
    BY <1>3 DEF RefundRead, history
  <2> QED
    BY <2>1, RestStands
<1>4. ASSUME NEW t \in Thread, Crash(t) PROVE SettledAsPaid' /\ Still
  BY <1>4, RestStands DEF Crash, PaidInv, LedgerInv, TypeOK
<1>5. ASSUME NEW t \in Thread, NEW batch \in SUBSET Order, PayoutRead(t, batch)
      PROVE  SettledAsPaid' /\ Still
  BY <1>5, RestStands DEF PayoutRead, PaidInv, LedgerInv, TypeOK
<1> QED
  BY <1>1, <1>2, <1>3, <1>4, <1>5, RecordOrderStands, SyncWriteStands,
     ReverseWriteStands, SliceWriteStands, PayoutMarkStands
     DEF Next

LEMMA PaidInit == Init => PaidInv
<1>1. Init => SettledAsPaid
  BY DEF Init, SettledAsPaid, NoEntry
<1> QED
  BY <1>1, LedgerInit DEF PaidInv

LEMMA PaidAlways == PaidInv /\ [Next]_vars => PaidInv'
BY PaidStep, LedgerStep DEF PaidInv

\* However payouts, refunds, courier charges and crashes overlap, an entry shown as
\* settled shows what a payout paid for it, unless an operation wrote on it, from a stale
\* copy, what it would not have written had it looked again.
THEOREM SettledShowsWhatWasPaid == Spec => []SettledAsPaid
<1>1. PaidInv => SettledAsPaid
  BY DEF PaidInv
<1> QED
  BY PaidInit, PaidAlways, <1>1, PTL DEF Spec

\* No step moves the net or the courier's charge of an entry that is and stays settled,
\* whatever else is under way, unless it writes from a stale copy.
THEOREM SettledEntriesStand == Spec => SettledStandsStill
<1>1. PaidInv /\ [Next]_vars =>
        [\A o \in Order :
           entry[o].settled /\ entry'[o].settled /\ "stale" \notin marred'[o]
              => /\ entry'[o].net = entry[o].net
                 /\ entry'[o].delivery = entry[o].delivery]_vars
  BY PaidStep DEF Still
<1> QED
  BY PaidInit, PaidAlways, <1>1, PTL DEF Spec, SettledStandsStill

-------------------------------------------------------------------------------
(* The books of an order: what payouts paid and will pay is what the entry   *)
(* says is due, what was returned is refunded on the entry or about to be,   *)
(* paisa by paisa, and each part costs at most one paisa of rounding.        *)

Slicing(a, o) == a.op = "slice" /\ a.of = o
Reversing(a, o) == a.op = "reverse" /\ a.of = o
Marking(a, o) == o \in a.left

Held(o) == {p \in Thread \X (1..entry[o].gross) :
              Slicing(thread[p[1]], o) /\ p[2] <= thread[p[1]].amount}
ToTell(o) == Cardinality(Held(o))

\* The entry was told that the order was refunded as a whole.
Told(o) == reversed[o] /\ \A t \in Thread : ~Reversing(thread[t], o)

Due(o) == IF Told(o) THEN entry[o].delivery - entry[o].fee
          ELSE entry[o].gross - entry[o].refunded - entry[o].commission - entry[o].fee
               - entry[o].delivery

\* A payout paid what it read; until it marks the entry that is still to pay there.
Balanced(o) ==
    /\ \A t \in Thread : Marking(thread[t], o) =>
          /\ ~entry[o].settled
          /\ paidOut[o] - thread[t].batch[o] + entry[o].net = Due(o)
          /\ \A u \in Thread : Marking(thread[u], o) => u = t
    /\ (\A t \in Thread : ~Marking(thread[t], o)) => paidOut[o] + Outstanding(o) = Due(o)

Rounding(o) ==
    entry[o].commission - Percent(entry[o].gross - entry[o].refunded, entry[o].percent)

Sums(o) ==
    /\ entry[o].refunded = 0 =>
          entry[o].net = entry[o].gross - entry[o].commission - entry[o].fee
                         - entry[o].delivery
    /\ IF Told(o) THEN entry[o].refunded = entry[o].gross
       ELSE Rounding(o) \in -parts[o]..parts[o]
    /\ ~reversed[o] => entry[o].refunded + ToTell(o) = returned[o]

\* Razorpay returns no more than was paid, and all that is left only once.
Returnable(o) ==
    /\ ~entry[o].live => paidOut[o] = 0 /\ returned[o] = 0 /\ ~reversed[o]
    /\ entry[o].live => entry[o].gross > 0
    /\ returned[o] <= entry[o].gross
    /\ reversed[o] => returned[o] = entry[o].gross
    /\ \A t \in Thread :
         /\ Reversing(thread[t], o) =>
              reversed[o] /\ \A u \in Thread : Reversing(thread[u], o) => u = t
         /\ Slicing(thread[t], o) => thread[t].amount \in 1..entry[o].gross
         /\ Marking(thread[t], o) => entry[o].live

Books(o) ==
    /\ Returnable(o)
    /\ entry[o].live /\ marred[o] = {} => Balanced(o) /\ Sums(o)

BooksInv == LedgerInv /\ \A o \in Order : Books(o)

\* The same work on order o, before a step and after it.
Unmoved(a, b, o) ==
    /\ Slicing(a, o) <=> Slicing(b, o)
    /\ Slicing(a, o) => a.amount = b.amount
    /\ Reversing(a, o) <=> Reversing(b, o)
    /\ Marking(a, o) <=> Marking(b, o)
    /\ Marking(a, o) => a.batch[o] = b.batch[o]

\* No more work on order o after a step than before it.
Fewer(a, b, o) ==
    /\ Slicing(b, o) => Slicing(a, o) /\ a.amount = b.amount
    /\ Reversing(b, o) => Reversing(a, o)
    /\ Marking(b, o) => Marking(a, o) /\ a.batch[o] = b.batch[o]

\* Units: the paise of one thread's part.
Units(t, n) == {t} \X (1..n)

LEMMA UnitsCount ==
    ASSUME NEW t, NEW n \in Nat
    PROVE  IsFiniteSet(Units(t, n)) /\ Cardinality(Units(t, n)) = n
<1>1. IsFiniteSet({t}) /\ Cardinality({t}) = 1
  BY FS_Singleton
<1>2. IsFiniteSet(1..n) /\ Cardinality(1..n) = n
  BY FS_Interval
<1>3. /\ IsFiniteSet({t} \X (1..n))
      /\ Cardinality({t} \X (1..n)) = Cardinality({t}) * Cardinality(1..n)
  BY <1>1, <1>2, FS_Product, Zenon
<1> QED
  BY <1>1, <1>2, <1>3 DEF Units

LEMMA UnitsOfOne ==
    ASSUME NEW t \in Thread, NEW m \in Nat, NEW n \in 1..m
    PROVE  /\ Units(t, n) \subseteq Thread \X (1..m)
           /\ \A p \in Thread \X (1..m) : p \in Units(t, n) <=> p[1] = t /\ p[2] <= n
BY DEF Units

LEMMA HeldFinite ==
    ASSUME LedgerInv, NEW o \in Order
    PROVE  IsFiniteSet(Held(o)) /\ ToTell(o) \in Nat
<1>1. entry[o].gross \in Nat
  BY EntryFields DEF LedgerInv, TypeOK
<1>2. IsFiniteSet(1..entry[o].gross)
  BY <1>1, FS_Interval
<1>3. IsFiniteSet(Thread \X (1..entry[o].gross))
  BY <1>2, FS_Product, LedgerAssumption
<1>4. Held(o) \in SUBSET (Thread \X (1..entry[o].gross))
  BY DEF Held
<1>5. IsFiniteSet(Held(o))
  BY <1>3, <1>4, FS_Subset
<1> QED
  BY <1>5, FS_CardinalityType DEF ToTell

LEMMA HeldFiniteNext ==
    ASSUME LedgerInv', NEW o \in Order
    PROVE  IsFiniteSet(Held(o)') /\ ToTell(o)' \in Nat
<1>1. entry'[o].gross \in Nat
  BY EntryFields DEF LedgerInv, TypeOK
<1>2. IsFiniteSet(1..entry'[o].gross)
  BY <1>1, FS_Interval
<1>3. IsFiniteSet(Thread \X (1..entry'[o].gross))
  BY <1>2, FS_Product, LedgerAssumption
<1>4. Held(o)' \in SUBSET (Thread \X (1..entry'[o].gross))
  BY DEF Held
<1>5. IsFiniteSet(Held(o)')
  BY <1>3, <1>4, FS_Subset
<1> QED
  BY <1>5, FS_CardinalityType DEF ToTell

LEMMA NoneHeld ==
    ASSUME NEW o \in Order, \A t \in Thread : ~Slicing(thread[t], o)
    PROVE  ToTell(o) = 0
<1>1. Held(o) = {}
  BY DEF Held
<1> QED
  BY <1>1, FS_EmptySet DEF ToTell

LEMMA NoneHeldNext ==
    ASSUME NEW o \in Order, \A t \in Thread : ~Slicing(thread'[t], o)
    PROVE  ToTell(o)' = 0
<1>1. Held(o)' = {}
  BY DEF Held
<1> QED
  BY <1>1, FS_EmptySet DEF ToTell

LEMMA HeldStays ==
    ASSUME NEW o \in Order, entry'[o].gross = entry[o].gross,
           \A u \in Thread : Unmoved(thread[u], thread'[u], o)
    PROVE  ToTell(o)' = ToTell(o)
<1>1. Held(o)' = Held(o)
  BY DEF Held, Unmoved
<1> QED
  BY <1>1 DEF ToTell

\* One thread comes to hold a part ...
LEMMA HeldMore ==
    ASSUME LedgerInv, NEW o \in Order, entry'[o].gross = entry[o].gross,
           NEW t \in Thread, Others(t),
           ~Slicing(thread[t], o), Slicing(thread'[t], o),
           thread'[t].amount \in 1..entry[o].gross
    PROVE  ToTell(o)' = ToTell(o) + thread'[t].amount
<1> DEFINE n == thread'[t].amount
<1>1. n \in Nat /\ entry[o].gross \in Nat /\ n \in 1..entry[o].gross
  BY EntryFields DEF LedgerInv, TypeOK
<1>2. Held(o)' = Held(o) \cup Units(t, n) /\ Held(o) \cap Units(t, n) = {}
  <2>1. \A p \in Thread \X (1..entry[o].gross) :
          /\ p \in Held(o)' <=> Slicing(thread'[p[1]], o) /\ p[2] <= thread'[p[1]].amount
          /\ p \in Held(o) <=> Slicing(thread[p[1]], o) /\ p[2] <= thread[p[1]].amount
          /\ p \in Units(t, n) <=> p[1] = t /\ p[2] <= n
          /\ p[1] \in Thread
    BY <1>1, UnitsOfOne DEF Held
  <2>2. \A p \in Thread \X (1..entry[o].gross) :
          /\ p \in Held(o)' <=> p \in Held(o) \/ p \in Units(t, n)
          /\ ~(p \in Held(o) /\ p \in Units(t, n))
    BY <2>1 DEF Others
  <2>3. {Held(o), Held(o)', Units(t, n)} \subseteq SUBSET (Thread \X (1..entry[o].gross))
    BY <1>1, UnitsOfOne DEF Held
  <2> QED
    BY <2>2, <2>3
<1>3. IsFiniteSet(Units(t, n)) /\ Cardinality(Units(t, n)) = n
  BY <1>1, UnitsCount
<1>4. IsFiniteSet(Held(o)) /\ Cardinality(Held(o)) \in Nat
  BY HeldFinite DEF ToTell
<1>5. Cardinality(Held(o)') = Cardinality(Held(o)) + n - Cardinality({})
  BY <1>2, <1>3, <1>4, FS_Union
<1> QED
  BY <1>1, <1>4, <1>5, FS_EmptySet DEF ToTell

\* ... or holds one no longer.
LEMMA HeldLess ==
    ASSUME LedgerInv, LedgerInv', NEW o \in Order, entry'[o].gross = entry[o].gross,
           NEW t \in Thread, Others(t),
           Slicing(thread[t], o), ~Slicing(thread'[t], o),
           thread[t].amount \in 1..entry[o].gross
    PROVE  ToTell(o) = ToTell(o)' + thread[t].amount
<1> DEFINE n == thread[t].amount
<1>1. n \in Nat /\ entry[o].gross \in Nat /\ n \in 1..entry[o].gross
  BY EntryFields DEF LedgerInv, TypeOK
<1>2. Held(o) = Held(o)' \cup Units(t, n) /\ Held(o)' \cap Units(t, n) = {}
  <2>1. \A p \in Thread \X (1..entry[o].gross) :
          /\ p \in Held(o)' <=> Slicing(thread'[p[1]], o) /\ p[2] <= thread'[p[1]].amount
          /\ p \in Held(o) <=> Slicing(thread[p[1]], o) /\ p[2] <= thread[p[1]].amount
          /\ p \in Units(t, n) <=> p[1] = t /\ p[2] <= n
          /\ p[1] \in Thread
    BY <1>1, UnitsOfOne DEF Held
  <2>2. \A p \in Thread \X (1..entry[o].gross) :
          /\ p \in Held(o) <=> p \in Held(o)' \/ p \in Units(t, n)
          /\ ~(p \in Held(o)' /\ p \in Units(t, n))
    BY <2>1 DEF Others
  <2>3. {Held(o), Held(o)', Units(t, n)} \subseteq SUBSET (Thread \X (1..entry[o].gross))
    BY <1>1, UnitsOfOne DEF Held
  <2> QED
    BY <2>2, <2>3
<1>3. IsFiniteSet(Units(t, n)) /\ Cardinality(Units(t, n)) = n
  BY <1>1, UnitsCount
<1>4. IsFiniteSet(Held(o)') /\ Cardinality(Held(o)') \in Nat
  BY HeldFiniteNext DEF ToTell
<1>5. Cardinality(Held(o)) = Cardinality(Held(o)') + n - Cardinality({})
  BY <1>2, <1>3, <1>4, FS_Union
<1> QED
  BY <1>1, <1>4, <1>5, FS_EmptySet DEF ToTell

\* What a step leaves of an order's books when it has nothing to do with the order.
LEMMA BooksKept ==
    ASSUME BooksInv, NEW o \in Order, entry'[o] = entry[o],
           paidOut'[o] = paidOut[o], returned'[o] = returned[o],
           reversed'[o] = reversed[o], parts'[o] = parts[o],
           marred[o] \subseteq marred'[o],
           \A u \in Thread : Unmoved(thread[u], thread'[u], o)
    PROVE  Books(o)'
<1>1. /\ Books(o) /\ ToTell(o)' = ToTell(o)
      /\ Told(o)' <=> Told(o)
  BY HeldStays DEF BooksInv, Told, Unmoved
<1>2. /\ Due(o)' = Due(o) /\ Outstanding(o)' = Outstanding(o)
      /\ Rounding(o)' = Rounding(o)
  BY <1>1 DEF Due, Outstanding, Rounding
<1>3. Returnable(o)'
  BY <1>1 DEF Books, Returnable, Unmoved
<1>4. Balanced(o) => Balanced(o)'
  BY <1>2 DEF Balanced, Unmoved
<1>5. Sums(o) => Sums(o)'
  BY <1>1, <1>2 DEF Sums
<1> QED
  BY <1>1, <1>3, <1>4, <1>5 DEF Books

\* Other orders, when a write changes the entry of o and thread t drops its work on it.
LEMMA OthersKept ==
    ASSUME BooksInv, NEW o \in Order, NEW w, NEW fresh, Wrote(o, w, fresh),
           UNCHANGED money, \A p \in Order : p # o => parts'[p] = parts[p],
           \A p \in Order \ {o}, u \in Thread : Unmoved(thread[u], thread'[u], p)
    PROVE  \A p \in Order \ {o} : Books(p)'
<1> SUFFICES ASSUME NEW p \in Order, p # o PROVE Books(p)'
  OBVIOUS
<1> QED
  BY BooksKept DEF Wrote, money

\* A thread that ends its operation on o, or one that ends nothing there.
LEMMA EndsOn ==
    ASSUME LedgerInv, NEW t \in Thread, thread'[t] = Idle, Others(t),
           thread[t].op \in {"sync", "reverse", "slice"}
    PROVE  /\ \A u \in Thread, p \in Order : Fewer(thread[u], thread'[u], p)
           /\ \A u \in Thread, p \in Order :
                p # thread[t].of \/ thread[t].op = "sync"
                   => Unmoved(thread[u], thread'[u], p)
           /\ \A p \in Order : Marking(thread'[t], p) = FALSE /\ Marking(thread[t], p) = FALSE
           /\ \A p \in Order : ~Slicing(thread'[t], p) /\ ~Reversing(thread'[t], p)
<1>1. thread[t].left = {} /\ Idle.left = {} /\ Idle.op = "idle"
  BY HeldIs DEF Idle
<1> QED
  BY <1>1 DEF Others, Fewer, Unmoved, Slicing, Reversing, Marking

LEMMA BeginsOn ==
    ASSUME LedgerInv, NEW t \in Thread, thread[t] = Idle
    PROVE  \A p \in Order : /\ ~Marking(thread[t], p) /\ ~Slicing(thread[t], p)
                            /\ ~Reversing(thread[t], p)
BY DEF Slicing, Reversing, Marking, Idle

LEMMA ReturnableKept ==
    ASSUME BooksInv, NEW o \in Order, Same(entry'[o], entry[o]),
           paidOut'[o] = paidOut[o] \/ entry[o].live, returned'[o] = returned[o],
           reversed'[o] = reversed[o],
           \A u \in Thread : Fewer(thread[u], thread'[u], o)
    PROVE  Returnable(o)'
BY DEF BooksInv, Books, Returnable, Same, Fewer

LEMMA BooksInit == Init => BooksInv
<1> SUFFICES ASSUME Init PROVE BooksInv
  OBVIOUS
<1>1. ASSUME NEW o \in Order PROVE Books(o)
  <2>1. /\ entry[o] = NoEntry /\ ~NoEntry.live /\ NoEntry.gross = 0
        /\ paidOut[o] = 0 /\ returned[o] = 0 /\ ~reversed[o]
        /\ \A t \in Thread : /\ ~Slicing(thread[t], o) /\ ~Reversing(thread[t], o)
                             /\ ~Marking(thread[t], o)
    BY <1>1 DEF Init, NoEntry, Idle, Slicing, Reversing, Marking
  <2> QED
    BY <2>1 DEF Books, Returnable
<1> QED
  BY <1>1, LedgerInit DEF BooksInv

LEMMA RecordOrderBooked ==
    ASSUME BooksInv, NEW o \in Order, RecordOrder(o)
    PROVE  \A p \in Order : Books(p)'
<1>1. PICK e \in Entry :
        /\ entry' = [entry EXCEPT ![o] = e]
        /\ e.live /\ e.gross > 0 /\ e.refunded = 0 /\ ~e.settled
        /\ e.commission = Percent(e.gross, e.percent)
        /\ e.delivery = 0 /\ e.net = e.gross - e.commission - e.fee
  BY RecordOrderIs
<1>2. /\ ~entry[o].live /\ UNCHANGED <<thread, paidOut, returned, reversed, parts, marred>>
      /\ entry'[o] = e /\ \A p \in Order : p # o => entry'[p] = entry[p]
  BY <1>1 DEF RecordOrder, history, money, BooksInv, LedgerInv, TypeOK
<1>3. /\ paidOut[o] = 0 /\ returned[o] = 0 /\ ~reversed[o]
      /\ \A t \in Thread : /\ ~Slicing(thread[t], o) /\ ~Reversing(thread[t], o)
                           /\ ~Marking(thread[t], o)
  BY <1>2 DEF BooksInv, Books, Returnable, LedgerInv, Copies, Slicing, Reversing
<1>4. ASSUME NEW p \in Order, p # o PROVE Books(p)'
  <2>1. \A u \in Thread : Unmoved(thread[u], thread'[u], p)
    BY <1>2 DEF Unmoved
  <2> QED
    BY <1>2, <1>4, <2>1, BooksKept
<1>5. Books(o)'
  <2>1. /\ e.gross \in Nat /\ e.fee \in Nat /\ e.percent \in 0..100 /\ parts[o] \in Nat
        /\ e.commission \in Nat
    BY EntryFields DEF BooksInv, LedgerInv, TypeOK
  <2>2. ToTell(o)' = 0
    BY <1>2, <1>3, NoneHeldNext
  <2>3. ~Told(o)' /\ Due(o)' = e.net /\ Outstanding(o)' = e.net /\ e.net \in Int
    BY <1>1, <1>2, <1>3, <2>1 DEF Told, Due, Outstanding
  <2>4. Rounding(o)' = 0
    <3>1. e.gross - e.refunded = e.gross
      BY <1>1, <2>1
    <3> QED
      BY <1>1, <1>2, <2>1, <3>1 DEF Rounding
  <2>5. Returnable(o)'
    BY <1>1, <1>2, <1>3, <2>1 DEF Returnable
  <2>6. Balanced(o)'
    BY <1>2, <1>3, <2>3 DEF Balanced
  <2>7. Sums(o)'
    BY <1>1, <1>2, <1>3, <2>1, <2>2, <2>3, <2>4 DEF Sums
  <2> QED
    BY <2>5, <2>6, <2>7 DEF Books
<1> QED
  BY <1>4, <1>5

LEMMA SyncReadBooked ==
    ASSUME BooksInv, NEW t \in Thread, NEW o \in Order, SyncRead(t, o)
    PROVE  \A p \in Order : Books(p)'
<1> SUFFICES ASSUME NEW p \in Order PROVE Books(p)'
  OBVIOUS
<1>1. /\ thread[t] = Idle /\ UNCHANGED <<entry, paidOut, returned, reversed, parts, marred>>
      /\ thread'[t].op = "sync" /\ thread'[t].left = {} /\ Others(t)
  BY DEF SyncRead, history, money, BooksInv, LedgerInv, TypeOK, Others, Idle
<1>2. \A u \in Thread : Unmoved(thread[u], thread'[u], p)
  BY <1>1 DEF Others, Unmoved, Slicing, Reversing, Marking, Idle
<1> QED
  BY <1>1, <1>2, BooksKept

LEMMA RefundReadBooked ==
    ASSUME BooksInv, NEW t \in Thread, RefundRead(t)
    PROVE  \A p \in Order : Books(p)'
<1> SUFFICES ASSUME NEW p \in Order PROVE Books(p)'
  OBVIOUS
<1>1. /\ UNCHANGED <<entry, paidOut, returned, reversed, parts, marred>>
      /\ thread'[t] = [thread[t] EXCEPT !.copy = entry[thread[t].of]] /\ Others(t)
      /\ thread[t] \in Activity
  BY DEF RefundRead, history, money, BooksInv, LedgerInv, TypeOK, Others
<1>2. \A u \in Thread : Unmoved(thread[u], thread'[u], p)
  BY <1>1 DEF Others, Unmoved, Slicing, Reversing, Marking, Activity
<1> QED
  BY <1>1, <1>2, BooksKept

LEMMA SliceBooked ==
    ASSUME BooksInv, NEW t \in Thread, NEW o \in Order, NEW amount \in Slices,
           Slice(t, o, amount)
    PROVE  \A p \in Order : Books(p)'
<1> DEFINE a == [Idle EXCEPT !.op = "slice", !.of = o, !.amount = amount]
<1>1. /\ thread[t] = Idle /\ UNCHANGED <<entry, paidOut, reversed, parts, marred>>
      /\ entry[o].live /\ amount > 0 /\ returned[o] + amount <= entry[o].gross
      /\ returned' = [returned EXCEPT ![o] = @ + amount]
      /\ thread'[t] = a /\ Others(t)
  BY DEF Slice, BooksInv, LedgerInv, TypeOK, Others
<1>2. a.op = "slice" /\ a.of = o /\ a.amount = amount /\ a.left = {} /\ amount \in Nat
  BY LedgerAssumption DEF Idle
<1> HIDE DEF a
<1>3. /\ \A p \in Order : /\ ~Marking(thread[t], p) /\ ~Slicing(thread[t], p)
                          /\ ~Reversing(thread[t], p)
                          /\ ~Marking(thread'[t], p) /\ ~Reversing(thread'[t], p)
                          /\ Slicing(thread'[t], p) <=> p = o
  BY <1>1, <1>2, BeginsOn DEF BooksInv, Marking, Slicing, Reversing
<1>4. ASSUME NEW p \in Order, p # o PROVE Books(p)'
  <2>1. \A u \in Thread : Unmoved(thread[u], thread'[u], p)
    BY <1>1, <1>3, <1>4 DEF Others, Unmoved
  <2>2. returned'[p] = returned[p]
    BY <1>1, <1>4 DEF BooksInv, LedgerInv, TypeOK
  <2> QED
    BY <1>1, <2>1, <2>2, BooksKept
<1>5. Books(o)'
  <2>1. /\ entry[o].gross \in Nat /\ returned[o] \in Nat /\ Books(o)
        /\ entry[o].refunded \in Nat
        /\ returned'[o] = returned[o] + amount
    BY <1>1, EntryFields DEF BooksInv, LedgerInv, TypeOK
  <2>2. ~reversed[o] /\ amount \in 1..entry[o].gross
    BY <1>1, <1>2, <2>1 DEF Books, Returnable
  <2>3. ToTell(o)' = ToTell(o) + amount /\ ToTell(o) \in Nat
    BY <1>1, <1>2, <1>3, <2>2, HeldMore, HeldFinite DEF BooksInv
  <2>4. ~Told(o) /\ ~Told(o)'
    BY <1>1, <2>2 DEF Told
  <2>5. Due(o)' = Due(o) /\ Outstanding(o)' = Outstanding(o) /\ Rounding(o)' = Rounding(o)
    BY <1>1, <2>4 DEF Due, Outstanding, Rounding
  <2>6. Returnable(o)'
    BY <1>1, <1>2, <1>3, <2>1, <2>2 DEF Books, Returnable, Others
  <2>7. Balanced(o) => Balanced(o)'
    BY <1>1, <1>3, <2>5 DEF Balanced, Others
  <2>8. Sums(o) => Sums(o)'
    BY <1>1, <1>2, <2>1, <2>2, <2>3, <2>4, <2>5 DEF Sums
  <2> QED
    BY <1>1, <2>1, <2>6, <2>7, <2>8 DEF Books
<1> QED
  BY <1>4, <1>5

LEMMA ReverseBooked ==
    ASSUME BooksInv, NEW t \in Thread, NEW o \in Order, Reverse(t, o)
    PROVE  \A p \in Order : Books(p)'
<1> DEFINE a == [Idle EXCEPT !.op = "reverse", !.of = o]
<1>1. /\ thread[t] = Idle /\ UNCHANGED <<entry, paidOut, parts, marred>>
      /\ entry[o].live /\ returned[o] < entry[o].gross
      /\ returned' = [returned EXCEPT ![o] = entry[o].gross]
      /\ reversed' = [reversed EXCEPT ![o] = TRUE]
      /\ thread'[t] = a /\ Others(t)
  BY DEF Reverse, BooksInv, LedgerInv, TypeOK, Others
<1>2. a.op = "reverse" /\ a.of = o /\ a.left = {}
  BY DEF Idle
<1> HIDE DEF a
<1>3. /\ \A p \in Order : /\ ~Marking(thread[t], p) /\ ~Slicing(thread[t], p)
                          /\ ~Reversing(thread[t], p)
                          /\ ~Marking(thread'[t], p) /\ ~Slicing(thread'[t], p)
                          /\ Reversing(thread'[t], p) <=> p = o
  BY <1>1, <1>2, BeginsOn DEF BooksInv, Marking, Slicing, Reversing
<1>4. ASSUME NEW p \in Order, p # o PROVE Books(p)'
  <2>1. \A u \in Thread : Unmoved(thread[u], thread'[u], p)
    BY <1>1, <1>3, <1>4 DEF Others, Unmoved
  <2>2. returned'[p] = returned[p] /\ reversed'[p] = reversed[p]
    BY <1>1, <1>4 DEF BooksInv, LedgerInv, TypeOK
  <2> QED
    BY <1>1, <2>1, <2>2, BooksKept
<1>5. Books(o)'
  <2>1. /\ entry[o].gross \in Nat /\ returned[o] \in Nat /\ Books(o)
        /\ returned'[o] = entry[o].gross /\ reversed'[o]
    BY <1>1, EntryFields DEF BooksInv, LedgerInv, TypeOK
  <2>2. ~reversed[o]
    BY <1>1, <2>1 DEF Books, Returnable
  <2>3. \A u \in Thread : ~Reversing(thread[u], o)
    BY <2>1, <2>2 DEF Books, Returnable
  <2>4. ~Told(o) /\ ~Told(o)'
    BY <1>3, <2>2 DEF Told
  <2>5. Due(o)' = Due(o) /\ Outstanding(o)' = Outstanding(o) /\ Rounding(o)' = Rounding(o)
    BY <1>1, <2>4 DEF Due, Outstanding, Rounding
  <2>6. Returnable(o)'
    BY <1>1, <1>3, <2>1, <2>3 DEF Books, Returnable, Others
  <2>7. Balanced(o) => Balanced(o)'
    BY <1>1, <1>3, <2>5 DEF Balanced, Others
  <2>8. Sums(o) => Sums(o)'
    BY <1>1, <2>1, <2>4, <2>5 DEF Sums
  <2> QED
    BY <1>1, <2>1, <2>6, <2>7, <2>8 DEF Books
<1> QED
  BY <1>4, <1>5

\* A write on the entry of o by a thread that is done with it: for the orders but o.
LEMMA EndsKept ==
    ASSUME BooksInv, NEW t \in Thread, thread[t].op \in {"sync", "reverse", "slice"},
           Finish(t), NEW o \in Order, o = thread[t].of, NEW w, NEW fresh,
           Wrote(o, w, fresh), UNCHANGED money,
           \A p \in Order : p # o => parts'[p] = parts[p]
    PROVE  \A p \in Order \ {o} : Books(p)'
<1>1. thread'[t] = Idle /\ Others(t)
  BY AtRest DEF BooksInv
<1>2. \A p \in Order \ {o}, u \in Thread : Unmoved(thread[u], thread'[u], p)
  BY <1>1, EndsOn DEF BooksInv
<1> QED
  BY <1>2, OthersKept

LEMMA SyncWriteBooked ==
    ASSUME BooksInv, NEW t \in Thread, SyncWrite(t)
    PROVE  \A p \in Order : Books(p)'
<1>1. PICK o \in Order, charge \in Nat :
        /\ o = thread[t].of /\ thread[t].op = "sync"
        /\ Wrote(o, Synced(entry[o], thread[t].copy, charge),
                 IF Syncable(entry[o]) THEN Synced(entry[o], entry[o], charge)
                 ELSE entry[o])
        /\ marred'[o] = {} => ~(entry[o].refunded > 0)
  BY SyncWriteIs DEF BooksInv
<1> DEFINE now == entry[o]
           w == Synced(now, thread[t].copy, charge)
           fresh == IF Syncable(now) THEN Synced(now, now, charge) ELSE now
<1>2. Finish(t) /\ UNCHANGED <<parts, money>>
  BY DEF SyncWrite
<1>3. now \in Entry /\ now.live /\ thread[t].copy \in Entry
  BY <1>1, HeldIs DEF BooksInv
<1>4. Same(w, now)
  BY <1>3, SyncedIs
<1>5. \A p \in Order \ {o} : Books(p)'
  BY <1>1, <1>2, EndsKept
<1>6. /\ thread'[t] = Idle /\ Others(t)
      /\ \A u \in Thread : Unmoved(thread[u], thread'[u], o)
      /\ \A u \in Thread : Fewer(thread[u], thread'[u], o)
  BY <1>1, <1>2, AtRest, EndsOn DEF BooksInv
<1>7. /\ entry'[o] = w /\ marred[o] \subseteq marred'[o]
      /\ "stale" \notin marred'[o] => w = fresh
  BY <1>1 DEF Wrote
<1>8. Returnable(o)'
  BY <1>2, <1>4, <1>6, <1>7, ReturnableKept DEF money
<1>9. ASSUME marred'[o] = {} PROVE Balanced(o)' /\ Sums(o)'
  <2>1. /\ marred[o] = {} /\ w = fresh /\ Balanced(o) /\ Sums(o) /\ now.gross > 0
        /\ Returnable(o)
    BY <1>3, <1>7, <1>9 DEF BooksInv, Books, Returnable
  <2>2. now.refunded = 0
    BY <1>1, <1>3, <1>9, EntryFields
  <2>3. CASE now.settled
    <3>1. entry'[o] = entry[o]
      BY <1>7, <2>1, <2>3 DEF Syncable
    <3>2. Books(o)'
      BY <1>2, <1>6, <1>7, <3>1, BooksKept DEF money
    <3> QED
      BY <1>3, <1>9, <3>1, <3>2 DEF Books
  <2>4. CASE ~now.settled
    <3>1. /\ w.refunded = now.refunded /\ w.commission = now.commission
          /\ w.delivery = charge /\ w.net = now.gross - now.commission - now.fee - charge
          /\ w.settled = now.settled
      <4>1. w = Synced(now, now, charge)
        BY <1>3, <2>1, <2>4 DEF Syncable
      <4>2. PICK n \in Entry : n = now
        BY <1>3
      <4> HIDE DEF w, now
      <4>3. w = Synced(n, n, charge)
        BY <4>1, <4>2
      <4> QED
        BY <4>2, <4>3, SyncedIs
    <3>2. ~Told(o) /\ ~Told(o)'
      <4>1. ~Told(o)
        BY <1>3, <2>1, <2>2, EntryFields DEF Sums
      <4> QED
        BY <1>2, <1>6, <4>1 DEF Told, Unmoved, money
    <3>3. /\ {now.gross, now.commission, now.fee, now.delivery, charge} \subseteq Nat
          /\ {now.net, paidOut[o]} \subseteq Int
          /\ \A u \in Thread : thread[u].batch[o] \in Int
      BY <1>3, EntryFields DEF BooksInv, LedgerInv, TypeOK, Activity
    <3>4. now.net = now.gross - now.commission - now.fee - now.delivery
      BY <2>1, <2>2 DEF Sums
    <3>5. /\ Due(o) = now.net
          /\ Due(o)' = now.gross - now.commission - now.fee - charge
      <4> HIDE DEF w
      <4> QED
        BY <1>4, <1>7, <2>2, <3>1, <3>2, <3>3, <3>4 DEF Due, Same
    <3>6. Balanced(o)'
      <4> HIDE DEF w, fresh, now
      <4>1. ASSUME NEW u \in Thread, Marking(thread'[u], o)
            PROVE  /\ ~entry'[o].settled
                   /\ paidOut'[o] - thread'[u].batch[o] + entry'[o].net = Due(o)'
                   /\ \A v \in Thread : Marking(thread'[v], o) => v = u
        <5>1. Marking(thread[u], o) /\ thread'[u].batch[o] = thread[u].batch[o]
          BY <1>6, <4>1 DEF Unmoved
        <5>2. paidOut[o] - thread[u].batch[o] + now.net = Due(o)
          BY <2>1, <5>1 DEF Balanced, now
        <5>3. paidOut[o] - thread[u].batch[o] = 0
          BY <3>3, <3>5, <5>2
        <5>4. paidOut'[o] - thread'[u].batch[o] + entry'[o].net = Due(o)'
          BY <1>2, <1>7, <3>1, <3>3, <3>5, <5>1, <5>3 DEF money
        <5> QED
          BY <1>6, <1>7, <2>1, <2>4, <3>1, <5>1, <5>4 DEF Balanced, Unmoved
      <4>2. ASSUME \A u \in Thread : ~Marking(thread'[u], o)
            PROVE  paidOut'[o] + Outstanding(o)' = Due(o)'
        <5>1. \A u \in Thread : ~Marking(thread[u], o)
          BY <1>6, <4>2 DEF Unmoved
        <5>2. paidOut[o] + now.net = Due(o)
          BY <2>1, <2>4, <5>1 DEF Balanced, Outstanding, now
        <5>3. paidOut[o] = 0
          BY <3>3, <3>5, <5>2
        <5>4. Outstanding(o)' = now.gross - now.commission - now.fee - charge
          BY <1>7, <2>4, <3>1 DEF Outstanding
        <5> QED
          BY <1>2, <3>3, <3>5, <5>3, <5>4 DEF money
      <4> QED
        BY <4>1, <4>2 DEF Balanced
    <3>7. Sums(o)'
      <4>1. ToTell(o)' = ToTell(o)
        BY <1>4, <1>6, <1>7, HeldStays DEF Same
      <4>2. Rounding(o)' = Rounding(o)
        BY <1>4, <1>7, <3>1 DEF Rounding, Same
      <4> HIDE DEF w
      <4> QED
        BY <1>2, <1>4, <1>7, <2>1, <3>1, <3>2, <4>1, <4>2 DEF Sums, Same, money
    <3> QED
      BY <3>6, <3>7
  <2> QED
    BY <2>3, <2>4
<1>10. Books(o)'
  BY <1>8, <1>9 DEF Books
<1> QED
  BY <1>5, <1>10

LEMMA ReverseWriteBooked ==
    ASSUME BooksInv, NEW t \in Thread, ReverseWrite(t)
    PROVE  \A p \in Order : Books(p)'
<1>1. PICK o \in Order :
        /\ o = thread[t].of /\ thread[t].op = "reverse" /\ thread[t].copy.live
        /\ Wrote(o, Reversed(entry[o], thread[t].copy), Reversed(entry[o], entry[o]))
        /\ marred'[o] = {} => ~Unseen(o)
  BY ReverseWriteIs DEF BooksInv
<1> DEFINE now == entry[o]
           w == Reversed(now, thread[t].copy)
           fresh == Reversed(now, now)
<1>2. Finish(t) /\ UNCHANGED <<parts, money>>
  BY DEF ReverseWrite
<1>3. now \in Entry /\ now.live /\ thread[t].copy \in Entry
  BY <1>1, HeldIs DEF BooksInv
<1>4. /\ Same(w, now)
      /\ fresh.refunded = now.gross /\ fresh.delivery = now.delivery
      /\ fresh.net = IF now.settled THEN now.delivery - now.fee - now.settledNet
                     ELSE now.delivery - now.fee
      /\ fresh.settled = (now.settled /\ ~now.settled)
  BY <1>3, ReversedIs
<1>5. \A p \in Order \ {o} : Books(p)'
  BY <1>1, <1>2, EndsKept
<1>6. /\ thread'[t] = Idle /\ Others(t)
      /\ \A u \in Thread : Fewer(thread[u], thread'[u], o)
      /\ ~Marking(thread'[t], o) /\ ~Reversing(thread'[t], o)
  BY <1>1, <1>2, AtRest, EndsOn DEF BooksInv
<1>7. /\ entry'[o] = w /\ marred[o] \subseteq marred'[o]
      /\ "stale" \notin marred'[o] => w = fresh
  BY <1>1 DEF Wrote
<1> HIDE DEF w, fresh
<1>8. Returnable(o)'
  BY <1>2, <1>4, <1>6, <1>7, ReturnableKept DEF money
<1>9. ASSUME marred'[o] = {} PROVE Balanced(o)' /\ Sums(o)'
  <2>1. /\ w = fresh /\ ~Unseen(o) /\ now.gross > 0 /\ Returnable(o)
    BY <1>1, <1>3, <1>7, <1>9 DEF BooksInv, Books, Returnable
  <2>2. /\ reversed[o] /\ reversed'[o]
        /\ \A u \in Thread : ~Reversing(thread'[u], o)
    BY <1>1, <1>2, <1>6, <2>1 DEF Returnable, Reversing, Others, money
  <2>3. Told(o)' /\ Due(o)' = now.delivery - now.fee
    BY <1>4, <1>7, <2>1, <2>2 DEF Told, Due, Same
  <2>4. \A u \in Thread : ~Marking(thread'[u], o)
    BY <1>6, <2>1 DEF Unseen, Marking, Others
  <2>5. paidOut'[o] + Outstanding(o)' = Due(o)'
    <3>1. /\ {now.delivery, now.fee} \subseteq Nat /\ now.settledNet \in Int
          /\ paidOut'[o] = IF now.settled THEN now.settledNet ELSE 0
      BY <1>2, <1>3, <2>1, EntryFields DEF Unseen, money
    <3>2. Outstanding(o)' = fresh.net
      BY <1>4, <1>7, <2>1 DEF Outstanding
    <3> QED
      BY <1>4, <2>3, <3>1, <3>2
  <2>6. Balanced(o)'
    BY <2>4, <2>5 DEF Balanced
  <2>7. Sums(o)'
    <3>1. entry'[o].refunded = entry'[o].gross /\ entry'[o].refunded # 0
      BY <1>3, <1>4, <1>7, <2>1, EntryFields DEF Same
    <3> QED
      BY <2>2, <2>3, <3>1 DEF Sums
  <2> QED
    BY <2>6, <2>7
<1>10. Books(o)'
  BY <1>8, <1>9 DEF Books
<1> QED
  BY <1>5, <1>10

\* A further part costs at most one more paisa.
LEMMA RoundingMore ==
    ASSUME NEW kept \in Nat, NEW part \in Nat, part <= kept, NEW p \in 0..100,
           NEW c \in Nat, NEW k \in Nat, c - Percent(kept, p) \in -k..k, NEW back \in Nat,
           back <= c, back <= Percent(part, p), back = c \/ back = Percent(part, p)
    PROVE  c - back - Percent(kept - part, p) \in -(k + 1)..(k + 1)
<1> DEFINE x == Percent(part, p)
           y == Percent(kept - part, p)
           z == Percent(kept, p)
<1>1. y - z + x \in -1..1
  BY PercentSplit
<1>2. x \in Nat /\ y \in Nat /\ z \in Nat
  <2>1. kept - part \in Nat
    OBVIOUS
  <2> QED
    BY <2>1, PercentNat
<1>3. c - z \in -k..k /\ back <= x /\ (back = c \/ back = x)
  OBVIOUS
<1> HIDE DEF x, y, z
<1>4. c - back - y \in -(k + 1)..(k + 1)
  BY <1>1, <1>2, <1>3
<1> QED
  BY <1>4 DEF y

LEMMA SliceWriteBooked ==
    ASSUME BooksInv, NEW t \in Thread, SliceWrite(t)
    PROVE  \A p \in Order : Books(p)'
<1>1. PICK o \in Order, told \in Nat :
        /\ o = thread[t].of /\ thread[t].op = "slice" /\ thread[t].copy.live
        /\ told = thread[t].amount
        /\ Wrote(o, Sliced(entry[o], thread[t].copy, told),
                 Sliced(entry[o], entry[o], told))
        /\ parts' = [parts EXCEPT ![o] = @ + 1]
  BY SliceWriteIs DEF BooksInv
<1> DEFINE now == entry[o]
           w == Sliced(now, thread[t].copy, told)
           fresh == Sliced(now, now, told)
           part == RefundablePart(now, told)
           back == CommissionBack(now, part)
<1>2. /\ Finish(t) /\ UNCHANGED money
      /\ parts'[o] = parts[o] + 1 /\ parts[o] \in Nat
      /\ \A p \in Order : p # o => parts'[p] = parts[p]
  BY <1>1 DEF SliceWrite, BooksInv, LedgerInv, TypeOK
<1>3. /\ now \in Entry /\ now.live /\ Sound(now) /\ thread[t].copy \in Entry
      /\ Sound(thread[t].copy) /\ thread[t].copy.gross = now.gross
  BY <1>1, HeldIs DEF BooksInv
<1>4. Same(w, now)
  BY <1>3, SlicedSound
<1>5. \A p \in Order \ {o} : Books(p)'
  BY <1>1, <1>2, EndsKept
<1>6. /\ thread'[t] = Idle /\ Others(t)
      /\ \A u \in Thread : Fewer(thread[u], thread'[u], o)
      /\ ~Marking(thread[t], o) /\ ~Marking(thread'[t], o) /\ ~Reversing(thread'[t], o)
      /\ ~Slicing(thread'[t], o) /\ Slicing(thread[t], o) /\ ~Reversing(thread[t], o)
  BY <1>1, <1>2, AtRest, EndsOn DEF BooksInv, Slicing, Reversing
<1>7. /\ entry'[o] = w /\ marred[o] \subseteq marred'[o]
      /\ "stale" \notin marred'[o] => w = fresh
  BY <1>1 DEF Wrote
<1>8. /\ part \in Nat /\ part <= told /\ now.refunded + part <= now.gross
      /\ part = told \/ now.refunded + part = now.gross
      /\ back \in Nat /\ back <= now.commission /\ back <= Percent(part, now.percent)
      /\ back = now.commission \/ back = Percent(part, now.percent)
  BY <1>3, PartFits
<1>9. /\ part = 0 => fresh = now
      /\ part > 0 =>
           /\ fresh.refunded = now.refunded + part
           /\ fresh.commission = now.commission - back
           /\ fresh.delivery = now.delivery
           /\ fresh.net = IF now.settled THEN back - part ELSE now.net + (back - part)
           /\ fresh.settled = (now.settled /\ ~now.settled)
  BY <1>3, SlicedIs
<1> HIDE DEF w, fresh, part, back
<1>10. Returnable(o)'
  BY <1>2, <1>4, <1>6, <1>7, ReturnableKept DEF money
<1>11. ASSUME marred'[o] = {} PROVE Balanced(o)' /\ Sums(o)'
  <2>1. /\ w = fresh /\ Balanced(o) /\ Sums(o) /\ Returnable(o)
        /\ told \in 1..now.gross
    BY <1>1, <1>3, <1>6, <1>7, <1>11 DEF BooksInv, Books, Returnable
  <2>2. ToTell(o) = ToTell(o)' + told /\ ToTell(o)' \in Nat
    <3>1. LedgerInv' /\ entry'[o].gross = now.gross
      BY <1>4, <1>7, SliceWriteKeeps DEF BooksInv, Same
    <3> QED
      BY <1>1, <1>6, <2>1, <3>1, HeldLess, HeldFiniteNext DEF BooksInv
  <2>3. Told(o)' <=> Told(o)
    BY <1>2, <1>6 DEF Told, Others, money
  <2>4. /\ {now.gross, now.refunded, now.commission, now.fee, now.delivery} \subseteq Nat
        /\ now.percent \in 0..100 /\ {now.net, paidOut[o]} \subseteq Int
        /\ returned[o] \in Nat
        /\ \A u \in Thread : thread[u].batch[o] \in Int
    BY <1>3, EntryFields DEF BooksInv, LedgerInv, TypeOK, Activity
  <2>5. ~reversed[o] => part = told
    <3>1. ASSUME ~reversed[o] PROVE now.refunded + ToTell(o) <= now.gross
      BY <2>1, <3>1 DEF Sums, Returnable
    <3> QED
      BY <1>8, <2>1, <2>2, <2>4, <3>1
  <2>6. \A u \in Thread : Marking(thread'[u], o) <=> Marking(thread[u], o)
    BY <1>6 DEF Others
  <2>7. \A u \in Thread : Marking(thread[u], o) => thread'[u] = thread[u]
    BY <1>6 DEF Others
  <2>8. CASE part = 0
    <3>1. entry'[o] = now /\ reversed[o]
      BY <1>7, <1>9, <2>1, <2>5, <2>8
    <3>2. Due(o)' = Due(o) /\ Outstanding(o)' = Outstanding(o) /\ Rounding(o)' = Rounding(o)
      BY <2>3, <3>1 DEF Due, Outstanding, Rounding
    <3>3. Balanced(o)'
      BY <1>2, <2>1, <2>6, <2>7, <3>1, <3>2 DEF Balanced, money
    <3>4. Rounding(o) \in -parts[o]..parts[o] => Rounding(o) \in -parts'[o]..parts'[o]
      BY <1>2
    <3>5. Sums(o)'
      BY <1>2, <2>1, <2>3, <3>1, <3>2, <3>4 DEF Sums, money
    <3> QED
      BY <3>3, <3>5
  <2>9. CASE part > 0
    <3>1. ~Told(o)
      BY <1>8, <2>1, <2>4, <2>9 DEF Sums
    <3>2. /\ entry'[o].refunded = now.refunded + part
          /\ entry'[o].commission = now.commission - back
          /\ entry'[o].delivery = now.delivery /\ entry'[o].gross = now.gross
          /\ entry'[o].fee = now.fee /\ entry'[o].percent = now.percent
          /\ entry'[o].net = IF now.settled THEN back - part ELSE now.net + (back - part)
          /\ ~entry'[o].settled
      BY <1>4, <1>7, <1>9, <2>1, <2>9 DEF Same
    <3>3. Due(o) = now.gross - now.refunded - now.commission - now.fee - now.delivery
      BY <3>1 DEF Due
    <3>4. Due(o)' = now.gross - (now.refunded + part) - (now.commission - back) - now.fee
                      - now.delivery
      BY <2>3, <3>1, <3>2 DEF Due
    <3> HIDE DEF now
    <3>5. Due(o)' = Due(o) + (back - part) /\ Due(o) \in Int
      BY <1>8, <2>4, <3>3, <3>4
    <3>6. Balanced(o)'
      <4>1. ASSUME NEW u \in Thread, Marking(thread'[u], o)
            PROVE  /\ ~entry'[o].settled
                   /\ paidOut'[o] - thread'[u].batch[o] + entry'[o].net = Due(o)'
                   /\ \A v \in Thread : Marking(thread'[v], o) => v = u
        <5>1. Marking(thread[u], o) /\ thread'[u] = thread[u]
          BY <2>6, <2>7, <4>1
        <5>2. /\ ~now.settled /\ paidOut[o] - thread[u].batch[o] + now.net = Due(o)
              /\ \A v \in Thread : Marking(thread'[v], o) => v = u
          BY <2>1, <2>6, <5>1 DEF Balanced, now
        <5>3. paidOut'[o] - thread'[u].batch[o] + entry'[o].net = Due(o)'
          BY <1>2, <1>8, <2>4, <3>2, <3>5, <5>1, <5>2 DEF money
        <5> QED
          BY <3>2, <5>2, <5>3
      <4>2. ASSUME \A u \in Thread : ~Marking(thread'[u], o)
            PROVE  paidOut'[o] + Outstanding(o)' = Due(o)'
        <5>1. paidOut[o] + (IF now.settled THEN 0 ELSE now.net) = Due(o)
          BY <2>1, <2>6, <4>2 DEF Balanced, Outstanding, now
        <5>2. Outstanding(o)' = entry'[o].net
          BY <3>2 DEF Outstanding
        <5> QED
          BY <1>2, <1>8, <2>4, <3>2, <3>5, <5>1, <5>2 DEF money
      <4> QED
        BY <4>1, <4>2 DEF Balanced
    <3>7. Rounding(o)' \in -parts'[o]..parts'[o]
      <4>1. Rounding(o) \in -parts[o]..parts[o]
        BY <2>1, <3>1 DEF Sums
      <4>2. Rounding(o) = now.commission - Percent(now.gross - now.refunded, now.percent)
        BY DEF Rounding, now
      <4>3. Rounding(o)' = now.commission - back
                             - Percent(now.gross - (now.refunded + part), now.percent)
        BY <3>2 DEF Rounding
      <4>4. PICK kept \in Nat : /\ kept = now.gross - now.refunded /\ part <= kept
                                /\ kept - part = now.gross - (now.refunded + part)
        BY <1>8, <2>4
      <4>5. now.commission - back - Percent(kept - part, now.percent)
              \in -(parts[o] + 1)..(parts[o] + 1)
        BY <1>2, <1>8, <2>4, <4>1, <4>2, <4>4, RoundingMore
      <4> QED
        BY <1>2, <4>3, <4>4, <4>5
    <3>8. ~reversed[o] => entry'[o].refunded + ToTell(o)' = returned[o]
      BY <1>8, <2>1, <2>2, <2>4, <2>5, <3>2 DEF Sums, now
    <3>9. Sums(o)'
      BY <1>2, <1>8, <2>3, <2>4, <2>9, <3>1, <3>2, <3>7, <3>8 DEF Sums, money
    <3> QED
      BY <3>6, <3>9
  <2> QED
    BY <1>8, <2>8, <2>9
<1>12. Books(o)'
  BY <1>10, <1>11 DEF Books
<1> QED
  BY <1>5, <1>12

\* The payout pays the nets it read; its orders are marked one by one.
LEMMA PayoutReadBooked ==
    ASSUME BooksInv, NEW t \in Thread, NEW batch \in SUBSET Order, PayoutRead(t, batch)
    PROVE  \A o \in Order : Books(o)'
<1> SUFFICES ASSUME NEW o \in Order PROVE Books(o)'
  OBVIOUS
<1>1. /\ thread[t] = Idle /\ UNCHANGED <<entry, returned, reversed, parts>>
      /\ thread'[t] = Payment(batch) /\ Others(t)
      /\ Payment(batch).op = "settle" /\ Payment(batch).left = batch
      /\ Payment(batch).batch = Nets(batch)
      /\ paidOut'[o] = paidOut[o] + Nets(batch)[o] /\ paidOut[o] \in Int
      /\ o \in batch => entry[o].live /\ ~entry[o].settled
  <2>1. thread' = [thread EXCEPT ![t] = Payment(batch)]
    BY PayoutReadIs DEF BooksInv
  <2>2. thread'[t] = Payment(batch) /\ Others(t)
    BY <2>1 DEF Others, BooksInv, LedgerInv, TypeOK
  <2>3. paidOut' = [p \in Order |-> paidOut[p] + Nets(batch)[p]]
    BY PayoutReadIs DEF BooksInv
  <2>4. paidOut'[o] = paidOut[o] + Nets(batch)[o] /\ paidOut[o] \in Int
    BY <2>3 DEF BooksInv, LedgerInv, TypeOK
  <2>5. thread[t] = Idle /\ UNCHANGED <<entry, returned, reversed, parts>>
    BY DEF PayoutRead
  <2>6. o \in batch => entry[o].live /\ ~entry[o].settled
    BY DEF PayoutRead
  <2>7. /\ Payment(batch).op = "settle" /\ Payment(batch).left = batch
        /\ Payment(batch).batch = Nets(batch)
    BY PayoutReadIs DEF BooksInv
  <2> QED
    BY <2>2, <2>4, <2>5, <2>6, <2>7
<1>2. marred'[o] = IF o \in batch /\ \E u \in Thread : Marking(thread[u], o)
                   THEN marred[o] \cup {"twice"} ELSE marred[o]
  BY DEF PayoutRead, Marking
<1>3. /\ ~Marking(thread[t], o) /\ ~Slicing(thread[t], o) /\ ~Reversing(thread[t], o)
      /\ Marking(thread'[t], o) <=> o \in batch
      /\ ~Slicing(thread'[t], o) /\ ~Reversing(thread'[t], o)
  BY <1>1, BeginsOn DEF BooksInv, Marking, Slicing, Reversing
<1>4. CASE o \notin batch
  <2>1. \A u \in Thread : Unmoved(thread[u], thread'[u], o)
    BY <1>1, <1>3, <1>4 DEF Others, Unmoved
  <2>2. Nets(batch)[o] = 0
    BY <1>4 DEF Nets
  <2> QED
    BY <1>1, <1>2, <1>4, <2>1, <2>2, BooksKept
<1>5. CASE o \in batch
  <2>1. Nets(batch)[o] = entry[o].net /\ entry[o].net \in Int
    BY <1>5, EntryFields DEF Nets, BooksInv, LedgerInv, TypeOK
  <2>2. Books(o) /\ (Told(o)' <=> Told(o))
    BY <1>1, <1>3 DEF BooksInv, Told, Others
  <2>3. Due(o)' = Due(o) /\ Rounding(o)' = Rounding(o)
    BY <1>1, <2>2 DEF Due, Rounding
  <2>4. ToTell(o)' = ToTell(o)
    <3>1. Held(o)' = Held(o)
      BY <1>1, <1>3 DEF Held, Others
    <3> QED
      BY <3>1 DEF ToTell
  <2>5. Returnable(o)'
    BY <1>1, <1>3, <1>5, <2>2 DEF Books, Returnable, Others
  <2>6. ASSUME marred'[o] = {} PROVE Balanced(o)' /\ Sums(o)'
    <3>1. /\ marred[o] = {} /\ \A u \in Thread : ~Marking(thread[u], o)
          /\ Balanced(o) /\ Sums(o)
      BY <1>1, <1>2, <1>5, <2>2, <2>6 DEF Books
    <3>2. paidOut[o] + entry[o].net = Due(o)
      BY <1>1, <1>5, <3>1 DEF Balanced, Outstanding
    <3>3. \A u \in Thread : Marking(thread'[u], o) <=> u = t
      BY <1>1, <1>3, <1>5, <3>1 DEF Others
    <3>4. paidOut'[o] - thread'[t].batch[o] + entry'[o].net = Due(o)'
      BY <1>1, <2>1, <2>3, <3>2
    <3>5. Balanced(o)'
      BY <1>1, <1>5, <3>3, <3>4 DEF Balanced
    <3>6. Sums(o)'
      BY <1>1, <2>2, <2>3, <2>4, <3>1 DEF Sums
    <3> QED
      BY <3>5, <3>6
  <2> QED
    BY <2>5, <2>6 DEF Books
<1> QED
  BY <1>4, <1>5

LEMMA PayoutMarkBooked ==
    ASSUME BooksInv, NEW t \in Thread, NEW o \in Order, PayoutMark(t, o)
    PROVE  \A p \in Order : Books(p)'
<1> DEFINE now == entry[o]
           w == Marked(now, thread[t].batch[o])
           fresh == Marked(now, now.net)
<1>1. /\ thread[t].op = "settle" /\ Marking(thread[t], o)
      /\ Wrote(o, w, fresh) /\ UNCHANGED <<parts, money>>
      /\ thread'[t] = LeftAfter(t, o) /\ Others(t)
      /\ thread'[t].op \in {"idle", "settle"}
      /\ \A p \in Order : p \in thread'[t].left <=> p \in thread[t].left /\ p # o
      /\ thread'[t].left # {} => thread'[t].batch = thread[t].batch
      /\ thread[t].batch[o] \in Int
  BY PayoutMarkIs DEF BooksInv, LedgerInv, TypeOK, Others, Marking
<1>2. /\ \A p \in Order \ {o}, u \in Thread : Unmoved(thread[u], thread'[u], p)
      /\ \A u \in Thread : Fewer(thread[u], thread'[u], o)
      /\ ~Marking(thread'[t], o) /\ ~Slicing(thread'[t], o) /\ ~Reversing(thread'[t], o)
      /\ ~Slicing(thread[t], o) /\ ~Reversing(thread[t], o)
  BY <1>1 DEF Others, Unmoved, Fewer, Slicing, Reversing, Marking
<1>3. now \in Entry /\ now.net \in Int
  BY EntryFields DEF BooksInv, LedgerInv, TypeOK
<1>4. /\ Same(w, now) /\ w.refunded = now.refunded /\ w.commission = now.commission
      /\ w.delivery = now.delivery /\ w.net = now.net /\ w.settled
      /\ w.settledNet = thread[t].batch[o] /\ fresh.settledNet = now.net
  BY <1>1, <1>3, MarkedIs
<1>5. /\ entry'[o] = w /\ marred[o] \subseteq marred'[o]
      /\ "stale" \notin marred'[o] => w = fresh
  BY <1>1 DEF Wrote
<1>6. \A p \in Order \ {o} : Books(p)'
  BY <1>1, <1>2, OthersKept
<1> HIDE DEF w, fresh
<1>7. Books(o) /\ now.live
  BY <1>1 DEF BooksInv, Books, Returnable
<1>8. Returnable(o)'
  BY <1>1, <1>2, <1>4, <1>5, <1>7, ReturnableKept DEF money
<1>9. ASSUME marred'[o] = {} PROVE Balanced(o)' /\ Sums(o)'
  <2>1. /\ marred[o] = {} /\ w = fresh /\ Balanced(o) /\ Sums(o)
        /\ thread[t].batch[o] = now.net
    BY <1>4, <1>5, <1>7, <1>9 DEF Books
  <2>2. Told(o)' <=> Told(o)
    BY <1>1, <1>2 DEF Told, Others, money
  <2>3. Due(o)' = Due(o) /\ Rounding(o)' = Rounding(o) /\ Outstanding(o)' = 0
    BY <1>4, <1>5, <2>2 DEF Due, Rounding, Outstanding, Same
  <2>4. ToTell(o)' = ToTell(o)
    <3>1. Held(o)' = Held(o)
      BY <1>1, <1>2, <1>4, <1>5 DEF Held, Others, Same
    <3> QED
      BY <3>1 DEF ToTell
  <2>5. \A u \in Thread : ~Marking(thread'[u], o)
    BY <1>1, <1>2, <2>1 DEF Balanced, Others
  <2>6. paidOut[o] - thread[t].batch[o] + now.net = Due(o) /\ paidOut[o] \in Int
    BY <1>1, <2>1 DEF Balanced, BooksInv, LedgerInv, TypeOK
  <2>7. paidOut'[o] + Outstanding(o)' = Due(o)'
    BY <1>1, <1>3, <2>1, <2>3, <2>6 DEF money
  <2>8. Balanced(o)'
    BY <2>5, <2>7 DEF Balanced
  <2>9. Sums(o)'
    BY <1>1, <1>4, <1>5, <2>1, <2>2, <2>3, <2>4 DEF Sums, Same, money
  <2> QED
    BY <2>8, <2>9
<1>10. Books(o)'
  BY <1>8, <1>9 DEF Books
<1> QED
  BY <1>6, <1>10

LEMMA CrashBooked ==
    ASSUME BooksInv, NEW t \in Thread, Crash(t)
    PROVE  \A o \in Order : Books(o)'
<1> SUFFICES ASSUME NEW o \in Order PROVE Books(o)'
  OBVIOUS
<1> DEFINE cut == IF thread[t].op \in {"reverse", "slice"} THEN {thread[t].of}
                  ELSE thread[t].left
<1>1. /\ UNCHANGED <<entry, paidOut, returned, reversed, parts>>
      /\ thread'[t] = Idle /\ Others(t)
      /\ marred'[o] = IF o \in cut THEN marred[o] \cup {"crash"} ELSE marred[o]
  BY AtRest DEF Crash, BooksInv, LedgerInv, TypeOK
<1>2. /\ ~Slicing(thread'[t], o) /\ ~Reversing(thread'[t], o) /\ ~Marking(thread'[t], o)
      /\ thread[t].op # "settle" => thread[t].left = {}
  BY <1>1 DEF Slicing, Reversing, Marking, Idle, BooksInv, LedgerInv, Copies
<1>3. CASE o \in cut
  <2>1. \A u \in Thread : Fewer(thread[u], thread'[u], o)
    BY <1>1, <1>2 DEF Others, Fewer
  <2>2. Returnable(o)'
    BY <1>1, <2>1, ReturnableKept DEF Same
  <2> QED
    BY <1>1, <1>3, <2>2 DEF Books
<1>4. CASE o \notin cut
  <2>1. ~Slicing(thread[t], o) /\ ~Reversing(thread[t], o) /\ ~Marking(thread[t], o)
    BY <1>2, <1>4 DEF Slicing, Reversing, Marking
  <2>2. \A u \in Thread : Unmoved(thread[u], thread'[u], o)
    BY <1>1, <1>2, <2>1 DEF Others, Unmoved
  <2> QED
    BY <1>1, <1>4, <2>2, BooksKept
<1> QED
  BY <1>3, <1>4

LEMMA BooksStep == BooksInv /\ [Next]_vars => BooksInv'
<1> SUFFICES ASSUME BooksInv, [Next]_vars PROVE \A o \in Order : Books(o)'
  BY LedgerStep DEF BooksInv
<1>1. CASE UNCHANGED vars
  <2> SUFFICES ASSUME NEW o \in Order PROVE Books(o)'
    OBVIOUS
  <2>1. \A u \in Thread : Unmoved(thread[u], thread'[u], o)
    BY <1>1 DEF vars, Unmoved
  <2> QED
    BY <1>1, <2>1, BooksKept DEF vars
<1> QED
  BY <1>1, RecordOrderBooked, SyncReadBooked, SyncWriteBooked, ReverseBooked, SliceBooked,
     RefundReadBooked, ReverseWriteBooked, SliceWriteBooked, PayoutReadBooked,
     PayoutMarkBooked, CrashBooked
     DEF Next

\* With no operation on an order under way, its books are its accounts.
LEMMA BooksBalance ==
    BooksInv => NothingLostOrPaidTwice
<1> SUFFICES ASSUME BooksInv, NEW o \in Order, entry[o].live, Untouched(o),
                    marred[o] = {}
             PROVE  Excess(o) \in IF reversed[o] THEN {0} ELSE -parts[o]..parts[o]
  BY DEF NothingLostOrPaidTwice
<1>1. /\ \A t \in Thread : /\ ~Slicing(thread[t], o) /\ ~Reversing(thread[t], o)
                           /\ ~Marking(thread[t], o)
      /\ Balanced(o) /\ Sums(o)
  BY DEF Untouched, Slicing, Reversing, Marking, BooksInv, Books
<1>2. paidOut[o] + Outstanding(o) = Due(o)
  BY <1>1 DEF Balanced
<1>3. /\ {entry[o].gross, entry[o].refunded, entry[o].commission, entry[o].fee,
          entry[o].delivery, parts[o], returned[o]} \subseteq Nat
      /\ entry[o].refunded <= entry[o].gross
      /\ entry[o].percent \in 0..100
  BY EntryFields DEF BooksInv, LedgerInv, TypeOK, Entries, Sound
<1>4. paidOut[o] \in Int /\ Outstanding(o) \in Int
  BY EntryFields DEF BooksInv, LedgerInv, TypeOK, Outstanding
<1>5. CASE reversed[o]
  <2>1. Due(o) = Owed(o) /\ Owed(o) \in Int
    BY <1>1, <1>3, <1>5 DEF Told, Due, Owed
  <2>2. PICK p \in Int, left \in Int, owed \in Int :
          p = paidOut[o] /\ left = Outstanding(o) /\ owed = Owed(o)
    BY <1>4, <2>1
  <2>3. p + left = owed
    BY <1>2, <2>1, <2>2
  <2>4. Excess(o) = p + (left - owed)
    BY <2>2 DEF Excess
  <2> QED
    BY <1>5, <2>3, <2>4
<1>6. CASE ~reversed[o]
  <2>1. entry[o].refunded = returned[o]
    <3>1. ToTell(o) = 0
      BY <1>1, NoneHeld
    <3> QED
      BY <1>1, <1>3, <1>6, <3>1 DEF Sums
  <2>2. PICK rest \in Nat :
          rest = Percent(entry[o].gross - returned[o], entry[o].percent)
    <3>1. entry[o].gross - returned[o] \in Nat
      BY <1>3, <2>1
    <3> QED
      BY <1>3, <3>1, PercentNat
  <2>3. Due(o) = entry[o].gross - returned[o] - entry[o].commission - entry[o].fee
                 - entry[o].delivery
    BY <1>6, <2>1 DEF Told, Due
  <2>4. Owed(o) = entry[o].gross - returned[o] - rest - entry[o].fee - entry[o].delivery
    BY <1>6, <2>2 DEF Owed
  <2>5. entry[o].commission - rest \in -parts[o]..parts[o]
    BY <1>1, <1>6, <2>1, <2>2 DEF Sums, Told, Rounding
  <2>6. PICK p \in Int, left \in Int, c \in Nat, k \in Nat, owed \in Int :
          /\ p = paidOut[o] /\ left = Outstanding(o) /\ owed = Owed(o)
          /\ c = entry[o].commission /\ k = parts[o]
    <3>1. Owed(o) \in Int
      BY <1>3, <2>2, <2>4
    <3>2. entry[o].commission \in Nat /\ parts[o] \in Nat
      BY <1>3
    <3> QED
      BY <1>4, <3>1, <3>2
  <2>7. p + left = owed + rest - c
    BY <1>2, <1>3, <2>2, <2>3, <2>4, <2>6
  <2>8. c - rest \in -k..k
    BY <2>5, <2>6
  <2>9. p + (left - owed) \in -k..k
    BY <2>2, <2>6, <2>7, <2>8
  <2> QED
    BY <1>6, <2>6, <2>9 DEF Excess
<1> QED
  BY <1>5, <1>6

\* However refunds, courier charges, payouts and rates of an order come and overlap, what
\* payouts paid for it and the next one will pay is what the store is owed, but for the
\* paise of rounding: unless an operation wrote from a stale copy what it would not have
\* written otherwise, the courier's charge came after a refund, a payout listed what
\* another was marking, a refund as a whole found an entry that did not show all that was
\* paid, or an operation was cut short.
THEOREM StoresArePaidWhatTheyAreOwed == Spec => []NothingLostOrPaidTwice
BY BooksInit, BooksStep, BooksBalance, PTL DEF Spec

===============================================================================
