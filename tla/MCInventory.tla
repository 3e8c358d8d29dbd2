------------------------------ MODULE MCInventory ------------------------------
(* Small instances of Inventory: one or two variants, two request threads. *)
EXTENDS Inventory, TLC

CONSTANTS small, large, t1, t2, t3, r1, r2, p1, p2

MCInitial == (small :> 2)
MCIncoming == [r \in Receiving |->
                 IF r = r1 THEN (small :> 1 @@ large :> 1) ELSE (small :> 1)]
MCAdjustment == {-1, 1}
MCHome == [t \in Thread |-> IF t = t2 /\ p2 \in Process THEN p2 ELSE p1]
===============================================================================
