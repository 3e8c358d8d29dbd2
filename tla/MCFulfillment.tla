---------------------------- MODULE MCFulfillment ----------------------------
(* Small instances of Fulfillment: carts that compete for the same units. *)
EXTENDS Fulfillment, TLC

CONSTANTS mug, cap, ann, bob, cid

\* Two units of the mug and one cap; every cart wants mugs, so that not every
\* checkout can have what it wants.
MCStock == mug :> 2 @@ cap :> 1

MCWant == [c \in Checkout |->
             IF c = ann THEN mug :> 1 @@ cap :> 1
             ELSE IF c = bob THEN mug :> 2 @@ cap :> 0
             ELSE mug :> 1 @@ cap :> 1]

\* The same contest for mugs alone, for the runs that look at the payment.
MCOneItemStock == mug :> 2
MCOneItemWant == [c \in Checkout |-> mug :> IF c = bob THEN 2 ELSE 1]
===============================================================================
