----------------------------- MODULE MCSession -----------------------------
(* Two stores, one of which has a tenantId that differs from its slug, and *)
(* two tabs; see Session.                                                  *)
EXTENDS Session, TLC

CONSTANTS a, b, idB, admin, a1, b1, s1, a2

MCStores == {a, b}
MCIdSlots == {idB}
MCTokens == {a1, a2, b1, s1}
MCStaff == {s1}
MCTenantOf == (a1 :> a) @@ (a2 :> a) @@ (b1 :> b) @@ (s1 :> a)
MCUserOf == [k \in MCTokens |-> k]
MCIdSlot == (a :> a) @@ (b :> idB)
MCRevocable == {a1}
MCShortLived == {b1}
MCStarts == {[fresh |-> {a1, a2}, legacy |-> None],
             [fresh |-> {b1}, legacy |-> b1],
             [fresh |-> {s1}, legacy |-> None]}
MCTabSymmetry == Permutations(Tabs)
=============================================================================
