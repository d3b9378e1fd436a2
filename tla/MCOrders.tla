------------------------------ MODULE MCOrders ------------------------------
(* Orders on a small instance: two orders, two requests at a time. *)
EXTENDS Orders, TLC

CONSTANTS o1, o2, r1, r2

MCOrders == {o1, o2}
MCTotalMinor == [o \in MCOrders |-> 1]
MCRequests == {r1, r2}
MCSymmetry == Permutations(MCOrders) \cup Permutations(MCRequests)
=============================================================================
