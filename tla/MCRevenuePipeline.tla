------------------------- MODULE MCRevenuePipeline --------------------------
(* The revenue pipeline on small instances. *)
EXTENDS RevenuePipeline, TLC

CONSTANTS o1, o2, w1, w2

MCOrders == {o1, o2}
MCOneOrder == {o1}
MCTotalMinor == [o \in Orders |-> IF o = o1 THEN 2 ELSE 3]
MCSymmetry == Permutations(Workers)
=============================================================================
