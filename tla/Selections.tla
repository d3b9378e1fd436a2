------------------------------ MODULE Selections ------------------------------
(* What is left of a sequence when some of its elements are kept (SelectSeq *)
(* for a set), and a set put in an order, which is a set of pairs.  Both    *)
(* are defined by counting rather than by recursion, so that they can be    *)
(* reasoned about.                                                          *)
EXTENDS Naturals, Sequences, FiniteSets

Nth(I, k) == CHOOSE i \in I : Cardinality({j \in I : j =< i}) = k

Kept(s, P) ==
    LET at == {i \in DOMAIN s : s[i] \in P} IN
    [k \in 1..Cardinality(at) |-> s[Nth(at, k)]]

PlaceOf(x, S, order) == Cardinality({y \in S : <<x, y>> \notin order})
Ranked(S, order) == [k \in 1..Cardinality(S) |-> CHOOSE x \in S : PlaceOf(x, S, order) = k]
=============================================================================
