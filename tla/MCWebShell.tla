------------------------------ MODULE MCWebShell -----------------------------
(* WebShell on small instances. *)
EXTENDS WebShell, TLC

CONSTANTS t1, t2, k1, k2

MCTables == {"orders", "roles"}
MCRequires == [orders |-> None, roles |-> "view_roles"]
Symmetry == Permutations(Tabs) \cup Permutations(Columns)
=============================================================================
