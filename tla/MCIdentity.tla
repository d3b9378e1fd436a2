----------------------------- MODULE MCIdentity -----------------------------
(* Identity on small instances. *)
EXTENDS Identity, TLC

CONSTANTS s1, s2, admin, manager, q1, q2, k1

MCStaff == {s1, s2}
MCRoles == {admin, manager}
MCRequests == {q1, q2}
MCSymmetry == Permutations(MCRequests)
=============================================================================
