---------------------------- MODULE MCWebSession ----------------------------
(* WebSession on small instances. *)
EXTENDS WebSession, TLC

CONSTANTS ann, ben, k1, k2, l1

MCStaff == {ann, ben}
MCTemporary == {ann}
MCTokens == {k1, k2}
=============================================================================
