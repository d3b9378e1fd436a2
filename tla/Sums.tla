-------------------------------- MODULE Sums --------------------------------
(* The sum of what a function says of each member of a finite set.  The     *)
(* summands are a function, not an operator, so that lemmas can be stated   *)
(* about every choice of them.                                              *)
EXTENDS FiniteSetsExt

Sum(f, S) == MapThenSumSet(LAMBDA x : f[x], S)
=============================================================================
