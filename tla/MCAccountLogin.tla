---------------------------- MODULE MCAccountLogin ----------------------------
(* AccountLogin for TLC: two handlers at work at once, a lock after three     *)
(* failures.                                                                  *)
EXTENDS AccountLogin, TLC

Symmetry == Permutations(Threads)
===============================================================================
