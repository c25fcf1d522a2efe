--------------------------- MODULE MCAccountSessions ---------------------------
(* AccountSessions for TLC: two handlers at work at once.                      *)
EXTENDS AccountSessions, TLC

Symmetry == Permutations(Threads)
===============================================================================
