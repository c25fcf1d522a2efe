--------------------------- MODULE MCCommandChannel ---------------------------
(* CommandChannel for TLC: two actions are enough for a commit to overwrite or *)
(* revive the command of another one.                                          *)
EXTENDS CommandChannel
===============================================================================
