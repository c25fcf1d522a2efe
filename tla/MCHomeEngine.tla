----------------------------- MODULE MCHomeEngine -----------------------------
(* HomeEngine for TLC.                                                        *)
EXTENDS HomeEngine
===============================================================================
