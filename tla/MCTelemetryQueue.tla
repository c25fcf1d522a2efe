--------------------------- MODULE MCTelemetryQueue ---------------------------
(* TelemetryQueue for TLC.  MCTelemetryQueue.cfg captures four events through *)
(* a buffer of three, so that eviction happens, with one failed flush, one    *)
(* death of the process, a body limit that the full buffer exceeds, and a     *)
(* last event on which the server raises.                                     *)
EXTENDS TelemetryQueue
===============================================================================
