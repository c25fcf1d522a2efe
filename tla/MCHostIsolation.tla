---------------------------- MODULE MCHostIsolation ----------------------------
(* HostIsolation for TLC: isolated, released and isolated again, with two faults. *)
EXTENDS HostIsolation
===============================================================================
