---------------------------- MODULE MCPolicyDelivery ----------------------------
(* PolicyDelivery for TLC: a domain to block, one that cannot be
   parsed, and a built-in one. *)
EXTENDS PolicyDelivery
===============================================================================
