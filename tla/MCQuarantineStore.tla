--------------------------- MODULE MCQuarantineStore ---------------------------
(* QuarantineStore for TLC: one path, dropped three times, so that a file is taken   *)
(* again after it has been restored.                                           *)
EXTENDS QuarantineStore
===============================================================================
