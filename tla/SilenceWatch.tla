----------------------------- MODULE SilenceWatch -----------------------------
(***************************************************************************)
(* What the liveness monitor promises about the devices it watches, with   *)
(* no rows, requests or flags in sight.  A device that is silent is        *)
(* reported at most once before it is heard again.  A report that crosses  *)
(* the request in which the device is heard masks its next silence: it is  *)
(* not reported until a later request has been served.                     *)
(***************************************************************************)
EXTENDS Naturals

CONSTANT Device

VARIABLES
    silent,     \* devices not heard for longer than the threshold
    reports,    \* how often each device has been reported since it was last heard
    masked      \* devices whose next silence is taken for one already reported

watchVars == <<silent, reports, masked>>

WatchInit == silent = {} /\ reports = [d \in Device |-> 0] /\ masked = {}

FallSilent(d) ==
    /\ silent' = silent \cup {d}
    /\ UNCHANGED <<reports, masked>>

Report(d) ==
    /\ d \in silent /\ d \notin masked
    /\ reports[d] = 0
    /\ reports' = [reports EXCEPT ![d] = 1]
    /\ UNCHANGED <<silent, masked>>

\* Only what was reported, or masked already, can be masked.
Hear(d, masks) ==
    /\ masks => reports[d] = 1 \/ d \in masked
    /\ silent' = silent \ {d}
    /\ reports' = [reports EXCEPT ![d] = 0]
    /\ masked' = IF masks THEN masked \cup {d} ELSE masked \ {d}

WatchNext ==
    \E d \in Device : FallSilent(d) \/ Report(d) \/ \E b \in BOOLEAN : Hear(d, b)

WatchSpec == WatchInit /\ [][WatchNext]_watchVars

===============================================================================
