----------------------------- MODULE EventCustody -----------------------------
(***************************************************************************)
(* What the agent's telemetry pipeline promises about the events it        *)
(* captures, with no buffer, spool, request or reply in sight.  Events are *)
(* numbered in the order of their capture.  An event is in the agent's     *)
(* custody until the server holds it, or until it is dropped: either the   *)
(* oldest one makes room for a new one, or it dies with the process.       *)
(***************************************************************************)
EXTENDS Naturals, FiniteSets

CONSTANT Capacity  \* how many undelivered events the agent keeps

VARIABLES
    seen,       \* number of events captured so far: the events are 1..seen
    custody,    \* events the agent still answers for
    delivered,  \* events the server has stored at least once
    dropped     \* events given up by the agent

cvars == <<seen, custody, delivered, dropped>>

CInit ==
    /\ seen = 0
    /\ custody = {}
    /\ delivered = {}
    /\ dropped = {}

\* A new event is captured; only a full log gives up events, and the oldest.
Capture(out) ==
    /\ out \subseteq custody
    /\ out # {} => Cardinality(custody) >= Capacity
    /\ \A e \in out, f \in custody \ out : e < f
    /\ seen' = seen + 1
    /\ custody' = (custody \ out) \cup {seen + 1}
    /\ dropped' = dropped \cup out
    /\ UNCHANGED delivered

\* The server stores some events.  None overtakes an earlier one, unless the
\* earlier one was given up.
Deliver(S) ==
    /\ S \subseteq 1..seen
    /\ \A e \in S, f \in 1..seen : f < e => f \in S \cup delivered \cup dropped
    /\ delivered' = delivered \cup S
    /\ UNCHANGED <<seen, custody, dropped>>

\* The agent forgets events it knows the server holds.
Release(S) ==
    /\ S \subseteq custody \cap delivered
    /\ custody' = custody \ S
    /\ UNCHANGED <<seen, delivered, dropped>>

\* The process dies.  What it still answers for afterwards may lack events,
\* which are then dropped, and may hold again events that had left custody.
Die(kept) ==
    /\ kept \subseteq custody \cup delivered \cup dropped
    /\ custody' = kept
    /\ dropped' = dropped \cup (custody \ kept)
    /\ UNCHANGED <<seen, delivered>>

CNext ==
    \/ \E out \in SUBSET custody : Capture(out)
    \/ \E S \in SUBSET (1..seen) : Deliver(S)
    \/ \E S \in SUBSET custody : Release(S)
    \/ \E kept \in SUBSET (1..seen) : Die(kept)

CSpec == CInit /\ [][CNext]_cvars

===============================================================================
