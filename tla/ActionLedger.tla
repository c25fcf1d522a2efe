----------------------------- MODULE ActionLedger -----------------------------
(***************************************************************************)
(* What the command channel promises about response actions, with no       *)
(* column, copy, check-in or outbox in sight.  An action is ordered once;  *)
(* it is granted one execution when it is, and one more each time its      *)
(* command is brought back.  It is executed at most as often as that, each *)
(* execution reports at most one result, and its record is settled at most *)
(* once, by a result that was reported.                                    *)
(***************************************************************************)
EXTENDS Naturals, FiniteSets

CONSTANT Action

VARIABLES
    record,     \* "none", "queued", or how the action was settled: "completed", "failed"
    granted,    \* how often it may be executed
    executed,   \* how often it has been
    reported    \* the results its executions have reported

ledgerVars == <<record, granted, executed, reported>>

LedgerInit ==
    /\ record = [a \in Action |-> "none"]
    /\ granted = [a \in Action |-> 0]
    /\ executed = [a \in Action |-> 0]
    /\ reported = [a \in Action |-> {}]

Ordered == {a \in Action : record[a] # "none"}

\* Actions are ordered, and commands of earlier ones brought back.
Grant(new, back) ==
    /\ new \cap Ordered = {} /\ back \subseteq Ordered
    /\ record' = [a \in Action |-> IF a \in new THEN "queued" ELSE record[a]]
    /\ granted' = [a \in Action |-> IF a \in new \cup back THEN granted[a] + 1 ELSE granted[a]]
    /\ UNCHANGED <<executed, reported>>

Execute(a) ==
    /\ executed[a] < granted[a]
    /\ executed' = [executed EXCEPT ![a] = @ + 1]
    /\ UNCHANGED <<record, granted, reported>>

\* An execution reports its result, once.
Reports(a, s) ==
    /\ Cardinality(reported[a] \cup {s}) =< executed[a]
    /\ reported' = [reported EXCEPT ![a] = @ \cup {s}]
    /\ UNCHANGED <<record, granted, executed>>

\* Records that are open are settled, each by a result reported of its action.
Settle(result) ==
    /\ \A a \in DOMAIN result : record[a] = "queued" /\ result[a] \in reported[a]
    /\ record' = [a \in Action |->
                    IF a \notin DOMAIN result THEN record[a]
                    ELSE IF result[a] = "ok" THEN "completed" ELSE "failed"]
    /\ UNCHANGED <<granted, executed, reported>>

LedgerNext ==
    \/ \E new, back \in SUBSET Action : Grant(new, back)
    \/ \E a \in Action : Execute(a) \/ \E s \in {"ok", "failed"} : Reports(a, s)
    \/ \E done \in SUBSET Action : \E result \in [done -> {"ok", "failed"}] : Settle(result)

LedgerSpec == LedgerInit /\ [][LedgerNext]_ledgerVars

===============================================================================
