----------------------------- MODULE SigmaEngine ------------------------------
(***************************************************************************)
(* The detection engine with the evaluator of Sigma conditions             *)
(* (_evaluate_sigma() in server/app/detection/engine.py).                  *)
(***************************************************************************)
EXTENDS DetectionEngine, SigmaCondition

CONSTANT Conditions    \* the conditions tried, each a sequence of expressions

\* Whether a selection matches depends on the event alone, and is given with it.
Selected(hits) == hits \cap Selections

EvaluateSigma(hits) ==
    {r \in rules : r.kind = "sigma" /\ r.enabled /\ Fires(r.condition, Selected(hits))}

Next == Handlers \/ \E e \in Events : EvaluateEvent(e, EvaluateSigma(e.hits))

Spec == EngineInit /\ [][Next]_engineVars

-------------------------------------------------------------------------------
(* Properties.                                                             *)

\* An event raises exactly the enabled Sigma rules whose condition holds of the
\* selections it matches, and so it would with any other condition: "not" before "and"
\* before "or", brackets, and the aggregates, "all of" nothing being false.  An event that
\* stops the engine raises none.
SigmaRulesMean ==
    raised # <<>> /\ ~ Stops(raised[1].event) =>
        LET hits == Selected(raised[1].event.hits)
        IN  /\ raised[1].sigma = {r \in rules : r.kind = "sigma" /\ r.enabled /\ RuleMeans(r.condition, hits)}
            /\ edits = 0 => \A cs \in Conditions : Fires(cs, hits) <=> RuleMeans(cs, hits)

===============================================================================
