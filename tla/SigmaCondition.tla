---------------------------- MODULE SigmaCondition ----------------------------
(***************************************************************************)
(* The condition language of Sigma rules (server/app/detection/sigma.py):  *)
(* the recursive-descent evaluator of the server on one side, what a       *)
(* condition means on the other.                                           *)
(*                                                                         *)
(* A condition is a sequence of tokens.  The server compiles it to a       *)
(* closure over the selections that match an event; the closures have no   *)
(* effects, so that evaluating while parsing is the same.                  *)
(*                                                                         *)
(* Definitions marked "Fault:" are not part of the model: each is a        *)
(* plausible mistake in the definition that follows it.                    *)
(***************************************************************************)
EXTENDS Naturals, FiniteSets, Sequences, SequencesExt

CONSTANTS
    Selections,   \* the names of the selections of a rule
    Patterns      \* for each pattern, such as "sel*", the selections it covers

Count == {"all", "any", "1", "2"}

-------------------------------------------------------------------------------
(* The server's evaluator: hits are the selections that match the event.   *)

Peek(tokens, i) == IF i =< Len(tokens) THEN tokens[i] ELSE "end"

Node(holds, next) == [holds |-> holds, next |-> next]

Targets(group) ==
    CASE group = "them" -> Selections
      [] group \in DOMAIN Patterns -> Patterns[group]
      [] OTHER -> Selections \cap {group}

Enough(count, targets, hits) ==
    LET found == Cardinality(targets \cap hits)
    IN  CASE count = "all" -> targets # {} /\ found = Cardinality(targets)
          [] count = "2" -> found >= 2
          [] OTHER -> found >= 1

\* Fault: the closing parenthesis stays.
Unclosed(tokens, node) == node

Closed(tokens, node) ==
    IF Peek(tokens, node.next) = ")" THEN [node EXCEPT !.next = @ + 1] ELSE node

RECURSIVE ParseExpr(_, _, _), MoreTerms(_, _, _),
          ParseTerm(_, _, _), MoreFactors(_, _, _), ParseFactor(_, _, _)

ParseExpr(tokens, hits, i) == MoreTerms(tokens, hits, ParseTerm(tokens, hits, i))

MoreTerms(tokens, hits, node) ==
    IF Peek(tokens, node.next) = "or"
    THEN LET rhs == ParseTerm(tokens, hits, node.next + 1)
         IN  MoreTerms(tokens, hits, Node(node.holds \/ rhs.holds, rhs.next))
    ELSE node

ParseTerm(tokens, hits, i) == MoreFactors(tokens, hits, ParseFactor(tokens, hits, i))

MoreFactors(tokens, hits, node) ==
    IF Peek(tokens, node.next) = "and"
    THEN LET rhs == ParseFactor(tokens, hits, node.next + 1)
         IN  MoreFactors(tokens, hits, Node(node.holds /\ rhs.holds, rhs.next))
    ELSE node

ParseFactor(tokens, hits, i) ==
    LET token == Peek(tokens, i)
    IN  CASE token = "end" -> Node(FALSE, i)
          [] token = "not" ->
                LET operand == ParseFactor(tokens, hits, i + 1)
                IN  Node(~ operand.holds, operand.next)
          [] token = "(" -> Closed(tokens, ParseExpr(tokens, hits, i + 1))
          [] token \in Count /\ Peek(tokens, i + 1) = "of" ->
                Node(Enough(token, Targets(Peek(tokens, i + 2)), hits), i + 3)
          [] OTHER -> Node(token \in hits, i + 1)

-------------------------------------------------------------------------------
(* What a condition means: an expression, whatever way it is written.      *)

Sel(n) == [op |-> "sel", name |-> n]
Of(c, g) == [op |-> "of", count |-> c, group |-> g]
Not(e) == [op |-> "not", arg |-> e]
Both(op, d, e) == [op |-> op, left |-> d, right |-> e]

RECURSIVE Means(_, _)
Means(e, hits) ==
    CASE e.op = "sel" -> e.name \in hits
      [] e.op = "of" -> \E some \in SUBSET (Targets(e.group) \cap hits) :
                            CASE e.count = "all" -> some = Targets(e.group) /\ some # {}
                              [] e.count = "2" -> Cardinality(some) = 2
                              [] OTHER -> Cardinality(some) = 1
      [] e.op = "not" -> ~ Means(e.arg, hits)
      [] e.op = "and" -> Means(e.left, hits) /\ Means(e.right, hits)
      [] e.op = "or" -> Means(e.left, hits) \/ Means(e.right, hits)

Rank(e) == CASE e.op = "or" -> 1 [] e.op = "and" -> 2 [] OTHER -> 3

Bracket(s) == <<"(">> \o s \o <<")">>

\* An expression written down with no more parentheses than precedence asks for.
RECURSIVE Written(_)
Written(e) ==
    LET Within(d, rank) == IF Rank(d) < rank THEN Bracket(Written(d)) ELSE Written(d)
    IN  CASE e.op = "sel" -> <<e.name>>
          [] e.op = "of" -> <<e.count, "of", e.group>>
          [] e.op = "not" -> <<"not">> \o Within(e.arg, 3)
          [] OTHER -> Within(e.left, Rank(e)) \o <<e.op>> \o Within(e.right, Rank(e))

-------------------------------------------------------------------------------
(* A rule has one condition, a list of them, or none.                      *)

Joined(op, parts) ==
    FoldLeft(LAMBDA all, part : IF all = <<>> THEN part ELSE all \o <<op>> \o part, <<>>, parts)

\* The tokens of the conditions cs, as compile_sigma() joins them.
Tokens(cs) ==
    CASE cs = <<>> -> Joined("and", [i \in 1..Cardinality(Selections) |-> <<SetToSeq(Selections)[i]>>])
      [] Len(cs) = 1 -> Written(cs[1])
      [] OTHER -> Joined("or", [i \in DOMAIN cs |-> Bracket(Written(cs[i]))])

\* matches(): the compiled rule, on the selections that match.
Fires(cs, hits) == ParseExpr(Tokens(cs), hits, 1).holds

\* The reference: without a condition every selection must match.
RuleMeans(cs, hits) ==
    IF cs = <<>> THEN hits = Selections ELSE \E i \in DOMAIN cs : Means(cs[i], hits)
===============================================================================
