-------------------------- MODULE MCDetectionEngine ---------------------------
EXTENDS SigmaEngine

MCSelections == {"s1", "s2", "f"}
MCPatterns == [g \in {"s*", "x*"} |-> IF g = "s*" THEN {"s1", "s2"} ELSE {}]

Atoms == {Sel(n) : n \in MCSelections}
            \cup {Of("all", "s*"), Of("1", "s*"), Of("2", "them"), Of("all", "them"), Of("all", "x*")}
Literals == Atoms \cup {Not(e) : e \in Atoms}
Pairs(D, E) == {Both(op, d, e) : op \in {"and", "or"}, d \in D, e \in E}
Simple == Pairs({Sel("s1"), Of("1", "s*")}, {Sel("f"), Not(Sel("f"))})
Nested == Pairs(Simple, Simple) \cup {Not(e) : e \in Simple} \cup Pairs({Sel("s2")}, Simple)

MCConditions ==
    {<<>>} \cup {<<e>> : e \in Literals \cup Pairs(Literals, Literals) \cup Nested}
           \cup {<<d, e>> : d, e \in Simple}

Domain(h, form) == [type |-> "domain", value |-> [of |-> h, as |-> form]]
Url(h, form) == [type |-> "url", value |-> [of |-> h, as |-> form]]
Hash(form) == [type |-> "hash", value |-> [of |-> <<"h">>, as |-> form]]

Address(form) == [type |-> "ip", value |-> [of |-> <<"h">>, as |-> form]]
Certificate == [Hash("odd") EXCEPT !.type = "certificate"]

MCLabels == {"com", "x", "e", "n", "h"}
Com == <<"com">>
X == <<"x", "com">>
E == <<"e", "x", "com">>
N == <<"n", "com">>
MCNames == {Com, X, E, N, <<"h">>}

MCFeeds ==
    {<<Domain(X, "url")>>, <<Domain(X, "plain"), [Hash("odd") EXCEPT !.type = "bogus"], Hash("odd")>>,
     <<Domain(X, "odd"), Domain(X, "plain")>>, <<Domain(E, "urldot")>>, <<Url(E, "url")>>,
     <<Hash("plain")>>, <<Address("odd"), Domain(N, "bad"), Certificate>>}

MCListings ==
    {[kind |-> k, value |-> [of |-> h, as |-> f]] :
        k \in {"domain"}, h \in {X, E}, f \in {"plain", "url"}}
    \cup {[kind |-> "process", value |-> [of |-> X, as |-> "plain"]],
          [kind |-> "domain", value |-> [of |-> X, as |-> "urldot"]],
          [kind |-> "domain", value |-> [of |-> N, as |-> "bad"]]}

Seen == {Domain(X, "odd"), Domain(N, "plain"), Url(E, "url"), Url(X, "url"), Url(X, "urldot"), Hash("odd")}
Others == {Address("plain"), Address("odd"), Url(N, "bad")}

MCEvents ==
    {[seen |-> s, rest |-> <<>>, hits |-> {}] : s \in {<<i>> : i \in Seen \cup Others} \cup (Seen \X Seen)}
    \cup {[seen |-> <<i>>, rest |-> <<Url(N, f)>>, hits |-> {}] : i \in Seen, f \in {"plain", "bad"}}
    \cup {[seen |-> <<>>, rest |-> <<>>, hits |-> h] : h \in SUBSET (MCSelections \cup {"lsass_access", "lateral_movement"})}

MCRuleRows ==
    {[kind |-> k, enabled |-> TRUE, condition |-> <<Both("and", Sel("s1"), Not(Sel("f")))>>] : k \in {"sigma", "yara"}}
    \cup {[kind |-> "sigma", enabled |-> FALSE, condition |-> <<>>]}
===============================================================================
