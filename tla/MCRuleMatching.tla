---------------------------- MODULE MCRuleMatching ----------------------------
EXTENDS RuleMatching
Words(S, n) == UNION {[1..m -> S] : m \in 0..n}
AnyRule == [host |-> NoPattern, method |-> "", path |-> NoPattern, params |-> {}, template |-> NoTemplate, conditions |-> {}]
MCGlobRules == {[AnyRule EXCEPT !.path = g] : g \in Words({"a", "b", "*"}, 4)}
Fields(v, w) == Put(Put(Leaf("obj"), <<Key("a")>>, v), <<Key("b")>>, w)
List(v) == Push(Leaf("arr"), <<>>, v)
MCTemplates == {NoTemplate, Leaf("obj"), Fields(Leaf("n1"), Leaf("obj")), Put(Leaf("obj"), <<Key("b")>>, List(Leaf("x")))}
MCConditions == [path : {<<Key("a")>>, <<Key("body"), Key("a")>>, <<Key("b"), At(0)>>}, op : {"eq", "ne", "gt", "lte", "contains"}, value : {"1", "x"}]
MCBodyRules == {[AnyRule EXCEPT !.template = t, !.conditions = {c}] : t \in MCTemplates, c \in MCConditions}
        \cup {[AnyRule EXCEPT !.template = t, !.params = P, !.method = m] : t \in MCTemplates, P \in {{}, {<<"a", "1">>}}, m \in {"", "GET"}}
MCHostRules == {[AnyRule EXCEPT !.host = <<"*", "b">>, !.method = "GET", !.params = {<<"a", "1">>}], AnyRule}
MCRuleLists == {<<r>> : r \in MCGlobRules} \cup {<<r, q>> : r \in MCBodyRules, q \in MCHostRules}
MCBodies == {<<>>, Leaf("n1"), Fields(Leaf("n1"), Leaf("obj")), Fields(Leaf("s1"), List(Leaf("x"))), Fields(Leaf("obj"), List(Leaf("n12")))}
MCExtraPairs == {<<"a", "1">>}
Plain == [host |-> <<"a", "b">>, method |-> "GET", path |-> <<"a">>, query |-> {}, json |-> FALSE, body |-> <<>>]
MCRequests == {[Plain EXCEPT !.path = p] : p \in Words({"a", "b"}, 4)}
        \cup [host : {<<"a", "b">>}, method : {"GET", "POST"}, path : {<<"a">>}, query : {{}, {<<"a", "1">>}}, json : BOOLEAN, body : MCBodies]
=============================================================================
