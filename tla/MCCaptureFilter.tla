--------------------------- MODULE MCCaptureFilter ---------------------------
EXTENDS CaptureFilter
Find(S) == [text |-> "none", finds |-> S]
MCDevices == [d1 |-> [name |-> "RS35", serial |-> "S1"], d2 |-> [name |-> "TC21", serial |-> "S2"]]
MCRows == [host : {"api"}, path : {"/"}, method : {"CONNECT", "PUT"}, state : {"in_flight"}, status : {Null}, size : {<<0>>}, duration : {Null},
           error : {Null}, rule : {Null}, ruleId : {Null}, mime : {Null}, device : {Null, "__host__", "d1", "d2"}]
MCHeads == {[method |-> "GET", path |-> "login"]}
MCMimes == {Null, "json"}
Ending(st, s, b, e, r) == [state |-> st, status |-> s, size |-> <<b>>, duration |-> IF st = "error" THEN Null ELSE <<b + 1>>, error |-> e, rule |-> r]
MCEndings == {Ending("completed", <<200>>, 9, Null, Null), Ending("completed", <<404>>, 0, Null, Null), Ending("stubbed", <<200>>, 3, Null, "rule1"),
              Ending("patched", <<500>>, 3, Null, "rule2"), Ending("error", Null, 0, "tls", Null), Ending("tunneled", Null, 9, "tunneled", Null)}
Text(v) == [text |-> v, finds |-> {v}]
Range3(l, h) == [low |-> l, high |-> h, text |-> "range", finds |-> {}]
MCValues == [host |-> {Text("api"), Text("cdn")}, path |-> {Find({"login", "logout"}), Text("/")}, method |-> {Text("GET"), Text("CONNECT")},
             state |-> {Text("in_flight"), Text("stubbed")}, error |-> {Text("tls"), Text("tunneled")},
             status |-> {Range3({200}, {200}), Range3({500}, {599}), Range3({}, {404}), Range3({300}, {}), Range3({}, {})},
             size |-> {Range3({}, {5}), Range3({1}, {})}, duration |-> {Range3({}, {5}), Range3({}, {})},
             mime |-> {Text("json"), Text("html")}, device |-> {Find({"RS35"}), Find({"S1", "S2"}), Text("gone"), Text("__host__")},
             rule |-> {Text("rule1"), Find({"rule1", "rule2"})}, bare |-> {Text("api"), Text("login"), Text("/")}]
MCTokens == UNION {[key : {k}, neg : BOOLEAN, values : {<<>>} \cup {<<v>> : v \in MCValues[k]} \cup (MCValues[k] \X MCValues[k])] : k \in DOMAIN MCValues}
Short == {t \in MCTokens : Len(t.values) = 1}
MCFilters == {<<>>, <<[key |-> "unknown", neg |-> FALSE, values |-> <<>>]>>} \cup {<<t>> : t \in MCTokens} \cup {<<t, u>> : t \in Short, u \in {v \in Short : v.key \in {"status", "rule", "device", "size"}}}
=============================================================================
