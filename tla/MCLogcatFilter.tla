---------------------------- MODULE MCLogcatFilter ----------------------------
EXTENDS LogcatFilter
MCRowsLog == {[pid |-> 1, tag |-> "Http", message |-> "get", level |-> 2], [pid |-> 2, tag |-> "Http", message |-> "fail", level |-> 4],
              [pid |-> 2, tag |-> "gc", message |-> "Http", level |-> 1], [pid |-> 1, tag |-> "http", message |-> "fail", level |-> 5]}
MCAppPart == [com |-> {"com.a", "com.b"}, b |-> {"com.b"}, none |-> {}]
Texts == [neg : BOOLEAN, folds : {{"Http", "http"}, {"fail"}}]
Levels == [neg : BOOLEAN, low : {0, 4}, high : {4, 6}]
PidValues == [neg : BOOLEAN, pid : {1, 2}, rust : {TRUE}, js : {TRUE}] \cup {[neg |-> FALSE, pid |-> 1, rust |-> FALSE, js |-> TRUE]}
RegexValues == {[neg |-> FALSE, folds |-> {"fail"}, rust |-> r, js |-> j] : r \in BOOLEAN, j \in BOOLEAN}
AppValues == [neg : BOOLEAN, app : {"com", "b", "none"}]
UpTo2(S) == {<<>>} \cup {<<v>> : v \in S} \cup (S \X S)
One(S) == {<<v>> : v \in S}
TextTokens == [key : {"tag", "msg"}, neg : BOOLEAN, values : UpTo2(Texts)] \cup [key : {"bare"}, neg : BOOLEAN, values : One(Texts)]
OtherTokens == [key : {"level"}, neg : BOOLEAN, values : UpTo2(Levels)] \cup [key : {"pid"}, neg : BOOLEAN, values : UpTo2(PidValues)]
        \cup [key : {"regex"}, neg : BOOLEAN, values : One(RegexValues)] \cup [key : {"unknown"}, neg : {FALSE}, values : {<<>>, <<[neg |-> FALSE]>>}]
AppTokens == [key : {"app"}, neg : {FALSE}, values : UpTo2(AppValues)]
MCLogFilters == {<<t>> : t \in TextTokens \cup OtherTokens \cup AppTokens} \cup {<<a, t>> : a \in [key : {"app"}, neg : {FALSE}, values : One(AppValues)], t \in [key : {"regex"}, neg : BOOLEAN, values : One(RegexValues)]}
=============================================================================
