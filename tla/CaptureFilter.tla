--------------------------- MODULE CaptureFilter ---------------------------
(* The filter language of the captures (pane-storage/filter_dsl.rs): tokens   *)
(* are compiled to a WHERE clause, and SQLite evaluates it in three values.   *)
(* The same clause lists captures and decides, one row at a time, what a      *)
(* subscriber with a filter is told (capture_matches).                        *)
(*                                                                            *)
(* A text is one of a few tokens; what LIKE finds in it is the relation Like. *)
EXTENDS Integers, Sequences, FiniteSets

CONSTANTS
    CaptureFilters, \* lists of tokens: [key, neg, values]; values are what split_values leaves
    CaptureRows,    \* rows as the engine first inserts them
    Heads,          \* what the request asks for: [method, path]
    Mimes,          \* content types of the response, Null for none
    Endings,        \* how an exchange ends: [state, status, size, duration, error, rule]
    Devices         \* the device table: id -> [name, serial]

Null    == "null"
Keys    == {"host", "path", "method", "state", "error", "status", "size", "duration", "mime", "device", "rule", "bare"}
Columns == {"host", "path", "method", "state", "status", "size", "duration", "error", "rule", "ruleId", "mime", "device"}

(* server_host, url_path, method, state and total_bytes are NOT NULL; id and  *)
(* name of the matched rule are written by the same UPDATE; what only the end *)
(* tells is NULL while the exchange is under way, and the size is 0.          *)
RowShape(c) ==
    /\ DOMAIN c = Columns /\ Null \notin {c.host, c.path, c.method, c.state, c.size}
    /\ c.rule = Null <=> c.ruleId = Null
    /\ c.state = "in_flight" => c.status = Null /\ c.duration = Null /\ c.error = Null /\ c.rule = Null

ASSUME FilterAssumption ==
    /\ \A f \in CaptureFilters : \A i \in DOMAIN f :
          /\ f[i] = [key |-> f[i].key, neg |-> f[i].neg, values |-> f[i].values]
          /\ f[i].key \in Keys \cup {"unknown"}
    /\ \A c \in CaptureRows : RowShape(c) /\ c.state = "in_flight" /\ c.mime = Null /\ c.size = <<0>>
    /\ \A h \in Heads : Null \notin {h.method, h.path}
    /\ \A e \in Endings : e.state \notin {"in_flight", Null} /\ e.size # Null

VARIABLES
    capture,  \* the row
    progress, \* how far its exchange is: "opened", "method", "read", "answered" or "over"
    typed     \* the filter, as tokens

filterVars == <<capture, progress, typed>>

-----------------------------------------------------------------------------
(* SQL's three values                                                         *)
Sql3(b)      == IF b THEN "true" ELSE "false"
Not3(v)      == CASE v = "true" -> "false" [] v = "false" -> "true" [] v = Null -> Null
AndAll(vals) == IF "false" \in vals THEN "false" ELSE IF Null \in vals THEN Null ELSE "true"
OrAny(vals)  == IF "true" \in vals THEN "true" ELSE IF Null \in vals THEN Null ELSE "false"

(* A pattern without a star stands anywhere; a star makes the rest count.     *)
Like(text, value)  == IF text = Null THEN Null ELSE Sql3(text \in value.finds)
Same(text, value)  == IF text = Null THEN Null ELSE Sql3(text = value.text)

(* N or N..M, an end may be missing.                                          *)
\* mutant: a number that is not there yet counts as zero
InRangeCoalesced(n, value) ==
    LET m == IF n = Null THEN 0 ELSE n[1] IN Sql3((value.low = {} \/ m >= CHOOSE l \in value.low : TRUE) /\ (value.high = {} \/ m <= CHOOSE h \in value.high : TRUE))

InRange(n, value) ==
    IF value.low = {} /\ value.high = {} THEN "true"
    ELSE IF n = Null THEN Null
    ELSE Sql3((\A l \in value.low : n[1] >= l) /\ (\A h \in value.high : n[1] <= h))

(* The sub-query of device: goes through the names of the devices known now;  *)
(* the computer itself is no row of the table.  Whether NULL is in a list     *)
(* SQLite does not know, but it is in none that is empty.                     *)
Found(value) == {d \in DOMAIN Devices : {Devices[d].name, Devices[d].serial} \cap value.finds # {}}
OfDevice(c, value) ==
    IF value.text = "__host__" THEN Same(c.device, value)
    ELSE IF c.device = Null /\ Found(value) # {} THEN Null
    ELSE Sql3(c.device \in Found(value))

(* One alternative of a positive token.                                       *)
Positive(key, value, c) ==
    CASE key = "host"   -> Like(c.host, value)
      [] key = "path"   -> Like(c.path, value)
      [] key = "method" -> Same(c.method, value)
      [] key = "state"  -> Same(c.state, value)
      [] key = "error"  -> Same(c.error, value)
      [] key = "status" -> InRange(c.status, value)
      [] key = "size"   -> InRange(c.size, value)
      [] key = "duration" -> InRange(c.duration, value)
      [] key = "mime"   -> Sql3(c.mime # Null /\ c.mime \in value.finds)
      [] key = "device" -> OfDevice(c, value)
      [] key = "rule"   -> OrAny({Like(c.rule, value), Same(c.ruleId, value)})
      [] key = "bare"   -> OrAny({Like(c.host, value), Like(c.path, value)})

(* And of a negated one: rule: and mime: spell out the row that has none.     *)
\* mutant: !rule: is NOT LIKE and no more
NegativeWithoutNull(key, value, c) ==
    CASE key = "rule" -> AndAll({Not3(Like(c.rule, value)), Not3(Same(c.ruleId, value))})
      [] OTHER        -> Not3(Positive(key, value, c))

Negative(key, value, c) ==
    CASE key = "rule" -> OrAny({Sql3(c.rule = Null), AndAll({Not3(Like(c.rule, value)), Sql3(c.ruleId # value.text)})})
      [] OTHER        -> Not3(Positive(key, value, c))

(* A list of alternatives: any of them, or none of them.                      *)
Clause(token, c) ==
    LET values == {token.values[i] : i \in DOMAIN token.values} IN
    IF token.neg THEN AndAll({Negative(token.key, v, c) : v \in values})
                 ELSE OrAny({Positive(token.key, v, c) : v \in values})

(* A list of commas alone leaves an empty pair of parentheses, which SQLite   *)
(* does not parse; validate_filter never asks SQLite.                         *)
Compiles(tokens) == \A i \in DOMAIN tokens : tokens[i].key # "unknown"
Prepares(tokens) == Compiles(tokens) /\ \A i \in DOMAIN tokens : tokens[i].values # <<>>

Where(tokens, c) == AndAll({Clause(tokens[i], c) : i \in DOMAIN tokens})

(* WHERE keeps the rows that are true.                                        *)
Matches(tokens, c) == Prepares(tokens) /\ Where(tokens, c) = "true"

-----------------------------------------------------------------------------
(* The proxy writes the row piece by piece: opened as CONNECT and / when the  *)
(* request is still inside a tunnel, ...                                      *)
MethodRead ==
    /\ progress = "opened" /\ progress' = "method"
    /\ \E h \in Heads : capture' = [capture EXCEPT !.method = IF @ = "CONNECT" THEN h.method ELSE @]
    /\ UNCHANGED typed

PathRead ==
    /\ progress = "method" /\ progress' = "read"
    /\ \E h \in Heads : capture' = [capture EXCEPT !.path = h.path]
    /\ UNCHANGED typed

(* ... the headers of the response, ...                                       *)
HeadersWritten ==
    /\ progress = "read" /\ progress' = "answered"
    /\ \E m \in Mimes : capture' = [capture EXCEPT !.mime = m]
    /\ UNCHANGED typed

(* ... and the end: status, size, duration, error and rule are known now.  A  *)
(* tunnel and a handshake that fails end before a request is read.            *)
Ways == CASE progress = "opened"   -> {"tunneled", "error"}
          [] progress = "read"     -> {"error"}
          [] progress = "answered" -> {"completed", "stubbed", "patched"}
          [] OTHER                 -> {}

EndExchange ==
    /\ \E e \in {x \in Endings : x.state \in Ways} :
          capture' = [capture EXCEPT !.state = e.state, !.status = e.status, !.size = e.size, !.duration = e.duration,
                                     !.error = e.error, !.rule = e.rule, !.ruleId = e.rule]
    /\ progress' = "over"
    /\ UNCHANGED typed

FilterInit == capture \in CaptureRows /\ progress = "opened" /\ typed \in CaptureFilters

FilterNext == MethodRead \/ PathRead \/ HeadersWritten \/ EndExchange

FilterSpec == FilterInit /\ [][FilterNext]_filterVars

-----------------------------------------------------------------------------
(* A token and its negation share no row, whatever is not known about the     *)
(* row yet, and a row that has what the token asks for is in one of them; for *)
(* rule: and mime: every row is, live ones included, as the comment on        *)
(* rule_clause promises.                                                      *)
Has(key, c) ==
    CASE key = "status" -> c.status # Null
      [] key = "duration" -> c.duration # Null
      [] key = "error"  -> c.error # Null
      [] key = "device" -> c.device # Null
      [] OTHER          -> TRUE
NegationSplits ==
    \A i \in DOMAIN typed : Prepares(<<typed[i]>>) =>
        LET t == typed[i]
            both == {b \in BOOLEAN : Matches(<<[t EXCEPT !.neg = b]>>, capture)}
        IN  Cardinality(both) <= 1 /\ (Has(t.key, capture) => both # {})

(* What is listed stays listed: whatever the proxy writes next, a row that    *)
(* matches goes on to match, unless the filter takes something away or asks   *)
(* for what is a placeholder until then: the state and the size of a row in   *)
(* flight, and method and path before the request is read.                    *)
Placeholders == {"state", "size"} \cup (IF progress \in {"opened", "method"} THEN {"method", "path", "bare"} ELSE {})
ListedStaysListed ==
    [][Matches(typed, capture) /\ (\A i \in DOMAIN typed : ~typed[i].neg /\ typed[i].key \notin Placeholders)
         => Matches(typed', capture')]_filterVars

(* "Negation means neither": a row the alternatives do not describe is in the *)
(* negated list.  The code drops it when the column is empty.                 *)
NegationKeepsTheRest ==
    \A i \in DOMAIN typed : Prepares(<<typed[i]>>) =>
        Matches(<<[typed[i] EXCEPT !.neg = TRUE]>>, capture) \/ Matches(<<[typed[i] EXCEPT !.neg = FALSE]>>, capture)

(* A filter that validates runs: the two are told apart for the exit code.    *)
ValidFilterRuns == Compiles(typed) => Prepares(typed)
=============================================================================
