---------------------------- MODULE RuleMatching ----------------------------
(* Which rule answers a request (pane-engine-mitm/rules.rs): the glob on host *)
(* and path, the method, the parameters, the body template and the conditions *)
(* of a rule, and first_match over the rules in the order storage gives them. *)
(*                                                                            *)
(* Text is what the matcher tells apart: a path is a sequence of characters,  *)
(* a JSON scalar is a token with its kind, its text and, maybe, its number.   *)
EXTENDS Naturals, Sequences, FiniteSets, JsonTree

CONSTANTS
    Chars,       \* the characters of hosts and paths
    RuleLists,   \* lists of rules: [host, method, path, params, template, conditions]
    Requests,    \* [host, method, path, query, json, body]; body is <<>> when it does not parse
    ExtraPairs,  \* query parameters a client may add
    MaxExtras    \* bound: how often a request grows

NoPattern == <<"none">>
NoTemplate == <<>>

(* A request has text for host and path and a JSON value, if any, for body.   *)
IsRequest(q) ==
    /\ q \in [host : Seq(Chars), method : {q.method}, path : Seq(Chars), query : {q.query}, json : BOOLEAN, body : {q.body}]
    /\ q.body # <<>> => IsBody(q.body)

ASSUME MatchAssumption ==
    /\ "extra" \in Keys
    /\ \A q \in Requests : IsRequest(q)
    /\ \A rules \in RuleLists : /\ DOMAIN rules \subseteq Nat \ {0}
                                 /\ \A i \in DOMAIN rules : rules[i].path \in Seq(Chars) \cup {NoPattern}

VARIABLES
    listed,   \* the active rules
    request,  \* the request at hand
    hit,      \* first_match: an index of listed, 0 for None
    extras    \* how often the request grew

matchVars == <<listed, request, hit, extras>>

-----------------------------------------------------------------------------
(* Globs                                                                      *)
Split(pattern) ==
    LET upTo[n \in 0..Len(pattern)] ==
            IF n = 0 THEN << <<>> >>
            ELSE LET parts == upTo[n - 1] IN
                 IF pattern[n] = "*" THEN Append(parts, <<>>)
                 ELSE [parts EXCEPT ![Len(parts)] = Append(@, pattern[n])]
    IN  upTo[Len(pattern)]

StandsAt(s, part, n) == n + Len(part) <= Len(s) /\ SubSeq(s, n + 1, n + Len(part)) = part

(* str::find from the cursor on, Len(s) + 1 when there is nothing to find.    *)
Find(s, part, cursor) ==
    LET found == {n \in cursor..Len(s) : StandsAt(s, part, n)} IN
    IF found = {} THEN Len(s) + 1 ELSE (CHOOSE n \in found : \A m \in found : n <= m) + Len(part)

(* The cursor behind all parts but the last; empty parts are passed over.     *)
Cursor(parts, s) ==
    LET behind[k \in 1..(Len(parts) - 1)] ==
            IF k = 1 THEN Len(parts[1])
            ELSE IF parts[k] = <<>> THEN behind[k - 1] ELSE Find(s, parts[k], behind[k - 1])
    IN  behind[Len(parts) - 1]

\* mutant: the last part may overlap what the parts before it took
GlobOverlapping(pattern, s) ==
    LET parts == Split(pattern)
        last  == parts[Len(parts)]
    IN  IF Len(parts) = 1 THEN pattern = s
        ELSE /\ StandsAt(s, parts[1], 0)
             /\ Cursor(parts, s) <= Len(s)
             /\ last = <<>> \/ (Len(last) <= Len(s) /\ StandsAt(s, last, Len(s) - Len(last)))

GlobMatches(pattern, s) ==
    LET parts == Split(pattern)
        last  == parts[Len(parts)]
    IN  IF Len(parts) = 1 THEN pattern = s
        ELSE /\ StandsAt(s, parts[1], 0)
             /\ Cursor(parts, s) <= Len(s)
             /\ last = <<>> \/ (Cursor(parts, s) + Len(last) <= Len(s) /\ StandsAt(s, last, Len(s) - Len(last)))

-----------------------------------------------------------------------------
(* Bodies                                                                     *)
Numbers  == [n1 |-> 1, s1 |-> 1, n12 |-> 12]
AsNumber(v) == IF v \in DOMAIN Numbers THEN <<Numbers[v]>> ELSE <<>>
AsText(v) ==
    CASE v \in {"n1", "s1"}   -> <<"1">>
      [] v = "n12"            -> <<"12">>
      [] v \in {"obj", "arr"} -> <<>>
      [] OTHER                -> <<v>>
Operand(text) == CASE text = "1" -> <<1>> [] text = "12" -> <<12>> [] OTHER -> <<>>
Within == {<<"1", "1">>, <<"12", "12">>, <<"x", "x">>, <<"1", "12">>}

(* lookup_body_path                                                           *)
Lookup(body, path) ==
    LET p == ConditionPath(path) IN
    IF p \in DOMAIN body THEN <<body[p]>> ELSE <<>>

Equal(v, text) ==
    IF AsNumber(v) # <<>> /\ Operand(text) # <<>> THEN AsNumber(v) = Operand(text) ELSE AsText(v) = <<text>>

Compares(op, a, b) == CASE op = "gt" -> a > b [] op = "gte" -> a >= b [] op = "lt" -> a < b [] op = "lte" -> a <= b

(* A field that is not there satisfies no operator, "ne" neither.             *)
\* mutant: what is missing differs from everything
EvalMissingDiffers(c, body) ==
    LET found == Lookup(body, c.path) IN
    \/ c.op = "ne" /\ (found = <<>> \/ ~Equal(found[1], c.value))
    \/ /\ found # <<>>
       /\ \/ c.op = "eq" /\ Equal(found[1], c.value)
          \/ c.op = "contains" /\ AsText(found[1]) # <<>> /\ <<c.value, AsText(found[1])[1]>> \in Within
          \/ c.op \in {"gt", "gte", "lt", "lte"} /\ AsNumber(found[1]) # <<>> /\ Operand(c.value) # <<>>
             /\ Compares(c.op, AsNumber(found[1])[1], Operand(c.value)[1])

EvalCondition(c, body) ==
    LET found == Lookup(body, c.path) IN
    /\ found # <<>>
    /\ \/ c.op = "eq" /\ Equal(found[1], c.value)
       \/ c.op = "ne" /\ ~Equal(found[1], c.value)
       \/ c.op = "contains" /\ AsText(found[1]) # <<>> /\ <<c.value, AsText(found[1])[1]>> \in Within
       \/ c.op \in {"gt", "gte", "lt", "lte"} /\ AsNumber(found[1]) # <<>> /\ Operand(c.value) # <<>>
          /\ Compares(c.op, AsNumber(found[1])[1], Operand(c.value)[1])

(* parse_json_top_level: the scalars of the root object as name and text.     *)
BodyPairs(q) ==
    IF ~q.json \/ q.body = <<>> THEN {}
    ELSE {<<p[1][2], AsText(q.body[p])[1]>> : p \in {c \in DOMAIN q.body : Len(c) = 1 /\ c[1][1] = "key" /\ AsText(q.body[c]) # <<>>}}

(* json_subset                                                                *)
\* mutant: the body has to be the template
SubsetExact(template, body) == template = body

JsonSubset(template, body) == Fits(template, body)

RuleMatches(r, q) ==
    /\ r.host = NoPattern \/ GlobMatches(r.host, q.host)
    /\ r.method \in {"", q.method}
    /\ r.path = NoPattern \/ GlobMatches(r.path, q.path)
    /\ \A pair \in r.params : pair \in q.query \/ pair \in BodyPairs(q)
    /\ r.template # NoTemplate \/ r.conditions # {} =>
          /\ q.json /\ q.body # <<>>
          /\ r.template # NoTemplate => JsonSubset(r.template, q.body)
          /\ \A c \in r.conditions : EvalCondition(c, q.body)

FirstMatch(rules, q) ==
    LET matching == {i \in DOMAIN rules : RuleMatches(rules[i], q)} IN
    IF matching = {} THEN 0 ELSE CHOOSE i \in matching : \A j \in matching : i <= j

-----------------------------------------------------------------------------
Arrives ==
    /\ request = <<>>
    /\ \E q \in Requests : request' = q /\ hit' = FirstMatch(listed, q)
    /\ UNCHANGED <<listed, extras>>

(* The same request once more, with a parameter, a field or an element added. *)
Grows(q) ==
    /\ extras' = extras + 1
    /\ request' = q
    /\ hit' = FirstMatch(listed, q)
    /\ UNCHANGED listed

WithParameter == \E pair \in ExtraPairs : Grows([request EXCEPT !.query = @ \cup {pair}])
WithField     == \E p \in DOMAIN request.body :
                    /\ request.body[p] = "obj" /\ Append(p, Key("extra")) \notin DOMAIN request.body
                    /\ Grows([request EXCEPT !.body = Put(@, Append(p, Key("extra")), Leaf("x"))])
WithElement   == \E p \in DOMAIN request.body :
                    /\ request.body[p] = "arr"
                    /\ Grows([request EXCEPT !.body = Push(@, p, Leaf("x"))])

AsksForMore == request # <<>> /\ extras < MaxExtras /\ (WithParameter \/ WithField \/ WithElement)

MatchInit ==
    /\ listed \in RuleLists
    /\ request = <<>>
    /\ hit = 0
    /\ extras = 0

MatchNext == Arrives \/ AsksForMore

MatchSpec == MatchInit /\ [][MatchNext]_matchVars

-----------------------------------------------------------------------------
(* The greedy matcher decides what the pattern means: the parts between the   *)
(* stars stand in the text in this order, the first at its start, the last at *)
(* its end, without overlap.                                                  *)
Cuts(parts, s) ==
    {f \in [DOMAIN parts -> 0..Len(s)] :
        /\ \A i \in DOMAIN parts : StandsAt(s, parts[i], f[i])
        /\ \A i \in DOMAIN parts : i > 1 => f[i - 1] + Len(parts[i - 1]) <= f[i]
        /\ f[1] = 0 /\ f[Len(parts)] + Len(parts[Len(parts)]) = Len(s)}
GlobIsItsMeaning ==
    request # <<>> => \A i \in DOMAIN listed : listed[i].path # NoPattern =>
        (GlobMatches(listed[i].path, request.path) <=> Cuts(Split(listed[i].path), request.path) # {})

(* "Extras in the request are allowed": a request that carries more than one  *)
(* a rule answered is answered by that rule or one before it, whatever the    *)
(* rule compares, so a client that adds a field does not lose its mock.       *)
ExtrasKeepTheMock == [][request # <<>> /\ hit > 0 => hit' \in 1..hit]_matchVars

(* A body matcher fails closed: the rule that answers asks nothing of the     *)
(* body, or the body is JSON and has every field its conditions name.         *)
AnswersOnlyWhatItRead ==
    hit > 0 /\ listed[hit].conditions # {} =>
        /\ request.json /\ request.body # <<>>
        /\ \A c \in listed[hit].conditions : Lookup(request.body, c.path) # <<>>

(* What is compared is what the rule says: the pattern by its meaning, a body *)
(* only when it is there.                                                     *)
MatchingIsExact == GlobIsItsMeaning /\ AnswersOnlyWhatItRead
=============================================================================
