------------------------------ MODULE Patches ------------------------------
(* A patch rule at work (pane-engine-mitm/patch.rs, apply_patches_if_any in   *)
(* proxy_loop.rs): the operations of the rule, one after the other, on the    *)
(* status, the headers and the parsed body of a live response.                *)
EXTENDS Naturals, Sequences, FiniteSets, JsonTree

CONSTANTS
    PatchLists,   \* lists of operations: [op, path, value]
    ReplyHeaders, \* lists of <<name, value>>; names are those of eq_ignore_ascii_case
    ReplyBodies   \* JSON bodies of the server

(* A path is what tokenize reads: keys, indices, [-], and brackets that hold  *)
(* no number.                                                                 *)
ToEnd == <<"end", 0>>
NoNumber == <<"none", 0>>

(* What the store holds: operations with a path and a JSON value, and lists   *)
(* of them.                                                                   *)
IsPatch(op) ==
    /\ op \in [op : {"set", "append", "delete"}, path : Seq(Steps \cup {ToEnd, NoNumber}), value : {op.value}]
    /\ IsBody(op.value)

PatchOps == UNION {{ops[i] : i \in DOMAIN ops} : ops \in PatchLists}

ASSUME PatchAssumption ==
    /\ \A b \in ReplyBodies : IsBody(b)
    /\ PatchLists \subseteq Seq(PatchOps)
    /\ \A op \in PatchOps : IsPatch(op)

VARIABLES
    reply,    \* [status, headers, body]
    origin,   \* the response of the server: [status, headers, body, text]
    todo,     \* operations still to apply
    patching  \* "start", "json" | "other" (a placeholder is patched) | "sent" | "raw" (sent as it came)

patchVars == <<reply, origin, todo, patching>>

Tokenize(path) ==
    LET read[n \in 0..Len(path)] ==
            IF n = 0 THEN <<>> ELSE IF path[n] = NoNumber THEN read[n - 1] ELSE Append(read[n - 1], path[n])
    IN  read[Len(path)]

(* Statuses: a JSON number or a string of digits, capped at 599 and no more.  *)
StatusOf(v) == CASE v = "404" -> <<404>> [] v = "700" -> <<599>> [] v = "42" -> <<42>> [] OTHER -> <<>>

ApplyStatus(r, op, tail) ==
    LET n == StatusOf(op.value[<<>>]) IN
    IF tail = <<>> /\ op.op = "set" /\ n # <<>> THEN [ok |-> TRUE, reply |-> [r EXCEPT !.status = n[1]]]
                                                ELSE [ok |-> FALSE, reply |-> r]

Named(h, name) == {i \in DOMAIN h : h[i][1] = name}
FirstNamed(h, name) == CHOOSE i \in Named(h, name) : \A j \in Named(h, name) : i <= j

ApplyHeaders(r, op, tail) ==
    IF tail = <<>> \/ Head(tail)[1] # "key" \/ op.op = "append" THEN [ok |-> FALSE, reply |-> r]
    ELSE LET name == Head(tail)[2]
             old  == Named(r.headers, name)
             new  == op.value[<<>>]
         IN  IF op.op = "delete"
             THEN [ok |-> old # {}, reply |-> [r EXCEPT !.headers = SelectSeq(@, LAMBDA h : h[1] # name)]]
             ELSE [ok |-> TRUE, reply |-> IF old = {} THEN [r EXCEPT !.headers = Append(@, <<name, new>>)]
                                          ELSE [r EXCEPT !.headers[FirstNamed(r.headers, name)] = <<name, new>>]]

(* One step of navigate_to_parent.  n is where the walk stands; what it put   *)
(* on its way stays, found or not.                                            *)
\* mutant: the key is always entered anew
EnterAnew(n, s) ==
    LET p == Append(n.at, s) IN
    CASE ~n.found \/ s = ToEnd   -> [n EXCEPT !.found = FALSE]
      [] n.found /\ s[1] = "at"  -> [n EXCEPT !.found = p \in DOMAIN n.tree, !.at = IF p \in DOMAIN n.tree THEN p ELSE n.at]
      [] n.found /\ s[1] = "key" -> [n EXCEPT !.tree = Put(Put(@, n.at, Leaf("obj")), p, Leaf("null")), !.at = p]

AsObject(t, p) == IF t[p] = "obj" THEN t ELSE Put(t, p, Leaf("obj"))

Enter(n, s) ==
    LET p == Append(n.at, s)
        t == AsObject(n.tree, n.at)
    IN  CASE ~n.found \/ s = ToEnd   -> [n EXCEPT !.found = FALSE]
          [] n.found /\ s[1] = "at"  -> [n EXCEPT !.found = p \in DOMAIN n.tree, !.at = IF p \in DOMAIN n.tree THEN p ELSE n.at]
          [] n.found /\ s[1] = "key" -> [n EXCEPT !.tree = IF p \in DOMAIN t THEN t ELSE Put(t, p, Leaf("null")), !.at = p]

Navigate(t, steps) ==
    LET walk[n \in 0..Len(steps)] ==
            IF n = 0 THEN [tree |-> t, at |-> <<>>, found |-> TRUE] ELSE Enter(walk[n - 1], steps[n])
    IN  walk[Len(steps)]

Done(t)   == [ok |-> TRUE, body |-> t]
Failed(t) == [ok |-> FALSE, body |-> t]

SetAt(t, at, s, v) ==
    LET p == Append(at, s) IN
    CASE s[1] = "key"                     -> Done(Put(AsObject(t, at), p, v))
      [] s[1] = "at" /\ p \in DOMAIN t    -> Done(Put(t, p, v))
      [] s = ToEnd /\ t[at] = "arr"       -> Done(Push(t, at, v))
      [] OTHER                            -> Failed(t)

AppendAt(t, at, s, v) ==
    LET p == IF s = ToEnd THEN at ELSE Append(at, s) IN
    CASE p \in DOMAIN t /\ t[p] = "arr"                      -> Done(Push(t, p, v))
      [] p \notin DOMAIN t /\ s[1] = "key" /\ t[at] = "obj"  -> Done(Push(Put(t, p, Leaf("arr")), p, v))
      [] OTHER                                               -> Failed(t)

\* mutant: the elements behind a removed one keep their indices
DeleteLeavingAGap(t, at, s) ==
    IF Append(at, s) \in DOMAIN t THEN Done(Cut(t, Append(at, s))) ELSE Failed(t)

DeleteAt(t, at, s) ==
    CASE Append(at, s) \notin DOMAIN t -> Failed(t)
      [] Append(at, s) \in DOMAIN t /\ s[1] = "key" -> Done(Cut(t, Append(at, s)))
      [] Append(at, s) \in DOMAIN t /\ s[1] = "at"  -> Done(Shift(t, at, s[2]))

ApplyBody(t, op, steps) ==
    IF steps = <<>> THEN IF op.op = "set" THEN Done(op.value) ELSE Failed(t)
    ELSE LET n == Navigate(t, Parent(steps))
             s == LastStep(steps)
         IN  CASE ~n.found                         -> Failed(n.tree)
               [] n.found /\ op.op = "set"         -> SetAt(n.tree, n.at, s, op.value)
               [] n.found /\ op.op = "append"      -> AppendAt(n.tree, n.at, s, op.value)
               [] n.found /\ op.op = "delete"      -> DeleteAt(n.tree, n.at, s)

(* The steps of a path under the body; its head need not be spelt.            *)
\* mutant: only paths that spell the head lose it
BodyStepsAsSpelt(steps) == steps

BodySteps(steps) == IF Head(steps) = Key("body") THEN Tail(steps) ELSE steps

Apply(r, op) ==
    LET steps == Tokenize(op.path) IN
    CASE steps = <<>> \/ Head(steps)[1] # "key" -> [ok |-> FALSE, reply |-> r]
      [] steps # <<>> /\ Head(steps) = Key("status")  -> ApplyStatus(r, op, Tail(steps))
      [] steps # <<>> /\ Head(steps) = Key("headers") -> ApplyHeaders(r, op, Tail(steps))
      [] OTHER -> LET b == ApplyBody(r.body, op, BodySteps(steps)) IN [ok |-> b.ok, reply |-> [r EXCEPT !.body = b.body]]

(* lookup_body_path of rules.rs: how a condition reads a body by a path.      *)
Reads(t, path) ==
    LET p == ConditionPath(path) IN
    IF p \in DOMAIN t THEN <<Subtree(t, p)>> ELSE <<>>

(* The content type of the response decides before any patch; a body that     *)
(* claims to be JSON and is not goes out as it came, and so does the rest; an *)
(* empty one is passed over like one that is no JSON, and its status and      *)
(* headers are patched.                                                       *)
Texts == {"json", "broken", "empty"}

DeclaresJson(h) == Named(h, "content-type") # {} /\ h[FirstNamed(h, "content-type")][2] = "json"

Parses(o) == DeclaresJson(o.headers) /\ o.text = "json"
Broken(o) == DeclaresJson(o.headers) /\ o.text = "broken"

\* mutant: a body that does not parse is treated like one that is no JSON
ParseLeniently ==
    /\ patching = "start"
    /\ patching' = IF Parses(origin) THEN "json" ELSE "other"
    /\ reply' = [reply EXCEPT !.body = IF Parses(origin) THEN @ ELSE Leaf("null")]
    /\ UNCHANGED <<origin, todo>>

Parse ==
    /\ patching = "start"
    /\ patching' = CASE Parses(origin)                      -> "json"
                     [] Broken(origin)                      -> "raw"
                     [] ~Parses(origin) /\ ~Broken(origin)  -> "other"
    /\ reply' = [reply EXCEPT !.body = IF patching' = "other" THEN Leaf("null") ELSE @]
    /\ UNCHANGED <<origin, todo>>

(* Whether an operation succeeded is of no consequence.                       *)
ApplyNext ==
    /\ patching \in {"json", "other"} /\ todo # <<>>
    /\ reply' = Apply(reply, Head(todo)).reply
    /\ todo' = Tail(todo)
    /\ UNCHANGED <<origin, patching>>

Serialize ==
    /\ patching \in {"json", "other"} /\ todo = <<>>
    /\ patching' = IF patching = "json" THEN "sent" ELSE "raw"
    /\ reply' = [reply EXCEPT !.body = IF patching = "json" THEN @ ELSE origin.body]
    /\ UNCHANGED <<origin, todo>>

PatchInit ==
    /\ \E h \in ReplyHeaders, b \in ReplyBodies, text \in Texts :
          origin = [status |-> 200, headers |-> h, body |-> b, text |-> text]
    /\ reply = [status |-> origin.status, headers |-> origin.headers, body |-> origin.body]
    /\ todo \in PatchLists
    /\ patching = "start"

PatchNext == Parse \/ ApplyNext \/ Serialize

PatchSpec == PatchInit /\ [][PatchNext]_patchVars

-----------------------------------------------------------------------------
(* Whatever list of patches ran, failing ones included, the body is a JSON    *)
(* value: an array element that is deleted leaves no gap, nothing hangs on a  *)
(* scalar.  The status is capped, never more: a rule that says 42 sends 42.   *)
BodyStaysATree == IsTree(reply.body) /\ reply.status \in 0..599

(* What a patch reports to have set, a rule's condition on the same path      *)
(* reads: the two walk a path alike, as the comment on lookup_body_path says, *)
(* where a leading `body` stands before a dot.  (`body` alone and `body[0]`   *)
(* are the body to a patch and a field of that name to a condition.)          *)
Condition(op) ==
    /\ op.path # <<>>
    /\ Tokenize(op.path) = op.path /\ ~ \E i \in DOMAIN op.path : op.path[i] = ToEnd
    /\ Head(op.path) = Key("body") => Len(op.path) > 1 /\ op.path[2][1] = "key"
SetIsRead ==
    [][ApplyNext =>
         LET op == Head(todo) IN
         (/\ op.op = "set" /\ Condition(op) /\ Apply(reply, op).ok
          /\ Head(op.path) \notin {Key("status"), Key("headers")})
            => Reads(reply'.body, op.path) = <<op.value>>]_patchVars

(* A patch keeps to its path: what stands elsewhere in the body reads as      *)
(* before, unless it hung on a scalar or an array the path went through as an *)
(* object, or moved up when an element was deleted.                           *)
Target(op) == IF Tokenize(op.path) = <<>> THEN <<>> ELSE BodySteps(Tokenize(op.path))
OffThePath(p, q) == ~Begins(p, q) /\ ~Begins(q, p)
GoesThroughAs(t, p, q) ==
    \A n \in 0..(Len(p) - 1) : Begins(SubSeq(p, 1, n), q) /\ Len(q) > n => p[n + 1][1] = q[n + 1][1]
PatchKeepsToItsPath ==
    [][ApplyNext =>
         LET op == Head(todo)
             p  == Target(op)
         IN  \A q \in DOMAIN reply.body :
               (/\ OffThePath(p, q) /\ GoesThroughAs(reply.body, p, q)
                /\ (op.op = "delete" /\ LastStep(p)[1] = "at" => ~Begins(Parent(p), q)))
                  => q \in DOMAIN reply'.body /\ reply'.body[q] = reply.body[q]]_patchVars

(* A response whose body claims to be JSON and breaks it goes out as the      *)
(* server sent it, status and headers included ("serving as-is"), and a body  *)
(* that was not parsed is sent byte for byte, whatever the patches say.       *)
ServedAsIs ==
    /\ patching = "raw" => reply.body = origin.body
    /\ patching = "raw" /\ Broken(origin) => reply.status = origin.status /\ reply.headers = origin.headers

(* A list of patches does what each of them says, and no more.                *)
PatchesDoWhatTheySay ==
    SetIsRead /\ PatchKeepsToItsPath /\ [][BodyStaysATree' /\ ServedAsIs']_patchVars
=============================================================================
