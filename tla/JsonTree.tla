------------------------------ MODULE JsonTree ------------------------------
(* A serde_json::Value as a function: the paths of its nodes, sequences of    *)
(* object keys and array indices, to what stands there: "obj", "arr" or a     *)
(* scalar.                                                                    *)
EXTENDS Naturals, Sequences, FiniteSets

CONSTANT Keys   \* the names of fields

Key(k) == <<"key", k>>
At(i)  == <<"at", i>>
Steps  == ({"key"} \X Keys) \cup ({"at"} \X Nat)

Leaf(v) == [p \in {<<>>} |-> v]

(* A path leads from its parent by its last step.                             *)
Parent(p)      == SubSeq(p, 1, Len(p) - 1)
LastStep(p)    == p[Len(p)]
Begins(p, q)   == Len(p) <= Len(q) /\ SubSeq(q, 1, Len(p)) = p

Under(t, p)    == {q \in DOMAIN t : Begins(p, q)}
Children(t, p) == {q \in Under(t, p) : Len(q) = Len(p) + 1}
Below(p, q)    == SubSeq(q, Len(p) + 1, Len(q))
Subtree(t, p)  == [q \in {Below(p, r) : r \in Under(t, p)} |-> t[p \o q]]

(* The value v stands at p, whatever stood there before.                      *)
Put(t, p, v) ==
    LET rest == DOMAIN t \ Under(t, p) IN
    [q \in rest \cup {p \o r : r \in DOMAIN v} |-> IF q \in rest THEN t[q] ELSE v[Below(p, q)]]

(* Map::insert and Vec::push on the node at p.                                *)
Push(t, p, v) == Put(t, Append(p, At(Cardinality(Children(t, p)))), v)

Cut(t, p) == [q \in DOMAIN t \ Under(t, p) |-> t[q]]

(* Vec::remove: what stood behind element i of the array at p moves up.       *)
Shift(t, p, i) ==
    LET n     == Len(p) + 1
        later == {q \in Under(t, p) : Len(q) >= n /\ q[n][2] > i}
        kept  == DOMAIN t \ (later \cup Under(t, Append(p, At(i))))
        from(q) == [q EXCEPT ![n] = At(q[n][2] + 1)]
    IN  [q \in kept \cup {[r EXCEPT ![n] = At(r[n][2] - 1)] : r \in later} |-> IF q \in kept THEN t[q] ELSE t[from(q)]]

(* lookup_body_path takes the text `body.` off a path, and so not the head of *)
(* `body` or `body[0]`.                                                       *)
ConditionPath(path) ==
    IF Len(path) > 1 /\ path[1] = Key("body") /\ path[2][1] = "key" THEN Tail(path) ELSE path

(* A tree: every node hangs on an object by a key or on an array by an index, *)
(* and the indices of an array have no gap.                                   *)
IsTree(t) ==
    /\ <<>> \in DOMAIN t
    /\ \A p \in DOMAIN t \ {<<>>} :
          /\ Parent(p) \in DOMAIN t
          /\ t[Parent(p)] = IF LastStep(p)[1] = "key" THEN "obj" ELSE "arr"
    /\ \A p \in DOMAIN t : t[p] = "arr" =>
          {LastStep(q)[2] : q \in Children(t, p)} = 0..(Cardinality(Children(t, p)) - 1)

IsBody(t) ==
    /\ t = [p \in DOMAIN t |-> t[p]]
    /\ IsFiniteSet(DOMAIN t) /\ DOMAIN t \subseteq Seq(Steps)
    /\ IsTree(t)

(* json_subset: keys and trailing elements the template does not name may be  *)
(* there, everything it names must be.                                        *)
Fits(template, t) == \A p \in DOMAIN template : p \in DOMAIN t /\ t[p] = template[p]
=============================================================================
