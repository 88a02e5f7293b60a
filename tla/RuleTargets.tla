---------------------------- MODULE RuleTargets ----------------------------
(* What the rule library promises about one question: for which scopes is a  *)
(* rule live?  A scope is a device, this Mac, or traffic nobody can be named *)
(* for.  A switch for one scope moves that scope and no other one that is in *)
(* use; a switch without a scope moves them all.  `known` is the set of      *)
(* scopes traffic can arrive under at the moment.  A rule in `torn` is one   *)
(* whose last write was cut short; nothing is promised about it until it is  *)
(* written whole again.                                                      *)

CONSTANTS Rules, Scopes

VARIABLES live, known, torn

Init ==
    /\ live = [r \in Rules |-> {}]
    /\ known \in SUBSET Scopes
    /\ torn = {}

(* A switch without a scope: on means on for everybody, off for nobody. *)
SwitchEverywhere(R, v) ==
    /\ live' = [r \in Rules |-> IF r \in R THEN (IF v THEN Scopes ELSE {}) ELSE live[r]]
    /\ torn' = torn \ R
    /\ UNCHANGED known

(* A switch for s.  Scopes nobody uses at present may be lost on the way. *)
SwitchFor(R, s, v) ==
    /\ \A r \in Rules \ torn :
          IF r \notin R
          THEN live'[r] = live[r]
          ELSE /\ (s \in live'[r]) = v
               /\ live'[r] \ {s} \subseteq live[r]
               /\ (live[r] \cap known) \ {s} \subseteq live'[r]
    /\ live' \in [Rules -> SUBSET Scopes]
    /\ UNCHANGED <<known, torn>>

(* An edit states the targets of one rule anew. *)
Edit(r) ==
    /\ \E S \in SUBSET Scopes : live' = [live EXCEPT ![r] = S]
    /\ torn' = torn \ {r}
    /\ UNCHANGED known

(* Rules are deleted: they serve nobody. *)
Delete(R) ==
    /\ live' = [r \in Rules |-> IF r \in R THEN {} ELSE live[r]]
    /\ torn' = torn \ R
    /\ UNCHANGED known

(* A device comes, and every rule keeps its targets. *)
Arrive(s) ==
    /\ known' = known \cup {s}
    /\ UNCHANGED <<live, torn>>

(* A device goes, and no rule's targets change but for it. *)
Leave(s) ==
    /\ known' = known \ {s}
    /\ live' \in [Rules -> SUBSET Scopes]
    /\ \A r \in Rules : live'[r] \ {s} = live[r] \ {s} /\ live'[r] \subseteq live[r]
    /\ UNCHANGED torn

(* A write to the rules R is cut short. *)
Interrupted(R) ==
    /\ torn' = torn \cup R
    /\ live' \in [Rules -> SUBSET Scopes]
    /\ \A r \in Rules \ R : live'[r] = live[r]
    /\ UNCHANGED known

Next ==
    \/ \E R \in SUBSET Rules, v \in BOOLEAN : SwitchEverywhere(R, v)
    \/ \E R \in SUBSET Rules, s \in Scopes, v \in BOOLEAN : SwitchFor(R, s, v)
    \/ \E r \in Rules : Edit(r)
    \/ \E R \in SUBSET Rules : Delete(R)
    \/ \E s \in Scopes : Arrive(s) \/ Leave(s)
    \/ \E R \in SUBSET Rules : Interrupted(R)

Spec == Init /\ [][Next]_<<live, known, torn>>
=============================================================================
