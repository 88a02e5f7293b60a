---------------------------- MODULE RuleLibrary ----------------------------
(* The rule library of crates/pane-storage: the rows of `rule`, with the      *)
(* scope rows of `rule_device` they own by a cascading foreign key, and the   *)
(* methods of Storage that write them.  A rule is live for a scope when it is *)
(* ticked and either on for all or has a row for that scope.                  *)
(*                                                                            *)
(* Storage holds one connection behind a mutex for the whole of a method, so  *)
(* methods do not interleave; but most are several statements, each its own   *)
(* commit.  Such a method may be cut short between two of them, by a kill or  *)
(* by a statement that fails.  `torn` remembers which rules, and which        *)
(* devices, a cut-short write was about, until a whole write puts them right. *)
(*                                                                            *)
(* The editor of the desktop app works on a copy of the rule it was opened    *)
(* on (`copy`) and sends the whole rule back, whatever happened in between.   *)
EXTENDS Naturals, FiniteSets

CONSTANTS
    Rules, Collections, Ungrouped, NoRule, NoCopy, Absent,
    Phones,      \* the devices traffic is stamped with: all but iOS ones
    Sentinels,   \* SCOPE_HOST and SCOPE_UNATTRIBUTED
    Edited,      \* bound: the rules the editor is opened on
    MaxTorn      \* bound: how many rules and devices may be torn at a time

Scopes == Phones \cup Sentinels
Row == [enabled : BOOLEAN, scope : {"all", "set"}, devices : SUBSET Scopes, coll : Collections \cup {Ungrouped}]

ASSUME RuleConstants ==
    /\ NoRule \notin Row
    /\ NoCopy \notin Rules
    /\ Ungrouped \notin Collections
    /\ Edited \subseteq Rules /\ MaxTorn \in Nat
    /\ Sentinels # {} /\ IsFiniteSet(Rules) /\ IsFiniteSet(Phones)
    /\ Sentinels \cap Phones = {} /\ Rules \cap Phones = {}

VARIABLES
    rule,     \* Rules -> a row, with its scope rows, or NoRule
    colls,    \* the collections that exist
    device,   \* Phones -> "absent", "paired" or "removed" (device.state)
    torn,     \* rules and devices whose last write was cut short
    copy      \* the editor: NoCopy, or the rule it holds a copy of

libVars == <<rule, colls, device, torn, copy>>

RuleTypeOK ==
    /\ rule \in [Rules -> Row \cup {NoRule}]
    /\ colls \subseteq Collections
    /\ device \in [Phones -> {"absent", "paired", "removed"}]
    /\ torn \subseteq Rules \cup Phones
    /\ copy = NoCopy \/ (copy.of \in Rules /\ copy.row \in Row)

Exists(r) == rule[r] # NoRule
Existing  == {r \in Rules : Exists(r)}
LiveOn(x, s) == x.enabled /\ (x.scope = "all" \/ s \in x.devices)

\* mutant: a removed device still counts
KnownScopesWithRemoved == {d \in Phones : device[d] # "absent"} \cup Sentinels

(* The scopes a request can arrive under at the moment. *)
KnownScopes == {d \in Phones : device[d] = "paired"} \cup Sentinels

----------------------------------------------------------------------------
(* One rule switched, with or without a scope: the row a whole call leaves.   *)

Everywhere(x, v) == [x EXCEPT !.enabled = v, !.scope = "all", !.devices = {}]

\* mutant: the last scope row goes and the tick stays
LastOneOutTicked(x, s) == [x EXCEPT !.devices = @ \ {s}]

LastOneOut(x, s) ==
    IF x.devices = {s} THEN Everywhere(x, FALSE) ELSE [x EXCEPT !.devices = @ \ {s}]

\* mutant: only the devices are spelt out, not the sentinels
SpeltOutDevices(x, s) == [x EXCEPT !.scope = "set", !.devices = (KnownScopes \ Sentinels) \ {s}]

SpeltOut(x, s) == [x EXCEPT !.scope = "set", !.devices = KnownScopes \ {s}]

ForDevice(x, s, v) ==
    CASE LiveOn(x, s) = v                                  -> x
      [] LiveOn(x, s) # v /\ v                             -> [x EXCEPT !.enabled = TRUE, !.scope = "set", !.devices = @ \cup {s}]
      [] LiveOn(x, s) # v /\ ~v /\ x.scope = "all"
           /\ KnownScopes # {s}                            -> SpeltOut(x, s)
      [] LiveOn(x, s) # v /\ ~v /\ x.scope = "all"
           /\ KnownScopes = {s}                            -> Everywhere(x, FALSE)
      [] OTHER                                             -> LastOneOut(x, s)

(* What the same calls may leave when they are cut between two statements.    *)
EverywhereTorn(x, v) == {[x EXCEPT !.enabled = v, !.scope = "all"]}

ForDeviceTorn(x, s, v) ==
    IF LiveOn(x, s) = v THEN {}
    ELSE IF v THEN {[x EXCEPT !.enabled = TRUE, !.scope = "set"]}
    ELSE IF x.scope = "all"
    THEN {[x EXCEPT !.devices = {}]} \cup {[x EXCEPT !.scope = "set", !.devices = D] : D \in SUBSET (KnownScopes \ {s})}
    ELSE {[x EXCEPT !.devices = @ \ {s}]}

(* upsert_rule: `scope` and `devices` may be Absent, which keeps what is      *)
(* there; on for nobody is off, and off keeps no rows.                        *)
Old(r, c) == IF Exists(r) THEN rule[r] ELSE [enabled |-> FALSE, scope |-> "all", devices |-> {}, coll |-> c]

Effective(old, devices) == IF devices = Absent THEN old.devices ELSE devices

\* mutant: an absent scope is a reset
WrittenReset(r, enabled, scope, devices, c) ==
    LET set == enabled /\ scope = "set" /\ Effective(Old(r, c), devices) # {}
    IN  [enabled |-> enabled /\ ~(scope = "set" /\ ~set), scope |-> IF set THEN "set" ELSE "all",
         devices |-> IF set THEN Effective(Old(r, c), devices) ELSE {}, coll |-> c]

Written(r, enabled, scope, devices, c) ==
    LET old == Old(r, c)
        sc  == IF scope = Absent THEN old.scope ELSE scope
        on  == enabled /\ ~(sc = "set" /\ Effective(old, devices) = {})
        set == on /\ sc = "set"
    IN  [enabled |-> on, scope |-> IF set THEN "set" ELSE "all",
         devices |-> IF set THEN Effective(old, devices) ELSE {}, coll |-> c]

WrittenTorn(r, new, c) == {[new EXCEPT !.devices = D] : D \in {Old(r, c).devices} \cup SUBSET new.devices}

----------------------------------------------------------------------------
(* Bulk scopes and the rules each one covers. *)
Covers(b) ==
    CASE b.kind = "all"        -> Existing
      [] b.kind = "ungrouped"  -> {r \in Existing : rule[r].coll = Ungrouped}
      [] b.kind = "collection" -> {r \in Existing : rule[r].coll = b.id}
      [] b.kind = "ids"        -> b.ids \cap Existing

Bulks == {[kind |-> "all"], [kind |-> "ungrouped"]}
         \cup {[kind |-> "collection", id |-> c] : c \in Collections}
         \cup {[kind |-> "ids", ids |-> I] : I \in SUBSET Rules}

\* mutant: only rules whose flag differs are rewritten
BulkByFlag(b, v) ==
    [r \in Rules |-> IF r \in Covers(b) /\ rule[r].enabled # v THEN Everywhere(rule[r], v) ELSE rule[r]]

(* The flag and the scope are rewritten where they differ, the rows of every  *)
(* rule the scope covers go.                                                  *)
BulkEverywhere(b, v) ==
    [r \in Rules |->
        IF r \notin Covers(b) THEN rule[r]
        ELSE LET x == IF rule[r].enabled # v \/ rule[r].scope # "all"
                      THEN [rule[r] EXCEPT !.enabled = v, !.scope = "all"] ELSE rule[r]
             IN  [x EXCEPT !.devices = {}]]

BulkForDevice(b, s, v) ==
    [r \in Rules |-> IF r \in Covers(b) THEN ForDevice(rule[r], s, v) ELSE rule[r]]

Whole(R) == torn' = torn \ R
CutShort(R) == torn' = torn \cup R /\ Cardinality(torn') <= MaxTorn
Others == UNCHANGED <<colls, device, copy>>

----------------------------------------------------------------------------
SetRuleEnabled(r, v) ==
    /\ Exists(r)
    /\ \/ rule' = [rule EXCEPT ![r] = Everywhere(@, v)] /\ Whole({r})
       \/ \E x \in EverywhereTorn(rule[r], v) : rule' = [rule EXCEPT ![r] = x] /\ CutShort({r})
    /\ Others

SetRuleEnabledFor(r, s, v) ==
    /\ Exists(r)
    /\ \/ rule' = [rule EXCEPT ![r] = ForDevice(@, s, v)] /\ UNCHANGED torn
       \/ \E x \in ForDeviceTorn(rule[r], s, v) : rule' = [rule EXCEPT ![r] = x] /\ CutShort({r})
    /\ Others

(* A list of ids is one transaction; the other scopes are two statements.     *)
SetRulesEnabledBulk(b, v) ==
    /\ \/ rule' = BulkEverywhere(b, v) /\ Whole(Covers(b))
       \/ /\ b.kind # "ids"
          /\ rule' = [r \in Rules |-> IF r \in Covers(b) THEN [rule[r] EXCEPT !.enabled = v, !.scope = "all"] ELSE rule[r]]
          /\ CutShort(Covers(b))
    /\ Others

SetRulesEnabledBulkFor(b, s, v) ==
    /\ rule' = BulkForDevice(b, s, v)
    /\ UNCHANGED torn
    /\ Others

(* The row is written, then its scope rows; a collection that is gone fails   *)
(* the foreign key before anything is written.                                *)
Upsert(r, enabled, scope, devices, c) ==
    LET new == Written(r, enabled, scope, devices, c)
    IN  /\ c \in colls \cup {Ungrouped}
        /\ \/ rule' = [rule EXCEPT ![r] = new] /\ Whole({r})
           \/ \E x \in WrittenTorn(r, new, c) : rule' = [rule EXCEPT ![r] = x] /\ CutShort({r})
        /\ UNCHANGED <<colls, device>>

CreateRule(r, enabled, scope, devices, c) ==
    /\ ~Exists(r)
    /\ scope = "all" => devices = {}
    /\ Upsert(r, enabled, scope, devices, c)
    /\ UNCHANGED copy

DeleteRule(r) ==
    /\ Exists(r)
    /\ \/ rule' = [rule EXCEPT ![r] = NoRule] /\ Whole({r})
       \/ rule' = [rule EXCEPT ![r].devices = {}] /\ CutShort({r})
    /\ Others

DeleteRulesBulk(b) ==
    /\ rule' = [r \in Rules |-> IF r \in Covers(b) THEN NoRule ELSE rule[r]]
    /\ Whole(Covers(b))
    /\ Others

----------------------------------------------------------------------------
UpsertCollection(c) ==
    /\ colls' = colls \cup {c}
    /\ UNCHANGED <<rule, device, torn, copy>>

(* One transaction: detach the rules, delete the row. *)
DeleteCollection(c) ==
    /\ c \in colls
    /\ colls' = colls \ {c}
    /\ rule' = [r \in Rules |-> IF Exists(r) /\ rule[r].coll = c THEN [rule[r] EXCEPT !.coll = Ungrouped] ELSE rule[r]]
    /\ UNCHANGED <<device, torn, copy>>

----------------------------------------------------------------------------
PairDevice(d) ==
    /\ device[d] # "paired"
    /\ device' = [device EXCEPT ![d] = "paired"]
    /\ UNCHANGED <<rule, colls, torn, copy>>

(* DeviceManager::remove marks the row, then drops the device's scope rows.   *)
WithoutDevice(d) ==
    [r \in Rules |-> IF Exists(r) THEN [rule[r] EXCEPT !.devices = @ \ {d}] ELSE NoRule]

RemoveDevice(d) ==
    /\ device[d] = "paired"
    /\ device' = [device EXCEPT ![d] = "removed"]
    /\ \/ rule' = WithoutDevice(d) /\ torn' = torn \ {d}
       \/ UNCHANGED rule /\ CutShort({d})
    /\ UNCHANGED <<colls, copy>>

----------------------------------------------------------------------------
(* The editor of the desktop app. *)
OpenEditor(r) ==
    /\ copy = NoCopy
    /\ r \in Edited /\ Exists(r)
    /\ copy' = [of |-> r, row |-> rule[r]]
    /\ UNCHANGED <<rule, colls, device, torn>>

(* Save after an edit of, say, the status code: the tick as it was read, the  *)
(* scope left to the store.                                                   *)
SaveEditor ==
    /\ copy # NoCopy
    /\ Upsert(copy.of, copy.row.enabled, Absent, Absent, copy.row.coll)
    /\ copy' = NoCopy

(* Move or rename: the whole row as it was read, in collection c.             *)
MoveRule(c) ==
    /\ copy # NoCopy
    /\ Upsert(copy.of, copy.row.enabled, copy.row.scope, copy.row.devices, c)
    /\ copy' = NoCopy

----------------------------------------------------------------------------
RuleInit ==
    /\ rule = [r \in Rules |-> NoRule]
    /\ colls = {}
    /\ device \in [Phones -> {"absent", "paired"}]
    /\ torn = {}
    /\ copy = NoCopy

RuleSwitch ==
    \/ \E r \in Rules, v \in BOOLEAN : SetRuleEnabled(r, v)
    \/ \E r \in Rules, s \in KnownScopes, v \in BOOLEAN : SetRuleEnabledFor(r, s, v)
    \/ \E b \in Bulks, v \in BOOLEAN : SetRulesEnabledBulk(b, v)
    \/ \E b \in Bulks, s \in KnownScopes, v \in BOOLEAN : SetRulesEnabledBulkFor(b, s, v)

RuleEdit ==
    \/ \E r \in Rules, v \in BOOLEAN, sc \in {"all", "set"}, D \in SUBSET KnownScopes, c \in Collections \cup {Ungrouped} :
          CreateRule(r, v, sc, D, c)
    \/ \E r \in Rules : DeleteRule(r) \/ OpenEditor(r)
    \/ \E b \in Bulks : DeleteRulesBulk(b)
    \/ \E c \in Collections : UpsertCollection(c) \/ DeleteCollection(c)
    \/ SaveEditor
    \/ \E c \in Collections \cup {Ungrouped} : MoveRule(c)

DeviceChange == \E d \in Phones : PairDevice(d) \/ RemoveDevice(d)

RuleNext == RuleSwitch \/ RuleEdit \/ DeviceChange

RuleSpec == RuleInit /\ [][RuleNext]_libVars

----------------------------------------------------------------------------
(* Properties. *)

LiveFor(r) == IF Exists(r) THEN {s \in Scopes : LiveOn(rule[r], s)} ELSE {}

(* A rule that is off, or on for all, owns no scope row, and off is always of *)
(* the one shape: the doc of upsert_rule, "off carries no memory".  Otherwise *)
(* the next switch for one phone would bring back the phones of an older one. *)
OffCarriesNoMemory ==
    \A r \in Existing \ torn :
        /\ rule[r].scope = "all" => rule[r].devices = {}
        /\ ~rule[r].enabled => rule[r].scope = "all"

(* A rule that is ticked but live for nobody.                                 *)
Dead(r) == Exists(r) /\ rule[r].enabled /\ rule[r].scope = "set" /\ rule[r].devices = {}

(* No switch, edit or bulk call leaves a rule ticked for nobody: it takes the *)
(* removal of the last device it named.                                       *)
OnlyRemovalDisarms ==
    [][\A r \in Rules : Dead(r)' /\ ~Dead(r) /\ r \notin torn' => \E d \in Phones : RemoveDevice(d)]_libVars

(* What a test of the store would have to say: no rule in the list is ticked  *)
(* and incapable of firing (comment of upsert_rule).                          *)
TickedCanFire == \A r \in Rules \ torn : ~Dead(r)

(* Scope rows that name nobody traffic can come from.                         *)
InUse == {d \in Phones : device[d] = "paired"} \cup Sentinels
Strangers(r) == IF Exists(r) THEN rule[r].devices \ InUse ELSE {}

(* A scope row for a device that is gone, or that is never stamped, appears   *)
(* only by a move or rename from a copy read before the device went.          *)
OnlyAStaleCopyNamesStrangers ==
    [][\A r \in Rules \ torn' :
          ~(Strangers(r)' \ torn' \subseteq Strangers(r)) => \E c \in Collections \cup {Ungrouped} : MoveRule(c)]_libVars

(* The set-wise SQL of the bulk switch does to every rule it covers what the  *)
(* switch of a single rule does.                                              *)
BulkIsTheSingleSwitch ==
    \A b \in Bulks, v \in BOOLEAN :
        BulkEverywhere(b, v) = [r \in Rules |-> IF r \in Covers(b) THEN Everywhere(rule[r], v) ELSE rule[r]]

(* Saving an edit that found the tick as it had read it keeps the targets:    *)
(* "editing a status code" must not unbind a rule from its device.            *)
EditKeepsTargets ==
    [][\A r \in Existing \ (torn \cup torn') :
          SaveEditor /\ copy.of = r /\ copy.row.enabled = rule[r].enabled => LiveFor(r)' = LiveFor(r)]_libVars

(* Nothing changes a rule's targets but what was meant to.                    *)
EditsAreMeant == EditKeepsTargets /\ OnlyRemovalDisarms /\ OnlyAStaleCopyNamesStrangers

(* The library implements its promise: see RuleTargets. *)
Targets == INSTANCE RuleTargets WITH
    live  <- [r \in Rules |-> LiveFor(r)],
    known <- KnownScopes,
    torn  <- torn \cap Rules

TargetsSpec == Targets!Spec

=============================================================================
