------------------------ MODULE RuleLibraryProofs --------------------------
(* For any rules, collections and devices: the rule library keeps the promise *)
(* of RuleTargets, the statements of a bulk switch amount to the switch of    *)
(* every rule it covers, and no call changes targets it was not about; and    *)
(* the commands of several calls do what they say, whatever the window does   *)
(* between two of them (CommandLine).                                         *)
EXTENDS RuleLibrary, CommandLine, FiniteSetTheorems, TLAPS

(* What the proofs need to know of a row. *)
Shaped(x) == (x.scope = "all" => x.devices = {}) /\ (~x.enabled => x.scope = "all")
LiveOf(x) == {s \in Scopes : LiveOn(x, s)}
DeadRow(x) == x.enabled /\ x.scope = "set" /\ x.devices = {}

LEMMA ScopesInUse ==
  ASSUME RuleTypeOK
  PROVE  KnownScopes \subseteq Scopes /\ KnownScopes # {} /\ InUse = KnownScopes
  BY RuleConstants DEF KnownScopes, InUse, Scopes

-----------------------------------------------------------------------------
(* One row. *)
LEMMA EverywhereIsExact ==
  ASSUME NEW x \in Row, NEW v \in BOOLEAN, NEW y, y = Everywhere(x, v)
  PROVE  /\ y \in Row /\ y.coll = x.coll /\ y.devices = {}
         /\ Shaped(y) /\ ~DeadRow(y)
         /\ LiveOf(y) = IF v THEN Scopes ELSE {}
<1>1. CASE v = TRUE
  <2>1. y = [enabled |-> TRUE, scope |-> "all", devices |-> {}, coll |-> x.coll]
    BY <1>1 DEF Everywhere, Row
  <2>. QED BY <1>1, <2>1 DEF Row, Shaped, DeadRow, LiveOf, LiveOn
<1>2. CASE v = FALSE
  <2>1. y = [enabled |-> FALSE, scope |-> "all", devices |-> {}, coll |-> x.coll]
    BY <1>2 DEF Everywhere, Row
  <2>. QED BY <1>2, <2>1 DEF Row, Shaped, DeadRow, LiveOf, LiveOn
<1>. QED BY <1>1, <1>2

LEMMA ForDeviceIsExact ==
  ASSUME RuleTypeOK, NEW x \in Row, NEW s \in KnownScopes, NEW v \in BOOLEAN, NEW y, y = ForDevice(x, s, v)
  PROVE  /\ y \in Row /\ y.coll = x.coll
         /\ DeadRow(y) => DeadRow(x)
         /\ y.devices \subseteq x.devices \cup KnownScopes
         /\ Shaped(x) => /\ Shaped(y)
                         /\ (s \in LiveOf(y)) = v
                         /\ LiveOf(y) \ {s} \subseteq LiveOf(x)
                         /\ (LiveOf(x) \cap KnownScopes) \ {s} \subseteq LiveOf(y)
<1>0. s \in Scopes /\ KnownScopes \subseteq Scopes
  BY ScopesInUse
<1>1. CASE LiveOn(x, s) = v
  <2>1. y = x
    BY <1>1 DEF ForDevice
  <2>. QED BY <1>0, <1>1, <2>1 DEF LiveOf
<1>2. CASE ~LiveOn(x, s) /\ v
  <2>1. y = [x EXCEPT !.enabled = TRUE, !.scope = "set", !.devices = @ \cup {s}]
    BY <1>2 DEF ForDevice
  <2>2. y = [enabled |-> TRUE, scope |-> "set", devices |-> x.devices \cup {s}, coll |-> x.coll]
    BY <2>1 DEF Row
  <2>3. y \in Row /\ y.coll = x.coll /\ ~DeadRow(y) /\ y.devices = x.devices \cup {s}
    BY <1>0, <2>2 DEF Row, DeadRow
  <2>4. Shaped(y) /\ LiveOf(y) = y.devices
    BY <2>2, <2>3 DEF Row, Shaped, LiveOf, LiveOn
  <2>5. Shaped(x) => x.devices \subseteq LiveOf(x)
    BY DEF Row, Shaped, LiveOf, LiveOn
  <2>6. LiveOf(x) \ {s} \subseteq x.devices
    BY <1>0, <1>2 DEF Row, LiveOf, LiveOn
  <2>. QED BY <1>0, <1>2, <2>3, <2>4, <2>5, <2>6
<1>3. CASE LiveOn(x, s) /\ ~v /\ x.scope = "all" /\ KnownScopes # {s}
  <2>1. y = SpeltOut(x, s)
    BY <1>3 DEF ForDevice
  <2>2. y = [enabled |-> TRUE, scope |-> "set", devices |-> KnownScopes \ {s}, coll |-> x.coll]
    BY <1>3, <2>1 DEF SpeltOut, Row, LiveOn
  <2>. QED BY <1>0, <1>3, <2>2 DEF Row, Shaped, DeadRow, LiveOf, LiveOn
<1>4. CASE LiveOn(x, s) /\ ~v /\ x.scope = "all" /\ KnownScopes = {s}
  <2>1. y = Everywhere(x, FALSE)
    BY <1>4 DEF ForDevice
  <2>2. y \in Row /\ y.coll = x.coll /\ y.devices = {} /\ Shaped(y) /\ ~DeadRow(y) /\ LiveOf(y) = {}
    BY <2>1, EverywhereIsExact
  <2>. QED BY <1>0, <1>4, <2>2
<1>5. CASE LiveOn(x, s) /\ ~v /\ x.scope # "all"
  <2>1. y = LastOneOut(x, s)
    BY <1>5 DEF ForDevice
  <2>2. CASE x.devices = {s}
    <3>1. y = Everywhere(x, FALSE)
      BY <2>1, <2>2 DEF LastOneOut
    <3>2. y \in Row /\ y.coll = x.coll /\ y.devices = {} /\ Shaped(y) /\ ~DeadRow(y) /\ LiveOf(y) = {}
      BY <3>1, EverywhereIsExact
    <3>3. LiveOf(x) \subseteq {s}
      BY <1>5, <2>2 DEF LiveOf, LiveOn, Row
    <3>. QED BY <1>0, <1>5, <3>2, <3>3
  <2>3. CASE x.devices # {s}
    <3>1. y = [enabled |-> TRUE, scope |-> "set", devices |-> x.devices \ {s}, coll |-> x.coll]
      BY <1>5, <2>1, <2>3 DEF LastOneOut, Row, LiveOn
    <3>. QED BY <1>0, <1>5, <2>3, <3>1 DEF Row, Shaped, DeadRow, LiveOf, LiveOn
  <2>. QED BY <2>2, <2>3
<1>6. CASE v = TRUE
  BY <1>1, <1>2, <1>6
<1>7. CASE v = FALSE
  <2>1. CASE LiveOn(x, s)
    BY <1>3, <1>4, <1>5, <1>7, <2>1
  <2>2. CASE ~LiveOn(x, s)
    <3>1. LiveOn(x, s) = FALSE
      BY <2>2 DEF LiveOn
    <3>. QED BY <1>1, <1>7, <3>1
  <2>. QED BY <2>1, <2>2
<1>. QED BY <1>6, <1>7

(* What a switch for one scope leaves when it is cut short is still a row.    *)
LEMMA ForDeviceTornIsARow ==
  ASSUME RuleTypeOK, NEW x \in Row, NEW s \in KnownScopes, NEW v \in BOOLEAN, NEW y \in ForDeviceTorn(x, s, v)
  PROVE  y \in Row
<1>0. KnownScopes \subseteq Scopes
  BY ScopesInUse
<1>1. \/ y = [x EXCEPT !.enabled = TRUE, !.scope = "set"]
      \/ y = [x EXCEPT !.devices = {}]
      \/ \E D \in SUBSET (KnownScopes \ {s}) : y = [x EXCEPT !.scope = "set", !.devices = D]
      \/ y = [x EXCEPT !.devices = @ \ {s}]
  BY DEF ForDeviceTorn
<1>. QED BY <1>0, <1>1 DEF Row

(* A written row: on for nobody is off, off and on for all own no scope rows, *)
(* and what is absent is kept.                                                *)
LEMMA WrittenIsExact ==
  ASSUME RuleTypeOK, NEW r \in Rules, NEW e \in BOOLEAN, NEW sc \in {"all", "set", Absent},
         NEW D, D = Absent \/ D \in SUBSET Scopes, NEW c \in Collections \cup {Ungrouped},
         NEW y, y = Written(r, e, sc, D, c)
  PROVE  /\ y \in Row /\ Shaped(y) /\ ~DeadRow(y)
         /\ y.devices \subseteq Effective(Old(r, c), D)
         /\ sc = Absent /\ D = Absent /\ Exists(r) /\ e = rule[r].enabled => LiveOf(y) = LiveOf(rule[r])
<1> DEFINE old == Old(r, c)
<1> DEFINE t == IF sc = Absent THEN old.scope ELSE sc
<1> DEFINE F == Effective(old, D)
<1>1. old \in Row /\ (Exists(r) => old = rule[r])
  BY DEF RuleTypeOK, Exists, Old, Row
<1>2. F \in SUBSET Scopes /\ t \in {"all", "set", Absent} /\ (D = Absent => F = old.devices)
  BY <1>1 DEF Effective, Row
<1>3. CASE e = TRUE /\ t = "set" /\ F # {}
  <2>1. y = [enabled |-> TRUE, scope |-> "set", devices |-> F, coll |-> c]
    BY <1>3 DEF Written
  <2>2. y \in Row /\ Shaped(y) /\ ~DeadRow(y) /\ y.devices = F /\ LiveOf(y) = F
    BY <1>2, <1>3, <2>1 DEF Row, Shaped, DeadRow, LiveOf, LiveOn
  <2>3. ASSUME sc = Absent, D = Absent, Exists(r), e = rule[r].enabled
        PROVE  LiveOf(rule[r]) = F
    BY <1>1, <1>2, <1>3, <2>3 DEF Row, LiveOf, LiveOn
  <2>. QED BY <2>2, <2>3
<1>4. CASE e = TRUE /\ t # "set"
  <2>1. y = [enabled |-> TRUE, scope |-> "all", devices |-> {}, coll |-> c]
    BY <1>4 DEF Written
  <2>2. y \in Row /\ Shaped(y) /\ ~DeadRow(y) /\ y.devices = {} /\ LiveOf(y) = Scopes
    BY <1>2, <1>4, <2>1 DEF Row, Shaped, DeadRow, LiveOf, LiveOn
  <2>3. ASSUME sc = Absent, D = Absent, Exists(r), e = rule[r].enabled
        PROVE  LiveOf(rule[r]) = Scopes
    BY <1>1, <1>2, <1>4, <2>3 DEF Row, LiveOf, LiveOn
  <2>. QED BY <2>2, <2>3
<1>5. CASE e = FALSE \/ (t = "set" /\ F = {})
  <2>1. y = [enabled |-> FALSE, scope |-> "all", devices |-> {}, coll |-> c]
    BY <1>5 DEF Written
  <2>2. y \in Row /\ Shaped(y) /\ ~DeadRow(y) /\ y.devices = {} /\ LiveOf(y) = {}
    BY <1>2, <2>1 DEF Row, Shaped, DeadRow, LiveOf, LiveOn
  <2>3. ASSUME sc = Absent, D = Absent, Exists(r), e = rule[r].enabled
        PROVE  LiveOf(rule[r]) = {}
    BY <1>1, <1>2, <1>5, <2>3 DEF Row, LiveOf, LiveOn
  <2>. QED BY <2>2, <2>3
<1>. QED BY <1>3, <1>4, <1>5

LEMMA WrittenTornIsARow ==
  ASSUME RuleTypeOK, NEW r \in Rules, NEW y \in Row, NEW c \in Collections \cup {Ungrouped},
         NEW z \in WrittenTorn(r, y, c)
  PROVE  z \in Row
<1>1. Old(r, c).devices \in SUBSET Scopes
  BY DEF RuleTypeOK, Exists, Old, Row
<1>2. PICK D \in SUBSET Scopes : z = [y EXCEPT !.devices = D]
  BY <1>1 DEF WrittenTorn, Row
<1>. QED BY <1>2 DEF Row

-----------------------------------------------------------------------------
(* A step of the library, seen from the rows it writes. *)
RuleInv == RuleTypeOK /\ OffCarriesNoMemory

CopyTypeOK == copy = NoCopy \/ (copy.of \in Rules /\ copy.row \in Row)

KeepsArmed      == \A r \in Rules \ torn' : Dead(r)' => Dead(r)
NamesNoStranger == \A r \in Rules \ torn' : Strangers(r)' \ torn' \subseteq Strangers(r)
Harmless        == KeepsArmed /\ NamesNoStranger

TargetsStep == [Targets!Next]_<<[r \in Rules |-> LiveFor(r)], KnownScopes, torn \cap Rules>>

StepSound == RuleInv' /\ Harmless /\ TargetsStep

LEMMA LiveForIs ==
  ASSUME NEW r \in Rules
  PROVE  /\ LiveFor(r) = IF rule[r] = NoRule THEN {} ELSE LiveOf(rule[r])
         /\ LiveFor(r)' = IF rule'[r] = NoRule THEN {} ELSE LiveOf(rule'[r])
         /\ LiveFor(r) \in SUBSET Scopes /\ LiveFor(r)' \in SUBSET Scopes
  BY DEF LiveFor, LiveOf, Exists

(* A write to the rules of R that is cut short. *)
LEMMA CutShortStep ==
  ASSUME RuleInv, NEW R \in SUBSET Rules, NEW f \in [Rules -> Row \cup {NoRule}], rule' = f,
         \A r \in Rules \ R : f[r] = rule[r], torn' = torn \cup R,
         UNCHANGED <<colls, device>>, CopyTypeOK'
  PROVE  StepSound
<1>1. RuleTypeOK'
  BY DEF RuleInv, RuleTypeOK, CopyTypeOK
<1>2. OffCarriesNoMemory'
  BY DEF RuleInv, OffCarriesNoMemory, Existing, Exists
<1>3. Harmless
  BY DEF Harmless, KeepsArmed, NamesNoStranger, Dead, Strangers, Exists, InUse
<1>4. TargetsStep
  <2>1. Targets!Interrupted(R)
    <3>1. KnownScopes' = KnownScopes
      BY DEF KnownScopes
    <3>2. (torn \cap Rules)' = (torn \cap Rules) \cup R
      OBVIOUS
    <3>3. [r \in Rules |-> LiveFor(r)]' \in [Rules -> SUBSET Scopes]
      BY LiveForIs
    <3>4. \A r \in Rules \ R : LiveFor(r)' = LiveFor(r)
      BY LiveForIs
    <3>. QED BY <3>1, <3>2, <3>3, <3>4 DEF Targets!Interrupted
  <2>. QED BY <2>1 DEF TargetsStep, Targets!Next
<1>. QED BY <1>1, <1>2, <1>3, <1>4 DEF StepSound, RuleInv

(* The rows a whole write may leave. *)
Sound(x) == x = NoRule \/ (Shaped(x) /\ ~DeadRow(x))

(* The rules of R are written whole. *)
LEMMA WholeStep ==
  ASSUME RuleInv, NEW R \in SUBSET Rules, NEW f \in [Rules -> Row \cup {NoRule}], rule' = f,
         \A r \in Rules \ R : f[r] = rule[r], \A r \in R : Sound(f[r]),
         torn' = torn \ R, UNCHANGED <<colls, device>>, CopyTypeOK'
  PROVE  /\ RuleInv' /\ KeepsArmed
         /\ (\A r \in R : f[r] # NoRule =>
                f[r].devices \subseteq KnownScopes \cup (IF Exists(r) THEN rule[r].devices ELSE {}))
              => NamesNoStranger
<1>1. RuleTypeOK'
  BY DEF RuleInv, RuleTypeOK, CopyTypeOK
<1>2. OffCarriesNoMemory'
  <2> SUFFICES ASSUME NEW r \in Rules, r \notin torn', f[r] # NoRule PROVE Shaped(f[r])
    BY DEF OffCarriesNoMemory, Existing, Exists, Shaped
  <2>1. CASE r \in R
    BY <2>1 DEF Sound
  <2>2. CASE r \notin R
    BY <2>2 DEF RuleInv, OffCarriesNoMemory, Existing, Exists, Shaped
  <2>. QED BY <2>1, <2>2
<1>3. KeepsArmed
  <2> SUFFICES ASSUME NEW r \in Rules, Dead(r)' PROVE Dead(r)
    BY DEF KeepsArmed
  <2>1. f[r] # NoRule /\ DeadRow(f[r])
    BY DEF Dead, Exists, DeadRow
  <2>2. f[r] = rule[r]
    BY <2>1 DEF Sound
  <2>. QED BY <2>1, <2>2 DEF Dead, Exists, DeadRow
<1>4. ASSUME NEW r \in Rules,
             r \in R /\ f[r] # NoRule =>
               f[r].devices \subseteq KnownScopes \cup (IF Exists(r) THEN rule[r].devices ELSE {})
      PROVE  Strangers(r)' \subseteq Strangers(r)
  <2>1. InUse' = InUse /\ InUse = KnownScopes
    BY DEF InUse, KnownScopes
  <2>. QED BY <1>4, <2>1 DEF Strangers, Exists
<1>. QED BY <1>1, <1>2, <1>3, <1>4 DEF RuleInv, NamesNoStranger

(* The rules of R are switched for one scope. *)
LEMMA SwitchForStep ==
  ASSUME RuleInv, NEW R \in SUBSET Existing, NEW s \in KnownScopes, NEW v \in BOOLEAN,
         rule' = [r \in Rules |-> IF r \in R THEN ForDevice(rule[r], s, v) ELSE rule[r]],
         UNCHANGED <<torn, colls, device, copy>>
  PROVE  StepSound
<1>1. R \subseteq Rules /\ \A r \in R : rule[r] # NoRule /\ rule[r] \in Row
  BY DEF Existing, Exists, RuleInv, RuleTypeOK
<1>2. \A r \in Rules \ R : rule'[r] = rule[r]
  OBVIOUS
<1>3. ASSUME NEW r \in R
      PROVE  /\ rule'[r] \in Row /\ rule'[r] # NoRule
             /\ DeadRow(rule'[r]) => DeadRow(rule[r])
             /\ rule'[r].devices \subseteq rule[r].devices \cup KnownScopes
             /\ Shaped(rule[r]) => /\ Shaped(rule'[r])
                                   /\ (s \in LiveOf(rule'[r])) = v
                                   /\ LiveOf(rule'[r]) \ {s} \subseteq LiveOf(rule[r])
                                   /\ (LiveOf(rule[r]) \cap KnownScopes) \ {s} \subseteq LiveOf(rule'[r])
  <2>1. PICK x \in Row : x = rule[r]
    BY <1>1
  <2>2. PICK y : y = ForDevice(x, s, v)
    OBVIOUS
  <2>3. rule'[r] = y
    BY <1>1, <2>1, <2>2
  <2>4. RuleTypeOK
    BY DEF RuleInv
  <2>. HIDE DEF Existing
  <2>. QED BY <2>1, <2>2, <2>3, <2>4, ForDeviceIsExact, RuleConstants
<1>4. RuleTypeOK'
  <2>1. \A r \in Rules : rule'[r] \in Row \cup {NoRule}
    BY <1>2, <1>3 DEF RuleInv, RuleTypeOK
  <2>2. rule' = [r \in Rules |-> rule'[r]]
    OBVIOUS
  <2>3. rule' \in [Rules -> Row \cup {NoRule}]
    BY <2>1, <2>2
  <2>. QED BY <2>3 DEF RuleInv, RuleTypeOK
<1>5. \A r \in Existing \ torn : Shaped(rule[r])
  BY DEF RuleInv, OffCarriesNoMemory, Shaped
<1>6. OffCarriesNoMemory'
  BY <1>1, <1>2, <1>3, <1>5 DEF OffCarriesNoMemory, Existing, Exists, Shaped
<1>7. Harmless
  <2>1. InUse' = InUse /\ InUse = KnownScopes
    BY DEF InUse, KnownScopes
  <2>2. KeepsArmed
    BY <1>1, <1>2, <1>3 DEF KeepsArmed, Dead, DeadRow, Exists
  <2>3. NamesNoStranger
    BY <1>1, <1>2, <1>3, <2>1 DEF NamesNoStranger, Strangers, Exists
  <2>. QED BY <2>2, <2>3 DEF Harmless
<1>8. TargetsStep
  <2>0. s \in Scopes
    BY ScopesInUse DEF RuleInv
  <2>1. Targets!SwitchFor(R, s, v)
    <3>1. UNCHANGED <<KnownScopes, torn \cap Rules>>
      BY DEF KnownScopes
    <3>2. [r \in Rules |-> LiveFor(r)]' \in [Rules -> SUBSET Scopes]
      BY LiveForIs
    <3>3. \A r \in Rules \ R : LiveFor(r)' = LiveFor(r)
      BY <1>2, LiveForIs
    <3>4. ASSUME NEW r \in R, r \notin torn
          PROVE  /\ (s \in LiveFor(r)') = v
                 /\ LiveFor(r)' \ {s} \subseteq LiveFor(r)
                 /\ (LiveFor(r) \cap KnownScopes) \ {s} \subseteq LiveFor(r)'
      <4>1. LiveFor(r) = LiveOf(rule[r]) /\ LiveFor(r)' = LiveOf(rule'[r])
        BY <1>1, <1>3, LiveForIs
      <4>. QED BY <1>3, <1>5, <3>4, <4>1
    <3>. QED BY <1>1, <3>1, <3>2, <3>3, <3>4 DEF Targets!SwitchFor
  <2>. QED BY <1>1, <2>0, <2>1 DEF TargetsStep, Targets!Next
<1>. QED BY <1>4, <1>6, <1>7, <1>8 DEF StepSound, RuleInv

(* The rules of R are switched for everybody. *)
LEMMA EverywhereStep ==
  ASSUME RuleInv, NEW R \in SUBSET Existing, NEW v \in BOOLEAN,
         rule' = [r \in Rules |-> IF r \in R THEN Everywhere(rule[r], v) ELSE rule[r]],
         torn' = torn \ R, UNCHANGED <<colls, device, copy>>
  PROVE  StepSound
<1>1. R \subseteq Rules /\ \A r \in R : rule[r] # NoRule /\ rule[r] \in Row
  BY DEF Existing, Exists, RuleInv, RuleTypeOK
<1>2. ASSUME NEW r \in R
      PROVE  /\ rule'[r] \in Row /\ rule'[r] # NoRule /\ rule'[r].devices = {} /\ Sound(rule'[r])
             /\ LiveOf(rule'[r]) = IF v THEN Scopes ELSE {}
  <2>1. PICK x \in Row : x = rule[r]
    BY <1>1
  <2>2. PICK y : y = Everywhere(x, v)
    OBVIOUS
  <2>3. rule'[r] = y
    BY <1>1, <2>1, <2>2
  <2>4. /\ y \in Row /\ y.devices = {} /\ Shaped(y) /\ ~DeadRow(y)
        /\ LiveOf(y) = IF v THEN Scopes ELSE {}
    BY <2>2, EverywhereIsExact
  <2>5. y # NoRule
    BY <2>4, RuleConstants
  <2>. QED BY <2>3, <2>4, <2>5 DEF Sound
<1>3. PICK f \in [Rules -> Row \cup {NoRule}] : rule' = f
  <2>1. \A r \in Rules : rule'[r] \in Row \cup {NoRule}
    BY <1>2 DEF RuleInv, RuleTypeOK
  <2>2. rule' = [r \in Rules |-> rule'[r]]
    OBVIOUS
  <2>. QED BY <2>1, <2>2
<1>4. \A r \in Rules \ R : f[r] = rule[r]
  BY <1>3
<1>5. RuleInv' /\ Harmless
  <2>1. CopyTypeOK'
    <3>1. CopyTypeOK /\ UNCHANGED copy
      BY DEF RuleInv, RuleTypeOK, CopyTypeOK
    <3>. QED BY <3>1, Zenon DEF CopyTypeOK
  <2>2. RuleInv' /\ KeepsArmed /\ NamesNoStranger
    BY <1>1, <1>2, <1>3, <1>4, <2>1, WholeStep
  <2>. QED BY <2>2 DEF Harmless
<1>6. TargetsStep
  <2>1. Targets!SwitchEverywhere(R, v)
    <3>1. UNCHANGED KnownScopes /\ (torn \cap Rules)' = (torn \cap Rules) \ R
      BY DEF KnownScopes
    <3>2. \A r \in Rules : LiveFor(r)' = IF r \in R THEN (IF v THEN Scopes ELSE {}) ELSE LiveFor(r)
      BY <1>1, <1>2, <1>3, <1>4, LiveForIs
    <3>. QED BY <3>1, <3>2 DEF Targets!SwitchEverywhere
  <2>. QED BY <1>1, <2>1 DEF TargetsStep, Targets!Next
<1>. QED BY <1>5, <1>6 DEF StepSound

(* The rules of R are deleted. *)
LEMMA DeleteStep ==
  ASSUME RuleInv, NEW R \in SUBSET Rules,
         rule' = [r \in Rules |-> IF r \in R THEN NoRule ELSE rule[r]],
         torn' = torn \ R, UNCHANGED <<colls, device, copy>>
  PROVE  StepSound
<1>1. PICK f \in [Rules -> Row \cup {NoRule}] : rule' = f
  BY DEF RuleInv, RuleTypeOK
<1>2. (\A r \in Rules \ R : f[r] = rule[r]) /\ \A r \in R : f[r] = NoRule
  BY <1>1
<1>3. RuleInv' /\ Harmless
  <2>1. CopyTypeOK'
    <3>1. CopyTypeOK /\ UNCHANGED copy
      BY DEF RuleInv, RuleTypeOK, CopyTypeOK
    <3>. QED BY <3>1, Zenon DEF CopyTypeOK
  <2>. QED BY <1>1, <1>2, <2>1, WholeStep DEF Harmless, Sound
<1>4. TargetsStep
  <2>1. Targets!Delete(R)
    <3>1. UNCHANGED KnownScopes /\ (torn \cap Rules)' = (torn \cap Rules) \ R
      BY DEF KnownScopes
    <3>2. \A r \in Rules : LiveFor(r)' = IF r \in R THEN {} ELSE LiveFor(r)
      BY <1>1, <1>2, LiveForIs
    <3>. QED BY <3>1, <3>2 DEF Targets!Delete
  <2>. QED BY <2>1 DEF TargetsStep, Targets!Next
<1>. QED BY <1>3, <1>4 DEF StepSound

(* A row is written, by the editor or the command line. *)
LEMMA UpsertStep ==
  ASSUME RuleInv, NEW r \in Rules, NEW e \in BOOLEAN, NEW sc \in {"all", "set", Absent},
         NEW D, D = Absent \/ D \in SUBSET Scopes, NEW c \in Collections \cup {Ungrouped},
         Upsert(r, e, sc, D, c), CopyTypeOK'
  PROVE  /\ RuleInv' /\ KeepsArmed /\ TargetsStep
         /\ Effective(Old(r, c), D) \subseteq KnownScopes \cup (IF Exists(r) THEN rule[r].devices ELSE {})
              => NamesNoStranger
         /\ r \notin torn' /\ sc = Absent /\ D = Absent /\ Exists(r) /\ e = rule[r].enabled
              => LiveFor(r)' = LiveFor(r)
<1>0. RuleTypeOK /\ UNCHANGED <<colls, device>>
  BY DEF RuleInv, Upsert
<1>1. PICK y : y = Written(r, e, sc, D, c)
  OBVIOUS
<1>2. /\ y \in Row /\ Shaped(y) /\ ~DeadRow(y) /\ y.devices \subseteq Effective(Old(r, c), D)
      /\ sc = Absent /\ D = Absent /\ Exists(r) /\ e = rule[r].enabled => LiveOf(y) = LiveOf(rule[r])
  BY <1>0, <1>1, WrittenIsExact
<1>3. CASE rule' = [rule EXCEPT ![r] = y] /\ torn' = torn \ {r}
  <2>1. PICK f \in [Rules -> Row \cup {NoRule}] : rule' = f
    BY <1>0, <1>2, <1>3 DEF RuleTypeOK
  <2>2. f[r] = y /\ y # NoRule /\ \A q \in Rules \ {r} : f[q] = rule[q]
    BY <1>0, <1>2, <1>3, <2>1, RuleConstants DEF RuleTypeOK
  <2>3. /\ RuleInv' /\ KeepsArmed
        /\ Effective(Old(r, c), D) \subseteq KnownScopes \cup (IF Exists(r) THEN rule[r].devices ELSE {})
             => NamesNoStranger
    <3>1. {r} \in SUBSET Rules /\ \A q \in Rules \ {r} : f[q] = rule[q]
      BY <2>2
    <3>2. \A q \in {r} : Sound(f[q])
      BY <1>2, <2>2 DEF Sound
    <3>3. /\ RuleInv' /\ KeepsArmed
          /\ (\A q \in {r} : f[q] # NoRule =>
                f[q].devices \subseteq KnownScopes \cup (IF Exists(q) THEN rule[q].devices ELSE {}))
               => NamesNoStranger
      BY <1>0, <1>3, <2>1, <3>1, <3>2, WholeStep
    <3>. QED BY <1>2, <2>2, <3>3
  <2>4. \A q \in Rules : LiveFor(q)' = IF q = r THEN LiveOf(y) ELSE LiveFor(q)
    BY <2>1, <2>2, LiveForIs
  <2>5. Targets!Edit(r)
    <3>1. UNCHANGED KnownScopes /\ (torn \cap Rules)' = (torn \cap Rules) \ {r}
      BY <1>0, <1>3 DEF KnownScopes
    <3>2. [q \in Rules |-> LiveFor(q)]' = [[q \in Rules |-> LiveFor(q)] EXCEPT ![r] = LiveOf(y)]
      BY <2>4
    <3>3. LiveOf(y) \in SUBSET Scopes
      BY DEF LiveOf
    <3>. QED BY <3>1, <3>2, <3>3 DEF Targets!Edit
  <2>6. TargetsStep
    BY <2>5 DEF TargetsStep, Targets!Next
  <2>. QED BY <1>2, <2>3, <2>4, <2>6, LiveForIs DEF Exists
<1>4. CASE \E z \in WrittenTorn(r, y, c) : rule' = [rule EXCEPT ![r] = z] /\ CutShort({r})
  <2>1. PICK z \in Row : rule' = [rule EXCEPT ![r] = z] /\ torn' = torn \cup {r}
    BY <1>0, <1>2, <1>4, WrittenTornIsARow DEF CutShort
  <2>2. PICK f \in [Rules -> Row \cup {NoRule}] : rule' = f
    BY <1>0, <2>1 DEF RuleTypeOK
  <2>3. \A q \in Rules \ {r} : f[q] = rule[q]
    BY <1>0, <2>1, <2>2 DEF RuleTypeOK
  <2>4. StepSound
    BY <1>0, <2>1, <2>2, <2>3, CutShortStep
  <2>. QED BY <2>1, <2>4 DEF StepSound, Harmless
<1>. QED BY <1>1, <1>3, <1>4 DEF Upsert, Whole

-----------------------------------------------------------------------------
(* The set-wise statements of the bulk switch amount to the switch of every   *)
(* rule they cover.                                                           *)
LEMMA BulkIsExact == RuleTypeOK => BulkIsTheSingleSwitch
<1> SUFFICES ASSUME RuleTypeOK, NEW b \in Bulks, NEW v \in BOOLEAN
             PROVE  BulkEverywhere(b, v) = [r \in Rules |-> IF r \in Covers(b) THEN Everywhere(rule[r], v) ELSE rule[r]]
  BY DEF BulkIsTheSingleSwitch
<1> DEFINE Twice(x) == IF x.enabled # v \/ x.scope # "all" THEN [x EXCEPT !.enabled = v, !.scope = "all"] ELSE x
<1>1. Covers(b) \subseteq Existing
  BY DEF Covers, Bulks
<1>2. ASSUME NEW r \in Covers(b)
      PROVE  [Twice(rule[r]) EXCEPT !.devices = {}] = Everywhere(rule[r], v)
  <2>1. PICK x \in Row : x = rule[r]
    BY <1>1, <1>2 DEF Existing, Exists, RuleTypeOK
  <2>2. PICK w : w = Twice(x)
    OBVIOUS
  <2>3. PICK z : z = [w EXCEPT !.devices = {}]
    OBVIOUS
  <2>4. PICK y : y = Everywhere(x, v)
    OBVIOUS
  <2>5. w \in Row /\ w.enabled = v /\ w.scope = "all" /\ w.coll = x.coll
    <3>1. CASE x.enabled # v \/ x.scope # "all"
      <4>1. w = [x EXCEPT !.enabled = v, !.scope = "all"]
        BY <2>2, <3>1
      <4>. QED BY <4>1 DEF Row
    <3>2. CASE ~(x.enabled # v \/ x.scope # "all")
      BY <2>2, <3>2
    <3>. QED BY <3>1, <3>2
  <2>6. z \in Row /\ z.enabled = v /\ z.scope = "all" /\ z.devices = {} /\ z.coll = x.coll
    BY <2>3, <2>5 DEF Row
  <2>7. y \in Row /\ y.enabled = v /\ y.scope = "all" /\ y.devices = {} /\ y.coll = x.coll
    BY <2>4 DEF Everywhere, Row
  <2>8. z = y
    BY <2>6, <2>7 DEF Row
  <2>. QED BY <2>1, <2>2, <2>3, <2>4, <2>8
<1>. QED BY <1>2 DEF BulkEverywhere

LEMMA SwitchIsSound ==
  ASSUME RuleInv, RuleSwitch
  PROVE  StepSound
<1>0. RuleTypeOK /\ Existing \subseteq Rules /\ CopyTypeOK
  BY DEF RuleInv, RuleTypeOK, CopyTypeOK, Existing
<1>1. ASSUME NEW r \in Rules, NEW v \in BOOLEAN, SetRuleEnabled(r, v) PROVE StepSound
  <2>1. rule[r] \in Row /\ {r} \in SUBSET Existing /\ {r} \in SUBSET Rules /\ UNCHANGED <<colls, device, copy>>
    BY <1>0, <1>1 DEF SetRuleEnabled, Others, Existing, Exists, RuleTypeOK
  <2>2. CASE rule' = [rule EXCEPT ![r] = Everywhere(@, v)] /\ Whole({r})
    <3>1. rule' = [q \in Rules |-> IF q \in {r} THEN Everywhere(rule[q], v) ELSE rule[q]]
      BY <1>0, <2>2 DEF RuleTypeOK
    <3>. QED BY <2>1, <2>2, <3>1, EverywhereStep DEF Whole
  <2>3. CASE \E x \in EverywhereTorn(rule[r], v) : rule' = [rule EXCEPT ![r] = x] /\ CutShort({r})
    <3>1. PICK x : x = [rule[r] EXCEPT !.enabled = v, !.scope = "all"] /\ rule' = [rule EXCEPT ![r] = x] /\ CutShort({r})
      BY <2>3 DEF EverywhereTorn
    <3>2. x \in Row
      BY <2>1, <3>1 DEF Row
    <3>3. PICK f \in [Rules -> Row \cup {NoRule}] : rule' = f
      BY <1>0, <3>1, <3>2 DEF RuleTypeOK
    <3>4. \A q \in Rules \ {r} : f[q] = rule[q]
      BY <1>0, <3>1, <3>3 DEF RuleTypeOK
    <3>5. CopyTypeOK'
      BY <1>0, <2>1 DEF CopyTypeOK
    <3>. QED BY <2>1, <3>1, <3>3, <3>4, <3>5, CutShortStep DEF CutShort
  <2>. QED BY <1>1, <2>2, <2>3 DEF SetRuleEnabled
<1>2. ASSUME NEW r \in Rules, NEW s \in KnownScopes, NEW v \in BOOLEAN, SetRuleEnabledFor(r, s, v) PROVE StepSound
  <2>1. rule[r] \in Row /\ {r} \in SUBSET Existing /\ {r} \in SUBSET Rules /\ UNCHANGED <<colls, device, copy>>
    BY <1>0, <1>2 DEF SetRuleEnabledFor, Others, Existing, Exists, RuleTypeOK
  <2>2. CASE rule' = [rule EXCEPT ![r] = ForDevice(@, s, v)] /\ UNCHANGED torn
    <3>1. rule' = [q \in Rules |-> IF q \in {r} THEN ForDevice(rule[q], s, v) ELSE rule[q]]
      BY <1>0, <2>2 DEF RuleTypeOK
    <3>2. UNCHANGED <<torn, colls, device, copy>>
      BY <2>1, <2>2
    <3>3. PICK R \in SUBSET Existing : R = {r}
      BY <2>1
    <3>. QED BY <3>1, <3>2, <3>3, SwitchForStep
  <2>3. CASE \E x \in ForDeviceTorn(rule[r], s, v) : rule' = [rule EXCEPT ![r] = x] /\ CutShort({r})
    <3>1. PICK x \in ForDeviceTorn(rule[r], s, v) : rule' = [rule EXCEPT ![r] = x] /\ CutShort({r})
      BY <2>3
    <3>2. x \in Row
      BY <1>0, <2>1, <3>1, ForDeviceTornIsARow
    <3>3. PICK f \in [Rules -> Row \cup {NoRule}] : rule' = f
      BY <1>0, <3>1, <3>2 DEF RuleTypeOK
    <3>4. \A q \in Rules \ {r} : f[q] = rule[q]
      BY <1>0, <3>1, <3>3 DEF RuleTypeOK
    <3>5. CopyTypeOK'
      BY <1>0, <2>1 DEF CopyTypeOK
    <3>. QED BY <2>1, <3>1, <3>3, <3>4, <3>5, CutShortStep DEF CutShort
  <2>. QED BY <1>2, <2>2, <2>3 DEF SetRuleEnabledFor
<1>3. ASSUME NEW b \in Bulks, NEW v \in BOOLEAN, SetRulesEnabledBulk(b, v) PROVE StepSound
  <2>1. Covers(b) \in SUBSET Existing /\ Covers(b) \in SUBSET Rules /\ UNCHANGED <<colls, device, copy>>
    <3>1. Covers(b) \subseteq Existing
      BY DEF Covers, Bulks
    <3>. QED BY <1>0, <1>3, <3>1 DEF SetRulesEnabledBulk, Others
  <2>2. CASE rule' = BulkEverywhere(b, v) /\ Whole(Covers(b))
    <3>1. rule' = [r \in Rules |-> IF r \in Covers(b) THEN Everywhere(rule[r], v) ELSE rule[r]]
      BY <1>0, <2>2, BulkIsExact DEF BulkIsTheSingleSwitch
    <3>. QED BY <2>1, <2>2, <3>1, EverywhereStep DEF Whole
  <2>3. CASE /\ rule' = [r \in Rules |-> IF r \in Covers(b) THEN [rule[r] EXCEPT !.enabled = v, !.scope = "all"] ELSE rule[r]]
             /\ CutShort(Covers(b))
    <3>1. ASSUME NEW r \in Covers(b) PROVE rule'[r] \in Row
      <4>1. PICK x \in Row : x = rule[r]
        BY <1>0, <2>1 DEF Existing, Exists, RuleTypeOK
      <4>2. rule'[r] = [x EXCEPT !.enabled = v, !.scope = "all"]
        BY <2>1, <2>3, <4>1
      <4>. QED BY <4>2 DEF Row
    <3>2. PICK f \in [Rules -> Row \cup {NoRule}] : rule' = f
      <4>1. \A r \in Rules : rule'[r] \in Row \cup {NoRule}
        BY <1>0, <2>3, <3>1 DEF RuleTypeOK
      <4>2. rule' = [r \in Rules |-> rule'[r]]
        BY <2>3
      <4>. QED BY <4>1, <4>2
    <3>3. \A r \in Rules \ Covers(b) : f[r] = rule[r]
      BY <2>3, <3>2
    <3>4. CopyTypeOK'
      BY <1>0, <2>1 DEF CopyTypeOK
    <3>. QED BY <2>1, <2>3, <3>2, <3>3, <3>4, CutShortStep DEF CutShort
  <2>. QED BY <1>3, <2>2, <2>3 DEF SetRulesEnabledBulk
<1>4. ASSUME NEW b \in Bulks, NEW s \in KnownScopes, NEW v \in BOOLEAN, SetRulesEnabledBulkFor(b, s, v) PROVE StepSound
  <2>1. Covers(b) \in SUBSET Existing
    BY <1>0 DEF Covers, Bulks
  <2>. QED BY <1>4, <2>1, SwitchForStep DEF SetRulesEnabledBulkFor, BulkForDevice, Others
<1>. QED BY <1>1, <1>2, <1>3, <1>4 DEF RuleSwitch

-----------------------------------------------------------------------------
(* Edits, collections and devices. *)

(* The rows keep their targets and nobody comes or goes. *)
LEMMA SameTargetsStep ==
  ASSUME RuleInv, NEW f \in [Rules -> Row \cup {NoRule}], rule' = f,
         \A r \in Rules : \/ f[r] = rule[r]
                         \/ /\ rule[r] # NoRule /\ f[r] # NoRule
                            /\ f[r].enabled = rule[r].enabled /\ f[r].scope = rule[r].scope
                            /\ f[r].devices = rule[r].devices,
         UNCHANGED <<device, torn>>, colls' \subseteq Collections, CopyTypeOK'
  PROVE  StepSound
<1>1. RuleTypeOK'
  BY DEF RuleInv, RuleTypeOK, CopyTypeOK
<1>2. OffCarriesNoMemory'
  BY DEF RuleInv, OffCarriesNoMemory, Existing, Exists
<1>3. Harmless
  BY DEF Harmless, KeepsArmed, NamesNoStranger, Dead, Strangers, Exists, InUse
<1>4. \A r \in Rules : LiveFor(r)' = LiveFor(r)
  <2> SUFFICES ASSUME NEW r \in Rules PROVE LiveFor(r)' = LiveFor(r)
    OBVIOUS
  <2>1. CASE f[r] = rule[r]
    BY <2>1, LiveForIs
  <2>2. CASE f[r] # rule[r]
    <3>1. LiveOf(f[r]) = LiveOf(rule[r]) /\ rule[r] # NoRule /\ f[r] # NoRule
      BY <2>2 DEF LiveOf, LiveOn
    <3>. QED BY <3>1, LiveForIs
  <2>. QED BY <2>1, <2>2
<1>5. TargetsStep
  BY <1>4 DEF TargetsStep, KnownScopes
<1>. QED BY <1>1, <1>2, <1>3, <1>5 DEF StepSound, RuleInv

LEMMA SaveIsSound ==
  ASSUME RuleInv, SaveEditor
  PROVE  StepSound
<1>1. copy.of \in Rules /\ copy.row \in Row /\ CopyTypeOK'
  BY DEF SaveEditor, RuleInv, RuleTypeOK, CopyTypeOK
<1>2. PICK r \in Rules, e \in BOOLEAN, c \in Collections \cup {Ungrouped} :
        r = copy.of /\ e = copy.row.enabled /\ c = copy.row.coll
  BY <1>1 DEF Row
<1>3. Upsert(r, e, Absent, Absent, c)
  BY <1>2 DEF SaveEditor
<1>4. Effective(Old(r, c), Absent) \subseteq KnownScopes \cup (IF Exists(r) THEN rule[r].devices ELSE {})
  BY DEF Effective, Old
<1>. QED BY <1>1, <1>3, <1>4, UpsertStep DEF StepSound, Harmless

LEMMA MoveIsSound ==
  ASSUME RuleInv, NEW c \in Collections \cup {Ungrouped}, MoveRule(c)
  PROVE  RuleInv' /\ KeepsArmed /\ TargetsStep
<1>1. copy.of \in Rules /\ copy.row \in Row /\ CopyTypeOK'
  BY DEF MoveRule, RuleInv, RuleTypeOK, CopyTypeOK
<1>2. PICK r \in Rules, e \in BOOLEAN, sc \in {"all", "set", Absent}, D \in SUBSET Scopes :
        r = copy.of /\ e = copy.row.enabled /\ sc = copy.row.scope /\ D = copy.row.devices
  BY <1>1 DEF Row
<1>3. Upsert(r, e, sc, D, c)
  BY <1>2 DEF MoveRule
<1>. QED BY <1>1, <1>3, UpsertStep

LEMMA EditIsSound ==
  ASSUME RuleInv, RuleEdit, ~\E c \in Collections \cup {Ungrouped} : MoveRule(c)
  PROVE  StepSound
<1>0. RuleTypeOK /\ Existing \subseteq Rules /\ CopyTypeOK
  BY DEF RuleInv, RuleTypeOK, CopyTypeOK, Existing
<1>1. ASSUME NEW r \in Rules, NEW v \in BOOLEAN, NEW sc \in {"all", "set"}, NEW D \in SUBSET KnownScopes,
             NEW c \in Collections \cup {Ungrouped}, CreateRule(r, v, sc, D, c)
      PROVE  StepSound
  <2>1. D \in SUBSET Scopes /\ CopyTypeOK' /\ ~Exists(r) /\ Upsert(r, v, sc, D, c)
    BY <1>0, <1>1, ScopesInUse DEF CreateRule, CopyTypeOK
  <2>2. Effective(Old(r, c), D) \subseteq KnownScopes \cup (IF Exists(r) THEN rule[r].devices ELSE {})
    BY <2>1 DEF Effective, Old
  <2>. QED BY <2>1, <2>2, UpsertStep DEF StepSound, Harmless
<1>2. ASSUME NEW r \in Rules, DeleteRule(r) PROVE StepSound
  <2>1. rule[r] \in Row /\ {r} \in SUBSET Rules /\ UNCHANGED <<colls, device, copy>>
    BY <1>0, <1>2 DEF DeleteRule, Others, Exists, RuleTypeOK
  <2>2. CASE rule' = [rule EXCEPT ![r] = NoRule] /\ Whole({r})
    <3>1. rule' = [q \in Rules |-> IF q \in {r} THEN NoRule ELSE rule[q]]
      BY <1>0, <2>2 DEF RuleTypeOK
    <3>. QED BY <2>1, <2>2, <3>1, DeleteStep DEF Whole
  <2>3. CASE rule' = [rule EXCEPT ![r].devices = {}] /\ CutShort({r})
    <3>1. PICK x : x = [rule[r] EXCEPT !.devices = {}] /\ rule' = [rule EXCEPT ![r] = x]
      BY <2>3
    <3>2. x \in Row
      BY <2>1, <3>1 DEF Row
    <3>3. PICK f \in [Rules -> Row \cup {NoRule}] : rule' = f
      BY <1>0, <3>1, <3>2 DEF RuleTypeOK
    <3>4. \A q \in Rules \ {r} : f[q] = rule[q]
      BY <1>0, <3>1, <3>3 DEF RuleTypeOK
    <3>5. CopyTypeOK'
      BY <1>0, <2>1 DEF CopyTypeOK
    <3>. QED BY <2>1, <2>3, <3>3, <3>4, <3>5, CutShortStep DEF CutShort
  <2>. QED BY <1>2, <2>2, <2>3 DEF DeleteRule
<1>3. ASSUME NEW r \in Rules, OpenEditor(r) PROVE StepSound
  <2>1. CopyTypeOK'
    BY <1>0, <1>3 DEF OpenEditor, CopyTypeOK, RuleTypeOK, Exists
  <2>2. PICK f \in [Rules -> Row \cup {NoRule}] : rule' = f /\ f = rule
    BY <1>0, <1>3 DEF OpenEditor, RuleTypeOK
  <2>. QED BY <1>0, <1>3, <2>1, <2>2, SameTargetsStep DEF OpenEditor, RuleTypeOK
<1>4. ASSUME NEW b \in Bulks, DeleteRulesBulk(b) PROVE StepSound
  <2>1. Covers(b) \in SUBSET Rules
    BY <1>0 DEF Covers, Bulks
  <2>. QED BY <1>4, <2>1, DeleteStep DEF DeleteRulesBulk, Whole, Others
<1>5. ASSUME NEW c \in Collections, UpsertCollection(c) \/ DeleteCollection(c) PROVE StepSound
  <2>1. CopyTypeOK' /\ UNCHANGED <<device, torn>> /\ colls' \subseteq Collections
    BY <1>0, <1>5 DEF UpsertCollection, DeleteCollection, CopyTypeOK, RuleTypeOK
  <2>2. ASSUME NEW r \in Rules
        PROVE  /\ rule'[r] \in Row \cup {NoRule}
               /\ \/ rule'[r] = rule[r]
                  \/ /\ rule[r] # NoRule /\ rule'[r] # NoRule
                     /\ rule'[r].enabled = rule[r].enabled /\ rule'[r].scope = rule[r].scope
                     /\ rule'[r].devices = rule[r].devices
    <3>1. CASE rule'[r] = rule[r]
      BY <1>0, <3>1 DEF RuleTypeOK
    <3>2. CASE rule'[r] # rule[r]
      <4>1. PICK x \in Row : x = rule[r]
        BY <1>0, <1>5, <3>2 DEF UpsertCollection, DeleteCollection, Exists, RuleTypeOK
      <4>2. rule'[r] = [x EXCEPT !.coll = Ungrouped]
        BY <1>5, <3>2, <4>1 DEF UpsertCollection, DeleteCollection
      <4>3. PICK y : y = [x EXCEPT !.coll = Ungrouped]
        OBVIOUS
      <4>4. y \in Row /\ y.enabled = x.enabled /\ y.scope = x.scope /\ y.devices = x.devices
        BY <4>3 DEF Row
      <4>. QED BY <4>1, <4>2, <4>3, <4>4, RuleConstants
    <3>. QED BY <3>1, <3>2
  <2>3. PICK f \in [Rules -> Row \cup {NoRule}] : rule' = f
    <3>1. rule' = [r \in Rules |-> rule'[r]]
      BY <1>0, <1>5 DEF UpsertCollection, DeleteCollection, RuleTypeOK
    <3>. QED BY <2>2, <3>1
  <2>. QED BY <2>1, <2>2, <2>3, SameTargetsStep
<1>. QED BY <1>1, <1>2, <1>3, <1>4, <1>5, SaveIsSound DEF RuleEdit

LEMMA PairIsSound ==
  ASSUME RuleInv, NEW d \in Phones, PairDevice(d)
  PROVE  StepSound
<1>1. RuleInv'
  BY DEF PairDevice, RuleInv, RuleTypeOK, OffCarriesNoMemory, Existing, Exists
<1>2. KnownScopes' = KnownScopes \cup {d} /\ InUse \subseteq InUse'
  BY DEF PairDevice, KnownScopes, InUse, RuleInv, RuleTypeOK
<1>3. Harmless
  BY <1>2 DEF PairDevice, Harmless, KeepsArmed, NamesNoStranger, Dead, Strangers, Exists
<1>4. TargetsStep
  <2>1. Targets!Arrive(d)
    <3>1. \A r \in Rules : LiveFor(r)' = LiveFor(r)
      BY LiveForIs DEF PairDevice
    <3>. QED BY <1>2, <3>1 DEF PairDevice, Targets!Arrive
  <2>. QED BY <2>1 DEF TargetsStep, Targets!Next, Scopes
<1>. QED BY <1>1, <1>3, <1>4 DEF StepSound

LEMMA RemoveIsSound ==
  ASSUME RuleInv, NEW d \in Phones, RemoveDevice(d)
  PROVE  RuleInv' /\ NamesNoStranger /\ TargetsStep
<1>0. RuleTypeOK /\ CopyTypeOK' /\ UNCHANGED <<colls, copy>> /\ d \notin Sentinels /\ d \notin Rules
  BY RuleConstants DEF RuleInv, RuleTypeOK, CopyTypeOK, RemoveDevice
<1>1. ASSUME NEW r \in Rules
      PROVE  \/ rule'[r] = rule[r]
             \/ /\ rule[r] \in Row /\ rule'[r] \in Row /\ rule[r] # NoRule /\ rule'[r] # NoRule
                /\ rule'[r].enabled = rule[r].enabled /\ rule'[r].scope = rule[r].scope
                /\ rule'[r].devices = rule[r].devices \ {d}
  <2>1. CASE rule' = WithoutDevice(d) /\ rule[r] # NoRule
    <3>1. PICK x \in Row : x = rule[r]
      BY <1>0, <2>1 DEF RuleTypeOK
    <3>2. PICK y : y = [x EXCEPT !.devices = @ \ {d}]
      OBVIOUS
    <3>3. y \in Row /\ y.enabled = x.enabled /\ y.scope = x.scope /\ y.devices = x.devices \ {d}
      BY <3>2 DEF Row
    <3>4. rule'[r] = y
      BY <2>1, <3>1, <3>2 DEF WithoutDevice, Exists
    <3>. QED BY <3>1, <3>3, <3>4, RuleConstants
  <2>2. CASE rule' = rule \/ rule[r] = NoRule
    BY <2>2 DEF RemoveDevice, WithoutDevice, Exists
  <2>. QED BY <2>1, <2>2 DEF RemoveDevice
<1>2. RuleTypeOK'
  <2>1. rule' \in [Rules -> Row \cup {NoRule}]
    <3>1. rule' = [r \in Rules |-> rule'[r]]
      BY <1>0 DEF RemoveDevice, WithoutDevice, RuleTypeOK
    <3>2. \A r \in Rules : rule'[r] \in Row \cup {NoRule}
      BY <1>0, <1>1 DEF RuleTypeOK
    <3>. QED BY <3>1, <3>2
  <2>. QED BY <1>0, <2>1 DEF RemoveDevice, CutShort, CopyTypeOK, RuleTypeOK
<1>3. torn' \cap Rules = torn \cap Rules
  BY <1>0 DEF RemoveDevice, CutShort
<1>4. OffCarriesNoMemory'
  BY <1>1, <1>3 DEF RuleInv, OffCarriesNoMemory, Existing, Exists
<1>5. KnownScopes' = KnownScopes \ {d} /\ InUse' = InUse \ {d}
  BY <1>0 DEF RemoveDevice, KnownScopes, InUse, RuleTypeOK
<1>6. NamesNoStranger
  <2>1. CASE rule' = WithoutDevice(d)
    <3>1. \A r \in Rules : rule[r] # NoRule => rule'[r].devices = rule[r].devices \ {d}
      <4> SUFFICES ASSUME NEW r \in Rules, rule[r] # NoRule PROVE rule'[r].devices = rule[r].devices \ {d}
        OBVIOUS
      <4>1. PICK x \in Row : x = rule[r]
        BY <1>0 DEF RuleTypeOK
      <4>2. rule'[r] = [x EXCEPT !.devices = @ \ {d}]
        BY <2>1, <4>1 DEF WithoutDevice, Exists
      <4>. QED BY <4>1, <4>2 DEF Row
    <3>2. \A r \in Rules : rule'[r] # NoRule => rule[r] # NoRule
      BY <2>1 DEF WithoutDevice, Exists
    <3>. QED BY <1>5, <3>1, <3>2 DEF NamesNoStranger, Strangers, Exists
  <2>2. CASE rule' = rule /\ d \in torn'
    BY <1>5, <2>2 DEF NamesNoStranger, Strangers, Exists
  <2>. QED BY <2>1, <2>2 DEF RemoveDevice, CutShort
<1>7. TargetsStep
  <2>1. Targets!Leave(d)
    <3>1. ASSUME NEW r \in Rules
          PROVE  LiveFor(r)' \ {d} = LiveFor(r) \ {d} /\ LiveFor(r)' \subseteq LiveFor(r)
      <4>1. CASE rule'[r] = rule[r]
        BY <4>1, LiveForIs
      <4>2. CASE rule'[r] # rule[r]
        <5>1. /\ LiveFor(r) = LiveOf(rule[r]) /\ LiveFor(r)' = LiveOf(rule'[r])
              /\ rule'[r].enabled = rule[r].enabled /\ rule'[r].scope = rule[r].scope
              /\ rule'[r].devices = rule[r].devices \ {d}
          BY <1>1, <4>2, LiveForIs
        <5>. QED BY <5>1 DEF LiveOf, LiveOn
      <4>. QED BY <4>1, <4>2
    <3>2. [r \in Rules |-> LiveFor(r)]' \in [Rules -> SUBSET Scopes]
      BY LiveForIs
    <3>. QED BY <1>3, <1>5, <3>1, <3>2 DEF Targets!Leave
  <2>. QED BY <2>1 DEF TargetsStep, Targets!Next, Scopes
<1>. QED BY <1>2, <1>4, <1>6, <1>7 DEF RuleInv

-----------------------------------------------------------------------------
(* Every step. *)
LEMMA RuleInitInv == RuleInit => RuleInv /\ Targets!Init
<1> SUFFICES ASSUME RuleInit PROVE RuleInv /\ Targets!Init
  OBVIOUS
<1>1. RuleTypeOK
  BY DEF RuleInit, RuleTypeOK
<1>2. OffCarriesNoMemory
  BY DEF RuleInit, OffCarriesNoMemory, Existing, Exists
<1>3. Targets!Init
  <2>1. \A r \in Rules : LiveFor(r) = {}
    BY LiveForIs DEF RuleInit
  <2>. QED BY <1>1, <2>1, ScopesInUse DEF RuleInit, Targets!Init
<1>. QED BY <1>1, <1>2, <1>3 DEF RuleInv

LEMMA StepIsSound ==
  ASSUME RuleInv, RuleNext
  PROVE  /\ RuleInv' /\ TargetsStep
         /\ (\E d \in Phones : RemoveDevice(d)) \/ KeepsArmed
         /\ (\E c \in Collections \cup {Ungrouped} : MoveRule(c)) \/ NamesNoStranger
<1>1. CASE RuleSwitch
  BY <1>1, SwitchIsSound DEF StepSound, Harmless
<1>2. CASE RuleEdit
  BY <1>2, EditIsSound, MoveIsSound DEF StepSound, Harmless
<1>3. CASE DeviceChange
  BY <1>3, PairIsSound, RemoveIsSound DEF DeviceChange, StepSound, Harmless
<1>. QED BY <1>1, <1>2, <1>3 DEF RuleNext

LEMMA IdleIsSound == RuleInv /\ UNCHANGED libVars => RuleInv' /\ TargetsStep
<1> SUFFICES ASSUME RuleInv, UNCHANGED libVars PROVE RuleInv' /\ TargetsStep
  OBVIOUS
<1>1. RuleInv'
  BY DEF libVars, RuleInv, RuleTypeOK, OffCarriesNoMemory, Existing, Exists
<1>2. \A r \in Rules : LiveFor(r)' = LiveFor(r)
  BY LiveForIs DEF libVars
<1>. QED BY <1>1, <1>2 DEF libVars, TargetsStep, KnownScopes

LEMMA RuleInvariance == RuleSpec => []RuleInv
<1>1. RuleInv /\ [RuleNext]_libVars => RuleInv'
  BY StepIsSound, IdleIsSound
<1>. QED BY <1>1, RuleInitInv, PTL DEF RuleSpec

(* The rows of the library keep their types, and a rule that is off or on for *)
(* all owns no scope row unless a write to it was cut short (upsert_rule:     *)
(* "off carries no memory").                                                  *)
THEOREM RowsAreWellFormed == RuleSpec => [](RuleTypeOK /\ OffCarriesNoMemory)
<1>. QED BY RuleInvariance, PTL DEF RuleInv

(* The statements of a bulk switch amount, for any number of rules and        *)
(* collections, to the single switch of each rule they cover.                 *)
THEOREM BulkSwitchIsExact == RuleSpec => []BulkIsTheSingleSwitch
<1>1. RuleInv => BulkIsTheSingleSwitch
  BY BulkIsExact DEF RuleInv
<1>. QED BY <1>1, RuleInvariance, PTL

(* The library implements RuleTargets: whatever is switched, edited, deleted, *)
(* cut short or removed, a switch for one scope moves that scope and no other *)
(* one in use.                                                                *)
THEOREM LibraryKeepsItsPromise == RuleSpec => TargetsSpec
<1>1. RuleInv /\ [RuleNext]_libVars => TargetsStep
  BY StepIsSound, IdleIsSound
<1>. QED BY <1>1, RuleInitInv, RuleInvariance, PTL DEF RuleSpec, TargetsSpec, Targets!Spec, TargetsStep

(* No switch, edit or bulk call changes targets it was not about: an edit     *)
(* keeps them, only a removal leaves a rule ticked for nobody, and only a     *)
(* stale copy names a device that is gone.                                    *)
THEOREM NothingElseMovesTargets == RuleSpec => EditsAreMeant
<1>1. RuleInv /\ [RuleNext]_libVars =>
        [\A r \in Existing \ (torn \cup torn') :
           SaveEditor /\ copy.of = r /\ copy.row.enabled = rule[r].enabled => LiveFor(r)' = LiveFor(r)]_libVars
  <2> SUFFICES ASSUME RuleInv, SaveEditor, NEW r \in Rules, Exists(r), r \notin torn', copy.of = r,
                      copy.row.enabled = rule[r].enabled
               PROVE  LiveFor(r)' = LiveFor(r)
    BY DEF Existing
  <2>1. copy.row \in Row /\ CopyTypeOK'
    BY DEF SaveEditor, RuleInv, RuleTypeOK, CopyTypeOK
  <2>2. PICK e \in BOOLEAN, c \in Collections \cup {Ungrouped} : e = copy.row.enabled /\ c = copy.row.coll
    BY <2>1 DEF Row
  <2>3. Upsert(r, e, Absent, Absent, c)
    BY <2>2 DEF SaveEditor
  <2>. QED BY <2>1, <2>2, <2>3, UpsertStep
<1>2. RuleInv /\ [RuleNext]_libVars =>
        [\A r \in Rules : Dead(r)' /\ ~Dead(r) /\ r \notin torn' => \E d \in Phones : RemoveDevice(d)]_libVars
  BY StepIsSound DEF KeepsArmed
<1>3. RuleInv /\ [RuleNext]_libVars =>
        [\A r \in Rules \ torn' :
           ~(Strangers(r)' \ torn' \subseteq Strangers(r)) => \E c \in Collections \cup {Ungrouped} : MoveRule(c)]_libVars
  BY StepIsSound DEF NamesNoStranger
<1>. QED BY <1>1, <1>2, <1>3, RuleInvariance, PTL
         DEF RuleSpec, EditsAreMeant, EditKeepsTargets, OnlyRemovalDisarms, OnlyAStaleCopyNamesStrangers

-----------------------------------------------------------------------------
(* Commands of several calls.  A set of ids has a least member, and a bounded *)
(* set of places a largest.                                                   *)
LEMMA SmallestIsOne ==
    ASSUME NEW S \in SUBSET Nat, S # {}
    PROVE  Smallest(S) \in S /\ \A m \in S : Smallest(S) <= m
<1> DEFINE R == OpToRel(<, Nat)
<1>1. IsWellFoundedOn(R, Nat)
    BY NatLessThanWellFounded
<1>2. \A x, y \in Nat : y < x => <<y, x>> \in R
    BY DEF OpToRel
<1> HIDE DEF R
<1>3. PICK n \in S : \A y \in S : ~(<<y, n>> \in R)
    BY <1>1, WFMin, Zenon
<1>4. \A y \in S : ~(y < n)
    BY <1>2, <1>3
<1>5. \A y \in S : n <= y
    BY <1>4
<1> QED
    BY <1>5 DEF Smallest

LEMMA LastPlace ==
    ASSUME NEW n \in Nat, NEW S \in SUBSET (1..n), S # {}
    PROVE  \E k \in S : \A l \in S : l <= k
<1> DEFINE T == {n - y : y \in S}
<1>1. \A y \in S : y \in Nat /\ n - y \in Nat
    OBVIOUS
<1>2. T \in SUBSET Nat /\ T # {}
    BY <1>1
<1>3. PICK x \in T : \A y \in T : x <= y
    BY <1>2, SmallestIsOne
<1>4. PICK k \in S : x = n - k
    BY <1>3
<1>5. \A l \in S : n - k <= n - l
    BY <1>3, <1>4
<1>6. \A l \in S : l <= k
    BY <1>1, <1>5
<1> QED
    BY <1>6

(* A listing has every row once.                                              *)
LEMMA ListingIsAll ==
    ASSUME NEW S, IsFiniteSet(S)
    PROVE  /\ Listing(S) \in Seq(S)
           /\ \A r \in S : \E i \in DOMAIN Listing(S) : Listing(S)[i] = r
<1> DEFINE n == Cardinality(S)
           L == Listing(S)
           once(f) == \A i, j \in DOMAIN f : f[i] = f[j] => i = j
<1>1. n \in Nat
    BY FS_CardinalityType
<1>2. \E f \in [1..n -> S] : once(f)
    <2>1. PICK f : f \in Bijection(1..n, S)
        BY FS_CardinalityType DEF ExistsBijection
    <2> QED
        BY <2>1 DEF Bijection, Injection, IsInjective
<1>3. L \in [1..n -> S] /\ once(L)
    <2>1. L = CHOOSE f \in [1..n -> S] : once(f)
        BY DEF Listing
    <2> HIDE DEF L, n, once
    <2> QED
        BY <1>2, <2>1
<1>4. L \in Surjection(1..n, S)
    <2>1. L \in Injection(1..n, S)
        BY <1>3 DEF Injection, IsInjective
    <2>2. Cardinality(1..n) = n
        <3> HIDE DEF n
        <3> QED
            BY <1>1, FS_Interval
    <2> HIDE DEF L, n
    <2>3. n = Cardinality(S)
        BY DEF n
    <2> QED
        BY <2>1, <2>2, <2>3, FS_Injection
<1> HIDE DEF L, n
<1>5. DOMAIN L = 1..n /\ L \in Seq(S)
    BY <1>1, <1>3
<1>6. \A r \in S : \E i \in 1..n : L[i] = r
    BY <1>4 DEF Surjection
<1> QED
    BY <1>5, <1>6 DEF L

-----------------------------------------------------------------------------
(* `only`: until the rules of the collection are switched on again, a rule    *)
(* that the window left alone is off.                                         *)
OnlyInv ==
    cmd.op = "only" /\ cmd.pc = "on" => \A r \in Entries \ cmd.touched : ~library[r].on

KeepInv == cmd.pc \in {"off", "on", "list", "delete", "drop"} => cmd.keep \in GroupIds

(* rm --with-rules: where the rules are that the collection had.              *)
RmInv ==
    cmd.op = "rm_with_rules" =>
        /\ cmd.pc \in {"off", "list"} => cmd.mine \cap Entries \subseteq cmd.touched \cup In(cmd.keep)
        /\ cmd.pc = "delete" => \A r \in (cmd.mine \cap Entries) \ cmd.touched : \E i \in DOMAIN cmd.todo : cmd.todo[i] = r
        /\ cmd.pc = "drop" => cmd.mine \cap Entries \subseteq cmd.touched

(* ... and what it is about to delete.                                        *)
TakesInv ==
    /\ cmd.pc = "off" => cmd.op \in {"only", "rm_with_rules"}
    /\ cmd.pc \in {"list", "delete"} => cmd.op = "rm_with_rules"
    /\ cmd.op = "rm_with_rules" /\ cmd.pc \in {"off", "list"} => In(cmd.keep) \subseteq cmd.mine \cup cmd.touched
    /\ cmd.pc = "delete" => \A i \in DOMAIN cmd.todo : cmd.todo[i] \in cmd.mine \cup cmd.touched

(* import: how far it has come, ...                                           *)
TodoInv ==
    /\ cmd.pc = "collections" =>
          /\ cmd.made = <<>>
          /\ Len(cmd.refs) + Len(cmd.todo) = Len(file.collections)
          /\ \A k \in 1..Len(cmd.todo) : cmd.todo[k] = file.collections[Len(cmd.refs) + k]
    /\ cmd.pc = "rules" =>
          /\ Len(cmd.refs) = Len(file.collections)
          /\ Len(cmd.made) + Len(cmd.todo) = Len(file.rules)
          /\ \A k \in 1..Len(cmd.todo) : cmd.todo[k] = file.rules[Len(cmd.made) + k]

(* ... the collections it made, which hold nothing but the rules it made and  *)
(* those that the window moved, ...                                           *)
RefsInv ==
    cmd.pc \in {"collections", "rules"} =>
        /\ \A k \in 1..Len(cmd.refs) : cmd.refs[k].old = file.collections[k].ref
        /\ \A k \in 1..Len(cmd.refs) : groups[cmd.refs[k].new] # Unused
        /\ \A k, l \in 1..Len(cmd.refs) : cmd.refs[k].new = cmd.refs[l].new => k = l
        /\ \A k \in 1..Len(cmd.refs) : \A r \in In(cmd.refs[k].new) :
              r \in cmd.touched \/ \E i \in 1..Len(cmd.made) : cmd.made[i] = r

(* ... and the rules it made, which are where the file has them.              *)
MadeInv ==
    cmd.pc = "rules" =>
        \A i \in 1..Len(cmd.made) :
            /\ cmd.made[i] \in Entries
            /\ cmd.made[i] \in cmd.touched \/ library[cmd.made[i]].at = ImportedTo(cmd.refs, file.rules[i].ref)

CliInv == CliTypeOK /\ OnlyInv /\ KeepInv /\ RmInv /\ TakesInv /\ TodoInv /\ RefsInv /\ MadeInv

-----------------------------------------------------------------------------
Entry == [at : GroupIds \cup {NoGroup}, on : BOOLEAN, is : {Unused, "here", Gone}]

Commands(c) ==
    c \in [op : {"none", "only", "enable", "disable", "rm", "rm_with_rules", "export", "import"},
           pc : {"resolve", "off", "on", "list", "delete", "drop", "list rules", "list collections",
                 "collections", "rules", "done"},
           sel : DOMAIN Finds \cup {"none"}, keep : GroupIds \cup {NoGroup},
           todo : {c.todo}, refs : Seq([old : GroupIds, new : GroupIds]), made : Seq(RuleIds),
           code : {"ok", "error"}, mine : SUBSET RuleIds, touched : SUBSET RuleIds]

Todo(c) ==
    /\ c.pc = "resolve" => c.op \in {"only", "enable", "disable", "rm", "rm_with_rules"}
    /\ c.pc = "delete" => c.todo \in Seq(RuleIds)
    /\ c.pc = "collections" => c.todo \in Seq(FileRefs)
    /\ c.pc = "rules" => c.todo \in Seq(FileRules)

LEMMA CliTyped ==
    CliTypeOK <=>
        /\ groups \in [GroupIds -> Names \cup {Unused, Gone}]
        /\ library \in [RuleIds -> Entry]
        /\ \A r \in RuleIds : library[r].at \in Groups \cup {NoGroup}
        /\ file \in [collections : Seq(FileRefs), rules : Seq(FileRules)]
        /\ Commands(cmd) /\ Todo(cmd)
BY DEF CliTypeOK, Entry, Commands, Todo

LEMMA CliTypedNext ==
    ASSUME groups' \in [GroupIds -> Names \cup {Unused, Gone}],
           library' \in [RuleIds -> Entry],
           \A r \in RuleIds : library'[r].at \in Groups' \cup {NoGroup},
           file' \in [collections : Seq(FileRefs), rules : Seq(FileRules)],
           Commands(cmd'), Todo(cmd')
    PROVE  CliTypeOK'
BY DEF CliTypeOK, Entry, Commands, Todo

(* A command that is over, or has read nothing yet, promises nothing.         *)
LEMMA NothingPending ==
    ASSUME CliTypeOK', cmd'.pc \in {"done", "resolve", "list rules", "list collections"}
    PROVE  CliInv'
BY DEF CliInv, OnlyInv, KeepInv, RmInv, TakesInv, TodoInv, RefsInv, MadeInv

LEMMA EndedCommand ==
    ASSUME NEW c, Commands(c), NEW code \in {"ok", "error"}
    PROVE  /\ Commands(Ended(c, code)) /\ Todo(Ended(c, code))
           /\ Ended(c, code).pc = "done"
BY DEF Commands, Todo, Ended

LEMMA SameLibrary ==
    ASSUME CliTypeOK, UNCHANGED <<groups, library, file>>, Commands(cmd'), Todo(cmd')
    PROVE  CliTypeOK'
BY CliTyped DEF Groups, CliTypeOK, Commands, Todo

LEMMA TypeCommandKeeps ==
    ASSUME CliInv, TypeCommand
    PROVE  CliInv'
<1>1. UNCHANGED <<groups, library, file>> /\ (TypeSelector \/ TypeFile)
    BY DEF TypeCommand
<1>2. /\ Commands(NoCommand) /\ NoCommand.pc = "done"
    BY DEF Commands, NoCommand, NoGroup
<1>3. CASE TypeSelector
    <2>1. PICK op \in {"only", "enable", "disable", "rm", "rm_with_rules"}, sel \in DOMAIN Finds :
             cmd' = [NoCommand EXCEPT !.op = op, !.pc = "resolve", !.sel = sel]
        BY <1>3 DEF TypeSelector
    <2>2. Commands(cmd') /\ Todo(cmd') /\ cmd'.pc = "resolve"
        BY <1>2, <2>1 DEF Commands, Todo
    <2>3. CliTypeOK'
        BY <1>1, <2>2, CliTyped DEF CliInv, Groups, CliTypeOK, Commands, Todo
    <2> QED
        BY <2>2, <2>3, NothingPending
<1>4. CASE TypeFile
    <2>1. CASE cmd' = [NoCommand EXCEPT !.op = "export", !.pc = "list rules"]
        <3>1. Commands(cmd') /\ Todo(cmd') /\ cmd'.pc = "list rules"
            BY <1>2, <2>1 DEF Commands, Todo
        <3>2. CliTypeOK'
            BY <1>1, <3>1, SameLibrary DEF CliInv
        <3> QED
            BY <3>1, <3>2, NothingPending
    <2>2. CASE cmd' = [NoCommand EXCEPT !.op = "import", !.pc = "collections", !.todo = file.collections]
        <3>1. file.collections \in Seq(FileRefs)
            BY CliTyped DEF CliInv
        <3>2. /\ Commands(cmd') /\ Todo(cmd') /\ cmd'.pc = "collections" /\ cmd'.op = "import"
              /\ cmd'.refs = <<>> /\ cmd'.made = <<>> /\ cmd'.todo = file.collections
            BY <1>2, <2>2, <3>1 DEF Commands, Todo, NoCommand
        <3>3. CliTypeOK'
            BY <1>1, <3>2, SameLibrary DEF CliInv
        <3>4. TodoInv' /\ RefsInv'
            BY <1>1, <3>1, <3>2 DEF TodoInv, RefsInv
        <3> QED
            BY <3>2, <3>3, <3>4 DEF CliInv, OnlyInv, KeepInv, RmInv, TakesInv, MadeInv
    <2> QED
        BY <1>4, <2>1, <2>2 DEF TypeFile
<1> QED
    BY <1>1, <1>3, <1>4

LEMMA ResolveKeeps ==
    ASSUME CliInv, ResolveCollection
    PROVE  CliInv'
<1>0. CliTypeOK /\ Commands(cmd) /\ Todo(cmd) /\ cmd.pc = "resolve" /\ UNCHANGED <<groups, library, file>>
    BY CliTyped DEF CliInv, ResolveCollection
<1>1. CASE cmd' = Ended(cmd, "error")
    <2>1. Commands(cmd') /\ Todo(cmd') /\ cmd'.pc = "done"
        BY <1>0, <1>1, EndedCommand
    <2>2. CliTypeOK'
        BY <1>0, <2>1, SameLibrary
    <2> QED
        BY <2>1, <2>2, NothingPending
<1>2. CASE cmd' # Ended(cmd, "error")
    <2> DEFINE P == CASE cmd.op \in {"only", "rm_with_rules"} -> "off"
                      [] cmd.op \in {"enable", "disable"}     -> "on"
                      [] cmd.op = "rm"                        -> "drop"
    <2>1. PICK g \in Hits(cmd.sel) : cmd' = [cmd EXCEPT !.keep = g, !.mine = In(g), !.pc = P]
        <3>1. Cardinality(Hits(cmd.sel)) = 1
            BY <1>2 DEF ResolveCollection
        <3>2. Hits(cmd.sel) # {}
            BY <3>1, FS_EmptySet
        <3>3. (CHOOSE h \in Hits(cmd.sel) : TRUE) \in Hits(cmd.sel)
            BY <3>2
        <3> QED
            BY <3>1, <3>3 DEF ResolveCollection
    <2>2. g \in GroupIds /\ In(g) \in SUBSET RuleIds
        BY DEF Hits, Groups, In, Entries
    <2>3. /\ P \in {"off", "on", "drop"}
          /\ cmd.op = "only" => P = "off"
          /\ cmd.op = "rm_with_rules" => P = "off"
        BY <1>0 DEF Todo
    <2> HIDE DEF P
    <2>4. Commands(cmd') /\ cmd'.op = cmd.op /\ cmd'.pc = P /\ cmd'.keep = g /\ cmd'.mine = In(g)
        BY <1>0, <2>1, <2>2, <2>3 DEF Commands
    <2>5. Todo(cmd')
        BY <2>3, <2>4 DEF Todo
    <2>6. CliTypeOK'
        BY <1>0, <2>4, <2>5, SameLibrary
    <2>7. RmInv'
        BY <1>0, <2>3, <2>4 DEF RmInv, In
    <2>9. TakesInv'
        <3>1. cmd'.pc = "off" => cmd'.op \in {"only", "rm_with_rules"}
            <4>1. cmd.op \in {"enable", "disable"} => P = "on"
                BY DEF P
            <4>2. cmd.op = "rm" => P = "drop"
                BY DEF P
            <4>. QED BY <1>0, <2>4, <4>1, <4>2 DEF Todo
        <3>2. In(g)' = In(g)
            BY <1>0 DEF In, Entries
        <3> QED
            BY <2>3, <2>4, <3>1, <3>2 DEF TakesInv
    <2>8. OnlyInv' /\ KeepInv' /\ TodoInv' /\ RefsInv' /\ MadeInv'
        BY <2>2, <2>3, <2>4 DEF OnlyInv, KeepInv, TodoInv, RefsInv, MadeInv
    <2> QED
        BY <2>6, <2>7, <2>8, <2>9 DEF CliInv
<1> QED
    BY <1>1, <1>2

-----------------------------------------------------------------------------
(* What a call does to the rows.                                              *)
LEMMA CallIsExact ==
    ASSUME CliTypeOK, NEW S, NEW on \in BOOLEAN, library' = BulkEnable(S, on), UNCHANGED <<groups, file>>
    PROVE  /\ Commands(cmd') /\ Todo(cmd') => CliTypeOK'
           /\ Entries' = Entries
           /\ \A r \in RuleIds : library'[r].at = library[r].at
           /\ \A r \in RuleIds : library'[r].on = IF r \in S THEN on ELSE library[r].on
<1>1. library \in [RuleIds -> Entry]
    BY CliTyped
<1>2. \A r \in RuleIds : /\ [library[r] EXCEPT !.on = on] \in Entry
                         /\ [library[r] EXCEPT !.on = on].at = library[r].at
                         /\ [library[r] EXCEPT !.on = on].is = library[r].is
                         /\ [library[r] EXCEPT !.on = on].on = on
    BY <1>1 DEF Entry
<1>3. /\ library' \in [RuleIds -> Entry]
      /\ \A r \in RuleIds : /\ library'[r].at = library[r].at /\ library'[r].is = library[r].is
                             /\ library'[r].on = IF r \in S THEN on ELSE library[r].on
    BY <1>1, <1>2 DEF BulkEnable
<1>4. Entries' = Entries
    BY <1>3 DEF Entries
<1>5. \A r \in RuleIds : library'[r].at \in Groups' \cup {NoGroup}
    BY <1>3, CliTyped DEF Groups
<1>6. Commands(cmd') /\ Todo(cmd') => CliTypeOK'
    BY <1>3, <1>5, CliTyped, CliTypedNext
<1> QED
    BY <1>3, <1>4, <1>6

LEMMA DetachedIsExact ==
    ASSUME CliTypeOK, NEW g \in GroupIds, library' = Detached(g), groups' = [groups EXCEPT ![g] = Gone], UNCHANGED file
    PROVE  /\ Commands(cmd') /\ Todo(cmd') => CliTypeOK'
           /\ Entries' = Entries
           /\ \A r \in RuleIds : library[r].at # g => library'[r] = library[r]
           /\ \A r \in RuleIds : library[r].at = g => library'[r].at = NoGroup
           /\ \A h \in GroupIds : groups[h] # Unused => groups'[h] # Unused
<1>1. library \in [RuleIds -> Entry] /\ groups \in [GroupIds -> Names \cup {Unused, Gone}]
    BY CliTyped
<1>2. \A r \in RuleIds : /\ [library[r] EXCEPT !.at = NoGroup] \in Entry
                         /\ [library[r] EXCEPT !.at = NoGroup].at = NoGroup
                         /\ [library[r] EXCEPT !.at = NoGroup].is = library[r].is
    BY <1>1 DEF Entry
<1>3. library' \in [RuleIds -> Entry]
    BY <1>1, <1>2 DEF Detached
<1>8. \A r \in RuleIds : library'[r].is = library[r].is
    BY <1>1, <1>2 DEF Detached
<1>9. \A r \in RuleIds : library[r].at # g => library'[r] = library[r]
    BY <1>1, <1>2 DEF Detached
<1>10. \A r \in RuleIds : library[r].at = g => library'[r].at = NoGroup
    BY <1>1, <1>2 DEF Detached
<1>4. /\ groups' \in [GroupIds -> Names \cup {Unused, Gone}]
      /\ \A h \in GroupIds : groups[h] # Unused => groups'[h] # Unused
      /\ \A h \in Groups : h # g => h \in Groups'
    BY <1>1 DEF Groups, Unused, Gone
<1>5. Entries' = Entries
    BY <1>8 DEF Entries
<1>6. \A r \in RuleIds : library'[r].at \in Groups' \cup {NoGroup}
    <2>1. \A r \in RuleIds : library[r].at \in Groups \cup {NoGroup}
        BY CliTyped
    <2>2. ASSUME NEW r \in RuleIds PROVE (library'[r].at = library[r].at /\ library[r].at # g) \/ library'[r].at = NoGroup
        BY <1>9, <1>10
    <2> QED
        BY <1>4, <2>1, <2>2
<1>7. Commands(cmd') /\ Todo(cmd') => CliTypeOK'
    BY <1>3, <1>4, <1>6, CliTyped, CliTypedNext
<1> QED
    BY <1>4, <1>5, <1>7, <1>9, <1>10

LEMMA CommandFacts ==
    ASSUME CliInv
    PROVE  /\ CliTypeOK /\ Commands(cmd) /\ Todo(cmd) /\ cmd.keep \in GroupIds \cup {NoGroup}
           /\ cmd.made \in Seq(RuleIds) /\ cmd.refs \in Seq([old : GroupIds, new : GroupIds])
           /\ library \in [RuleIds -> Entry] /\ groups \in [GroupIds -> Names \cup {Unused, Gone}]
           /\ file \in [collections : Seq(FileRefs), rules : Seq(FileRules)]
           /\ \A r \in RuleIds : library[r].at \in Groups \cup {NoGroup}
<1>1. CliTypeOK
    BY DEF CliInv
<1>2. Commands(cmd)
    BY <1>1, CliTyped
<1>3. cmd.keep \in GroupIds \cup {NoGroup} /\ cmd.made \in Seq(RuleIds) /\ cmd.refs \in Seq([old : GroupIds, new : GroupIds])
    BY <1>2 DEF Commands
<1> QED
    BY <1>1, <1>2, <1>3, CliTyped

LEMMA OffKeeps ==
    ASSUME CliInv, Off
    PROVE  CliInv'
<1> DEFINE S == IF cmd.op = "only" THEN Entries ELSE In(cmd.keep)
           P == IF cmd.op = "only" THEN "on" ELSE "list"
<1>1. /\ cmd.pc = "off" /\ library' = BulkEnable(S, FALSE) /\ cmd' = [cmd EXCEPT !.pc = P]
      /\ UNCHANGED <<groups, file>>
    BY DEF Off
<1>2. P \in {"on", "list"} /\ (cmd.op = "only" <=> P = "on") /\ (cmd.op = "only" => S = Entries)
    OBVIOUS
<1> HIDE DEF S, P
<1>3. /\ Commands(cmd') /\ cmd'.op = cmd.op /\ cmd'.pc = P /\ cmd'.keep = cmd.keep /\ cmd'.mine = cmd.mine
      /\ cmd'.touched = cmd.touched
    BY <1>1, <1>2, CommandFacts DEF Commands
<1>4. Todo(cmd')
    BY <1>2, <1>3 DEF Todo
<1>5. /\ CliTypeOK' /\ Entries' = Entries
      /\ \A r \in RuleIds : library'[r].at = library[r].at
      /\ \A r \in RuleIds : r \in S => library'[r].on = FALSE
    BY <1>1, <1>3, <1>4, CallIsExact, CommandFacts
<1>6. OnlyInv'
    <2>1. Entries \subseteq RuleIds
        BY DEF Entries
    <2> QED
        BY <1>2, <1>3, <1>5, <2>1 DEF OnlyInv
<1>7. RmInv'
    <2>1. \A g : In(g)' = In(g)
        BY <1>5 DEF In, Entries
    <2> QED
        BY <1>1, <1>2, <1>3, <1>5, <2>1 DEF RmInv, CliInv
<1>9. TakesInv'
    <2>1. In(cmd.keep)' = In(cmd.keep)
        <3>1. \A r \in Entries : library'[r].at = library[r].at
            BY <1>5 DEF Entries
        <3> QED
            BY <1>3, <1>5, <3>1 DEF In
    <2> QED
        BY <1>1, <1>2, <1>3, <2>1 DEF TakesInv, CliInv
<1>8. KeepInv' /\ TodoInv' /\ RefsInv' /\ MadeInv'
    BY <1>1, <1>2, <1>3 DEF CliInv, KeepInv, TodoInv, RefsInv, MadeInv
<1> QED
    BY <1>5, <1>6, <1>7, <1>8, <1>9 DEF CliInv

(* A call that is the last one.                                               *)
LEMMA LastCallKeeps ==
    ASSUME CliInv, On \/ Drop \/ ImportEnds \/ CallFails
    PROVE  CliInv'
<1>1. PICK code \in {"ok", "error"} : cmd' = Ended(cmd, code)
    BY DEF On, Drop, ImportEnds, CallFails
<1>2. Commands(cmd') /\ Todo(cmd') /\ cmd'.pc = "done"
    BY <1>1, CommandFacts, EndedCommand
<1>3. CliTypeOK'
    <2>1. CASE On
        <3>1. library' = BulkEnable(In(cmd.keep), cmd.op # "disable") /\ UNCHANGED <<groups, file>>
            BY <2>1 DEF On
        <3> DEFINE v == cmd.op # "disable"
        <3>2. v \in BOOLEAN /\ library' = BulkEnable(In(cmd.keep), v)
            BY <3>1
        <3> HIDE DEF v
        <3> QED
            BY <1>2, <3>1, <3>2, CallIsExact, CommandFacts
    <2>2. CASE Drop
        <3>1. library' = Detached(cmd.keep) /\ groups' = [groups EXCEPT ![cmd.keep] = Gone] /\ UNCHANGED file
            BY <2>2 DEF Drop
        <3>2. cmd.keep \in GroupIds
            BY <2>2 DEF Drop, CliInv, KeepInv
        <3> QED
            BY <1>2, <3>1, <3>2, DetachedIsExact, CommandFacts
    <2>3. CASE ImportEnds \/ CallFails
        <3>1. UNCHANGED <<groups, library, file>>
            BY <2>3 DEF ImportEnds, CallFails
        <3> QED
            BY <1>2, <3>1, SameLibrary, CommandFacts
    <2> QED
        BY <2>1, <2>2, <2>3
<1> QED
    BY <1>2, <1>3, NothingPending

LEMMA ListRulesKeeps ==
    ASSUME CliInv, ListRules
    PROVE  CliInv'
<1> DEFINE T == Listing(In(cmd.keep))
<1>1. cmd.pc = "list" /\ cmd' = [cmd EXCEPT !.pc = "delete", !.todo = T] /\ UNCHANGED <<groups, library, file>>
    BY DEF ListRules
<1>2. In(cmd.keep) \subseteq RuleIds /\ IsFiniteSet(In(cmd.keep))
    <2>1. In(cmd.keep) \subseteq RuleIds
        BY DEF In, Entries
    <2> QED
        BY <2>1, FS_Subset, CliAssumption
<1>3. /\ T \in Seq(RuleIds) /\ \A r \in In(cmd.keep) : \E i \in DOMAIN T : T[i] = r
      /\ \A i \in DOMAIN T : T[i] \in In(cmd.keep)
    <2>1. T \in Seq(In(cmd.keep)) /\ \A r \in In(cmd.keep) : \E i \in DOMAIN T : T[i] = r
        BY <1>2, ListingIsAll
    <2> HIDE DEF T
    <2>2. \A i \in DOMAIN T : T[i] \in In(cmd.keep)
        BY <2>1
    <2> QED
        BY <1>2, <2>1, <2>2
<1> HIDE DEF T
<1>4. /\ Commands(cmd') /\ cmd'.op = cmd.op /\ cmd'.pc = "delete" /\ cmd'.keep = cmd.keep /\ cmd'.mine = cmd.mine
      /\ cmd'.touched = cmd.touched /\ cmd'.todo = T
    BY <1>1, CommandFacts DEF Commands
<1>5. Todo(cmd')
    BY <1>3, <1>4 DEF Todo
<1>6. CliTypeOK'
    BY <1>1, <1>4, <1>5, SameLibrary, CommandFacts
<1>7. RmInv'
    <2>1. cmd.op = "rm_with_rules" => cmd.mine \cap Entries \subseteq cmd.touched \cup In(cmd.keep)
        BY <1>1 DEF RmInv, CliInv
    <2>2. Entries' = Entries
        BY <1>1 DEF Entries
    <2> QED
        BY <1>3, <1>4, <2>1, <2>2 DEF RmInv
<1>9. TakesInv'
    <2>1. cmd.op = "rm_with_rules" /\ In(cmd.keep) \subseteq cmd.mine \cup cmd.touched
        BY <1>1 DEF TakesInv, CliInv
    <2> QED
        BY <1>3, <1>4, <2>1 DEF TakesInv
<1>8. OnlyInv' /\ KeepInv' /\ TodoInv' /\ RefsInv' /\ MadeInv'
    BY <1>1, <1>4 DEF CliInv, OnlyInv, KeepInv, TodoInv, RefsInv, MadeInv
<1> QED
    BY <1>6, <1>7, <1>8, <1>9 DEF CliInv

LEMMA DeleteNextKeeps ==
    ASSUME CliInv, DeleteNext
    PROVE  CliInv'
<1>0. cmd.pc = "delete" /\ UNCHANGED <<groups, file>> /\ cmd.todo \in Seq(RuleIds)
    BY CommandFacts DEF DeleteNext, Todo
<1>1. CASE cmd.todo = <<>>
    <2>1. UNCHANGED library /\ cmd' = [cmd EXCEPT !.pc = "drop"]
        BY <1>1 DEF DeleteNext
    <2>2. /\ Commands(cmd') /\ cmd'.op = cmd.op /\ cmd'.pc = "drop" /\ cmd'.keep = cmd.keep /\ cmd'.mine = cmd.mine
          /\ cmd'.touched = cmd.touched
        BY <2>1, CommandFacts DEF Commands
    <2>3. Todo(cmd')
        BY <2>2 DEF Todo
    <2>4. CliTypeOK'
        BY <1>0, <2>1, <2>2, <2>3, SameLibrary, CommandFacts
    <2>5. RmInv'
        <3>1. Entries' = Entries
            BY <2>1 DEF Entries
        <3> QED
            BY <1>0, <1>1, <2>2, <3>1 DEF RmInv, CliInv
    <2>6. OnlyInv' /\ KeepInv' /\ TakesInv' /\ TodoInv' /\ RefsInv' /\ MadeInv'
        BY <1>0, <2>2 DEF CliInv, OnlyInv, KeepInv, TakesInv, TodoInv, RefsInv, MadeInv
    <2> QED
        BY <2>4, <2>5, <2>6 DEF CliInv
<1>2. CASE cmd.todo # <<>>
    <2> DEFINE h == Head(cmd.todo)
               T == Tail(cmd.todo)
               x == [NoEntry EXCEPT !.is = Gone]
    <2>1. library' = [library EXCEPT ![h] = x] /\ cmd' = [cmd EXCEPT !.todo = T]
        BY <1>2 DEF DeleteNext, Deleted
    <2>2. /\ h \in RuleIds /\ T \in Seq(RuleIds)
          /\ \A i \in DOMAIN cmd.todo : cmd.todo[i] = h \/ \E j \in DOMAIN T : T[j] = cmd.todo[i]
          /\ \A j \in DOMAIN T : \E i \in DOMAIN cmd.todo : T[j] = cmd.todo[i]
        <3>1. h \in RuleIds /\ T \in Seq(RuleIds) /\ h = cmd.todo[1]
            BY <1>0, <1>2
        <3>2. ASSUME NEW i \in DOMAIN cmd.todo, i # 1 PROVE i - 1 \in DOMAIN T /\ T[i - 1] = cmd.todo[i]
            BY <1>0, <1>2, <3>2
        <3>3. ASSUME NEW j \in DOMAIN T PROVE j + 1 \in DOMAIN cmd.todo /\ T[j] = cmd.todo[j + 1]
            BY <1>0, <1>2, <3>3
        <3> QED
            BY <3>1, <3>2, <3>3
    <2>3. x \in Entry /\ x.at = NoGroup /\ x.is # "here"
        BY DEF NoEntry, Entry, Gone, Unused
    <2> HIDE DEF h, T, x
    <2>4. /\ Commands(cmd') /\ cmd'.op = cmd.op /\ cmd'.pc = "delete" /\ cmd'.keep = cmd.keep /\ cmd'.mine = cmd.mine
          /\ cmd'.touched = cmd.touched /\ cmd'.todo = T
        BY <1>0, <2>1, CommandFacts DEF Commands
    <2>5. Todo(cmd')
        BY <2>2, <2>4 DEF Todo
    <2>6. /\ library' \in [RuleIds -> Entry]
          /\ \A r \in RuleIds : library'[r] = IF r = h THEN x ELSE library[r]
        BY <2>1, <2>2, <2>3, CommandFacts
    <2>7. CliTypeOK'
        <3>1. \A r \in RuleIds : library'[r].at \in Groups' \cup {NoGroup}
            BY <1>0, <2>3, <2>6, CommandFacts DEF Groups
        <3> QED
            BY <1>0, <2>4, <2>5, <2>6, <3>1, CommandFacts, CliTypedNext
    <2>8. RmInv'
        <3>1. \A r \in Entries' : r \in Entries /\ r # h
            BY <2>3, <2>6 DEF Entries
        <3> QED
            BY <1>0, <2>2, <2>4, <3>1 DEF RmInv, CliInv
    <2>10. TakesInv'
        BY <1>0, <2>2, <2>4 DEF TakesInv, CliInv
    <2>9. OnlyInv' /\ KeepInv' /\ TodoInv' /\ RefsInv' /\ MadeInv'
        BY <1>0, <2>4 DEF CliInv, OnlyInv, KeepInv, TodoInv, RefsInv, MadeInv
    <2> QED
        BY <2>7, <2>8, <2>9, <2>10 DEF CliInv
<1> QED
    BY <1>1, <1>2

LEMMA ExportsKeep ==
    ASSUME CliInv, ExportRules \/ ExportCollections
    PROVE  CliInv'
<1>0. UNCHANGED <<groups, library>>
    BY DEF ExportRules, ExportCollections
<1>1. CASE ExportRules
    <2> DEFINE L == Listing(Entries)
               F == [i \in DOMAIN L |-> [ref |-> library[L[i]].at, on |-> library[L[i]].on]]
    <2>1. file' = [NoFile EXCEPT !.rules = F] /\ cmd' = [cmd EXCEPT !.pc = "list collections"]
        BY <1>1 DEF ExportRules
    <2>2. L \in Seq(RuleIds)
        <3>1. Entries \subseteq RuleIds /\ IsFiniteSet(Entries)
            BY FS_Subset, CliAssumption DEF Entries
        <3> QED
            BY <3>1, ListingIsAll
    <2>3. F \in Seq(FileRules)
        <3>1. \A r \in RuleIds : [ref |-> library[r].at, on |-> library[r].on] \in FileRules
            BY CommandFacts DEF Entry, FileRules
        <3> HIDE DEF L
        <3>2. \A i \in DOMAIN L : L[i] \in RuleIds
            BY <2>2
        <3>3. F \in [1..Len(L) -> FileRules]
            BY <2>2, <3>1, <3>2
        <3> QED
            BY <2>2, <3>3
    <2> HIDE DEF F
    <2>4. file' \in [collections : Seq(FileRefs), rules : Seq(FileRules)]
        <3>1. file' = [collections |-> <<>>, rules |-> F]
            BY <2>1 DEF NoFile
        <3>2. <<>> \in Seq(FileRefs)
            OBVIOUS
        <3> QED
            BY <2>3, <3>1, <3>2
    <2>5. Commands(cmd') /\ cmd'.pc = "list collections"
        BY <2>1, CommandFacts DEF Commands
    <2>6. Todo(cmd')
        BY <2>5 DEF Todo
    <2>7. CliTypeOK'
        BY <1>0, <2>4, <2>5, <2>6, CommandFacts, CliTypedNext DEF Groups
    <2> QED
        BY <2>5, <2>7, NothingPending
<1>2. CASE ExportCollections
    <2> DEFINE L == Listing(Groups)
               F == [i \in DOMAIN L |-> [ref |-> L[i], name |-> groups[L[i]]]]
    <2>1. file' = [file EXCEPT !.collections = F] /\ cmd' = Ended(cmd, "ok")
        BY <1>2 DEF ExportCollections
    <2>2. L \in Seq(Groups)
        <3>1. Groups \subseteq GroupIds /\ IsFiniteSet(Groups)
            BY FS_Subset, CliAssumption DEF Groups
        <3> QED
            BY <3>1, ListingIsAll
    <2>3. F \in Seq(FileRefs)
        <3>1. \A g \in Groups : [ref |-> g, name |-> groups[g]] \in FileRefs
            BY CommandFacts DEF Groups, FileRefs
        <3> HIDE DEF L
        <3>2. \A i \in DOMAIN L : L[i] \in Groups
            BY <2>2
        <3>3. F \in [1..Len(L) -> FileRefs]
            BY <2>2, <3>1, <3>2
        <3> QED
            BY <2>2, <3>3
    <2> HIDE DEF F
    <2>4. file' \in [collections : Seq(FileRefs), rules : Seq(FileRules)]
        BY <2>1, <2>3, CommandFacts
    <2>5. Commands(cmd') /\ Todo(cmd') /\ cmd'.pc = "done"
        BY <2>1, CommandFacts, EndedCommand
    <2>6. CliTypeOK'
        BY <1>0, <2>4, <2>5, CommandFacts, CliTypedNext DEF Groups
    <2> QED
        BY <2>5, <2>6, NothingPending
<1> QED
    BY <1>1, <1>2

-----------------------------------------------------------------------------
(* Where a rule of the file goes: to the collection made last for its         *)
(* reference.                                                                 *)
LEMMA ImportedToMade ==
    ASSUME NEW refs \in Seq([old : GroupIds, new : GroupIds]), NEW ref
    PROVE  \/ /\ ImportedTo(refs, ref) = NoGroup
              /\ \A k \in 1..Len(refs) : refs[k].old # ref
           \/ \E k \in 1..Len(refs) : refs[k].old = ref /\ ImportedTo(refs, ref) = refs[k].new
<1> DEFINE S == {k \in DOMAIN refs : refs[k].old = ref}
           n == Len(refs)
           c == CHOOSE k \in S : \A l \in S : l <= k
<1>1. n \in Nat /\ DOMAIN refs = 1..n /\ S \in SUBSET (1..n)
    OBVIOUS
<1>2. ImportedTo(refs, ref) = IF S = {} THEN NoGroup ELSE refs[c].new
    BY DEF ImportedTo
<1>3. S # {} => c \in S
    <2> HIDE DEF S, n
    <2>1. S # {} => \E k \in S : \A l \in S : l <= k
        BY <1>1, LastPlace
    <2> QED
        BY <2>1
<1> HIDE DEF c
<1> QED
    BY <1>1, <1>2, <1>3

LEMMA ImportsRulesKeeps ==
    ASSUME CliInv, ImportsRules
    PROVE  CliInv'
<1>1. /\ cmd.pc = "collections" /\ cmd.todo = <<>> /\ cmd' = [cmd EXCEPT !.pc = "rules", !.todo = file.rules]
      /\ UNCHANGED <<groups, library, file>>
    BY DEF ImportsRules
<1>2. file.rules \in Seq(FileRules) /\ file.collections \in Seq(FileRefs)
    BY CommandFacts
<1>3. /\ Commands(cmd') /\ cmd'.op = cmd.op /\ cmd'.pc = "rules" /\ cmd'.todo = file.rules
      /\ cmd'.touched = cmd.touched /\ cmd'.refs = cmd.refs /\ cmd'.made = cmd.made
    BY <1>1, CommandFacts DEF Commands
<1>4. Todo(cmd')
    BY <1>2, <1>3 DEF Todo
<1>5. CliTypeOK'
    BY <1>1, <1>3, <1>4, SameLibrary, CommandFacts
<1>6. TodoInv'
    <2>1. cmd.made = <<>> /\ Len(cmd.refs) + Len(cmd.todo) = Len(file.collections) /\ Len(cmd.refs) \in Nat
        BY <1>1, CommandFacts DEF TodoInv, CliInv
    <2>2. Len(cmd.refs) = Len(file.collections)
        BY <1>1, <2>1
    <2>3. Len(cmd.made) = 0
        BY <2>1
    <2>4. Len(cmd'.refs) = Len(file'.collections)
        BY <1>1, <1>3, <2>2
    <2>5. Len(cmd'.made) + Len(cmd'.todo) = Len(file'.rules)
        <3>1. Len(cmd'.made) = 0 /\ cmd'.todo = file'.rules
            BY <1>1, <1>3, <2>3
        <3>2. Len(file'.rules) \in Nat
            BY <1>1, <1>2
        <3> QED
            BY <3>1, <3>2
    <2>6. \A k \in 1..Len(cmd'.todo) : cmd'.todo[k] = file'.rules[Len(cmd'.made) + k]
        <3>1. ASSUME NEW k \in 1..Len(cmd'.todo) PROVE Len(cmd'.made) + k = k
            <4>1. k \in Nat /\ Len(cmd'.made) = 0
                <5>1. Len(cmd'.made) = 0
                    BY <1>3, <2>3
                <5>2. cmd'.todo \in Seq(FileRules)
                    BY <1>2, <1>3
                <5> QED
                    BY <5>1, <5>2
            <4> QED
                BY <4>1
        <3>2. cmd'.todo = file'.rules
            BY <1>1, <1>3
        <3> QED
            BY <3>1, <3>2
    <2> QED
        BY <1>3, <2>4, <2>5, <2>6 DEF TodoInv
<1>7. RefsInv' /\ MadeInv'
    <2>1. cmd.made = <<>>
        BY <1>1 DEF TodoInv, CliInv
    <2>2. MadeInv'
        BY <1>3, <2>1 DEF MadeInv
    <2>3. \A g : In(g)' = In(g)
        BY <1>1 DEF In, Entries
    <2>4. RefsInv'
        BY <1>1, <1>3, <2>3 DEF RefsInv, CliInv
    <2> QED
        BY <2>2, <2>4
<1>8. OnlyInv' /\ KeepInv' /\ RmInv' /\ TakesInv'
    BY <1>3 DEF OnlyInv, KeepInv, RmInv, TakesInv
<1> QED
    BY <1>5, <1>6, <1>7, <1>8 DEF CliInv

LEMMA ImportCollectionKeeps ==
    ASSUME CliInv, ImportCollection
    PROVE  CliInv'
<1> DEFINE c == Head(cmd.todo)
           g == Smallest(FreeGroups)
           T == Tail(cmd.todo)
           R == Append(cmd.refs, [old |-> c.ref, new |-> g])
<1>1. /\ cmd.pc = "collections" /\ cmd.todo # <<>> /\ FreeGroups # {}
      /\ groups' = [groups EXCEPT ![g] = c.name] /\ cmd' = [cmd EXCEPT !.todo = T, !.refs = R]
      /\ UNCHANGED <<library, file>>
    BY DEF ImportCollection, Refs
<1>2. g \in GroupIds /\ groups[g] = Unused
    <2>1. FreeGroups \in SUBSET Nat
        BY CliAssumption DEF FreeGroups
    <2>2. g \in FreeGroups
        <3> HIDE DEF g
        <3>1. g = Smallest(FreeGroups)
            BY DEF g
        <3> QED
            BY <1>1, <2>1, <3>1, SmallestIsOne
    <2> QED
        BY <2>2 DEF FreeGroups
<1>3. cmd.todo \in Seq(FileRefs) /\ file.collections \in Seq(FileRefs)
    BY <1>1, CommandFacts DEF Todo
<1>4. c \in FileRefs /\ c = cmd.todo[1] /\ T \in Seq(FileRefs) /\ Len(cmd.todo) = Len(T) + 1 /\ Len(T) \in Nat
      /\ \A k \in 1..Len(T) : T[k] = cmd.todo[k + 1]
    BY <1>1, <1>3
<1>5. c.ref \in GroupIds /\ c.name \in Names
    BY <1>4 DEF FileRefs
<1> DEFINE n == Len(cmd.refs)
<1>6. /\ R \in Seq([old : GroupIds, new : GroupIds]) /\ Len(R) = n + 1 /\ n \in Nat
      /\ \A k \in 1..n : R[k] = cmd.refs[k]
      /\ R[n + 1].old = c.ref /\ R[n + 1].new = g
    <2> DEFINE x == [old |-> c.ref, new |-> g]
    <2>1. x \in [old : GroupIds, new : GroupIds] /\ x.old = c.ref /\ x.new = g
        BY <1>2, <1>5
    <2>2. cmd.refs \in Seq([old : GroupIds, new : GroupIds]) /\ R = Append(cmd.refs, x)
        BY CommandFacts
    <2> HIDE DEF x, c, g, R
    <2> QED
        BY <2>1, <2>2
<1> HIDE DEF c, g, T, R, n
<1>7. /\ Commands(cmd') /\ cmd'.op = cmd.op /\ cmd'.pc = "collections" /\ cmd'.todo = T
      /\ cmd'.touched = cmd.touched /\ cmd'.refs = R /\ cmd'.made = cmd.made
    BY <1>1, <1>6, CommandFacts DEF Commands
<1>8. Todo(cmd')
    BY <1>4, <1>7 DEF Todo
<1>9. /\ groups' \in [GroupIds -> Names \cup {Unused, Gone}]
      /\ \A h \in GroupIds : groups'[h] = IF h = g THEN c.name ELSE groups[h]
      /\ c.name \notin {Unused, Gone}
    <2>1. c.name \notin {Unused, Gone}
        BY <1>5, CliAssumption DEF Names
    <2> QED
        BY <1>1, <1>2, <1>5, <2>1, CommandFacts
<1>10. CliTypeOK'
    <2>1. \A h \in Groups : h \in Groups'
        BY <1>2, <1>9 DEF Groups
    <2>2. \A r \in RuleIds : library'[r].at \in Groups' \cup {NoGroup}
        BY <1>1, <2>1, CommandFacts
    <2> QED
        BY <1>1, <1>7, <1>8, <1>9, <2>2, CommandFacts, CliTypedNext
<1>11. /\ cmd.made = <<>> /\ n + Len(cmd.todo) = Len(file.collections)
       /\ \A k \in 1..Len(cmd.todo) : cmd.todo[k] = file.collections[n + k]
    BY <1>1 DEF TodoInv, CliInv, n
<1>12. TodoInv'
    <2>1. \A k \in 1..Len(T) : T[k] = file.collections[(n + 1) + k]
        <3>1. ASSUME NEW k \in 1..Len(T) PROVE k + 1 \in 1..Len(cmd.todo) /\ n + (k + 1) = (n + 1) + k
            BY <1>4, <1>6
        <3> QED
            BY <1>4, <1>11, <3>1
    <2>2. Len(R) + Len(T) = Len(file.collections)
        BY <1>4, <1>6, <1>11
    <2>3. cmd'.made = <<>>
        BY <1>7, <1>11
    <2>4. Len(cmd'.refs) + Len(cmd'.todo) = Len(file'.collections)
        BY <1>1, <1>7, <2>2
    <2>5. \A k \in 1..Len(cmd'.todo) : cmd'.todo[k] = file'.collections[Len(cmd'.refs) + k]
        BY <1>1, <1>6, <1>7, <2>1
    <2> QED
        BY <1>7, <2>3, <2>4, <2>5 DEF TodoInv
<1>13. RefsInv'
    <2>0. /\ \A k \in 1..n : cmd.refs[k].old = file.collections[k].ref
          /\ \A k \in 1..n : groups[cmd.refs[k].new] # Unused /\ cmd.refs[k].new \in GroupIds
          /\ \A k, l \in 1..n : cmd.refs[k].new = cmd.refs[l].new => k = l
          /\ \A k \in 1..n : \A r \in In(cmd.refs[k].new) : r \in cmd.touched
        <3>1. \A k \in 1..n : cmd.refs[k].new \in GroupIds
            <4>1. ASSUME NEW k \in 1..n PROVE cmd.refs[k] \in [old : GroupIds, new : GroupIds]
                <5> DEFINE X == [old : GroupIds, new : GroupIds]
                <5>1. cmd.refs \in Seq(X) /\ k \in 1..Len(cmd.refs)
                    BY <4>1, CommandFacts DEF n
                <5> HIDE DEF X
                <5>2. cmd.refs[k] \in X
                    BY <5>1
                <5> QED
                    BY <5>2 DEF X
            <4> QED
                BY <4>1
        <3> QED
            BY <1>1, <1>11, <3>1 DEF RefsInv, CliInv, n
    <2>1. \A k \in 1..Len(R) : k \in 1..n \/ k = n + 1
        BY <1>6
    <2>2. \A k \in 1..n : R[k].new # g
        BY <1>2, <1>6, <2>0
    <2>3. R[n + 1].old = file.collections[n + 1].ref
        <3>1. 1 \in 1..Len(cmd.todo)
            BY <1>4
        <3> QED
            BY <1>4, <1>6, <1>11, <3>1
    <2>4. Entries' = Entries /\ \A r \in Entries : r \in RuleIds /\ library[r].at # g
        <3>1. g # NoGroup /\ g \notin Groups
            BY <1>2, CliAssumption DEF Groups, NoGroup
        <3>2. \A r \in RuleIds : library[r].at # g
            BY <3>1, CommandFacts
        <3>3. Entries' = Entries
            BY <1>1 DEF Entries
        <3> QED
            BY <3>2, <3>3 DEF Entries
    <2>5. \A k \in 1..Len(R) : R[k].old = file.collections[k].ref
        BY <1>6, <2>0, <2>1, <2>3
    <2>6. \A k \in 1..Len(R) : groups'[R[k].new] # Unused
        BY <1>2, <1>6, <1>9, <2>0, <2>1
    <2>7. \A k, l \in 1..Len(R) : R[k].new = R[l].new => k = l
        BY <1>6, <2>0, <2>1, <2>2
    <2>8. ASSUME NEW k \in 1..Len(R), NEW r \in Entries, library[r].at = R[k].new
          PROVE  r \in cmd.touched
        <3>1. k \in 1..n /\ R[k] = cmd.refs[k]
            BY <1>6, <2>1, <2>4, <2>8
        <3>2. r \in In(cmd.refs[k].new)
            BY <2>8, <3>1 DEF In
        <3> QED
            BY <2>0, <3>1, <3>2
    <2>9. /\ \A k \in 1..Len(cmd'.refs) : cmd'.refs[k].old = file'.collections[k].ref
          /\ \A k \in 1..Len(cmd'.refs) : groups'[cmd'.refs[k].new] # Unused
          /\ \A k, l \in 1..Len(cmd'.refs) : cmd'.refs[k].new = cmd'.refs[l].new => k = l
        BY <1>1, <1>7, <2>5, <2>6, <2>7
    <2>10. \A k \in 1..Len(cmd'.refs) : \A r \in Entries' : library'[r].at = cmd'.refs[k].new => r \in cmd'.touched
        BY <1>1, <1>7, <2>4, <2>8
    <2> QED
        BY <2>9, <2>10 DEF RefsInv, In
<1>14. OnlyInv' /\ KeepInv' /\ RmInv' /\ TakesInv' /\ MadeInv'
    BY <1>7 DEF OnlyInv, KeepInv, RmInv, TakesInv, MadeInv
<1> QED
    BY <1>10, <1>12, <1>13, <1>14 DEF CliInv

LEMMA ImportRuleKeeps ==
    ASSUME CliInv, ImportRule
    PROVE  CliInv'
<1> DEFINE e == Head(cmd.todo)
           g == ImportedTo(cmd.refs, e.ref)
           r == Smallest(FreeRules)
           T == Tail(cmd.todo)
           M == Append(cmd.made, r)
           x == [at |-> g, on |-> e.on, is |-> "here"]
<1>1. cmd.pc = "rules" /\ cmd.todo # <<>> /\ FreeRules # {} /\ UNCHANGED <<groups, file>>
    BY DEF ImportRule
<1>2. CASE g \notin Groups \cup {NoGroup}
    <2>1. cmd' = Ended(cmd, "error") /\ UNCHANGED library
        BY <1>2 DEF ImportRule
    <2> HIDE DEF g
    <2>2. Commands(cmd') /\ Todo(cmd') /\ cmd'.pc = "done"
        BY <2>1, CommandFacts, EndedCommand
    <2>3. CliTypeOK'
        BY <1>1, <2>1, <2>2, SameLibrary, CommandFacts
    <2> QED
        BY <2>2, <2>3, NothingPending
<1>3. CASE g \in Groups \cup {NoGroup}
    <2>1. library' = [library EXCEPT ![r] = x] /\ cmd' = [cmd EXCEPT !.todo = T, !.made = M]
        BY <1>3 DEF ImportRule
    <2>2. r \in RuleIds /\ library[r].is = Unused
        <3>1. FreeRules \in SUBSET Nat
            BY CliAssumption DEF FreeRules
        <3>2. r \in FreeRules
            <4> HIDE DEF r
            <4>1. r = Smallest(FreeRules)
                BY DEF r
            <4> QED
                BY <1>1, <3>1, <4>1, SmallestIsOne
        <3> QED
            BY <3>2 DEF FreeRules
    <2>3. cmd.todo \in Seq(FileRules) /\ file.rules \in Seq(FileRules)
        BY <1>1, CommandFacts DEF Todo
    <2>4. /\ e \in FileRules /\ e = cmd.todo[1] /\ T \in Seq(FileRules) /\ Len(cmd.todo) = Len(T) + 1 /\ Len(T) \in Nat
          /\ \A k \in 1..Len(T) : T[k] = cmd.todo[k + 1]
        BY <1>1, <2>3
    <2>5. e.on \in BOOLEAN /\ g \in GroupIds \cup {NoGroup}
        BY <1>3, <2>4 DEF FileRules, Groups
    <2>6. x \in Entry /\ x.at = g /\ x.is = "here"
        BY <2>5 DEF Entry
    <2> DEFINE n == Len(cmd.made)
    <2>7. /\ M \in Seq(RuleIds) /\ Len(M) = n + 1 /\ n \in Nat
          /\ \A k \in 1..n : M[k] = cmd.made[k]
          /\ M[n + 1] = r
        <3>1. cmd.made \in Seq(RuleIds)
            BY CommandFacts
        <3> HIDE DEF r
        <3> QED
            BY <2>2, <3>1
    <2>e. g = ImportedTo(cmd.refs, e.ref)
        OBVIOUS
    <2> HIDE DEF e, g, r, T, M, x, n
    <2>8. /\ Commands(cmd') /\ cmd'.op = cmd.op /\ cmd'.pc = "rules" /\ cmd'.todo = T
          /\ cmd'.touched = cmd.touched /\ cmd'.refs = cmd.refs /\ cmd'.made = M
        BY <1>1, <2>1, <2>7, CommandFacts DEF Commands
    <2>9. Todo(cmd')
        BY <2>4, <2>8 DEF Todo
    <2>10. /\ library' \in [RuleIds -> Entry]
           /\ \A s \in RuleIds : library'[s] = IF s = r THEN x ELSE library[s]
        BY <2>1, <2>2, <2>6, CommandFacts
    <2>11. CliTypeOK'
        <3>1. \A s \in RuleIds : library'[s].at \in Groups' \cup {NoGroup}
            BY <1>1, <1>3, <2>6, <2>10, CommandFacts DEF Groups
        <3> QED
            BY <1>1, <2>8, <2>9, <2>10, <3>1, CommandFacts, CliTypedNext
    <2>12. /\ Len(cmd.refs) = Len(file.collections)
           /\ n + Len(cmd.todo) = Len(file.rules)
           /\ \A k \in 1..Len(cmd.todo) : cmd.todo[k] = file.rules[n + k]
        BY <1>1 DEF TodoInv, CliInv, n
    <2>13. TodoInv'
        <3>1. \A k \in 1..Len(T) : T[k] = file.rules[(n + 1) + k]
            <4>1. ASSUME NEW k \in 1..Len(T) PROVE k + 1 \in 1..Len(cmd.todo) /\ n + (k + 1) = (n + 1) + k
                BY <2>4, <2>7
            <4> QED
                BY <2>4, <2>12, <4>1
        <3>2. Len(M) + Len(T) = Len(file.rules)
            BY <2>4, <2>7, <2>12
        <3>3. Len(cmd'.refs) = Len(file'.collections)
            BY <1>1, <2>8, <2>12
        <3>4. Len(cmd'.made) + Len(cmd'.todo) = Len(file'.rules)
            BY <1>1, <2>8, <3>2
        <3>5. \A k \in 1..Len(cmd'.todo) : cmd'.todo[k] = file'.rules[Len(cmd'.made) + k]
            BY <1>1, <2>7, <2>8, <3>1
        <3> QED
            BY <2>8, <3>3, <3>4, <3>5 DEF TodoInv
    <2>14. \A s \in Entries' : s = r \/ (s \in Entries /\ library'[s] = library[s])
        <3>1. ASSUME NEW s \in Entries', s # r PROVE s \in Entries /\ library'[s] = library[s]
            <4>1. s \in RuleIds /\ library'[s].is = "here"
                BY <3>1 DEF Entries
            <4>2. library'[s] = library[s]
                BY <2>10, <3>1, <4>1
            <4> QED
                BY <4>1, <4>2 DEF Entries
        <3> QED
            BY <3>1
    <2>15. \A s \in Entries : s \in Entries' /\ library'[s] = library[s]
        BY <2>2, <2>10 DEF Entries, Unused
    <2>16. r \in Entries'
        BY <2>2, <2>6, <2>10 DEF Entries
    <2>17. \A k \in 1..Len(M) : k \in 1..n \/ k = n + 1
        BY <2>7
    <2>18. RefsInv'
        <3>1. /\ \A k \in 1..Len(cmd.refs) : cmd.refs[k].old = file.collections[k].ref
              /\ \A k \in 1..Len(cmd.refs) : groups[cmd.refs[k].new] # Unused
              /\ \A k, l \in 1..Len(cmd.refs) : cmd.refs[k].new = cmd.refs[l].new => k = l
              /\ \A k \in 1..Len(cmd.refs) : \A s \in In(cmd.refs[k].new) : s \in cmd.touched \/ \E i \in 1..n : cmd.made[i] = s
            BY <1>1 DEF RefsInv, CliInv, n
        <3>2. /\ \A k \in 1..Len(cmd'.refs) : cmd'.refs[k].old = file'.collections[k].ref
              /\ \A k \in 1..Len(cmd'.refs) : groups'[cmd'.refs[k].new] # Unused
              /\ \A k, l \in 1..Len(cmd'.refs) : cmd'.refs[k].new = cmd'.refs[l].new => k = l
            BY <1>1, <2>8, <3>1
        <3>3. ASSUME NEW k \in 1..Len(cmd.refs), NEW s \in Entries', library'[s].at = cmd.refs[k].new
              PROVE  s \in cmd.touched \/ \E i \in 1..Len(M) : M[i] = s
            <4>1. CASE s = r
                <5>1. n + 1 \in 1..Len(M)
                    BY <2>7
                <5> QED
                    BY <2>7, <4>1, <5>1
            <4>2. CASE s \in Entries /\ library'[s] = library[s]
                <5>1. s \in cmd.touched \/ \E i \in 1..n : cmd.made[i] = s
                    BY <3>1, <3>3, <4>2 DEF In
                <5>2. \A i \in 1..n : i \in 1..Len(M)
                    BY <2>7
                <5> QED
                    BY <2>7, <5>1, <5>2
            <4> QED
                BY <2>14, <4>1, <4>2
        <3>4. \A k \in 1..Len(cmd'.refs) : \A s \in Entries' :
                 library'[s].at = cmd'.refs[k].new => s \in cmd'.touched \/ \E i \in 1..Len(cmd'.made) : cmd'.made[i] = s
            BY <2>8, <3>3
        <3> QED
            BY <3>2, <3>4 DEF RefsInv, In
    <2>19. MadeInv'
        <3>1. \A i \in 1..n : /\ cmd.made[i] \in Entries
                              /\ cmd.made[i] \in cmd.touched \/ library[cmd.made[i]].at = ImportedTo(cmd.refs, file.rules[i].ref)
            BY <1>1 DEF MadeInv, CliInv, n
        <3>2. e = file.rules[n + 1]
            <4>1. 1 \in 1..Len(cmd.todo)
                BY <2>4
            <4> QED
                BY <2>4, <2>12, <4>1
        <3>3. library'[r].at = ImportedTo(cmd.refs, file.rules[n + 1].ref)
            BY <2>2, <2>6, <2>10, <2>e, <3>2
        <3>4. ASSUME NEW i \in 1..Len(M)
              PROVE  /\ M[i] \in Entries'
                     /\ M[i] \in cmd.touched \/ library'[M[i]].at = ImportedTo(cmd.refs, file.rules[i].ref)
            <4>1. CASE i = n + 1
                BY <2>7, <2>16, <3>3, <4>1
            <4>2. CASE i \in 1..n
                BY <2>7, <2>15, <3>1, <4>2
            <4> QED
                BY <2>17, <4>1, <4>2
        <3> QED
            BY <1>1, <2>8, <3>4 DEF MadeInv
    <2>20. OnlyInv' /\ KeepInv' /\ RmInv' /\ TakesInv'
        BY <2>8 DEF OnlyInv, KeepInv, RmInv, TakesInv
    <2> QED
        BY <2>11, <2>13, <2>18, <2>19, <2>20 DEF CliInv
<1> QED
    BY <1>2, <1>3

-----------------------------------------------------------------------------
(* The window: what it changes is remembered as touched.                      *)
LEMMA EditKeeps ==
    ASSUME CliInv, NEW C \in SUBSET RuleIds, cmd' = [cmd EXCEPT !.touched = @ \cup C], UNCHANGED file,
           library' \in [RuleIds -> Entry], groups' \in [GroupIds -> Names \cup {Unused, Gone}],
           \A r \in RuleIds : library'[r].at \in Groups' \cup {NoGroup},
           Entries' = Entries,
           \A r \in Entries \ C : library'[r] = library[r],
           \A h \in GroupIds : groups[h] # Unused => groups'[h] # Unused
    PROVE  CliInv'
<1>1. /\ Commands(cmd') /\ cmd'.op = cmd.op /\ cmd'.pc = cmd.pc /\ cmd'.todo = cmd.todo /\ cmd'.keep = cmd.keep
      /\ cmd'.mine = cmd.mine /\ cmd'.touched = cmd.touched \cup C /\ cmd'.refs = cmd.refs /\ cmd'.made = cmd.made
    BY CommandFacts DEF Commands
<1>2. Todo(cmd')
    BY <1>1, CommandFacts DEF Todo
<1>3. CliTypeOK'
    BY <1>1, <1>2, CommandFacts, CliTypedNext
<1>4. OnlyInv' /\ KeepInv'
    BY <1>1 DEF OnlyInv, KeepInv, CliInv
<1>5. RmInv'
    <2>1. cmd.op = "rm_with_rules" /\ cmd.pc \in {"off", "list"} =>
             cmd.mine \cap Entries \subseteq cmd.touched \cup In(cmd.keep)
        BY DEF RmInv, CliInv
    <2>2. cmd'.op = "rm_with_rules" /\ cmd'.pc \in {"off", "list"} =>
             \A r \in cmd'.mine \cap Entries' : r \in cmd'.touched \/ library'[r].at = cmd'.keep
        BY <1>1, <2>1 DEF In
    <2>3. /\ cmd'.op = "rm_with_rules" /\ cmd'.pc = "delete" =>
                \A r \in (cmd'.mine \cap Entries') \ cmd'.touched : \E i \in DOMAIN cmd'.todo : cmd'.todo[i] = r
          /\ cmd'.op = "rm_with_rules" /\ cmd'.pc = "drop" => cmd'.mine \cap Entries' \subseteq cmd'.touched
        BY <1>1 DEF RmInv, CliInv
    <2> QED
        BY <2>2, <2>3 DEF RmInv, In
<1>9. TakesInv'
    <2>1. ASSUME cmd.op = "rm_with_rules", cmd.pc \in {"off", "list"}, NEW r \in Entries', library'[r].at = cmd.keep
          PROVE  r \in cmd.mine \cup cmd'.touched
        <3>1. CASE r \in C
            BY <1>1, <3>1
        <3>2. CASE r \notin C
            <4>1. r \in In(cmd.keep)
                BY <2>1, <3>2 DEF In
            <4> QED
                BY <1>1, <2>1, <4>1 DEF TakesInv, CliInv
        <3> QED
            BY <3>1, <3>2
    <2>2. cmd'.op = "rm_with_rules" /\ cmd'.pc \in {"off", "list"} => In(cmd.keep)' \subseteq cmd'.mine \cup cmd'.touched
        BY <1>1, <2>1 DEF In
    <2>3. /\ cmd'.pc = "off" => cmd'.op \in {"only", "rm_with_rules"}
          /\ cmd'.pc \in {"list", "delete"} => cmd'.op = "rm_with_rules"
          /\ cmd'.pc = "delete" => \A i \in DOMAIN cmd'.todo : cmd'.todo[i] \in cmd'.mine \cup cmd'.touched
        BY <1>1 DEF TakesInv, CliInv
    <2> QED
        BY <1>1, <2>2, <2>3 DEF TakesInv
<1>6. TodoInv'
    <2>1. TodoInv
        BY DEF CliInv
    <2>2. cmd'.pc = "collections" =>
             /\ cmd'.made = <<>>
             /\ Len(cmd'.refs) + Len(cmd'.todo) = Len(file'.collections)
             /\ \A k \in 1..Len(cmd'.todo) : cmd'.todo[k] = file'.collections[Len(cmd'.refs) + k]
        BY <1>1, <2>1 DEF TodoInv
    <2>3. cmd'.pc = "rules" =>
             /\ Len(cmd'.refs) = Len(file'.collections)
             /\ Len(cmd'.made) + Len(cmd'.todo) = Len(file'.rules)
             /\ \A k \in 1..Len(cmd'.todo) : cmd'.todo[k] = file'.rules[Len(cmd'.made) + k]
        BY <1>1, <2>1 DEF TodoInv
    <2> QED
        BY <2>2, <2>3 DEF TodoInv
<1>7. CASE cmd.pc \in {"collections", "rules"}
    <2>1. /\ \A k \in 1..Len(cmd.refs) : cmd.refs[k].old = file.collections[k].ref
          /\ \A k \in 1..Len(cmd.refs) : groups[cmd.refs[k].new] # Unused
          /\ \A k, l \in 1..Len(cmd.refs) : cmd.refs[k].new = cmd.refs[l].new => k = l
          /\ \A k \in 1..Len(cmd.refs) : \A r \in Entries : library[r].at = cmd.refs[k].new =>
                r \in cmd.touched \/ \E i \in 1..Len(cmd.made) : cmd.made[i] = r
        BY <1>7 DEF RefsInv, CliInv, In
    <2>2. ASSUME NEW k \in 1..Len(cmd.refs) PROVE groups'[cmd.refs[k].new] # Unused
        <3> DEFINE X == [old : GroupIds, new : GroupIds]
        <3>1. cmd.refs \in Seq(X)
            BY CommandFacts
        <3> HIDE DEF X
        <3>2. cmd.refs[k] \in X
            BY <2>2, <3>1
        <3>3. cmd.refs[k].new \in GroupIds
            BY <3>2 DEF X
        <3> QED
            BY <2>1, <3>3
    <2>3. \A k \in 1..Len(cmd.refs) : \A r \in Entries : library'[r].at = cmd.refs[k].new =>
             r \in cmd.touched \cup C \/ \E i \in 1..Len(cmd.made) : cmd.made[i] = r
        BY <2>1
    <2>4. RefsInv'
        BY <1>1, <2>1, <2>2, <2>3 DEF RefsInv, In
    <2>5. MadeInv'
        BY <1>1 DEF MadeInv, CliInv
    <2> QED
        BY <1>3, <1>4, <1>5, <1>6, <1>9, <2>4, <2>5 DEF CliInv
<1>8. CASE cmd.pc \notin {"collections", "rules"}
    <2>1. RefsInv' /\ MadeInv'
        BY <1>1, <1>8 DEF RefsInv, MadeInv
    <2> QED
        BY <1>3, <1>4, <1>5, <1>6, <1>9, <2>1 DEF CliInv
<1> QED
    BY <1>7, <1>8

LEMMA WindowKeeps ==
    ASSUME CliInv, MoveInWindow \/ ToggleRule \/ DeleteGroup
    PROVE  CliInv'
<1>1. ASSUME NEW r \in Entries, NEW y \in Entry, library' = [library EXCEPT ![r] = y], y.is = "here",
             y.at \in Groups \cup {NoGroup}, Edit({r}), UNCHANGED groups
      PROVE  CliInv'
    <2>1. r \in RuleIds /\ library[r].is = "here"
        BY DEF Entries
    <2>2. /\ library' \in [RuleIds -> Entry]
          /\ \A s \in RuleIds : library'[s] = IF s = r THEN y ELSE library[s]
        BY <1>1, <2>1, CommandFacts
    <2>3. Entries' = Entries
        BY <1>1, <2>1, <2>2 DEF Entries
    <2>4. \A s \in Entries \ {r} : library'[s] = library[s]
        BY <2>2 DEF Entries
    <2>5. \A s \in RuleIds : library'[s].at \in Groups' \cup {NoGroup}
        BY <1>1, <2>2, CommandFacts DEF Groups
    <2>6. {r} \in SUBSET RuleIds /\ cmd' = [cmd EXCEPT !.touched = @ \cup {r}] /\ UNCHANGED file
        BY <1>1, <2>1 DEF Edit
    <2> QED
        BY <1>1, <2>2, <2>3, <2>4, <2>5, <2>6, CommandFacts, EditKeeps
<1>2. CASE MoveInWindow
    <2>1. PICK r \in Entries, g \in Groups \cup {NoGroup} :
             library' = [library EXCEPT ![r].at = g] /\ Edit({r}) /\ UNCHANGED groups
        BY <1>2 DEF MoveInWindow
    <2> DEFINE y == [library[r] EXCEPT !.at = g]
    <2>2. r \in RuleIds /\ library[r] \in Entry /\ library[r].is = "here" /\ g \in GroupIds \cup {NoGroup}
        BY CommandFacts DEF Entries, Groups
    <2>3. y \in Entry /\ y.is = "here" /\ y.at = g
        BY <2>2 DEF Entry
    <2>4. library' = [library EXCEPT ![r] = y]
        BY <2>1
    <2> HIDE DEF y
    <2> QED
        BY <1>1, <2>1, <2>3, <2>4
<1>3. CASE ToggleRule
    <2>1. PICK r \in Entries : library' = [library EXCEPT ![r].on = ~@] /\ Edit({r}) /\ UNCHANGED groups
        BY <1>3 DEF ToggleRule
    <2> DEFINE y == [library[r] EXCEPT !.on = ~@]
    <2>2. r \in RuleIds /\ library[r] \in Entry /\ library[r].is = "here" /\ library[r].at \in Groups \cup {NoGroup}
        BY CommandFacts DEF Entries
    <2>3. y \in Entry /\ y.is = "here" /\ y.at \in Groups \cup {NoGroup}
        BY <2>2 DEF Entry
    <2>4. library' = [library EXCEPT ![r] = y]
        BY <2>1
    <2> HIDE DEF y
    <2> QED
        BY <1>1, <2>1, <2>3, <2>4
<1>4. CASE DeleteGroup
    <2>1. PICK g \in Groups : /\ library' = Detached(g)
                              /\ groups' = [groups EXCEPT ![g] = Gone]
                              /\ Edit(In(g))
        BY <1>4 DEF DeleteGroup
    <2>2. g \in GroupIds /\ In(g) \in SUBSET RuleIds
        BY DEF Groups, In, Entries
    <2>3. cmd' = [cmd EXCEPT !.touched = @ \cup In(g)] /\ UNCHANGED file
        BY <2>1 DEF Edit
    <2>4. Commands(cmd') /\ Todo(cmd')
        <3>1. cmd.touched \cup In(g) \in SUBSET RuleIds
            BY <2>2, CommandFacts DEF Commands
        <3> QED
            BY <2>3, <3>1, CommandFacts DEF Commands, Todo
    <2>5. /\ CliTypeOK' /\ Entries' = Entries
          /\ \A r \in RuleIds : library[r].at # g => library'[r] = library[r]
          /\ \A h \in GroupIds : groups[h] # Unused => groups'[h] # Unused
        BY <2>1, <2>2, <2>3, <2>4, CommandFacts, DetachedIsExact
    <2>6. \A r \in Entries \ In(g) : library'[r] = library[r]
        BY <2>5 DEF In, Entries
    <2>7. /\ library' \in [RuleIds -> Entry] /\ groups' \in [GroupIds -> Names \cup {Unused, Gone}]
          /\ \A r \in RuleIds : library'[r].at \in Groups' \cup {NoGroup}
        BY <2>5 DEF CliTypeOK, Entry
    <2> QED
        BY <2>2, <2>3, <2>5, <2>6, <2>7, EditKeeps
<1> QED
    BY <1>2, <1>3, <1>4

-----------------------------------------------------------------------------
(* The whole specification.                                                   *)
LEMMA CliStarts ==
    ASSUME CliInit
    PROVE  CliInv
<1>1. /\ groups = [g \in GroupIds |-> IF g \in DOMAIN OldGroups THEN OldGroups[g] ELSE Unused]
      /\ library = [r \in RuleIds |-> IF r \in DOMAIN OldRules THEN [at |-> OldRules[r], on |-> TRUE, is |-> "here"] ELSE NoEntry]
      /\ file = [collections |-> <<>>, rules |-> <<>>]
      /\ cmd = NoCommand
    BY DEF CliInit, NoFile
<1>2. groups \in [GroupIds -> Names \cup {Unused, Gone}]
    BY <1>1 DEF Names
<1>3. DOMAIN OldGroups \subseteq Groups
    BY <1>1, CliAssumption DEF Groups
<1>4. \A r \in DOMAIN OldRules : OldRules[r] \in Groups \cup {NoGroup}
    BY <1>3, CliAssumption
<1>5. NoEntry \in Entry /\ NoEntry.at = NoGroup
    BY DEF NoEntry, Entry
<1>6. \A r \in DOMAIN OldRules : [at |-> OldRules[r], on |-> TRUE, is |-> "here"] \in Entry
    BY <1>4 DEF Entry, Groups
<1>7. library \in [RuleIds -> Entry]
    <2> HIDE DEF NoEntry, Entry
    <2> QED
        BY <1>1, <1>5, <1>6
<1>8. \A r \in RuleIds : library[r].at \in Groups \cup {NoGroup}
    BY <1>1, <1>4, <1>5
<1>9. file \in [collections : Seq(FileRefs), rules : Seq(FileRules)]
    BY <1>1
<1>10. Commands(cmd) /\ cmd.pc = "done"
    BY <1>1 DEF Commands, NoCommand, NoGroup
<1>11. Todo(cmd)
    BY <1>10 DEF Todo
<1>12. CliTypeOK
    BY <1>2, <1>7, <1>8, <1>9, <1>10, <1>11, CliTyped
<1> QED
    BY <1>10, <1>12 DEF CliInv, OnlyInv, KeepInv, RmInv, TakesInv, TodoInv, RefsInv, MadeInv

LEMMA CliStep ==
    ASSUME CliInv, [CliNext]_cliVars
    PROVE  CliInv'
<1>1. CASE TypeCommand
    BY <1>1, TypeCommandKeeps
<1>2. CASE ResolveCollection
    BY <1>2, ResolveKeeps
<1>3. CASE Off
    BY <1>3, OffKeeps
<1>4. CASE On \/ Drop \/ ImportEnds \/ CallFails
    BY <1>4, LastCallKeeps
<1>5. CASE ListRules
    BY <1>5, ListRulesKeeps
<1>6. CASE DeleteNext
    BY <1>6, DeleteNextKeeps
<1>7. CASE ExportRules \/ ExportCollections
    BY <1>7, ExportsKeep
<1>8. CASE ImportCollection
    BY <1>8, ImportCollectionKeeps
<1>9. CASE ImportsRules
    BY <1>9, ImportsRulesKeeps
<1>10. CASE ImportRule
    BY <1>10, ImportRuleKeeps
<1>11. CASE MoveInWindow \/ ToggleRule \/ DeleteGroup
    BY <1>11, WindowKeeps
<1>12. CASE UNCHANGED cliVars
    <2>1. UNCHANGED <<groups, library, file, cmd>>
        BY <1>12 DEF cliVars
    <2>2. CliTypeOK'
        BY <2>1, CommandFacts, SameLibrary
    <2>3. OnlyInv' /\ KeepInv' /\ TodoInv' /\ MadeInv'
        BY <2>1 DEF CliInv, OnlyInv, KeepInv, TodoInv, MadeInv, Entries
    <2>4. RmInv' /\ TakesInv' /\ RefsInv'
        BY <2>1 DEF CliInv, RmInv, TakesInv, RefsInv, In, Entries
    <2> QED
        BY <2>2, <2>3, <2>4 DEF CliInv
<1> QED
    BY <1>1, <1>2, <1>3, <1>4, <1>5, <1>6, <1>7, <1>8, <1>9, <1>10, <1>11, <1>12 DEF CliNext

(* Whatever the window does between two calls of a command, its progress fits *)
(* the rows: the invariant behind the next two.                               *)
THEOREM CommandInvariant == CliSpec => []CliInv
<1>1. CliInit => CliInv
    BY CliStarts
<1>2. CliInv /\ [CliNext]_cliVars => CliInv'
    BY CliStep
<1> QED
    BY <1>1, <1>2, PTL DEF CliSpec

(* Collections, rules, file and command are well typed, and every rule is in  *)
(* a collection that is there or in none.                                     *)
THEOREM CliTypeCorrect == CliSpec => []CliTypeOK
<1>1. CliInv => CliTypeOK
    BY DEF CliInv
<1> QED
    BY <1>1, CommandInvariant, PTL

-----------------------------------------------------------------------------
(* What holds when a command returns.                                         *)
LEMMA OnlyEnds ==
    ASSUME CliInv, On, cmd.op = "only"
    PROVE  \A r \in Entries \ cmd.touched : library'[r].on <=> library[r].at = cmd.keep
<1>1. cmd.pc = "on" /\ library' = BulkEnable(In(cmd.keep), TRUE) /\ UNCHANGED <<groups, file>>
    BY DEF On
<1>2. \A r \in RuleIds : library'[r].on = IF r \in In(cmd.keep) THEN TRUE ELSE library[r].on
    BY <1>1, CallIsExact, CommandFacts
<1>3. \A r \in Entries \ cmd.touched : ~library[r].on
    BY <1>1 DEF OnlyInv, CliInv
<1>4. ASSUME NEW r \in Entries \ cmd.touched PROVE library'[r].on <=> library[r].at = cmd.keep
    <2>1. r \in RuleIds
        BY DEF Entries
    <2>2. CASE r \in In(cmd.keep)
        BY <1>2, <2>1, <2>2 DEF In
    <2>3. CASE r \notin In(cmd.keep)
        <3>1. library[r].at # cmd.keep
            BY <2>3 DEF In
        <3>2. library'[r].on = library[r].on
            BY <1>2, <2>1, <2>3
        <3> QED
            BY <1>3, <3>1, <3>2
    <2> QED
        BY <2>2, <2>3
<1> QED
    BY <1>4

LEMMA RmEnds ==
    ASSUME CliInv, Drop, cmd.op = "rm_with_rules"
    PROVE  /\ cmd.mine \cap Entries \subseteq cmd.touched
           /\ \A r \in Entries : library'[r].at # cmd.keep
<1>1. /\ cmd.pc = "drop" /\ library' = Detached(cmd.keep) /\ groups' = [groups EXCEPT ![cmd.keep] = Gone]
      /\ UNCHANGED file
    BY DEF Drop
<1>2. cmd.keep \in GroupIds /\ cmd.keep # NoGroup
    BY <1>1, CliAssumption DEF KeepInv, CliInv, NoGroup
<1>3. /\ \A r \in RuleIds : library[r].at # cmd.keep => library'[r] = library[r]
      /\ \A r \in RuleIds : library[r].at = cmd.keep => library'[r].at = NoGroup
    BY <1>1, <1>2, DetachedIsExact, CommandFacts
<1>4. \A r \in Entries : library'[r].at # cmd.keep
    BY <1>2, <1>3 DEF Entries
<1>5. cmd.mine \cap Entries \subseteq cmd.touched
    BY <1>1 DEF RmInv, CliInv
<1> QED
    BY <1>4, <1>5

LEMMA NothingElseIsLost ==
    ASSUME CliInv, CliNext, NEW r \in Entries, library'[r].is # "here"
    PROVE  cmd.op = "rm_with_rules" /\ r \in cmd.mine \cup cmd.touched
<1>0. r \in RuleIds /\ library[r].is = "here" /\ library[r] \in Entry /\ library \in [RuleIds -> Entry]
    BY CommandFacts DEF Entries
<1>1. CASE DeleteNext
    <2>1. cmd.pc = "delete" /\ cmd.todo \in Seq(RuleIds)
        BY <1>1, CommandFacts DEF DeleteNext, Todo
    <2>2. cmd.todo # <<>> /\ library' = Deleted(Head(cmd.todo))
        BY <1>0, <1>1 DEF DeleteNext
    <2>3. 1 \in DOMAIN cmd.todo /\ Head(cmd.todo) = cmd.todo[1]
        BY <2>1, <2>2
    <2>4. r = cmd.todo[1]
        BY <1>0, <2>2, <2>3 DEF Deleted
    <2> QED
        BY <2>1, <2>3, <2>4 DEF CliInv, TakesInv
<1>2. CASE Off \/ On
    BY <1>0, <1>2 DEF Off, On, BulkEnable, Entry
<1>3. CASE Drop \/ DeleteGroup
    BY <1>0, <1>3 DEF Drop, DeleteGroup, Detached, Entry
<1>4. CASE MoveInWindow \/ ToggleRule
    <2>1. PICK q \in Entries : \E e : library' = [library EXCEPT ![q] = e] /\ e.is = library[q].is
        <3>1. CASE MoveInWindow
            <4>1. PICK q \in Entries, g \in Groups \cup {NoGroup} : library' = [library EXCEPT ![q].at = g]
                BY <3>1 DEF MoveInWindow
            <4>2. [library[q] EXCEPT !.at = g].is = library[q].is /\ library' = [library EXCEPT ![q] = [library[q] EXCEPT !.at = g]]
                BY <1>0, <4>1 DEF Entries, Entry
            <4> QED
                BY <4>2
        <3>2. CASE ToggleRule
            <4>1. PICK q \in Entries : library' = [library EXCEPT ![q].on = ~@]
                BY <3>2 DEF ToggleRule
            <4>2. /\ [library[q] EXCEPT !.on = ~library[q].on].is = library[q].is
                  /\ library' = [library EXCEPT ![q] = [library[q] EXCEPT !.on = ~library[q].on]]
                BY <1>0, <4>1 DEF Entries, Entry
            <4> QED
                BY <4>2
        <3> QED
            BY <1>4, <3>1, <3>2
    <2> QED
        BY <1>0, <2>1 DEF Entries
<1>5. CASE ImportRule
    <2>1. PICK n \in RuleIds : n = Smallest(FreeRules)
        <3>1. FreeRules # {} /\ FreeRules \subseteq Nat /\ FreeRules \subseteq RuleIds
            BY <1>5, CliAssumption DEF ImportRule, FreeRules
        <3> QED
            BY <3>1, SmallestIsOne
    <2>2. \/ library' = library
          \/ \E e : library' = [library EXCEPT ![n] = e] /\ e.is = "here"
        <3> DEFINE g == ImportedTo(cmd.refs, Head(cmd.todo).ref)
                   e == [at |-> g, on |-> Head(cmd.todo).on, is |-> "here"]
        <3>1. library' = library \/ library' = [library EXCEPT ![n] = e]
            BY <1>5, <2>1 DEF ImportRule
        <3>2. e.is = "here"
            OBVIOUS
        <3> HIDE DEF e
        <3> QED
            BY <3>1, <3>2
    <2> QED
        BY <1>0, <2>2
<1>6. CASE UNCHANGED library
    BY <1>0, <1>6
<1> QED
    BY <1>1, <1>2, <1>3, <1>4, <1>5, <1>6
    DEF CliNext, TypeCommand, ResolveCollection, ListRules, ExportRules, ExportCollections, ImportCollection,
        ImportsRules, ImportEnds, CallFails

LEMMA ImportEndsWell ==
    ASSUME CliInv, ImportEnds, NEW i \in Untouched
    PROVE  In(library[cmd.made[i]].at) \ cmd.touched
             = {cmd.made[j] : j \in {k \in Untouched : file.rules[k].ref = file.rules[i].ref}}
<1>1. cmd.pc = "rules" /\ cmd.todo = <<>>
    BY DEF ImportEnds
<1> DEFINE n == Len(cmd.made)
           c == Len(cmd.refs)
           To(ref) == ImportedTo(cmd.refs, ref)
<1>2. /\ c = Len(file.collections) /\ n = Len(file.rules) /\ n \in Nat /\ c \in Nat
      /\ DOMAIN cmd.made = 1..n /\ DOMAIN file.collections = 1..c
    <2>1. c = Len(file.collections) /\ n + 0 = Len(file.rules)
        BY <1>1 DEF TodoInv, CliInv
    <2>2. n \in Nat /\ c \in Nat /\ DOMAIN cmd.made = 1..n /\ DOMAIN file.collections = 1..Len(file.collections)
        BY CommandFacts
    <2> QED
        BY <2>1, <2>2
<1>3. /\ \A k \in 1..c : cmd.refs[k].old = file.collections[k].ref
      /\ \A k, l \in 1..c : cmd.refs[k].new = cmd.refs[l].new => k = l
      /\ \A k \in 1..c : \A r \in In(cmd.refs[k].new) : r \in cmd.touched \/ \E j \in 1..n : cmd.made[j] = r
    BY <1>1 DEF RefsInv, CliInv
<1>4. \A j \in 1..n : /\ cmd.made[j] \in Entries
                      /\ cmd.made[j] \in cmd.touched \/ library[cmd.made[j]].at = To(file.rules[j].ref)
    BY <1>1 DEF MadeInv, CliInv
<1>5. \A ref : \/ To(ref) = NoGroup /\ \A k \in 1..c : cmd.refs[k].old # ref
               \/ \E k \in 1..c : cmd.refs[k].old = ref /\ To(ref) = cmd.refs[k].new
    BY CommandFacts, ImportedToMade
<1>6. \A k \in 1..c : cmd.refs[k].new # NoGroup
    <2>1. ASSUME NEW k \in 1..c PROVE cmd.refs[k].new \in GroupIds
        <3> DEFINE X == [old : GroupIds, new : GroupIds]
        <3>1. cmd.refs \in Seq(X)
            BY CommandFacts
        <3> HIDE DEF X
        <3>2. cmd.refs[k] \in X
            BY <2>1, <3>1
        <3> QED
            BY <3>2 DEF X
    <2> QED
        BY <2>1, CliAssumption DEF NoGroup
<1> HIDE DEF n, c, To
<1>7. i \in 1..n /\ cmd.made[i] \notin cmd.touched /\ \E k \in 1..c : cmd.refs[k].old = file.rules[i].ref
    BY <1>2, <1>3 DEF Untouched, Known
<1>8. PICK k \in 1..c : cmd.refs[k].old = file.rules[i].ref /\ To(file.rules[i].ref) = cmd.refs[k].new
    BY <1>5, <1>7
<1>9. library[cmd.made[i]].at = cmd.refs[k].new
    BY <1>4, <1>7, <1>8
<1>10. \A j \in 1..n : cmd.made[j] \notin cmd.touched =>
          /\ library[cmd.made[j]].at = cmd.refs[k].new <=> file.rules[j].ref = file.rules[i].ref
          /\ file.rules[j].ref = file.rules[i].ref => j \in Untouched
    <2>1. ASSUME NEW j \in 1..n, cmd.made[j] \notin cmd.touched
          PROVE  library[cmd.made[j]].at = To(file.rules[j].ref)
        BY <1>4, <2>1
    <2>2. ASSUME NEW j \in 1..n, To(file.rules[j].ref) = cmd.refs[k].new
          PROVE  file.rules[j].ref = file.rules[i].ref
        <3>1. PICK l \in 1..c : cmd.refs[l].old = file.rules[j].ref /\ To(file.rules[j].ref) = cmd.refs[l].new
            BY <1>5, <1>6, <2>2
        <3>2. l = k
            BY <1>3, <2>2, <3>1
        <3> QED
            BY <1>8, <3>1, <3>2
    <2>3. ASSUME NEW j \in 1..n, cmd.made[j] \notin cmd.touched, file.rules[j].ref = file.rules[i].ref
          PROVE  j \in Untouched
        BY <1>2, <1>3, <1>8, <2>3 DEF Untouched, Known
    <2> QED
        BY <1>8, <2>1, <2>2, <2>3
<1> DEFINE mates == In(library[cmd.made[i]].at) \ cmd.touched
           ours  == {cmd.made[j] : j \in {l \in Untouched : file.rules[l].ref = file.rules[i].ref}}
<1>11. ASSUME NEW r \in mates PROVE r \in ours
    <2>1. PICK j \in 1..n : cmd.made[j] = r
        BY <1>3, <1>9, <1>11
    <2>2. library[r].at = cmd.refs[k].new /\ r \notin cmd.touched
        BY <1>9, <1>11 DEF In
    <2> QED
        BY <1>10, <2>1, <2>2
<1>12. ASSUME NEW j \in Untouched, file.rules[j].ref = file.rules[i].ref PROVE cmd.made[j] \in mates
    <2>1. j \in 1..n /\ cmd.made[j] \notin cmd.touched
        BY <1>2 DEF Untouched
    <2> QED
        BY <1>4, <1>9, <1>10, <1>12, <2>1 DEF In
<1> HIDE DEF mates
<1>13. mates = ours
    BY <1>11, <1>12
<1> QED
    BY <1>13 DEF mates

(* `only` leaves the rules of its collection on and all others off, `rm       *)
(* --with-rules` leaves none of its collection and deletes none of another    *)
(* one, and an import groups its rules as the file does: for any collections, *)
(* rules and names, whatever is clicked in the window meanwhile, but for the  *)
(* rules that are clicked.                                                    *)
THEOREM CommandsMeanIt == CliSpec => CommandsDoWhatTheySay
<1>1. CliInv => (On /\ cmd.op = "only" =>
                   \A r \in Entries \ cmd.touched : library'[r].on <=> library[r].at = cmd.keep)
    BY OnlyEnds
<1>2. CliInv => (Drop /\ cmd.op = "rm_with_rules" =>
                   /\ cmd.mine \cap Entries \subseteq cmd.touched
                   /\ \A r \in Entries : library'[r].at # cmd.keep)
    BY RmEnds
<1>3. CliInv => (ImportEnds =>
                   \A i \in Untouched :
                       LET mates == In(library[cmd.made[i]].at) \ cmd.touched IN
                       mates = {cmd.made[j] : j \in {k \in Untouched : file.rules[k].ref = file.rules[i].ref}})
    BY ImportEndsWell
<1>4. CliSpec => OnlyMeansOnly
    BY <1>1, CommandInvariant, PTL DEF OnlyMeansOnly
<1>5. CliSpec => RmTakesItsRules
    BY <1>2, CommandInvariant, PTL DEF RmTakesItsRules
<1>6. CliSpec => ImportKeepsGroups
    BY <1>3, CommandInvariant, PTL DEF ImportKeepsGroups
<1>7. CliInv /\ [CliNext]_cliVars =>
        [\A r \in Entries : library'[r].is # "here" =>
            cmd.op = "rm_with_rules" /\ r \in cmd.mine \cup cmd.touched]_cliVars
    BY NothingElseIsLost DEF cliVars
<1>8. CliSpec => RmTakesNoOther
    BY <1>7, CommandInvariant, PTL DEF RmTakesNoOther, CliSpec
<1> QED
    BY <1>4, <1>5, <1>6, <1>8 DEF CommandsDoWhatTheySay

=============================================================================
