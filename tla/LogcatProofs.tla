-------------------------- MODULE LogcatProofs --------------------------
(***************************************************************************)
(* What is proved about log lines: how the table is filled and pruned      *)
(* (LogcatStore), that a filter on an app never shows another one          *)
(* (LogcatFilter), and that the window shows what was asked for            *)
(* (LogcatView).                                                           *)
(***************************************************************************)
EXTENDS LogcatView, LogcatFilter, FiniteSetTheorems, WellFoundedInduction, TLAPS

-----------------------------------------------------------------------------
(* A set of numbers has a least member, and a bounded one a largest.          *)
LEMMA LeastExists ==
    ASSUME NEW T \in SUBSET Nat, T # {}
    PROVE  \E x \in T : \A y \in T : x <= y
<1> DEFINE R == OpToRel(<, Nat)
<1>1. IsWellFoundedOn(R, Nat)
    BY NatLessThanWellFounded
<1>2. \A x, y \in Nat : y < x => <<y, x>> \in R
    BY DEF OpToRel
<1> HIDE DEF R
<1>3. PICK x \in T : \A y \in T : ~(<<y, x>> \in R)
    BY <1>1, WFMin, Zenon
<1>4. \A y \in T : ~(y < x)
    BY <1>2, <1>3
<1> QED
    BY <1>4

LEMMA MaxExists ==
    ASSUME NEW S \in SUBSET Nat, S # {}, NEW n \in Nat, \A y \in S : y <= n
    PROVE  Max(S) \in S /\ \A y \in S : y <= Max(S)
<1> DEFINE T == {n - y : y \in S}
<1>1. \A y \in S : n - y \in Nat
    OBVIOUS
<1>2. T \in SUBSET Nat /\ T # {}
    BY <1>1
<1>3. PICK x \in T : \A y \in T : x <= y
    BY <1>2, LeastExists
<1>4. PICK m \in S : x = n - m
    BY <1>3
<1>5. \A y \in S : n - m <= n - y
    BY <1>3, <1>4
<1>6. \A y \in S : m >= y
    BY <1>5
<1> QED
    BY <1>6 DEF Max

-----------------------------------------------------------------------------
(* While a trim is under way and its device was not cleared, enough newer     *)
(* rows of that device are there.                                             *)
TrimInv ==
    prune.pc = "trim" /\ ~prune.cleared =>
        Cardinality({q \in Of(prune.serial) : q.id > prune.floor}) >= Cap

StoreInv == StoreTypeOK /\ TrimInv

LEMMA FewIds ==
    ASSUME NEW S, \A r \in S : r.id \in 1..MaxId, \A r, q \in S : r.id = q.id => r = q
    PROVE  IsFiniteSet(S)
<1> DEFINE f == [r \in S |-> r.id]
<1>1. IsFiniteSet(1..MaxId)
    BY StoreAssumption, FS_Interval
<1>2. f \in [S -> 1..MaxId] /\ \A r, q \in S : f[r] = f[q] => r = q
    OBVIOUS
<1>3. f \in Injection(S, 1..MaxId)
    BY <1>2 DEF Injection, IsInjective
<1> QED
    BY <1>1, <1>3, FS_Injection

LEMMA RowsAreFinite ==
    ASSUME StoreTypeOK, NEW R \in SUBSET rows
    PROVE  IsFiniteSet(R) /\ Cardinality(R) \in Nat
<1>1. IsFiniteSet(rows)
    BY FewIds DEF StoreTypeOK
<1> QED
    BY <1>1, FS_Subset, FS_CardinalityType

LEMMA TopIsOnTop ==
    ASSUME StoreTypeOK
    PROVE  Top \in Nat /\ \A r \in rows : r.id <= Top
<1> DEFINE S == Ids(rows) \cup {0}
<1>1. MaxId \in Nat
    BY StoreAssumption
<1>2. S \in SUBSET Nat /\ S # {} /\ \A y \in S : y <= MaxId
    <2>1. \A r \in rows : r.id \in Nat /\ r.id <= MaxId
        <3>1. \A r \in rows : r.id \in 1..MaxId
            BY DEF StoreTypeOK
        <3> QED
            BY <1>1, <3>1
    <2>2. \A y \in S : y = 0 \/ \E r \in rows : y = r.id
        BY DEF Ids
    <2>3. 0 \in Nat /\ 0 <= MaxId /\ 0 \in S
        BY <1>1
    <2>4. \A y \in S : y \in Nat /\ y <= MaxId
        BY <2>1, <2>2, <2>3
    <2> QED
        BY <2>3, <2>4
<1>3. Max(S) \in S /\ \A y \in S : y <= Max(S)
    <2> HIDE DEF S
    <2> QED
        BY <1>1, <1>2, MaxExists
<1>4. Max(S) \in Nat
    BY <1>2, <1>3
<1> QED
    BY <1>3, <1>4 DEF Top, Ids

(* The ids of a batch are above its base, and no two lines share one.         *)
LEMMA NumberedIds ==
    ASSUME NEW batch \in SUBSET (1..MaxLine), NEW base \in Nat
    PROVE  /\ \A n \in batch : Cardinality({m \in batch : m <= n}) \in Nat \ {0}
           /\ \A n, k \in batch : Cardinality({m \in batch : m <= n}) = Cardinality({m \in batch : m <= k}) => n = k
<1> DEFINE upTo(n) == {m \in batch : m <= n}
<1>0. MaxLine \in Nat /\ batch \subseteq Nat
    BY StoreAssumption
<1>1. IsFiniteSet(batch)
    <2>1. IsFiniteSet(1..MaxLine)
        BY <1>0, FS_Interval
    <2> QED
        BY <2>1, FS_Subset
<1>2. \A n \in batch : IsFiniteSet(upTo(n)) /\ Cardinality(upTo(n)) \in Nat
    BY <1>1, FS_Subset, FS_CardinalityType
<1>3. ASSUME NEW n \in batch PROVE Cardinality(upTo(n)) # 0
    <2>1. n \in upTo(n)
        BY <1>0
    <2> QED
        BY <1>2, <2>1, FS_EmptySet
<1>4. ASSUME NEW n \in batch, NEW k \in batch, n < k
      PROVE  Cardinality(upTo(n)) < Cardinality(upTo(k))
    <2>1. upTo(n) \subseteq upTo(k) /\ k \in upTo(k) /\ k \notin upTo(n)
        <3>1. n \in Nat /\ k \in Nat /\ batch \subseteq Nat
            BY <1>0
        <3>2. \A m \in batch : m <= n => m <= k
            BY <1>4, <3>1
        <3>3. k <= k /\ ~(k <= n)
            BY <1>4, <3>1
        <3> QED
            BY <3>2, <3>3
    <2>2. Cardinality(upTo(n)) <= Cardinality(upTo(k)) /\ (Cardinality(upTo(n)) = Cardinality(upTo(k)) => upTo(n) = upTo(k))
        <3> HIDE DEF upTo
        <3> QED
            BY <1>2, <2>1, FS_Subset
    <2> QED
        BY <1>2, <2>1, <2>2
<1>5. \A n, k \in batch : n = k \/ n < k \/ k < n
    BY <1>0
<1> QED
    BY <1>2, <1>3, <1>4, <1>5

-----------------------------------------------------------------------------
LEMMA StoreInitially == StoreInit => StoreInv
<1> SUFFICES ASSUME StoreInit PROVE StoreInv
    OBVIOUS
<1>1. StoreTypeOK
    <2>1. /\ Resting.pc = "rest" /\ Resting.cutoff = 0 /\ Resting.left = {} /\ Resting.serial = ""
          /\ Resting \in [pc : {"rest", "age", "serials", "floor", "trim"}, cutoff : Nat, left : SUBSET Phones,
                          serial : Phones \cup {""}, floor : Nat, cleared : BOOLEAN]
        BY DEF Resting
    <2>2. cursor \in [Phones -> Nat \ {0}]
        BY DEF StoreInit
    <2>3. rows = {} /\ age = 0 /\ prune = Resting /\ clears = 0 /\ topId = 0
        BY DEF StoreInit
    <2> QED
        BY <2>1, <2>2, <2>3 DEF StoreTypeOK
<1>2. TrimInv
    BY DEF StoreInit, TrimInv, Resting
<1> QED
    BY <1>1, <1>2 DEF StoreInv

(* Rows may be taken out as long as the ones a trim counts on stay.           *)
LEMMA FewerRows ==
    ASSUME StoreTypeOK, rows' \subseteq rows, UNCHANGED <<cursor, age, topId>>, clears' \in Nat,
           prune' \in [pc : {"rest", "age", "serials", "floor", "trim"}, cutoff : Nat, left : SUBSET Phones,
                       serial : Phones \cup {""}, floor : Nat, cleared : BOOLEAN]
    PROVE  StoreTypeOK'
BY DEF StoreTypeOK

LEMMA BatchKeeps ==
    ASSUME StoreInv, NEW s \in Phones, Batch(s)
    PROVE  StoreInv'
<1>0. /\ StoreTypeOK /\ TrimInv /\ MaxLine \in Nat /\ MaxId \in Nat
      /\ age \in Nat /\ clears \in Nat /\ topId \in Nat /\ cursor \in [Phones -> Nat \ {0}]
    BY StoreAssumption DEF StoreInv, StoreTypeOK
<1>1. PICK last \in cursor[s]..MaxLine :
          /\ rows' = InsertOrIgnore(s, cursor[s]..last)
          /\ cursor' = [cursor EXCEPT ![s] = last + 1]
    BY DEF Batch
<1>2. /\ \A r \in rows' : r.id <= MaxId
      /\ topId' = Max(Ids(rows') \cup {topId})
      /\ UNCHANGED <<age, prune, clears>>
    BY DEF Batch
<1> DEFINE batch == (cursor[s]..last) \ Stored(s)
           count(n) == Cardinality({m \in batch : m <= n})
           New == Numbered(s, batch, Top)
<1>3. cursor[s] \in Nat \ {0} /\ last \in Nat /\ batch \in SUBSET (1..MaxLine)
    BY <1>0, <1>1
<1>4. Top \in Nat /\ \A r \in rows : r.id <= Top
    BY <1>0, TopIsOnTop
<1>5. /\ \A n \in batch : count(n) \in Nat \ {0}
      /\ \A n, k \in batch : count(n) = count(k) => n = k
    <2>1. batch \in SUBSET (1..MaxLine)
        BY <1>3
    <2> HIDE DEF batch
    <2> QED
        BY <2>1, <1>4, NumberedIds
<1>6. rows' = rows \cup New
    BY <1>1 DEF InsertOrIgnore
<1>7. \A r \in New : \E n \in batch : r = [id |-> Top + count(n), serial |-> s, line |-> n, at |-> age]
    BY DEF Numbered
<1>8. \A n \in batch : \A r \in rows : ~(r.serial = s /\ r.line = n)
    BY DEF Stored, Of
<1> HIDE DEF batch, count, New
<1>9. \A r \in New : /\ r.id \in Nat /\ r.id > Top /\ r.serial = s /\ r.line \in batch /\ r.at = age
    BY <1>4, <1>5, <1>7
<1>10. \A r, q \in New : r.id = q.id \/ r.line = q.line => r = q
    <2>1. SUFFICES ASSUME NEW r \in New, NEW q \in New, r.id = q.id \/ r.line = q.line
                   PROVE  r = q
        OBVIOUS
    <2>2. PICK n \in batch : r = [id |-> Top + count(n), serial |-> s, line |-> n, at |-> age]
        BY <1>7
    <2>3. PICK k \in batch : q = [id |-> Top + count(k), serial |-> s, line |-> k, at |-> age]
        BY <1>7
    <2>4. count(n) \in Nat /\ count(k) \in Nat /\ (count(n) = count(k) => n = k)
        BY <1>5
    <2>5. n = k
        BY <1>4, <2>1, <2>2, <2>3, <2>4
    <2> QED
        BY <2>2, <2>3, <2>5
<1>11. /\ \A r \in rows : r.id \in 1..MaxId /\ r.serial \in Phones /\ r.line \in 1..MaxLine /\ r.at \in 0..age
       /\ \A r, q \in rows : r.id = q.id \/ (r.serial = q.serial /\ r.line = q.line) => r = q
    BY <1>0 DEF StoreTypeOK
<1>12. \A r \in rows' : r.id \in 1..MaxId /\ r.serial \in Phones /\ r.line \in 1..MaxLine /\ r.at \in 0..age'
    <2>1. ASSUME NEW r \in New
          PROVE  r.id \in 1..MaxId /\ r.serial \in Phones /\ r.line \in 1..MaxLine /\ r.at \in 0..age
        <3>1. r.id <= MaxId
            BY <1>2, <1>6
        <3> QED
            <4>1. r.id \in Nat /\ r.id > Top /\ r.serial = s /\ r.line \in batch /\ r.at = age
                BY <1>9
            <4>2. r.id \in 1..MaxId
                BY <1>0, <1>4, <3>1, <4>1
            <4>3. r.line \in 1..MaxLine
                BY <1>3, <4>1
            <4>4. r.at \in 0..age
                BY <1>0, <4>1
            <4> QED
                BY <4>1, <4>2, <4>3, <4>4
    <2> QED
        BY <1>2, <1>6, <1>11, <2>1
<1>13. \A r, q \in rows' : r.id = q.id \/ (r.serial = q.serial /\ r.line = q.line) => r = q
    <2>1. ASSUME NEW r \in New, NEW q \in rows
          PROVE  r.id # q.id /\ ~(r.serial = q.serial /\ r.line = q.line)
        <3>1. r.id > q.id
            BY <1>0, <1>4, <1>9, <1>11
        <3>2. r.id # q.id
            BY <1>0, <1>4, <1>9, <1>11
        <3>3. ~(r.serial = q.serial /\ r.line = q.line)
            BY <1>8, <1>9
        <3> QED
            BY <3>2, <3>3
    <2> QED
        BY <1>6, <1>10, <1>11, <2>1
<1>14. topId' \in Nat
    <2> DEFINE S == Ids(rows') \cup {topId}
    <2>1. \A y \in S : y \in Nat /\ (y <= MaxId \/ y = topId)
        BY <1>0, <1>12 DEF Ids
    <2>2. S \in SUBSET Nat /\ S # {} /\ \A y \in S : y <= MaxId + topId
        BY <1>0, <2>1
    <2>3. Max(S) \in S
        <3> HIDE DEF S
        <3> QED
            BY <1>0, <2>2, MaxExists
    <2> QED
        BY <1>2, <2>1, <2>3
<1>15. cursor' \in [Phones -> Nat \ {0}]
    BY <1>0, <1>1, <1>3
<1>16. StoreTypeOK'
    BY <1>0, <1>2, <1>12, <1>13, <1>14, <1>15 DEF StoreTypeOK
<1>17. TrimInv'
    <2> DEFINE kept == {q \in Of(prune.serial) : q.id > prune.floor}
    <2>1. kept \subseteq kept'
        BY <1>2, <1>6 DEF Of
    <2>2. IsFiniteSet(kept') /\ Cardinality(kept') \in Nat
        <3>1. kept' \subseteq rows'
            BY DEF Of
        <3>2. IsFiniteSet(rows')
            BY <1>12, <1>13, FewIds
        <3> QED
            BY <3>1, <3>2, FS_Subset, FS_CardinalityType
    <2>3. Cardinality(kept) \in Nat
        BY <1>0, RowsAreFinite DEF Of
    <2>4. Cardinality(kept) <= Cardinality(kept')
        BY <2>1, <2>2, FS_Subset
    <2>5. Cap \in Nat
        BY StoreAssumption
    <2> QED
        BY <1>0, <1>2, <2>2, <2>3, <2>4, <2>5 DEF TrimInv
<1> QED
    BY <1>16, <1>17 DEF StoreInv

LEMMA RedumpKeeps ==
    ASSUME StoreInv, NEW s \in Phones, Redump(s)
    PROVE  StoreInv'
<1>1. /\ cursor \in [Phones -> Nat \ {0}] /\ RingSize \in Nat
      /\ cursor' = [cursor EXCEPT ![s] = IF @ > RingSize THEN @ - RingSize ELSE 1]
    BY StoreAssumption DEF StoreInv, StoreTypeOK, Redump
<1>2. (IF cursor[s] > RingSize THEN cursor[s] - RingSize ELSE 1) \in Nat \ {0}
    BY <1>1
<1>3. cursor' \in [Phones -> Nat \ {0}]
    BY <1>1, <1>2
<1>4. UNCHANGED <<rows, age, prune, clears, topId>>
    BY DEF Redump
<1> QED
    BY <1>3, <1>4 DEF StoreInv, StoreTypeOK, TrimInv, Of

LEMMA AgesKeeps == StoreInv /\ Ages => StoreInv'
<1> SUFFICES ASSUME StoreInv, Ages PROVE StoreInv'
    OBVIOUS
<1>1. age \in Nat /\ age' = age + 1 /\ UNCHANGED <<rows, cursor, prune, clears, topId>>
    BY DEF Ages, StoreInv, StoreTypeOK
<1>2. \A n : n \in 0..age => n \in 0..age'
    BY <1>1
<1>3. StoreTypeOK'
    <2>1. age' \in Nat
        BY <1>1
    <2>2. \A r \in rows : r.at \in 0..age => r.at \in 0..age'
        BY <1>2
    <2> QED
        BY <1>1, <2>1, <2>2 DEF StoreInv, StoreTypeOK
<1> QED
    BY <1>1, <1>3 DEF StoreInv, TrimInv, Of

Passes == [pc : {"rest", "age", "serials", "floor", "trim"}, cutoff : Nat, left : SUBSET Phones,
           serial : Phones \cup {""}, floor : Nat, cleared : BOOLEAN]

LEMMA PassTyped == StoreInv => prune \in Passes /\ StoreTypeOK /\ TrimInv /\ age \in Nat /\ clears \in Nat
BY DEF StoreInv, StoreTypeOK, Passes

LEMMA RowNumbers ==
    ASSUME StoreInv
    PROVE  /\ \A r \in rows : r.id \in 1..MaxId /\ r.id \in Nat /\ r.id <= MaxId /\ r.at \in Nat
           /\ MaxId \in Nat /\ prune.floor \in Nat /\ prune.cutoff \in Nat
<1>1. MaxId \in Nat /\ age \in Nat
    BY PassTyped, StoreAssumption
<1>2. \A r \in rows : r.id \in 1..MaxId /\ r.at \in 0..age
    BY PassTyped DEF StoreTypeOK
<1>3. prune.floor \in Nat /\ prune.cutoff \in Nat
    BY PassTyped DEF Passes
<1> QED
    BY <1>1, <1>2, <1>3

LEMMA ClearPhoneKeeps ==
    ASSUME StoreInv, NEW s \in Phones, ClearPhone(s)
    PROVE  StoreInv'
<1>1. /\ rows' = rows \ Of(s) /\ clears' = clears + 1 /\ UNCHANGED <<cursor, age, topId>>
      /\ prune' = [prune EXCEPT !.cleared = @ \/ s = prune.serial]
    BY DEF ClearPhone
<1>2. /\ prune' \in Passes /\ prune'.pc = prune.pc /\ prune'.serial = prune.serial /\ prune'.floor = prune.floor
      /\ prune'.cleared = (prune.cleared \/ s = prune.serial)
    BY <1>1, PassTyped DEF Passes
<1>3. StoreTypeOK'
    <2>1. rows' \subseteq rows /\ clears' \in Nat
        BY <1>1, PassTyped
    <2> QED
        BY <1>1, <1>2, <2>1, PassTyped, FewerRows DEF Passes
<1>4. TrimInv'
    <2>1. SUFFICES ASSUME prune.pc = "trim", ~prune.cleared, s # prune.serial
                   PROVE  Cardinality({q \in Of(prune.serial)' : q.id > prune.floor}) >= Cap
        BY <1>2 DEF TrimInv, Of
    <2>2. Of(prune.serial)' = Of(prune.serial)
        BY <1>1, <1>2, <2>1 DEF Of
    <2> QED
        BY <2>1, <2>2, PassTyped DEF TrimInv
<1> QED
    BY <1>3, <1>4 DEF StoreInv

LEMMA RestOfPruneKeeps ==
    ASSUME StoreInv, PruneBegins \/ PruneAge \/ PruneSerials \/ PruneEnds
    PROVE  StoreInv'
<1>1. /\ prune' \in Passes /\ prune'.pc # "trim"
      /\ rows' \subseteq rows /\ UNCHANGED <<cursor, age, clears, topId>>
    <2>1. CASE PruneBegins
        BY <2>1, PassTyped DEF PruneBegins, Goes, Passes
    <2>2. CASE PruneAge
        <3>1. rows' \subseteq rows /\ UNCHANGED <<cursor, age, clears, topId>>
            BY <2>2 DEF PruneAge, Goes
        <3>2. prune' = [prune EXCEPT !.pc = "serials"] \/ prune' = [prune EXCEPT !.pc = "age"]
            BY <2>2 DEF PruneAge, Goes
        <3> QED
            BY <3>1, <3>2, PassTyped DEF Passes
    <2>3. CASE PruneSerials
        <3> DEFINE S == {r.serial : r \in rows}
        <3>1. S \in SUBSET Phones
            BY PassTyped DEF StoreTypeOK
        <3>2. /\ prune' = [prune EXCEPT !.pc = "floor", !.left = S]
              /\ rows' = rows /\ UNCHANGED <<cursor, age, clears, topId>>
            BY <2>3 DEF PruneSerials, Goes
        <3> HIDE DEF S
        <3> QED
            BY <3>1, <3>2, PassTyped DEF Passes
    <2>4. CASE PruneEnds
        BY <2>4 DEF PruneEnds, Goes, Resting, Passes
    <2> QED
        BY <2>1, <2>2, <2>3, <2>4
<1>2. StoreTypeOK'
    BY <1>1, PassTyped, FewerRows DEF Passes
<1> QED
    BY <1>1, <1>2 DEF StoreInv, TrimInv

(* The floor leaves Cap rows of the device above it.                          *)
LEMMA FloorLeavesCap ==
    ASSUME StoreInv, NEW s
    PROVE  /\ Floor(s) \in Nat
           /\ Floor(s) # 0 => Cardinality({q \in Of(s) : q.id > Floor(s)}) >= Cap
<1> DEFINE F == {q \in Of(s) : Cardinality({p \in Of(s) : p.id > q.id}) >= Cap}
           S == {r.id : r \in F} \cup {0}
<1>0. MaxId \in Nat
    BY StoreAssumption
<1>1. \A q \in F : q \in rows /\ Cardinality({p \in Of(s) : p.id > q.id}) >= Cap
    BY DEF Of
<1>2. \A q \in rows : q.id \in Nat /\ q.id <= MaxId
    BY RowNumbers
<1>3. \A y \in S : y = 0 \/ \E q \in F : y = q.id
    OBVIOUS
<1>4. 0 \in S
    OBVIOUS
<1>5. Floor(s) = Max(S)
    BY DEF Floor
<1> HIDE DEF F, S
<1>6. S \in SUBSET Nat /\ S # {} /\ \A y \in S : y <= MaxId
    <2>1. \A q \in F : q.id \in Nat /\ q.id <= MaxId
        BY <1>1, <1>2
    <2>2. 0 \in Nat /\ 0 <= MaxId
        BY <1>0
    <2>3. \A y \in S : y \in Nat /\ y <= MaxId
        BY <1>3, <2>1, <2>2
    <2> QED
        BY <1>4, <2>3
<1>7. Floor(s) \in S
    BY <1>0, <1>5, <1>6, MaxExists
<1>8. ASSUME Floor(s) # 0 PROVE Cardinality({q \in Of(s) : q.id > Floor(s)}) >= Cap
    <2>1. PICK q \in F : Floor(s) = q.id
        BY <1>3, <1>7, <1>8
    <2>2. Cardinality({p \in Of(s) : p.id > q.id}) >= Cap
        BY <1>1
    <2> QED
        BY <2>1, <2>2
<1> QED
    BY <1>6, <1>7, <1>8

LEMMA PruneFloorKeeps == StoreInv /\ PruneFloor => StoreInv'
<1> SUFFICES ASSUME StoreInv, PruneFloor PROVE StoreInv'
    OBVIOUS
<1>1. PICK s \in prune.left :
          Goes([prune EXCEPT !.left = @ \ {s}, !.serial = s, !.floor = Floor(s), !.cleared = FALSE,
                             !.pc = IF Floor(s) = 0 THEN "floor" ELSE "trim"])
    BY DEF PruneFloor
<1>2. UNCHANGED <<rows, cursor, age, clears, topId>>
    BY <1>1 DEF PruneFloor, Goes
<1> DEFINE f == Floor(s)
<1>3. f \in Nat /\ (f # 0 => Cardinality({q \in Of(s) : q.id > f}) >= Cap)
    BY PassTyped, FloorLeavesCap
<1>4. prune' = [prune EXCEPT !.left = @ \ {s}, !.serial = s, !.floor = f, !.cleared = FALSE,
                             !.pc = IF f = 0 THEN "floor" ELSE "trim"]
    BY <1>1 DEF Goes
<1> HIDE DEF f
<1>5. s \in Phones
    BY PassTyped DEF Passes
<1>6. /\ prune'.pc = IF f = 0 THEN "floor" ELSE "trim"
      /\ prune'.serial = s /\ prune'.floor = f /\ prune'.left = prune.left \ {s}
      /\ prune' = [pc |-> IF f = 0 THEN "floor" ELSE "trim", cutoff |-> prune.cutoff, left |-> prune.left \ {s},
                   serial |-> s, floor |-> f, cleared |-> FALSE]
    BY <1>4, PassTyped DEF Passes
<1>7. prune' \in Passes
    <2> DEFINE x == IF f = 0 THEN "floor" ELSE "trim"
               L == prune.left \ {s}
    <2>1. x \in {"floor", "trim"} /\ prune.cutoff \in Nat /\ L \in SUBSET Phones
        BY PassTyped DEF Passes
    <2>2. prune' = [pc |-> x, cutoff |-> prune.cutoff, left |-> L, serial |-> s, floor |-> f, cleared |-> FALSE]
        BY <1>6
    <2> HIDE DEF x, L
    <2> QED
        BY <1>3, <1>5, <2>1, <2>2 DEF Passes
<1>8. StoreTypeOK'
    BY <1>2, <1>7, PassTyped, FewerRows DEF Passes
<1>9. TrimInv'
    BY <1>2, <1>3, <1>6 DEF TrimInv, Of
<1> QED
    BY <1>8, <1>9 DEF StoreInv

LEMMA PruneTrimKeeps == StoreInv /\ PruneTrim => StoreInv'
<1> SUFFICES ASSUME StoreInv, PruneTrim PROVE StoreInv'
    OBVIOUS
<1> DEFINE over == {r \in Of(prune.serial) : r.id <= prune.floor}
<1>1. /\ prune.pc = "trim" /\ rows' = rows \ Lowest(over) /\ UNCHANGED <<cursor, age, clears, topId>>
      /\ prune' = [prune EXCEPT !.pc = "floor"] \/ prune' = [prune EXCEPT !.pc = "trim"]
    BY DEF PruneTrim, Goes
<1>2. /\ prune' \in Passes /\ prune'.serial = prune.serial /\ prune'.floor = prune.floor
      /\ prune'.cleared = prune.cleared
    BY <1>1, PassTyped DEF Passes
<1>3. StoreTypeOK'
    BY <1>1, <1>2, PassTyped, FewerRows DEF Passes
<1>4. {q \in Of(prune.serial) : q.id > prune.floor} = {q \in Of(prune.serial)' : q.id > prune.floor}
    <2>1. \A r \in Lowest(over) : r \in rows /\ r.id <= prune.floor
        BY DEF Lowest, Of
    <2>2. prune.floor \in Nat /\ \A r \in rows : r.id \in Nat
        BY RowNumbers
    <2>3. \A r \in Lowest(over) : ~(r.id > prune.floor)
        BY <2>1, <2>2
    <2> HIDE DEF over
    <2>4. Of(prune.serial)' = {r \in rows \ Lowest(over) : r.serial = prune.serial}
        BY <1>1, <1>2 DEF Of
    <2> QED
        BY <2>3, <2>4 DEF Of
<1>5. TrimInv'
    BY <1>1, <1>2, <1>4, PassTyped DEF TrimInv, Of
<1> QED
    BY <1>3, <1>5 DEF StoreInv

LEMMA StoreStays == StoreInv /\ UNCHANGED storeVars => StoreInv'
BY DEF StoreInv, StoreTypeOK, TrimInv, Of, storeVars

LEMMA StoreStep == StoreInv /\ [StoreNext]_storeVars => StoreInv'
BY BatchKeeps, RedumpKeeps, ClearPhoneKeeps, AgesKeeps, RestOfPruneKeeps, PruneFloorKeeps, PruneTrimKeeps, StoreStays
DEF StoreNext, Prune

LEMMA StoreInductive == StoreSpec => []StoreInv
BY StoreInitially, StoreStep, PTL DEF StoreSpec

(* Ids are unique and a line of a device is stored once (logcat.rs, the       *)
(* UNIQUE index that INSERT OR IGNORE runs into).                             *)
THEOREM StoreTypeCorrect == StoreSpec => []StoreTypeOK
<1>1. StoreInv => StoreTypeOK
    BY DEF StoreInv
<1> QED
    BY <1>1, StoreInductive, PTL

-----------------------------------------------------------------------------
(* The rows a trim deletes have Cap newer ones of their device beside them.   *)
LEMMA TrimSpares ==
    ASSUME StoreInv, PruneTrim, ~prune.cleared, NEW r \in rows \ rows'
    PROVE  Cardinality({q \in Of(r.serial) : q.id > r.id}) >= Cap
<1>1. prune.pc = "trim" /\ r \in Of(prune.serial) /\ r.id <= prune.floor
    BY DEF PruneTrim, Lowest
<1>2. r.serial = prune.serial
    BY <1>1 DEF Of
<1>3. prune.floor \in Nat /\ \A q \in rows : q.id \in Nat
    BY RowNumbers
<1> DEFINE A == {q \in Of(prune.serial) : q.id > prune.floor}
           B == {q \in Of(r.serial) : q.id > r.id}
<1>4. A \subseteq B /\ B \subseteq rows /\ A \subseteq rows
    BY <1>1, <1>2, <1>3 DEF Of
<1>5. IsFiniteSet(B) /\ Cardinality(B) \in Nat /\ Cardinality(A) \in Nat
    BY <1>4, PassTyped, RowsAreFinite
<1>6. Cardinality(A) <= Cardinality(B)
    BY <1>4, <1>5, FS_Subset
<1>7. Cardinality(A) >= Cap
    BY <1>1, PassTyped DEF TrimInv
<1> QED
    BY <1>5, <1>6, <1>7, StoreAssumption

(* A chunk that was not full takes all there is.                              *)
LEMMA LastChunk ==
    ASSUME StoreInv, NEW R \in SUBSET rows, Final(R)
    PROVE  Lowest(R) = R
<1>1. IsFiniteSet(R) /\ Cardinality(R) \in Nat
    BY PassTyped, RowsAreFinite
<1>2. ASSUME NEW r \in R PROVE r \in Lowest(R)
    <2> DEFINE B == {q \in R : q.id < r.id}
    <2>1. B \subseteq R
        OBVIOUS
    <2>2. IsFiniteSet(B) /\ Cardinality(B) \in Nat /\ Cardinality(B) <= Cardinality(R)
        BY <1>1, <2>1, FS_Subset, FS_CardinalityType
    <2> QED
        BY <1>1, <2>2, StoreAssumption DEF Final, Lowest
<1> QED
    BY <1>2 DEF Lowest

LEMMA LoopsEmpty ==
    ASSUME StoreInv, [StoreNext]_storeVars
    PROVE  /\ prune.pc = "age" /\ prune'.pc # "age" => \A r \in rows' : r.at >= prune.cutoff
           /\ prune.pc = "trim" /\ prune'.pc # "trim" =>
                  \A r \in rows' : r.serial = prune.serial => r.id > prune.floor
<1>1. CASE PruneAge
    <2> DEFINE old == {r \in rows : r.at < prune.cutoff}
    <2>1. PICK gone \in (IF Cardinality(old) <= Chunk THEN {old} ELSE kSubset(Chunk, old)) :
              /\ rows' = rows \ gone
              /\ prune' = [prune EXCEPT !.pc = IF Final(old) THEN "serials" ELSE "age"]
        BY <1>1 DEF PruneAge, Goes
    <2>2. prune.pc = "age" /\ prune'.pc = IF Final(old) THEN "serials" ELSE "age"
        BY <1>1, <2>1, PassTyped DEF PruneAge, Passes
    <2>3. ASSUME Final(old) PROVE \A r \in rows' : r.at >= prune.cutoff
        <3>1. Cardinality(old) \in Nat /\ Chunk \in Nat
            BY PassTyped, RowsAreFinite, StoreAssumption
        <3>2. Cardinality(old) <= Chunk
            BY <2>3, <3>1 DEF Final
        <3>3. rows' = rows \ old
            BY <2>1, <3>2
        <3>4. prune.cutoff \in Nat /\ \A r \in rows : r.at \in Nat
            BY RowNumbers
        <3> QED
            BY <3>3, <3>4
    <2> QED
        BY <2>2, <2>3
<1>2. CASE PruneTrim
    <2> DEFINE over == {r \in Of(prune.serial) : r.id <= prune.floor}
    <2>1. rows' = rows \ Lowest(over) /\ prune' = [prune EXCEPT !.pc = IF Final(over) THEN "floor" ELSE "trim"]
        BY <1>2 DEF PruneTrim, Goes
    <2>2. prune.pc = "trim" /\ prune'.pc = IF Final(over) THEN "floor" ELSE "trim"
        BY <1>2, <2>1, PassTyped DEF PruneTrim, Passes
    <2>3. ASSUME Final(over) PROVE \A r \in rows' : r.serial = prune.serial => r.id > prune.floor
        <3>1. over \in SUBSET rows
            BY DEF Of
        <3>2. rows' = rows \ over
            BY <2>1, <2>3, <3>1, LastChunk
        <3>3. prune.floor \in Nat /\ \A r \in rows : r.id \in Nat
            BY RowNumbers
        <3> QED
            BY <3>2, <3>3 DEF Of
    <2> QED
        BY <2>2, <2>3
<1>3. CASE ~PruneAge /\ ~PruneTrim
    <2>1. prune.pc \in {"age", "trim"} => prune'.pc = prune.pc
        <3>1. ASSUME NEW s \in Phones, Batch(s) \/ Redump(s) \/ ClearPhone(s) PROVE prune'.pc = prune.pc
            BY <3>1, PassTyped DEF Batch, Redump, ClearPhone, Passes
        <3>2. ASSUME Ages PROVE prune'.pc = prune.pc
            BY <3>2 DEF Ages
        <3>3. ASSUME PruneBegins \/ PruneSerials \/ PruneFloor \/ PruneEnds PROVE prune.pc \notin {"age", "trim"}
            BY <3>3 DEF PruneBegins, PruneSerials, PruneFloor, PruneEnds
        <3>4. ASSUME UNCHANGED storeVars PROVE prune'.pc = prune.pc
            BY <3>4 DEF storeVars
        <3> QED
            BY <1>3, <3>1, <3>2, <3>3, <3>4 DEF StoreNext, Prune
    <2> QED
        BY <2>1
<1> QED
    BY <1>1, <1>2, <1>3

(* Retention spares the newest Cap rows of a device and leaves its loops only *)
(* when all they set out to delete is gone (prune_logcat, prune_chunked).     *)
THEOREM RetentionIsExact == StoreSpec => PruneIsExact
<1>1. ASSUME StoreInv, [StoreNext]_storeVars
      PROVE  /\ [PruneTrim /\ ~prune.cleared =>
                   \A r \in rows \ rows' : Cardinality({q \in Of(r.serial) : q.id > r.id}) >= Cap]_storeVars
             /\ [/\ prune.pc = "age" /\ prune'.pc # "age" => \A r \in rows' : r.at >= prune.cutoff
                 /\ prune.pc = "trim" /\ prune'.pc # "trim" =>
                        \A r \in rows' : r.serial = prune.serial => r.id > prune.floor]_storeVars
    BY <1>1, TrimSpares, LoopsEmpty
<1> QED
    BY <1>1, StoreInductive, PTL DEF StoreSpec, PruneIsExact, TrimSparesTheNewest, LoopsDeleteAll

-----------------------------------------------------------------------------
(* What is shown passed the query, under the processes known by then; what is *)
(* known of a pid is never forgotten.                                         *)
Passed(r) ==
    /\ r \in LogRows
    /\ \A t \in Tokens : SqlToken(t, r)
    /\ AppTerms(FALSE) # {} => r.pid \in PidsOf(AppTerms(FALSE))

LogFilterInv ==
    /\ wanted \in LogFilters
    /\ \A r \in shownRows : Passed(r)

LEMMA TokensTyped ==
    ASSUME wanted \in LogFilters, NEW t \in Tokens
    PROVE  \A v \in Vals(t) : v.neg \in BOOLEAN
BY LogFilterAssumption DEF Tokens, Vals

(* The app: terms without a minus.                                            *)
LEMMA AppTermsAre ==
    ASSUME wanted \in LogFilters, TsCompiles
    PROVE  \A v : v \in AppTerms(FALSE) <=> AsksFor(v)
<1>1. \A v : v \in AppTerms(FALSE) <=> \E t \in Tokens : t.key = "app" /\ v \in Vals(t) /\ v.neg = FALSE
    BY DEF AppTerms
<1>2. \A t \in Tokens : \A v \in Vals(t) : v.neg = FALSE <=> ~v.neg
    BY TokensTyped
<1> QED
    BY <1>1, <1>2 DEF AsksFor, Plus

LEMMA NarrowsStep == LogFilterInv => AppNarrows
<1> SUFFICES ASSUME LogFilterInv, TsCompiles,
                    NEW t \in Tokens, t.key = "app", Plus(t) # {}, NEW r \in shownRows
             PROVE  \E v \in UNION {Plus(u) : u \in Tokens} : AsksFor(v) /\ names[r.pid] \cap AppPart[v.app] # {}
    BY DEF AppNarrows
<1>1. AppTerms(FALSE) # {}
    BY AppTermsAre DEF LogFilterInv, AsksFor
<1>2. r.pid \in PidsOf(AppTerms(FALSE))
    BY <1>1 DEF LogFilterInv, Passed
<1>3. PICK v \in AppTerms(FALSE) : names[r.pid] \cap AppPart[v.app] # {}
    BY <1>2 DEF PidsOf
<1>4. AsksFor(v)
    BY AppTermsAre DEF LogFilterInv
<1> QED
    BY <1>3, <1>4 DEF AsksFor

-----------------------------------------------------------------------------
LEMMA LogFilterInitially == LogFilterInit => LogFilterInv
BY DEF LogFilterInit, LogFilterInv

LEMMA RequeryKeeps == LogFilterInv /\ Requery => LogFilterInv'
<1> SUFFICES ASSUME LogFilterInv, Requery PROVE LogFilterInv'
    OBVIOUS
<1>1. UNCHANGED <<wanted, names>>
    BY DEF Requery
<1>2. ASSUME NEW r \in LogRows, InQuery(r) PROVE Passed(r)
    <2>1. ASSUME AppTerms(FALSE) # {} PROVE r.pid \in PidsOf(AppTerms(FALSE))
        <3>1. r.pid \in Pids /\ r.pid # NoSuchPid
            BY LogFilterAssumption
        <3> DEFINE P == PidsOf(AppTerms(FALSE))
        <3>2. Include = IF P = {} THEN {NoSuchPid} ELSE P
            BY <2>1 DEF Include
        <3> HIDE DEF P
        <3>3. r.pid \in Include
            BY <1>2, <3>2 DEF InQuery
        <3>4. r.pid \in P
            BY <3>1, <3>2, <3>3
        <3> QED
            BY <3>4 DEF P
    <2> QED
        BY <1>2, <2>1 DEF InQuery, Passed
<1>3. \A r \in shownRows' : Passed(r)
    BY <1>2 DEF Requery, LogFilterInv
<1>4. \A r : Passed(r) => Passed(r)'
    BY <1>1 DEF Passed, Tokens, AppTerms, PidsOf, TsCompiles, Refused
<1> QED
    BY <1>1, <1>3, <1>4 DEF LogFilterInv

LEMMA LogFilterStep == LogFilterInv /\ [LogFilterNext]_logFilterVars => LogFilterInv'
<1> SUFFICES ASSUME LogFilterInv, [LogFilterNext]_logFilterVars PROVE LogFilterInv'
    OBVIOUS
<1>1. CASE Requery
    BY <1>1, RequeryKeeps
<1>2. ASSUME UNCHANGED <<wanted, shownRows>>, \A p \in Pids : names[p] \subseteq names'[p]
      PROVE  LogFilterInv'
    <2>1. AppTerms(FALSE)' = AppTerms(FALSE) /\ Tokens' = Tokens
        BY <1>2 DEF AppTerms, Tokens, TsCompiles, Refused
    <2>2. \A vs : PidsOf(vs) \subseteq {p \in Pids : \E v \in vs : names'[p] \cap AppPart[v.app] # {}}
        BY <1>2 DEF PidsOf
    <2>3. \A r : Passed(r) => Passed(r)'
        <3> DEFINE A == AppTerms(FALSE)
        <3>1. A' = A
            BY <2>1
        <3> HIDE DEF A
        <3>2. PidsOf(A) \subseteq PidsOf(A)'
            BY <2>2, <3>1 DEF PidsOf
        <3>3. \A t, r : SqlToken(t, r)' = SqlToken(t, r)
            BY DEF SqlToken
        <3> QED
            BY <2>1, <3>1, <3>2, <3>3 DEF Passed, A
    <2> QED
        BY <1>2, <2>3 DEF LogFilterInv
<1>3. CASE PidTick
    <2>1. /\ UNCHANGED <<wanted, shownRows>> /\ names' = [p \in Pids |-> names[p] \cup procs[p]]
        BY <1>3 DEF PidTick
    <2> QED
        BY <1>2, <2>1
<1>4. CASE UNCHANGED <<wanted, names, shownRows>>
    BY <1>2, <1>4 DEF LogFilterInv
<1>5. \A p, S : Respawn(p, S) => UNCHANGED <<wanted, names, shownRows>>
    BY DEF Respawn
<1> QED
    BY <1>1, <1>3, <1>4, <1>5 DEF LogFilterNext, logFilterVars

LEMMA LogFilterInductive == LogFilterSpec => []LogFilterInv
BY LogFilterInitially, LogFilterStep, PTL DEF LogFilterSpec

(* In a filter the window compiles a term app: lets nothing into the window   *)
(* but what was written under a pid of a named app (resolveAppPids).          *)
THEOREM AppTermsNarrow == LogFilterSpec => []AppNarrows
BY NarrowsStep, LogFilterInductive, PTL

(* Learning about processes hides no row (resolveAppPids, pidNames).          *)
THEOREM GoneAppsStay == LogFilterSpec => HistoryStays
<1>1. ASSUME LogFilterInv, Requery, \A t \in Tokens : t.key = "app" => Less(t) = {}
      PROVE  shownRows \subseteq shownRows'
    <2>1. Exclude = {}
        <3>1. \A t \in Tokens : t.key = "app" => \A v \in Vals(t) : ~(v.neg = TRUE)
            BY <1>1 DEF Less
        <3>2. AppTerms(TRUE) = {}
            BY <3>1 DEF AppTerms
        <3> QED
            BY <3>2 DEF Exclude, PidsOf
    <2>2. ASSUME NEW r \in shownRows PROVE r \in LogRows /\ InQuery(r)
        <3>1. Passed(r)
            BY <1>1, <2>2 DEF LogFilterInv
        <3>2. CASE AppTerms(FALSE) = {}
            <4>1. Include = {}
                BY <3>2 DEF Include, PidsOf
            <4> QED
                BY <2>1, <3>1, <4>1 DEF Passed, InQuery
        <3>3. CASE AppTerms(FALSE) # {}
            <4>1. r.pid \in Include
                BY <3>1, <3>3 DEF Include, Passed
            <4> QED
                BY <2>1, <3>1, <4>1 DEF Passed, InQuery
        <3> QED
            BY <3>2, <3>3
    <2> QED
        BY <1>1, <2>2 DEF Requery
<1>2. ASSUME LogFilterInv, [LogFilterNext]_logFilterVars
      PROVE  [Requery /\ (\A t \in Tokens : t.key = "app" => Less(t) = {}) => shownRows \subseteq shownRows']_logFilterVars
    BY <1>1, <1>2
<1> QED
    BY <1>2, LogFilterInductive, PTL DEF LogFilterSpec, HistoryStays

-----------------------------------------------------------------------------
(* Counting: what a query returns is in order and complete.                   *)
LEMMA IdsOfRows ==
    ASSUME StoreInv
    PROVE  /\ \A r \in rows : r.id \in Nat
           /\ \A r, q \in rows : r.id = q.id => r = q
           /\ \A r, q \in rows : r = q \/ r.id < q.id \/ q.id < r.id
<1>1. \A r \in rows : r.id \in Nat
    BY RowNumbers
<1>2. \A r, q \in rows : r.id = q.id => r = q
    BY DEF StoreInv, StoreTypeOK
<1> QED
    BY <1>1, <1>2

LEMMA Ranks ==
    ASSUME StoreInv, NEW R \in SUBSET rows
    PROVE  /\ Cardinality(R) \in Nat
           /\ \A r \in R : Cardinality({q \in R : q.id <= r.id}) \in 1..Cardinality(R)
           /\ \A r, p \in R : r.id < p.id => Cardinality({q \in R : q.id <= r.id}) < Cardinality({q \in R : q.id <= p.id})
           /\ \A i \in 1..Cardinality(R) : \E r \in R : Cardinality({q \in R : q.id <= r.id}) = i
<1> DEFINE upTo(r) == {q \in R : q.id <= r.id}
           rank == [r \in R |-> Cardinality(upTo(r))]
           n == Cardinality(R)
<1>1. IsFiniteSet(R) /\ n \in Nat
    BY RowsAreFinite DEF StoreInv
<1>2. \A r \in R : IsFiniteSet(upTo(r)) /\ Cardinality(upTo(r)) \in Nat /\ Cardinality(upTo(r)) <= n
    <2>1. \A r \in R : upTo(r) \subseteq R
        OBVIOUS
    <2> HIDE DEF upTo
    <2> QED
        BY <1>1, <2>1, FS_Subset, FS_CardinalityType
<1>3. \A r \in R : Cardinality(upTo(r)) # 0
    <2>1. \A r \in R : r \in upTo(r)
        BY IdsOfRows
    <2> QED
        BY <1>2, <2>1, FS_EmptySet
<1>4. ASSUME NEW r \in R, NEW p \in R, r.id < p.id
      PROVE  Cardinality(upTo(r)) < Cardinality(upTo(p))
    <2>1. upTo(r) \subseteq upTo(p) /\ p \in upTo(p) /\ p \notin upTo(r)
        <3>1. r.id \in Nat /\ p.id \in Nat /\ \A q \in R : q.id \in Nat
            BY IdsOfRows
        <3>2. \A q \in R : q.id <= r.id => q.id <= p.id
            BY <1>4, <3>1
        <3>3. p.id <= p.id /\ ~(p.id <= r.id)
            BY <1>4, <3>1
        <3> QED
            BY <3>2, <3>3
    <2>2. Cardinality(upTo(r)) <= Cardinality(upTo(p)) /\ (Cardinality(upTo(r)) = Cardinality(upTo(p)) => upTo(r) = upTo(p))
        <3> HIDE DEF upTo
        <3> QED
            BY <1>2, <2>1, FS_Subset
    <2>3. upTo(r) # upTo(p)
        BY <2>1
    <2>4. Cardinality(upTo(r)) \in Nat /\ Cardinality(upTo(p)) \in Nat
        BY <1>2
    <2> HIDE DEF upTo
    <2> QED
        BY <2>2, <2>3, <2>4
<1>5. rank \in Injection(R, 1..n)
    <2>1. rank \in [R -> 1..n]
        BY <1>1, <1>2, <1>3
    <2>2. ASSUME NEW r \in R, NEW p \in R, rank[r] = rank[p] PROVE r = p
        <3>1. rank[r] = Cardinality(upTo(r)) /\ rank[p] = Cardinality(upTo(p))
            OBVIOUS
        <3>2. ~(r.id < p.id) /\ ~(p.id < r.id)
            <4> HIDE DEF rank, upTo
            <4>1. Cardinality(upTo(r)) = Cardinality(upTo(p)) /\ Cardinality(upTo(r)) \in Nat
                BY <1>2, <2>2, <3>1
            <4> QED
                BY <1>4, <4>1
        <3> QED
            BY <3>2, IdsOfRows
    <2> HIDE DEF rank
    <2> QED
        BY <2>1, <2>2 DEF Injection, IsInjective
<1>6. rank \in Surjection(R, 1..n)
    <2>1. IsFiniteSet(1..n) /\ Cardinality(1..n) = n
        <3> HIDE DEF n
        <3> QED
            BY <1>1, FS_Interval
    <2> HIDE DEF rank
    <2> QED
        BY <1>5, <2>1, FS_Injection
<1>7. \A i \in 1..n : \E r \in R : rank[r] = i
    <2> HIDE DEF rank, n
    <2> QED
        BY <1>6 DEF Surjection
<1>8. \A r \in R : rank[r] = Cardinality(upTo(r))
    OBVIOUS
<1>9. \A r \in R : Cardinality(upTo(r)) \in 1..n
    <2> HIDE DEF upTo, n, rank
    <2> QED
        BY <1>1, <1>2, <1>3
<1>10. \A i \in 1..n : \E r \in R : Cardinality(upTo(r)) = i
    <2> HIDE DEF upTo, n, rank
    <2> QED
        BY <1>7, <1>8
<1> QED
    BY <1>1, <1>9, <1>4, <1>10

(* Ascending lists a set of rows by id, each row once.                        *)
LEMMA AscendingLists ==
    ASSUME StoreInv, NEW R \in SUBSET rows
    PROVE  /\ Ascending(R) \in Seq(R) /\ Len(Ascending(R)) = Cardinality(R)
           /\ \A i, j \in 1..Len(Ascending(R)) : i < j => Ascending(R)[i].id < Ascending(R)[j].id
           /\ \A r \in R : \E i \in 1..Len(Ascending(R)) : Ascending(R)[i] = r
<1> DEFINE rank(r) == Cardinality({q \in R : q.id <= r.id})
           n == Cardinality(R)
           A == Ascending(R)
<1>1. /\ n \in Nat
      /\ \A r \in R : rank(r) \in 1..n
      /\ \A r, p \in R : r.id < p.id => rank(r) < rank(p)
      /\ \A i \in 1..n : \E r \in R : rank(r) = i
    BY Ranks
<1>2. A = [i \in 1..n |-> CHOOSE r \in R : rank(r) = i]
    BY DEF Ascending
<1> HIDE DEF rank, n
<1>3. \A i \in 1..n : A[i] \in R /\ rank(A[i]) = i
    BY <1>1, <1>2
<1>4. A \in Seq(R) /\ Len(A) = n
    <2>1. A \in [1..n -> R]
        BY <1>2, <1>3
    <2> QED
        BY <1>1, <2>1
<1>5. ASSUME NEW i \in 1..n, NEW j \in 1..n, i < j PROVE A[i].id < A[j].id
    <2>1. A[i] \in R /\ A[j] \in R /\ rank(A[i]) < rank(A[j])
        BY <1>3, <1>5
    <2>2. \A k \in 1..n : k \in Nat
        BY <1>1
    <2>3. A[i] # A[j] /\ ~(A[j].id < A[i].id)
        BY <1>1, <1>3, <1>5, <2>1, <2>2
    <2> QED
        BY <2>1, <2>3, IdsOfRows
<1>6. ASSUME NEW r \in R PROVE \E i \in 1..n : A[i] = r
    <2>1. rank(r) \in 1..n
        BY <1>1
    <2>2. A[rank(r)] \in R /\ rank(A[rank(r)]) = rank(r)
        BY <1>3, <2>1
    <2>3. \A k \in 1..n : k \in Nat
        BY <1>1
    <2>4. ~(A[rank(r)].id < r.id) /\ ~(r.id < A[rank(r)].id)
        BY <1>1, <2>1, <2>2, <2>3
    <2>5. A[rank(r)] = r
        BY <2>2, <2>4, IdsOfRows
    <2> QED
        BY <2>1, <2>5
<1> QED
    BY <1>4, <1>5, <1>6 DEF n

(* The newest n rows of a set: all that is above one of them, and all of the  *)
(* set when they are fewer than n.                                            *)
LEMMA NewestAreOnTop ==
    ASSUME StoreInv, NEW M \in SUBSET rows, NEW n \in Nat \ {0}
    PROVE  /\ Newest(M, n) \in SUBSET M
           /\ \A r \in Newest(M, n), q \in M : r.id < q.id => q \in Newest(M, n)
           /\ Cardinality(Newest(M, n)) < n => Newest(M, n) = M
<1> DEFINE above(r) == {q \in M : q.id > r.id}
           N == {r \in M : Cardinality(above(r)) < n}
<1>0. Newest(M, n) = N
    BY DEF Newest
<1>1. /\ \A r \in M : r.id \in Nat /\ r.id <= MaxId
      /\ MaxId \in Nat
      /\ IsFiniteSet(M)
    BY RowNumbers, RowsAreFinite DEF StoreInv
<1>2. \A r \in M : IsFiniteSet(above(r)) /\ Cardinality(above(r)) \in Nat
    <2>1. \A r \in M : above(r) \subseteq M
        OBVIOUS
    <2> HIDE DEF above
    <2> QED
        BY <1>1, <2>1, FS_Subset, FS_CardinalityType
<1>3. ASSUME NEW r \in N, NEW q \in M, r.id < q.id PROVE q \in N
    <2>1. above(q) \subseteq above(r) /\ r \in M
        BY <1>1, <1>3
    <2>2. Cardinality(above(q)) <= Cardinality(above(r))
        <3> HIDE DEF above
        <3> QED
            BY <1>2, <2>1, FS_Subset
    <2>3. Cardinality(above(r)) < n
        OBVIOUS
    <2> HIDE DEF above
    <2>4. Cardinality(above(q)) < n
        BY <1>2, <2>1, <2>2, <2>3
    <2> QED
        BY <2>4
<1>4. ASSUME Cardinality(N) < n, N # M PROVE FALSE
    <2> DEFINE I == {r.id : r \in M \ N}
    <2>1. I \in SUBSET Nat /\ I # {} /\ \A y \in I : y <= MaxId
        <3>1. N \subseteq M
            OBVIOUS
        <3> HIDE DEF N
        <3> QED
            BY <1>1, <1>4, <3>1
    <2>2. PICK r \in M \ N : \A q \in M \ N : q.id <= r.id
        <3>1. Max(I) \in I /\ \A y \in I : y <= Max(I)
            <4> HIDE DEF I
            <4> QED
                BY <1>1, <2>1, MaxExists
        <3>2. PICK r \in M \ N : r.id = Max(I)
            BY <3>1
        <3> QED
            BY <3>1, <3>2
    <2>3. above(r) \subseteq N
        <3>1. \A q \in M : q \notin N => ~(q.id > r.id)
            BY <1>1, <2>2
        <3> HIDE DEF N
        <3> QED
            BY <3>1
    <2>4. IsFiniteSet(N) /\ Cardinality(N) \in Nat
        <3>1. N \subseteq M
            OBVIOUS
        <3> HIDE DEF N
        <3> QED
            BY <1>1, <3>1, FS_Subset, FS_CardinalityType
    <2>5. Cardinality(above(r)) <= Cardinality(N)
        <3> HIDE DEF N, above
        <3> QED
            BY <2>3, <2>4, FS_Subset
    <2>6. r \in M /\ ~(Cardinality(above(r)) < n)
        BY <2>2
    <2> HIDE DEF N, above
    <2>7. Cardinality(above(r)) \in Nat
        BY <1>2, <2>6
    <2> QED
        BY <1>4, <2>4, <2>5, <2>6, <2>7
<1>5. N \in SUBSET M
    OBVIOUS
<1> HIDE DEF N
<1> QED
    BY <1>0, <1>3, <1>4, <1>5

(* What a query for the newest n rows of a set returns: in order, without a   *)
(* gap, up to the last, and from the first when it is short.                  *)
LEMMA QueryFits ==
    ASSUME StoreInv, NEW M \in SUBSET rows, NEW n \in Nat \ {0}, NEW A, A = Ascending(Newest(M, n))
    PROVE  /\ A \in Seq(M)
           /\ \A i \in 1..(Len(A) - 1) : /\ A[i].id < A[i + 1].id
                                         /\ \A r \in M : ~(A[i].id < r.id /\ r.id < A[i + 1].id)
           /\ A # <<>> => \A r \in M : r.id <= A[Len(A)].id
           /\ Len(A) < n => \A r \in M : A # <<>> /\ A[1].id <= r.id
<1> DEFINE N == Newest(M, n)
<1>1. /\ N \in SUBSET M /\ N \in SUBSET rows
      /\ \A r \in N, q \in M : r.id < q.id => q \in N
      /\ Cardinality(N) < n => N = M
    BY NewestAreOnTop
<1> HIDE DEF N
<1>2. /\ A \in Seq(N) /\ Len(A) = Cardinality(N)
      /\ \A i, j \in 1..Len(A) : i < j => A[i].id < A[j].id
      /\ \A r \in N : \E i \in 1..Len(A) : A[i] = r
    <2>1. A = Ascending(N)
        BY DEF N
    <2> QED
        BY <1>1, <2>1, AscendingLists
<1>3. Len(A) \in Nat /\ \A i \in 1..Len(A) : A[i] \in N /\ A[i] \in M /\ A[i].id \in Nat
    BY <1>1, <1>2, IdsOfRows
<1>4. \A r \in M : r.id \in Nat
    BY IdsOfRows
<1>5. A \in Seq(M)
    BY <1>1, <1>2
<1>6. ASSUME NEW i \in 1..(Len(A) - 1)
      PROVE  A[i].id < A[i + 1].id /\ \A r \in M : ~(A[i].id < r.id /\ r.id < A[i + 1].id)
    <2>1. i \in 1..Len(A) /\ i + 1 \in 1..Len(A) /\ i < i + 1
        BY <1>3
    <2>2. A[i].id < A[i + 1].id
        BY <1>2, <2>1
    <2>3. ASSUME NEW r \in M, A[i].id < r.id, r.id < A[i + 1].id PROVE FALSE
        <3>1. PICK k \in 1..Len(A) : A[k] = r
            BY <1>1, <1>2, <1>3, <2>1, <2>3
        <3>2. k \in Nat /\ i \in Nat
            BY <1>3
        <3>3. k # i /\ k # i + 1
            BY <1>3, <2>1, <2>3, <3>1
        <3>4. ~(k < i)
            <4>1. k < i => A[k].id < A[i].id
                BY <1>2, <2>1
            <4>2. A[k].id \in Nat /\ A[i].id \in Nat /\ A[i].id < A[k].id
                BY <1>3, <2>1, <2>3, <3>1
            <4> QED
                BY <4>1, <4>2
        <3>5. ~(i + 1 < k)
            <4>1. i + 1 < k => A[i + 1].id < A[k].id
                BY <1>2, <2>1
            <4>2. A[k].id \in Nat /\ A[i + 1].id \in Nat /\ A[k].id < A[i + 1].id
                BY <1>3, <2>1, <2>3, <3>1
            <4> QED
                BY <4>1, <4>2
        <3> QED
            BY <3>2, <3>3, <3>4, <3>5
    <2> QED
        BY <2>2, <2>3
<1>7. ASSUME A # <<>>, NEW r \in M PROVE r.id <= A[Len(A)].id
    <2>1. Len(A) \in 1..Len(A)
        BY <1>2, <1>3, <1>7
    <2>2. ASSUME A[Len(A)].id < r.id PROVE FALSE
        <3>1. PICK k \in 1..Len(A) : A[k] = r
            BY <1>1, <1>2, <1>3, <2>1, <2>2
        <3>2. k = Len(A) \/ k < Len(A)
            BY <1>3
        <3> QED
            BY <1>2, <1>3, <2>1, <2>2, <3>1, <3>2
    <2> QED
        BY <1>3, <1>4, <2>1, <2>2
<1>8. ASSUME Len(A) < n, NEW r \in M PROVE A # <<>> /\ A[1].id <= r.id
    <2>1. PICK k \in 1..Len(A) : A[k] = r
        BY <1>1, <1>2, <1>8
    <2>2. 1 \in 1..Len(A) /\ (k = 1 \/ 1 < k)
        BY <1>3
    <2>3. A[1].id <= A[k].id
        BY <1>2, <1>3, <2>2
    <2> QED
        BY <2>1, <2>2, <2>3
<1> QED
    BY <1>5, <1>6, <1>7, <1>8

-----------------------------------------------------------------------------
(* The window: its fields, and what is in flight.                             *)
Views(v) ==
    v \in [entries : {v.entries}, auto : BOOLEAN, paused : BOOLEAN, filter : {v.filter},
           due : BOOLEAN, seq : Nat, latch : BOOLEAN, wiping : BOOLEAN, error : BOOLEAN]
Queries(q) == q \in [seq : Nat, filter : {q.filter}, answered : BOOLEAN, page : {q.page}]
OlderPages(o) ==
    o \in [pc : {"idle", "asked", "answered"}, seq : {o.seq}, filter : {o.filter}, before : {o.before},
           page : {o.page}, crossed : BOOLEAN]

ViewTyped ==
    /\ Views(view) /\ OlderPages(older)
    /\ \A q \in refreshes : Queries(q)
    /\ shown \in [filter : {shown.filter}, mixed : BOOLEAN]

(* The latest refresh asks with the filter that is typed, unless one is due;  *)
(* when it is gone it has landed or left a message.                           *)
LatestInv ==
    /\ \A q \in refreshes : q.seq <= view.seq
    /\ ~view.due /\ ~view.paused =>
          /\ \A q \in refreshes : q.seq = view.seq => q.filter = view.filter
          /\ (\E q \in refreshes : q.seq = view.seq) \/ shown.filter = view.filter \/ view.error

(* A page of rows as the table has them, in order and without a gap.          *)
Fits(E, f) == E \in Seq(rows) /\ Window(E, f)

AnswersFit == \A q \in refreshes : q.answered => Fits(q.page, q.filter)

(* A page of older rows ends where the view began when it was asked for, and  *)
(* a short one begins at the start.                                           *)
Precedes(E, f, before) ==
    /\ \A i \in 1..Len(E) : E[i].id < before
    /\ \A r \in Matching(f) : r.id < before => E # <<>> /\ r.id <= E[Len(E)].id
    /\ Len(E) < OlderPage => \A r \in Matching(f) : r.id < before => E[1].id <= r.id

OlderFits ==
    older.pc # "idle" =>
        /\ ~view.latch
        /\ \E r \in rows : r.id = older.before
        /\ ~older.crossed /\ view.entries # <<>> => view.entries[1].id = older.before
        /\ older.pc = "answered" => Fits(older.page, older.filter) /\ Precedes(older.page, older.filter, older.before)

ShownFits ==
    /\ view.entries \in Seq(rows)
    /\ ~shown.mixed => Window(view.entries, shown.filter)
    /\ ~shown.mixed /\ view.latch /\ view.entries # <<>> =>
          \A r \in Matching(shown.filter) : r.id >= view.entries[1].id

(* As long as nothing was cleared no row is taken out.                        *)
PagesInv == clears = 0 => AnswersFit /\ OlderFits /\ ShownFits

ViewInv == StoreInv /\ ViewTyped /\ LatestInv /\ PagesInv

-----------------------------------------------------------------------------
LEMMA MatchingRows == \A f : Matching(f) \in SUBSET rows
BY DEF Matching

LEMMA AnswerFits ==
    ASSUME StoreInv, NEW f
    PROVE  Fits(QueryLogcat(f), f)
<1> DEFINE M == Matching(f)
           A == QueryLogcat(f)
<1>1. M \in SUBSET rows /\ QueryLimit \in Nat \ {0} /\ A = Ascending(Newest(M, QueryLimit))
    BY MatchingRows, ViewAssumption DEF QueryLogcat
<1> HIDE DEF A, M
<1>2. /\ A \in Seq(M)
      /\ \A i \in 1..(Len(A) - 1) : /\ A[i].id < A[i + 1].id
                                    /\ \A r \in M : ~(A[i].id < r.id /\ r.id < A[i + 1].id)
    BY <1>1, QueryFits
<1>3. A \in Seq(rows)
    BY <1>1, <1>2
<1> QED
    BY <1>2, <1>3 DEF Fits, Window, A, M

LEMMA OlderAnswerFits ==
    ASSUME StoreInv, NEW f, NEW b \in Nat
    PROVE  Fits(QueryBefore(f, b), f) /\ Precedes(QueryBefore(f, b), f, b)
<1> DEFINE M == {r \in Matching(f) : r.id < b}
           A == QueryBefore(f, b)
<1>1. /\ M \in SUBSET rows /\ OlderPage \in Nat \ {0} /\ A = Ascending(Newest(M, OlderPage))
      /\ \A r \in Matching(f) : r \in rows /\ (r \in M <=> r.id < b)
      /\ \A r \in M : r.id < b
    BY MatchingRows, ViewAssumption DEF QueryBefore
<1> HIDE DEF A, M
<1>2. /\ A \in Seq(M)
      /\ \A i \in 1..(Len(A) - 1) : /\ A[i].id < A[i + 1].id
                                    /\ \A r \in M : ~(A[i].id < r.id /\ r.id < A[i + 1].id)
      /\ A # <<>> => \A r \in M : r.id <= A[Len(A)].id
      /\ Len(A) < OlderPage => \A r \in M : A # <<>> /\ A[1].id <= r.id
    BY <1>1, QueryFits
<1>3. A \in Seq(rows) /\ Len(A) \in Nat /\ \A i \in 1..Len(A) : A[i] \in M /\ A[i] \in rows /\ A[i].id \in Nat /\ A[i].id < b
    BY <1>1, <1>2, IdsOfRows
<1>4. ASSUME NEW i \in 1..(Len(A) - 1), NEW r \in Matching(f), A[i].id < r.id, r.id < A[i + 1].id
      PROVE  FALSE
    <2>1. i + 1 \in 1..Len(A) /\ r.id \in Nat
        BY <1>1, <1>3, IdsOfRows
    <2>2. r.id < b
        BY <1>3, <1>4, <2>1
    <2> QED
        BY <1>1, <1>2, <1>4, <2>2
<1>5. Fits(A, f)
    BY <1>2, <1>3, <1>4 DEF Fits, Window
<1>6. ASSUME NEW r \in Matching(f), r.id < b
      PROVE  A # <<>> /\ r.id <= A[Len(A)].id
    <2>1. r \in M
        BY <1>1, <1>6
    <2>2. A # <<>>
        <3>1. A = <<>> => Len(A) = 0
            OBVIOUS
        <3>2. A = <<>> => Len(A) < OlderPage
            BY <1>1, <3>1
        <3> QED
            BY <1>2, <2>1, <3>2
    <2> QED
        BY <1>2, <2>1, <2>2
<1>7. Precedes(A, f, b)
    BY <1>1, <1>2, <1>3, <1>6 DEF Precedes
<1> QED
    BY <1>5, <1>7 DEF A

(* A page that ends where the view begins goes before it without a gap.       *)
LEMMA PageGoesBefore ==
    ASSUME StoreInv, NEW P, NEW E, NEW f, NEW b, Fits(P, f), Precedes(P, f, b), Fits(E, f), E # <<>>, E[1].id = b
    PROVE  Fits(P \o E, f)
<1> DEFINE W == P \o E
<1>1. /\ P \in Seq(rows) /\ E \in Seq(rows) /\ Len(P) \in Nat /\ Len(E) \in Nat /\ Len(E) > 0
      /\ W \in Seq(rows) /\ Len(W) = Len(P) + Len(E)
      /\ \A i \in 1..Len(P) : W[i] = P[i] /\ P[i].id \in Nat
      /\ \A i \in 1..Len(E) : W[Len(P) + i] = E[i] /\ E[i].id \in Nat
    BY IdsOfRows DEF Fits
<1>2. \A r \in Matching(f) : r.id \in Nat
    BY MatchingRows, IdsOfRows
<1>3. ASSUME NEW i \in 1..(Len(W) - 1)
      PROVE  W[i].id < W[i + 1].id /\ \A r \in Matching(f) : ~(W[i].id < r.id /\ r.id < W[i + 1].id)
    <2>1. CASE i < Len(P)
        <3>1. i \in 1..(Len(P) - 1) /\ i + 1 \in 1..Len(P) /\ i \in 1..Len(P)
            BY <1>1, <2>1
        <3>2. W[i] = P[i] /\ W[i + 1] = P[i + 1]
            BY <1>1, <3>1
        <3> QED
            BY <3>1, <3>2 DEF Fits, Window
    <2>2. CASE i = Len(P)
        <3>1. i \in 1..Len(P) /\ 1 \in 1..Len(E)
            BY <1>1, <2>2
        <3>2. W[i] = P[Len(P)] /\ W[i + 1] = E[1]
            BY <1>1, <2>2, <3>1
        <3>3. P[Len(P)].id < b /\ P[Len(P)].id \in Nat /\ b \in Nat
            BY <1>1, <2>2, <3>1 DEF Precedes
        <3>4. \A r \in Matching(f) : r.id < b => r.id <= P[Len(P)].id
            BY DEF Precedes
        <3> QED
            BY <1>2, <3>2, <3>3, <3>4
    <2>3. CASE i > Len(P)
        <3>1. PICK k \in 1..(Len(E) - 1) : i = Len(P) + k
            <4>1. i - Len(P) \in 1..(Len(E) - 1) /\ i = Len(P) + (i - Len(P))
                BY <1>1, <2>3
            <4> QED
                BY <4>1
        <3>2. k \in 1..Len(E) /\ k + 1 \in 1..Len(E) /\ i + 1 = Len(P) + (k + 1)
            BY <1>1, <3>1
        <3>3. W[i] = E[k] /\ W[i + 1] = E[k + 1]
            BY <1>1, <3>1, <3>2
        <3> QED
            BY <3>1, <3>3 DEF Fits, Window
    <2>4. i < Len(P) \/ i = Len(P) \/ i > Len(P)
        <3>1. i \in Nat
            BY <1>1
        <3> QED
            BY <1>1, <3>1
    <2> QED
        BY <2>1, <2>2, <2>3, <2>4, Zenon
<1> HIDE DEF W
<1>4. Fits(W, f)
    BY <1>1, <1>3 DEF Fits, Window
<1> QED
    BY <1>4 DEF W

(* New rows come on top, so what was a window stays one.                      *)
GrowsOnTop == rows \subseteq rows' /\ \A r \in rows' \ rows, q \in rows : q.id < r.id

LEMMA GrownFits ==
    ASSUME StoreInv, StoreInv', GrowsOnTop, NEW E, NEW f, Fits(E, f)
    PROVE  Fits(E, f)'
<1>1. /\ E \in Seq(rows) /\ E \in Seq(rows') /\ Len(E) \in Nat
      /\ \A i \in 1..Len(E) : E[i] \in rows /\ E[i].id \in Nat
    BY IdsOfRows DEF Fits, GrowsOnTop
<1>2. \A r \in Matching(f)' : r \in Matching(f) \/ r \in rows' \ rows
    BY DEF Matching
<1>3. \A r \in rows' : r.id \in Nat
    <2>1. \A r \in rows' : r.id \in 1..MaxId
        BY DEF StoreInv, StoreTypeOK
    <2> QED
        BY <2>1, StoreAssumption
<1>4. ASSUME NEW i \in 1..(Len(E) - 1)
      PROVE  E[i].id < E[i + 1].id /\ \A r \in Matching(f)' : ~(E[i].id < r.id /\ r.id < E[i + 1].id)
    <2>1. i + 1 \in 1..Len(E)
        BY <1>1
    <2>2. E[i].id < E[i + 1].id /\ \A r \in Matching(f) : ~(E[i].id < r.id /\ r.id < E[i + 1].id)
        BY DEF Fits, Window
    <2>3. \A r \in rows' \ rows : E[i + 1].id < r.id
        BY <1>1, <2>1 DEF GrowsOnTop
    <2>4. \A r \in rows' \ rows : ~(r.id < E[i + 1].id)
        BY <1>1, <1>3, <2>1, <2>3
    <2> QED
        BY <1>2, <2>2, <2>4
<1> QED
    BY <1>1, <1>4 DEF Fits, Window

-----------------------------------------------------------------------------
(* A step that shows nothing and answers nothing leaves the pages as they     *)
(* were.                                                                      *)
LEMMA PagesStay ==
    ASSUME PagesInv, UNCHANGED <<rows, clears, older, shown>>,
           view'.entries = view.entries, view'.latch = view.latch,
           \A q \in refreshes' : q \in refreshes \/ ~q.answered
    PROVE  PagesInv'
<1>1. \A f : Matching(f)' = Matching(f)
    BY DEF Matching
<1>2. \A E, f : Fits(E, f)' <=> Fits(E, f)
    BY <1>1 DEF Fits, Window
<1>3. AnswersFit => AnswersFit'
    BY <1>2 DEF AnswersFit
<1>4. OlderFits => OlderFits'
    BY <1>1, <1>2 DEF OlderFits, Precedes
<1>5. ShownFits => ShownFits'
    BY <1>1 DEF ShownFits, Window
<1> QED
    BY <1>3, <1>4, <1>5 DEF PagesInv

LEMMA ViewFields ==
    ASSUME NEW v, Views(v)
    PROVE  /\ v.seq \in Nat /\ v.auto \in BOOLEAN /\ v.paused \in BOOLEAN /\ v.due \in BOOLEAN
           /\ v.latch \in BOOLEAN /\ v.wiping \in BOOLEAN /\ v.error \in BOOLEAN
BY DEF Views

LEMMA QueryFields ==
    ASSUME NEW q, Queries(q)
    PROVE  q.seq \in Nat /\ q.answered \in BOOLEAN
BY DEF Queries

LEMMA TypedParts ==
    ASSUME ViewTyped
    PROVE  /\ Views(view) /\ OlderPages(older) /\ shown.mixed \in BOOLEAN
           /\ \A q \in refreshes : Queries(q) /\ q.seq \in Nat /\ q.answered \in BOOLEAN
BY QueryFields DEF ViewTyped

LEMMA RefreshKeeps ==
    ASSUME ViewTyped, LatestInv, NEW v, NEW force \in BOOLEAN, Views(v),
           v.entries = view.entries, v.filter = view.filter, v.seq = view.seq, v.latch = view.latch,
           v.error = view.error, force \/ v = view, Refresh(v, force), UNCHANGED <<older, shown>>
    PROVE  /\ ViewTyped' /\ LatestInv'
           /\ view'.entries = view.entries /\ view'.latch = view.latch
           /\ \A q \in refreshes' : q \in refreshes \/ ~q.answered
<1>1. CASE view' = v /\ refreshes' = refreshes /\ (v.paused \/ ~force)
    <2>1. ViewTyped'
        BY <1>1 DEF ViewTyped, Views
    <2>2. LatestInv'
        BY <1>1 DEF LatestInv
    <2> QED
        BY <1>1, <2>1, <2>2
<1>2. CASE /\ view' = [v EXCEPT !.seq = @ + 1]
           /\ refreshes' = refreshes \cup {[seq |-> v.seq + 1, filter |-> v.filter, answered |-> FALSE, page |-> <<>>]}
    <2> DEFINE new == [seq |-> v.seq + 1, filter |-> v.filter, answered |-> FALSE, page |-> <<>>]
    <2>1. view' = [entries |-> v.entries, auto |-> v.auto, paused |-> v.paused, filter |-> v.filter,
                   due |-> v.due, seq |-> v.seq + 1, latch |-> v.latch, wiping |-> v.wiping, error |-> v.error]
        BY <1>2 DEF Views
    <2>2. /\ view'.entries = view.entries /\ view'.latch = view.latch /\ view'.seq = view.seq + 1
          /\ view'.filter = view.filter /\ view'.error = view.error
        BY <2>1
    <2>3. /\ new.seq = view.seq + 1 /\ new.filter = view.filter /\ new.answered = FALSE
          /\ \A q \in refreshes' : q \in refreshes \/ q = new
          /\ new \in refreshes'
        BY <1>2
    <2>4. view.seq \in Nat /\ \A q \in refreshes : q.seq \in Nat /\ q.seq <= view.seq
        BY TypedParts, ViewFields DEF LatestInv
    <2>5. ViewTyped'
        <3>1. Views(view')
            BY <2>1 DEF Views
        <3>2. Queries(new)
            BY <2>4 DEF Queries
        <3> HIDE DEF new
        <3> QED
            BY <2>3, <3>1, <3>2 DEF ViewTyped
    <2> HIDE DEF new
    <2>6. LatestInv'
        <3>1. \A q \in refreshes' : q.seq <= view.seq + 1 /\ (q.seq = view.seq + 1 => q.filter = view.filter)
            BY <2>3, <2>4
        <3> QED
            BY <2>2, <2>3, <3>1 DEF LatestInv
    <2> QED
        BY <2>2, <2>3, <2>5, <2>6
<1> QED
    BY <1>1, <1>2 DEF Refresh

(* What a call of refresh changes of the window, for each of its callers.     *)
LEMMA CallersOfRefresh ==
    ASSUME ViewInv, UNCHANGED <<older, shown>>,
           \/ view.auto /\ Refresh(view, FALSE)
           \/ Refresh([view EXCEPT !.due = FALSE], TRUE)
           \/ Refresh([view EXCEPT !.auto = TRUE], TRUE)
           \/ Refresh([view EXCEPT !.paused = ~@], TRUE)
           \/ Refresh([view EXCEPT !.wiping = FALSE], TRUE)
    PROVE  /\ ViewTyped' /\ LatestInv'
           /\ view'.entries = view.entries /\ view'.latch = view.latch
           /\ \A q \in refreshes' : q \in refreshes \/ ~q.answered
<1> DEFINE Meant(v) == /\ Views(v) /\ v.entries = view.entries /\ v.filter = view.filter
                       /\ v.seq = view.seq /\ v.latch = view.latch /\ v.error = view.error
<1>0. ViewTyped /\ LatestInv /\ Views(view)
    BY DEF ViewInv, ViewTyped, Views
<1>1. Meant([view EXCEPT !.due = FALSE])
    BY <1>0 DEF Views
<1>2. Meant([view EXCEPT !.auto = TRUE])
    BY <1>0 DEF Views
<1>3. Meant([view EXCEPT !.paused = ~@])
    BY <1>0 DEF Views
<1>4. Meant([view EXCEPT !.wiping = FALSE])
    BY <1>0 DEF Views
<1>5. Meant(view)
    BY <1>0
<1>6. ASSUME NEW v, NEW force \in BOOLEAN, Meant(v), force \/ v = view, Refresh(v, force)
      PROVE  /\ ViewTyped' /\ LatestInv'
             /\ view'.entries = view.entries /\ view'.latch = view.latch
             /\ \A q \in refreshes' : q \in refreshes \/ ~q.answered
    BY <1>0, <1>6, RefreshKeeps
<1> HIDE DEF Meant
<1>7. CASE view.auto /\ Refresh(view, FALSE)
    BY <1>5, <1>6, <1>7
<1>8. CASE Refresh([view EXCEPT !.due = FALSE], TRUE)
    BY <1>1, <1>6, <1>8
<1>9. CASE Refresh([view EXCEPT !.auto = TRUE], TRUE)
    BY <1>2, <1>6, <1>9
<1>10. CASE Refresh([view EXCEPT !.paused = ~@], TRUE)
    BY <1>3, <1>6, <1>10
<1>11. CASE Refresh([view EXCEPT !.wiping = FALSE], TRUE)
    BY <1>4, <1>6, <1>11
<1> QED
    BY <1>7, <1>8, <1>9, <1>10, <1>11

LEMMA RefreshersKeep ==
    ASSUME ViewInv, Ping \/ Debounced \/ ScrollDown \/ TogglePause
    PROVE  ViewInv'
<1>1. UNCHANGED storeVars /\ UNCHANGED <<older, shown>>
    BY DEF Ping, Debounced, ScrollDown, TogglePause
<1>2. StoreInv' /\ UNCHANGED <<rows, clears>>
    BY <1>1, StoreStays DEF ViewInv, storeVars
<1>3. /\ ViewTyped' /\ LatestInv'
      /\ view'.entries = view.entries /\ view'.latch = view.latch
      /\ \A q \in refreshes' : q \in refreshes \/ ~q.answered
    BY <1>1, CallersOfRefresh DEF Ping, Debounced, ScrollDown, TogglePause
<1>4. PagesInv'
    BY <1>1, <1>2, <1>3, PagesStay DEF ViewInv
<1> QED
    BY <1>2, <1>3, <1>4 DEF ViewInv

LEMMA WipedKeeps ==
    ASSUME ViewInv, Wiped
    PROVE  ViewInv'
<1>1. ClearPhone(Watched) /\ UNCHANGED <<older, shown>> /\ Refresh([view EXCEPT !.wiping = FALSE], TRUE)
    BY DEF Wiped
<1>2. StoreInv' /\ clears' # 0
    <2>1. StoreInv /\ clears \in Nat /\ clears' = clears + 1
        BY <1>1, PassTyped DEF ViewInv, ClearPhone
    <2> QED
        BY <1>1, <2>1, ClearPhoneKeeps, ViewAssumption
<1>3. ViewTyped' /\ LatestInv'
    BY <1>1, CallersOfRefresh
<1> QED
    BY <1>2, <1>3 DEF ViewInv, PagesInv

(* What the user does to the view alone.                                      *)
LEMMA ScrollUpKeeps ==
    ASSUME ViewInv, ScrollUp
    PROVE  ViewInv'
<1>0. ViewTyped /\ Views(view) /\ LatestInv
    BY DEF ViewInv, ViewTyped
<1>1. view' = [view EXCEPT !.auto = FALSE] /\ UNCHANGED <<refreshes, older, shown, storeVars>>
    BY DEF ScrollUp
<1>2. StoreInv' /\ UNCHANGED <<rows, clears>>
    BY <1>1, StoreStays DEF ViewInv, storeVars
<1>3. /\ view' = [entries |-> view.entries, auto |-> FALSE, paused |-> view.paused, filter |-> view.filter,
                  due |-> view.due, seq |-> view.seq, latch |-> view.latch, wiping |-> view.wiping, error |-> view.error]
    BY <1>0, <1>1 DEF Views
<1>4. ViewTyped' /\ LatestInv'
    <2>1. Views(view')
        BY <1>0, <1>3, ViewFields DEF Views
    <2>2. ViewTyped'
        BY <1>0, <1>1, <2>1 DEF ViewTyped
    <2>3. LatestInv'
        BY <1>0, <1>1, <1>3 DEF LatestInv
    <2> QED
        BY <2>2, <2>3
<1>5. PagesInv'
    BY <1>1, <1>2, <1>3, PagesStay DEF ViewInv
<1> QED
    BY <1>2, <1>4, <1>5 DEF ViewInv

LEMMA WipeFailsKeeps ==
    ASSUME ViewInv, WipeFails
    PROVE  ViewInv'
<1>0. ViewTyped /\ Views(view) /\ LatestInv
    BY DEF ViewInv, ViewTyped
<1>1. view' = [view EXCEPT !.wiping = FALSE] /\ UNCHANGED <<refreshes, older, shown, storeVars>>
    BY DEF WipeFails
<1>2. StoreInv' /\ UNCHANGED <<rows, clears>>
    BY <1>1, StoreStays DEF ViewInv, storeVars
<1>3. /\ view' = [entries |-> view.entries, auto |-> view.auto, paused |-> view.paused, filter |-> view.filter,
                  due |-> view.due, seq |-> view.seq, latch |-> view.latch, wiping |-> FALSE, error |-> view.error]
    BY <1>0, <1>1 DEF Views
<1>4. ViewTyped' /\ LatestInv'
    <2>1. Views(view')
        BY <1>0, <1>3, ViewFields DEF Views
    <2>2. ViewTyped'
        BY <1>0, <1>1, <2>1 DEF ViewTyped
    <2>3. LatestInv'
        BY <1>0, <1>1, <1>3 DEF LatestInv
    <2> QED
        BY <2>2, <2>3
<1>5. PagesInv'
    BY <1>1, <1>2, <1>3, PagesStay DEF ViewInv
<1> QED
    BY <1>2, <1>4, <1>5 DEF ViewInv

LEMMA TypeKeeps ==
    ASSUME ViewInv, NEW f, Type(f)
    PROVE  ViewInv'
<1>0. ViewTyped /\ Views(view) /\ LatestInv
    BY DEF ViewInv, ViewTyped
<1>7. PICK e : e = (f \in WindowRefuses)
    OBVIOUS
<1>8. e \in BOOLEAN
    BY <1>7
<1>1. view' = [view EXCEPT !.filter = f, !.auto = TRUE, !.due = TRUE, !.error = e]
    BY <1>7 DEF Type
<1>6. UNCHANGED <<refreshes, older, shown, storeVars>>
    BY DEF Type
<1>2. StoreInv' /\ UNCHANGED <<rows, clears>>
    BY <1>6, StoreStays DEF ViewInv, storeVars
<1>3. /\ view' = [entries |-> view.entries, auto |-> TRUE, paused |-> view.paused, filter |-> f,
                  due |-> TRUE, seq |-> view.seq, latch |-> view.latch, wiping |-> view.wiping, error |-> e]
    BY <1>0, <1>1 DEF Views
<1>4. ViewTyped' /\ LatestInv'
    <2>1. Views(view')
        BY <1>0, <1>3, <1>8, ViewFields DEF Views
    <2>2. ViewTyped'
        BY <1>0, <1>6, <2>1 DEF ViewTyped
    <2>3. LatestInv'
        BY <1>0, <1>3, <1>6 DEF LatestInv
    <2> QED
        BY <2>2, <2>3
<1>5. PagesInv'
    BY <1>2, <1>3, <1>6, PagesStay DEF ViewInv
<1> QED
    BY <1>2, <1>4, <1>5 DEF ViewInv

LEMMA ClearAllKeeps ==
    ASSUME ViewInv, ClearAll
    PROVE  ViewInv'
<1>0. ViewTyped /\ Views(view) /\ LatestInv
    BY DEF ViewInv, ViewTyped
<1>1. view' = [view EXCEPT !.entries = <<>>, !.wiping = TRUE] /\ UNCHANGED <<refreshes, older, shown, storeVars>>
    BY DEF ClearAll
<1>2. StoreInv' /\ UNCHANGED <<rows, clears>>
    BY <1>1, StoreStays DEF ViewInv, storeVars
<1>3. /\ view' = [entries |-> <<>>, auto |-> view.auto, paused |-> view.paused, filter |-> view.filter,
                  due |-> view.due, seq |-> view.seq, latch |-> view.latch, wiping |-> TRUE, error |-> view.error]
    BY <1>0, <1>1 DEF Views
<1>4. ViewTyped' /\ LatestInv'
    <2>1. Views(view')
        BY <1>0, <1>3, ViewFields DEF Views
    <2>2. ViewTyped'
        BY <1>0, <1>1, <2>1 DEF ViewTyped
    <2>3. LatestInv'
        BY <1>0, <1>1, <1>3 DEF LatestInv
    <2> QED
        BY <2>2, <2>3
<1>5. PagesInv'
    <2>1. \A f : Matching(f)' = Matching(f)
        BY <1>2 DEF Matching
    <2>2. \A E, f : Fits(E, f)' <=> Fits(E, f)
        BY <1>2, <2>1 DEF Fits, Window
    <2>3. view'.entries = <<>> /\ view'.latch = view.latch
        BY <1>3
    <2>4. AnswersFit => AnswersFit'
        BY <1>1, <2>2 DEF AnswersFit
    <2>5. OlderFits => OlderFits'
        BY <1>1, <1>2, <2>1, <2>2, <2>3 DEF OlderFits, Precedes
    <2>6. ShownFits'
        BY <2>3 DEF ShownFits, Window
    <2> QED
        BY <1>2, <2>4, <2>5, <2>6 DEF ViewInv, PagesInv
<1> QED
    BY <1>2, <1>4, <1>5 DEF ViewInv

(* Nothing that is in the table changes.                                      *)
LEMMA SameRows ==
    ASSUME UNCHANGED rows
    PROVE  /\ \A f : Matching(f)' = Matching(f)
           /\ \A E, f : Fits(E, f)' <=> Fits(E, f)
           /\ \A E, f : Window(E, f)' <=> Window(E, f)
           /\ \A E, f, b : Precedes(E, f, b)' <=> Precedes(E, f, b)
<1>1. \A f : Matching(f)' = Matching(f)
    BY DEF Matching
<1> QED
    BY <1>1 DEF Fits, Window, Precedes

LEMMA AnswerKeeps ==
    ASSUME ViewInv, NEW q \in refreshes, Answer(q)
    PROVE  ViewInv'
<1> DEFINE P == QueryLogcat(q.filter)
           new == [q EXCEPT !.answered = TRUE, !.page = P]
<1>1. refreshes' = (refreshes \ {q}) \cup {new} /\ UNCHANGED <<view, older, shown, storeVars>>
    BY DEF Answer
<1>0. P = QueryLogcat(q.filter)
    OBVIOUS
<1> HIDE DEF P
<1>2. StoreInv' /\ UNCHANGED <<rows, clears>>
    BY <1>1, StoreStays DEF ViewInv, storeVars
<1>3. ViewTyped /\ LatestInv /\ Queries(q) /\ StoreInv
    BY DEF ViewInv, ViewTyped
<1>4. new = [q EXCEPT !.answered = TRUE, !.page = P]
    OBVIOUS
<1> HIDE DEF new
<1>5. Queries(new) /\ new.seq = q.seq /\ new.filter = q.filter /\ new.page = QueryLogcat(q.filter)
    <2>1. Queries(new) /\ new.seq = q.seq /\ new.filter = q.filter /\ new.page = P
        BY <1>3, <1>4 DEF Queries
    <2> QED
        BY <1>0, <2>1
<1>6. ViewTyped'
    BY <1>1, <1>3, <1>5 DEF ViewTyped
<1>7. LatestInv'
    BY <1>1, <1>3, <1>5 DEF LatestInv
<1>8. PagesInv'
    <2>1. AnswersFit => AnswersFit'
        BY <1>1, <1>2, <1>3, <1>5, SameRows, AnswerFits DEF AnswersFit
    <2>2. OlderFits => OlderFits'
        BY <1>1, <1>2, SameRows DEF OlderFits
    <2>3. ShownFits => ShownFits'
        BY <1>1, <1>2, SameRows DEF ShownFits
    <2> QED
        BY <1>2, <2>1, <2>2, <2>3 DEF ViewInv, PagesInv
<1> QED
    BY <1>2, <1>6, <1>7, <1>8 DEF ViewInv

(* A failing query leaves its message and what was shown.                     *)
LEMMA FailKeeps ==
    ASSUME ViewInv, NEW q \in refreshes, Fail(q)
    PROVE  ViewInv'
<1>0. ViewTyped /\ Views(view) /\ LatestInv /\ view.error \in BOOLEAN
    BY ViewFields DEF ViewInv, ViewTyped
<1>1. /\ refreshes' = refreshes \ {q} /\ UNCHANGED <<older, shown, storeVars>>
      /\ view' = [view EXCEPT !.error = view.error \/ q.seq = view.seq]
    BY DEF Fail
<1>2. StoreInv' /\ UNCHANGED <<rows, clears>>
    BY <1>1, StoreStays DEF ViewInv, storeVars
<1>3. PICK e \in BOOLEAN : e <=> view.error \/ q.seq = view.seq
    BY <1>0
<1>4. view' = [entries |-> view.entries, auto |-> view.auto, paused |-> view.paused, filter |-> view.filter,
               due |-> view.due, seq |-> view.seq, latch |-> view.latch, wiping |-> view.wiping, error |-> e]
    <2>1. (view.error \/ q.seq = view.seq) = e
        BY <1>0, <1>3
    <2>2. view' = [view EXCEPT !.error = e]
        BY <1>1, <2>1
    <2> QED
        BY <1>0, <2>2 DEF Views
<1>5. ViewTyped' /\ LatestInv'
    <2>1. Views(view')
        BY <1>0, <1>3, <1>4, ViewFields DEF Views
    <2>2. ViewTyped'
        BY <1>0, <1>1, <2>1 DEF ViewTyped
    <2>3. /\ view'.seq = view.seq /\ view'.due = view.due /\ view'.paused = view.paused
          /\ view'.filter = view.filter /\ view'.error = e
        BY <1>4
    <2>4. LatestInv'
        BY <1>0, <1>1, <1>3, <2>3 DEF LatestInv
    <2> QED
        BY <2>2, <2>4
<1>6. PagesInv'
    BY <1>1, <1>2, <1>4, PagesStay DEF ViewInv
<1> QED
    BY <1>2, <1>5, <1>6 DEF ViewInv

LEMMA FailOlderKeeps ==
    ASSUME ViewInv, FailOlder
    PROVE  ViewInv'
<1>0. ViewTyped /\ Views(view) /\ LatestInv /\ view.error \in BOOLEAN
    BY ViewFields DEF ViewInv, ViewTyped
<1>1. /\ older' = NoPage /\ UNCHANGED <<refreshes, shown, storeVars>>
      /\ view' = [view EXCEPT !.error = view.error \/ older.seq = view.seq]
    BY DEF FailOlder
<1>2. StoreInv' /\ UNCHANGED <<rows, clears>>
    BY <1>1, StoreStays DEF ViewInv, storeVars
<1>3. PICK e \in BOOLEAN : e <=> view.error \/ older.seq = view.seq
    BY <1>0
<1>4. view' = [entries |-> view.entries, auto |-> view.auto, paused |-> view.paused, filter |-> view.filter,
               due |-> view.due, seq |-> view.seq, latch |-> view.latch, wiping |-> view.wiping, error |-> e]
    <2>1. (view.error \/ older.seq = view.seq) = e
        BY <1>0, <1>3
    <2>2. view' = [view EXCEPT !.error = e]
        BY <1>1, <2>1
    <2> QED
        BY <1>0, <2>2 DEF Views
<1>5. ViewTyped' /\ LatestInv'
    <2>1. Views(view')
        BY <1>0, <1>3, <1>4, ViewFields DEF Views
    <2>2. OlderPages(older') /\ older'.pc = "idle"
        BY <1>1 DEF NoPage, OlderPages
    <2>3. ViewTyped'
        BY <1>0, <1>1, <2>1, <2>2 DEF ViewTyped
    <2>4. LatestInv'
        <3>1. /\ view'.seq = view.seq /\ view'.due = view.due /\ view'.paused = view.paused
              /\ view'.filter = view.filter /\ (view.error => view'.error)
            BY <1>3, <1>4
        <3> QED
            BY <1>0, <1>1, <3>1 DEF LatestInv
    <2> QED
        BY <2>3, <2>4
<1>6. PagesInv'
    <2>1. older'.pc = "idle" /\ view'.entries = view.entries /\ view'.latch = view.latch
        BY <1>1, <1>4 DEF NoPage
    <2>2. AnswersFit => AnswersFit'
        BY <1>1, <1>2, SameRows DEF AnswersFit
    <2>3. OlderFits'
        BY <2>1 DEF OlderFits
    <2>4. ShownFits => ShownFits'
        BY <1>1, <1>2, <2>1, SameRows DEF ShownFits
    <2> QED
        BY <1>2, <2>2, <2>3, <2>4 DEF ViewInv, PagesInv
<1> QED
    BY <1>2, <1>5, <1>6 DEF ViewInv

LEMMA LandKeeps ==
    ASSUME ViewInv, NEW q \in refreshes, Land(q)
    PROVE  ViewInv'
<1>1. q.answered /\ refreshes' = refreshes \ {q} /\ UNCHANGED storeVars
    BY DEF Land
<1>2. StoreInv' /\ UNCHANGED <<rows, clears>>
    BY <1>1, StoreStays DEF ViewInv, storeVars
<1>3. ViewTyped /\ LatestInv /\ Queries(q) /\ StoreInv /\ Views(view) /\ OlderPages(older)
    BY DEF ViewInv, ViewTyped
<1>4. CASE q.seq = view.seq
    <2>1. /\ view' = [view EXCEPT !.entries = q.page, !.latch = FALSE, !.error = FALSE]
          /\ shown' = [filter |-> q.filter, mixed |-> FALSE]
          /\ older' = [older EXCEPT !.crossed = @ \/ older.pc # "idle"]
        BY <1>4 DEF Land
    <2>2. view' = [entries |-> q.page, auto |-> view.auto, paused |-> view.paused, filter |-> view.filter,
                   due |-> view.due, seq |-> view.seq, latch |-> FALSE, wiping |-> view.wiping, error |-> FALSE]
        BY <1>3, <2>1 DEF Views
    <2>3. older' = [pc |-> older.pc, seq |-> older.seq, filter |-> older.filter, before |-> older.before,
                    page |-> older.page, crossed |-> (older.crossed \/ older.pc # "idle")]
        BY <1>3, <2>1 DEF OlderPages
    <2>4. ViewTyped'
        <3>1. Views(view')
            BY <1>3, <2>2, ViewFields DEF Views
        <3>2. OlderPages(older')
            <4>1. (older.crossed \/ older.pc # "idle") \in BOOLEAN
                OBVIOUS
            <4> QED
                BY <1>3, <2>3, <4>1 DEF OlderPages
        <3> QED
            BY <1>1, <1>3, <2>1, <3>1, <3>2 DEF ViewTyped
    <2>5. LatestInv'
        BY <1>1, <1>3, <1>4, <2>1, <2>2 DEF LatestInv
    <2>6. ASSUME clears' = 0 PROVE AnswersFit' /\ OlderFits' /\ ShownFits'
        <3>1. AnswersFit /\ OlderFits
            BY <1>2, <2>6 DEF ViewInv, PagesInv
        <3>2. Fits(q.page, q.filter)
            BY <1>1, <3>1 DEF AnswersFit
        <3>3. AnswersFit'
            BY <1>1, <1>2, <3>1, SameRows DEF AnswersFit
        <3>4. OlderFits'
            <4>1. view'.latch = FALSE /\ older'.pc = older.pc /\ older'.before = older.before
                  /\ older'.page = older.page /\ older'.filter = older.filter
                  /\ (older.pc # "idle" => older'.crossed)
                BY <2>2, <2>3
            <4> QED
                BY <1>2, <3>1, <4>1, SameRows DEF OlderFits
        <3>5. ShownFits'
            <4>1. view'.latch = FALSE /\ view'.entries = q.page /\ shown'.filter = q.filter
                BY <2>1, <2>2
            <4> QED
                BY <1>2, <3>2, <4>1, SameRows DEF ShownFits, Fits
        <3> QED
            BY <3>3, <3>4, <3>5
    <2> QED
        BY <1>2, <2>4, <2>5, <2>6 DEF ViewInv, PagesInv
<1>5. CASE q.seq # view.seq
    <2>1. UNCHANGED <<view, shown, older>>
        BY <1>5 DEF Land
    <2>2. ViewTyped' /\ LatestInv'
        BY <1>1, <1>3, <1>5, <2>1 DEF ViewTyped, LatestInv
    <2>3. PagesInv'
        BY <1>1, <1>2, <2>1, PagesStay DEF ViewInv
    <2> QED
        BY <1>2, <2>2, <2>3 DEF ViewInv
<1> QED
    BY <1>4, <1>5

LEMMA AnswerOlderKeeps ==
    ASSUME ViewInv, AnswerOlder
    PROVE  ViewInv'
<1> DEFINE P == QueryBefore(older.filter, older.before)
<1>1. /\ older.pc = "asked" /\ older' = [older EXCEPT !.pc = "answered", !.page = P]
      /\ UNCHANGED <<view, refreshes, shown, storeVars>>
    BY DEF AnswerOlder
<1>2. StoreInv' /\ UNCHANGED <<rows, clears>>
    BY <1>1, StoreStays DEF ViewInv, storeVars
<1>3. ViewTyped /\ LatestInv /\ StoreInv /\ OlderPages(older)
    BY DEF ViewInv, ViewTyped
<1>4. ASSUME clears = 0
      PROVE  Fits(P, older.filter) /\ Precedes(P, older.filter, older.before)
    <2>1. PICK r \in rows : r.id = older.before
        BY <1>1, <1>4 DEF ViewInv, PagesInv, OlderFits
    <2>2. older.before \in Nat
        BY <1>3, <2>1, IdsOfRows
    <2> QED
        BY <1>3, <2>2, OlderAnswerFits
<1> HIDE DEF P
<1>5. older' = [pc |-> "answered", seq |-> older.seq, filter |-> older.filter, before |-> older.before,
                page |-> P, crossed |-> older.crossed]
    BY <1>1, <1>3 DEF OlderPages
<1>6. ViewTyped'
    <2>1. OlderPages(older')
        BY <1>3, <1>5 DEF OlderPages
    <2> QED
        BY <1>1, <1>3, <2>1 DEF ViewTyped
<1>7. LatestInv'
    BY <1>1, <1>3 DEF LatestInv
<1>8. PagesInv'
    <2>1. AnswersFit => AnswersFit'
        BY <1>1, <1>2, SameRows DEF AnswersFit
    <2>2. OlderFits /\ clears = 0 => OlderFits'
        BY <1>1, <1>2, <1>4, <1>5, SameRows DEF OlderFits
    <2>3. ShownFits => ShownFits'
        BY <1>1, <1>2, SameRows DEF ShownFits
    <2> QED
        BY <1>2, <2>1, <2>2, <2>3 DEF ViewInv, PagesInv
<1> QED
    BY <1>2, <1>6, <1>7, <1>8 DEF ViewInv

LEMMA LoadOlderKeeps ==
    ASSUME ViewInv, LoadOlder
    PROVE  ViewInv'
<1> DEFINE first == Head(view.entries).id
<1>1. /\ view.entries # <<>> /\ older.pc = "idle" /\ ~view.latch /\ UNCHANGED <<refreshes, shown, storeVars>>
      /\ \/ first <= 1 /\ view' = [view EXCEPT !.latch = TRUE] /\ UNCHANGED older
         \/ /\ older' = [pc |-> "asked", seq |-> view.seq, filter |-> view.filter, before |-> first,
                         page |-> <<>>, crossed |-> FALSE]
            /\ UNCHANGED view
    BY DEF LoadOlder
<1>2. StoreInv' /\ UNCHANGED <<rows, clears>>
    BY <1>1, StoreStays DEF ViewInv, storeVars
<1>3. ViewTyped /\ LatestInv /\ StoreInv /\ Views(view)
    BY DEF ViewInv, ViewTyped
<1>4. clears = 0 => first = view.entries[1].id
    BY <1>1 DEF ViewInv, PagesInv, ShownFits
<1> HIDE DEF first
<1>5. CASE first <= 1 /\ view' = [view EXCEPT !.latch = TRUE] /\ UNCHANGED older
    <2>1. view' = [entries |-> view.entries, auto |-> view.auto, paused |-> view.paused, filter |-> view.filter,
                   due |-> view.due, seq |-> view.seq, latch |-> TRUE, wiping |-> view.wiping, error |-> view.error]
        BY <1>3, <1>5 DEF Views
    <2>2. Views(view')
        BY <1>3, <2>1, ViewFields DEF Views
    <2>3. ViewTyped' /\ LatestInv'
        BY <1>1, <1>3, <1>5, <2>1, <2>2 DEF ViewTyped, LatestInv
    <2>4. ASSUME clears = 0 PROVE AnswersFit' /\ OlderFits' /\ ShownFits'
        <3>1. AnswersFit /\ ShownFits
            BY <2>4 DEF ViewInv, PagesInv
        <3>2. \A f : \A r \in Matching(f) : r.id >= first
            <4>1. \A f : \A r \in Matching(f) : r.id \in 1..MaxId
                BY <1>3, MatchingRows, RowNumbers
            <4>2. view.entries[1] \in rows
                BY <1>1, <3>1 DEF ShownFits
            <4>3. first \in Nat /\ MaxId \in Nat
                BY <1>3, <1>4, <2>4, <4>2, RowNumbers
            <4> QED
                BY <1>5, <4>1, <4>3
        <3>3. AnswersFit'
            BY <1>1, <1>2, <3>1, SameRows DEF AnswersFit
        <3>4. OlderFits'
            BY <1>1, <1>5 DEF OlderFits
        <3>5. ShownFits'
            BY <1>1, <1>2, <1>4, <2>1, <2>4, <3>1, <3>2, SameRows DEF ShownFits
        <3> QED
            BY <3>3, <3>4, <3>5
    <2> QED
        BY <1>2, <2>3, <2>4 DEF ViewInv, PagesInv
<1>6. CASE /\ older' = [pc |-> "asked", seq |-> view.seq, filter |-> view.filter, before |-> first,
                        page |-> <<>>, crossed |-> FALSE]
           /\ UNCHANGED view
    <2>1. LatestInv'
        BY <1>1, <1>3, <1>6 DEF LatestInv
    <2>2. ASSUME clears = 0 PROVE AnswersFit' /\ OlderFits' /\ ShownFits'
        <3>1. AnswersFit /\ ShownFits
            BY <2>2 DEF ViewInv, PagesInv
        <3>2. view.entries[1] \in rows
            BY <1>1, <3>1 DEF ShownFits
        <3>3. AnswersFit'
            BY <1>1, <1>2, <3>1, SameRows DEF AnswersFit
        <3>4. OlderFits'
            BY <1>1, <1>2, <1>4, <1>6, <2>2, <3>2 DEF OlderFits
        <3>5. ShownFits'
            BY <1>1, <1>2, <1>6, <3>1, SameRows DEF ShownFits
        <3> QED
            BY <3>3, <3>4, <3>5
    <2>3. ViewTyped'
        BY <1>1, <1>3, <1>6 DEF ViewTyped, OlderPages
    <2> QED
        BY <1>2, <2>1, <2>2, <2>3 DEF ViewInv, PagesInv
<1> QED
    BY <1>1, <1>5, <1>6

LEMMA LandOlderKeeps ==
    ASSUME ViewInv, LandOlder
    PROVE  ViewInv'
<1>1. older.pc = "answered" /\ older' = NoPage /\ UNCHANGED <<refreshes, storeVars>>
    BY DEF LandOlder
<1>2. StoreInv' /\ UNCHANGED <<rows, clears>>
    BY <1>1, StoreStays DEF ViewInv, storeVars
<1>3. ViewTyped /\ LatestInv /\ StoreInv /\ Views(view) /\ shown \in [filter : {shown.filter}, mixed : BOOLEAN]
      /\ older.crossed \in BOOLEAN
    BY DEF ViewInv, ViewTyped, OlderPages
<1>4. OlderPages(older') /\ older'.pc = "idle"
    BY <1>1 DEF NoPage, OlderPages
<1>5. CASE UNCHANGED <<view, shown>>
    <2>1. ViewTyped' /\ LatestInv'
        BY <1>1, <1>3, <1>4, <1>5 DEF ViewTyped, LatestInv
    <2>2. PagesInv => PagesInv'
        BY <1>1, <1>2, <1>4, <1>5, SameRows DEF PagesInv, AnswersFit, OlderFits, ShownFits
    <2> QED
        BY <1>2, <2>1, <2>2 DEF ViewInv
<1>6. CASE ~UNCHANGED <<view, shown>>
    <2> DEFINE short == Len(older.page) < OlderPage
               longer == older.page \o view.entries
               mix == shown.mixed \/ older.crossed \/ older.filter # shown.filter
    <2>1. /\ view' = [view EXCEPT !.latch = @ \/ short, !.entries = longer]
          /\ shown' = [shown EXCEPT !.mixed = mix]
        BY <1>6 DEF LandOlder
    <2>2. short \in BOOLEAN /\ mix \in BOOLEAN
        OBVIOUS
    <2>3. longer = older.page \o view.entries /\ (mix <=> shown.mixed \/ older.crossed \/ older.filter # shown.filter)
          /\ (short <=> Len(older.page) < OlderPage)
        OBVIOUS
    <2> HIDE DEF short, longer, mix
    <2>4. view' = [entries |-> longer, auto |-> view.auto, paused |-> view.paused, filter |-> view.filter,
                   due |-> view.due, seq |-> view.seq, latch |-> (view.latch \/ short), wiping |-> view.wiping, error |-> view.error]
        BY <1>3, <2>1 DEF Views
    <2>5. shown' = [filter |-> shown.filter, mixed |-> mix]
        BY <1>3, <2>1
    <2>6. ViewTyped'
        <3>1. (view.latch \/ short) \in BOOLEAN
            OBVIOUS
        <3>2. Views(view')
            BY <1>3, <2>4, <3>1, ViewFields DEF Views
        <3> QED
            BY <1>1, <1>3, <1>4, <2>2, <2>5, <3>2 DEF ViewTyped
    <2>7. LatestInv'
        BY <1>1, <1>3, <2>4, <2>5 DEF LatestInv
    <2>8. ASSUME clears = 0 PROVE AnswersFit' /\ OlderFits' /\ ShownFits'
        <3> DEFINE P == older.page
                   E == view.entries
                   f == shown.filter
        <3>1. /\ AnswersFit /\ E \in Seq(rows) /\ (~shown.mixed => Fits(E, f))
              /\ Fits(P, older.filter) /\ Precedes(P, older.filter, older.before)
              /\ (~older.crossed /\ E # <<>> => E[1].id = older.before)
              /\ ~view.latch
            BY <1>1, <2>8 DEF ViewInv, PagesInv, OlderFits, ShownFits, Fits
        <3>2. P \in Seq(rows) /\ longer \in Seq(rows) /\ (E = <<>> => longer = P)
            <4>1. P \in Seq(rows)
                BY <3>1 DEF Fits
            <4> HIDE DEF P, E
            <4>2. longer = P \o E
                BY <2>3 DEF P, E
            <4>3. P \o E \in Seq(rows)
                BY <3>1, <4>1
            <4>4. P \o <<>> = P
                BY <4>1
            <4> QED
                BY <4>1, <4>2, <4>3, <4>4
        <3>3. AnswersFit'
            BY <1>1, <1>2, <3>1, SameRows DEF AnswersFit
        <3>4. OlderFits'
            BY <1>4 DEF OlderFits
        <3>5. /\ view'.entries = longer /\ shown'.filter = f /\ shown'.mixed = mix
              /\ view'.latch = (view.latch \/ short)
            BY <2>4, <2>5
        <3>6. ASSUME ~mix PROVE Fits(longer, f)
            <4>1. ~shown.mixed /\ ~older.crossed /\ older.filter = f
                BY <2>3, <3>6
            <4>2. CASE E = <<>>
                BY <3>1, <3>2, <4>1, <4>2
            <4>3. CASE E # <<>>
                <5>1. Fits(P, f) /\ Precedes(P, f, older.before) /\ Fits(E, f) /\ E[1].id = older.before
                    BY <3>1, <4>1, <4>3
                <5>2. Fits(P \o E, f)
                    <6> HIDE DEF P, E, f
                    <6> QED
                        BY <1>3, <4>3, <5>1, PageGoesBefore
                <5> QED
                    BY <2>3, <5>2
            <4> QED
                BY <4>2, <4>3
        <3>7. ASSUME ~mix, short, longer # <<>>, NEW r \in Matching(f) PROVE r.id >= longer[1].id
            <4>1. ~older.crossed /\ older.filter = f /\ Len(P) < OlderPage
                BY <2>3, <3>7
            <4>2. r \in rows /\ r.id \in Nat /\ \A q \in rows : q.id \in Nat
                BY <1>3, MatchingRows, IdsOfRows
            <4>3. older.before \in Nat
                <5>1. PICK q \in rows : q.id = older.before
                    BY <1>1, <2>8 DEF ViewInv, PagesInv, OlderFits
                <5> QED
                    BY <4>2, <5>1
            <4>4. longer[1].id <= older.before /\ (P # <<>> => longer[1] = P[1])
                <5>1. CASE P = <<>>
                    <6>1. E # <<>> /\ longer = E
                        BY <2>3, <3>1, <3>7, <5>1
                    <6>2. longer[1].id = older.before
                        BY <3>1, <4>1, <6>1
                    <6> QED
                        BY <4>3, <5>1, <6>2
                <5>2. CASE P # <<>>
                    <6>1. P \in Seq(rows) /\ 1 \in 1..Len(P) /\ P[1] \in rows
                        BY <3>2, <5>2
                    <6>2. longer[1] = P[1]
                        <7>1. longer = P \o E /\ E \in Seq(rows)
                            BY <2>3, <3>1
                        <7> HIDE DEF P, E
                        <7> QED
                            BY <6>1, <7>1
                    <6>3. P[1].id < older.before
                        BY <3>1, <6>1 DEF Precedes
                    <6>4. P[1].id \in Nat
                        BY <4>2, <6>1
                    <6> HIDE DEF P
                    <6> QED
                        BY <4>3, <6>2, <6>3, <6>4
                <5> QED
                    BY <5>1, <5>2
            <4>5. CASE r.id < older.before
                BY <3>1, <4>1, <4>2, <4>4, <4>5 DEF Precedes
            <4>6. CASE r.id >= older.before
                <5>1. longer[1] \in rows
                    BY <3>2, <3>7
                <5> HIDE DEF P, E, f
                <5> QED
                    BY <4>2, <4>3, <4>4, <4>6, <5>1
            <4> QED
                BY <4>2, <4>3, <4>5, <4>6
        <3>8. ShownFits'
            BY <1>2, <3>1, <3>2, <3>5, <3>6, <3>7, SameRows DEF ShownFits, Fits
        <3> QED
            BY <3>3, <3>4, <3>8
    <2> QED
        BY <1>2, <2>6, <2>7, <2>8 DEF ViewInv, PagesInv
<1> QED
    BY <1>5, <1>6

LEMMA BatchGrows ==
    ASSUME StoreInv, NEW s \in Phones, Batch(s)
    PROVE  GrowsOnTop
<1>0. StoreTypeOK /\ cursor \in [Phones -> Nat \ {0}] /\ MaxLine \in Nat
    BY StoreAssumption DEF StoreInv, StoreTypeOK
<1>1. PICK last \in cursor[s]..MaxLine : rows' = InsertOrIgnore(s, cursor[s]..last)
    BY DEF Batch
<1> DEFINE batch == (cursor[s]..last) \ Stored(s)
           count(n) == Cardinality({m \in batch : m <= n})
           New == Numbered(s, batch, Top)
<1>2. batch \in SUBSET (1..MaxLine)
    BY <1>0, <1>1
<1>3. Top \in Nat /\ \A r \in rows : r.id \in Nat /\ r.id <= Top
    BY <1>0, TopIsOnTop, IdsOfRows
<1>4. \A n \in batch : count(n) \in Nat \ {0}
    <2> HIDE DEF batch
    <2> QED
        BY <1>2, <1>3, NumberedIds
<1>5. rows' = rows \cup New
    BY <1>1 DEF InsertOrIgnore
<1>6. \A r \in New : \E n \in batch : r = [id |-> Top + count(n), serial |-> s, line |-> n, at |-> age]
    BY DEF Numbered
<1> HIDE DEF batch, count, New
<1>7. \A r \in New : r.id \in Nat /\ Top < r.id
    BY <1>3, <1>4, <1>6
<1>8. \A r \in rows' \ rows, q \in rows : q.id < r.id
    BY <1>3, <1>5, <1>7
<1> QED
    BY <1>5, <1>8 DEF GrowsOnTop

LEMMA IngestKeeps ==
    ASSUME ViewInv, Ingest
    PROVE  ViewInv'
<1>1. Batch(Watched) /\ UNCHANGED <<view, refreshes, older, shown>> /\ Watched \in Phones
    BY ViewAssumption DEF Ingest
<1>2. StoreInv /\ StoreInv' /\ GrowsOnTop /\ clears' = clears
    BY <1>1, BatchKeeps, BatchGrows DEF ViewInv, Batch
<1>3. ViewTyped' /\ LatestInv'
    BY <1>1 DEF ViewInv, ViewTyped, LatestInv
<1>4. ASSUME clears = 0 PROVE AnswersFit' /\ OlderFits' /\ ShownFits'
    <2>1. AnswersFit /\ OlderFits /\ ShownFits
        BY <1>4 DEF ViewInv, PagesInv
    <2>2. \A E, f : Fits(E, f) => Fits(E, f)'
        BY <1>2, GrownFits
    <2>3. /\ \A r \in rows : r \in rows' /\ r.id \in Nat
          /\ \A r \in rows' : r.id \in Nat
          /\ \A f : \A r \in Matching(f)' : r \in Matching(f) \/ (r \in rows' \ rows /\ \A q \in rows : q.id < r.id)
        <3>1. \A r \in rows' : r.id \in 1..MaxId
            BY <1>2 DEF StoreInv, StoreTypeOK
        <3> QED
            BY <1>2, <3>1, IdsOfRows, StoreAssumption DEF GrowsOnTop, Matching
    <2>4. AnswersFit'
        BY <1>1, <2>1, <2>2 DEF AnswersFit
    <2>5. OlderFits'
        <3>1. CASE older.pc = "idle"
            BY <1>1, <3>1 DEF OlderFits
        <3>2. CASE older.pc # "idle"
            <4>1. PICK q \in rows : q.id = older.before
                BY <2>1, <3>2 DEF OlderFits
            <4>2. \A f : \A r \in Matching(f)' : r.id < older.before => r \in Matching(f)
                BY <2>3, <4>1
            <4>3. \A E, f : Precedes(E, f, older.before) => Precedes(E, f, older.before)'
                BY <1>1, <4>2 DEF Precedes
            <4>4. q \in rows'
                BY <2>3
            <4> QED
                BY <1>1, <2>1, <2>2, <3>2, <4>1, <4>3, <4>4 DEF OlderFits
        <3> QED
            BY <3>1, <3>2
    <2>6. ShownFits'
        <3>1. view.entries \in Seq(rows) /\ view.entries \in Seq(rows')
            BY <1>2, <2>1 DEF ShownFits, GrowsOnTop
        <3>2. ~shown.mixed => Window(view.entries, shown.filter)'
            BY <1>1, <2>1, <2>2 DEF ShownFits, Fits
        <3>3. ASSUME ~shown.mixed, view.latch, view.entries # <<>>, NEW r \in Matching(shown.filter)'
              PROVE  r.id >= view.entries[1].id
            <4>1. view.entries[1] \in rows
                BY <3>1, <3>3
            <4>2. CASE r \in Matching(shown.filter)
                BY <2>1, <3>3, <4>2 DEF ShownFits
            <4>3. CASE r \in rows' \ rows /\ \A q \in rows : q.id < r.id
                BY <2>3, <4>1, <4>3
            <4> QED
                BY <1>1, <2>3, <4>2, <4>3
        <3> QED
            BY <1>1, <3>1, <3>2, <3>3 DEF ShownFits
    <2> QED
        BY <2>4, <2>5, <2>6
<1> QED
    BY <1>2, <1>3, <1>4 DEF ViewInv, PagesInv

-----------------------------------------------------------------------------
LEMMA ViewInitially == ViewInit => ViewInv
<1> SUFFICES ASSUME ViewInit PROVE ViewInv
    OBVIOUS
<1>1. StoreInv
    BY StoreInitially DEF ViewInit
<1>2. PICK f \in Filters :
        /\ view = [entries |-> <<>>, auto |-> TRUE, paused |-> FALSE, filter |-> f, due |-> FALSE,
                   seq |-> 1, latch |-> FALSE, wiping |-> FALSE, error |-> f \in WindowRefuses]
        /\ refreshes = {[seq |-> 1, filter |-> f, answered |-> FALSE, page |-> <<>>]}
        /\ shown = [filter |-> f, mixed |-> FALSE]
    BY DEF ViewInit
<1>3. older = NoPage
    BY DEF ViewInit
<1>4. ViewTyped
    BY <1>2, <1>3 DEF ViewTyped, Views, Queries, OlderPages, NoPage
<1>5. LatestInv
    BY <1>2 DEF LatestInv
<1>6. AnswersFit /\ OlderFits
    BY <1>2, <1>3 DEF AnswersFit, OlderFits, NoPage
<1>7. ShownFits
    BY <1>2 DEF ShownFits, Window
<1> QED
    BY <1>1, <1>4, <1>5, <1>6, <1>7 DEF ViewInv, PagesInv

LEMMA ViewStep == ViewInv /\ [ViewNext]_logcatVars => ViewInv'
<1> SUFFICES ASSUME ViewInv, [ViewNext]_logcatVars PROVE ViewInv'
    OBVIOUS
<1>1. CASE Ping \/ Debounced \/ ScrollDown \/ TogglePause
    BY <1>1, RefreshersKeep
<1>2. CASE ScrollUp
    BY <1>2, ScrollUpKeeps
<1>3. CASE ClearAll
    BY <1>3, ClearAllKeeps
<1>4. CASE Wiped
    BY <1>4, WipedKeeps
<1>12. CASE WipeFails
    BY <1>12, WipeFailsKeeps
<1>13. CASE FailOlder
    BY <1>13, FailOlderKeeps
<1>5. CASE LoadOlder
    BY <1>5, LoadOlderKeeps
<1>6. CASE AnswerOlder
    BY <1>6, AnswerOlderKeeps
<1>7. CASE LandOlder
    BY <1>7, LandOlderKeeps
<1>8. CASE Ingest
    BY <1>8, IngestKeeps
<1>9. CASE \E q \in refreshes : Answer(q) \/ Fail(q) \/ Land(q)
    BY <1>9, AnswerKeeps, FailKeeps, LandKeeps
<1>10. CASE \E f \in Filters : Type(f)
    BY <1>10, TypeKeeps
<1>11. CASE UNCHANGED logcatVars
    <2>1. StoreInv' /\ UNCHANGED <<rows, clears, view, refreshes, older, shown>>
        BY <1>11, StoreStays DEF ViewInv, logcatVars, storeVars, viewVars
    <2>2. ViewTyped' /\ LatestInv'
        BY <2>1 DEF ViewInv, ViewTyped, LatestInv
    <2>3. PagesInv => PagesInv'
        BY <2>1, SameRows DEF PagesInv, AnswersFit, OlderFits, ShownFits
    <2> QED
        BY <2>1, <2>2, <2>3 DEF ViewInv
<1> QED
    BY <1>1, <1>2, <1>3, <1>4, <1>5, <1>6, <1>7, <1>8, <1>9, <1>10, <1>11, <1>12, <1>13 DEF ViewNext

LEMMA ViewInductive == ViewSpec => []ViewInv
<1>1. ViewInit => ViewInv
    BY ViewInitially
<1>2. ViewInv /\ [ViewNext]_logcatVars => ViewInv'
    BY ViewStep
<1> QED
    BY <1>1, <1>2, PTL DEF ViewSpec

(* Once nothing is in flight the rows shown were queried with the filter that *)
(* is typed, or a message says that the query failed; as long as nothing was cleared and no page came late they are    *)
(* a window on the matching rows, and scrolling stops only at their start     *)
(* (LogcatView.tsx: refresh and loadOlder).                                   *)
THEOREM WindowIsAsked == ViewSpec => []ShownIsAsked
<1>1. ViewInv => ShownIsAsked
    <2> SUFFICES ASSUME ViewInv PROVE ShownIsAsked
        OBVIOUS
    <2>1. FilterIsShown
        BY DEF ViewInv, LatestInv, FilterIsShown
    <2>2. PagesFit
        BY DEF ViewInv, PagesInv, ShownFits, PagesFit
    <2>3. GivesUpAtTheStart
        <3> SUFFICES ASSUME clears = 0, ~shown.mixed, view.latch, view.entries # <<>>, NEW r \in Matching(shown.filter)
                     PROVE  r.id >= Head(view.entries).id
            BY DEF GivesUpAtTheStart
        <3>1. view.entries \in Seq(rows) /\ r.id >= view.entries[1].id
            BY DEF ViewInv, PagesInv, ShownFits
        <3>2. Head(view.entries) = view.entries[1]
            BY <3>1
        <3> QED
            BY <3>1, <3>2
    <2> QED
        BY <2>1, <2>2, <2>3 DEF ShownIsAsked
<1> QED
    BY <1>1, ViewInductive, PTL
=============================================================================
