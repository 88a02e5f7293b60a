------------------------ MODULE InterceptionProofs -------------------------
(* For any clients, hosts and connections, and any number of rotations,       *)
(* failures and crashes among them: whatever a start would pick has its key,  *)
(* only a revocation whose insert never came loses the certificate, and no    *)
(* client is tunnelled or refused without a reason.                           *)
EXTENDS Interception, FiniteSetTheorems, WellFoundedInduction, TLAPS

(* The certificates the keyring holds are all a start or a rotation can hand  *)
(* out.                                                                       *)
KeysInv ==
    /\ CurrentHasKey
    /\ \A r \in Rotators : rot[r] # NoRot => rot[r].id \in keys
    /\ boot # NoRot => boot.id \in keys

(* Until it is known that a client speaks h2 only, nothing is known of it.    *)
EarnedInv ==
    /\ OnlyAlertsTeach /\ TunnelHasAReason
    /\ \A k \in Conns :
         /\ conn[k].pc = "peek" => conn[k].fp = Unknown
         /\ conn[k].pc \in {"decide", "handshake"} /\ conn[k].fp # Unknown => conn[k].client \notin OnlyH2

(* As long as no two rotations overlapped, the database follows the one that  *)
(* is under way, and what a crash or a failure left is what was noted down.   *)
Unsettled == restart.lapses \cap {"cut", "failed"} # {}

SoleInv ==
    "overlap" \notin restart.lapses =>
      /\ \A r, s \in Rotators : rot[r] # NoRot /\ rot[s] # NoRot => r = s
      /\ alive => "cut" \notin restart.lapses
      /\ alive /\ (\A r \in Rotators : rot[r].pc \notin {"insert", "swap"}) =>
           Current = {c \in {mem} : "failed" \notin restart.lapses}
      /\ \A r \in Rotators :
           /\ rot[r].pc = "revoke" => rot[r].old = mem
           /\ rot[r].pc = "insert" => Current = {}
           /\ rot[r].pc = "swap"   => Current = {rot[r].id} /\ "failed" \notin restart.lapses

(* A start that is under way knows what it replaces.                          *)
BootInv ==
    "overlap" \notin restart.lapses /\ ~alive =>
      /\ boot.pc # "insert" => IF Unsettled THEN Current = {} ELSE \E c \in restart.found : Current = {c}
      /\ boot.pc = "revoke" => Current = {boot.old} /\ boot.old \in legacy
      /\ boot.pc = "insert" => Current = {} /\ (Unsettled \/ legacy \cap restart.found # {})

InterceptionInv == InterceptionTypeOK /\ KeysInv /\ EarnedInv /\ SoleInv /\ BootInv

(* A certificate is left to number as long as not all are taken.              *)
LEMMA NextCaIsFree ==
  ASSUME Cas \ Taken # {}
  PROVE  NextCa \in Cas \ Taken
<1> DEFINE R == {ss \in Nat \X Nat : ss[1] < ss[2]}
<1> DEFINE Free == Cas \ Taken
<1>1. IsWellFoundedOn(R, Nat)
  BY NatLessThanWellFounded DEF OpToRel
<1>2. Free \in SUBSET Nat /\ Free # {}
  BY MaxCaAssumption DEF Cas
<1>3. PICK m \in Free : \A q \in Free : ~(<<q, m>> \in R)
  <2>. HIDE DEF R, Free
  <2>. QED BY <1>1, <1>2, WFMin
<1>4. ASSUME NEW q \in Free PROVE m <= q
  <2>1. m \in Nat /\ q \in Nat
    BY <1>2
  <2>2. ~(<<q, m>> \in R)
    BY <1>3
  <2>3. ~(q < m)
    BY <2>1, <2>2
  <2>. QED BY <2>1, <2>3
<1>. QED BY <1>3, <1>4 DEF NextCa

LEMMA TwoLeftIsOneLeft ==
  ASSUME Cardinality(Cas \ Taken) > 1
  PROVE  Cas \ Taken # {}
  BY FS_EmptySet

LEMMA InterceptionInitInv == InterceptionInit => InterceptionInv
<1> SUFFICES ASSUME InterceptionInit PROVE InterceptionInv
  OBVIOUS
<1>0. 1 \in Cas
  BY MaxCaAssumption DEF Cas
<1>1. InterceptionTypeOK
  <2>1. restart \in [found : SUBSET Cas, lapses : SUBSET Lapses] /\ restart.found = {1} /\ restart.lapses = {}
    BY <1>0 DEF InterceptionInit
  <2>2. mem \in (IF alive THEN Cas ELSE {0}) /\ legacy \subseteq Cas
    BY <1>0 DEF InterceptionInit
  <2>. QED BY <1>0, <2>1, <2>2, MaxCaAssumption DEF InterceptionInit, InterceptionTypeOK
<1>2. Current = {1}
  BY <1>0 DEF InterceptionInit, Current
<1>3. restart.found = {1} /\ restart.lapses = {} /\ boot = NoRot /\ (\A r \in Rotators : rot[r] = NoRot) /\ (alive => mem = 1)
  BY DEF InterceptionInit
<1>4. KeysInv
  BY <1>2, <1>3 DEF InterceptionInit, KeysInv, CurrentHasKey
<1>5. SoleInv
  BY <1>2, <1>3 DEF SoleInv, NoRot
<1>6. BootInv
  BY <1>2, <1>3 DEF BootInv, NoRot, Unsettled
<1>7. EarnedInv
  BY DEF InterceptionInit, EarnedInv, OnlyAlertsTeach, TunnelHasAReason, NoConn
<1>. QED BY <1>1, <1>4, <1>5, <1>6, <1>7 DEF InterceptionInv

-----------------------------------------------------------------------------
(* The certificate authority. *)

(* What a step that leaves the connections alone must show of them.           *)
LEMMA EarnedStays ==
  ASSUME EarnedInv, UNCHANGED connVars, refused \subseteq refused', learned' \subseteq learned
  PROVE  EarnedInv'
  BY DEF EarnedInv, OnlyAlertsTeach, TunnelHasAReason, connVars

LEMMA RotateKeepsTypes ==
  ASSUME InterceptionInv, NEW r \in Rotators, Rotate(r)
  PROVE  InterceptionTypeOK'
<1>0. InterceptionTypeOK
  BY DEF InterceptionInv
<1>1. CASE RotateKey(r)
  <2>1. NextCa \in Cas
    BY <1>1, NextCaIsFree, TwoLeftIsOneLeft DEF RotateKey
  <2>2. PICK n \in Cas : n = NextCa
    BY <2>1
  <2>3. [pc |-> "old", id |-> n, old |-> 0] \in Rotations
    BY MaxCaAssumption DEF Rotations
  <2>4. rot' \in [Rotators -> Rotations \cup {NoRot}] /\ keys' \subseteq Cas
    BY <1>0, <1>1, <2>2, <2>3 DEF RotateKey, InterceptionTypeOK
  <2>5. restart' \in [found : SUBSET Cas, lapses : SUBSET Lapses]
    <3>1. PICK o : o = {l \in {"overlap"} : \E x \in Rotators : rot[x].pc # "idle"}
      OBVIOUS
    <3>2. restart' = [restart EXCEPT !.lapses = @ \cup o] /\ o \subseteq Lapses
      BY <1>1, <3>1 DEF RotateKey, Lapses
    <3>. QED BY <1>0, <3>2 DEF InterceptionTypeOK
  <2>. QED BY <1>0, <1>1, <2>4, <2>5 DEF RotateKey, InterceptionTypeOK, useVars
<1>2. CASE RotateOld(r)
  <2>1. rot[r] \in Rotations /\ mem \in Cas
    BY <1>0, <1>2 DEF RotateOld, InterceptionTypeOK, NoRot
  <2>2. [pc |-> "revoke", id |-> rot[r].id, old |-> mem] \in Rotations
    BY <2>1, MaxCaAssumption DEF Rotations, Cas
  <2>3. rot' \in [Rotators -> Rotations \cup {NoRot}]
    <3>1. rot' = [rot EXCEPT ![r] = [pc |-> "revoke", id |-> rot[r].id, old |-> mem]]
      BY <1>2 DEF RotateOld
    <3>. QED BY <1>0, <2>2, <3>1 DEF InterceptionTypeOK
  <2>. QED BY <1>0, <1>2, <2>3 DEF RotateOld, InterceptionTypeOK, useVars
<1>3. CASE RotateRevoke(r) \/ RotateInsert(r) \/ RotateSwap(r)
  <2>1. rot[r] \in Rotations
    BY <1>0, <1>3 DEF RotateRevoke, RotateInsert, RotateSwap, InterceptionTypeOK, NoRot
  <2>2. \A s \in {"insert", "swap", "reset"} : [rot[r] EXCEPT !.pc = s] \in Rotations
    BY <2>1 DEF Rotations
  <2>3. rot' \in [Rotators -> Rotations \cup {NoRot}]
    BY <1>0, <1>3, <2>2 DEF RotateRevoke, RotateInsert, RotateSwap, InterceptionTypeOK
  <2>4. rot[r].id \in Cas
    BY <2>1 DEF Rotations
  <2>5. restart' \in [found : SUBSET Cas, lapses : SUBSET Lapses]
    BY <1>0, <1>3 DEF RotateRevoke, RotateInsert, RotateSwap, InterceptionTypeOK
  <2>6. db' \in [Cas -> {"absent", "current", "revoked"}] /\ mem' \in Cas
    BY <1>0, <1>3, <2>4 DEF RotateRevoke, RotateInsert, RotateSwap, InterceptionTypeOK
  <2>. QED BY <1>0, <1>3, <2>3, <2>5, <2>6
       DEF RotateRevoke, RotateInsert, RotateSwap, InterceptionTypeOK, useVars
<1>4. CASE RotateReset(r)
  BY <1>0, <1>4 DEF RotateReset, InterceptionTypeOK, connVars
<1>5. CASE RotateFails(r)
  <2>1. PICK o : o = {l \in {"failed"} : rot[r].pc = "insert"}
    OBVIOUS
  <2>2. restart' = [restart EXCEPT !.lapses = @ \cup o] /\ o \subseteq Lapses
    BY <1>5, <2>1 DEF RotateFails, Lapses
  <2>3. restart' \in [found : SUBSET Cas, lapses : SUBSET Lapses]
    BY <1>0, <2>2 DEF InterceptionTypeOK
  <2>. QED BY <1>0, <1>5, <2>3 DEF RotateFails, InterceptionTypeOK, useVars
<1>. QED BY <1>1, <1>2, <1>3, <1>4, <1>5 DEF Rotate

LEMMA RotateKeepsKeys ==
  ASSUME InterceptionInv, NEW r \in Rotators, Rotate(r)
  PROVE  KeysInv'
<1>0. InterceptionTypeOK /\ KeysInv
  BY DEF InterceptionInv
<1>1. CASE RotateKey(r)
  <2>1. PICK n : n = NextCa
    OBVIOUS
  <2>2. keys' = keys \cup {n} /\ rot' = [rot EXCEPT ![r] = [pc |-> "old", id |-> n, old |-> 0]]
    BY <1>1, <2>1 DEF RotateKey
  <2>. QED BY <1>0, <1>1, <2>2 DEF RotateKey, KeysInv, CurrentHasKey, Current, InterceptionTypeOK
<1>2. CASE RotateOld(r)
  BY <1>0, <1>2 DEF RotateOld, KeysInv, CurrentHasKey, Current, InterceptionTypeOK, Rotations, NoRot
<1>3. CASE RotateRevoke(r) \/ RotateInsert(r)
  <2>1. rot[r] \in Rotations /\ rot[r].id \in keys
    BY <1>0, <1>3 DEF RotateRevoke, RotateInsert, KeysInv, InterceptionTypeOK, NoRot
  <2>2. Current' \subseteq Current \cup {rot[r].id}
    BY <1>0, <1>3 DEF RotateRevoke, RotateInsert, Current, InterceptionTypeOK
  <2>3. \A s \in Rotators : rot'[s].id = rot[s].id /\ (s # r => rot'[s] = rot[s])
    BY <1>0, <1>3, <2>1 DEF RotateRevoke, RotateInsert, InterceptionTypeOK, Rotations
  <2>. QED BY <1>0, <1>3, <2>1, <2>2, <2>3 DEF RotateRevoke, RotateInsert, KeysInv, CurrentHasKey
<1>4. CASE RotateSwap(r)
  <2>1. rot[r] \in Rotations /\ rot[r].id \in keys
    BY <1>0, <1>4 DEF RotateSwap, KeysInv, InterceptionTypeOK, NoRot
  <2>2. \A s \in Rotators : rot'[s].id = rot[s].id /\ (s # r => rot'[s] = rot[s])
    BY <1>0, <1>4, <2>1 DEF RotateSwap, InterceptionTypeOK, Rotations
  <2>. QED BY <1>0, <1>4, <2>1, <2>2 DEF RotateSwap, KeysInv, CurrentHasKey, Current
<1>5. CASE RotateReset(r) \/ RotateFails(r)
  BY <1>0, <1>5 DEF RotateReset, RotateFails, KeysInv, CurrentHasKey, Current, InterceptionTypeOK
<1>. QED BY <1>1, <1>2, <1>3, <1>4, <1>5 DEF Rotate

LEMMA RotateKeepsSole ==
  ASSUME InterceptionInv, NEW r \in Rotators, Rotate(r)
  PROVE  SoleInv'
<1>0. InterceptionTypeOK /\ SoleInv
  BY DEF InterceptionInv
<1> SUFFICES ASSUME "overlap" \notin restart'.lapses PROVE SoleInv'
  BY DEF SoleInv
<1>1. alive /\ alive'
  BY <1>0 DEF Rotate, RotateKey, RotateOld, RotateRevoke, RotateInsert, RotateFails, RotateSwap, RotateReset, InterceptionTypeOK
<1>2. CASE RotateKey(r)
  <2>1. PICK o : o = {l \in {"overlap"} : \E x \in Rotators : rot[x].pc # "idle"}
    OBVIOUS
  <2>2. restart' = [restart EXCEPT !.lapses = @ \cup o]
    BY <1>2, <2>1 DEF RotateKey
  <2>3. restart'.lapses = restart.lapses \cup o
    BY <1>0, <2>2 DEF InterceptionTypeOK
  <2>4. "overlap" \notin restart.lapses /\ o = {} /\ restart'.lapses = restart.lapses
    BY <2>1, <2>3
  <2>5. \A s \in Rotators : rot[s] = NoRot
    <3>1. \A s \in Rotators : rot[s].pc = "idle"
      BY <2>1, <2>4
    <3>. QED BY <1>0, <3>1 DEF InterceptionTypeOK, Rotations
  <2>6. Current' = Current /\ mem' = mem /\ Current = {c \in {mem} : "failed" \notin restart.lapses} /\ "cut" \notin restart.lapses
    BY <1>0, <1>1, <1>2, <2>4, <2>5 DEF RotateKey, SoleInv, Current, NoRot
  <2>7. PICK n : n = NextCa
    OBVIOUS
  <2>8. rot' = [rot EXCEPT ![r] = [pc |-> "old", id |-> n, old |-> 0]]
    BY <1>2, <2>7 DEF RotateKey
  <2>9. \A s \in Rotators : /\ s # r => rot'[s] = NoRot
                            /\ rot'[s].pc \notin {"revoke", "insert", "swap"}
    BY <1>0, <2>5, <2>8 DEF InterceptionTypeOK, NoRot
  <2>. QED BY <1>1, <2>4, <2>6, <2>9 DEF SoleInv
<1>3. CASE ~RotateKey(r)
  <2>0. "overlap" \notin restart.lapses
    BY <1>0, <1>3 DEF Rotate, RotateOld, RotateRevoke, RotateInsert, RotateFails, RotateSwap, RotateReset, InterceptionTypeOK
  <2>1. rot[r] \in Rotations
    BY <1>0, <1>3 DEF Rotate, RotateOld, RotateRevoke, RotateInsert, RotateFails, RotateSwap, RotateReset, InterceptionTypeOK, NoRot
  <2>2. \A s \in Rotators : s # r => rot[s] = NoRot
    <3>1. rot[r] # NoRot
      BY <2>1 DEF Rotations, NoRot
    <3>. QED BY <1>0, <2>0, <3>1 DEF SoleInv
  <2>3. \A s \in Rotators : s # r => rot'[s] = NoRot
    BY <1>0, <1>3, <2>2 DEF Rotate, RotateOld, RotateRevoke, RotateInsert, RotateFails, RotateSwap, RotateReset, InterceptionTypeOK
  <2>4. NoRot.pc = "idle"
    BY DEF NoRot
  <2>5. /\ "cut" \notin restart.lapses
        /\ rot[r].pc \notin {"insert", "swap"} => Current = {c \in {mem} : "failed" \notin restart.lapses}
        /\ rot[r].pc = "revoke" => rot[r].old = mem
        /\ rot[r].pc = "insert" => Current = {}
        /\ rot[r].pc = "swap" => Current = {rot[r].id} /\ "failed" \notin restart.lapses
    <3>1. rot[r].pc \notin {"insert", "swap"} => \A s \in Rotators : rot[s].pc \notin {"insert", "swap"}
      BY <2>2, <2>4
    <3>. QED BY <1>0, <1>1, <2>0, <3>1 DEF SoleInv
  <2>6. SUFFICES
          /\ "cut" \notin restart'.lapses
          /\ rot'[r].pc \notin {"insert", "swap"} => Current' = {c \in {mem'} : "failed" \notin restart'.lapses}
          /\ rot'[r].pc = "revoke" => rot'[r].old = mem'
          /\ rot'[r].pc = "insert" => Current' = {}
          /\ rot'[r].pc = "swap" => Current' = {rot'[r].id} /\ "failed" \notin restart'.lapses
    BY <1>1, <2>3, <2>4 DEF SoleInv
  <2>7. CASE RotateOld(r)
    <3>1. rot'[r].pc = "revoke" /\ rot'[r].old = mem /\ rot[r].pc = "old"
      BY <1>0, <2>1, <2>7 DEF RotateOld, InterceptionTypeOK, Rotations
    <3>2. Current' = Current /\ mem' = mem /\ restart' = restart
      BY <2>7 DEF RotateOld, Current
    <3>. QED BY <2>5, <3>1, <3>2
  <2>8. CASE RotateRevoke(r)
    <3>1. rot'[r].pc = "insert" /\ restart' = restart /\ rot[r].pc = "revoke"
      BY <1>0, <2>1, <2>8 DEF RotateRevoke, InterceptionTypeOK, Rotations
    <3>2. Current \subseteq {mem} /\ rot[r].old = mem
      BY <2>5, <3>1
    <3>3. Current' = {}
      BY <1>0, <2>8, <3>2 DEF RotateRevoke, Current, InterceptionTypeOK
    <3>. QED BY <2>5, <3>1, <3>3
  <2>9. CASE RotateInsert(r)
    <3>1. rot'[r].pc = "swap" /\ rot'[r].id = rot[r].id /\ rot[r].id \in Cas /\ rot[r].pc = "insert"
      BY <1>0, <2>1, <2>9 DEF RotateInsert, InterceptionTypeOK, Rotations
    <3>2. Current' = {rot[r].id}
      BY <1>0, <2>5, <2>9, <3>1 DEF RotateInsert, Current, InterceptionTypeOK
    <3>3. restart'.lapses = restart.lapses \ {"failed"}
      BY <1>0, <2>9 DEF RotateInsert, InterceptionTypeOK
    <3>. QED BY <2>5, <3>1, <3>2, <3>3
  <2>10. CASE RotateFails(r)
    <3>1. rot'[r].pc = "idle" /\ rot[r].pc \in {"revoke", "insert"} /\ mem' = mem /\ Current' = Current
      BY <1>0, <2>4, <2>10 DEF RotateFails, InterceptionTypeOK, Current
    <3>2. PICK o : o = {l \in {"failed"} : rot[r].pc = "insert"}
      OBVIOUS
    <3>3. restart' = [restart EXCEPT !.lapses = @ \cup o]
      BY <2>10, <3>2 DEF RotateFails
    <3>4. restart'.lapses = restart.lapses \cup o
      BY <1>0, <3>3 DEF InterceptionTypeOK
    <3>5. CASE rot[r].pc = "insert"
      <4>1. o = {"failed"}
        BY <3>2, <3>5
      <4>. QED BY <2>5, <3>1, <3>4, <3>5, <4>1
    <3>6. CASE rot[r].pc = "revoke"
      <4>1. o = {}
        BY <3>2, <3>6
      <4>. QED BY <2>5, <3>1, <3>4, <3>6, <4>1
    <3>. QED BY <3>1, <3>5, <3>6
  <2>11. CASE RotateSwap(r)
    <3>1. rot'[r].pc = "reset" /\ rot[r].pc = "swap" /\ restart' = restart
      BY <1>0, <2>1, <2>11 DEF RotateSwap, InterceptionTypeOK, Rotations
    <3>2. Current' = Current /\ mem' = rot[r].id
      BY <2>11 DEF RotateSwap, Current
    <3>. QED BY <2>5, <3>1, <3>2
  <2>12. CASE RotateReset(r)
    <3>1. rot'[r].pc = "idle" /\ rot[r].pc = "reset" /\ restart' = restart
      BY <1>0, <2>4, <2>12 DEF RotateReset, InterceptionTypeOK
    <3>2. Current' = Current /\ mem' = mem
      BY <2>12 DEF RotateReset, Current
    <3>. QED BY <2>5, <3>1, <3>2
  <2>. QED BY <1>3, <2>7, <2>8, <2>9, <2>10, <2>11, <2>12 DEF Rotate
<1>. QED BY <1>2, <1>3

LEMMA RotateKeepsInv ==
  ASSUME InterceptionInv, NEW r \in Rotators, Rotate(r)
  PROVE  InterceptionInv'
<1>1. EarnedInv'
  <2>1. UNCHANGED connVars /\ refused' = refused /\ learned' \subseteq learned
    BY DEF Rotate, RotateKey, RotateOld, RotateRevoke, RotateInsert, RotateFails, RotateSwap, RotateReset, useVars, connVars
  <2>. QED BY <2>1, EarnedStays DEF InterceptionInv
<1>2. BootInv'
  <2>1. alive'
    BY DEF InterceptionInv, InterceptionTypeOK, Rotate, RotateKey, RotateOld, RotateRevoke, RotateInsert, RotateFails, RotateSwap, RotateReset
  <2>. QED BY <2>1 DEF BootInv
<1>. QED BY <1>1, <1>2, RotateKeepsTypes, RotateKeepsKeys, RotateKeepsSole DEF InterceptionInv

(* The process dies and starts again. *)
LEMMA DiesKeepsInv ==
  ASSUME InterceptionInv, ProcessDies
  PROVE  InterceptionInv'
<1>0. InterceptionTypeOK /\ KeysInv /\ EarnedInv /\ SoleInv /\ boot = NoRot /\ alive
  <2>1. InterceptionTypeOK /\ KeysInv /\ EarnedInv /\ SoleInv
    BY DEF InterceptionInv
  <2>2. alive
    BY DEF ProcessDies
  <2>3. alive => boot = NoRot
    BY <2>1 DEF InterceptionTypeOK
  <2>. QED BY <2>1, <2>2, <2>3
<1>1. PICK found : found = {mem} \cup {rot[r].id : r \in {x \in Rotators : rot[x].pc = "swap"}}
  OBVIOUS
<1>2. PICK o : o = {l \in {"cut"} : \E r \in Rotators : rot[r].pc = "insert"}
  OBVIOUS
<1>3. restart' = [found |-> found, lapses |-> restart.lapses \cup o]
  BY <1>1, <1>2 DEF ProcessDies
<1>4. found \subseteq Cas /\ o \subseteq Lapses
  <2>1. mem \in Cas /\ \A r \in Rotators : rot[r].pc = "swap" => rot[r].id \in Cas
    BY <1>0 DEF InterceptionTypeOK, Rotations, NoRot
  <2>. QED BY <1>1, <1>2, <2>1 DEF Lapses
<1>5. restart'.found = found /\ restart'.lapses = restart.lapses \cup o
  BY <1>3
<1>6. InterceptionTypeOK'
  <2>1. restart' \in [found : SUBSET Cas, lapses : SUBSET Lapses]
    BY <1>0, <1>3, <1>4 DEF InterceptionTypeOK
  <2>2. /\ ~alive' /\ mem' = 0 /\ engineCa' = 0 /\ learned' = {} /\ UNCHANGED <<db, keys, boot, legacy, trusts>>
        /\ rot' = [r \in Rotators |-> NoRot] /\ conn' = [k \in Conns |-> NoConn] /\ row' = [k \in Conns |-> "none"]
        /\ alive' \in BOOLEAN
    BY DEF ProcessDies
  <2>. QED BY <1>0, <2>1, <2>2, MaxCaAssumption DEF InterceptionTypeOK
<1>7. KeysInv'
  BY <1>0 DEF ProcessDies, KeysInv, CurrentHasKey, Current
<1>8. EarnedInv'
  BY DEF ProcessDies, EarnedInv, OnlyAlertsTeach, TunnelHasAReason, NoConn
<1>9. Current' = Current /\ ~alive' /\ rot' = [r \in Rotators |-> NoRot] /\ boot' = NoRot
  BY <1>0 DEF ProcessDies, Current
<1>10. SoleInv'
  BY <1>9 DEF SoleInv, NoRot
<1>11. BootInv'
  <2> SUFFICES ASSUME "overlap" \notin restart'.lapses
               PROVE  IF Unsettled' THEN Current = {} ELSE \E c \in found : Current = {c}
    BY <1>5, <1>9 DEF BootInv, NoRot
  <2>1. "overlap" \notin restart.lapses /\ "cut" \notin restart.lapses
    BY <1>0, <1>5 DEF SoleInv
  <2>2. Unsettled' <=> o # {} \/ "failed" \in restart.lapses
    BY <1>2, <1>5, <2>1 DEF Unsettled
  <2>3. CASE \E r \in Rotators : rot[r].pc = "swap"
    <3>1. PICK r \in Rotators : rot[r].pc = "swap"
      BY <2>3
    <3>2. Current = {rot[r].id} /\ "failed" \notin restart.lapses
      BY <1>0, <2>1, <3>1 DEF SoleInv
    <3>3. \A s \in Rotators : rot[s].pc # "insert"
      <4>1. rot[r] # NoRot /\ NoRot.pc # "insert"
        BY <3>1 DEF NoRot
      <4>. QED BY <1>0, <2>1, <3>1, <4>1 DEF SoleInv
    <3>4. rot[r].id \in found /\ o = {}
      BY <1>1, <1>2, <3>1, <3>3
    <3>. QED BY <2>2, <3>2, <3>4
  <2>4. CASE \E r \in Rotators : rot[r].pc = "insert"
    <3>1. Current = {}
      BY <1>0, <2>1, <2>4 DEF SoleInv
    <3>2. o = {"cut"}
      BY <1>2, <2>4
    <3>. QED BY <2>2, <3>1, <3>2
  <2>5. CASE \A r \in Rotators : rot[r].pc \notin {"insert", "swap"}
    <3>1. Current = {c \in {mem} : "failed" \notin restart.lapses}
      BY <1>0, <2>1, <2>5 DEF SoleInv
    <3>2. o = {} /\ mem \in found
      BY <1>1, <1>2, <2>5
    <3>. QED BY <2>2, <3>1, <3>2
  <2>. QED BY <2>3, <2>4, <2>5
<1>. QED BY <1>6, <1>7, <1>8, <1>10, <1>11 DEF InterceptionInv

LEMMA ServesKeepsTypes ==
  ASSUME InterceptionTypeOK, NEW c \in Cas, Serves(c), UNCHANGED <<rot, legacy, useVars>>, ~alive,
         db' \in [Cas -> {"absent", "current", "revoked"}], keys' \subseteq Cas
  PROVE  InterceptionTypeOK' /\ restart'.lapses = restart.lapses \ {"cut", "failed"}
<1>1. mem' = c /\ alive' = TRUE /\ boot' = NoRot /\ restart' = [restart EXCEPT !.lapses = @ \ {"cut", "failed"}]
  BY DEF Serves
<1>2. restart' \in [found : SUBSET Cas, lapses : SUBSET Lapses] /\ restart'.lapses = restart.lapses \ {"cut", "failed"}
  BY <1>1 DEF InterceptionTypeOK
<1>3. /\ engineCa' \in 0..MaxCa /\ learned' \subseteq Verdicts /\ trusts' \in [Clients -> SUBSET Cas]
      /\ conn' \in [Conns -> Connections \cup {NoConn}]
      /\ row' \in [Conns -> {"none", "in_flight", "error", "tunneled", "inner"}]
      /\ \A k \in Conns : row'[k] = "none" <=> conn'[k] = NoConn
      /\ rot' \in [Rotators -> Rotations \cup {NoRot}] /\ legacy' \subseteq Cas
  BY DEF InterceptionTypeOK, useVars
<1>. QED BY <1>1, <1>2, <1>3 DEF InterceptionTypeOK

LEMMA OpenKeepsInv ==
  ASSUME InterceptionInv, Open
  PROVE  InterceptionInv'
<1>0. InterceptionTypeOK /\ KeysInv /\ EarnedInv /\ SoleInv /\ BootInv
  BY DEF InterceptionInv
<1>1. UNCHANGED <<rot, legacy, useVars>> /\ ~alive
  <2>1. UNCHANGED <<rot, legacy, useVars>> /\ (~alive \/ boot # NoRot)
    <3>1. NoRot.pc \notin {"revoke", "insert"}
      BY DEF NoRot
    <3>. QED BY <3>1 DEF Open, OpenCurrent, OpenFresh, OpenLegacy, BootRevoke, BootInsert, BootEnds
  <2>2. alive => boot = NoRot
    BY <1>0 DEF InterceptionTypeOK
  <2>. QED BY <2>1, <2>2
<1>2. EarnedInv'
  BY <1>0, <1>1, EarnedStays DEF useVars, connVars
<1>3. \A r \in Rotators : rot[r] = NoRot /\ rot'[r] = NoRot
  BY <1>0, <1>1 DEF InterceptionTypeOK
<1>4. \A c \in Cas : c <= c
  BY MaxCaAssumption DEF Cas
<1>5. \A c \in Cas : Current = {c} => Newest = c
  BY <1>4 DEF Newest
<1>6. CASE OpenCurrent
  <2>1. PICK n \in Cas : n = Newest /\ n \in keys
    BY <1>0, <1>6 DEF OpenCurrent, InterceptionTypeOK
  <2>2. Serves(n) /\ db' = db /\ keys' = keys
    BY <1>6, <2>1 DEF OpenCurrent
  <2>3. mem' = n /\ alive' /\ boot' = NoRot /\ Current' = Current
    BY <2>2 DEF Serves, Current
  <2>4. InterceptionTypeOK' /\ restart'.lapses = restart.lapses \ {"cut", "failed"}
    BY <1>0, <1>1, <2>2, ServesKeepsTypes DEF InterceptionTypeOK
  <2>5. KeysInv'
    BY <1>0, <1>3, <2>1, <2>2, <2>3 DEF KeysInv, CurrentHasKey
  <2>6. SoleInv'
    <3> SUFFICES ASSUME "overlap" \notin restart.lapses PROVE Current = {n}
      BY <1>3, <2>3, <2>4 DEF SoleInv, NoRot
    <3>1. PICK c : Current = {c}
      BY <1>0, <1>1, <1>6 DEF OpenCurrent, BootInv, NoRot
    <3>2. c \in Cas
      BY <3>1 DEF Current
    <3>. QED BY <1>5, <2>1, <3>1, <3>2
  <2>. QED BY <1>2, <2>3, <2>4, <2>5, <2>6 DEF InterceptionInv, BootInv
<1>7. CASE OpenFresh \/ OpenLegacy
  <2>1. PICK n \in Cas : n = NextCa
    BY <1>7, NextCaIsFree DEF OpenFresh, OpenLegacy
  <2>2. PICK b : boot' = b /\ b \in Boots /\ b.id = n /\ IF OpenFresh THEN b = [pc |-> "insert", id |-> n, old |-> 0]
                                                         ELSE b = [pc |-> "revoke", id |-> n, old |-> Newest]
    <3>1. CASE OpenFresh
      BY <2>1, <3>1, MaxCaAssumption DEF OpenFresh, Boots
    <3>2. CASE ~OpenFresh
      <4>1. Newest \in 0..MaxCa
        <5>1. Newest \in legacy /\ legacy \subseteq Cas
          BY <1>0, <1>7, <3>2 DEF OpenLegacy, InterceptionTypeOK
        <5>. QED BY <5>1, MaxCaAssumption DEF Cas
      <4>. QED BY <1>7, <2>1, <3>2, <4>1 DEF OpenLegacy, Boots
    <3>. QED BY <3>1, <3>2
  <2>3. keys' = keys \cup {n} /\ UNCHANGED <<alive, mem, db, restart>> /\ Current' = Current
    BY <1>7, <2>1 DEF OpenFresh, OpenLegacy, Current
  <2>4. InterceptionTypeOK'
    BY <1>0, <1>1, <2>2, <2>3 DEF InterceptionTypeOK, useVars
  <2>5. KeysInv'
    BY <1>0, <1>3, <2>2, <2>3 DEF KeysInv, CurrentHasKey
  <2>6. SoleInv'
    BY <1>0, <1>1, <1>3, <2>3 DEF SoleInv, NoRot
  <2>7. BootInv'
    <3> SUFFICES ASSUME "overlap" \notin restart.lapses PROVE BootInv'
      BY <2>3 DEF BootInv
    <3>1. Unsettled' = Unsettled
      BY <2>3 DEF Unsettled
    <3>2. boot.pc # "insert"
      BY <1>7 DEF OpenFresh, OpenLegacy, NoRot
    <3>3. CASE OpenFresh
      <4>1. Current = {} /\ boot'.pc = "insert"
        BY <2>2, <3>3 DEF OpenFresh
      <4>2. Unsettled
        BY <1>0, <1>1, <3>2, <4>1 DEF BootInv
      <4>. QED BY <2>3, <3>1, <4>1, <4>2 DEF BootInv
    <3>4. CASE ~OpenFresh
      <4>1. Current # {} /\ Newest \in legacy /\ boot'.pc = "revoke" /\ boot'.old = Newest
        BY <1>7, <2>2, <3>4 DEF OpenLegacy
      <4>2. ~Unsettled /\ \E c \in restart.found : Current = {c}
        BY <1>0, <1>1, <3>2, <4>1 DEF BootInv
      <4>3. Current = {Newest}
        <5>1. PICK c : Current = {c}
          BY <4>2
        <5>2. c \in Cas
          BY <5>1 DEF Current
        <5>. QED BY <1>5, <5>1, <5>2
      <4>. QED BY <1>1, <2>3, <3>1, <4>1, <4>2, <4>3 DEF BootInv
    <3>. QED BY <3>3, <3>4
  <2>. QED BY <1>2, <2>4, <2>5, <2>6, <2>7 DEF InterceptionInv
<1>8. CASE BootRevoke
  <2>1. boot \in Boots /\ boot.pc = "revoke" /\ boot # NoRot
    <3>1. boot \in Boots \cup {NoRot} /\ boot.pc = "revoke" /\ NoRot.pc = "idle"
      BY <1>0, <1>8 DEF BootRevoke, InterceptionTypeOK, NoRot
    <3>. QED BY <3>1
  <2>2. PICK b : boot' = b /\ b = [boot EXCEPT !.pc = "insert"]
    BY <1>8 DEF BootRevoke
  <2>3. b \in Boots /\ b.pc = "insert" /\ b.id = boot.id /\ b.old = boot.old
    BY <2>1, <2>2 DEF Boots
  <2>4. db' = [db EXCEPT ![boot.old] = "revoked"] /\ UNCHANGED <<alive, mem, keys, restart>>
    BY <1>8 DEF BootRevoke
  <2>5. Current' \subseteq Current \ {boot.old}
    BY <1>0, <2>4 DEF InterceptionTypeOK, Current
  <2>6. InterceptionTypeOK'
    <3>1. db' \in [Cas -> {"absent", "current", "revoked"}]
      BY <1>0, <2>4 DEF InterceptionTypeOK
    <3>. QED BY <1>0, <1>1, <2>2, <2>3, <2>4, <3>1 DEF InterceptionTypeOK, useVars
  <2>7. KeysInv'
    BY <1>0, <1>3, <2>1, <2>2, <2>3, <2>4, <2>5 DEF KeysInv, CurrentHasKey
  <2>8. SoleInv'
    BY <1>0, <1>1, <1>3, <2>4 DEF SoleInv, NoRot
  <2>9. BootInv'
    <3> SUFFICES ASSUME "overlap" \notin restart.lapses PROVE Current' = {} /\ (Unsettled' \/ (legacy \cap restart.found)' # {})
      BY <2>2, <2>3, <2>4 DEF BootInv
    <3>1. Current = {boot.old} /\ boot.old \in legacy
      BY <1>0, <1>1, <2>1 DEF BootInv
    <3>2. ~Unsettled /\ boot.old \in restart.found
      BY <1>0, <1>1, <2>1, <3>1 DEF BootInv
    <3>. QED BY <1>1, <2>4, <2>5, <3>1, <3>2
  <2>. QED BY <1>2, <2>6, <2>7, <2>8, <2>9 DEF InterceptionInv
<1>9. CASE BootInsert
  <2>1. boot \in Boots /\ boot.pc = "insert" /\ boot.id \in keys /\ boot.id \in Cas
    <3>1. boot \in Boots \cup {NoRot} /\ boot.pc = "insert" /\ NoRot.pc = "idle"
      BY <1>0, <1>9 DEF BootInsert, InterceptionTypeOK, NoRot
    <3>2. boot \in Boots /\ boot # NoRot
      BY <3>1
    <3>. QED BY <1>0, <3>1, <3>2 DEF KeysInv, Boots
  <2>2. PICK n \in Cas : n = boot.id
    BY <2>1
  <2>3. Serves(n) /\ db' = [db EXCEPT ![n] = "current"] /\ keys' = keys
    BY <1>9, <2>2 DEF BootInsert
  <2>4. mem' = n /\ alive' /\ boot' = NoRot /\ Current' = Current \cup {n}
    <3>1. Current' = Current \cup {n}
      BY <1>0, <2>3 DEF InterceptionTypeOK, Current
    <3>. QED BY <2>3, <3>1 DEF Serves
  <2>5. InterceptionTypeOK' /\ restart'.lapses = restart.lapses \ {"cut", "failed"}
    <3>1. db' \in [Cas -> {"absent", "current", "revoked"}] /\ keys' \subseteq Cas
      BY <1>0, <2>3 DEF InterceptionTypeOK
    <3>. QED BY <1>0, <1>1, <2>3, <3>1, ServesKeepsTypes
  <2>6. KeysInv'
    BY <1>0, <1>3, <2>1, <2>2, <2>3, <2>4 DEF KeysInv, CurrentHasKey
  <2>7. SoleInv'
    <3> SUFFICES ASSUME "overlap" \notin restart.lapses PROVE Current' = {n}
      BY <1>3, <2>4, <2>5 DEF SoleInv, NoRot
    <3>. QED BY <1>0, <1>1, <2>1, <2>4 DEF BootInv
  <2>. QED BY <1>2, <2>4, <2>5, <2>6, <2>7 DEF InterceptionInv, BootInv
<1>10. CASE BootEnds
  <2>1. PICK o : o = {l \in {"cut"} : boot.pc = "insert"}
    OBVIOUS
  <2>2. /\ restart' = [restart EXCEPT !.lapses = @ \cup o] /\ boot' = NoRot
        /\ UNCHANGED <<alive, mem, db, keys>> /\ boot # NoRot /\ o \subseteq Lapses
    BY <1>10, <2>1 DEF BootEnds, Lapses
  <2>3. /\ restart' \in [found : SUBSET Cas, lapses : SUBSET Lapses]
        /\ restart'.lapses = restart.lapses \cup o /\ restart'.found = restart.found
    BY <1>0, <2>2 DEF InterceptionTypeOK
  <2>4. InterceptionTypeOK'
    BY <1>0, <1>1, <2>2, <2>3 DEF InterceptionTypeOK, useVars
  <2>5. KeysInv' /\ Current' = Current
    BY <1>0, <1>3, <2>2 DEF KeysInv, CurrentHasKey, Current
  <2>6. SoleInv'
    BY <1>1, <1>3, <2>2 DEF SoleInv, NoRot
  <2>7. BootInv'
    <3> SUFFICES ASSUME "overlap" \notin restart.lapses
                 PROVE  IF Unsettled' THEN Current = {} ELSE \E c \in restart.found : Current = {c}
      BY <1>1, <2>2, <2>3, <2>5 DEF BootInv, NoRot
    <3>1. CASE boot.pc = "insert"
      <4>1. o = {"cut"}
        BY <2>1, <3>1
      <4>2. Unsettled'
        BY <2>3, <4>1 DEF Unsettled
      <4>. QED BY <1>0, <1>1, <3>1, <4>2 DEF BootInv
    <3>2. CASE boot.pc # "insert"
      <4>1. o = {}
        BY <2>1, <3>2
      <4>2. Unsettled' = Unsettled
        BY <2>3, <4>1 DEF Unsettled
      <4>. QED BY <1>0, <1>1, <3>2, <4>2 DEF BootInv
    <3>. QED BY <3>1, <3>2
  <2>. QED BY <1>2, <2>4, <2>5, <2>6, <2>7 DEF InterceptionInv
<1>. QED BY <1>6, <1>7, <1>8, <1>9, <1>10 DEF Open

-----------------------------------------------------------------------------
(* The engine, the set of hosts, the phones. *)
LEMMA CaStays ==
  ASSUME KeysInv, SoleInv, BootInv, UNCHANGED <<alive, mem, db, keys, rot, boot, legacy, restart>>
  PROVE  KeysInv' /\ SoleInv' /\ BootInv'
<1>1. Current' = Current /\ Unsettled' = Unsettled
  BY DEF Current, Unsettled
<1>2. KeysInv'
  BY <1>1 DEF KeysInv, CurrentHasKey
<1>3. SoleInv'
  BY <1>1 DEF SoleInv
<1>4. BootInv'
  BY <1>1 DEF BootInv
<1>. QED BY <1>2, <1>3, <1>4

LEMMA HostsKeepInv ==
  ASSUME InterceptionInv,
         (\E c \in Clients : Install(c)) \/ StartProxy \/ StopProxy \/ Reset \/ (\E h \in Hosts : Forget(h))
  PROVE  InterceptionInv'
<1>0. InterceptionTypeOK /\ KeysInv /\ EarnedInv /\ SoleInv /\ BootInv
  BY DEF InterceptionInv
<1>1. InterceptionTypeOK'
  <2>1. CASE \E c \in Clients : Install(c)
    <3>1. PICK c \in Clients : Install(c)
      BY <2>1
    <3>2. mem \in Cas
      BY <1>0, <3>1 DEF Install, InterceptionTypeOK
    <3>3. trusts' \in [Clients -> SUBSET Cas]
      BY <1>0, <3>1, <3>2 DEF Install, InterceptionTypeOK
    <3>. QED BY <1>0, <3>1, <3>3 DEF Install, caVars, connVars, InterceptionTypeOK
  <2>2. CASE StartProxy
    <3>1. mem \in Cas /\ mem \in 0..MaxCa
      BY <1>0, <2>2, MaxCaAssumption DEF StartProxy, InterceptionTypeOK, Cas
    <3>. QED BY <1>0, <2>2, <3>1 DEF StartProxy, caVars, connVars, InterceptionTypeOK
  <2>3. CASE StopProxy
    BY <1>0, <2>3, MaxCaAssumption DEF StopProxy, caVars, connVars, InterceptionTypeOK
  <2>4. CASE Reset \/ \E h \in Hosts : Forget(h)
    BY <1>0, <2>4 DEF Reset, Forget, caVars, connVars, InterceptionTypeOK
  <2>. QED BY <2>1, <2>2, <2>3, <2>4
<1>2. UNCHANGED <<alive, mem, db, keys, rot, boot, legacy, restart>>
  BY DEF Install, StartProxy, StopProxy, Reset, Forget, caVars
<1>3. KeysInv' /\ SoleInv' /\ BootInv'
  BY <1>0, <1>2, CaStays
<1>4. EarnedInv'
  BY <1>0, EarnedStays DEF Install, StartProxy, StopProxy, Reset, Forget
<1>. QED BY <1>1, <1>3, <1>4 DEF InterceptionInv

-----------------------------------------------------------------------------
(* A connection: the certificate authority is left alone. *)
LEMMA QuietKeepsInv ==
  ASSUME InterceptionInv, NEW k \in Conns, NEW c \in Connections \cup {NoConn}, NEW s, Quiet, Sets(k, c, s), alive,
         s \in {"none", "in_flight", "error", "tunneled", "inner"}, s = "none" <=> c = NoConn,
         c.pc = "peek" => c.fp = Unknown,
         c.pc \in {"decide", "handshake"} /\ c.fp # Unknown => c.client \notin OnlyH2,
         c.pc = "tunnel" => \/ c.host \in Seeded \/ c.client \in OnlyH2
                            \/ <<c.fp, Norm(c.host)>> \in refused
  PROVE  InterceptionInv'
<1>0. InterceptionTypeOK /\ KeysInv /\ EarnedInv /\ SoleInv /\ BootInv
  BY DEF InterceptionInv
<1>1. \A j \in Conns : /\ conn'[j] = IF j = k THEN c ELSE conn[j]
                       /\ row'[j] = IF j = k THEN s ELSE row[j]
  BY <1>0 DEF Sets, InterceptionTypeOK
<1>2. InterceptionTypeOK'
  <2>1. /\ conn' \in [Conns -> Connections \cup {NoConn}]
        /\ row' \in [Conns -> {"none", "in_flight", "error", "tunneled", "inner"}]
    BY <1>0 DEF Sets, InterceptionTypeOK
  <2>. QED BY <1>0, <1>1, <2>1 DEF Quiet, caVars, InterceptionTypeOK
<1>3. KeysInv' /\ SoleInv' /\ BootInv'
  BY <1>0, CaStays DEF Quiet, caVars
<1>4. EarnedInv'
  BY <1>0, <1>1 DEF Quiet, caVars, EarnedInv, OnlyAlertsTeach, TunnelHasAReason
<1>. QED BY <1>2, <1>3, <1>4 DEF InterceptionInv

LEMMA HandleKeepsInv ==
  ASSUME InterceptionInv, NEW k \in Conns, Handle(k)
  PROVE  InterceptionInv'
<1>0. InterceptionTypeOK /\ KeysInv /\ EarnedInv /\ SoleInv /\ BootInv
  BY DEF InterceptionInv
<1>1. CASE \E c \in Clients, h \in Hosts : ClientConnects(k, c, h)
  <2>1. PICK c \in Clients, h \in Hosts : ClientConnects(k, c, h)
    BY <1>1
  <2>2. alive /\ engineCa \in Cas
    BY <1>0, <2>1, MaxCaAssumption DEF ClientConnects, InterceptionTypeOK, Cas
  <2>3. PICK p \in BOOLEAN :
          Sets(k, [pc |-> IF p THEN "done" ELSE "peek", client |-> c, host |-> h, fp |-> Unknown, ca |-> engineCa],
               IF p THEN "error" ELSE "in_flight")
    BY <2>1 DEF ClientConnects
  <2> DEFINE d == [pc |-> IF p THEN "done" ELSE "peek", client |-> c, host |-> h, fp |-> Unknown, ca |-> engineCa]
  <2>4. d \in Connections
    BY <2>2 DEF Connections, Fingerprints
  <2>5. d # NoConn /\ d.fp = Unknown /\ d.pc \notin {"decide", "handshake", "tunnel"}
    BY DEF NoConn
  <2>6. Quiet
    BY <2>1 DEF ClientConnects
  <2>. HIDE DEF d
  <2>. QED BY <2>2, <2>3, <2>4, <2>5, <2>6, QuietKeepsInv DEF d
<1>2. CASE ~\E c \in Clients, h \in Hosts : ClientConnects(k, c, h)
  <2>1. conn[k] \in Connections /\ conn[k] # NoConn /\ alive
    BY <1>0, <1>2 DEF Handle, SeededTunnel, Peek, Decide, HandshakeDone, HandshakeRefused, HandshakeDied, Tunnel,
       Close, InterceptionTypeOK, NoConn
  <2> DEFINE as(pc) == [conn[k] EXCEPT !.pc = pc]
  <2>2. \A pc \in {"decide", "handshake", "tunnel", "done"} :
          /\ as(pc) \in Connections /\ as(pc) # NoConn /\ as(pc).pc = pc
          /\ as(pc).client = conn[k].client /\ as(pc).host = conn[k].host /\ as(pc).fp = conn[k].fp
    BY <2>1 DEF Connections, NoConn
  <2>3. CASE SeededTunnel(k)
    <3>1. Sets(k, as("tunnel"), "in_flight") /\ Quiet /\ conn[k].host \in Seeded
      BY <2>3 DEF SeededTunnel
    <3>. HIDE DEF as
    <3>. QED BY <2>1, <2>2, <3>1, QuietKeepsInv
  <2>4. CASE Peek(k)
    <3>0. conn[k].pc = "peek" /\ conn[k].fp = Unknown /\ Quiet
      BY <1>0, <2>4 DEF Peek, EarnedInv
    <3>1. CASE Sets(k, as("decide"), "in_flight")
      <4>. HIDE DEF as
      <4>. QED BY <2>1, <2>2, <3>0, <3>1, QuietKeepsInv
    <3>2. CASE ~Sets(k, as("decide"), "in_flight")
      <4> DEFINE c == conn[k].client
      <4> DEFINE d == [conn[k] EXCEPT !.fp = Stack[c], !.pc = IF c \in OnlyH2 THEN "tunnel" ELSE "decide"]
      <4>1. Sets(k, d, "in_flight")
        BY <2>4, <3>2 DEF Peek
      <4>2. c \in Clients /\ Stack[c] \in Fingerprints
        BY <2>1 DEF Connections, Fingerprints
      <4>3. /\ d \in Connections /\ d # NoConn /\ d.client = c
            /\ d.pc = IF c \in OnlyH2 THEN "tunnel" ELSE "decide"
        BY <2>1, <4>2 DEF Connections, NoConn
      <4>. HIDE DEF d, as
      <4>. QED BY <2>1, <3>0, <4>1, <4>3, QuietKeepsInv
    <3>. QED BY <3>1, <3>2
  <2>5. CASE Decide(k)
    <3>1. CASE Hits(conn[k].fp, conn[k].host)
      <4>1. Sets(k, as("tunnel"), "in_flight") /\ Quiet
        BY <2>5, <3>1 DEF Decide
      <4>2. <<conn[k].fp, Norm(conn[k].host)>> \in refused
        BY <1>0, <3>1 DEF Hits, EarnedInv, OnlyAlertsTeach
      <4>. HIDE DEF as
      <4>. QED BY <2>1, <2>2, <4>1, <4>2, QuietKeepsInv
    <3>2. CASE ~Hits(conn[k].fp, conn[k].host)
      <4>1. Sets(k, as("handshake"), "in_flight") /\ Quiet
        BY <2>5, <3>2 DEF Decide
      <4>2. conn[k].fp # Unknown => conn[k].client \notin OnlyH2
        BY <1>0, <2>5 DEF Decide, EarnedInv
      <4>. HIDE DEF as
      <4>. QED BY <2>1, <2>2, <4>1, <4>2, QuietKeepsInv
    <3>. QED BY <3>1, <3>2
  <2>6. CASE HandshakeDone(k) \/ HandshakeDied(k) \/ Tunnel(k)
    <3>1. PICK s \in {"inner", "error", "tunneled"} : Sets(k, as("done"), s) /\ Quiet
      BY <2>6 DEF HandshakeDone, HandshakeDied, Tunnel
    <3>. HIDE DEF as
    <3>. QED BY <2>1, <2>2, <3>1, QuietKeepsInv
  <2>7. CASE Close(k)
    <3>1. Sets(k, NoConn, "none") /\ Quiet
      BY <2>7 DEF Close
    <3>2. NoConn.pc = "none"
      BY DEF NoConn
    <3>. QED BY <2>1, <3>1, <3>2, QuietKeepsInv
  <2>8. CASE HandshakeRefused(k)
    <3> DEFINE c == conn[k]
    <3> DEFINE v == [fp |-> c.fp, host |-> Norm(c.host), ca |-> c.ca]
    <3>1. /\ learned' = {l \in learned : ~(l.fp = c.fp /\ l.host = Norm(c.host))} \cup {v}
          /\ refused' = refused \cup {<<c.fp, Norm(c.host)>>}
          /\ Sets(k, as("done"), "error") /\ UNCHANGED <<alive, caVars, engineCa, trusts>>
      BY <2>8 DEF HandshakeRefused, Learn
    <3>2. v \in Verdicts /\ v.fp = c.fp /\ v.host = Norm(c.host)
      BY <2>1 DEF Verdicts, Connections
    <3>3. \A j \in Conns : /\ conn'[j] = IF j = k THEN as("done") ELSE conn[j]
                           /\ row'[j] = IF j = k THEN "error" ELSE row[j]
      <4>. HIDE DEF as, v
      <4>. QED BY <1>0, <3>1 DEF Sets, InterceptionTypeOK
    <3>. HIDE DEF as, v
    <3>4. InterceptionTypeOK'
      <4>1. /\ conn' \in [Conns -> Connections \cup {NoConn}]
            /\ row' \in [Conns -> {"none", "in_flight", "error", "tunneled", "inner"}]
        BY <1>0, <2>2, <3>1 DEF Sets, InterceptionTypeOK
      <4>2. learned' \subseteq Verdicts
        BY <1>0, <3>1, <3>2 DEF InterceptionTypeOK
      <4>3. /\ alive' \in BOOLEAN /\ mem' \in (IF alive' THEN Cas ELSE {0}) /\ engineCa' \in 0..MaxCa
            /\ db' \in [Cas -> {"absent", "current", "revoked"}] /\ keys' \subseteq Cas
            /\ rot' \in [Rotators -> Rotations \cup {NoRot}]
            /\ trusts' \in [Clients -> SUBSET Cas]
            /\ restart' \in [found : SUBSET Cas, lapses : SUBSET Lapses]
            /\ boot' \in Boots \cup {NoRot} /\ (alive' => boot' = NoRot) /\ legacy' \subseteq Cas
        <5>1. UNCHANGED <<alive, mem, db, keys, rot, boot, legacy, restart, engineCa, trusts>>
          BY <3>1 DEF caVars
        <5>2. /\ alive \in BOOLEAN /\ mem \in (IF alive THEN Cas ELSE {0}) /\ engineCa \in 0..MaxCa
              /\ db \in [Cas -> {"absent", "current", "revoked"}] /\ keys \subseteq Cas
          BY <1>0 DEF InterceptionTypeOK
        <5>3. /\ rot \in [Rotators -> Rotations \cup {NoRot}] /\ trusts \in [Clients -> SUBSET Cas]
              /\ restart \in [found : SUBSET Cas, lapses : SUBSET Lapses]
              /\ boot \in Boots \cup {NoRot} /\ (alive => boot = NoRot) /\ legacy \subseteq Cas
          BY <1>0 DEF InterceptionTypeOK
        <5>. QED BY <5>1, <5>2, <5>3
      <4>4. \A j \in Conns : row'[j] = "none" <=> conn'[j] = NoConn
        <5>1. \A j \in Conns : row[j] = "none" <=> conn[j] = NoConn
          BY <1>0 DEF InterceptionTypeOK
        <5>. QED BY <2>1, <2>2, <3>3, <5>1
      <4>5. alive'
        BY <1>0, <2>1, <3>1 DEF InterceptionTypeOK
      <4>. QED BY <4>1, <4>2, <4>3, <4>4, <4>5 DEF InterceptionTypeOK
    <3>5. KeysInv' /\ SoleInv' /\ BootInv'
      BY <1>0, <3>1, CaStays DEF caVars
    <3>6. EarnedInv'
      <4>1. OnlyAlertsTeach'
        BY <1>0, <3>1, <3>2 DEF EarnedInv, OnlyAlertsTeach
      <4>2. TunnelHasAReason'
        BY <1>0, <2>2, <3>1, <3>3 DEF EarnedInv, TunnelHasAReason
      <4>. QED BY <1>0, <2>2, <3>3, <4>1, <4>2 DEF EarnedInv
    <3>. QED BY <3>4, <3>5, <3>6 DEF InterceptionInv
  <2>. QED BY <1>2, <2>3, <2>4, <2>5, <2>6, <2>7, <2>8 DEF Handle
<1>. QED BY <1>1, <1>2

LEMMA InterceptionStepInv == InterceptionInv /\ [InterceptionNext]_iVars => InterceptionInv'
<1>1. ASSUME InterceptionInv, UNCHANGED iVars PROVE InterceptionInv'
  <2>1. InterceptionTypeOK' /\ EarnedInv'
    BY <1>1 DEF iVars, InterceptionInv, InterceptionTypeOK, EarnedInv, OnlyAlertsTeach, TunnelHasAReason
  <2>2. KeysInv' /\ SoleInv' /\ BootInv'
    BY <1>1, CaStays DEF iVars, InterceptionInv
  <2>. QED BY <2>1, <2>2 DEF InterceptionInv
<1>. QED BY <1>1, RotateKeepsInv, DiesKeepsInv, OpenKeepsInv, HostsKeepInv, HandleKeepsInv DEF InterceptionNext

LEMMA InterceptionInvariance == InterceptionSpec => []InterceptionInv
<1>. QED BY InterceptionInitInv, InterceptionStepInv, PTL DEF InterceptionSpec

-----------------------------------------------------------------------------
(* The certificate authority, the engine, the verdicts and the connections    *)
(* keep their types.                                                          *)
THEOREM InterceptionTypeCorrect == InterceptionSpec => []InterceptionTypeOK
<1>1. InterceptionInv => InterceptionTypeOK  BY DEF InterceptionInv
<1>. QED BY <1>1, InterceptionInvariance, PTL

(* However many rotations are cut short wherever by crashes: the certificate  *)
(* a start would pick is never one the keyring does not know.                 *)
THEOREM KeyringNeverMisses == InterceptionSpec => []CurrentHasKey
<1>1. InterceptionInv => CurrentHasKey  BY DEF InterceptionInv, KeysInv
<1>. QED BY <1>1, InterceptionInvariance, PTL

(* However clients, verdicts, resets and rotations interleave: every tunnel   *)
(* has its reason and no handshake is doomed from the start.                  *)
THEOREM NoTunnelWithoutReason == InterceptionSpec => []TunnelsAreEarned
<1>1. InterceptionInv => TunnelsAreEarned
  BY DEF InterceptionInv, EarnedInv, TunnelsAreEarned, NoDoomedHandshake
<1>. QED BY <1>1, InterceptionInvariance, PTL

(* A start goes on with the phones' certificate or with the one a rotation    *)
(* had stored already, short of a revocation whose insert never came, of      *)
(* rotations that overlapped and of an Ed25519 certificate.                   *)
THEOREM CrashesKeepTheCa == InterceptionSpec => RestartKeepsTheCa
<1>1. InterceptionInv /\ [InterceptionNext]_iVars =>
        [~alive /\ alive' => mem' \in restart.found \/ restart.lapses # {} \/ legacy \cap restart.found # {}]_iVars
  <2> SUFFICES ASSUME InterceptionInv, InterceptionNext, ~alive, alive', restart.lapses = {}, legacy \cap restart.found = {}
               PROVE  mem' \in restart.found
    OBVIOUS
  <2>0. InterceptionTypeOK /\ BootInv /\ ~Unsettled
    BY DEF InterceptionInv, Unsettled
  <2>1. boot.pc # "insert"
    BY <2>0 DEF BootInv
  <2>2. PICK c \in restart.found : Current = {c}
    BY <2>0, <2>1 DEF BootInv
  <2>3. OpenCurrent
    <3>2. Open
      BY <2>0 DEF InterceptionNext, Handle, ClientConnects, SeededTunnel, Peek, Decide, HandshakeDone,
         HandshakeRefused, HandshakeDied, Tunnel, Close, Quiet, Rotate, RotateKey, RotateOld, RotateRevoke,
         RotateInsert, RotateFails, RotateSwap, RotateReset, ProcessDies, Install, StartProxy, StopProxy, Reset, Forget
    <3>. QED BY <2>1, <3>2 DEF Open, OpenFresh, OpenLegacy, BootRevoke, BootInsert, BootEnds
  <2>4. c \in Cas /\ c <= c
    BY <2>2, MaxCaAssumption DEF Current, Cas
  <2>5. Newest \in Current
    BY <2>2, <2>4 DEF Newest
  <2>. QED BY <2>2, <2>3, <2>5 DEF OpenCurrent, Serves
<1>. QED BY <1>1, InterceptionInvariance, PTL DEF RestartKeepsTheCa, InterceptionSpec
=============================================================================
