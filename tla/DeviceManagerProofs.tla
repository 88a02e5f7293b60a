-------------------------- MODULE DeviceManagerProofs --------------------------
(***************************************************************************)
(* What the registry and the serial locks promise, for any number of       *)
(* phones, ports and concurrent callers: first the registry by itself,     *)
(* then pairing, which only ever takes the registry's steps.               *)
(***************************************************************************)
EXTENDS Mishaps, WellFoundedInduction, TLAPS

(***************************************************************************)
(* A non-empty set of ports has a lowest member (the pool scan finds one). *)
(***************************************************************************)
LEMMA LowestExists ==
  ASSUME NEW P \in SUBSET Nat, P # {}
  PROVE  /\ Lowest(P) \in P
         /\ \A q \in P : Lowest(P) <= q
<1> DEFINE R == {ss \in Nat \X Nat : ss[1] < ss[2]}
<1>1. IsWellFoundedOn(R, Nat)
  BY NatLessThanWellFounded DEF OpToRel
<1>2. PICK m \in P : \A q \in P : ~(<<q, m>> \in R)
  <2>. HIDE DEF R
  <2>. QED BY <1>1, WFMin
<1>3. ASSUME NEW q \in P PROVE m <= q
  <2>1. ~(<<q, m>> \in R)  BY <1>2
  <2>2. ~(q < m)  BY <2>1
  <2>. QED BY <2>2
<1>. QED BY <1>3 DEF Lowest

(***************************************************************************)
(* What `assign` answers is a pool port; a port it shares out is either    *)
(* the one the serial held already or the first of the pool.               *)
(***************************************************************************)
LEMMA AssignedPortIsPooled ==
  ASSUME RegistryTypeOK, NEW s \in Serials
  PROVE  AssignedPort(s) \in Pool
<1> DEFINE P == IF FreePorts # {} THEN FreePorts ELSE Pool
<1>1. P \in SUBSET Pool /\ P # {}
  BY PoolAssumption DEF FreePorts
<1>2. Lowest(P) \in Pool
  <2>1. P \in SUBSET Nat  BY <1>1, PoolAssumption
  <2>. QED BY <1>1, <2>1, LowestExists
<1>3. ~Fresh(s) => serial_to_port[s] \in Pool
  BY DEF RegistryTypeOK, Fresh
<1>. QED BY <1>2, <1>3 DEF AssignedPort

LEMMA FreshPortIsFreeOrFallback ==
  ASSUME RegistryTypeOK, NEW s \in Serials, Fresh(s)
  PROVE  Holders(AssignedPort(s)) = {} \/ AssignedPort(s) = Lowest(Pool)
<1>1. CASE FreePorts = {}
  BY <1>1 DEF AssignedPort
<1>2. CASE FreePorts # {}
  <2>1. FreePorts \in SUBSET Nat
    BY PoolAssumption DEF FreePorts
  <2>2. Lowest(FreePorts) \in FreePorts
    BY <1>2, <2>1, LowestExists
  <2>. QED BY <1>2, <2>2 DEF AssignedPort, FreePorts
<1>. QED BY <1>1, <1>2

-----------------------------------------------------------------------------
(***************************************************************************)
(* The inductive invariant: types, sound labels, sharing on the fallback.  *)
(***************************************************************************)
RegistryInv == RegistryTypeOK /\ AttributionSound /\ SharingOnlyOnFallback

LEMMA RegistryInitInv == RegistryInit => RegistryInv
<1> SUFFICES ASSUME RegistryInit PROVE RegistryInv
  OBVIOUS
<1>1. RegistryTypeOK
  BY PoolAssumption DEF RegistryInit, RegistryTypeOK, Ports
<1>2. AttributionSound
  BY DEF RegistryInit, AttributionSound, DeviceForPort, Ports
<1>3. SharingOnlyOnFallback
  BY DEF RegistryInit, SharingOnlyOnFallback, Fresh
<1>. QED BY <1>1, <1>2, <1>3 DEF RegistryInv

LEMMA AssignKeepsInv ==
  ASSUME RegistryInv, NEW s \in Serials, NEW id \in {s, NoDevice}, Assign(s, id)
  PROVE  RegistryInv'
<1> DEFINE p == AssignedPort(s)
<1>0. RegistryTypeOK /\ AttributionSound /\ SharingOnlyOnFallback
  BY DEF RegistryInv
<1>1. p \in Pool /\ p # NoPort /\ p \in Ports
  BY <1>0, AssignedPortIsPooled, PoolAssumption DEF Ports
<1>2. /\ serial_to_port' = [serial_to_port EXCEPT ![s] = p]
      /\ port_to_device' = [port_to_device EXCEPT ![p] =
           IF Holders(p) \ {s} # {} THEN NoDevice
           ELSE IF id # NoDevice THEN id ELSE @]
  BY DEF Assign, Shared
<1>3. ~Fresh(s) => serial_to_port[s] = p
  BY DEF AssignedPort
<1>4. \A t \in Serials : serial_to_port'[t] = IF t = s THEN p ELSE serial_to_port[t]
  BY <1>0, <1>2 DEF RegistryTypeOK
<1>5. \A q \in Ports : q # p => port_to_device'[q] = port_to_device[q]
  BY <1>0, <1>2 DEF RegistryTypeOK
<1>6. RegistryTypeOK'
  <2>. HIDE DEF p
  <2>. QED BY <1>0, <1>1, <1>2 DEF RegistryTypeOK, Ports
<1>7. AttributionSound'
  <2> SUFFICES ASSUME NEW q \in Pool, port_to_device'[q] # NoDevice
               PROVE  {t \in Serials : serial_to_port'[t] = q}
                        = {port_to_device'[q]}
    BY DEF AttributionSound, DeviceForPort, Holders
  <2>0. port_to_device[q] # NoDevice => Holders(q) = {port_to_device[q]}
    BY <1>0 DEF AttributionSound, DeviceForPort
  <2>1. CASE q # p
    <3>1. port_to_device'[q] = port_to_device[q]
      BY <1>5, <2>1 DEF Ports
    <3>2. serial_to_port[s] # q
      <4>1. CASE Fresh(s)
        BY <4>1, PoolAssumption DEF Fresh
      <4>2. CASE ~Fresh(s)
        BY <4>2, <1>3, <2>1
      <4>. QED BY <4>1, <4>2
    <3>3. {t \in Serials : serial_to_port'[t] = q} = Holders(q)
      BY <1>4, <2>1, <3>2 DEF Holders
    <3>. QED BY <2>0, <3>1, <3>3
  <2>2. CASE q = p
    <3>1. port_to_device'[p] = IF Holders(p) \ {s} # {} THEN NoDevice
                               ELSE IF id # NoDevice THEN id
                               ELSE port_to_device[p]
      <4>. HIDE DEF p
      <4>. QED BY <1>0, <1>1, <1>2 DEF RegistryTypeOK
    <3>2. Holders(p) \ {s} = {}
      BY <2>2, <3>1
    <3>3. {t \in Serials : serial_to_port'[t] = p} = {s}
      BY <1>4, <3>2 DEF Holders
    <3>4. port_to_device'[p] = s
      BY <2>0, <2>2, <3>1, <3>2
    <3>. QED BY <2>2, <3>3, <3>4
  <2>. QED BY <2>1, <2>2
<1>8. SharingOnlyOnFallback'
  <2> SUFFICES ASSUME NEW t \in Serials, NEW u \in Serials, t # u,
                      serial_to_port'[t] = serial_to_port'[u],
                      serial_to_port'[t] # NoPort
               PROVE  serial_to_port'[t] = Lowest(Pool)
    BY DEF SharingOnlyOnFallback, Fresh
  <2>0. \A v, w \in Serials :
          v # w /\ serial_to_port[v] = serial_to_port[w] /\ serial_to_port[v] # NoPort
            => serial_to_port[v] = Lowest(Pool)
    BY <1>0 DEF SharingOnlyOnFallback, Fresh
  <2>1. CASE t # s /\ u # s
    BY <2>0, <2>1, <1>4
  <2>2. CASE ~Fresh(s)
    BY <2>0, <2>2, <1>3, <1>4
  <2>3. CASE Fresh(s) /\ (t = s \/ u = s)
    <3>1. Holders(p) # {}
      BY <2>3, <1>4 DEF Holders
    <3>2. p = Lowest(Pool)
      BY <1>0, <2>3, <3>1, FreshPortIsFreeOrFallback
    <3>. QED BY <1>4, <2>3, <3>2
  <2>. QED BY <2>1, <2>2, <2>3
<1>. QED BY <1>6, <1>7, <1>8 DEF RegistryInv

LEMMA ReleaseKeepsInv ==
  ASSUME RegistryInv, NEW s \in Serials, Release(s)
  PROVE  RegistryInv'
<1>0. RegistryTypeOK /\ AttributionSound /\ SharingOnlyOnFallback
  BY DEF RegistryInv
<1>1. \A t \in Serials : serial_to_port'[t] = IF t = s THEN NoPort ELSE serial_to_port[t]
  BY <1>0 DEF RegistryTypeOK, Release
<1>2. \A q \in Ports : port_to_device'[q] =
        IF q = serial_to_port[s] THEN NoDevice ELSE port_to_device[q]
  BY DEF Release
<1>3. RegistryTypeOK'
  BY <1>0 DEF RegistryTypeOK, Release
<1>4. AttributionSound'
  <2> SUFFICES ASSUME NEW q \in Pool, port_to_device'[q] # NoDevice
               PROVE  {t \in Serials : serial_to_port'[t] = q}
                        = {port_to_device'[q]}
    BY DEF AttributionSound, DeviceForPort, Holders
  <2>1. q # serial_to_port[s] /\ port_to_device'[q] = port_to_device[q]
    BY <1>2 DEF Ports
  <2>2. {t \in Serials : serial_to_port'[t] = q} = Holders(q)
    BY <1>1, <2>1, PoolAssumption DEF Holders
  <2>. QED BY <1>0, <2>1, <2>2 DEF AttributionSound, DeviceForPort
<1>5. SharingOnlyOnFallback'
  BY <1>0, <1>1 DEF SharingOnlyOnFallback, Fresh
<1>. QED BY <1>3, <1>4, <1>5 DEF RegistryInv

LEMMA HostPortKeepsInv ==
  ASSUME RegistryInv, SetPort \/ ClearPort
  PROVE  RegistryInv'
<1>1. RegistryTypeOK'
  BY DEF RegistryInv, RegistryTypeOK, SetPort, ClearPort
<1>2. \A q \in Pool : port_to_device'[q] = port_to_device[q]
  BY PoolAssumption DEF RegistryInv, RegistryTypeOK, SetPort, ClearPort, Ports
<1>3. serial_to_port' = serial_to_port
  BY DEF SetPort, ClearPort
<1>4. AttributionSound'
  BY <1>2, <1>3 DEF RegistryInv, AttributionSound, DeviceForPort, Holders
<1>5. SharingOnlyOnFallback'
  BY <1>3 DEF RegistryInv, SharingOnlyOnFallback, Fresh
<1>. QED BY <1>1, <1>4, <1>5 DEF RegistryInv

LEMMA NewRegistryKeepsInv ==
  ASSUME NewRegistry
  PROVE  RegistryInv'
<1>1. RegistryTypeOK'
  BY PoolAssumption DEF NewRegistry, RegistryTypeOK, Ports
<1>2. AttributionSound'
  BY DEF NewRegistry, AttributionSound, DeviceForPort, Ports
<1>3. SharingOnlyOnFallback'
  BY DEF NewRegistry, SharingOnlyOnFallback, Fresh
<1>. QED BY <1>1, <1>2, <1>3 DEF RegistryInv

LEMMA RegistryStepKeepsInv ==
  RegistryInv /\ [RegistryNext]_registryVars => RegistryInv'
<1> SUFFICES ASSUME RegistryInv, [RegistryNext]_registryVars
             PROVE  RegistryInv'
  OBVIOUS
<1>1. CASE \E s \in Serials : \E id \in {s, NoDevice} : Assign(s, id)
  BY <1>1, AssignKeepsInv
<1>2. CASE \E s \in Serials : Release(s)
  BY <1>2, ReleaseKeepsInv
<1>3. CASE SetPort \/ ClearPort
  BY <1>3, HostPortKeepsInv
<1>4. CASE NewRegistry
  BY <1>4, NewRegistryKeepsInv
<1>5. CASE UNCHANGED registryVars
  BY <1>5 DEF RegistryInv, RegistryTypeOK, AttributionSound, DeviceForPort,
              Holders, SharingOnlyOnFallback, Fresh, registryVars
<1>. QED BY <1>1, <1>2, <1>3, <1>4, <1>5 DEF RegistryNext

LEMMA RegistryInvariance == RegistrySpec => []RegistryInv
<1>. QED BY RegistryInitInv, RegistryStepKeepsInv, PTL DEF RegistrySpec

-----------------------------------------------------------------------------
(***************************************************************************)
(* The two maps keep their types: every held port is a pool port, and only *)
(* a phone, the Mac or nothing is ever stamped on a connection.            *)
(***************************************************************************)
THEOREM RegistryTypeCorrect == RegistrySpec => []RegistryTypeOK
<1>1. RegistryInv => RegistryTypeOK  BY DEF RegistryInv
<1>. QED BY <1>1, RegistryInvariance, PTL

(***************************************************************************)
(* A label on a pool port is the one phone that holds it, for any number   *)
(* of phones and any size of pool, exhausted or not.                       *)
(***************************************************************************)
THEOREM LabelsAreSound == RegistrySpec => []AttributionSound
<1>1. RegistryInv => AttributionSound  BY DEF RegistryInv
<1>. QED BY <1>1, RegistryInvariance, PTL

(***************************************************************************)
(* Only the fallback port, the first of the pool, is ever shared.          *)
(***************************************************************************)
THEOREM OnlyFallbackIsShared == RegistrySpec => []SharingOnlyOnFallback
<1>1. RegistryInv => SharingOnlyOnFallback  BY DEF RegistryInv
<1>. QED BY <1>1, RegistryInvariance, PTL

(***************************************************************************)
(* assign is idempotent: until a release, a phone's port never moves under *)
(* the tunnel that was wired to it.                                        *)
(***************************************************************************)
THEOREM PortsAreStable == RegistrySpec => PortStable
<1>1. RegistryTypeOK /\ [RegistryNext]_registryVars
        => [\A s \in Serials :
              ~Fresh(s) /\ ~Fresh(s)' => UNCHANGED serial_to_port[s]]_registryVars
  <2> SUFFICES ASSUME RegistryTypeOK, RegistryNext, NEW s \in Serials,
                      ~Fresh(s), ~Fresh(s)'
               PROVE  serial_to_port'[s] = serial_to_port[s]
    BY DEF registryVars
  <2>1. CASE \E t \in Serials : \E id \in {t, NoDevice} : Assign(t, id)
    BY <2>1 DEF RegistryTypeOK, Assign, AssignedPort
  <2>2. CASE \E t \in Serials : Release(t)
    BY <2>2 DEF RegistryTypeOK, Release, Fresh
  <2>3. CASE SetPort \/ ClearPort
    BY <2>3 DEF SetPort, ClearPort
  <2>4. CASE NewRegistry
    BY <2>4 DEF NewRegistry, Fresh
  <2>. QED BY <2>1, <2>2, <2>3, <2>4 DEF RegistryNext
<1>. QED BY <1>1, RegistryTypeCorrect, PTL DEF RegistrySpec, PortStable

-----------------------------------------------------------------------------
PhonesOK == \A t \in Tasks : KnowsPhone(t)

\* A phone that is not flaky is never unplugged.
CablesIn == \A s \in Serials \ Flaky : attached[s]

\* What holds whatever adb does.
TypeInv == TypeOK /\ PhonesOK

-----------------------------------------------------------------------------
LEMMA InitTypes == Init => TypeInv
<1> SUFFICES ASSUME Init PROVE TypeInv
  OBVIOUS
<1>1. RegistryTypeOK
  BY RegistryInitInv DEF Init, RegistryInv
<1>2. Idle \in TaskStates
  BY DEF Idle, Doing, TaskStates
<1>3. TypeOK
  BY <1>1, <1>2, FaultAssumption DEF Init, TypeOK, RowStates
<1>4. PhonesOK
  BY DEF Init, PhonesOK, KnowsPhone, Idle, Doing
<1>. QED BY <1>3, <1>4 DEF TypeInv

(***************************************************************************)
(* Each registry operation keeps the registry's types.                     *)
(***************************************************************************)
LEMMA RegistryTypesKept ==
  ASSUME RegistryTypeOK, NEW s \in Serials,
         Assign(s, s) \/ Release(s) \/ NewRegistry \/ UNCHANGED registryVars
  PROVE  RegistryTypeOK'
<1>1. CASE Assign(s, s)
  <2>1. AssignedPort(s) \in Pool
    BY AssignedPortIsPooled
  <2>. QED BY <1>1, <2>1 DEF Assign, RegistryTypeOK
<1>2. CASE Release(s)
  BY <1>2 DEF Release, RegistryTypeOK
<1>3. CASE NewRegistry
  BY <1>3 DEF NewRegistry, RegistryTypeOK
<1>4. CASE UNCHANGED registryVars
  BY <1>4 DEF registryVars, RegistryTypeOK
<1>. QED BY <1>1, <1>2, <1>3, <1>4

(***************************************************************************)
(* A task that suspends, resumes or returns stays a task that knows its    *)
(* phone.                                                                  *)
(***************************************************************************)
LEMMA SuspendTypes ==
  ASSUME TypeInv, NEW t \in Tasks, NEW r \in TaskStates, Suspend(t, r),
         r.at # "idle" => r.serial \in Serials
  PROVE  task' \in [Tasks -> TaskStates] /\ PhonesOK'
<1>1. task \in [Tasks -> TaskStates]
  BY DEF TypeInv, TypeOK
<1>2. task' = [task EXCEPT ![t] = r]
  BY DEF Suspend
<1>3. task' \in [Tasks -> TaskStates]
  <2>. HIDE DEF TaskStates
  <2>. QED BY <1>1, <1>2
<1>4. \A u \in Tasks : task'[u] = IF u = t THEN r ELSE task[u]
  BY <1>1, <1>2
<1>. QED BY <1>3, <1>4 DEF TypeInv, PhonesOK, KnowsPhone

LEMMA IdleTypes == Idle \in TaskStates /\ Idle.at = "idle"
  BY DEF Idle, Doing, TaskStates

LEMMA ReturnTypes ==
  ASSUME TypeInv, NEW t \in Tasks, Return(t)
  PROVE  task' \in [Tasks -> TaskStates] /\ PhonesOK'
<1>1. Suspend(t, Idle)
  BY DEF Return, Suspend
<1>. QED BY <1>1, IdleTypes, SuspendTypes

LEMMA ResumeTypes ==
  ASSUME TypeInv, NEW t \in Tasks, NEW at \in AdbCommands, Resume(t, at),
         task[t].at # "idle"
  PROVE  task' \in [Tasks -> TaskStates] /\ PhonesOK'
<1> DEFINE r == [task[t] EXCEPT !.at = at]
<1>1. task \in [Tasks -> TaskStates] /\ task[t] \in TaskStates
  BY DEF TypeInv, TypeOK
<1>2. r \in TaskStates /\ r.serial = task[t].serial
  BY <1>1 DEF TaskStates
<1>3. task' = [task EXCEPT ![t] = r]
  BY DEF Resume
<1>4. Suspend(t, r)
  BY <1>3 DEF Suspend
<1>5. task[t].serial \in Serials
  BY DEF TypeInv, PhonesOK, KnowsPhone
<1>. QED BY <1>2, <1>4, <1>5, SuspendTypes

LEMMA ReserveTypes ==
  ASSUME TypeInv, NEW t \in Tasks, NEW s \in Serials,
         NEW op \in {"add", "reapply", "probe"}, NEW at \in {"lock", "read"},
         Reserve(t, op, s, at)
  PROVE  /\ RegistryTypeOK'
         /\ task' \in [Tasks -> TaskStates]
         /\ PhonesOK'
<1> DEFINE r == [op |-> op, serial |-> s, at |-> at,
                 port |-> AssignedPort(s), fresh |-> Fresh(s)]
<1>1. RegistryTypeOK
  BY DEF TypeInv, TypeOK
<1>2. AssignedPort(s) \in Pool
  BY <1>1, AssignedPortIsPooled
<1>3. r \in TaskStates
  BY <1>2 DEF TaskStates, AdbCommands, Fresh
<1>4. Suspend(t, r)
  BY DEF Reserve
<1>. QED BY <1>1, <1>3, <1>4, SuspendTypes, RegistryTypesKept DEF Reserve

\* The variables no lemma above speaks of.
PlainTypes ==
  /\ row \in [Serials -> RowStates]
  /\ attached \in [Serials -> BOOLEAN]
  /\ tunnel \in [Serials -> Pool \cup {NoPort}]
  /\ http_proxy \in [Serials -> BOOLEAN]
  /\ broken \in [Serials -> BOOLEAN]
  /\ guard \in [Serials -> Tasks \cup {NoTask}]
  /\ restarts \in 0..MaxRestarts

LEMMA TypeParts ==
  /\ TypeInv <=> /\ RegistryTypeOK /\ PlainTypes
                 /\ task \in [Tasks -> TaskStates] /\ PhonesOK
  /\ TypeInv' <=> /\ RegistryTypeOK' /\ PlainTypes'
                  /\ task' \in [Tasks -> TaskStates] /\ PhonesOK'
  BY DEF TypeInv, TypeOK, PlainTypes

LEMMA CallKeepsTypes ==
  ASSUME TypeInv, NEW t \in Tasks, NEW s \in Serials, Call(t, s)
  PROVE  TypeInv'
<1>1. RegistryTypeOK /\ PlainTypes
  BY TypeParts
<1>2. ASSUME NEW op \in {"reapply", "probe", "pointed", "remove", "clear"},
             NEW at \in {"listed", "lock"},
             Suspend(t, Doing(op, s, at))
      PROVE  task' \in [Tasks -> TaskStates] /\ PhonesOK'
  <2> DEFINE r == Doing(op, s, at)
  <2>1. r \in TaskStates /\ r.serial = s
    BY DEF Doing, TaskStates
  <2>. QED BY <1>2, <2>1, SuspendTypes
<1>3. CASE AddAndroidUsb(t, s)
  <2>1. RegistryTypeOK' /\ task' \in [Tasks -> TaskStates] /\ PhonesOK'
    BY <1>3, ReserveTypes DEF AddAndroidUsb
  <2>2. PlainTypes'
    BY <1>1, <1>3 DEF AddAndroidUsb, PlainTypes, RowStates, phoneVars
  <2>. QED BY <2>1, <2>2, TypeParts
<1>4. CASE \E op \in {"reapply", "probe", "pointed"} : PickListed(t, op, s)
  <2>1. task' \in [Tasks -> TaskStates] /\ PhonesOK'
    BY <1>2, <1>4 DEF PickListed, Take
  <2>2. RegistryTypeOK' /\ PlainTypes'
    BY <1>1, <1>4, RegistryTypesKept DEF PickListed, Take, PlainTypes, phoneVars
  <2>. QED BY <2>1, <2>2, TypeParts
<1>5. CASE \E op \in {"remove", "clear"} : TearDown(t, op, s)
  <2>1. task' \in [Tasks -> TaskStates] /\ PhonesOK'
    BY <1>2, <1>5 DEF TearDown
  <2>2. RegistryTypeOK' /\ PlainTypes'
    BY <1>1, <1>5, RegistryTypesKept DEF TearDown, PlainTypes, phoneVars
  <2>. QED BY <2>1, <2>2, TypeParts
<1>. QED BY <1>3, <1>4, <1>5 DEF Call

LEMMA AdbStepKeepsTypes ==
  ASSUME TypeInv, NEW t \in Tasks,
         \/ AcquireLock(t) \/ WaitForDevice(t) \/ OpenTunnel(t)
         \/ SetHttpProxy(t) \/ SetupFails(t)
         \/ ClearHttpProxy(t) \/ RemoveReverse(t)
  PROVE  TypeInv'
<1> DEFINE s == task[t].serial
<1>1. RegistryTypeOK /\ PlainTypes /\ task \in [Tasks -> TaskStates]
  BY TypeParts
<1>2. task[t].port \in Pool \cup {NoPort}
  BY <1>1 DEF TaskStates
<1>3. task[t].at # "idle" => s \in Serials
  BY DEF TypeInv, PhonesOK, KnowsPhone
<1>4. CASE AcquireLock(t)
  <2>1. PICK at \in {"wait", "reverse", "unproxy"} : Resume(t, at)
    BY <1>4 DEF AcquireLock
  <2>2. task' \in [Tasks -> TaskStates] /\ PhonesOK'
    BY <1>4, <2>1, ResumeTypes DEF AcquireLock, AdbCommands
  <2>3. RegistryTypeOK' /\ PlainTypes'
    BY <1>1, <1>3, <1>4, RegistryTypesKept
    DEF AcquireLock, Lock, PlainTypes, phoneVars
  <2>. QED BY <2>2, <2>3, TypeParts
<1>5. CASE WaitForDevice(t)
  <2>1. task' \in [Tasks -> TaskStates] /\ PhonesOK'
    BY <1>5, ResumeTypes DEF WaitForDevice, AdbCommands
  <2>2. RegistryTypeOK' /\ PlainTypes'
    BY <1>1, <1>3, <1>5, RegistryTypesKept DEF WaitForDevice, PlainTypes, phoneVars
  <2>. QED BY <2>1, <2>2, TypeParts
<1>6. CASE OpenTunnel(t)
  <2>1. task' \in [Tasks -> TaskStates] /\ PhonesOK'
    BY <1>6, ResumeTypes DEF OpenTunnel, AdbCommands
  <2>2. RegistryTypeOK' /\ PlainTypes'
    BY <1>1, <1>2, <1>3, <1>6, RegistryTypesKept DEF OpenTunnel, PlainTypes
  <2>. QED BY <2>1, <2>2, TypeParts
<1>7. CASE SetHttpProxy(t)
  <2>1. task' \in [Tasks -> TaskStates] /\ PhonesOK'
    BY <1>7, ReturnTypes DEF SetHttpProxy
  <2>2. RegistryTypeOK' /\ PlainTypes'
    BY <1>1, <1>3, <1>7, RegistryTypesKept
    DEF SetHttpProxy, RecordReady, Unlock, PlainTypes, RowStates
  <2>. QED BY <2>1, <2>2, TypeParts
<1>8. CASE SetupFails(t)
  <2>1. task' \in [Tasks -> TaskStates] /\ PhonesOK'
    BY <1>8, ReturnTypes DEF SetupFails
  <2>2. RegistryTypeOK'
    BY <1>1, <1>3, <1>8, RegistryTypesKept DEF SetupFails
  <2>3. PlainTypes'
    BY <1>1, <1>2, <1>8 DEF SetupFails, Unlock, PlainTypes, RowStates
  <2>. QED BY <2>1, <2>2, <2>3, TypeParts
<1>9. CASE ClearHttpProxy(t)
  <2>1. task' \in [Tasks -> TaskStates] /\ PhonesOK'
    BY <1>9, ResumeTypes DEF ClearHttpProxy, AdbCommands
  <2>2. RegistryTypeOK' /\ PlainTypes'
    BY <1>1, <1>3, <1>9, RegistryTypesKept DEF ClearHttpProxy, PlainTypes
  <2>. QED BY <2>1, <2>2, TypeParts
<1>10. CASE RemoveReverse(t)
  <2>1. task' \in [Tasks -> TaskStates] /\ PhonesOK'
    BY <1>10, ReturnTypes DEF RemoveReverse
  <2>2. RegistryTypeOK'
    BY <1>1, <1>3, <1>10, RegistryTypesKept DEF RemoveReverse
  <2>3. PlainTypes'
    BY <1>1, <1>10 DEF RemoveReverse, Unlock, PlainTypes, RowStates
  <2>. QED BY <2>1, <2>2, <2>3, TypeParts
<1>. QED BY <1>4, <1>5, <1>6, <1>7, <1>8, <1>9, <1>10

LEMMA VisitKeepsTypes ==
  ASSUME TypeInv, NEW t \in Tasks,
         \/ ReapplyOne(t) \/ ProbeAndroidProxy(t) \/ StillPointsAtUs(t)
         \/ ReadPhone(t, Idle)
  PROVE  TypeInv'
<1> DEFINE s == task[t].serial
<1>1. RegistryTypeOK /\ PlainTypes /\ task \in [Tasks -> TaskStates]
  BY TypeParts
<1>2. task[t].at # "idle" => s \in Serials
  BY DEF TypeInv, PhonesOK, KnowsPhone
<1>3. CASE ReapplyOne(t)
  <2>1. RegistryTypeOK' /\ task' \in [Tasks -> TaskStates] /\ PhonesOK'
    BY <1>2, <1>3, ReserveTypes DEF ReapplyOne
  <2>2. PlainTypes'
    BY <1>1, <1>3 DEF ReapplyOne, PlainTypes, phoneVars
  <2>. QED BY <2>1, <2>2, TypeParts
<1>4. CASE ProbeAndroidProxy(t)
  <2>1. s \in Serials
    BY <1>2, <1>4 DEF ProbeAndroidProxy
  <2>2. CASE Lock(t, s) /\ Reserve(t, "probe", s, "read")
    <3>1. RegistryTypeOK' /\ task' \in [Tasks -> TaskStates] /\ PhonesOK'
      BY <2>1, <2>2, ReserveTypes
    <3>2. PlainTypes'
      BY <1>1, <1>4, <2>2 DEF ProbeAndroidProxy, Lock, PlainTypes, phoneVars
    <3>. QED BY <3>1, <3>2, TypeParts
  <2>3. CASE Assign(s, s) /\ Return(t) /\ UNCHANGED guard
    <3>1. RegistryTypeOK' /\ task' \in [Tasks -> TaskStates] /\ PhonesOK'
      BY <1>1, <2>1, <2>3, ReturnTypes, RegistryTypesKept
    <3>2. PlainTypes'
      BY <1>1, <1>4, <2>3 DEF ProbeAndroidProxy, PlainTypes, phoneVars
    <3>. QED BY <3>1, <3>2, TypeParts
  <2>. QED BY <1>4, <2>2, <2>3 DEF ProbeAndroidProxy
<1>5. CASE StillPointsAtUs(t)
  <2>1. task' \in [Tasks -> TaskStates] /\ PhonesOK'
    BY <1>5, ResumeTypes, ReturnTypes DEF StillPointsAtUs, AdbCommands
  <2>2. RegistryTypeOK' /\ PlainTypes'
    BY <1>1, <1>2, <1>5, RegistryTypesKept
    DEF StillPointsAtUs, Lock, PlainTypes, phoneVars
  <2>. QED BY <2>1, <2>2, TypeParts
<1>6. CASE ReadPhone(t, Idle)
  <2>1. task' \in [Tasks -> TaskStates] /\ PhonesOK'
    BY <1>6, IdleTypes, SuspendTypes DEF ReadPhone
  <2>2. RegistryTypeOK' /\ PlainTypes'
    BY <1>1, <1>2, <1>6, RegistryTypesKept
    DEF ReadPhone, Unlock, PlainTypes, phoneVars
  <2>. QED BY <2>1, <2>2, TypeParts
<1>. QED BY <1>3, <1>4, <1>5, <1>6

LEMMA WorldKeepsTypes ==
  ASSUME TypeInv,
         (\E s \in Serials : Environment(s)) \/ Restart \/ UNCHANGED vars
  PROVE  TypeInv'
<1>1. /\ RegistryTypeOK /\ PlainTypes
      /\ task \in [Tasks -> TaskStates] /\ PhonesOK
  BY TypeParts
<1>2. ASSUME NEW s \in Serials, Environment(s) PROVE TypeInv'
  <2>1. UNCHANGED registryVars /\ UNCHANGED task
    BY <1>2 DEF Environment, Unplug, Replug, HelperClearsProxy
  <2>2. RegistryTypeOK' /\ task' \in [Tasks -> TaskStates] /\ PhonesOK'
    BY <1>1, <2>1, RegistryTypesKept DEF PhonesOK, KnowsPhone
  <2>3. PlainTypes'
    BY <1>1, <1>2 DEF Environment, Unplug, Replug, HelperClearsProxy, PlainTypes
  <2>. QED BY <2>2, <2>3, TypeParts
<1>3. CASE Restart
  <2>1. RegistryTypeOK'
    BY <1>3 DEF Restart, NewRegistry, RegistryTypeOK
  <2>2. task' \in [Tasks -> TaskStates] /\ PhonesOK'
    BY <1>3, IdleTypes DEF Restart, PhonesOK, KnowsPhone
  <2>3. PlainTypes'
    BY <1>1, <1>3, FaultAssumption DEF Restart, PlainTypes, phoneVars
  <2>. QED BY <2>1, <2>2, <2>3, TypeParts
<1>4. CASE UNCHANGED vars
  BY <1>4 DEF vars, phoneVars, registryVars, TypeInv, TypeOK, RegistryTypeOK,
              PhonesOK, KnowsPhone
<1>. QED BY <1>2, <1>3, <1>4

LEMMA TypesInvariant == Spec => []TypeInv
<1>1. TypeInv /\ [Next]_vars => TypeInv'
  BY CallKeepsTypes, AdbStepKeepsTypes, VisitKeepsTypes, WorldKeepsTypes
  DEF Next, TaskStep
<1>. QED BY <1>1, InitTypes, PTL DEF Spec

(***************************************************************************)
(* Every variable keeps its type, whatever fails and whoever interleaves.  *)
(***************************************************************************)
THEOREM PairingTypeCorrect == Spec => []TypeOK
<1>1. TypeInv => TypeOK  BY DEF TypeInv
<1>. QED BY <1>1, TypesInvariant, PTL

-----------------------------------------------------------------------------
(***************************************************************************)
(* The registry as its users drive it is the registry: whatever the        *)
(* callers, the phones and adb do, serial_to_port and port_to_device only  *)
(* take the steps of RegistrySpec.                                         *)
(***************************************************************************)
LEMMA StepRefinesRegistry ==
  TypeInv /\ [Next]_vars => [RegistryNext]_registryVars
<1> SUFFICES ASSUME TypeInv, [Next]_vars PROVE [RegistryNext]_registryVars
  OBVIOUS
<1>1. ASSUME NEW s \in Serials, Assign(s, s) \/ Release(s) PROVE RegistryNext
  BY <1>1 DEF RegistryNext
<1>2. ASSUME NEW t \in Tasks, NEW s \in Serials, Call(t, s)
      PROVE  [RegistryNext]_registryVars
  BY <1>1, <1>2 DEF Call, AddAndroidUsb, Reserve, PickListed, Take, TearDown
<1>3. ASSUME NEW t \in Tasks, TaskStep(t) \/ ReadPhone(t, Idle)
      PROVE  [RegistryNext]_registryVars
  <2>1. task[t].at # "idle" => task[t].serial \in Serials
    BY DEF TypeInv, PhonesOK, KnowsPhone
  <2>2. CASE AcquireLock(t) \/ WaitForDevice(t) \/ OpenTunnel(t) \/ SetHttpProxy(t)
             \/ ClearHttpProxy(t) \/ StillPointsAtUs(t) \/ ReadPhone(t, Idle)
    BY <2>2 DEF AcquireLock, WaitForDevice, OpenTunnel, SetHttpProxy,
                ClearHttpProxy, StillPointsAtUs, ReadPhone
  <2>3. CASE SetupFails(t)
    BY <1>1, <2>1, <2>3 DEF SetupFails
  <2>4. CASE RemoveReverse(t)
    BY <1>1, <2>1, <2>4 DEF RemoveReverse
  <2>5. CASE ReapplyOne(t)
    BY <1>1, <2>1, <2>5 DEF ReapplyOne, Reserve
  <2>6. CASE ProbeAndroidProxy(t)
    BY <1>1, <2>1, <2>6 DEF ProbeAndroidProxy, Reserve
  <2>. QED BY <1>3, <2>2, <2>3, <2>4, <2>5, <2>6 DEF TaskStep
<1>4. CASE \E s \in Serials : Environment(s)
  BY <1>4 DEF Environment, Unplug, Replug, HelperClearsProxy
<1>5. CASE Restart
  BY <1>5 DEF Restart, RegistryNext
<1>6. CASE UNCHANGED vars
  BY <1>6 DEF vars
<1>. QED BY <1>2, <1>3, <1>4, <1>5, <1>6 DEF Next

LEMMA PairingRefinesRegistry == Spec => RegistrySpec
<1>1. Init => RegistryInit  BY DEF Init
<1>. QED BY <1>1, StepRefinesRegistry, TypesInvariant, PTL DEF Spec, RegistrySpec

(***************************************************************************)
(* So the labels of the registry stay sound while phones are paired, fail, *)
(* are probed, removed and re-wired by concurrent callers.                 *)
(***************************************************************************)
THEOREM PairedLabelsAreSound == Spec => []AttributionSound
<1>. QED BY PairingRefinesRegistry, LabelsAreSound, PTL

-----------------------------------------------------------------------------
(***************************************************************************)
(* The lock discipline.  It needs the phone to obey `settings put          *)
(* http_proxy :0` whenever it is attached: Pane ignores that command's     *)
(* answer, so nothing can be said of a phone that refuses it.              *)
(***************************************************************************)
PairInv == TypeInv /\ LockDiscipline /\ TunnelUnderProxy /\ CablesIn

Disciplined(t) == KnowsPhone(t) /\ HoldsLock(t) /\ HasPort(t) /\ FindsPhone(t)

\* A step of t that touches no phone but s, and s only if nobody else has it.
OnlyTouches(t, s) ==
  /\ \A u \in Tasks \ {t} : task'[u] = task[u]
  /\ \A x \in Serials \ {s} : /\ guard'[x] = guard[x]
                             /\ tunnel'[x] = tunnel[x]
                             /\ http_proxy'[x] = http_proxy[x]
  /\ guard[s] \in {NoTask, t}

LEMMA OthersStayDisciplined ==
  ASSUME PairInv, NEW t \in Tasks, NEW s \in Serials, OnlyTouches(t, s),
         NEW u \in Tasks, u # t
  PROVE  Disciplined(u)'
<1> DEFINE x == task[u].serial
<1>1. Disciplined(u)
  BY DEF PairInv, LockDiscipline, Disciplined
<1>2. task'[u] = task[u]
  BY DEF OnlyTouches
<1>3. Holding(u) => x \in Serials /\ guard[x] = u
  BY <1>1 DEF Disciplined, KnowsPhone, HoldsLock, Holding, Wiring
<1>4. Holding(u) => x # s
  BY <1>3, TaskAssumption DEF OnlyTouches
<1>5. KnowsPhone(u)' /\ HasPort(u)'
  BY <1>1, <1>2 DEF Disciplined, KnowsPhone, HasPort, Wiring
<1>6. HoldsLock(u)'
  BY <1>2, <1>3, <1>4 DEF HoldsLock, Holding, Wiring, OnlyTouches
<1>7. FindsPhone(u)'
  BY <1>1, <1>2, <1>3, <1>4
  DEF Disciplined, FindsPhone, Holding, Wiring, OnlyTouches
<1>. QED BY <1>5, <1>6, <1>7 DEF Disciplined

(***************************************************************************)
(* It then remains to look at t's own phone.                               *)
(***************************************************************************)
LEMMA TouchKeepsInv ==
  ASSUME PairInv, TypeInv', NEW t \in Tasks, NEW s \in Serials,
         OnlyTouches(t, s), Disciplined(t)', UNCHANGED attached,
         s \notin Flaky /\ http_proxy'[s] => tunnel'[s] # NoPort
  PROVE  PairInv'
<1>1. LockDiscipline'
  BY OthersStayDisciplined DEF LockDiscipline, Disciplined
<1>2. TunnelUnderProxy'
  BY DEF PairInv, TunnelUnderProxy, OnlyTouches
<1>3. CablesIn'
  BY DEF PairInv, CablesIn
<1>. QED BY <1>1, <1>2, <1>3 DEF PairInv

(***************************************************************************)
(* A step that touches no phone at all.                                    *)
(***************************************************************************)
LEMMA QuietKeepsInv ==
  ASSUME PairInv, TypeInv', NEW t \in Tasks,
         \A u \in Tasks \ {t} : task'[u] = task[u],
         UNCHANGED <<guard, tunnel, http_proxy, attached>>, Disciplined(t)'
  PROVE  PairInv'
<1>1. ASSUME NEW u \in Tasks, u # t PROVE Disciplined(u)'
  BY <1>1 DEF PairInv, LockDiscipline, Disciplined, KnowsPhone, HoldsLock,
              HasPort, FindsPhone, Holding, Wiring
<1>2. LockDiscipline'
  BY <1>1 DEF LockDiscipline, Disciplined
<1>. QED BY <1>2 DEF PairInv, TunnelUnderProxy, CablesIn

LEMMA CallKeepsInv ==
  ASSUME PairInv, NEW t \in Tasks, NEW s \in Serials, Call(t, s)
  PROVE  PairInv'
<1>1. TypeInv /\ TypeInv' /\ task \in [Tasks -> TaskStates]
  BY CallKeepsTypes, TypeParts DEF PairInv
<1>2. AssignedPort(s) \in Pool
  BY <1>1, AssignedPortIsPooled DEF TypeInv, TypeOK
<1>3. PICK op, at, p, f :
        /\ Suspend(t, [op |-> op, serial |-> s, at |-> at, port |-> p, fresh |-> f])
        /\ at \in {"listed", "lock"}
        /\ at = "lock" /\ op \in {"add", "reapply"} => p \in Pool
        /\ UNCHANGED <<guard, phoneVars>>
  <2>1. CASE AddAndroidUsb(t, s)
    BY <1>2, <2>1 DEF AddAndroidUsb, Reserve
  <2>2. CASE \E op \in {"reapply", "probe", "pointed"} : PickListed(t, op, s)
    BY <2>2 DEF PickListed, Take, Doing
  <2>3. CASE \E op \in {"remove", "clear"} : TearDown(t, op, s)
    BY <2>3 DEF TearDown, Doing
  <2>. QED BY <2>1, <2>2, <2>3 DEF Call
<1>4. \A u \in Tasks \ {t} : task'[u] = task[u]
  BY <1>1, <1>3 DEF Suspend
<1>5. Disciplined(t)'
  BY <1>1, <1>3 DEF Suspend, Disciplined, KnowsPhone, HoldsLock, HasPort,
                    FindsPhone, Holding, Wiring
<1>. QED BY <1>1, <1>3, <1>4, <1>5, QuietKeepsInv DEF phoneVars

(***************************************************************************)
(* A caller inside its critical section: setting a phone up.               *)
(***************************************************************************)
LEMMA SetupKeepsInv ==
  ASSUME PairInv, NEW t \in Tasks,
         \/ AcquireLock(t) \/ WaitForDevice(t) \/ OpenTunnel(t)
         \/ SetHttpProxy(t) \/ SetupFails(t)
  PROVE  PairInv'
<1> DEFINE s == task[t].serial
<1>1. TypeInv /\ TypeInv' /\ Disciplined(t)
  BY AdbStepKeepsTypes DEF PairInv, LockDiscipline, Disciplined
<1>2. /\ task \in [Tasks -> TaskStates]
      /\ guard \in [Serials -> Tasks \cup {NoTask}]
      /\ tunnel \in [Serials -> Pool \cup {NoPort}]
      /\ http_proxy \in [Serials -> BOOLEAN]
  BY <1>1, TypeParts DEF PlainTypes
<1>3. /\ task[t].at # "idle"
      /\ guard[s] \in {NoTask, t}
      /\ UNCHANGED attached
  BY <1>1 DEF AcquireLock, Lock, WaitForDevice, OpenTunnel, SetHttpProxy,
              SetupFails, Disciplined, HoldsLock, Holding, Wiring, phoneVars
<1>4. s \in Serials
  BY <1>1, <1>3 DEF Disciplined, KnowsPhone
<1>5. s \notin Flaky => (http_proxy[s] => tunnel[s] # NoPort)
  BY <1>4 DEF PairInv, TunnelUnderProxy
<1>6. CASE AcquireLock(t)
  <2>1. PICK at \in {"wait", "reverse", "unproxy"} :
          /\ Resume(t, at)
          /\ at # "unproxy" => task[t].op \in {"add", "reapply"}
    BY <1>6 DEF AcquireLock
  <2>2. OnlyTouches(t, s)
    BY <1>2, <1>3, <1>6, <2>1 DEF AcquireLock, Lock, Resume, OnlyTouches, phoneVars
  <2>3. task'[t].at = at /\ task'[t].serial = s /\ task'[t].port = task[t].port
    BY <1>2, <2>1 DEF Resume, TaskStates
  <2>4. guard'[s] = t
    BY <1>2, <1>4, <1>6 DEF AcquireLock, Lock
  <2>5. Disciplined(t)'
    BY <1>1, <1>4, <1>6, <2>1, <2>3, <2>4
    DEF AcquireLock, Disciplined, KnowsPhone, HoldsLock, HasPort, FindsPhone,
        Holding, Wiring
  <2>. QED BY <1>1, <1>3, <1>4, <1>5, <1>6, <2>2, <2>5, TouchKeepsInv
           DEF AcquireLock, phoneVars
<1>7. CASE WaitForDevice(t) \/ OpenTunnel(t)
  <2>1. PICK at \in {"reverse", "proxy"} :
          /\ Resume(t, at)
          /\ UNCHANGED <<guard, http_proxy>>
          /\ IF at = "reverse" THEN UNCHANGED tunnel
             ELSE tunnel' = [tunnel EXCEPT ![s] = task[t].port]
    BY <1>7 DEF WaitForDevice, OpenTunnel, phoneVars
  <2>2. Wiring(t) /\ task[t].port \in Pool /\ task[t].port # NoPort
    BY <1>1, <1>7, PoolAssumption
    DEF WaitForDevice, OpenTunnel, Disciplined, HasPort, Wiring
  <2>3. OnlyTouches(t, s)
    BY <1>2, <1>3, <2>1 DEF Resume, OnlyTouches
  <2>4. task'[t].at = at /\ task'[t].serial = s /\ task'[t].port = task[t].port
    BY <1>2, <2>1 DEF Resume, TaskStates
  <2>5. tunnel'[s] = IF at = "reverse" THEN tunnel[s] ELSE task[t].port
    BY <1>2, <1>4, <2>1
  <2>6. Disciplined(t)'
    BY <1>1, <1>4, <2>1, <2>2, <2>4, <2>5
    DEF Disciplined, KnowsPhone, HoldsLock, HasPort, FindsPhone, Holding, Wiring
  <2>. QED BY <1>1, <1>3, <1>4, <1>5, <2>1, <2>2, <2>3, <2>5, <2>6, TouchKeepsInv
<1>8. CASE SetHttpProxy(t) \/ SetupFails(t)
  <2>1. Return(t) /\ Unlock(s)
    BY <1>8 DEF SetHttpProxy, SetupFails, RecordReady
  <2>2. Wiring(t) /\ task[t].port # NoPort
    BY <1>1, <1>8, PoolAssumption
    DEF SetHttpProxy, SetupFails, RecordReady, Disciplined, HasPort, Wiring
  <2>3. /\ tunnel' \in {tunnel, [tunnel EXCEPT ![s] = task[t].port]}
        /\ http_proxy' \in {http_proxy, [http_proxy EXCEPT ![s] = TRUE]}
        /\ tunnel' # tunnel => http_proxy' = http_proxy
        /\ http_proxy' # http_proxy => task[t].at = "proxy"
    BY <1>8 DEF SetHttpProxy, SetupFails, RecordReady
  <2>4. OnlyTouches(t, s)
    BY <1>2, <1>3, <2>1, <2>3 DEF Return, Unlock, OnlyTouches
  <2>5. Disciplined(t)'
    BY <1>2, <2>1 DEF Return, Idle, Doing, Disciplined, KnowsPhone, HoldsLock,
                      HasPort, FindsPhone, Holding, Wiring
  <2>6. s \notin Flaky /\ http_proxy'[s] => tunnel'[s] # NoPort
    <3>1. CASE tunnel' = tunnel
      BY <1>1, <1>5, <2>3, <3>1 DEF Disciplined, FindsPhone
    <3>2. CASE tunnel' = [tunnel EXCEPT ![s] = task[t].port]
      BY <1>2, <1>4, <2>2, <3>2
    <3>. QED BY <2>3, <3>1, <3>2
  <2>. QED BY <1>1, <1>3, <1>4, <2>4, <2>5, <2>6, TouchKeepsInv
<1>. QED BY <1>6, <1>7, <1>8

(***************************************************************************)
(* A caller inside its critical section: tearing a phone down.             *)
(***************************************************************************)
LEMMA TeardownKeepsInv ==
  ASSUME PairInv, "unproxy" \notin AdbFaults, NEW t \in Tasks,
         ClearHttpProxy(t) \/ RemoveReverse(t)
  PROVE  PairInv'
<1> DEFINE s == task[t].serial
<1>1. TypeInv /\ TypeInv' /\ Disciplined(t)
  BY AdbStepKeepsTypes DEF PairInv, LockDiscipline, Disciplined
<1>2. /\ task \in [Tasks -> TaskStates]
      /\ guard \in [Serials -> Tasks \cup {NoTask}]
      /\ tunnel \in [Serials -> Pool \cup {NoPort}]
      /\ http_proxy \in [Serials -> BOOLEAN]
  BY <1>1, TypeParts DEF PlainTypes
<1>3. task[t].at # "idle" /\ guard[s] = t /\ UNCHANGED attached
  BY <1>1 DEF ClearHttpProxy, RemoveReverse, Disciplined, HoldsLock, Holding
<1>4. s \in Serials
  BY <1>1, <1>3 DEF Disciplined, KnowsPhone
<1>5. s \notin Flaky => attached[s]
  BY <1>4 DEF PairInv, CablesIn
<1>6. CASE ClearHttpProxy(t)
  <2>1. http_proxy' \in {http_proxy, [http_proxy EXCEPT ![s] = FALSE]}
    BY <1>6 DEF ClearHttpProxy
  <2>2. s \notin Flaky => ~http_proxy'[s]
    BY <1>2, <1>4, <1>5, <1>6 DEF ClearHttpProxy, CanFail
  <2>3. OnlyTouches(t, s)
    BY <1>2, <1>3, <1>6, <2>1 DEF ClearHttpProxy, Resume, OnlyTouches
  <2>4. task'[t].at = "unreverse" /\ task'[t].serial = s
    BY <1>2, <1>6 DEF ClearHttpProxy, Resume, TaskStates
  <2>5. guard'[s] = t
    BY <1>3, <1>6 DEF ClearHttpProxy
  <2>6. Disciplined(t)'
    BY <1>4, <2>2, <2>4, <2>5 DEF Disciplined, KnowsPhone, HoldsLock, HasPort,
                                  FindsPhone, Holding, Wiring
  <2>. QED BY <1>1, <1>3, <1>4, <2>2, <2>3, <2>6, TouchKeepsInv
<1>7. CASE RemoveReverse(t)
  <2>1. Return(t) /\ Unlock(s) /\ UNCHANGED http_proxy
    BY <1>7 DEF RemoveReverse
  <2>2. tunnel' \in {tunnel, [tunnel EXCEPT ![s] = NoPort]}
    BY <1>7 DEF RemoveReverse
  <2>3. OnlyTouches(t, s)
    BY <1>2, <1>3, <2>1, <2>2 DEF Return, Unlock, OnlyTouches
  <2>4. Disciplined(t)'
    BY <1>2, <2>1 DEF Return, Idle, Doing, Disciplined, KnowsPhone, HoldsLock,
                      HasPort, FindsPhone, Holding, Wiring
  <2>5. s \notin Flaky => ~http_proxy'[s]
    BY <1>1, <1>7, <2>1 DEF RemoveReverse, Disciplined, FindsPhone
  <2>. QED BY <1>1, <1>3, <1>4, <2>3, <2>4, <2>5, TouchKeepsInv
<1>. QED BY <1>6, <1>7

LEMMA VisitKeepsInv ==
  ASSUME PairInv, NEW t \in Tasks,
         \/ ReapplyOne(t) \/ ProbeAndroidProxy(t) \/ StillPointsAtUs(t)
         \/ ReadPhone(t, Idle)
  PROVE  PairInv'
<1> DEFINE s == task[t].serial
<1>1. TypeInv /\ TypeInv' /\ Disciplined(t)
  BY VisitKeepsTypes DEF PairInv, LockDiscipline, Disciplined
<1>2. /\ task \in [Tasks -> TaskStates]
      /\ guard \in [Serials -> Tasks \cup {NoTask}]
  BY <1>1, TypeParts DEF PlainTypes
<1>3. s \in Serials
  BY <1>1 DEF ReapplyOne, ProbeAndroidProxy, StillPointsAtUs, ReadPhone,
              Disciplined, KnowsPhone
<1>4. s \notin Flaky => (http_proxy[s] => tunnel[s] # NoPort)
  BY <1>3 DEF PairInv, TunnelUnderProxy
<1>5. UNCHANGED phoneVars
  BY DEF ReapplyOne, ProbeAndroidProxy, StillPointsAtUs, ReadPhone
<1>6. CASE Return(t) /\ UNCHANGED guard
  <2>1. Disciplined(t)'
    BY <1>2, <1>6 DEF Return, Idle, Doing, Disciplined, KnowsPhone, HoldsLock,
                      HasPort, FindsPhone, Holding, Wiring
  <2>. QED BY <1>1, <1>2, <1>5, <1>6, <2>1, QuietKeepsInv DEF Return, phoneVars
<1>7. CASE ReapplyOne(t)
  <2>1. AssignedPort(s) \in Pool
    BY <1>1, <1>3, AssignedPortIsPooled DEF TypeInv, TypeOK
  <2>2. Disciplined(t)'
    BY <1>2, <1>3, <1>7, <2>1
    DEF ReapplyOne, Reserve, Suspend, Disciplined, KnowsPhone, HoldsLock,
        HasPort, FindsPhone, Holding, Wiring
  <2>3. \A u \in Tasks \ {t} : task'[u] = task[u]
    BY <1>2, <1>7 DEF ReapplyOne, Reserve, Suspend
  <2>. QED BY <1>1, <1>7, <2>2, <2>3, QuietKeepsInv DEF ReapplyOne, phoneVars
<1>8. CASE Lock(t, s) /\ (Reserve(t, "probe", s, "read") \/ Resume(t, "read"))
  <2>1. /\ task'[t].at = "read" /\ task'[t].serial = s
        /\ \A u \in Tasks \ {t} : task'[u] = task[u]
    BY <1>2, <1>8 DEF Reserve, Suspend, Resume, TaskStates
  <2>2. guard'[s] = t /\ OnlyTouches(t, s)
    BY <1>2, <1>3, <1>5, <1>8, <2>1 DEF Lock, OnlyTouches, phoneVars
  <2>3. Disciplined(t)'
    BY <1>3, <2>1, <2>2 DEF Disciplined, KnowsPhone, HoldsLock, HasPort,
                            FindsPhone, Holding, Wiring
  <2>. QED BY <1>1, <1>3, <1>4, <1>5, <2>2, <2>3, TouchKeepsInv DEF phoneVars
<1>9. CASE ReadPhone(t, Idle)
  <2>1. task' = [task EXCEPT ![t] = Idle] /\ Unlock(s) /\ guard[s] = t
    BY <1>1, <1>9 DEF ReadPhone, Suspend, Disciplined, HoldsLock, Holding
  <2>2. OnlyTouches(t, s)
    BY <1>2, <1>5, <2>1 DEF Unlock, OnlyTouches, phoneVars
  <2>3. Disciplined(t)'
    BY <1>2, <2>1 DEF Idle, Doing, Disciplined, KnowsPhone, HoldsLock,
                      HasPort, FindsPhone, Holding, Wiring
  <2>. QED BY <1>1, <1>3, <1>4, <1>5, <2>2, <2>3, TouchKeepsInv DEF phoneVars
<1>. QED BY <1>6, <1>7, <1>8, <1>9 DEF ProbeAndroidProxy, StillPointsAtUs

LEMMA WorldKeepsInv ==
  ASSUME PairInv,
         (\E s \in Serials : Environment(s)) \/ Restart \/ UNCHANGED vars
  PROVE  PairInv'
<1>1. TypeInv /\ TypeInv' /\ PlainTypes /\ task \in [Tasks -> TaskStates]
  BY WorldKeepsTypes, TypeParts DEF PairInv
<1>2. ASSUME NEW s \in Serials, Environment(s) PROVE PairInv'
  <2>1. UNCHANGED <<guard, task>>
    BY <1>2 DEF Environment, Unplug, Replug, HelperClearsProxy
  <2>2. \A x \in Serials : http_proxy'[x] => http_proxy[x]
    BY <1>1, <1>2 DEF Environment, Unplug, Replug, HelperClearsProxy, PlainTypes
  <2>3. \A x \in Serials \ Flaky :
          tunnel'[x] = tunnel[x] /\ (attached[x] => attached'[x])
    BY <1>1, <1>2 DEF Environment, Unplug, Replug, HelperClearsProxy, PlainTypes
  <2>4. LockDiscipline'
    BY <2>1, <2>2, <2>3
    DEF PairInv, LockDiscipline, KnowsPhone, HoldsLock, HasPort, FindsPhone,
        Holding, Wiring
  <2>5. TunnelUnderProxy' /\ CablesIn'
    BY <2>2, <2>3 DEF PairInv, TunnelUnderProxy, CablesIn
  <2>. QED BY <1>1, <2>4, <2>5 DEF PairInv
<1>3. CASE Restart
  <2>1. LockDiscipline'
    BY <1>3 DEF Restart, Idle, Doing, LockDiscipline, KnowsPhone, HoldsLock,
                HasPort, FindsPhone, Holding, Wiring
  <2>2. TunnelUnderProxy' /\ CablesIn'
    BY <1>3 DEF Restart, PairInv, TunnelUnderProxy, CablesIn, phoneVars
  <2>. QED BY <1>1, <2>1, <2>2 DEF PairInv
<1>4. CASE UNCHANGED vars
  BY <1>1, <1>4 DEF vars, phoneVars, PairInv, LockDiscipline, KnowsPhone, HoldsLock,
                    HasPort, FindsPhone, Holding, Wiring, TunnelUnderProxy, CablesIn
<1>. QED BY <1>2, <1>3, <1>4

LEMMA InitInv == Init => PairInv
<1> SUFFICES ASSUME Init PROVE PairInv
  OBVIOUS
<1>1. TypeInv
  BY InitTypes
<1>2. LockDiscipline
  BY DEF Init, Idle, Doing, LockDiscipline, KnowsPhone, HoldsLock, HasPort,
         FindsPhone, Holding, Wiring
<1>3. TunnelUnderProxy /\ CablesIn
  BY FaultAssumption DEF Init, TunnelUnderProxy, CablesIn
<1>. QED BY <1>1, <1>2, <1>3 DEF PairInv

LEMMA StepKeepsPairInv ==
  ASSUME "unproxy" \notin AdbFaults, PairInv, [Next]_vars
  PROVE  PairInv'
BY CallKeepsInv, SetupKeepsInv, TeardownKeepsInv, VisitKeepsInv, WorldKeepsInv
DEF Next, TaskStep

LEMMA PairInvariance ==
  ASSUME "unproxy" \notin AdbFaults
  PROVE  Spec => []PairInv
<1>1. PairInv /\ [Next]_vars => PairInv'
  BY StepKeepsPairInv
<1>. QED BY <1>1, InitInv, PTL DEF Spec

(***************************************************************************)
(* Between two adb commands a caller holds its phone's lock and finds the  *)
(* phone as it left it, for any number of concurrent callers.              *)
(***************************************************************************)
THEOREM CallersAreDisciplined ==
  ASSUME "unproxy" \notin AdbFaults
  PROVE  Spec => []LockDiscipline
<1>1. PairInv => LockDiscipline  BY DEF PairInv
<1>. QED BY <1>1, PairInvariance, PTL

(***************************************************************************)
(* No interleaving of add, reapply, clear and remove leaves a phone that   *)
(* stays plugged in pointing at Pane without a tunnel.                     *)
(***************************************************************************)
THEOREM NeverProxyWithoutTunnel ==
  ASSUME "unproxy" \notin AdbFaults
  PROVE  Spec => []TunnelUnderProxy
<1>1. PairInv => TunnelUnderProxy  BY DEF PairInv
<1>. QED BY <1>1, PairInvariance, PTL

-----------------------------------------------------------------------------
(***************************************************************************)
(* What the registry promises about a phone, whoever is at work on it and  *)
(* whatever fails, until one of the mishaps befalls it.                    *)
(***************************************************************************)
Overlapped(s) == "overlap" \in mishap[s]
Restarted(s)  == "restart" \in mishap[s]
Strayed(s)    == "stray" \in mishap[s]

\* One caller at a time was at work on s, and this Pane knows its bookings.
Alone(s) == ~Overlapped(s) /\ ~Restarted(s)

SetsUp(t) == Wiring(t) \/ (task[t].at = "lock" /\ task[t].op \in {"add", "reapply"})

\* A tunnel leads to the port its phone has booked.
Booked(s) ==
  Alone(s) /\ ~Strayed(s) /\ tunnel[s] # NoPort => serial_to_port[s] = tunnel[s]

GoneIsFree(s) == row[s] = "removed" /\ Alone(s) => Fresh(s)

GoneIsOff(s) == row[s] = "removed" /\ s \notin Flaky => ~http_proxy[s]

\* A removed phone has a tunnel only while somebody is wiring it again.
GoneIsUnwired(s) ==
  row[s] = "removed" /\ ~Restarted(s) /\ ~Strayed(s) /\ tunnel[s] # NoPort
    => \E t \in Tasks : task[t].serial = s /\ task[t].at = "proxy"

PhoneFits(s) == Booked(s) /\ GoneIsFree(s) /\ GoneIsOff(s) /\ GoneIsUnwired(s)

\* Who is at which command, with which port, on which row.
OpFits(t) ==
  /\ Wiring(t) => task[t].op \in {"add", "reapply"}
  /\ task[t].at \in {"unproxy", "unreverse"} => task[t].op \in {"remove", "clear"}
  /\ task[t].at \in {"listed", "read"} => task[t].op \in {"reapply", "probe", "pointed"}
  /\ task[t].at = "lock" => task[t].op \in {"add", "reapply", "remove", "clear"}

KeepsBooking(t) ==
  LET s == task[t].serial IN
  SetsUp(t) /\ Alone(s) =>
    /\ task[t].port = serial_to_port[s]
    /\ task[t].fresh /\ task[t].at # "proxy" /\ ~Strayed(s) => tunnel[s] = NoPort

\* The tunnel of a caller that has opened it is its own, or the cable is out.
OwnTunnel(t) ==
  task[t].at = "proxy" => tunnel[task[t].serial] \in {NoPort, task[t].port}

RowStands(t) ==
  LET s == task[t].serial IN
  task[t].at # "idle" /\ task[t].op \in {"add", "reapply", "probe", "pointed"}
    => (Alone(s) => row[s] # "removed")

CallFits(t) == OpFits(t) /\ KeepsBooking(t) /\ OwnTunnel(t) /\ RowStands(t)

NoCross ==
  \A t, u \in Tasks :
    t # u /\ task[t].serial = task[u].serial /\ task[t].serial \in Serials
      => Overlapped(task[t].serial)

MishapInv ==
  /\ PairInv
  /\ mishap \in [Serials -> SUBSET Mishap]
  /\ NoCross
  /\ \A s \in Serials : PhoneFits(s)
  /\ \A t \in Tasks : CallFits(t)

LEMMA SuspendFields ==
  ASSUME TypeInv, NEW t \in Tasks, NEW r, Suspend(t, r)
  PROVE  task'[t] = r /\ \A u \in Tasks \ {t} : task'[u] = task[u]
BY DEF TypeInv, TypeOK, Suspend

LEMMA ResumeFields ==
  ASSUME TypeInv, NEW t \in Tasks, NEW at, Resume(t, at)
  PROVE  /\ task'[t].at = at /\ task'[t].op = task[t].op /\ task'[t].serial = task[t].serial
         /\ task'[t].port = task[t].port /\ task'[t].fresh = task[t].fresh
         /\ \A u \in Tasks \ {t} : task'[u] = task[u]
BY DEF TypeInv, TypeOK, TaskStates, Resume

LEMMA IdleFits ==
  ASSUME NEW t \in Tasks, task[t].at = "idle"
  PROVE  CallFits(t)
BY DEF CallFits, OpFits, KeepsBooking, OwnTunnel, RowStands, SetsUp, Wiring

LEMMA ReturnFields ==
  ASSUME TypeInv, NEW t \in Tasks, Return(t)
  PROVE  /\ task'[t] = Idle /\ task'[t].serial = NoDevice
         /\ \A u \in Tasks \ {t} : task'[u] = task[u]
         /\ CallFits(t)'
<1>1. task'[t] = Idle /\ \A u \in Tasks \ {t} : task'[u] = task[u]
  BY DEF TypeInv, TypeOK, Return
<1>2. task'[t].serial = NoDevice /\ task'[t].at = "idle"
  BY <1>1 DEF Idle, Doing
<1>3. CallFits(t)'
  BY <1>2 DEF CallFits, OpFits, KeepsBooking, OwnTunnel, RowStands, SetsUp, Wiring
<1>. QED BY <1>1, <1>2, <1>3

(***************************************************************************)
(* A call that ends is the step of its own caller.                         *)
(***************************************************************************)
LEMMA EndsItself ==
  ASSUME TypeInv, NEW u \in Tasks, task'[u] = task[u]
  PROVE  ~SetHttpProxy(u) /\ ~HalfWired(u) /\ ~LeftWired(u)
<1>1. ASSUME Return(u), task[u].at # "idle" PROVE FALSE
  BY <1>1 DEF TypeInv, TypeOK, Return, Idle, Doing
<1>. QED BY <1>1 DEF SetHttpProxy, HalfWired, LeftWired, SetupFails, RemoveReverse

(***************************************************************************)
(* How a step of t at work on s changes the mishaps: they stay until a     *)
(* stray tunnel is made good.                                              *)
(***************************************************************************)
Marks(t, s) ==
  \A x \in Serials :
    /\ Restarted(x)' <=> Restarted(x)
    /\ Overlapped(x) => Overlapped(x)'
    /\ Crossed(x)' => Overlapped(x)'
    /\ Strayed(x) /\ ~Strayed(x)' =>
         tunnel'[x] = NoPort \/ (x = s /\ SetHttpProxy(t))
    /\ x = s /\ task[t].serial = s /\ (HalfWired(t) \/ LeftWired(t)) => Strayed(x)'

LEMMA RecordMarks ==
  ASSUME TypeInv, mishap \in [Serials -> SUBSET Mishap], Record, UNCHANGED restarts,
         NEW t \in Tasks, NEW s \in Serials, task[t].serial \in {s, NoDevice},
         \A u \in Tasks \ {t} : task'[u] = task[u]
  PROVE  Marks(t, s)
<1> SUFFICES ASSUME NEW x \in Serials
             PROVE /\ Restarted(x)' <=> Restarted(x)
                   /\ Overlapped(x) => Overlapped(x)'
                   /\ Crossed(x)' => Overlapped(x)'
                   /\ Strayed(x) /\ ~Strayed(x)' =>
                        tunnel'[x] = NoPort \/ (x = s /\ SetHttpProxy(t))
                   /\ x = s /\ task[t].serial = s /\ (HalfWired(t) \/ LeftWired(t))
                        => Strayed(x)'
  BY DEF Marks
<1>1. mishap'[x] = (mishap[x] \ (IF Settles(x) THEN {"stray"} ELSE {})) \cup Befalls(x)
  BY DEF Record
<1>2. Settles(x) => tunnel'[x] = NoPort \/ (x = s /\ SetHttpProxy(t))
  <2> SUFFICES ASSUME NEW u \in Tasks, task[u].serial = x, SetHttpProxy(u)
               PROVE  x = s /\ SetHttpProxy(t)
    BY DEF Settles
  <2>1. u = t
    BY EndsItself
  <2>. QED BY <2>1, DeviceAssumption
<1>3. x = s /\ task[t].serial = s /\ (HalfWired(t) \/ LeftWired(t)) => Strays(x)
  BY DEF Strays
<1>4. Restarted(x)' <=> Restarted(x)
  BY <1>1 DEF Restarted, Befalls
<1>5. Overlapped(x) => Overlapped(x)'
  BY <1>1 DEF Overlapped, Befalls
<1>6. Crossed(x)' => Overlapped(x)'
  BY <1>1 DEF Overlapped, Befalls
<1>7. Strayed(x) /\ ~Strayed(x)' => Settles(x)
  BY <1>1 DEF Strayed, Befalls
<1>8. Strays(x) => Strayed(x)'
  BY <1>1 DEF Strayed, Befalls
<1>. QED BY <1>2, <1>3, <1>4, <1>5, <1>6, <1>7, <1>8

LEMMA RecordTypes ==
  ASSUME mishap \in [Serials -> SUBSET Mishap], Record
  PROVE  mishap' \in [Serials -> SUBSET Mishap]
<1>1. \A s \in Serials : Befalls(s) \subseteq Mishap
  BY DEF Befalls, Mishap
<1>2. CASE restarts' # restarts
  BY <1>2 DEF Record, Mishap
<1>3. CASE restarts' = restarts
  <2>1. mishap' = [s \in Serials |->
          (mishap[s] \ (IF Settles(s) THEN {"stray"} ELSE {})) \cup Befalls(s)]
    BY <1>3 DEF Record
  <2>. QED BY <1>1, <2>1
<1>. QED BY <1>2, <1>3

-----------------------------------------------------------------------------
\* A step of t at work on s.
WorksOn(t, s) ==
  /\ \A u \in Tasks \ {t} : task'[u] = task[u]
  /\ task[t].serial \in {s, NoDevice} /\ task'[t].serial \in {s, NoDevice}
  /\ task[t].serial = s \/ task'[t].serial = s
  /\ \A x \in Serials \ {s} : /\ row'[x] = row[x]
                              /\ tunnel'[x] = tunnel[x]
                              /\ http_proxy'[x] = http_proxy[x]
                              /\ serial_to_port'[x] = serial_to_port[x]
  /\ tunnel'[s] # tunnel[s] => \A u \in Tasks \ {t} : task[u].serial = s => ~Wiring(u)

LEMMA OthersFit ==
  ASSUME MishapInv, TypeInv', NEW t \in Tasks, NEW s \in Serials, WorksOn(t, s), Marks(t, s),
         NEW u \in Tasks, u # t,
         task[u].serial = s => Overlapped(s)'
  PROVE  CallFits(u)'
<1>1. task'[u] = task[u] /\ CallFits(u)
  BY DEF MishapInv, WorksOn
<1>2. CASE task[u].at = "idle"
  <2>1. task'[u].at = "idle"
    BY <1>1, <1>2
  <2>. QED BY <2>1 DEF CallFits, OpFits, KeepsBooking, OwnTunnel, RowStands, SetsUp, Wiring
<1>3. CASE task[u].at # "idle"
  <2> PICK x \in Serials : x = task[u].serial
    BY <1>3 DEF MishapInv, PairInv, TypeInv, PhonesOK, KnowsPhone
  <2>1. task[u].serial = x /\ task'[u].serial = x
    BY <1>1
  <2>2. OpFits(u)'
    BY <1>1 DEF CallFits, OpFits, Wiring
  <2>3. OwnTunnel(u)'
    <3>1. task[u].at = "proxy" => tunnel'[x] = tunnel[x]
      BY <2>1 DEF WorksOn, Wiring
    <3>. QED BY <1>1, <2>1, <3>1 DEF CallFits, OwnTunnel
  <2>4. CASE x = s
    <3>1. ~Alone(x)'
      BY <2>1, <2>4 DEF Alone
    <3>. QED BY <2>1, <2>2, <2>3, <3>1 DEF CallFits, KeepsBooking, RowStands
  <2>5. CASE x # s
    <3>1. /\ row'[x] = row[x] /\ tunnel'[x] = tunnel[x]
          /\ serial_to_port'[x] = serial_to_port[x]
      BY <2>5 DEF WorksOn
    <3>2. /\ Alone(x)' => Alone(x)
          /\ Strayed(x) /\ ~Strayed(x)' => tunnel[x] = NoPort
      BY <2>5, <3>1 DEF Marks, Alone
    <3>3. KeepsBooking(u)'
      BY <1>1, <2>1, <3>1, <3>2 DEF CallFits, KeepsBooking, SetsUp, Wiring
    <3>4. RowStands(u)'
      BY <1>1, <2>1, <3>1, <3>2 DEF CallFits, RowStands
    <3>. QED BY <2>2, <2>3, <3>3, <3>4 DEF CallFits
  <2>. QED BY <2>4, <2>5
<1>. QED BY <1>2, <1>3

LEMMA OtherPhonesFit ==
  ASSUME MishapInv, NEW t \in Tasks, NEW s \in Serials, WorksOn(t, s), Marks(t, s),
         NEW x \in Serials, x # s
  PROVE  PhoneFits(x)'
<1>1. /\ row'[x] = row[x] /\ tunnel'[x] = tunnel[x] /\ PhoneFits(x)
      /\ serial_to_port'[x] = serial_to_port[x]
  BY DEF WorksOn, MishapInv
<1>2. http_proxy'[x] = http_proxy[x]
  BY DEF WorksOn
<1>3. /\ Alone(x)' => Alone(x)
      /\ Restarted(x)' <=> Restarted(x)
      /\ Strayed(x) /\ ~Strayed(x)' => tunnel[x] = NoPort
  BY <1>1 DEF Marks, Alone
<1>4. Booked(x)' /\ GoneIsFree(x)'
  BY <1>1, <1>3 DEF PhoneFits, Booked, GoneIsFree, Fresh
<1>5. GoneIsOff(x)'
  BY <1>1, <1>2 DEF PhoneFits, GoneIsOff
<1>6. GoneIsUnwired(x)'
  <2> SUFFICES ASSUME row'[x] = "removed", ~Restarted(x)', ~Strayed(x)', tunnel'[x] # NoPort
               PROVE  \E u \in Tasks : task'[u].serial = x /\ task'[u].at = "proxy"
    BY DEF GoneIsUnwired
  <2>1. PICK u \in Tasks : task[u].serial = x /\ task[u].at = "proxy"
    BY <1>1, <1>3 DEF PhoneFits, GoneIsUnwired
  <2>2. u # t
    BY <2>1, DeviceAssumption DEF WorksOn
  <2>. QED BY <2>1, <2>2 DEF WorksOn
<1>. QED BY <1>4, <1>5, <1>6 DEF PhoneFits

(***************************************************************************)
(* It then remains to look at the phone and at the caller at work on it.   *)
(***************************************************************************)
LEMMA WorkKeepsMishapInv ==
  ASSUME MishapInv, PairInv', Record, UNCHANGED restarts,
         NEW t \in Tasks, NEW s \in Serials, WorksOn(t, s),
         PhoneFits(s)', CallFits(t)'
  PROVE  MishapInv'
<1>1. Marks(t, s)
  BY RecordMarks DEF MishapInv, PairInv, WorksOn
<1>2. ASSUME NEW u \in Tasks, u # t, task[u].serial = s PROVE Overlapped(s)'
  <2>1. CASE task[t].serial = s
    BY <1>1, <1>2, <2>1 DEF MishapInv, NoCross, Marks
  <2>2. CASE task'[t].serial = s
    BY <1>1, <1>2, <2>2 DEF WorksOn, Crossed, Marks
  <2>. QED BY <2>1, <2>2 DEF WorksOn
<1>3. NoCross'
  <2> SUFFICES ASSUME NEW u \in Tasks, NEW v \in Tasks, u # v,
                      task'[u].serial = task'[v].serial, task'[u].serial \in Serials
               PROVE  "overlap" \in mishap'[task'[u].serial]
    BY DEF NoCross, Overlapped
  <2>1. CASE u = t \/ v = t
    <3>1. task'[t].serial = s
      BY <2>1, DeviceAssumption DEF WorksOn
    <3>2. Overlapped(s)'
      BY <1>2, <2>1, <3>1 DEF WorksOn
    <3>. QED BY <2>1, <3>1, <3>2 DEF Overlapped
  <2>2. CASE u # t /\ v # t
    <3>1. task'[u] = task[u] /\ task'[v] = task[v]
      BY <2>2 DEF WorksOn
    <3> PICK x \in Serials : x = task[u].serial
      BY <3>1
    <3>2. Overlapped(x)
      BY <3>1 DEF MishapInv, NoCross
    <3>3. Overlapped(x)'
      BY <1>1, <3>2 DEF Marks
    <3>. QED BY <3>1, <3>3 DEF Overlapped
  <2>. QED BY <2>1, <2>2
<1>4. mishap' \in [Serials -> SUBSET Mishap]
  BY RecordTypes DEF MishapInv
<1>5. \A x \in Serials : PhoneFits(x)'
  BY <1>1, OtherPhonesFit
<1>6. \A u \in Tasks : CallFits(u)'
  BY <1>1, <1>2, OthersFit DEF PairInv
<1>. QED BY <1>3, <1>4, <1>5, <1>6 DEF MishapInv

LEMMA InitMishap == MishapInit => MishapInv
<1> SUFFICES ASSUME MishapInit PROVE MishapInv
  OBVIOUS
<1>1. PairInv
  BY InitInv DEF MishapInit
<1>2. mishap \in [Serials -> SUBSET Mishap]
  BY DEF MishapInit
<1>3. NoCross
  BY DeviceAssumption DEF MishapInit, Init, NoCross, Idle, Doing
<1>4. ASSUME NEW s \in Serials PROVE PhoneFits(s)
  BY DEF MishapInit, Init, PhoneFits, Booked, GoneIsFree, GoneIsOff, GoneIsUnwired
<1>5. ASSUME NEW t \in Tasks PROVE CallFits(t)
  BY IdleFits DEF MishapInit, Init, Idle, Doing
<1>. QED BY <1>1, <1>2, <1>3, <1>4, <1>5 DEF MishapInv

(***************************************************************************)
(* What assign and release do to the bookings.                             *)
(***************************************************************************)
LEMMA AssignBooks ==
  ASSUME RegistryTypeOK, NEW s \in Serials, Assign(s, s)
  PROVE  /\ serial_to_port'[s] = AssignedPort(s) /\ AssignedPort(s) \in Pool
         /\ ~Fresh(s) => AssignedPort(s) = serial_to_port[s]
         /\ \A x \in Serials \ {s} : serial_to_port'[x] = serial_to_port[x]
<1>1. AssignedPort(s) \in Pool
  BY AssignedPortIsPooled
<1>2. ~Fresh(s) => AssignedPort(s) = serial_to_port[s]
  BY DEF AssignedPort
<1>. QED BY <1>1, <1>2 DEF Assign, RegistryTypeOK

LEMMA ReleaseFrees ==
  ASSUME RegistryTypeOK, NEW s \in Serials, Release(s)
  PROVE  /\ serial_to_port'[s] = NoPort /\ Fresh(s)'
         /\ \A x \in Serials \ {s} : serial_to_port'[x] = serial_to_port[x]
BY DEF RegistryTypeOK, Release, Fresh

LEMMA InvTypes ==
  ASSUME MishapInv
  PROVE  TypeInv /\ RegistryTypeOK /\ PlainTypes /\ task \in [Tasks -> TaskStates]
BY TypeParts DEF MishapInv, PairInv

(***************************************************************************)
(* A caller on its way: its phone is known, and both fit.                  *)
(***************************************************************************)
LEMMA OnTheWay ==
  ASSUME MishapInv, NEW t \in Tasks, task[t].at # "idle"
  PROVE  task[t].serial \in Serials /\ CallFits(t) /\ PhoneFits(task[t].serial)
<1>1. task[t].serial \in Serials
  BY DEF MishapInv, PairInv, TypeInv, PhonesOK, KnowsPhone
<1>. QED BY <1>1 DEF MishapInv

\* Booking again what is wired changes nothing for the phone.
LEMMA PhoneKept ==
  ASSUME MishapInv, NEW t \in Tasks, NEW s \in Serials, WorksOn(t, s), Marks(t, s),
         task[t].at # "proxy", tunnel'[s] = tunnel[s], http_proxy'[s] = http_proxy[s],
         row'[s] \in {row[s], "pairing"},
         \/ Assign(s, s) /\ (Alone(s) => row'[s] # "removed")
         \/ serial_to_port'[s] = serial_to_port[s]
  PROVE  PhoneFits(s)'
<1>1. PhoneFits(s) /\ ~SetHttpProxy(t)
  BY DEF MishapInv, SetHttpProxy
<1>2. /\ Alone(s)' => Alone(s)
      /\ Restarted(s)' <=> Restarted(s)
      /\ Strayed(s) /\ ~Strayed(s)' => tunnel[s] = NoPort
  BY <1>1 DEF Marks, Alone
<1>3. GoneIsOff(s)'
  BY <1>1 DEF PhoneFits, GoneIsOff
<1>4. GoneIsUnwired(s)'
  <2> SUFFICES ASSUME row'[s] = "removed", ~Restarted(s)', ~Strayed(s)', tunnel'[s] # NoPort
               PROVE  \E u \in Tasks : task'[u].serial = s /\ task'[u].at = "proxy"
    BY DEF GoneIsUnwired
  <2>1. PICK u \in Tasks : task[u].serial = s /\ task[u].at = "proxy"
    BY <1>1, <1>2 DEF PhoneFits, GoneIsUnwired
  <2>. QED BY <2>1 DEF WorksOn
<1>5. Booked(s)' /\ GoneIsFree(s)'
  <2>1. CASE serial_to_port'[s] = serial_to_port[s]
    BY <1>1, <1>2, <2>1 DEF PhoneFits, Booked, GoneIsFree, Fresh
  <2>2. CASE Assign(s, s) /\ (Alone(s) => row'[s] # "removed")
    <3>1. ~Fresh(s) => serial_to_port'[s] = serial_to_port[s]
      BY <2>2, AssignBooks, InvTypes
    <3>2. Booked(s)'
      BY <1>1, <1>2, <3>1 DEF PhoneFits, Booked, Fresh
    <3>3. GoneIsFree(s)'
      BY <1>2, <2>2 DEF GoneIsFree
    <3>. QED BY <3>2, <3>3
  <2>. QED BY <2>1, <2>2
<1>. QED BY <1>3, <1>4, <1>5 DEF PhoneFits

\* A port that is taken fresh has no tunnel, unless one went astray.
LEMMA FreshIsUnwired ==
  ASSUME MishapInv, NEW t \in Tasks, NEW s \in Serials, Marks(t, s), task[t].at # "proxy",
         tunnel'[s] = tunnel[s], Alone(s)', ~Strayed(s)', Fresh(s)
  PROVE  tunnel'[s] = NoPort
<1>1. ~SetHttpProxy(t)
  BY DEF SetHttpProxy
<1>2. Alone(s) /\ (Strayed(s) => tunnel'[s] = NoPort)
  BY <1>1 DEF Marks, Alone
<1>. QED BY <1>2 DEF MishapInv, PhoneFits, Booked, Fresh

(***************************************************************************)
(* A caller that reserves a port for s.                                    *)
(***************************************************************************)
LEMMA ReserveFits ==
  ASSUME MishapInv, PairInv', Record, UNCHANGED restarts,
         NEW t \in Tasks, NEW s \in Serials, task[t].serial \in {s, NoDevice},
         task[t].at \in {"idle", "listed"},
         NEW op \in {"add", "reapply", "probe"}, NEW at \in {"lock", "read"},
         op = "probe" <=> at = "read",
         Reserve(t, op, s, at), UNCHANGED <<tunnel, http_proxy>>,
         row'[s] \in {row[s], "pairing"}, \A x \in Serials \ {s} : row'[x] = row[x],
         Alone(s) => row'[s] # "removed"
  PROVE  MishapInv'
<1> DEFINE r == [op |-> op, serial |-> s, at |-> at,
                 port |-> AssignedPort(s), fresh |-> Fresh(s)]
<1>1. Assign(s, s) /\ Suspend(t, r)
  BY DEF Reserve
<1>2. task'[t] = r /\ \A u \in Tasks \ {t} : task'[u] = task[u]
  BY <1>1, SuspendFields, InvTypes
<1>3. /\ task'[t].op = op /\ task'[t].serial = s /\ task'[t].at = at
      /\ task'[t].port = AssignedPort(s) /\ task'[t].fresh = Fresh(s)
  BY <1>2
<1>4. /\ serial_to_port'[s] = AssignedPort(s)
      /\ \A x \in Serials \ {s} : serial_to_port'[x] = serial_to_port[x]
  BY <1>1, AssignBooks, InvTypes
<1>5. WorksOn(t, s)
  BY <1>2, <1>3, <1>4 DEF WorksOn
<1>6. Marks(t, s)
  BY <1>2, RecordMarks, InvTypes DEF MishapInv
<1>7. PhoneFits(s)'
  BY <1>1, <1>5, <1>6, PhoneKept
<1>8. OpFits(t)' /\ OwnTunnel(t)'
  BY <1>3 DEF OpFits, OwnTunnel, Wiring
<1>9. RowStands(t)'
  <2>1. Alone(s)' => Alone(s)
    BY <1>6 DEF Marks, Alone
  <2>. QED BY <1>3, <2>1 DEF RowStands
<1>10. KeepsBooking(t)'
  <2>1. Alone(s)' /\ ~Strayed(s)' /\ Fresh(s) => tunnel'[s] = NoPort
    BY <1>6, FreshIsUnwired
  <2>. QED BY <1>3, <1>4, <2>1 DEF KeepsBooking
<1>. QED BY <1>5, <1>7, <1>8, <1>9, <1>10, WorkKeepsMishapInv DEF CallFits

(***************************************************************************)
(* A step of t that leaves its phone and its booking alone.                *)
(***************************************************************************)
LEMMA QuietStepFits ==
  ASSUME MishapInv, PairInv', Record, UNCHANGED restarts,
         NEW t \in Tasks, NEW s \in Serials, task[t].serial \in {s, NoDevice},
         task'[t].serial \in {s, NoDevice}, task[t].serial = s \/ task'[t].serial = s,
         \A u \in Tasks \ {t} : task'[u] = task[u],
         UNCHANGED <<row, tunnel, http_proxy>>, task[t].at # "proxy",
         (Assign(s, s) /\ (Alone(s) => row[s] # "removed")) \/ UNCHANGED serial_to_port,
         Marks(t, s) => CallFits(t)'
  PROVE  MishapInv'
<1>1. \A x \in Serials \ {s} : serial_to_port'[x] = serial_to_port[x]
  BY AssignBooks, InvTypes
<1>2. WorksOn(t, s)
  BY <1>1 DEF WorksOn
<1>3. Marks(t, s)
  BY RecordMarks, InvTypes DEF MishapInv
<1>4. PhoneFits(s)'
  BY <1>2, <1>3, PhoneKept
<1>. QED BY <1>2, <1>3, <1>4, WorkKeepsMishapInv

LEMMA CallKeepsMishapInv ==
  ASSUME MishapInv, PairInv', Record, NEW t \in Tasks, NEW s \in Serials, Call(t, s)
  PROVE  MishapInv'
<1>1. task[t] = Idle /\ UNCHANGED restarts
  BY DEF Call, AddAndroidUsb, PickListed, Take, TearDown
<1>2. task[t].at = "idle" /\ task[t].serial = NoDevice
  BY <1>1 DEF Idle, Doing
<1>3. CASE AddAndroidUsb(t, s)
  <2>1. /\ Reserve(t, "add", s, "lock") /\ UNCHANGED <<tunnel, http_proxy>>
        /\ row' = [row EXCEPT ![s] = "pairing"]
    BY <1>3 DEF AddAndroidUsb, phoneVars
  <2>2. row'[s] = "pairing" /\ \A x \in Serials \ {s} : row'[x] = row[x]
    BY <2>1, InvTypes DEF PlainTypes
  <2>. QED BY <1>1, <1>2, <2>1, <2>2, ReserveFits
<1>4. ASSUME NEW op \in {"reapply", "probe", "pointed", "remove", "clear"},
             NEW at \in {"listed", "lock"}, Suspend(t, Doing(op, s, at)),
             UNCHANGED <<registryVars, row, phoneVars>>,
             op \in {"reapply", "probe", "pointed"} => at = "listed" /\ Listed(s),
             op \in {"remove", "clear"} => at = "lock"
      PROVE  MishapInv'
  <2>1. task'[t] = Doing(op, s, at) /\ \A u \in Tasks \ {t} : task'[u] = task[u]
    BY <1>4, SuspendFields, InvTypes
  <2>2. task'[t].op = op /\ task'[t].at = at /\ task'[t].serial = s
    BY <2>1 DEF Doing
  <2>3. UNCHANGED <<serial_to_port, row, tunnel, http_proxy>>
    BY <1>4 DEF registryVars, phoneVars
  <2>4. CallFits(t)'
    BY <1>4, <2>2, <2>3 DEF CallFits, OpFits, KeepsBooking, OwnTunnel, RowStands, SetsUp, Wiring, Listed
  <2>. QED BY <1>1, <1>2, <2>1, <2>2, <2>3, <2>4, QuietStepFits
<1>5. CASE \E op \in {"reapply", "probe", "pointed"} : PickListed(t, op, s)
  BY <1>4, <1>5 DEF PickListed, Take
<1>6. CASE \E op \in {"remove", "clear"} : TearDown(t, op, s)
  BY <1>4, <1>6 DEF TearDown
<1>. QED BY <1>3, <1>5, <1>6 DEF Call

LEMMA ApproachKeepsMishapInv ==
  ASSUME MishapInv, PairInv', Record, NEW t \in Tasks, AcquireLock(t) \/ WaitForDevice(t)
  PROVE  MishapInv'
<1> PICK s \in Serials : s = task[t].serial
  BY OnTheWay DEF AcquireLock, WaitForDevice
<1>1. task[t].serial = s /\ CallFits(t)
  BY OnTheWay DEF AcquireLock, WaitForDevice
<1>2. UNCHANGED <<serial_to_port, row, tunnel, http_proxy, restarts>>
  BY DEF AcquireLock, WaitForDevice, phoneVars, registryVars
<1>3. PICK at : /\ Resume(t, at)
                /\ \/ task[t].at = "lock" /\ task[t].op = "add" /\ at = "wait"
                   \/ task[t].at = "lock" /\ task[t].op = "reapply" /\ at = "reverse"
                   \/ task[t].at = "lock" /\ task[t].op \in {"remove", "clear"} /\ at = "unproxy"
                   \/ task[t].at = "wait" /\ at = "reverse"
  <2>1. CASE AcquireLock(t)
    <3>1. task[t].at = "lock" /\ task[t].op \in {"add", "reapply", "remove", "clear"}
      BY <1>1, <2>1 DEF AcquireLock, CallFits, OpFits
    <3>2. CASE task[t].op = "add"
      BY <2>1, <3>1, <3>2 DEF AcquireLock
    <3>3. CASE task[t].op = "reapply"
      BY <2>1, <3>1, <3>3 DEF AcquireLock
    <3>4. CASE task[t].op \in {"remove", "clear"}
      <4>1. Resume(t, "unproxy")
        BY <2>1, <3>4 DEF AcquireLock
      <4>. QED BY <3>1, <3>4, <4>1
    <3>. QED BY <3>1, <3>2, <3>3, <3>4
  <2>2. CASE WaitForDevice(t)
    BY <2>2 DEF WaitForDevice
  <2>. QED BY <2>1, <2>2
<1>4. /\ task'[t].at = at /\ task'[t].op = task[t].op /\ task'[t].serial = s
      /\ task'[t].port = task[t].port /\ task'[t].fresh = task[t].fresh
      /\ \A u \in Tasks \ {t} : task'[u] = task[u]
  BY <1>1, <1>3, ResumeFields, InvTypes
<1>5. task[t].at # "proxy" /\ task[t].at # "idle"
  BY <1>3
<1>6. OpFits(t)' /\ OwnTunnel(t)'
  BY <1>1, <1>3, <1>4 DEF CallFits, OpFits, OwnTunnel, Wiring
<1>7. ASSUME Marks(t, s) PROVE KeepsBooking(t)' /\ RowStands(t)'
  <2>1. /\ Alone(s)' => Alone(s)
        /\ Strayed(s) /\ ~Strayed(s)' => tunnel'[s] = NoPort
    BY <1>5, <1>7 DEF Marks, Alone, SetHttpProxy
  <2>2. RowStands(t)'
    BY <1>1, <1>2, <1>4, <1>5, <2>1 DEF CallFits, RowStands
  <2>3. SetsUp(t)' => SetsUp(t)
    BY <1>1, <1>3, <1>4 DEF SetsUp, Wiring
  <2>4. KeepsBooking(t)'
    BY <1>1, <1>2, <1>4, <1>5, <2>1, <2>3 DEF CallFits, KeepsBooking
  <2>. QED BY <2>2, <2>4
<1>. QED BY <1>1, <1>2, <1>4, <1>5, <1>6, <1>7, QuietStepFits DEF CallFits

(***************************************************************************)
(* The caller that holds the lock is the only one that wires its phone.    *)
(***************************************************************************)
LEMMA OnlyHolderWires ==
  ASSUME MishapInv, NEW t \in Tasks, Holding(t)
  PROVE  \A u \in Tasks \ {t} : task[u].serial = task[t].serial => ~Wiring(u)
BY DEF MishapInv, PairInv, LockDiscipline, HoldsLock, Holding

LEMMA SetupKeepsMishapInv ==
  ASSUME MishapInv, PairInv', Record, NEW t \in Tasks, OpenTunnel(t) \/ SetHttpProxy(t)
  PROVE  MishapInv'
<1> PICK s \in Serials : s = task[t].serial
  BY OnTheWay DEF OpenTunnel, SetHttpProxy
<1>1. task[t].serial = s /\ CallFits(t) /\ PhoneFits(s)
  BY OnTheWay DEF OpenTunnel, SetHttpProxy
<1>2. Wiring(t) /\ Holding(t) /\ UNCHANGED restarts
  BY DEF OpenTunnel, SetHttpProxy, Wiring, Holding
<1>3. /\ row \in [Serials -> RowStates] /\ tunnel \in [Serials -> Pool \cup {NoPort}]
      /\ http_proxy \in [Serials -> BOOLEAN]
  BY InvTypes DEF PlainTypes
<1>4. Alone(s) => task[t].port = serial_to_port[s]
  BY <1>1, <1>2 DEF CallFits, KeepsBooking, SetsUp
<1>5. CASE OpenTunnel(t)
  <2>1. /\ tunnel'[s] = task[t].port /\ (\A x \in Serials \ {s} : tunnel'[x] = tunnel[x])
        /\ Resume(t, "proxy") /\ task[t].at = "reverse"
        /\ UNCHANGED <<serial_to_port, row, http_proxy>>
    BY <1>1, <1>3, <1>5 DEF OpenTunnel, registryVars
  <2>2. /\ task'[t].at = "proxy" /\ task'[t].op = task[t].op /\ task'[t].serial = s
        /\ task'[t].port = task[t].port
        /\ \A u \in Tasks \ {t} : task'[u] = task[u]
    BY <1>1, <2>1, ResumeFields, InvTypes
  <2>3. WorksOn(t, s)
    BY <1>1, <1>2, <2>1, <2>2, OnlyHolderWires DEF WorksOn
  <2>4. Marks(t, s)
    BY <1>1, <1>2, <2>2, RecordMarks, InvTypes DEF MishapInv
  <2>5. Alone(s)' => Alone(s)
    BY <2>4 DEF Marks, Alone
  <2>6. Booked(s)' /\ GoneIsFree(s)'
    BY <1>1, <1>4, <2>1, <2>5 DEF PhoneFits, Booked, GoneIsFree, Fresh
  <2>7. GoneIsOff(s)'
    BY <1>1, <2>1 DEF PhoneFits, GoneIsOff
  <2>8. GoneIsUnwired(s)'
    BY <2>2 DEF GoneIsUnwired
  <2>9. OpFits(t)' /\ OwnTunnel(t)'
    BY <1>1, <1>2, <2>1, <2>2 DEF CallFits, OpFits, OwnTunnel, Wiring
  <2>10. KeepsBooking(t)'
    BY <1>4, <2>1, <2>2, <2>5 DEF KeepsBooking
  <2>11. RowStands(t)'
    BY <1>1, <2>1, <2>2, <2>5 DEF CallFits, RowStands
  <2>12. PhoneFits(s)' /\ CallFits(t)'
    BY <2>6, <2>7, <2>8, <2>9, <2>10, <2>11 DEF PhoneFits, CallFits
  <2>. QED BY <1>2, <2>3, <2>12, WorkKeepsMishapInv
<1>6. CASE SetHttpProxy(t)
  <2>1. /\ row'[s] = "ready" /\ (\A x \in Serials \ {s} : row'[x] = row[x])
        /\ Return(t) /\ UNCHANGED <<serial_to_port, tunnel>> /\ task[t].at = "proxy"
    BY <1>1, <1>3, <1>6 DEF SetHttpProxy, RecordReady, registryVars
  <2>2. \A x \in Serials \ {s} : http_proxy'[x] = http_proxy[x]
    BY <1>1, <1>3, <1>6 DEF SetHttpProxy
  <2>3. (\A u \in Tasks \ {t} : task'[u] = task[u]) /\ CallFits(t)' /\ task'[t].serial = NoDevice
    BY <2>1, ReturnFields, InvTypes
  <2>4. WorksOn(t, s)
    BY <1>1, <2>1, <2>2, <2>3 DEF WorksOn
  <2>5. Marks(t, s)
    BY <1>1, <1>2, <2>3, RecordMarks, InvTypes DEF MishapInv
  <2>6. Booked(s)'
    <3>1. tunnel'[s] # NoPort => tunnel'[s] = task[t].port
      BY <1>1, <2>1 DEF CallFits, OwnTunnel
    <3>2. Alone(s)' => Alone(s)
      BY <2>5 DEF Marks, Alone
    <3>. QED BY <1>4, <2>1, <3>1, <3>2 DEF Booked
  <2>7. PhoneFits(s)'
    BY <2>1, <2>6 DEF PhoneFits, GoneIsFree, GoneIsOff, GoneIsUnwired
  <2>. QED BY <1>2, <2>3, <2>4, <2>7, WorkKeepsMishapInv
<1>. QED BY <1>5, <1>6

(***************************************************************************)
(* A failed set-up that gives a port back leaves no tunnel, or a stray.    *)
(***************************************************************************)
LEMMA FailureKeepsMishapInv ==
  ASSUME MishapInv, PairInv', Record, NEW t \in Tasks, SetupFails(t)
  PROVE  MishapInv'
<1> PICK s \in Serials : s = task[t].serial
  BY OnTheWay DEF SetupFails
<1>1. task[t].serial = s /\ CallFits(t) /\ PhoneFits(s)
  BY OnTheWay DEF SetupFails
<1>2. Wiring(t) /\ Holding(t) /\ UNCHANGED restarts /\ Return(t)
  BY DEF SetupFails, Wiring, Holding
<1>3. /\ row \in [Serials -> RowStates] /\ tunnel \in [Serials -> Pool \cup {NoPort}]
      /\ http_proxy \in [Serials -> BOOLEAN]
  BY InvTypes DEF PlainTypes
<1>4. row' = [row EXCEPT ![s] = "error"] /\ IF task[t].fresh THEN Release(s) ELSE UNCHANGED registryVars
  BY <1>1 DEF SetupFails, GivesBack
<1>5. row'[s] = "error" /\ \A x \in Serials \ {s} : row'[x] = row[x]
  BY <1>3, <1>4
<1>6. /\ tunnel' = tunnel \/ tunnel' = [tunnel EXCEPT ![s] = task[t].port]
      /\ http_proxy' = http_proxy \/ http_proxy' = [http_proxy EXCEPT ![s] = TRUE]
  BY <1>1 DEF SetupFails
<1>7. \A x \in Serials \ {s} : tunnel'[x] = tunnel[x] /\ http_proxy'[x] = http_proxy[x]
  BY <1>3, <1>6
<1>8. \A x \in Serials \ {s} : serial_to_port'[x] = serial_to_port[x]
  BY <1>4, ReleaseFrees, InvTypes DEF registryVars
<1>9. (\A u \in Tasks \ {t} : task'[u] = task[u]) /\ CallFits(t)' /\ task'[t].serial = NoDevice
  BY <1>2, ReturnFields, InvTypes
<1>10. WorksOn(t, s)
  BY <1>1, <1>2, <1>5, <1>7, <1>8, <1>9, OnlyHolderWires DEF WorksOn
<1>11. Marks(t, s)
  BY <1>1, <1>2, <1>9, RecordMarks, InvTypes DEF MishapInv
<1>12. Booked(s)'
  <2> SUFFICES ASSUME Alone(s)', ~Strayed(s)', tunnel'[s] # NoPort
               PROVE  serial_to_port'[s] = tunnel'[s]
    BY DEF Booked
  <2>0. ~SetHttpProxy(t)
    BY <1>1, <1>3, <1>5 DEF SetHttpProxy, RecordReady
  <2>1. Alone(s) /\ ~Strayed(s) /\ ~HalfWired(t)
    BY <1>1, <1>11, <2>0 DEF Marks, Alone
  <2>2. task[t].fresh => task[t].at # "proxy" /\ tunnel' = tunnel
    BY <2>1 DEF HalfWired
  <2>3. /\ task[t].port = serial_to_port[s]
        /\ task[t].fresh /\ task[t].at # "proxy" => tunnel[s] = NoPort
    BY <1>1, <1>2, <2>1 DEF CallFits, KeepsBooking, SetsUp
  <2>4. ~task[t].fresh
    BY <2>2, <2>3
  <2>5. serial_to_port' = serial_to_port
    BY <1>4, <2>4 DEF registryVars
  <2>6. CASE tunnel' = tunnel
    BY <1>1, <2>1, <2>5, <2>6 DEF PhoneFits, Booked
  <2>7. CASE tunnel' = [tunnel EXCEPT ![s] = task[t].port]
    BY <1>3, <2>3, <2>5, <2>7
  <2>. QED BY <1>6, <2>6, <2>7
<1>13. PhoneFits(s)'
  BY <1>5, <1>12 DEF PhoneFits, GoneIsFree, GoneIsOff, GoneIsUnwired
<1>. QED BY <1>2, <1>9, <1>10, <1>13, WorkKeepsMishapInv

(***************************************************************************)
(* A teardown gives the port back: the tunnel is gone, or astray.          *)
(***************************************************************************)
LEMMA TeardownKeepsMishapInv ==
  ASSUME MishapInv, PairInv', Record, "unproxy" \notin AdbFaults, NEW t \in Tasks,
         ClearHttpProxy(t) \/ RemoveReverse(t)
  PROVE  MishapInv'
<1> PICK s \in Serials : s = task[t].serial
  BY OnTheWay DEF ClearHttpProxy, RemoveReverse
<1>1. task[t].serial = s /\ CallFits(t) /\ PhoneFits(s)
  BY OnTheWay DEF ClearHttpProxy, RemoveReverse
<1>2. Holding(t) /\ UNCHANGED restarts /\ task[t].at # "proxy" /\ ~SetHttpProxy(t)
  BY DEF ClearHttpProxy, RemoveReverse, Holding, SetHttpProxy
<1>3. /\ row \in [Serials -> RowStates] /\ tunnel \in [Serials -> Pool \cup {NoPort}]
      /\ http_proxy \in [Serials -> BOOLEAN]
  BY InvTypes DEF PlainTypes
<1>4. CASE ClearHttpProxy(t)
  <2>1. /\ task[t].at = "unproxy" /\ Resume(t, "unreverse")
        /\ UNCHANGED <<serial_to_port, row, tunnel>>
    BY <1>4 DEF ClearHttpProxy, registryVars
  <2>2. /\ task'[t].at = "unreverse" /\ task'[t].op = task[t].op /\ task'[t].serial = s
        /\ \A u \in Tasks \ {t} : task'[u] = task[u]
    BY <1>1, <2>1, ResumeFields, InvTypes
  <2>3. http_proxy' = http_proxy \/ http_proxy' = [http_proxy EXCEPT ![s] = FALSE]
    BY <1>1, <1>4 DEF ClearHttpProxy
  <2>4. (http_proxy'[s] => http_proxy[s]) /\ \A x \in Serials \ {s} : http_proxy'[x] = http_proxy[x]
    BY <1>3, <2>3
  <2>5. WorksOn(t, s)
    BY <1>1, <2>1, <2>2, <2>4 DEF WorksOn
  <2>6. Marks(t, s)
    BY <1>1, <1>2, <2>2, RecordMarks, InvTypes DEF MishapInv
  <2>7. /\ Alone(s)' => Alone(s)
        /\ Restarted(s)' <=> Restarted(s)
        /\ Strayed(s) /\ ~Strayed(s)' => tunnel[s] = NoPort
    BY <1>2, <2>1, <2>6 DEF Marks, Alone
  <2>8. Booked(s)' /\ GoneIsFree(s)'
    BY <1>1, <2>1, <2>7 DEF PhoneFits, Booked, GoneIsFree, Fresh
  <2>9. GoneIsOff(s)'
    BY <1>1, <2>1, <2>4 DEF PhoneFits, GoneIsOff
  <2>10. GoneIsUnwired(s)'
    <3> SUFFICES ASSUME row'[s] = "removed", ~Restarted(s)', ~Strayed(s)', tunnel'[s] # NoPort
                 PROVE  \E u \in Tasks : task'[u].serial = s /\ task'[u].at = "proxy"
      BY DEF GoneIsUnwired
    <3>1. PICK u \in Tasks : task[u].serial = s /\ task[u].at = "proxy"
      BY <1>1, <2>1, <2>7 DEF PhoneFits, GoneIsUnwired
    <3>. QED BY <1>2, <2>2, <3>1
  <2>11. OpFits(t)' /\ KeepsBooking(t)' /\ OwnTunnel(t)'
    BY <1>1, <2>1, <2>2 DEF CallFits, OpFits, KeepsBooking, OwnTunnel, SetsUp, Wiring
  <2>12. RowStands(t)'
    BY <1>1, <2>1, <2>2 DEF CallFits, OpFits, RowStands
  <2>13. PhoneFits(s)' /\ CallFits(t)'
    BY <2>8, <2>9, <2>10, <2>11, <2>12 DEF PhoneFits, CallFits
  <2>. QED BY <1>2, <2>5, <2>13, WorkKeepsMishapInv
<1>5. CASE RemoveReverse(t)
  <2>1. /\ task[t].at = "unreverse" /\ Release(s) /\ Return(t) /\ UNCHANGED http_proxy
        /\ row' = IF task[t].op = "remove" THEN [row EXCEPT ![s] = "removed"] ELSE row
    BY <1>1, <1>5 DEF RemoveReverse, TeardownOk
  <2>2. tunnel' = tunnel \/ tunnel' = [tunnel EXCEPT ![s] = NoPort]
    BY <1>1, <1>5 DEF RemoveReverse
  <2>3. /\ \A x \in Serials \ {s} : tunnel'[x] = tunnel[x]
        /\ \A x \in Serials \ {s} : row'[x] = row[x]
    BY <1>3, <2>1, <2>2
  <2>4. Fresh(s)' /\ \A x \in Serials \ {s} : serial_to_port'[x] = serial_to_port[x]
    BY <2>1, ReleaseFrees, InvTypes
  <2>5. (\A u \in Tasks \ {t} : task'[u] = task[u]) /\ CallFits(t)' /\ task'[t].serial = NoDevice
    BY <2>1, ReturnFields, InvTypes
  <2>6. WorksOn(t, s)
    BY <1>1, <1>2, <2>1, <2>3, <2>4, <2>5, OnlyHolderWires DEF WorksOn
  <2>7. Marks(t, s)
    BY <1>1, <1>2, <2>5, RecordMarks, InvTypes DEF MishapInv
  <2>8. tunnel'[s] # NoPort => Strayed(s)'
    BY <1>1, <1>5, <2>7 DEF Marks, LeftWired
  <2>9. s \notin Flaky => ~http_proxy'[s]
    <3>1. s \notin Flaky => ~http_proxy[s]
      BY <1>1, <2>1 DEF MishapInv, PairInv, LockDiscipline, FindsPhone
    <3>. QED BY <2>1, <3>1
  <2>10. PhoneFits(s)'
    BY <2>4, <2>8, <2>9 DEF PhoneFits, Booked, GoneIsFree, GoneIsOff, GoneIsUnwired
  <2>. QED BY <1>2, <2>5, <2>6, <2>10, WorkKeepsMishapInv
<1>. QED BY <1>4, <1>5

(***************************************************************************)
(* The visits of the sweep and of the watchdog.                            *)
(***************************************************************************)
LEMMA VisitKeepsMishapInv ==
  ASSUME MishapInv, PairInv', Record, NEW t \in Tasks,
         ReapplyOne(t) \/ ProbeAndroidProxy(t) \/ StillPointsAtUs(t) \/ ReadPhone(t, Idle)
  PROVE  MishapInv'
<1> PICK s \in Serials : s = task[t].serial
  BY OnTheWay DEF ReapplyOne, ProbeAndroidProxy, StillPointsAtUs, ReadPhone
<1>1. task[t].serial = s /\ CallFits(t)
  BY OnTheWay DEF ReapplyOne, ProbeAndroidProxy, StillPointsAtUs, ReadPhone
<1>2. UNCHANGED <<row, tunnel, http_proxy, restarts>> /\ task[t].at \in {"listed", "read"}
  BY DEF ReapplyOne, ProbeAndroidProxy, StillPointsAtUs, ReadPhone, phoneVars
<1>3. Alone(s) => row[s] # "removed"
  BY <1>1, <1>2 DEF CallFits, OpFits, RowStands
<1>4. ASSUME Return(t), Assign(s, s) \/ UNCHANGED registryVars PROVE MishapInv'
  <2>1. (\A u \in Tasks \ {t} : task'[u] = task[u]) /\ CallFits(t)' /\ task'[t].serial = NoDevice
    BY <1>4, ReturnFields, InvTypes
  <2>2. Assign(s, s) \/ UNCHANGED serial_to_port
    BY <1>4 DEF registryVars
  <2>. QED BY <1>1, <1>2, <1>3, <2>1, <2>2, QuietStepFits
<1>5. CASE ReapplyOne(t)
  <2>1. Reserve(t, "reapply", s, "lock") /\ task[t].at = "listed"
    BY <1>1, <1>5 DEF ReapplyOne
  <2>. QED BY <1>1, <1>2, <1>3, <2>1, ReserveFits
<1>6. CASE ProbeAndroidProxy(t)
  <2>1. task[t].at = "listed" /\ (Reserve(t, "probe", s, "read") \/ (Assign(s, s) /\ Return(t)))
    BY <1>1, <1>6 DEF ProbeAndroidProxy
  <2>2. CASE Reserve(t, "probe", s, "read")
    BY <1>1, <1>2, <1>3, <2>1, <2>2, ReserveFits
  <2>. QED BY <1>4, <2>1, <2>2
<1>7. CASE StillPointsAtUs(t)
  <2>1. UNCHANGED registryVars /\ task[t].at = "listed" /\ task[t].op = "pointed"
    BY <1>7 DEF StillPointsAtUs
  <2>2. CASE Resume(t, "read")
    <3>1. /\ task'[t].at = "read" /\ task'[t].op = "pointed" /\ task'[t].serial = s
          /\ \A u \in Tasks \ {t} : task'[u] = task[u]
      BY <1>1, <2>1, <2>2, ResumeFields, InvTypes
    <3>2. OpFits(t)' /\ KeepsBooking(t)' /\ OwnTunnel(t)'
      BY <3>1 DEF OpFits, KeepsBooking, OwnTunnel, SetsUp, Wiring
    <3>3. ASSUME Marks(t, s) PROVE RowStands(t)'
      <4>1. Alone(s)' => Alone(s)
        BY <3>3 DEF Marks, Alone
      <4>. QED BY <1>2, <1>3, <3>1, <4>1 DEF RowStands
    <3>. QED BY <1>1, <1>2, <2>1, <3>1, <3>2, <3>3, QuietStepFits DEF CallFits, registryVars
  <2>3. CASE Return(t)
    BY <1>4, <2>1, <2>3
  <2>. QED BY <1>7, <2>2, <2>3 DEF StillPointsAtUs
<1>8. CASE ReadPhone(t, Idle)
  <2>1. Return(t) /\ UNCHANGED registryVars
    BY <1>8 DEF ReadPhone, Suspend, Return
  <2>. QED BY <1>4, <2>1
<1>. QED BY <1>5, <1>6, <1>7, <1>8

(***************************************************************************)
(* Cables and companion apps; a restart, after which nothing is claimed of *)
(* a phone but that a removed one is off Pane.                             *)
(***************************************************************************)
LEMMA WorldKeepsMishapInv ==
  ASSUME MishapInv, PairInv', Record, NEW s \in Serials, Environment(s)
  PROVE  MishapInv'
<1>1. /\ attached \in [Serials -> BOOLEAN] /\ tunnel \in [Serials -> Pool \cup {NoPort}]
      /\ http_proxy \in [Serials -> BOOLEAN]
  BY InvTypes DEF PlainTypes
<1>2. UNCHANGED <<serial_to_port, row, task, restarts>>
  BY DEF Environment, Unplug, Replug, HelperClearsProxy, registryVars
<1>3. \A x \in Serials : tunnel'[x] \in {tunnel[x], NoPort}
  <2>1. CASE Unplug(s)
    BY <1>1, <2>1 DEF Unplug
  <2>2. CASE Replug(s) \/ HelperClearsProxy(s)
    BY <2>2 DEF Replug, HelperClearsProxy
  <2>. QED BY <2>1, <2>2 DEF Environment
<1>4. \A x \in Serials : http_proxy'[x] => http_proxy[x]
  <2>1. CASE Unplug(s) \/ Replug(s)
    BY <2>1 DEF Unplug, Replug
  <2>2. CASE HelperClearsProxy(s)
    <3>1. http_proxy' = [http_proxy EXCEPT ![s] = FALSE]
      BY <2>2 DEF HelperClearsProxy
    <3>. QED BY <1>1, <3>1
  <2>. QED BY <2>1, <2>2 DEF Environment
<1>5. ASSUME NEW x \in Serials
      PROVE  /\ Alone(x)' => Alone(x)
             /\ Overlapped(x) => Overlapped(x)'
             /\ Restarted(x)' <=> Restarted(x)
             /\ Strayed(x) /\ ~Strayed(x)' => tunnel'[x] = NoPort
  <2>1. mishap'[x] = (mishap[x] \ (IF Settles(x) THEN {"stray"} ELSE {})) \cup Befalls(x)
    BY <1>2 DEF Record
  <2>2. Settles(x) => tunnel'[x] = NoPort
    <3>1. \A u \in Tasks : ~SetHttpProxy(u)
      BY <1>2, EndsItself, InvTypes
    <3>. QED BY <3>1 DEF Settles
  <2>3. Overlapped(x) => Overlapped(x)'
    BY <2>1 DEF Overlapped
  <2>4. Restarted(x)' <=> Restarted(x)
    BY <2>1 DEF Restarted, Befalls
  <2>5. Strayed(x) /\ ~Strayed(x)' => Settles(x)
    BY <2>1 DEF Strayed
  <2>. QED BY <2>2, <2>3, <2>4, <2>5 DEF Alone
<1>6. ASSUME NEW x \in Serials PROVE PhoneFits(x)'
  <2>1. PhoneFits(x) /\ row'[x] = row[x] /\ serial_to_port'[x] = serial_to_port[x]
    BY <1>2 DEF MishapInv
  <2>2. Booked(x)' /\ GoneIsFree(x)'
    BY <1>3, <1>5, <2>1 DEF PhoneFits, Booked, GoneIsFree, Fresh
  <2>3. GoneIsOff(x)'
    BY <1>4, <2>1 DEF PhoneFits, GoneIsOff
  <2>4. GoneIsUnwired(x)'
    BY <1>2, <1>3, <1>5, <2>1 DEF PhoneFits, GoneIsUnwired
  <2>. QED BY <2>2, <2>3, <2>4 DEF PhoneFits
<1>7. ASSUME NEW t \in Tasks PROVE CallFits(t)'
  <2>1. CallFits(t) /\ task'[t] = task[t]
    BY <1>2 DEF MishapInv
  <2>2. CASE task[t].at = "idle"
    <3>1. task'[t].at = "idle"
      BY <2>1, <2>2
    <3>. QED BY <3>1 DEF CallFits, OpFits, KeepsBooking, OwnTunnel, RowStands, SetsUp, Wiring
  <2>3. CASE task[t].at # "idle"
    <3> PICK x \in Serials : x = task[t].serial
      BY <2>3, OnTheWay
    <3>1. task[t].serial = x /\ task'[t].serial = x
      BY <2>1
    <3>2. OpFits(t)' /\ RowStands(t)'
      BY <1>2, <1>5, <2>1, <3>1 DEF CallFits, OpFits, RowStands, Wiring
    <3>3. OwnTunnel(t)'
      BY <1>3, <2>1, <3>1 DEF CallFits, OwnTunnel
    <3>4. KeepsBooking(t)'
      BY <1>2, <1>3, <1>5, <2>1, <3>1 DEF CallFits, KeepsBooking, SetsUp, Wiring
    <3>. QED BY <3>2, <3>3, <3>4 DEF CallFits
  <2>. QED BY <2>2, <2>3
<1>8. NoCross'
  BY <1>2, <1>5 DEF MishapInv, NoCross
<1>9. mishap' \in [Serials -> SUBSET Mishap]
  BY RecordTypes DEF MishapInv
<1>. QED BY <1>6, <1>7, <1>8, <1>9 DEF MishapInv

LEMMA RestartKeepsMishapInv ==
  ASSUME MishapInv, PairInv', Record, Restart
  PROVE  MishapInv'
<1>1. /\ restarts' # restarts /\ task' = [t \in Tasks |-> Idle]
      /\ UNCHANGED <<row, http_proxy>>
  BY InvTypes, FaultAssumption DEF Restart, phoneVars, PlainTypes
<1>2. mishap' = [s \in Serials |-> {"restart"}]
  BY <1>1 DEF Record
<1>3. \A s \in Serials : Restarted(s)' /\ ~Alone(s)'
  BY <1>2 DEF Restarted, Alone
<1>4. ASSUME NEW t \in Tasks PROVE CallFits(t)' /\ task'[t].serial = NoDevice
  <2>1. task'[t].serial = NoDevice /\ task'[t].at = "idle"
    BY <1>1 DEF Idle, Doing
  <2>. QED BY <2>1 DEF CallFits, OpFits, KeepsBooking, OwnTunnel, RowStands, SetsUp, Wiring
<1>5. NoCross'
  BY <1>4, DeviceAssumption DEF NoCross
<1>6. ASSUME NEW s \in Serials PROVE PhoneFits(s)'
  <2>1. GoneIsOff(s)'
    BY <1>1 DEF MishapInv, PhoneFits, GoneIsOff
  <2>2. Booked(s)' /\ GoneIsFree(s)' /\ GoneIsUnwired(s)'
    BY <1>3 DEF Booked, GoneIsFree, GoneIsUnwired
  <2>. QED BY <2>1, <2>2 DEF PhoneFits
<1>7. mishap' \in [Serials -> SUBSET Mishap]
  BY RecordTypes DEF MishapInv
<1>. QED BY <1>4, <1>5, <1>6, <1>7 DEF MishapInv

-----------------------------------------------------------------------------
LEMMA StepKeepsMishapInv ==
  ASSUME "unproxy" \notin AdbFaults, MishapInv, [Next /\ Record]_mishapVars
  PROVE  MishapInv'
<1>1. CASE Next /\ Record
  <2>1. PairInv'
    BY <1>1, StepKeepsPairInv DEF MishapInv
  <2>2. ASSUME NEW t \in Tasks, TaskStep(t) PROVE MishapInv'
    BY <1>1, <2>1, <2>2, ApproachKeepsMishapInv, SetupKeepsMishapInv, FailureKeepsMishapInv,
       TeardownKeepsMishapInv, VisitKeepsMishapInv DEF TaskStep
  <2>3. ASSUME NEW t \in Tasks, ReadPhone(t, Idle) PROVE MishapInv'
    BY <1>1, <2>1, <2>3, VisitKeepsMishapInv
  <2>4. ASSUME NEW t \in Tasks, NEW s \in Serials, Call(t, s) PROVE MishapInv'
    BY <1>1, <2>1, <2>4, CallKeepsMishapInv
  <2>5. ASSUME NEW s \in Serials, Environment(s) PROVE MishapInv'
    BY <1>1, <2>1, <2>5, WorldKeepsMishapInv
  <2>6. CASE Restart
    BY <1>1, <2>1, <2>6, RestartKeepsMishapInv
  <2>. QED BY <1>1, <2>2, <2>3, <2>4, <2>5, <2>6 DEF Next
<1>2. CASE UNCHANGED mishapVars
  <2>1. UNCHANGED vars /\ UNCHANGED mishap
    BY <1>2 DEF mishapVars
  <2>2. PairInv'
    BY <2>1, StepKeepsPairInv DEF MishapInv
  <2>3. UNCHANGED <<serial_to_port, row, tunnel, http_proxy, task>>
    BY <2>1 DEF vars, registryVars, phoneVars
  <2>4. NoCross'
    BY <2>1, <2>3 DEF MishapInv, NoCross, Overlapped
  <2>5. ASSUME NEW s \in Serials PROVE PhoneFits(s)'
    <3>1. PhoneFits(s)
      BY DEF MishapInv
    <3>2. Booked(s)' /\ GoneIsFree(s)'
      BY <2>1, <2>3, <3>1
      DEF PhoneFits, Booked, GoneIsFree, Alone, Overlapped, Restarted, Strayed, Fresh
    <3>3. GoneIsOff(s)' /\ GoneIsUnwired(s)'
      BY <2>1, <2>3, <3>1 DEF PhoneFits, GoneIsOff, GoneIsUnwired, Restarted, Strayed
    <3>. QED BY <3>2, <3>3 DEF PhoneFits
  <2>6. ASSUME NEW t \in Tasks PROVE CallFits(t)'
    <3>1. CallFits(t)
      BY DEF MishapInv
    <3>2. OpFits(t)' /\ OwnTunnel(t)'
      BY <2>3, <3>1 DEF CallFits, OpFits, OwnTunnel, Wiring
    <3>3. KeepsBooking(t)' /\ RowStands(t)'
      BY <2>1, <2>3, <3>1
      DEF CallFits, KeepsBooking, RowStands, SetsUp, Wiring, Alone, Overlapped, Restarted, Strayed
    <3>. QED BY <3>2, <3>3 DEF CallFits
  <2>. QED BY <2>1, <2>2, <2>4, <2>5, <2>6 DEF MishapInv
<1>. QED BY <1>1, <1>2

LEMMA MishapInvariance ==
  ASSUME "unproxy" \notin AdbFaults
  PROVE  MishapSpec => []MishapInv
<1>1. MishapInv /\ [Next /\ Record]_mishapVars => MishapInv'
  BY StepKeepsMishapInv
<1>. QED BY <1>1, InitMishap, PTL DEF MishapSpec

\* The history only watches.
LEMMA MishapsWatch == MishapSpec => Spec
<1>1. MishapInit => Init
  BY DEF MishapInit
<1>2. [Next /\ Record]_mishapVars => [Next]_vars
  BY DEF mishapVars
<1>. QED BY <1>1, <1>2, PTL DEF MishapSpec, Spec

(***************************************************************************)
(* Traffic is stamped with the id of the phone that sent it, for any       *)
(* number of phones, callers and ports, whichever commands fail, unless    *)
(* two callers met on that phone, Pane was restarted, or a call gave its   *)
(* port back under a tunnel it left behind.                                *)
(***************************************************************************)
THEOREM WrongStampsHaveCauses ==
  ASSUME "unproxy" \notin AdbFaults
  PROVE  MishapSpec => []WrongStampHasACause
<1>1. MishapInv /\ AttributionSound => WrongStampHasACause
  <2> SUFFICES ASSUME MishapInv, AttributionSound, NEW s \in Serials,
                      mishap[s] = {}, tunnel[s] # NoPort
               PROVE  /\ tunnel[s] = serial_to_port[s]
                      /\ DeviceForPort(tunnel[s]) \in {s, NoDevice}
    BY DEF WrongStampHasACause
  <2>1. serial_to_port[s] = tunnel[s]
    BY DEF MishapInv, PhoneFits, Booked, Alone, Overlapped, Restarted, Strayed
  <2>2. tunnel[s] \in Pool
    BY InvTypes DEF PlainTypes
  <2>3. s \in Holders(tunnel[s])
    BY <2>1 DEF Holders
  <2>. QED BY <2>1, <2>2, <2>3 DEF AttributionSound
<1>. QED BY <1>1, MishapInvariance, MishapsWatch, PairedLabelsAreSound, PTL

(***************************************************************************)
(* A removed phone that nobody is wiring is off Pane, whoever overlapped.  *)
(***************************************************************************)
THEOREM RemovalIsComplete ==
  ASSUME "unproxy" \notin AdbFaults
  PROVE  MishapSpec => []RemovedIsClean
<1>1. MishapInv => RemovedIsClean
  <2> SUFFICES ASSUME MishapInv, NEW s \in Serials, row[s] = "removed", AtRest(s)
               PROVE  /\ s \notin Flaky => ~http_proxy[s]
                      /\ mishap[s] \subseteq {"overlap"} => tunnel[s] = NoPort
                      /\ mishap[s] = {} => Fresh(s)
    BY DEF RemovedIsClean
  <2>1. PhoneFits(s)
    BY DEF MishapInv
  <2>2. s \notin Flaky => ~http_proxy[s]
    BY <2>1 DEF PhoneFits, GoneIsOff
  <2>3. mishap[s] \subseteq {"overlap"} => tunnel[s] = NoPort
    BY <2>1 DEF PhoneFits, GoneIsUnwired, AtRest, Restarted, Strayed
  <2>4. mishap[s] = {} => Fresh(s)
    BY <2>1 DEF PhoneFits, GoneIsFree, Alone, Overlapped, Restarted
  <2>. QED BY <2>2, <2>3, <2>4
<1>. QED BY <1>1, MishapInvariance, PTL
=============================================================================
