---------------------------- MODULE PortRegistry ----------------------------
(***************************************************************************)
(* The per-device proxy-port registry (crates/pane-engine/src/registry.rs).*)
(*                                                                         *)
(* Every USB phone talks to its own 127.0.0.1:8888; `adb reverse` carries  *)
(* that to a Mac-side port of PROXY_PORT_POOL, and the local port a        *)
(* connection lands on is the only thing that says which phone sent it.    *)
(* The registry is two maps behind one mutex, so each method is one action.*)
(*                                                                         *)
(* A device row's id is fixed by its serial (UNIQUE(platform, serial), and *)
(* the upsert of `transition` keeps the id), so the id is the serial.      *)
(***************************************************************************)
EXTENDS Naturals, FiniteSets

CONSTANTS
  Serials,      \* the adb serials of the phones
  Pool,         \* PROXY_PORT_POOL: the attributed ports, in ascending order
  HostPort,     \* 8888, the canonical proxy port, kept out of the pool
  Host,         \* the "__host__" sentinel: the user's own Mac
  NoDevice      \* "no entry" of port_to_device

NoPort == 0     \* "no entry" of serial_to_port

ASSUME PoolAssumption == /\ Pool \subseteq Nat \ {NoPort}
                         /\ Pool # {}
                         /\ HostPort \in Nat \ (Pool \cup {NoPort})

ASSUME DeviceAssumption == /\ Host \notin Serials
                           /\ NoDevice \notin Serials \cup {Host}

VARIABLES
  serial_to_port,   \* which pool port a serial holds
  port_to_device    \* which device a connection on a port is stamped with

registryVars == <<serial_to_port, port_to_device>>

Ports == Pool \cup {HostPort}

RegistryTypeOK ==
  /\ serial_to_port \in [Serials -> Pool \cup {NoPort}]
  /\ port_to_device \in [Ports -> Serials \cup {Host, NoDevice}]

RegistryInit ==
  /\ serial_to_port = [s \in Serials |-> NoPort]
  /\ port_to_device = [p \in Ports |-> NoDevice]

-----------------------------------------------------------------------------
Holders(p) == {s \in Serials : serial_to_port[s] = p}

FreePorts == {p \in Pool : Holders(p) = {}}

\* The pool is scanned in array order, which is ascending.
Lowest(P) == CHOOSE p \in P : \A q \in P : p <= q

Fresh(s) == serial_to_port[s] = NoPort

(***************************************************************************)
(* What `assign` answers for s now: the port s already holds, else the     *)
(* lowest free one, else - pool exhausted - the first of the pool, shared. *)
(***************************************************************************)
AssignedPort(s) ==
  IF ~Fresh(s) THEN serial_to_port[s]
  ELSE Lowest(IF FreePorts # {} THEN FreePorts ELSE Pool)

Shared(s) == Holders(AssignedPort(s)) \ {s} # {}

\* Mutant: the last phone that asks labels the port, shared or not.
AssignLastWins(s, id) ==
  /\ serial_to_port' = [serial_to_port EXCEPT ![s] = AssignedPort(s)]
  /\ port_to_device' = [port_to_device EXCEPT ![AssignedPort(s)] =
                          IF id # NoDevice THEN id ELSE @]

(***************************************************************************)
(* assign(serial, device_id); id is NoDevice when the row had no id yet.   *)
(***************************************************************************)
Assign(s, id) ==
  /\ serial_to_port' = [serial_to_port EXCEPT ![s] = AssignedPort(s)]
  /\ port_to_device' =
       [port_to_device EXCEPT ![AssignedPort(s)] =
          IF Shared(s) THEN NoDevice ELSE IF id # NoDevice THEN id ELSE @]

\* release(serial): a serial that holds nothing is a no-op.
Release(s) ==
  /\ serial_to_port' = [serial_to_port EXCEPT ![s] = NoPort]
  /\ port_to_device' =
       [p \in Ports |-> IF p = serial_to_port[s] THEN NoDevice
                        ELSE port_to_device[p]]

\* set_port(8888, "__host__") and clear_port(8888): the Mac captures itself.
SetPort ==
  /\ port_to_device' = [port_to_device EXCEPT ![HostPort] = Host]
  /\ UNCHANGED serial_to_port

ClearPort ==
  /\ port_to_device' = [port_to_device EXCEPT ![HostPort] = NoDevice]
  /\ UNCHANGED serial_to_port

\* device_for_port(port), what the accept loop stamps on a connection.
DeviceForPort(p) == port_to_device[p]

\* new(): a fresh process starts with an empty registry.
NewRegistry ==
  /\ serial_to_port' = [s \in Serials |-> NoPort]
  /\ port_to_device' = [p \in Ports |-> NoDevice]

RegistryNext ==
  \/ \E s \in Serials : \/ \E id \in {s, NoDevice} : Assign(s, id)
                        \/ Release(s)
  \/ SetPort
  \/ ClearPort
  \/ NewRegistry

RegistrySpec == RegistryInit /\ [][RegistryNext]_registryVars

-----------------------------------------------------------------------------
(***************************************************************************)
(* A label is never wrong: a pool port that stamps a device is held by     *)
(* that device and by no other, whatever order phones come, go, and share  *)
(* the port of an exhausted pool.                                          *)
(***************************************************************************)
AttributionSound ==
  \A p \in Pool : DeviceForPort(p) # NoDevice => Holders(p) = {DeviceForPort(p)}

(***************************************************************************)
(* Two phones only ever share the first port of the pool, the fallback of  *)
(* `assign`: sharing anywhere else would be a double allocation.           *)
(***************************************************************************)
SharingOnlyOnFallback ==
  \A s, t \in Serials :
    s # t /\ serial_to_port[s] = serial_to_port[t] /\ ~Fresh(s)
      => serial_to_port[s] = Lowest(Pool)

(***************************************************************************)
(* A phone keeps its port until it is released: its `adb reverse` is wired *)
(* to that number, and re-pair, reapply and every probe call assign again. *)
(***************************************************************************)
PortStable ==
  [][\A s \in Serials : ~Fresh(s) /\ ~Fresh(s)' => UNCHANGED serial_to_port[s]
    ]_registryVars

=============================================================================
