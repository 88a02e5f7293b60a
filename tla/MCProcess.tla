------------------------------- MODULE MCProcess -------------------------------
(* The life of one Pane process and what it serves, outside the traffic it    *)
(* records: who owns the control socket (Instance), a connection on it        *)
(* (ControlConnection), the proxy that is started and stopped                 *)
(* (ProxyLifecycle), the registry of ports (PortRegistry) and the streams of  *)
(* logcat (LogcatStream).  They share no state in the code; a behaviour puts  *)
(* one of them on the bench.  No action a fairness formula speaks of is       *)
(* enabled in the initial state of its component, so the formulas say nothing *)
(* of the other benches.                                                      *)
EXTENDS MCPortRegistry, ProxyLifecycle, Instance, ControlConnection, LogcatStream

VARIABLE bench

processVars == <<registryVars, lifecycleVars, instVars, ctlVars, lsVars, bench>>

ProcessInit ==
    /\ bench \in {"registry", "lifecycle", "instance", "control", "stream"}
    /\ RegistryInit /\ LifecycleInit /\ InstanceInit /\ ControlInit /\ StreamInit

RegistryStep  == bench = "registry" /\ RegistryNext /\ UNCHANGED <<lifecycleVars, instVars, ctlVars, lsVars, bench>>
LifecycleStep == bench = "lifecycle" /\ LifecycleNext /\ UNCHANGED <<registryVars, instVars, ctlVars, lsVars, bench>>
InstanceStep  == bench = "instance" /\ InstanceNext /\ UNCHANGED <<registryVars, lifecycleVars, ctlVars, lsVars, bench>>
ControlStep   == bench = "control" /\ ControlNext /\ UNCHANGED <<registryVars, lifecycleVars, instVars, lsVars, bench>>
StreamStep    == bench = "stream" /\ StreamNext /\ UNCHANGED <<registryVars, lifecycleVars, instVars, ctlVars, bench>>

ProcessNext == RegistryStep \/ LifecycleStep \/ InstanceStep \/ ControlStep \/ StreamStep

ProcessSpec ==
    /\ ProcessInit /\ [][ProcessNext]_processVars
    /\ LifecycleFairness /\ ControlFairness /\ StreamFairness
=============================================================================
