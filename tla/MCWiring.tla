------------------------------- MODULE MCWiring -------------------------------
(* What Pane points at itself and has to put back: phones (DeviceManager,     *)
(* with Mishaps) and the computer it runs on (HostProxy).  They share no      *)
(* state; a behaviour puts one of them on the bench.  In a .cfg the callers   *)
(* of both are the same model values, so that one symmetry serves both.       *)
EXTENDS MCDeviceManager, HostProxy

CONSTANT ProxiedService  \* the only service whose user may have set a proxy

VARIABLE bench

wiringVars == <<mishapVars, hostVars, bench>>

WiringInit ==
    /\ bench \in {"phones", "host"}
    /\ MishapInit
    /\ HostInit /\ \A s \in Services : bench # "host" \/ s # ProxiedService => theirs[s] = AllOff

PhonesStep == bench = "phones" /\ Next /\ Record /\ UNCHANGED <<hostVars, bench>>
HostStep   == bench = "host" /\ HostNext /\ UNCHANGED <<mishapVars, bench>>

WiringNext == PhonesStep \/ HostStep

WiringSpec == WiringInit /\ [][WiringNext]_wiringVars
=============================================================================
