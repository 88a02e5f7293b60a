------------------------------ MODULE Watchdog ------------------------------
(***************************************************************************)
(* The reconciliation of paired phones with the proxy: the sweeps that     *)
(* proxy_start spawns and proxy_stop awaits (pane-core/src/ops/proxy.rs,   *)
(* pane-devices) and the 5-second loop device_watchdog                     *)
(* (pane-core/src/background.rs), composed with DeviceManager.             *)
(*                                                                         *)
(* The loop and each sweep are sequential callers: a caller walks a set of *)
(* phones it read once, acting on one phone at a time, while the user, the *)
(* other callers and the cable change the world under it.                  *)
(***************************************************************************)
EXTENDS DeviceManager

CONSTANTS
  Watcher, Starter, Stopper, User,  \* the four callers
  MaxToggles,                       \* bound on proxy starts and stops
  MaxClicks,                        \* bound on Add and Remove clicks
  MaxUnplugs                        \* bound on cable pulls

ASSUME CallerAssumption == {Watcher, Starter, Stopper, User} \subseteq Tasks

UNHEALTHY_STRIKES == 2

VARIABLES
  running,   \* proxy_handle is Some
  todo,      \* the phones a caller still has to visit in this round
  phase,     \* "rest", "list" (the sweep is about to read the list), "walk"
  saw,       \* the watchdog's per-tick snapshot of proxy_running
  strikes,   \* its consecutive unhealthy probes
  toggles, clicks, unplugs

loopVars   == <<todo, phase, saw, strikes>>
budgetVars == <<toggles, clicks, unplugs>>
allVars    == <<vars, running, loopVars, budgetVars>>

Walkers == {Watcher, Starter, Stopper}

WatchdogTypeOK ==
  /\ TypeOK
  /\ running \in BOOLEAN
  /\ todo \in [Walkers -> SUBSET Serials]
  /\ phase \in [Walkers -> {"rest", "list", "walk"}]
  /\ saw \in BOOLEAN
  /\ strikes \in [Serials -> 0 .. UNHEALTHY_STRIKES - 1]
  /\ toggles \in 0..MaxToggles /\ clicks \in 0..MaxClicks
  /\ unplugs \in 0..MaxUnplugs

WatchdogInit ==
  /\ Init
  /\ running = FALSE
  /\ todo = [w \in Walkers |-> {}]
  /\ phase = [w \in Walkers |-> "rest"]
  /\ saw = FALSE
  /\ strikes = [s \in Serials |-> 0]
  /\ toggles = 0 /\ clicks = 0 /\ unplugs = 0

-----------------------------------------------------------------------------
(* A caller's walk over a set of phones. *)

Walk(w, S) ==
  /\ todo' = [todo EXCEPT ![w] = S]
  /\ phase' = [phase EXCEPT ![w] = IF S = {} THEN "rest" ELSE "walk"]

Visit(w, op, s) ==
  /\ phase[w] = "walk" /\ s \in todo[w]
  /\ Take(w, op, s)
  /\ todo' = [todo EXCEPT ![w] = @ \ {s}]

EndWalk(w) ==
  /\ phase[w] = "walk" /\ todo[w] = {} /\ task[w] = Idle
  /\ phase' = [phase EXCEPT ![w] = "rest"]
  /\ UNCHANGED <<vars, running, todo, saw, strikes, budgetVars>>

-----------------------------------------------------------------------------
(* The proxy's switch. *)

Toggle == toggles < MaxToggles /\ toggles' = toggles + 1

\* proxy_start sets the handle and spawns the reapply sweep.
ProxyStart ==
  /\ Toggle
  /\ ~running /\ running' = TRUE
  /\ phase[Starter] = "rest"
  /\ phase' = [phase EXCEPT ![Starter] = "list"]
  /\ UNCHANGED <<vars, todo, saw, strikes, clicks, unplugs>>

\* proxy_stop takes the handle, then clears every phone on the list.
ProxyStop ==
  /\ Toggle
  /\ running' = FALSE
  /\ phase[Stopper] = "rest"
  /\ phase' = [phase EXCEPT ![Stopper] = "list"]
  /\ UNCHANGED <<vars, todo, saw, strikes, clicks, unplugs>>

\* reapply_all: listed phones that are attached; all of them if adb is mute.
ReapplyList ==
  /\ phase[Starter] = "list"
  /\ \/ Walk(Starter, {s \in Serials : Listed(s) /\ attached[s]})
     \/ "devices" \in AdbFaults /\ Walk(Starter, {s \in Serials : Listed(s)})
  /\ UNCHANGED <<vars, running, saw, strikes, budgetVars>>

ClearList ==
  /\ phase[Stopper] = "list"
  /\ Walk(Stopper, {s \in Serials : Listed(s)})
  /\ UNCHANGED <<vars, running, saw, strikes, budgetVars>>

ReapplyNext == \E s \in Serials :
  /\ Visit(Starter, "reapply", s)
  /\ UNCHANGED <<running, phase, saw, strikes, budgetVars>>

ClearNext == \E s \in todo[Stopper] :
  /\ phase[Stopper] = "walk"
  /\ TearDown(Stopper, "clear", s)
  /\ todo' = [todo EXCEPT ![Stopper] = @ \ {s}]
  /\ UNCHANGED <<running, phase, saw, strikes, budgetVars>>

-----------------------------------------------------------------------------
(* device_watchdog. *)

\* Mutant: a tick that saw the proxy running speaks for all later ones.
TickWithOldSnapshot ==
  LET paired == {s \in Serials : Listed(s) /\ attached[s]} IN
  /\ phase[Watcher] = "rest"
  /\ strikes' = [s \in Serials |-> IF attached[s] THEN strikes[s] ELSE 0]
  /\ Walk(Watcher, paired)
  /\ saw' = (saw \/ running)
  /\ UNCHANGED <<vars, running, budgetVars>>

\* A tick: a mute adb skips it; else strikes, the paired set, the snapshot.
Tick ==
  LET paired == {s \in Serials : Listed(s) /\ attached[s]} IN
  /\ phase[Watcher] = "rest"
  /\ strikes' = [s \in Serials |-> IF attached[s] THEN strikes[s] ELSE 0]
  /\ Walk(Watcher, paired)
  /\ saw' = IF paired = {} THEN saw ELSE running
  /\ UNCHANGED <<vars, running, budgetVars>>

\* One phone of the tick, by what the tick saw, not by what runs now.
WatchNext == \E s \in Serials :
  /\ Visit(Watcher, IF saw THEN "probe" ELSE "pointed", s)
  /\ UNCHANGED <<running, phase, saw, strikes, budgetVars>>

\* Mutant: the setting alone makes a phone healthy, wherever its tunnel goes.
HealthyBySetting(s) == http_proxy[s]

Healthy(s) == http_proxy[s] /\ tunnel[s] = task[Watcher].port

Due(n) == n >= UNHEALTHY_STRIKES

ProbeAnswered ==
  LET s == task[Watcher].serial  n == strikes[s] + 1 IN
  /\ task[Watcher].op = "probe"
  /\ \/ /\ CanFail("read", s)                        \* "couldn't tell": skip
        /\ ReadPhone(Watcher, Idle)
        /\ UNCHANGED strikes
     \/ /\ attached[s] /\ Healthy(s)
        /\ ReadPhone(Watcher, Idle)
        /\ strikes' = [strikes EXCEPT ![s] = 0]
     \/ /\ attached[s] /\ ~Healthy(s) /\ ~Due(n)
        /\ ReadPhone(Watcher, Idle)
        /\ strikes' = [strikes EXCEPT ![s] = n]
     \/ /\ attached[s] /\ ~Healthy(s) /\ Due(n)
        /\ ReadPhone(Watcher, Doing("reapply", s, "listed"))
        /\ strikes' = [strikes EXCEPT ![s] = 0]
  /\ UNCHANGED <<running, todo, phase, saw, budgetVars>>

PointedAnswered ==
  LET s == task[Watcher].serial IN
  /\ task[Watcher].op = "pointed"
  /\ \/ CanFail("read", s) /\ ReadPhone(Watcher, Idle)
     \/ attached[s] /\ ~http_proxy[s] /\ ReadPhone(Watcher, Idle)
     \/ /\ attached[s] /\ http_proxy[s]
        /\ ReadPhone(Watcher, Doing("clear", s, "lock"))
  /\ UNCHANGED <<running, loopVars, budgetVars>>

-----------------------------------------------------------------------------
(* The user, the cable, the callers' own steps. *)

\* device_add_android refuses while the proxy is stopped - checked only here.
ClickAdd == \E s \in Serials :
  /\ clicks < MaxClicks /\ clicks' = clicks + 1
  /\ running
  /\ AddAndroidUsb(User, s)
  /\ UNCHANGED <<running, loopVars, toggles, unplugs>>

ClickRemove == \E s \in Serials :
  /\ clicks < MaxClicks /\ clicks' = clicks + 1
  /\ Listed(s)
  /\ TearDown(User, "remove", s)
  /\ UNCHANGED <<running, loopVars, toggles, unplugs>>

Cable == \E s \in Serials :
  /\ \/ unplugs < MaxUnplugs /\ Unplug(s) /\ unplugs' = unplugs + 1
     \/ (Replug(s) \/ HelperClearsProxy(s)) /\ UNCHANGED unplugs
  /\ UNCHANGED <<running, loopVars, toggles, clicks>>

\* Pane is killed and opened again, with the proxy stopped.
Relaunch ==
  /\ Restart
  /\ running' = FALSE
  /\ todo' = [w \in Walkers |-> {}]
  /\ phase' = [w \in Walkers |-> "rest"]
  /\ saw' = FALSE
  /\ strikes' = [s \in Serials |-> 0]
  /\ UNCHANGED budgetVars

CallerStep(t) == TaskStep(t) /\ UNCHANGED <<running, loopVars, budgetVars>>

WatchdogNext ==
  \/ ProxyStart \/ ProxyStop
  \/ ReapplyList \/ ReapplyNext
  \/ ClearList \/ ClearNext
  \/ Tick \/ WatchNext \/ ProbeAnswered \/ PointedAnswered
  \/ \E w \in Walkers : EndWalk(w)
  \/ \E t \in Tasks : CallerStep(t)
  \/ ClickAdd \/ ClickRemove
  \/ Cable
  \/ Relaunch

(***************************************************************************)
(* Fairness.  Every spawned caller keeps running (weak fairness of its     *)
(* next step), and tokio's mutex is FIFO, so a caller that waits for a     *)
(* serial lock is not overtaken for ever by the watchdog, the only caller  *)
(* that comes back without bound.  adb's faults pass: a command the        *)
(* watchdog tries for ever works in the end.  Nothing is assumed of the    *)
(* user, of the switch or of the cable.                                    *)
(***************************************************************************)
ProbeReads   == ProbeAnswered /\ strikes' # strikes
PointedReads == PointedAnswered /\ task'[Watcher].op = "clear"
Clears       == ClearHttpProxy(Watcher) /\ http_proxy' # http_proxy

Fairness ==
  /\ WF_allVars(\/ Tick \/ WatchNext \/ ProbeAnswered \/ PointedAnswered
                \/ EndWalk(Watcher) \/ CallerStep(Watcher))
  /\ WF_allVars(ReapplyList \/ ReapplyNext \/ EndWalk(Starter) \/ CallerStep(Starter))
  /\ WF_allVars(ClearList \/ ClearNext \/ EndWalk(Stopper) \/ CallerStep(Stopper))
  /\ WF_allVars(CallerStep(User))
  /\ \A t \in Tasks \ {Watcher} : SF_allVars(AcquireLock(t) /\ CallerStep(t))
  /\ SF_allVars(ProbeReads) /\ SF_allVars(PointedReads)
  /\ SF_allVars(OpenTunnel(Watcher) /\ CallerStep(Watcher))
  /\ SF_allVars(SetHttpProxy(Watcher) /\ CallerStep(Watcher))
  /\ SF_allVars(Clears /\ CallerStep(Watcher))

WatchdogSpec == WatchdogInit /\ [][WatchdogNext]_allVars /\ Fairness

(***************************************************************************)
(* Pane is opened again.  An earlier process had paired the phones and was *)
(* killed: they still point at Pane, through whatever port it had given    *)
(* each of them, and the registry is empty.                                *)
(***************************************************************************)
ReopenedInit ==
  /\ RegistryInit
  /\ row = [s \in Serials |-> "ready"]
  /\ attached = [s \in Serials |-> TRUE]
  /\ tunnel \in [Serials -> Pool]
  /\ http_proxy = [s \in Serials |-> TRUE]
  /\ broken = [s \in Serials |-> FALSE]
  /\ guard = [s \in Serials |-> NoTask]
  /\ task = [t \in Tasks |-> Idle]
  /\ restarts = 0
  /\ running = FALSE
  /\ todo = [w \in Walkers |-> {}]
  /\ phase = [w \in Walkers |-> "rest"]
  /\ saw = FALSE
  /\ strikes = [s \in Serials |-> 0]
  /\ toggles = 0 /\ clicks = 0 /\ unplugs = 0

ReopenedSpec == ReopenedInit /\ [][WatchdogNext]_allVars /\ Fairness

-----------------------------------------------------------------------------
(***************************************************************************)
(* A phone that is paired and stays plugged in while the proxy runs ends   *)
(* up wired to the port the registry holds for it, and stays so, whatever  *)
(* sweep failed or raced before.                                           *)
(***************************************************************************)
Wired(s) == http_proxy[s] /\ ~Fresh(s) /\ tunnel[s] = serial_to_port[s]

RunningHeals ==
  \A s \in Serials :
    <>[](running /\ attached[s] /\ Listed(s)) => <>[]Wired(s)

(***************************************************************************)
(* A paired phone plugged in while the proxy stays stopped gets its        *)
(* internet back: it no longer points at the dead 127.0.0.1:8888.          *)
(***************************************************************************)
StoppedFrees ==
  \A s \in Serials :
    <>[](~running /\ attached[s] /\ Listed(s)) => <>[]~http_proxy[s]

(***************************************************************************)
(* Wrong labels are passing: once every phone stays paired and plugged in  *)
(* with the proxy running, no phone's traffic carries another's id.        *)
(***************************************************************************)
LabelsHeal ==
  <>[](running /\ \A s \in Serials : attached[s] /\ Listed(s))
    => <>[]NoMisattribution

=============================================================================
