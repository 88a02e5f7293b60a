--------------------------- MODULE DeviceManager ----------------------------
(***************************************************************************)
(* Pairing, re-wiring and removing USB Android phones                      *)
(* (crates/pane-devices/src/lib.rs over crates/pane-android/src/lib.rs).   *)
(*                                                                         *)
(* An operation is an async fn run by one of several concurrent callers (a *)
(* user's click, the sweeps of proxy start and stop, the watchdog): a task *)
(* that suspends at every adb command.  Between two awaits it is one step. *)
(* The adb sequence on one phone runs under that phone's serial lock; the  *)
(* port is taken from the registry BEFORE the lock is, and given back      *)
(* after it is dropped.                                                    *)
(***************************************************************************)
EXTENDS PortRegistry

CONSTANTS
  Tasks,        \* concurrent callers
  NoTask,       \* a serial lock nobody holds
  AdbFaults,    \* the adb commands that may fail on an attached phone
  LateEffects,  \* those that may fail after taking effect (adb timed out)
  Flaky,        \* the phones whose cable may be pulled
  MaxRestarts   \* bound on the restarts of Pane

AdbCommands == {"wait", "reverse", "proxy", "unproxy", "unreverse", "read",
                "devices"}

ASSUME TaskAssumption == NoTask \notin Tasks

ASSUME FaultAssumption == /\ AdbFaults \subseteq AdbCommands
                          /\ LateEffects \subseteq AdbFaults
                          /\ Flaky \subseteq Serials
                          /\ MaxRestarts \in Nat

VARIABLES
  row,          \* state column of the phone's device row
  attached,     \* the phone answers on the adb bus
  tunnel,       \* Mac port of its `adb reverse tcp:8888`, NoPort if none
  http_proxy,   \* its global http_proxy setting points at Pane
  broken,       \* its companion app has yet to notice a lost heartbeat
  guard,        \* who holds its serial lock
  task,         \* what each caller is doing
  restarts      \* how often Pane was restarted

phoneVars == <<attached, tunnel, http_proxy, broken>>
vars == <<registryVars, row, phoneVars, guard, task, restarts>>

RowStates == {"absent", "pairing", "ready", "error", "removed"}

\* A task that runs op on s, has got as far as `at`, and has no port.
Doing(op, s, at) == [op |-> op, serial |-> s, at |-> at,
                     port |-> NoPort, fresh |-> FALSE]

Idle == Doing("none", NoDevice, "idle")

TaskStates == [op     : {"none", "add", "reapply", "remove", "clear", "probe", "pointed"},
               serial : Serials \cup {NoDevice},
               at     : AdbCommands \cup {"idle", "listed", "lock"},
               port   : Pool \cup {NoPort},
               fresh  : BOOLEAN]

TypeOK ==
  /\ RegistryTypeOK
  /\ row \in [Serials -> RowStates]
  /\ attached \in [Serials -> BOOLEAN]
  /\ tunnel \in [Serials -> Pool \cup {NoPort}]
  /\ http_proxy \in [Serials -> BOOLEAN]
  /\ broken \in [Serials -> BOOLEAN]
  /\ guard \in [Serials -> Tasks \cup {NoTask}]
  /\ task \in [Tasks -> TaskStates]
  /\ restarts \in 0..MaxRestarts

Init ==
  /\ RegistryInit
  /\ row = [s \in Serials |-> "absent"]
  /\ attached = [s \in Serials |-> TRUE]
  /\ tunnel = [s \in Serials |-> NoPort]
  /\ http_proxy = [s \in Serials |-> FALSE]
  /\ broken = [s \in Serials |-> FALSE]
  /\ guard = [s \in Serials |-> NoTask]
  /\ task = [t \in Tasks |-> Idle]
  /\ restarts = 0

-----------------------------------------------------------------------------
(* list(): the rows the sweeps and the watchdog see. *)
Listed(s) == row[s] \notin {"absent", "removed"}

(* An adb command on s can fail when s is off the bus or adb misbehaves. *)
CanFail(c, s) == ~attached[s] \/ c \in AdbFaults

\* The task suspends with `at` as its next step.
Suspend(t, r) == task' = [task EXCEPT ![t] = r]
Resume(t, at) == task' = [task EXCEPT ![t].at = at]
Return(t)     == task' = [task EXCEPT ![t] = Idle]

\* Mutant: the lock is taken from whoever has it.
LockUnchecked(t, s) == guard' = [guard EXCEPT ![s] = t]

Lock(t, s) == guard[s] = NoTask /\ guard' = [guard EXCEPT ![s] = t]
Unlock(s)  == guard' = [guard EXCEPT ![s] = NoTask]

\* assign_port for a phone that has a row, whose id labels the port.
Reserve(t, op, s, at) ==
  /\ Assign(s, s)
  /\ Suspend(t, [op |-> op, serial |-> s, at |-> at,
                 port |-> AssignedPort(s), fresh |-> Fresh(s)])

-----------------------------------------------------------------------------
(* The entry points. *)

\* add_android_usb: upsert the row as pairing, then take the port.
AddAndroidUsb(t, s) ==
  /\ task[t] = Idle
  /\ row' = [row EXCEPT ![s] = "pairing"]
  /\ Reserve(t, "add", s, "lock")
  /\ UNCHANGED <<phoneVars, guard, restarts>>

\* A sweep or the watchdog took s off the list it read; it acts on it later.
Take(t, op, s) ==
  /\ task[t] = Idle
  /\ Suspend(t, Doing(op, s, "listed"))
  /\ UNCHANGED <<registryVars, row, phoneVars, guard, restarts>>

PickListed(t, op, s) == Listed(s) /\ Take(t, op, s)

ReapplyOne(t) ==
  LET s == task[t].serial IN
  /\ task[t].op = "reapply" /\ task[t].at = "listed"
  /\ Reserve(t, "reapply", s, "lock")
  /\ UNCHANGED <<row, phoneVars, guard, restarts>>

\* probe_android_proxy: the port is assigned even if the lock is then busy.
ProbeAndroidProxy(t) ==
  LET s == task[t].serial IN
  /\ task[t].op = "probe" /\ task[t].at = "listed"
  /\ \/ /\ Lock(t, s)
        /\ Reserve(t, "probe", s, "read")
     \/ /\ guard[s] # NoTask
        /\ Assign(s, s)
        /\ Return(t)
        /\ UNCHANGED guard
  /\ UNCHANGED <<row, phoneVars, restarts>>

\* android_still_points_at_us: the same try_lock, and no port is taken.
StillPointsAtUs(t) ==
  LET s == task[t].serial IN
  /\ task[t].op = "pointed" /\ task[t].at = "listed"
  /\ \/ Lock(t, s) /\ Resume(t, "read")
     \/ guard[s] # NoTask /\ Return(t) /\ UNCHANGED guard
  /\ UNCHANGED <<registryVars, row, phoneVars, restarts>>

\* The teardown inside remove, clear_one and clear_all.
TearDown(t, op, s) ==
  /\ task[t] = Idle
  /\ row[s] # "absent"
  /\ Suspend(t, Doing(op, s, "lock"))
  /\ UNCHANGED <<registryVars, row, phoneVars, guard, restarts>>

-----------------------------------------------------------------------------
(* AndroidPlatform::add_usb and ::remove, under the serial lock. *)

AcquireLock(t) ==
  /\ task[t].at = "lock"
  /\ Lock(t, task[t].serial)
  /\ Resume(t, CASE task[t].op = "add"     -> "wait"      \* Presence::Wait
                 [] task[t].op = "reapply" -> "reverse"   \* Presence::Assume
                 [] OTHER                  -> "unproxy")
  /\ UNCHANGED <<registryVars, row, phoneVars, restarts>>

WaitForDevice(t) ==
  /\ task[t].at = "wait"
  /\ attached[task[t].serial]
  /\ Resume(t, "reverse")
  /\ UNCHANGED <<registryVars, row, phoneVars, guard, restarts>>

OpenTunnel(t) ==
  LET s == task[t].serial IN
  /\ task[t].at = "reverse"
  /\ attached[s]
  /\ tunnel' = [tunnel EXCEPT ![s] = task[t].port]
  /\ Resume(t, "proxy")
  /\ UNCHANGED <<registryVars, row, attached, http_proxy, broken, guard, restarts>>

\* Mutant: a row that was removed meanwhile is left alone.
RecordReadyOnList(s) ==
  row' = IF row[s] = "removed" THEN row ELSE [row EXCEPT ![s] = "ready"]

\* record_ready: an UPDATE by serial, whatever the row says by now.
RecordReady(s) == row' = [row EXCEPT ![s] = "ready"]

\* The last load-bearing command; the caller then runs record_ready.
SetHttpProxy(t) ==
  LET s == task[t].serial IN
  /\ task[t].at = "proxy"
  /\ attached[s]
  /\ http_proxy' = [http_proxy EXCEPT ![s] = TRUE]
  /\ RecordReady(s)
  /\ Unlock(s)
  /\ Return(t)
  /\ UNCHANGED <<registryVars, attached, tunnel, broken, restarts>>

\* Mutant: every failed set-up gives its port back, tunnel or not.
GivesBackAlways(t) == TRUE

\* The rollback rule: only a port this call reserved is given back.
GivesBack(t) == task[t].fresh

\* A load-bearing command fails: a fresh port is given back, the row is error.
SetupFails(t) ==
  LET s == task[t].serial  c == task[t].at IN
  /\ c \in {"wait", "reverse", "proxy"}
  /\ CanFail(c, s)
  /\ \/ UNCHANGED <<tunnel, http_proxy>>
     \/ /\ attached[s] /\ c = "reverse" /\ c \in LateEffects
        /\ tunnel' = [tunnel EXCEPT ![s] = task[t].port]
        /\ UNCHANGED http_proxy
     \/ /\ attached[s] /\ c = "proxy" /\ c \in LateEffects
        /\ http_proxy' = [http_proxy EXCEPT ![s] = TRUE]
        /\ UNCHANGED tunnel
  /\ IF GivesBack(t) THEN Release(s) ELSE UNCHANGED registryVars
  /\ row' = [row EXCEPT ![s] = "error"]
  /\ Unlock(s)
  /\ Return(t)
  /\ UNCHANGED <<attached, broken, restarts>>

\* `settings put http_proxy :0`; its error is discarded.
ClearHttpProxy(t) ==
  LET s == task[t].serial IN
  /\ task[t].at = "unproxy"
  /\ \/ attached[s] /\ http_proxy' = [http_proxy EXCEPT ![s] = FALSE]
     \/ CanFail("unproxy", s) /\ UNCHANGED http_proxy
  /\ Resume(t, "unreverse")
  /\ UNCHANGED <<registryVars, row, attached, tunnel, broken, guard, restarts>>

\* Mutant: a teardown never counts as done.
TeardownNeverOk == FALSE

\* AndroidPlatform::remove ends in Ok(()) whatever its commands answered.
TeardownOk == TRUE

\* `reverse --remove`, error discarded; then the caller's release and row.
RemoveReverse(t) ==
  LET s == task[t].serial IN
  /\ task[t].at = "unreverse"
  /\ \/ attached[s] /\ tunnel' = [tunnel EXCEPT ![s] = NoPort]
     \/ CanFail("unreverse", s) /\ UNCHANGED tunnel
  /\ IF TeardownOk \/ ~attached[s] THEN Release(s) ELSE UNCHANGED registryVars
  /\ row' = IF task[t].op = "remove" THEN [row EXCEPT ![s] = "removed"] ELSE row
  /\ Unlock(s)
  /\ Return(t)
  /\ UNCHANGED <<attached, http_proxy, broken, restarts>>

\* probe_proxy_state and is_proxy_pointed_at_us read the phone and drop the
\* lock; what the caller does next depends on the answer.
ReadPhone(t, next) ==
  /\ task[t].at = "read"
  /\ Unlock(task[t].serial)
  /\ Suspend(t, next)
  /\ UNCHANGED <<registryVars, row, phoneVars, restarts>>

-----------------------------------------------------------------------------
(* The environment. *)

\* adb drops a phone's reverses when its transport goes; a companion app that
\* was connected will notice, sooner or later.
Unplug(s) ==
  /\ s \in Flaky /\ attached[s]
  /\ attached' = [attached EXCEPT ![s] = FALSE]
  /\ tunnel' = [tunnel EXCEPT ![s] = NoPort]
  /\ broken' \in {broken, [broken EXCEPT ![s] = TRUE]}
  /\ UNCHANGED <<registryVars, row, http_proxy, guard, task, restarts>>

Replug(s) ==
  /\ ~attached[s]
  /\ attached' = [attached EXCEPT ![s] = TRUE]
  /\ UNCHANGED <<registryVars, row, tunnel, http_proxy, broken, guard, task, restarts>>

\* It clears the setting once per lost heartbeat, even if that is late and
\* Pane has wired the phone again since.
HelperClearsProxy(s) ==
  /\ broken[s]
  /\ broken' = [broken EXCEPT ![s] = FALSE]
  /\ http_proxy' = [http_proxy EXCEPT ![s] = FALSE]
  /\ UNCHANGED <<registryVars, row, attached, tunnel, guard, task, restarts>>

\* Pane dies and starts again: memory is lost, rows and adb's reverses stay.
Restart ==
  /\ restarts < MaxRestarts
  /\ restarts' = restarts + 1
  /\ NewRegistry
  /\ guard' = [s \in Serials |-> NoTask]
  /\ task' = [t \in Tasks |-> Idle]
  /\ UNCHANGED <<row, phoneVars>>

-----------------------------------------------------------------------------
TaskStep(t) ==
  \/ AcquireLock(t)
  \/ WaitForDevice(t)
  \/ OpenTunnel(t)
  \/ SetHttpProxy(t)
  \/ SetupFails(t)
  \/ ClearHttpProxy(t)
  \/ RemoveReverse(t)
  \/ ReapplyOne(t)
  \/ ProbeAndroidProxy(t)
  \/ StillPointsAtUs(t)

Call(t, s) ==
  \/ AddAndroidUsb(t, s)
  \/ \E op \in {"reapply", "probe", "pointed"} : PickListed(t, op, s)
  \/ \E op \in {"remove", "clear"} : TearDown(t, op, s)

Environment(s) == Unplug(s) \/ Replug(s) \/ HelperClearsProxy(s)

Next ==
  \/ \E t \in Tasks : \/ TaskStep(t)
                      \/ ReadPhone(t, Idle)
                      \/ \E s \in Serials : Call(t, s)
  \/ \E s \in Serials : Environment(s)
  \/ Restart

Spec == Init /\ [][Next]_vars

-----------------------------------------------------------------------------
(***************************************************************************)
(* What the serial locks are for: no interleaving of set-ups and teardowns *)
(* leaves a phone pointing at Pane with the tunnel torn down ("the phone   *)
(* then has no internet at all").  The cable stays in and the command that *)
(* clears the setting works; every other command may fail.                 *)
(***************************************************************************)
TunnelUnderProxy ==
  \A s \in Serials \ Flaky : http_proxy[s] => tunnel[s] # NoPort

(***************************************************************************)
(* The discipline behind it.  A caller between two adb commands holds that *)
(* phone's lock, has a port to wire it to, and finds the phone as its own  *)
(* last command left it, whoever else is queued on the phone.              *)
(***************************************************************************)
Wiring(t)  == task[t].at \in {"wait", "reverse", "proxy"}
Holding(t) == Wiring(t) \/ task[t].at \in {"unproxy", "unreverse", "read"}

KnowsPhone(t) == task[t].at # "idle" => task[t].serial \in Serials

HoldsLock(t) == Holding(t) => guard[task[t].serial] = t

HasPort(t) ==
  Wiring(t) \/ (task[t].at = "lock" /\ task[t].op \in {"add", "reapply"})
    => task[t].port \in Pool

FindsPhone(t) ==
  LET s == task[t].serial IN
  s \notin Flaky => /\ (task[t].at = "proxy" => tunnel[s] # NoPort)
                    /\ (task[t].at = "unreverse" => ~http_proxy[s])

LockDiscipline ==
  \A t \in Tasks : KnowsPhone(t) /\ HoldsLock(t) /\ HasPort(t) /\ FindsPhone(t)

(***************************************************************************)
(* No phone's traffic is stamped with another phone's id: what a phone     *)
(* reverses onto is unlabelled, or labelled as that phone.                 *)
(***************************************************************************)
NoMisattribution ==
  \A s \in Serials :
    tunnel[s] # NoPort => DeviceForPort(tunnel[s]) \in {s, NoDevice}

=============================================================================
