------------------------------ MODULE HostProxy -----------------------------
(***************************************************************************)
(* "Capture this Mac" (pane-core/src/host_proxy.rs, ops/host.rs, the end   *)
(* of proxy_stop, and the start and exit of src-tauri/src/lib.rs): Pane    *)
(* points the Mac's own system proxy at itself and puts the user's setting *)
(* back afterwards.                                                        *)
(*                                                                         *)
(* Each networksetup call is a step.  The host_proxy mutex is held only    *)
(* while the snapshot is looked at, so callers interleave around it.       *)
(***************************************************************************)
EXTENDS Naturals

CONSTANTS
  Services,    \* the Mac's network services (Wi-Fi, Ethernet)
  Callers,     \* concurrent host_capture_enable / _disable / proxy_stop calls
  NoService,   \* no snapshot
  ToolFaults,  \* the system commands that may fail
  CanCrash     \* whether Pane may be killed

ASSUME HostAssumption == /\ NoService \notin Services
                         /\ ToolFaults \subseteq {"trust", "route", "read", "set", "restore"}
                         /\ CanCrash \in BOOLEAN

VARIABLES
  proxyRuns,  \* the MITM proxy runs
  host_proxy,    \* the snapshot: its service and what each channel was
  system_proxy,  \* what networksetup has for each service and channel
  theirs,        \* what that was before Pane touched it (history)
  lapses,        \* what befell it that Pane does not make good (history)
  sentinel,      \* the registry stamps port 8888 with "__host__"
  call,          \* what each caller is doing
  up             \* the process runs

hostVars == <<proxyRuns, host_proxy, system_proxy, theirs, lapses,
              sentinel, call, up>>

\* "tool":    a command that puts a channel back failed.
\* "overlap": an enabling and a restoring call were under way together.
\* "route":   the default route had moved to another service than the one
\*            that points at Pane, or that another call is at work on.
Lapses == {"tool", "overlap", "route"}

Channels == {"web", "secure"}
\* "own" is a proxy of the user's, "pane" is 127.0.0.1:8888.
Settings == {"off", "own", "pane"}
Saved    == [Channels -> Settings]

AllOff     == [k \in Channels |-> "off"]
NoSnapshot == [service |-> NoService, saved |-> AllOff]
Snapshots  == [service : Services \cup {NoService}, saved : Saved]

Resting == [at |-> "rest", service |-> NoService, saved |-> NoSnapshot.saved,
            quits |-> FALSE]

HostTypeOK ==
  /\ proxyRuns \in BOOLEAN
  /\ host_proxy \in Snapshots
  /\ system_proxy \in [Services -> Saved]
  /\ theirs \in [Services -> Saved]
  /\ lapses \subseteq Lapses
  /\ sentinel \in BOOLEAN
  /\ call \in [Callers ->
       [at : {"rest", "trust", "snapshot", "set web", "set secure", "disable",
              "restore web", "restore secure"},
        service : Services \cup {NoService}, saved : Saved, quits : BOOLEAN]]
  /\ up \in BOOLEAN

HostInit ==
  /\ proxyRuns = FALSE
  /\ host_proxy = NoSnapshot
  /\ theirs \in [Services -> [Channels -> {"off", "own"}]]
  /\ system_proxy = theirs
  /\ lapses = {}
  /\ sentinel = FALSE
  /\ call = [c \in Callers |-> Resting]
  /\ up = TRUE

-----------------------------------------------------------------------------
Goto(c, at) == call' = [call EXCEPT ![c].at = at]

Finish(c) == call' = [call EXCEPT ![c] = Resting]

Ends(c) ==
  /\ Finish(c)
  /\ UNCHANGED <<proxyRuns, host_proxy, system_proxy, theirs, lapses,
                 sentinel, up>>

Lapse(what, happens) == lapses' = lapses \cup (IF happens THEN {what} ELSE {})

Enabling  == {"trust", "snapshot", "set web", "set secure"}
Restoring == {"disable", "restore web", "restore secure"}

SomeoneIs(places) == \E c \in Callers : call[c].at \in places

Point(s, k, to) == system_proxy' = [system_proxy EXCEPT ![s][k] = to]

\* restore_channel: a prior proxy is set again, else the channel is put off.
RestoreChannel(c, k) == Point(call[c].service, k, call[c].saved[k])

-----------------------------------------------------------------------------
(* enable. *)

\* Mutant: nobody asks whether the proxy runs.
EnableUnchecked(c) ==
  /\ up /\ call[c] = Resting
  /\ Goto(c, "trust")
  /\ Lapse("overlap", SomeoneIs(Restoring))
  /\ UNCHANGED <<proxyRuns, host_proxy, system_proxy, theirs, sentinel, up>>

\* Without a proxy it bails out before any side effect.
Enable(c) ==
  /\ up /\ call[c] = Resting
  /\ proxyRuns
  /\ Goto(c, "trust")
  /\ Lapse("overlap", SomeoneIs(Restoring))
  /\ UNCHANGED <<proxyRuns, host_proxy, system_proxy, theirs, sentinel, up>>

\* The services the snapshot and the calls under way are about.
InUse == {host_proxy.service} \cup {call[c].service : c \in Callers}

\* trust_ca (which may prompt the user), then active_service: the service
\* that has the default route by now.
TrustCa(c) ==
  /\ call[c].at = "trust"
  /\ \E s \in Services :
       /\ call' = [call EXCEPT ![c].at = "snapshot", ![c].service = s]
       /\ Lapse("route", ~(InUse \subseteq {s, NoService}))
  /\ UNCHANGED <<proxyRuns, host_proxy, system_proxy, theirs, sentinel, up>>

TrustFails(c) ==
  call[c].at = "trust" /\ {"trust", "route"} \cap ToolFaults # {} /\ Ends(c)

\* Mutant: every enable takes a snapshot.
SnapshotAlways(c) ==
  LET s == call[c].service IN
  /\ call[c].at = "snapshot"
  /\ host_proxy' = [service |-> s, saved |-> system_proxy[s]]
  /\ Goto(c, "set web")
  /\ UNCHANGED <<proxyRuns, system_proxy, theirs, lapses, sentinel, up>>

\* The re-enable guard: a snapshot that is there already is kept.
Snapshot(c) ==
  LET s == call[c].service IN
  /\ call[c].at = "snapshot"
  /\ host_proxy' = IF host_proxy = NoSnapshot
                   THEN [service |-> s, saved |-> system_proxy[s]]
                   ELSE host_proxy
  /\ Goto(c, "set web")
  /\ UNCHANGED <<proxyRuns, system_proxy, theirs, lapses, sentinel, up>>

ReadFails(c) ==
  /\ call[c].at = "snapshot" /\ host_proxy = NoSnapshot
  /\ "read" \in ToolFaults /\ Ends(c)

SetWeb(c) ==
  /\ call[c].at = "set web"
  /\ Point(call[c].service, "web", "pane")
  /\ Goto(c, "set secure")
  /\ UNCHANGED <<proxyRuns, host_proxy, theirs, lapses, sentinel, up>>

\* The last command; then the registry's port 8888 is stamped "__host__".
SetSecure(c) ==
  /\ call[c].at = "set secure"
  /\ Point(call[c].service, "secure", "pane")
  /\ sentinel' = TRUE
  /\ Finish(c)
  /\ UNCHANGED <<proxyRuns, host_proxy, theirs, lapses, up>>

SetFails(c) ==
  call[c].at \in {"set web", "set secure"} /\ "set" \in ToolFaults /\ Ends(c)

-----------------------------------------------------------------------------
(* disable, from its own call, from proxy_stop and from the exit handler. *)

ProxyStart ==
  /\ up /\ ~proxyRuns
  /\ proxyRuns' = TRUE
  /\ UNCHANGED <<host_proxy, system_proxy, theirs, lapses, sentinel, call, up>>

\* proxy_stop takes the handle, clears the phones, and only then disables.
ProxyStop(c) ==
  /\ up /\ call[c] = Resting
  /\ proxyRuns' = FALSE
  /\ Goto(c, "disable")
  /\ Lapse("overlap", SomeoneIs(Enabling))
  /\ UNCHANGED <<host_proxy, system_proxy, theirs, sentinel, up>>

CallDisable(c) ==
  /\ up /\ call[c] = Resting
  /\ \E q \in BOOLEAN :
       call' = [call EXCEPT ![c].at = "disable", ![c].quits = q]
  /\ Lapse("overlap", SomeoneIs(Enabling))
  /\ UNCHANGED <<proxyRuns, host_proxy, system_proxy, theirs, sentinel, up>>

\* What ends with the process: the exit handler, or a kill.
ProcessGone ==
  /\ up' = FALSE
  /\ proxyRuns' = FALSE
  /\ host_proxy' = NoSnapshot
  /\ sentinel' = FALSE
  /\ call' = [c \in Callers |-> Resting]
  /\ UNCHANGED theirs

Returns(c) ==
  IF call[c].quits THEN ProcessGone
  ELSE Finish(c) /\ UNCHANGED <<proxyRuns, host_proxy, theirs, sentinel, up>>

\* Mutant: the sentinel is left to a later step.
TakeSnapshotOnly(c) ==
  /\ call[c].at = "disable"
  /\ host_proxy # NoSnapshot
  /\ host_proxy' = NoSnapshot
  /\ call' = [call EXCEPT ![c].at = "restore web",
                          ![c].service = host_proxy.service,
                          ![c].saved = host_proxy.saved]
  /\ UNCHANGED <<proxyRuns, system_proxy, theirs, lapses, sentinel, up>>

\* The snapshot is taken out before anything is restored.
TakeSnapshot(c) ==
  /\ call[c].at = "disable"
  /\ host_proxy # NoSnapshot
  /\ host_proxy' = NoSnapshot
  /\ sentinel' = FALSE
  /\ call' = [call EXCEPT ![c].at = "restore web",
                          ![c].service = host_proxy.service,
                          ![c].saved = host_proxy.saved]
  /\ UNCHANGED <<proxyRuns, system_proxy, theirs, lapses, up>>

NothingToDisable(c) ==
  /\ call[c].at = "disable" /\ host_proxy = NoSnapshot
  /\ Returns(c)
  /\ UNCHANGED <<system_proxy, lapses>>

RestoreWeb(c) ==
  /\ call[c].at = "restore web"
  /\ RestoreChannel(c, "web")
  /\ Goto(c, "restore secure")
  /\ UNCHANGED <<proxyRuns, host_proxy, theirs, lapses, sentinel, up>>

\* Mutant: the secure channel is turned off, whatever it was.
RestoreSecureOff(c) ==
  /\ call[c].at = "restore secure"
  /\ Point(call[c].service, "secure", "off")
  /\ Returns(c)
  /\ UNCHANGED lapses

RestoreSecure(c) ==
  /\ call[c].at = "restore secure"
  /\ RestoreChannel(c, "secure")
  /\ Returns(c)
  /\ UNCHANGED lapses

\* `?`: the other channel is not tried, and the snapshot is gone.
RestoreFails(c) ==
  /\ call[c].at \in {"restore web", "restore secure"}
  /\ "restore" \in ToolFaults
  /\ Lapse("tool", TRUE)
  /\ Returns(c)
  /\ UNCHANGED system_proxy

-----------------------------------------------------------------------------
Crash ==
  /\ CanCrash /\ up
  /\ ProcessGone
  /\ UNCHANGED <<system_proxy, lapses>>

\* What self_heal_on_start leaves of the history: nothing once every service
\* is as the user has it.
Healed(missed, elsewhere) ==
  lapses' = IF system_proxy' = theirs' THEN {}
            ELSE lapses \cup (IF missed THEN {"tool"} ELSE {})
                        \cup (IF elsewhere THEN {"route"} ELSE {})

PointsAtPane(s, channels) == \E k \in channels : system_proxy[s][k] = "pane"

\* The channels of s that are put off, in what is set or in what is theirs.
PutOff(setting, s, off) ==
  [setting EXCEPT ![s] = [k \in Channels |-> IF k \in off THEN "off" ELSE @[k]]]

Heal(s, off, missed) ==
  /\ system_proxy' = PutOff(system_proxy, s, off)
  /\ theirs' = PutOff(theirs, s, off)
  /\ Healed(missed, \E x \in Services \ {s} : PointsAtPane(x, Channels))

\* Mutant: only the web channel is looked at.
SelfHealWebOnly(s) ==
  Heal(s, IF PointsAtPane(s, {"web"}) THEN Channels ELSE {}, FALSE)

\* self_heal_on_start: both channels of the service in use go off if either
\* points at Pane.  The snapshot died with the process, so what is off is the
\* user's setting from now on.  A channel that cannot be read counts as not
\* pointing at Pane, and a channel that does not go off is left at that.
SelfHeal(s) ==
  \E seen \in IF "read" \in ToolFaults THEN SUBSET Channels ELSE {Channels},
     obey \in IF "restore" \in ToolFaults THEN SUBSET Channels ELSE {Channels} :
    Heal(s, IF PointsAtPane(s, seen) THEN obey ELSE {}, {seen, obey} # {Channels})

\* Pane starts; without an active service there is nothing it could heal.
SelfHealOnStart ==
  /\ ~up /\ up' = TRUE
  /\ \/ \E s \in Services : SelfHeal(s)
     \/ /\ "route" \in ToolFaults
        /\ UNCHANGED <<system_proxy, theirs>>
        /\ Healed(TRUE, FALSE)
  /\ UNCHANGED <<proxyRuns, host_proxy, sentinel, call>>

HostNext ==
  \/ ProxyStart
  \/ \E c \in Callers :
       \/ Enable(c) \/ TrustCa(c) \/ TrustFails(c)
       \/ Snapshot(c) \/ ReadFails(c)
       \/ SetWeb(c) \/ SetSecure(c) \/ SetFails(c)
       \/ ProxyStop(c) \/ CallDisable(c)
       \/ TakeSnapshot(c) \/ NothingToDisable(c)
       \/ RestoreWeb(c) \/ RestoreSecure(c) \/ RestoreFails(c)
  \/ Crash \/ SelfHealOnStart

HostSpec == HostInit /\ [][HostNext]_hostVars

-----------------------------------------------------------------------------
NothingUnderWay == up /\ \A c \in Callers : call[c] = Resting

PointsNowhere == \A s \in Services : ~PointsAtPane(s, Channels)

(***************************************************************************)
(* "Enabling host capture while stopped would point the Mac's system proxy *)
(* at a dead 127.0.0.1:8888 and strand it offline [...] Bail before any    *)
(* side effect": what the check at the head of enable is for.              *)
(***************************************************************************)
BailsBeforeSideEffects == NothingUnderWay /\ ~proxyRuns => PointsNowhere

(***************************************************************************)
(* Until one of the three lapses happens, a proxy that is stopped leaves   *)
(* no network service pointing at Pane: whichever calls were made twice,   *)
(* failed half way or were cut off by a quit or a kill.                    *)
(***************************************************************************)
NotStranded == NothingUnderWay /\ ~proxyRuns /\ lapses = {} => PointsNowhere

(***************************************************************************)
(* "Re-snapshotting would save the dead proxy as prior": what is saved to  *)
(* be restored is what the user had, never Pane itself, although several   *)
(* calls enable at once and each may fail between the snapshot and the     *)
(* settings.                                                               *)
(***************************************************************************)
SnapshotIsTheirs ==
  host_proxy # NoSnapshot /\ lapses = {} =>
    host_proxy.saved = theirs[host_proxy.service]

(***************************************************************************)
(* "The user's PRIOR proxy config is snapshotted and restored", "always    *)
(* clear the sentinel": capture that is off has left every service as the  *)
(* user had it and port 8888 without a stamp.                              *)
(***************************************************************************)
HostIsLeftClean ==
  NothingUnderWay /\ host_proxy = NoSnapshot /\ lapses = {} =>
    system_proxy = theirs /\ ~sentinel
=============================================================================
