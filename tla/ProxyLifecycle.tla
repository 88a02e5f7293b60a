--------------------------- MODULE ProxyLifecycle ---------------------------
(***************************************************************************)
(* Starting and stopping the MITM engine: proxy_start and proxy_stop       *)
(* (pane-core/src/ops/proxy.rs) over MitmEngine::start and its accept      *)
(* loops (pane-engine-mitm/src/lib.rs, pac.rs, heartbeat.rs).              *)
(*                                                                         *)
(* Neither call holds a lock across its steps, and nothing stops a second  *)
(* one: the window, the CLI and an agent may each be in the middle of one. *)
(* An engine is named after the proxy_start call that builds it.           *)
(***************************************************************************)
EXTENDS Naturals, FiniteSets

CONSTANTS
  Starts,    \* the calls of proxy_start
  Stops,     \* the calls of proxy_stop
  Bases,     \* the listen ports a start may ask for (default 8888)
  Spares,    \* the other ports of an engine: PROXY_PORT_POOL, PAC, heartbeat
  Foreign,   \* ports that another program holds
  NoEngine   \* "None"

ASSUME CallAssumption == NoEngine \notin Starts /\ Starts \cap Stops = {}

ASSUME PortAssumption == Bases \cap Spares = {}

VARIABLES
  pc,            \* where each call is
  untried,       \* the spares an engine has not tried to bind yet
  bound,         \* the engine whose accept loop holds a port
  signalled,     \* engines told to stop, or whose handle was dropped
  proxy_handle,  \* Core::proxy_handle
  engine,        \* Core::engine
  taken          \* the handle a stop took

lifecycleVars ==
  <<pc, untried, bound, signalled, proxy_handle, engine, taken>>

Calls    == Starts \cup Stops
AllPorts == Bases \cup Spares
Engines  == Starts \cup {NoEngine}

LifecycleTypeOK ==
  /\ pc \in [Calls -> {"new", "spares", "started", "handle", "taken",
                       "signalled", "done", "failed"}]
  /\ untried \in [Starts -> SUBSET Spares]
  /\ bound \in [AllPorts -> Engines]
  /\ signalled \subseteq Starts
  /\ proxy_handle \in Engines
  /\ engine \in Engines
  /\ taken \in [Stops -> Engines]

LifecycleInit ==
  /\ pc = [c \in Calls |-> "new"]
  /\ untried = [g \in Starts |-> Spares]
  /\ bound = [p \in AllPorts |-> NoEngine]
  /\ signalled = {}
  /\ proxy_handle = NoEngine
  /\ engine = NoEngine
  /\ taken = [c \in Stops |-> NoEngine]

-----------------------------------------------------------------------------
Go(c, at) == pc' = [pc EXCEPT ![c] = at]

CanBind(p) == bound[p] = NoEngine /\ p \notin Foreign

\* Sending on an engine's shutdown channel, or dropping its only sender.
Signal(g) == signalled' = signalled \cup ({g} \ {NoEngine})

-----------------------------------------------------------------------------
(* proxy_start. *)

\* The canonical port is bound first and is fatal.
BindBase(g, p) ==
  /\ pc[g] = "new"
  /\ \/ CanBind(p) /\ bound' = [bound EXCEPT ![p] = g] /\ Go(g, "spares")
     \/ ~CanBind(p) /\ Go(g, "failed") /\ UNCHANGED bound
  /\ UNCHANGED <<untried, signalled, proxy_handle, engine, taken>>

\* Pool, PAC and heartbeat ports are best-effort: one in use is skipped.
BindSpare(g, p) ==
  /\ pc[g] = "spares" /\ p \in untried[g]
  /\ untried' = [untried EXCEPT ![g] = @ \ {p}]
  /\ bound' = IF CanBind(p) THEN [bound EXCEPT ![p] = g] ELSE bound
  /\ UNCHANGED <<pc, signalled, proxy_handle, engine, taken>>

SessionRecord(g) ==
  /\ pc[g] = "spares" /\ untried[g] = {}
  /\ Go(g, "started")
  /\ UNCHANGED <<untried, bound, signalled, proxy_handle, engine, taken>>

\* Mutant: something else keeps the handle of a failed start alive.
SessionFailsLeaking(g) ==
  /\ pc[g] = "spares" /\ untried[g] = {}
  /\ Go(g, "failed")
  /\ UNCHANGED <<untried, bound, signalled, proxy_handle, engine, taken>>

\* The insert fails: `?` returns, and the handle is dropped on the way out.
SessionFails(g) ==
  /\ pc[g] = "spares" /\ untried[g] = {}
  /\ Signal(g)
  /\ Go(g, "failed")
  /\ UNCHANGED <<untried, bound, proxy_handle, engine, taken>>

\* *proxy_handle.lock() = Some(handle): the handle it replaces is dropped.
SetHandle(g) ==
  /\ pc[g] = "started"
  /\ proxy_handle' = g
  /\ Signal(proxy_handle)
  /\ Go(g, "handle")
  /\ UNCHANGED <<untried, bound, engine, taken>>

SetEngine(g) ==
  /\ pc[g] = "handle"
  /\ engine' = g
  /\ Go(g, "done")
  /\ UNCHANGED <<untried, bound, signalled, proxy_handle, taken>>

-----------------------------------------------------------------------------
(* proxy_stop. *)

TakeHandle(c) ==
  /\ pc[c] = "new"
  /\ taken' = [taken EXCEPT ![c] = proxy_handle]
  /\ proxy_handle' = NoEngine
  /\ Go(c, "taken")
  /\ UNCHANGED <<untried, bound, signalled, engine>>

\* Mutant: the stop is not passed on to the accept loops.
ShutdownUnheard(c) ==
  /\ pc[c] = "taken"
  /\ Go(c, "signalled")
  /\ UNCHANGED <<untried, bound, signalled, proxy_handle, engine, taken>>

Shutdown(c) ==
  /\ pc[c] = "taken"
  /\ Signal(taken[c])
  /\ Go(c, "signalled")
  /\ UNCHANGED <<untried, bound, proxy_handle, engine, taken>>

\* engine.lock().take(): whatever is there by now.
DropEngine(c) ==
  /\ pc[c] = "signalled"
  /\ engine' = NoEngine
  /\ Go(c, "done")
  /\ UNCHANGED <<untried, bound, signalled, proxy_handle, taken>>

-----------------------------------------------------------------------------
\* An accept loop sees the stop and drops its listener.
LoopEnds(p) ==
  /\ bound[p] \in signalled
  /\ bound' = [bound EXCEPT ![p] = NoEngine]
  /\ UNCHANGED <<pc, untried, signalled, proxy_handle, engine, taken>>

StartStep(g) ==
  \/ \E p \in Bases : BindBase(g, p)
  \/ \E p \in Spares : BindSpare(g, p)
  \/ SessionRecord(g) \/ SessionFails(g)
  \/ SetHandle(g) \/ SetEngine(g)

StopStep(c) == TakeHandle(c) \/ Shutdown(c) \/ DropEngine(c)

LifecycleNext ==
  \/ \E g \in Starts : StartStep(g)
  \/ \E c \in Stops : StopStep(c)
  \/ \E p \in AllPorts : LoopEnds(p)

\* A call that began goes on, and a loop that was signalled ends.
LifecycleFairness ==
  /\ \A g \in Starts : WF_lifecycleVars(pc[g] # "new" /\ StartStep(g))
  /\ \A c \in Stops : WF_lifecycleVars(pc[c] # "new" /\ StopStep(c))
  /\ \A p \in AllPorts : WF_lifecycleVars(LoopEnds(p))

LifecycleSpec ==
  LifecycleInit /\ [][LifecycleNext]_lifecycleVars /\ LifecycleFairness

-----------------------------------------------------------------------------
InFlight(c) == pc[c] \notin {"new", "done", "failed"}
Starting(g) == pc[g] \in {"spares", "started"}
(***************************************************************************)
(* No orphan engine: an engine that still accepts connections is the one   *)
(* proxy_stop would stop, or a call is in the middle of starting it, or of *)
(* stopping it - whichever start failed, was overtaken or was replaced.    *)
(***************************************************************************)
NoOrphanEngine ==
  \A p \in AllPorts :
    LET g == bound[p] IN
    g # NoEngine => \/ g \in signalled
                    \/ g = proxy_handle
                    \/ Starting(g)
                    \/ \E c \in Stops : pc[c] = "taken" /\ taken[c] = g

(***************************************************************************)
(* A stopped proxy lets go of every port, so that it can be started again. *)
(***************************************************************************)
StoppedFreesPorts ==
  []((proxy_handle = NoEngine /\ \A g \in Starts : ~Starting(g)) =>
       <>(\/ \A p \in AllPorts : bound[p] = NoEngine
          \/ \E g \in Starts : Starting(g)))

=============================================================================
