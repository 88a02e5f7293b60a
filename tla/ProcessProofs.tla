-------------------------- MODULE ProcessProofs --------------------------
(***************************************************************************)
(* What is proved about the parts of one Pane process that are started and *)
(* stopped: the proxy, the instance that owns the socket and the database, *)
(* the streams of logcat, and the capture of the host.  They share no      *)
(* state.                                                                  *)
(***************************************************************************)
EXTENDS ProxyLifecycle, Instance, LogcatStream, HostProxy, TLAPS

(***************************************************************************)
(* However many starts and stops overlap, no engine is lost.               *)
(***************************************************************************)
LifecycleInv == LifecycleTypeOK /\ NoOrphanEngine

\* The engine of a port is accounted for.
Accounted(g) ==
  g # NoEngine => \/ g \in signalled
                  \/ g = proxy_handle
                  \/ Starting(g)
                  \/ \E c \in Stops : pc[c] = "taken" /\ taken[c] = g

LEMMA OrphanDef == NoOrphanEngine <=> \A p \in AllPorts : Accounted(bound[p])
  BY DEF NoOrphanEngine, Accounted

LEMMA LifecycleInitInv == LifecycleInit => LifecycleInv
  BY DEF LifecycleInit, LifecycleInv, LifecycleTypeOK, NoOrphanEngine, Engines

LEMMA StartKeepsTypes ==
  ASSUME LifecycleTypeOK, NEW g \in Starts, StartStep(g)
  PROVE  LifecycleTypeOK'
<1>1. CASE \E p \in Bases : BindBase(g, p)
  BY <1>1 DEF BindBase, Go, LifecycleTypeOK, Calls, Engines
<1>2. CASE \E p \in Spares : BindSpare(g, p)
  BY <1>2 DEF BindSpare, LifecycleTypeOK, Engines
<1>3. CASE SessionRecord(g) \/ SessionFails(g)
  BY <1>3 DEF SessionRecord, SessionFails, Go, Signal, LifecycleTypeOK, Calls
<1>4. CASE SetHandle(g)
  BY <1>4 DEF SetHandle, Go, Signal, LifecycleTypeOK, Calls, Engines
<1>5. CASE SetEngine(g)
  BY <1>5 DEF SetEngine, Go, LifecycleTypeOK, Calls, Engines
<1>. QED BY <1>1, <1>2, <1>3, <1>4, <1>5 DEF StartStep

LEMMA StopKeepsTypes ==
  ASSUME LifecycleTypeOK,
         \/ \E c \in Stops : StopStep(c)
         \/ \E p \in AllPorts : LoopEnds(p)
  PROVE  LifecycleTypeOK'
<1>1. CASE \E c \in Stops : TakeHandle(c)
  BY <1>1 DEF TakeHandle, Go, LifecycleTypeOK, Calls, Engines
<1>2. CASE \E c \in Stops : Shutdown(c)
  BY <1>2 DEF Shutdown, Go, Signal, LifecycleTypeOK, Calls, Engines
<1>3. CASE \E c \in Stops : DropEngine(c)
  BY <1>3 DEF DropEngine, Go, LifecycleTypeOK, Calls, Engines
<1>4. CASE \E p \in AllPorts : LoopEnds(p)
  BY <1>4 DEF LoopEnds, LifecycleTypeOK, Engines
<1>. QED BY <1>1, <1>2, <1>3, <1>4 DEF StopStep

(***************************************************************************)
(* An engine that is accounted for stays so in every step: the step that   *)
(* takes away one of its keepers is the step that hands it to the next.    *)
(***************************************************************************)
LEMMA StartKeepsAccounts ==
  ASSUME LifecycleTypeOK, NEW g \in Starts, StartStep(g),
         NEW e \in Engines, Accounted(e)
  PROVE  Accounted(e)'
<1>1. CASE \E p \in Bases : BindBase(g, p)
  BY <1>1, CallAssumption
  DEF BindBase, Go, Accounted, Starting, LifecycleTypeOK, Calls, Engines
<1>2. CASE \E p \in Spares : BindSpare(g, p)
  BY <1>2 DEF BindSpare, Accounted, Starting
<1>3. CASE SessionRecord(g) \/ SessionFails(g)
  BY <1>3, CallAssumption
  DEF SessionRecord, SessionFails, Go, Signal, Accounted, Starting,
      LifecycleTypeOK, Calls, Engines
<1>4. CASE SetHandle(g)
  BY <1>4, CallAssumption
  DEF SetHandle, Go, Signal, Accounted, Starting, LifecycleTypeOK, Calls, Engines
<1>5. CASE SetEngine(g)
  BY <1>5, CallAssumption
  DEF SetEngine, Go, Accounted, Starting, LifecycleTypeOK, Calls, Engines
<1>. QED BY <1>1, <1>2, <1>3, <1>4, <1>5 DEF StartStep

LEMMA StopKeepsAccounts ==
  ASSUME LifecycleTypeOK, NEW c \in Stops, StopStep(c),
         NEW e \in Engines, Accounted(e)
  PROVE  Accounted(e)'
<1>1. CASE TakeHandle(c)
  BY <1>1, CallAssumption
  DEF TakeHandle, Go, Accounted, Starting, LifecycleTypeOK, Calls, Engines
<1>2. CASE Shutdown(c)
  BY <1>2, CallAssumption
  DEF Shutdown, Go, Signal, Accounted, Starting, LifecycleTypeOK, Calls, Engines
<1>3. CASE DropEngine(c)
  BY <1>3, CallAssumption
  DEF DropEngine, Go, Accounted, Starting, LifecycleTypeOK, Calls, Engines
<1>. QED BY <1>1, <1>2, <1>3 DEF StopStep

LEMMA StepKeepsInv ==
  LifecycleInv /\ [LifecycleNext]_lifecycleVars => LifecycleInv'
<1> SUFFICES ASSUME LifecycleInv, [LifecycleNext]_lifecycleVars
             PROVE  LifecycleInv'
  OBVIOUS
<1>1. LifecycleTypeOK /\ \A p \in AllPorts : Accounted(bound[p])
  BY OrphanDef DEF LifecycleInv
<1>2. \A p \in AllPorts : bound[p] \in Engines
  BY <1>1 DEF LifecycleTypeOK
<1>3. ASSUME NEW g \in Starts, StartStep(g) PROVE LifecycleInv'
  <2>1. LifecycleTypeOK'
    BY <1>1, <1>3, StartKeepsTypes
  <2>2. ASSUME NEW p \in AllPorts PROVE Accounted(bound[p])'
    <3>1. CASE bound'[p] = bound[p]
      BY <1>1, <1>2, <1>3, <3>1, StartKeepsAccounts DEF Accounted
    <3>2. CASE bound'[p] # bound[p]
      <4>1. bound'[p] = g /\ pc'[g] = "spares"
        BY <1>1, <1>3, <3>2
        DEF StartStep, BindBase, BindSpare, SessionRecord, SessionFails,
            SetHandle, SetEngine, Go, LifecycleTypeOK, Calls
      <4>. QED BY <4>1 DEF Accounted, Starting
    <3>. QED BY <3>1, <3>2
  <2>. QED BY <2>1, <2>2 DEF LifecycleInv, NoOrphanEngine, Accounted
<1>4. ASSUME NEW c \in Stops, StopStep(c) PROVE LifecycleInv'
  <2>1. LifecycleTypeOK'
    BY <1>1, <1>4, StopKeepsTypes
  <2>2. bound' = bound
    BY <1>4 DEF StopStep, TakeHandle, Shutdown, DropEngine
  <2>3. \A p \in AllPorts : Accounted(bound[p])'
    BY <1>1, <1>2, <1>4, <2>2, StopKeepsAccounts DEF Accounted
  <2>. QED BY <2>1, <2>3 DEF LifecycleInv, NoOrphanEngine, Accounted
<1>5. CASE \E p \in AllPorts : LoopEnds(p)
  <2>1. LifecycleTypeOK'
    BY <1>1, <1>5, StopKeepsTypes
  <2>2. NoOrphanEngine'
    BY <1>1, <1>5 DEF LoopEnds, LifecycleTypeOK, NoOrphanEngine, Accounted, Starting
  <2>. QED BY <2>1, <2>2 DEF LifecycleInv
<1>6. CASE UNCHANGED lifecycleVars
  BY <1>6 DEF lifecycleVars, LifecycleInv, LifecycleTypeOK, NoOrphanEngine, Starting
<1>. QED BY <1>3, <1>4, <1>5, <1>6 DEF LifecycleNext

LEMMA LifecycleInvariance == LifecycleSpec => []LifecycleInv
<1>. QED BY LifecycleInitInv, StepKeepsInv, PTL DEF LifecycleSpec

(***************************************************************************)
(* The lifecycle's variables keep their types.                             *)
(***************************************************************************)
THEOREM LifecycleTypeCorrect == LifecycleSpec => []LifecycleTypeOK
<1>1. LifecycleInv => LifecycleTypeOK  BY DEF LifecycleInv
<1>. QED BY <1>1, LifecycleInvariance, PTL

(***************************************************************************)
(* An engine that accepts connections can be stopped, or is being started  *)
(* or stopped, for any number of overlapping calls and any ports.          *)
(***************************************************************************)
THEOREM NoEngineIsLost == LifecycleSpec => []NoOrphanEngine
<1>1. LifecycleInv => NoOrphanEngine  BY DEF LifecycleInv
<1>. QED BY <1>1, LifecycleInvariance, PTL

-----------------------------------------------------------------------------
(* Any number of processes may be started, quit and killed on one directory,  *)
(* and any number of command lines look for them: nobody takes a live socket  *)
(* away from its owner, and nobody opens the database behind its back.        *)
(* The lock is what orders everything: only its holder runs, and only its     *)
(* holder has a hand on the files.                                            *)
OwnersInv ==
    /\ \A p \in Procs : main[p] \in Living <=> lock = p
    /\ \A p \in Procs : binder[p] # "none" => lock = p
    /\ socket.live => socket.by \in Procs /\ lock = socket.by

(* Between its bind and its quit an instance has a live socket, and once it   *)
(* serves, control.json names it.                                             *)
ServingInv ==
    \A p \in Procs : main[p] = "up" =>
        /\ binder[p] \in {"publish", "serving"} => socket.live
        /\ binder[p] = "serving" => meta = p

(* A command line that never saw a moment without an instance has found one.  *)
GuestInv ==
    \A g \in Guests : guest[g].steady /\ guest[g].pc \in {"found", "direct"} =>
        guest[g].pc = "found" /\ \E p \in Procs : Published(p)

InstanceInv == InstanceTypeOK /\ OwnersInv /\ ServingInv /\ GuestInv

LEMMA InstanceInitInv == InstanceInit => InstanceInv
  BY NoOneAssumption DEF InstanceInit, InstanceInv, InstanceTypeOK, OwnersInv, ServingInv, GuestInv,
     NoSocket, Away, Living

-----------------------------------------------------------------------------
LEMMA GoneKeepsInv ==
  ASSUME InstanceInv, NEW p \in Procs, main[p] \in Living, Gone(p),
         meta' \in {meta, NoOne}, UNCHANGED desktop
  PROVE  InstanceInv'
<1>1. InstanceTypeOK'
  BY DEF InstanceInv, InstanceTypeOK, Gone, Unsteady, Living
<1>2. OwnersInv'
  BY NoOneAssumption DEF InstanceInv, InstanceTypeOK, OwnersInv, Gone, Living
<1>3. lock = p /\ \A q \in Procs : main'[q] # "up"
  BY DEF InstanceInv, InstanceTypeOK, OwnersInv, Gone, Living
<1>4. \A g \in Guests : ~guest'[g].steady
  BY DEF InstanceInv, InstanceTypeOK, Gone, Unsteady
<1>. QED BY <1>1, <1>2, <1>3, <1>4 DEF InstanceInv, ServingInv, GuestInv

LEMMA ProcessKeepsInv ==
  ASSUME InstanceInv, NEW p \in Procs,
         Start(p) \/ Binding(p) \/ Quit(p) \/ CleanupSocket(p) \/ Exit(p) \/ Killed(p)
  PROVE  InstanceInv'
<1>1. CASE Start(p)
  <2>1. InstanceTypeOK'
    BY <1>1 DEF Start, InstanceInv, InstanceTypeOK, Living
  <2>2. OwnersInv' /\ ServingInv'
    BY <1>1, NoOneAssumption DEF Start, InstanceInv, InstanceTypeOK, OwnersInv, ServingInv, Living
  <2>3. \A q \in Procs : Published(q) => Published(q)'
    BY <1>1, NoOneAssumption DEF Start, Published, InstanceInv, InstanceTypeOK, Living
  <2>. QED BY <1>1, <2>1, <2>2, <2>3 DEF Start, InstanceInv, GuestInv
<1>2. CASE ClearSocket(p) \/ ClearMeta(p) \/ Bind(p) \/ PublishEndpoint(p)
  <2>1. InstanceTypeOK'
    <3>1. NoSocket \in [by : Procs \cup {NoOne}, live : BOOLEAN]
      BY DEF NoSocket
    <3>2. CASE ClearSocket(p) \/ ClearMeta(p)
      BY <3>1, <3>2 DEF ClearSocket, ClearMeta, InstanceInv, InstanceTypeOK
    <3>3. CASE Bind(p)
      <4>1. [by |-> p, live |-> TRUE] \in [by : Procs \cup {NoOne}, live : BOOLEAN]
        OBVIOUS
      <4>2. socket' \in [by : Procs \cup {NoOne}, live : BOOLEAN]
        BY <3>3, <4>1 DEF Bind, InstanceInv, InstanceTypeOK
      <4>. QED BY <3>3, <4>2 DEF Bind, InstanceInv, InstanceTypeOK
    <3>4. CASE PublishEndpoint(p)
      BY <3>4 DEF PublishEndpoint, InstanceInv, InstanceTypeOK
    <3>. QED BY <1>2, <3>2, <3>3, <3>4
  <2>2. OwnersInv' /\ ServingInv'
    BY <1>2 DEF ClearSocket, ClearMeta, Bind, PublishEndpoint, NoSocket,
       InstanceInv, InstanceTypeOK, OwnersInv, ServingInv, Living
  <2>3. \A q \in Procs : Published(q) => Published(q)'
    BY <1>2 DEF ClearSocket, ClearMeta, Bind, PublishEndpoint, Published, InstanceInv, InstanceTypeOK
  <2>. QED BY <1>2, <2>1, <2>2, <2>3
       DEF ClearSocket, ClearMeta, Bind, PublishEndpoint, InstanceInv, GuestInv
<1>3. CASE Quit(p)
  <2>1. InstanceTypeOK'
    BY <1>3 DEF Quit, Unsteady, InstanceInv, InstanceTypeOK, Living
  <2>2. OwnersInv' /\ ServingInv'
    BY <1>3 DEF Quit, InstanceInv, InstanceTypeOK, OwnersInv, ServingInv, Living
  <2>3. \A g \in Guests : ~guest'[g].steady
    BY <1>3 DEF Quit, Unsteady, InstanceInv, InstanceTypeOK
  <2>. QED BY <2>1, <2>2, <2>3 DEF InstanceInv, GuestInv
<1>4. CASE CleanupSocket(p)
  <2>1. InstanceTypeOK'
    BY <1>4 DEF CleanupSocket, NoSocket, InstanceInv, InstanceTypeOK, Living
  <2>2. OwnersInv' /\ ServingInv'
    BY <1>4 DEF CleanupSocket, NoSocket, InstanceInv, InstanceTypeOK, OwnersInv, ServingInv, Living
  <2>3. \A q \in Procs : Published(q) => Published(q)'
    BY <1>4 DEF CleanupSocket, Published, InstanceInv, InstanceTypeOK
  <2>. QED BY <1>4, <2>1, <2>2, <2>3 DEF CleanupSocket, InstanceInv, GuestInv
<1>5. CASE Exit(p)
  BY <1>5, GoneKeepsInv DEF Exit, Living
<1>6. CASE Killed(p)
  BY <1>6, GoneKeepsInv DEF Killed
<1>. QED BY <1>1, <1>2, <1>3, <1>4, <1>5, <1>6 DEF Binding

LEMMA GuestKeepsInv ==
  ASSUME InstanceInv, NEW g \in Guests, Look(g) \/ ConnectTo(g) \/ Leave(g)
  PROVE  InstanceInv'
<1>1. InstanceTypeOK'
  <2>1. CASE Look(g)
    BY <2>1 DEF Look, InstanceInv, InstanceTypeOK
  <2>2. CASE ConnectTo(g)
    <3> DEFINE T == [pc : {"away", "found", "direct", "attached"}, peer : Procs \cup {NoOne}, steady : BOOLEAN]
    <3>1. guest[g] \in T /\ (socket.live => socket.by \in Procs)
      BY DEF InstanceInv, InstanceTypeOK, OwnersInv
    <3>2. (IF socket.live THEN [guest[g] EXCEPT !.pc = "attached", !.peer = socket.by]
           ELSE [guest[g] EXCEPT !.pc = "direct"]) \in T
      BY <3>1
    <3>. QED BY <2>2, <3>2 DEF ConnectTo, InstanceInv, InstanceTypeOK
  <2>3. CASE Leave(g)
    <3>1. Away \in [pc : {"away", "found", "direct", "attached"}, peer : Procs \cup {NoOne}, steady : BOOLEAN]
      BY DEF Away
    <3>. QED BY <2>3, <3>1 DEF Leave, InstanceInv, InstanceTypeOK
  <2>. QED BY <2>1, <2>2, <2>3
<1>2. OwnersInv' /\ ServingInv'
  BY DEF Look, ConnectTo, Leave, InstanceInv, OwnersInv, ServingInv
<1>3. \A p \in Procs : Published(p)' = Published(p)
  BY DEF Look, ConnectTo, Leave, Published
<1>4. \A p \in Procs : Published(p) => socket.live /\ meta = p
  BY DEF Published, InstanceInv, ServingInv
<1>5. GuestInv'
  <2>1. CASE Look(g)
    BY <1>3, <1>4, <2>1, NoOneAssumption DEF Look, InstanceInv, InstanceTypeOK, GuestInv
  <2>2. CASE ConnectTo(g)
    BY <1>3, <1>4, <2>2 DEF ConnectTo, InstanceInv, InstanceTypeOK, GuestInv
  <2>3. CASE Leave(g)
    BY <1>3, <2>3 DEF Leave, Away, InstanceInv, InstanceTypeOK, GuestInv
  <2>. QED BY <2>1, <2>2, <2>3
<1>. QED BY <1>1, <1>2, <1>5 DEF InstanceInv

LEMMA InstanceStepInv == InstanceInv /\ [InstanceNext]_instVars => InstanceInv'
<1>1. ASSUME InstanceInv, UNCHANGED instVars PROVE InstanceInv'
  BY <1>1 DEF instVars, InstanceInv, InstanceTypeOK, OwnersInv, ServingInv, GuestInv, Published
<1>. QED BY <1>1, ProcessKeepsInv, GuestKeepsInv DEF InstanceNext

LEMMA InstanceInvariance == InstanceSpec => []InstanceInv
<1>. QED BY InstanceInitInv, InstanceStepInv, PTL DEF InstanceSpec

-----------------------------------------------------------------------------
(* Lock, socket, control.json, processes and guests keep their types.         *)
THEOREM InstanceTypeCorrect == InstanceSpec => []InstanceTypeOK
<1>1. InstanceInv => InstanceTypeOK  BY DEF InstanceInv
<1>. QED BY <1>1, InstanceInvariance, PTL

(* A live socket goes only in a step of its owner: the holder of the lock.    *)
LEMMA OnlyTheOwnerTouches ==
  ASSUME InstanceInv, InstanceNext, socket.live, socket' # socket
  PROVE  main'[socket.by] # main[socket.by] \/ binder'[socket.by] # binder[socket.by]
<1>1. socket.by \in Procs /\ lock = socket.by
  BY DEF InstanceInv, OwnersInv
<1>2. PICK p \in Procs : Start(p) \/ Binding(p) \/ Quit(p) \/ CleanupSocket(p) \/ Exit(p) \/ Killed(p)
  BY DEF InstanceNext, Look, ConnectTo, Leave
<1>3. CASE ClearSocket(p) \/ Bind(p) \/ CleanupSocket(p)
  <2>1. p = socket.by
    BY <1>1, <1>3 DEF ClearSocket, Bind, CleanupSocket, InstanceInv, OwnersInv, Living
  <2>. QED BY <1>3, <2>1 DEF ClearSocket, Bind, CleanupSocket, InstanceInv, InstanceTypeOK
<1>4. CASE Exit(p) \/ Killed(p)
  <2>1. main[p] \in Living /\ Gone(p)
    BY <1>4 DEF Exit, Killed, Living
  <2>2. p = socket.by
    BY <1>1, <2>1 DEF InstanceInv, OwnersInv
  <2>. QED BY <2>1, <2>2 DEF Gone, InstanceInv, InstanceTypeOK, Living
<1>. QED BY <1>2, <1>3, <1>4 DEF Start, Binding, ClearMeta, PublishEndpoint, Quit

(* For any number of processes and command lines: nobody but its owner takes  *)
(* a live socket away, and a command line that goes to the database itself    *)
(* had a moment without an instance.                                          *)
THEOREM InstancesNeverCollide == InstanceSpec => InstancesCoexist
<1>1. InstanceInv => DirectOnlyAlone
  BY DEF InstanceInv, GuestInv, DirectOnlyAlone
<1>2. InstanceInv /\ [InstanceNext]_instVars =>
        [socket.live /\ socket' # socket =>
           main'[socket.by] # main[socket.by] \/ binder'[socket.by] # binder[socket.by]]_instVars
  BY OnlyTheOwnerTouches
<1>3. InstanceInv' => [DirectOnlyAlone']_instVars
  BY DEF InstanceInv, GuestInv, DirectOnlyAlone
<1>. QED BY <1>2, <1>3, InstanceInvariance, PTL
         DEF InstancesCoexist, LiveSocketIsKept, InstanceSpec

-----------------------------------------------------------------------------
(* However many starts and stops of one stream overlap, no adb logcat runs    *)
(* out of the table's reach.                                                  *)
(* Every attempt is counted against the cap before adb is spawned.            *)
AttemptsInv ==
    \A t \in Tasks : /\ task[t].pc = "spawn" => task[t].attempt <= MaxReconnects
                     /\ task[t].pc \in {"unborn", "stream"} => task[t].attempt = 0

\* The task of a start that is about to enter it in the table.
AboutToBeListed(t) == \E c \in Openers : starting[c].pc = "insert" /\ starting[c].task = t

(* A task that runs and was not told to stop is listed, or about to be.       *)
ListedInv == \A t \in Tasks : Alive(t) /\ ~task[t].told => t = sender \/ AboutToBeListed(t)

StreamInv == StreamTypeOK /\ AttemptsInv /\ ListedInv

LEMMA StreamInitInv == StreamInit => StreamInv
  BY ReconnectsAssumption
  DEF StreamInit, StreamInv, StreamTypeOK, TaskStates, AttemptsInv, ListedInv, Unborn, Calm, Alive

-----------------------------------------------------------------------------
\* What a task turns into in a step of its own.
LEMMA BecomesKeepsInv ==
  ASSUME StreamInv, NEW t \in Tasks, NEW r \in TaskStates, Becomes(t, r), dry' \in 0..MaxDry,
         r.pc = "spawn" => r.attempt <= MaxReconnects,
         r.pc \in {"unborn", "stream"} => r.attempt = 0,
         r.pc \in {"backoff", "spawn", "stream"} => Alive(t),
         r.told = task[t].told
  PROVE  StreamInv'
<1>1. StreamTypeOK'
  BY DEF Becomes, StreamInv, StreamTypeOK
<1>2. AttemptsInv'
  BY DEF Becomes, StreamInv, StreamTypeOK, AttemptsInv
<1>3. \A u \in Tasks : Alive(u)' /\ ~task'[u].told => Alive(u) /\ ~task[u].told
  BY DEF Becomes, Alive, StreamInv, StreamTypeOK
<1>4. ListedInv'
  BY <1>3 DEF Becomes, ListedInv, AboutToBeListed, StreamInv
<1>. QED BY <1>1, <1>2, <1>4 DEF StreamInv

LEMMA TaskKeepsInv ==
  ASSUME StreamInv, NEW t \in Tasks, Task(t)
  PROVE  StreamInv'
<1>. DEFINE own == task[t]
<1>1. own \in TaskStates /\ MaxReconnects \in Nat /\ MaxDry \in Nat /\ dry \in 0..MaxDry
  BY ReconnectsAssumption DEF StreamInv, StreamTypeOK
<1>2. /\ own.pc = "spawn" => own.attempt <= MaxReconnects
      /\ own.pc \in {"unborn", "stream"} => own.attempt = 0
  BY DEF StreamInv, AttemptsInv
<1>3. CASE ConnectAdb(t)
  <2>1. [own EXCEPT !.pc = "stream", !.attempt = 0] \in TaskStates
    <3>1. 0 \in 0..(MaxReconnects + 1)
      BY <1>1
    <3>. QED BY <1>1, <3>1 DEF TaskStates
  <2>2. dry' \in 0..MaxDry
    BY <1>1, <1>3 DEF ConnectAdb
  <2>. QED BY <1>1, <1>3, <2>1, <2>2, BecomesKeepsInv DEF ConnectAdb, Alive, TaskStates
<1>4. CASE SpawnFails(t)
  <2>1. own.attempt + 1 \in 0..(MaxReconnects + 1)
    BY <1>1, <1>2, <1>4 DEF SpawnFails, TaskStates
  <2>2. [own EXCEPT !.pc = "backoff", !.attempt = @ + 1] \in TaskStates
    BY <1>1, <2>1 DEF TaskStates
  <2>. QED BY <1>1, <1>4, <2>2, BecomesKeepsInv DEF SpawnFails, Alive, TaskStates
<1>5. CASE Line(t)
  <2>1. 1 - own.batch \in {0, 1}
    BY <1>1 DEF TaskStates
  <2>2. [own EXCEPT !.batch = 1 - @] \in TaskStates
    BY <1>1, <2>1 DEF TaskStates
  <2>. QED BY <1>1, <1>2, <1>5, <2>2, BecomesKeepsInv DEF Line, Alive, TaskStates
<1>6. CASE Eof(t)
  <2>1. own.attempt + 1 \in 0..(MaxReconnects + 1)
    BY <1>1, <1>2, <1>6 DEF Eof
  <2>2. [own EXCEPT !.pc = "backoff", !.attempt = @ + 1, !.batch = 0] \in TaskStates
    BY <1>1, <2>1 DEF TaskStates
  <2>. QED BY <1>1, <1>6, <2>2, BecomesKeepsInv DEF Eof, Alive, TaskStates
<1>7. CASE PauseOver(t)
  <2>. DEFINE next == IF own.attempt > MaxReconnects THEN "gaveUp" ELSE "spawn"
  <2>1. [own EXCEPT !.pc = next] \in TaskStates
    BY <1>1 DEF TaskStates
  <2>2. next = "spawn" => own.attempt <= MaxReconnects
    BY <1>1 DEF TaskStates
  <2>. QED BY <1>1, <1>7, <2>1, <2>2, BecomesKeepsInv DEF PauseOver, Alive, TaskStates
<1>8. CASE HearStop(t)
  <2>1. [own EXCEPT !.pc = "stopped", !.batch = 0] \in TaskStates
    BY <1>1 DEF TaskStates
  <2>. QED BY <1>1, <1>8, <2>1, BecomesKeepsInv DEF HearStop, TaskStates
<1>. QED BY <1>3, <1>4, <1>5, <1>6, <1>7, <1>8 DEF Task

-----------------------------------------------------------------------------
\* Telling a task, listed or not, only takes tasks off those that run.
LEMMA ToldKeepsTasks ==
  ASSUME StreamInv, NEW s \in Tasks, task' = Told(s)
  PROVE  /\ task' \in [Tasks -> TaskStates]
         /\ AttemptsInv'
         /\ \A t \in Tasks : Alive(t)' /\ ~task'[t].told => t # s /\ Alive(t) /\ ~task[t].told
<1>1. task \in [Tasks -> TaskStates]
  BY DEF StreamInv, StreamTypeOK
<1>2. [task[s] EXCEPT !.told = TRUE] \in TaskStates
  BY <1>1 DEF TaskStates
<1>3. task' \in [Tasks -> TaskStates]
  BY <1>1, <1>2 DEF Told
<1>. QED BY <1>1, <1>3 DEF Told, Alive, AttemptsInv, StreamInv, TaskStates

LEMMA StopKeepsInv ==
  ASSUME StreamInv, StopStream, window' \in {"closed", "open", "watched"}
  PROVE  StreamInv'
<1>1. sender \in Tasks
  BY ReconnectsAssumption DEF StopStream, StreamInv, StreamTypeOK, Tasks
<1>2. StreamTypeOK' /\ AttemptsInv'
  BY <1>1, ToldKeepsTasks, ReconnectsAssumption DEF StopStream, StreamInv, StreamTypeOK
<1>3. ListedInv'
  BY <1>1, ToldKeepsTasks DEF StopStream, StreamInv, ListedInv, AboutToBeListed
<1>. QED BY <1>2, <1>3 DEF StreamInv

LEMMA StartKeepsInv ==
  ASSUME StreamInv, NEW c \in Openers, Check(c) \/ SpawnTask(c) \/ NoAdb(c) \/ Insert(c)
  PROVE  StreamInv'
<1>1. CASE Check(c)
  <2>1. StreamTypeOK'
    BY <1>1 DEF Check, StreamInv, StreamTypeOK
  <2>. QED BY <1>1, <2>1 DEF Check, StreamInv, StreamTypeOK, AttemptsInv, ListedInv, AboutToBeListed, Alive
<1>2. CASE SpawnTask(c)
  <2>1. PICK n \in Tasks : n = NextTask /\ task[n].pc = "unborn"
    BY <1>2 DEF SpawnTask, NextTask
  <2>2. [task[n] EXCEPT !.pc = "spawn"] \in TaskStates
    BY <2>1 DEF StreamInv, StreamTypeOK, TaskStates
  <2>3. StreamTypeOK'
    BY <1>2, <2>1, <2>2, ReconnectsAssumption DEF SpawnTask, StreamInv, StreamTypeOK, Tasks
  <2>4. AttemptsInv'
    BY <1>2, <2>1, ReconnectsAssumption DEF SpawnTask, StreamInv, StreamTypeOK, AttemptsInv
  <2>5. starting' = [starting EXCEPT ![c] = [pc |-> "insert", task |-> n]]
    BY <1>2, <2>1 DEF SpawnTask
  <2>6. AboutToBeListed(n)'
    BY <2>5 DEF AboutToBeListed, StreamInv, StreamTypeOK
  <2>7. ASSUME NEW t \in Tasks, t # n, Alive(t)', ~task'[t].told PROVE t = sender' \/ AboutToBeListed(t)'
    <3>1. t = sender \/ AboutToBeListed(t)
      BY <1>2, <2>1, <2>7 DEF SpawnTask, StreamInv, StreamTypeOK, ListedInv, Alive
    <3>. QED BY <1>2, <2>5, <3>1 DEF SpawnTask, AboutToBeListed, StreamInv, StreamTypeOK
  <2>. QED BY <2>3, <2>4, <2>6, <2>7 DEF StreamInv, ListedInv
<1>3. CASE NoAdb(c)
  <2>1. StreamTypeOK'
    BY <1>3, ReconnectsAssumption DEF NoAdb, Calm, StreamInv, StreamTypeOK
  <2>. QED BY <1>3, <2>1 DEF NoAdb, Calm, StreamInv, StreamTypeOK, AttemptsInv, ListedInv, AboutToBeListed, Alive
<1>4. CASE Insert(c)
  <2>. DEFINE keeps == task' = task \/ (sender \in Tasks /\ task' = Told(sender))
  <2>1. keeps
    BY <1>4, ReconnectsAssumption DEF Insert, StreamInv, StreamTypeOK, Tasks
  <2>2. task' \in [Tasks -> TaskStates] /\ AttemptsInv'
    BY <2>1, ToldKeepsTasks DEF StreamInv, StreamTypeOK, AttemptsInv
  <2>3. StreamTypeOK'
    BY <1>4, <2>2, ReconnectsAssumption DEF Insert, Calm, StreamInv, StreamTypeOK
  <2>4. ASSUME NEW t \in Tasks, Alive(t)', ~task'[t].told PROVE t = sender' \/ AboutToBeListed(t)'
    <3>1. t # sender /\ Alive(t) /\ ~task[t].told
      BY <1>4, <2>1, <2>4, ToldKeepsTasks, ReconnectsAssumption DEF Insert, Alive, Tasks
    <3>2. AboutToBeListed(t)
      BY <3>1 DEF StreamInv, ListedInv
    <3>. QED BY <1>4, <3>2 DEF Insert, AboutToBeListed, StreamInv, StreamTypeOK
  <2>. QED BY <2>2, <2>3, <2>4 DEF StreamInv, ListedInv
<1>. QED BY <1>1, <1>2, <1>3, <1>4

LEMMA StreamStepInv == StreamInv /\ [StreamNext]_lsVars => StreamInv'
<1> SUFFICES ASSUME StreamInv, [StreamNext]_lsVars PROVE StreamInv'
  OBVIOUS
<1>1. CASE ShellStop
  BY <1>1, StopKeepsInv DEF ShellStop, StopStream, StreamInv, StreamTypeOK
<1>2. CASE CloseWindow
  <2>1. CASE StopStream
    BY <1>2, <2>1, StopKeepsInv DEF CloseWindow
  <2>2. CASE UNCHANGED <<sender, task, starting, dry>>
    BY <1>2, <2>2 DEF CloseWindow, StreamInv, StreamTypeOK, AttemptsInv, ListedInv, AboutToBeListed, Alive
  <2>. QED BY <1>2, <2>1, <2>2 DEF CloseWindow
<1>3. CASE UNCHANGED lsVars
  BY <1>3 DEF lsVars, StreamInv, StreamTypeOK, AttemptsInv, ListedInv, AboutToBeListed, Alive
<1>. QED BY <1>1, <1>2, <1>3, StartKeepsInv, TaskKeepsInv DEF StreamNext

LEMMA StreamInvariance == StreamSpec => []StreamInv
<1>. QED BY StreamInitInv, StreamStepInv, PTL DEF StreamSpec

-----------------------------------------------------------------------------
(* The table, the tasks and the window keep their types; no task ever counts  *)
(* more attempts than the cap and one.                                        *)
THEOREM StreamTypeCorrect == StreamSpec => []StreamTypeOK
<1>1. StreamInv => StreamTypeOK  BY DEF StreamInv
<1>. QED BY <1>1, StreamInvariance, PTL

(* For any number of command lines beside the window, and any number of       *)
(* streams: once no start is under way, at most the listed task runs.         *)
THEOREM NoStreamIsLost == StreamSpec => []RunningIsListed
<1>1. StreamInv => RunningIsListed
  BY DEF StreamInv, ListedInv, AboutToBeListed, RunningIsListed, RunningTasks
<1>. QED BY <1>1, StreamInvariance, PTL

-----------------------------------------------------------------------------
(***************************************************************************)
(* Capture of the host, for any number of callers and of network services: *)
(* until one of the three lapses befalls it, capture that is off has left  *)
(* the Mac as the user had it.  Beside the properties themselves the       *)
(* inductive invariant says who stands for each service that is not as the *)
(* user has it, and what the calls under way have in common.               *)
(***************************************************************************)
Setting     == {"set web", "set secure"}
PuttingBack == {"restore web", "restore secure"}

Places == {"rest", "trust", "snapshot", "set web", "set secure", "disable",
           "restore web", "restore secure"}

HostCalls == [at : Places, service : Services \cup {NoService}, saved : Saved, quits : BOOLEAN]

(***************************************************************************)
(* A call that touches a service has one to touch.                         *)
(***************************************************************************)
Aimed(e) == e.at \in {"snapshot"} \cup Setting \cup PuttingBack => e.service \in Services

HostTyped ==
  /\ HostTypeOK
  /\ \A c \in Callers : Aimed(call[c])
  /\ host_proxy # NoSnapshot => host_proxy.service \in Services

(***************************************************************************)
(* The calls under way pull one way, and on one service.                   *)
(***************************************************************************)
OneSide   == \A c, d \in Callers : ~(call[c].at \in Enabling /\ call[d].at \in Restoring)
OneTarget == \A s, t \in InUse \ {NoService} : s = t

SnapshotInv ==
  /\ host_proxy # NoSnapshot => host_proxy.saved = theirs[host_proxy.service]
  /\ sentinel => host_proxy # NoSnapshot

(***************************************************************************)
(* What a call under way has established, and what it holds in its hand.   *)
(***************************************************************************)
CallInv(e) ==
  /\ e.at \in Enabling => proxyRuns
  /\ e.at \in Setting => host_proxy # NoSnapshot
  /\ e.at \in PuttingBack => e.saved = theirs[e.service]
  /\ e.at = "restore secure" => system_proxy[e.service]["web"] = theirs[e.service]["web"]

(***************************************************************************)
(* Somebody holds what to put back on a service that is not as the user    *)
(* has it: the snapshot, or a call that is restoring.                      *)
(***************************************************************************)
Held(s) ==
  \/ system_proxy[s] = theirs[s]
  \/ host_proxy.service = s
  \/ \E c \in Callers : call[c].at \in PuttingBack /\ call[c].service = s

StoppedInv == ~proxyRuns /\ host_proxy # NoSnapshot => SomeoneIs({"disable"})

Running ==
  /\ OneSide /\ OneTarget /\ SnapshotInv /\ StoppedInv
  /\ \A c \in Callers : CallInv(call[c])
  /\ \A s \in Services : Held(s)

(***************************************************************************)
(* A channel is the user's or Pane's.                                      *)
(***************************************************************************)
Truthful == \A s \in Services, k \in Channels : system_proxy[s][k] \in {theirs[s][k], "pane"}

(***************************************************************************)
(* Nothing of this outlives the process.                                   *)
(***************************************************************************)
DownInv ==
  ~up => /\ ~proxyRuns /\ host_proxy = NoSnapshot /\ ~sentinel
         /\ \A c \in Callers : call[c] = Resting

HostInv ==
  /\ HostTyped /\ DownInv
  /\ theirs \in [Services -> [Channels -> {"off", "own"}]]
  /\ lapses = {} => Truthful /\ (up => Running)

-----------------------------------------------------------------------------
LEMMA HostConstructors ==
  /\ AllOff \in Saved /\ NoSnapshot \in Snapshots /\ Resting \in HostCalls
  /\ Resting.at = "rest" /\ Resting.service = NoService /\ NoSnapshot.service = NoService
  /\ Resting.saved \in Saved /\ Resting.quits = FALSE
  BY DEF AllOff, NoSnapshot, Resting, Saved, Settings, Channels, Snapshots, HostCalls, Places

LEMMA HostTypes ==
  ASSUME HostTyped
  PROVE  /\ call \in [Callers -> HostCalls] /\ host_proxy \in Snapshots
         /\ system_proxy \in [Services -> Saved] /\ theirs \in [Services -> Saved]
         /\ {proxyRuns, sentinel, up} \subseteq BOOLEAN /\ lapses \subseteq Lapses
  BY DEF HostTyped, HostTypeOK, HostCalls, Places

LEMMA TypesMeanTyped ==
  ASSUME call' \in [Callers -> HostCalls], host_proxy' \in Snapshots,
         system_proxy' \in [Services -> Saved], theirs' \in [Services -> Saved],
         {proxyRuns', sentinel', up'} \subseteq BOOLEAN, lapses' \subseteq Lapses,
         \A c \in Callers : Aimed(call'[c]),
         host_proxy' # NoSnapshot => host_proxy'.service \in Services
  PROVE  HostTyped'
  BY DEF HostTyped, HostTypeOK, HostCalls, Places, Snapshots, Aimed, Saved, Settings, Channels

LEMMA LapsesGrow ==
  ASSUME HostTyped, NEW what \in Lapses, NEW happens, Lapse(what, happens)
  PROVE  /\ lapses \subseteq lapses' /\ lapses' \subseteq Lapses
         /\ lapses' = {} => ~happens
  BY HostTypes DEF Lapse

(***************************************************************************)
(* The call of c becomes e and everybody else's stays.                     *)
(***************************************************************************)
LEMMA CallBecomes ==
  ASSUME HostTyped, NEW c \in Callers, NEW e \in HostCalls, call' = [call EXCEPT ![c] = e]
  PROVE  /\ call' \in [Callers -> HostCalls] /\ call'[c] = e
         /\ \A d \in Callers \ {c} : call'[d] = call[d]
         /\ Aimed(e) => \A d \in Callers : Aimed(call'[d])
<1>1. call \in [Callers -> HostCalls] /\ \A d \in Callers : Aimed(call[d])
  BY HostTypes DEF HostTyped
<1>2. /\ call' \in [Callers -> HostCalls] /\ call'[c] = e
      /\ \A d \in Callers \ {c} : call'[d] = call[d]
  BY <1>1
<1>3. Aimed(e) => \A d \in Callers : Aimed(call'[d])
  BY <1>1, <1>2
<1>. QED BY <1>2, <1>3

At(e, at) == [e EXCEPT !.at = at]

LEMMA GotoCall ==
  ASSUME HostTyped, NEW c \in Callers,
         NEW at \in Places,
         Goto(c, at)
  PROVE  /\ At(call[c], at) \in HostCalls /\ call' = [call EXCEPT ![c] = At(call[c], at)]
         /\ At(call[c], at).at = at /\ At(call[c], at).service = call[c].service
<1>1. call[c] \in HostCalls
  BY HostTypes
<1>2. At(call[c], at) \in HostCalls /\ At(call[c], at).at = at /\ At(call[c], at).service = call[c].service
  BY <1>1 DEF HostCalls, At
<1>3. call' = [call EXCEPT ![c] = At(call[c], at)]
  BY DEF Goto, At
<1>. QED BY <1>2, <1>3

(***************************************************************************)
(* The process is gone: with a kill, or after the exit handler.            *)
(***************************************************************************)
LEMMA GoneIsTyped ==
  ASSUME HostTyped, ProcessGone, system_proxy' \in [Services -> Saved], lapses' \subseteq Lapses
  PROVE  HostTyped'
<1>1. /\ call' = [c \in Callers |-> Resting] /\ host_proxy' = NoSnapshot /\ theirs' = theirs
      /\ proxyRuns' = FALSE /\ sentinel' = FALSE /\ up' = FALSE
  BY DEF ProcessGone
<1>2. call' \in [Callers -> HostCalls] /\ \A c \in Callers : Aimed(call'[c])
  BY <1>1, HostConstructors DEF Aimed, Setting, PuttingBack
<1>. QED BY <1>1, <1>2, HostConstructors, HostTypes, TypesMeanTyped

LEMMA FinishIsTyped ==
  ASSUME HostTyped, NEW c \in Callers, Finish(c), host_proxy' = host_proxy, theirs' = theirs,
         system_proxy' \in [Services -> Saved],
         {proxyRuns', sentinel', up'} \subseteq BOOLEAN, lapses' \subseteq Lapses
  PROVE  HostTyped'
<1>1. call' \in [Callers -> HostCalls] /\ \A d \in Callers : Aimed(call'[d])
  BY HostConstructors, CallBecomes DEF Finish, Aimed, Setting, PuttingBack
<1>. QED BY <1>1, HostTypes, TypesMeanTyped DEF HostTyped

LEMMA ReturnIsTyped ==
  ASSUME HostTyped, NEW c \in Callers, Returns(c),
         system_proxy' \in [Services -> Saved], lapses' \subseteq Lapses
  PROVE  HostTyped'
<1>1. CASE call[c].quits
  BY <1>1, GoneIsTyped DEF Returns
<1>2. CASE ~call[c].quits
  BY <1>2, HostTypes, FinishIsTyped DEF Returns
<1>. QED BY <1>1, <1>2

LEMMA GotoIsTyped ==
  ASSUME HostTyped, NEW c \in Callers,
         NEW at \in Places,
         Goto(c, at),
         at \in {"snapshot"} \cup Setting \cup PuttingBack => call[c].service \in Services,
         host_proxy' \in Snapshots, host_proxy' # NoSnapshot => host_proxy'.service \in Services,
         theirs' = theirs, system_proxy' \in [Services -> Saved],
         {proxyRuns', sentinel', up'} \subseteq BOOLEAN, lapses' \subseteq Lapses
  PROVE  HostTyped'
<1> DEFINE e == At(call[c], at)
<1>1. e \in HostCalls /\ call' = [call EXCEPT ![c] = e] /\ e.at = at /\ e.service = call[c].service
  BY GotoCall
<1>. HIDE DEF e
<1>2. Aimed(e)
  BY <1>1 DEF Aimed
<1>3. call' \in [Callers -> HostCalls] /\ \A d \in Callers : Aimed(call'[d])
  BY <1>1, <1>2, CallBecomes
<1>. QED BY <1>3, HostTypes, TypesMeanTyped

LEMMA PointIsTyped ==
  ASSUME HostTyped, NEW s \in Services, NEW k \in Channels, NEW to \in Settings, Point(s, k, to)
  PROVE  /\ system_proxy' \in [Services -> Saved]
         /\ system_proxy'[s][k] = to
         /\ \A t \in Services, j \in Channels :
              t # s \/ j # k => system_proxy'[t][j] = system_proxy[t][j]
<1> DEFINE v == [system_proxy[s] EXCEPT ![k] = to]
<1>1. system_proxy \in [Services -> Saved] /\ system_proxy[s] \in Saved
  BY HostTypes
<1>2. v \in Saved /\ v[k] = to /\ \A j \in Channels \ {k} : v[j] = system_proxy[s][j]
  BY <1>1 DEF Saved
<1>3. system_proxy' = [system_proxy EXCEPT ![s] = v]
  BY DEF Point
<1>. HIDE DEF v
<1>. QED BY <1>1, <1>2, <1>3

(***************************************************************************)
(* What a caller's step writes, with the types it has.                     *)
(***************************************************************************)
LEMMA CallerIsTyped ==
  ASSUME HostTyped, NEW c \in Callers,
         \/ Enable(c) \/ TrustCa(c) \/ TrustFails(c) \/ Snapshot(c) \/ ReadFails(c)
         \/ SetWeb(c) \/ SetSecure(c) \/ SetFails(c) \/ ProxyStop(c) \/ CallDisable(c)
         \/ TakeSnapshot(c) \/ NothingToDisable(c)
         \/ RestoreWeb(c) \/ RestoreSecure(c) \/ RestoreFails(c)
  PROVE  HostTyped'
<1>a. lapses' \subseteq Lapses
  <2>1. {"tool", "overlap", "route"} = Lapses
    BY DEF Lapses
  <2>2. CASE Enable(c) \/ ProxyStop(c) \/ CallDisable(c)
    BY <2>1, <2>2, LapsesGrow DEF Enable, ProxyStop, CallDisable
  <2>3. CASE TrustCa(c)
    BY <2>1, <2>3, LapsesGrow DEF TrustCa
  <2>4. CASE RestoreFails(c)
    BY <2>1, <2>4, LapsesGrow DEF RestoreFails
  <2>5. CASE TrustFails(c) \/ ReadFails(c) \/ SetFails(c)
    BY <2>5, HostTypes DEF TrustFails, ReadFails, SetFails, Ends
  <2>6. CASE Snapshot(c) \/ SetWeb(c) \/ SetSecure(c) \/ TakeSnapshot(c) \/ NothingToDisable(c)
             \/ RestoreWeb(c) \/ RestoreSecure(c)
    BY <2>6, HostTypes
       DEF Snapshot, SetWeb, SetSecure, TakeSnapshot, NothingToDisable, RestoreWeb, RestoreSecure
  <2>. QED BY <2>2, <2>3, <2>4, <2>5, <2>6
<1>0. /\ call[c] \in HostCalls /\ Aimed(call[c])
      /\ {"web", "secure"} \subseteq Channels /\ {"pane"} \subseteq Settings
  BY HostTypes DEF HostTyped, Channels, Settings
<1>1. CASE Enable(c)
  BY <1>a, <1>1, HostTypes, GotoIsTyped DEF HostTyped, Enable, Setting, PuttingBack, Places
<1>2. CASE ProxyStop(c)
  BY <1>a, <1>2, HostTypes, GotoIsTyped DEF HostTyped, ProxyStop, Setting, PuttingBack, Places
<1>3. CASE TrustFails(c) \/ ReadFails(c) \/ SetFails(c)
  BY <1>3, HostTypes, FinishIsTyped DEF TrustFails, ReadFails, SetFails, Ends
<1>4. CASE TrustCa(c)
  <2>1. PICK s \in Services : call' = [call EXCEPT ![c].at = "snapshot", ![c].service = s]
    BY <1>4 DEF TrustCa
  <2> DEFINE e == [call[c] EXCEPT !.at = "snapshot", !.service = s]
  <2>2. e \in HostCalls /\ Aimed(e)
    BY <1>0 DEF HostCalls, Places, Aimed
  <2>3. call' = [call EXCEPT ![c] = e]
    BY <2>1
  <2>. HIDE DEF e
  <2>4. call' \in [Callers -> HostCalls] /\ \A d \in Callers : Aimed(call'[d])
    BY <2>2, <2>3, CallBecomes
  <2>. QED BY <1>a, <1>4, <2>4, HostTypes, TypesMeanTyped DEF TrustCa, HostTyped
<1>5. CASE CallDisable(c)
  <2>1. PICK q \in BOOLEAN : call' = [call EXCEPT ![c].at = "disable", ![c].quits = q]
    BY <1>5 DEF CallDisable
  <2> DEFINE e == [call[c] EXCEPT !.at = "disable", !.quits = q]
  <2>2. e \in HostCalls /\ Aimed(e)
    BY <1>0 DEF HostCalls, Places, Aimed, Setting, PuttingBack
  <2>3. call' = [call EXCEPT ![c] = e]
    BY <2>1
  <2>. HIDE DEF e
  <2>4. call' \in [Callers -> HostCalls] /\ \A d \in Callers : Aimed(call'[d])
    BY <2>2, <2>3, CallBecomes
  <2>. QED BY <1>a, <1>5, <2>4, HostTypes, TypesMeanTyped DEF CallDisable, HostTyped
<1>6. CASE Snapshot(c)
  <2>1. call[c].service \in Services
    BY <1>0, <1>6 DEF Snapshot, Aimed
  <2>2. host_proxy' \in Snapshots /\ host_proxy'.service \in Services
    <3>1. [service |-> call[c].service, saved |-> system_proxy[call[c].service]] \in Snapshots
      BY <2>1, HostTypes DEF Snapshots
    <3>. QED BY <1>6, <2>1, <3>1, HostTypes DEF Snapshot, HostTyped
  <2>. QED BY <1>a, <1>6, <2>1, <2>2, HostTypes, GotoIsTyped DEF Snapshot, Places
<1>7. CASE SetWeb(c)
  <2>1. call[c].service \in Services
    BY <1>0, <1>7 DEF SetWeb, Aimed, Setting
  <2>. QED BY <1>0, <1>7, <2>1, HostTypes, PointIsTyped, GotoIsTyped DEF SetWeb, HostTyped, Places
<1>8. CASE SetSecure(c)
  <2>1. call[c].service \in Services
    BY <1>0, <1>8 DEF SetSecure, Aimed, Setting
  <2>. QED BY <1>0, <1>8, <2>1, HostTypes, PointIsTyped, FinishIsTyped DEF SetSecure
<1>9. CASE TakeSnapshot(c)
  <2> DEFINE e == [call[c] EXCEPT !.at = "restore web", !.service = host_proxy.service,
                                  !.saved = host_proxy.saved]
  <2>1. host_proxy.service \in Services /\ host_proxy.saved \in Saved
    BY <1>9, HostTypes DEF TakeSnapshot, HostTyped, Snapshots
  <2>2. e \in HostCalls /\ Aimed(e)
    BY <1>0, <2>1 DEF HostCalls, Places, Aimed
  <2>3. call' = [call EXCEPT ![c] = e]
    BY <1>9 DEF TakeSnapshot
  <2>. HIDE DEF e
  <2>4. call' \in [Callers -> HostCalls] /\ \A d \in Callers : Aimed(call'[d])
    BY <2>2, <2>3, CallBecomes
  <2>. QED BY <1>9, <2>4, HostTypes, HostConstructors, TypesMeanTyped DEF TakeSnapshot
<1>10. CASE NothingToDisable(c) \/ RestoreFails(c)
  BY <1>a, <1>10, HostTypes, ReturnIsTyped DEF NothingToDisable, RestoreFails
<1>11. CASE RestoreWeb(c)
  <2>1. call[c].service \in Services /\ call[c].saved["web"] \in Settings
    BY <1>0, <1>11 DEF RestoreWeb, Aimed, PuttingBack, HostCalls, Saved
  <2>. QED BY <1>0, <1>11, <2>1, HostTypes, PointIsTyped, GotoIsTyped
           DEF RestoreWeb, RestoreChannel, HostTyped, Places
<1>12. CASE RestoreSecure(c)
  <2>1. call[c].service \in Services /\ call[c].saved["secure"] \in Settings
    BY <1>0, <1>12 DEF RestoreSecure, Aimed, PuttingBack, HostCalls, Saved
  <2>. QED BY <1>0, <1>12, <2>1, HostTypes, PointIsTyped, ReturnIsTyped
           DEF RestoreSecure, RestoreChannel
<1>. QED BY <1>1, <1>2, <1>3, <1>4, <1>5, <1>6, <1>7, <1>8, <1>9, <1>10, <1>11, <1>12

LEMMA OffIsTyped ==
  ASSUME NEW setting \in [Services -> Saved], NEW s \in Services, NEW off
  PROVE  PutOff(setting, s, off) \in [Services -> Saved]
<1>1. [k \in Channels |-> IF k \in off THEN "off" ELSE setting[s][k]] \in Saved
  BY DEF Saved, Settings
<1>. QED BY <1>1 DEF PutOff

LEMMA HostTypeStep ==
  ASSUME HostTyped, [HostNext]_hostVars
  PROVE  HostTyped'
<1>1. CASE ProxyStart \/ UNCHANGED hostVars
  BY <1>1, HostTypes, TypesMeanTyped DEF ProxyStart, hostVars, HostTyped
<1>2. CASE Crash
  BY <1>2, HostTypes, GoneIsTyped DEF Crash
<1>3. CASE SelfHealOnStart
  <2>1. /\ system_proxy' \in [Services -> Saved] /\ theirs' \in [Services -> Saved]
        /\ lapses' \subseteq Lapses /\ up' = TRUE
        /\ UNCHANGED <<proxyRuns, host_proxy, sentinel, call>>
    <3>1. UNCHANGED <<proxyRuns, host_proxy, sentinel, call>> /\ up' = TRUE
      BY <1>3 DEF SelfHealOnStart
    <3>2. ASSUME NEW missed, NEW elsewhere, Healed(missed, elsewhere)
          PROVE  lapses' \subseteq Lapses
      BY <3>2, HostTypes DEF Healed, Lapses
    <3>3. ASSUME NEW s \in Services, SelfHeal(s)
          PROVE  /\ system_proxy' \in [Services -> Saved] /\ theirs' \in [Services -> Saved]
                 /\ lapses' \subseteq Lapses
      <4>1. PICK off, missed : Heal(s, off, missed)
        BY <3>3 DEF SelfHeal
      <4>. QED BY <3>2, <4>1, HostTypes, OffIsTyped DEF Heal
    <3>. QED BY <1>3, <3>1, <3>2, <3>3, HostTypes DEF SelfHealOnStart
  <2>. QED BY <2>1, HostTypes, TypesMeanTyped DEF HostTyped
<1>. QED BY <1>1, <1>2, <1>3, CallerIsTyped DEF HostNext

LEMMA HostInitTyped ==
  ASSUME HostInit
  PROVE  HostTyped
<1>1. theirs \in [Services -> Saved]
  BY DEF HostInit, Saved, Settings
<1>. QED BY <1>1, HostConstructors
     DEF HostInit, HostTyped, HostTypeOK, Aimed, Setting, PuttingBack, HostCalls

(***************************************************************************)
(* The state of "Capture this Mac" has its type, for any number of callers *)
(* and of network services, whatever tool fails and whenever Pane dies.    *)
(***************************************************************************)
THEOREM HostTypeCorrect == HostSpec => []HostTypeOK
<1>1. HostTyped => HostTypeOK
  BY DEF HostTyped
<1>. QED BY <1>1, HostInitTyped, HostTypeStep, PTL DEF HostSpec
-----------------------------------------------------------------------------
(***************************************************************************)
(* A step that only moves a caller, and touches no setting.                *)
(***************************************************************************)
Moves(c, e) ==
  /\ call' = [call EXCEPT ![c] = e]
  /\ UNCHANGED <<host_proxy, system_proxy, theirs, sentinel>>

LEMMA MoveKeepsInv ==
  ASSUME HostTyped, Truthful, Running, NEW c \in Callers, NEW e \in HostCalls, Moves(c, e),
         call[c].at \notin PuttingBack, e.at \notin PuttingBack,
         call[c].at = "disable" => host_proxy = NoSnapshot,
         e.at \in Enabling =>
           call[c].at \in Enabling \/ (proxyRuns /\ ~SomeoneIs(Restoring)),
         e.at \in Setting => host_proxy # NoSnapshot,
         e.at \in Restoring => ~SomeoneIs(Enabling),
         e.service # NoService => InUse \subseteq {e.service, NoService},
         proxyRuns' # proxyRuns => ~proxyRuns' /\ e.at = "disable"
  PROVE  Truthful' /\ Running'
<1>1. /\ call' \in [Callers -> HostCalls] /\ call'[c] = e
      /\ \A d \in Callers \ {c} : call'[d] = call[d]
  BY CallBecomes DEF Moves
<1>2. /\ Truthful' /\ SnapshotInv'
  BY DEF Moves, Running, Truthful, SnapshotInv
<1>3. OneSide'
  <2>1. ~(e.at \in Enabling /\ e.at \in Restoring)
    BY DEF Enabling, Restoring
  <2>2. ASSUME e.at \in Enabling
        PROVE  \A d \in Callers : call[d].at \notin Restoring
    BY <2>2 DEF Running, OneSide, SomeoneIs
  <2>3. ASSUME e.at \in Restoring
        PROVE  \A d \in Callers : call[d].at \notin Enabling
    BY <2>3 DEF SomeoneIs
  <2>. QED BY <1>1, <2>1, <2>2, <2>3 DEF Running, OneSide
<1>4. OneTarget'
  <2>1. InUse' \subseteq InUse \cup {e.service}
    BY <1>1 DEF InUse, Moves
  <2>. QED BY <2>1 DEF Running, OneTarget
<1>5. StoppedInv'
  <2>1. CASE e.at = "disable"
    BY <1>1, <2>1 DEF StoppedInv, SomeoneIs
  <2>2. CASE e.at # "disable"
    <3>1. proxyRuns' = proxyRuns /\ host_proxy' = host_proxy
      BY <2>2 DEF Moves
    <3>2. ASSUME ~proxyRuns, host_proxy # NoSnapshot
          PROVE  \E d \in Callers : call'[d].at = "disable"
      <4>1. PICK d \in Callers : call[d].at = "disable"
        BY <3>2 DEF Running, StoppedInv, SomeoneIs
      <4>. QED BY <1>1, <3>2, <4>1
    <3>. QED BY <3>1, <3>2 DEF StoppedInv, SomeoneIs
  <2>. QED BY <2>1, <2>2
<1>6. ASSUME NEW d \in Callers
      PROVE  CallInv(call[d])'
  <2>1. UNCHANGED <<host_proxy, system_proxy, theirs>>
    BY DEF Moves
  <2>2. CASE d = c
    <3>1. e.at \in Enabling => proxyRuns'
      BY DEF Running, CallInv, Enabling
    <3>. QED BY <1>1, <2>1, <2>2, <3>1 DEF CallInv, PuttingBack
  <2>3. CASE d # c
    <3>1. call'[d] = call[d] /\ CallInv(call[d])
      BY <1>1, <2>3 DEF Running
    <3>2. call[d].at \in Enabling => proxyRuns'
      BY <3>1 DEF CallInv, SomeoneIs, Restoring
    <3>. QED BY <2>1, <3>1, <3>2 DEF CallInv
  <2>. QED BY <2>2, <2>3
<1>7. ASSUME NEW s \in Services
      PROVE  Held(s)'
  <2>1. UNCHANGED <<host_proxy, system_proxy, theirs>> /\ Held(s)
    BY DEF Moves, Running
  <2>2. ASSUME NEW d \in Callers, call[d].at \in PuttingBack, call[d].service = s
        PROVE  \E x \in Callers : call'[x].at \in PuttingBack /\ call'[x].service = s
    BY <1>1, <2>2
  <2>. QED BY <2>1, <2>2 DEF Held
<1>. QED BY <1>2, <1>3, <1>4, <1>5, <1>6, <1>7 DEF Running

(***************************************************************************)
(* The moves: a call that begins, that finds its service, that gives up,   *)
(* and one that finds nothing to disable.                                  *)
(***************************************************************************)
LEMMA BeginningKeepsInv ==
  ASSUME HostTyped, Truthful, Running, lapses' = {}, NEW c \in Callers,
         Enable(c) \/ ProxyStop(c) \/ CallDisable(c)
  PROVE  Truthful' /\ Running'
<1>1. /\ call[c] = Resting /\ call[c] \in HostCalls /\ call[c].at = "rest" /\ call[c].service = NoService
      /\ {"tool", "overlap", "route"} = Lapses
  BY HostTypes, HostConstructors DEF Enable, ProxyStop, CallDisable, Lapses
<1>2. CASE Enable(c)
  <2>1. PICK e : e = At(call[c], "trust")
    OBVIOUS
  <2>2. /\ e \in HostCalls /\ call' = [call EXCEPT ![c] = e] /\ e.at = "trust" /\ e.service = NoService
    BY <1>1, <1>2, <2>1, GotoCall DEF Enable, Places
  <2>3. proxyRuns /\ ~SomeoneIs(Restoring) /\ proxyRuns' = proxyRuns /\ Moves(c, e)
    BY <1>1, <1>2, <2>2, LapsesGrow DEF Enable, Moves
  <2>. QED BY <1>1, <2>2, <2>3, MoveKeepsInv DEF Setting, PuttingBack, Restoring
<1>3. CASE ProxyStop(c)
  <2>1. PICK e : e = At(call[c], "disable")
    OBVIOUS
  <2>2. /\ e \in HostCalls /\ call' = [call EXCEPT ![c] = e] /\ e.at = "disable" /\ e.service = NoService
    BY <1>1, <1>3, <2>1, GotoCall DEF ProxyStop, Places
  <2>3. proxyRuns' = FALSE /\ ~SomeoneIs(Enabling) /\ Moves(c, e)
    BY <1>1, <1>3, <2>2, LapsesGrow DEF ProxyStop, Moves
  <2>. QED BY <1>1, <2>2, <2>3, MoveKeepsInv DEF Setting, PuttingBack, Enabling
<1>4. CASE CallDisable(c)
  <2>0. PICK q \in BOOLEAN : call' = [call EXCEPT ![c].at = "disable", ![c].quits = q]
    BY <1>4 DEF CallDisable
  <2>1. PICK e : e = [call[c] EXCEPT !.at = "disable", !.quits = q]
    OBVIOUS
  <2>2. e \in HostCalls /\ e.at = "disable" /\ e.service = NoService
    BY <1>1, <2>1 DEF HostCalls, Places
  <2>3. call' = [call EXCEPT ![c] = e]
    BY <2>0, <2>1
  <2>4. proxyRuns' = proxyRuns /\ ~SomeoneIs(Enabling) /\ Moves(c, e)
    BY <1>1, <1>4, <2>3, LapsesGrow DEF CallDisable, Moves
  <2>. QED BY <1>1, <2>2, <2>4, MoveKeepsInv DEF Setting, PuttingBack, Enabling
<1>. QED BY <1>2, <1>3, <1>4

LEMMA AimingKeepsInv ==
  ASSUME HostTyped, Truthful, Running, lapses' = {}, NEW c \in Callers, TrustCa(c)
  PROVE  Truthful' /\ Running'
<1>1. call[c] \in HostCalls /\ call[c].at = "trust" /\ "route" \in Lapses
  BY HostTypes DEF TrustCa, Lapses
<1>2. PICK s \in Services : /\ call' = [call EXCEPT ![c].at = "snapshot", ![c].service = s]
                            /\ Lapse("route", ~(InUse \subseteq {s, NoService}))
  BY DEF TrustCa
<1>3. PICK e : e = [call[c] EXCEPT !.at = "snapshot", !.service = s]
  OBVIOUS
<1>4. e \in HostCalls /\ e.at = "snapshot" /\ e.service = s
  BY <1>1, <1>3 DEF HostCalls, Places
<1>5. call' = [call EXCEPT ![c] = e]
  BY <1>2, <1>3
<1>6. InUse \subseteq {s, NoService}
  BY <1>1, <1>2, LapsesGrow
<1>7. Moves(c, e) /\ proxyRuns' = proxyRuns
  BY <1>5 DEF TrustCa, Moves
<1>. QED BY <1>1, <1>4, <1>6, <1>7, MoveKeepsInv DEF Enabling, Setting, PuttingBack, Restoring

LEMMA EndingKeepsInv ==
  ASSUME HostTyped, Truthful, Running, lapses' = {}, up', NEW c \in Callers,
         TrustFails(c) \/ ReadFails(c) \/ SetFails(c) \/ NothingToDisable(c)
  PROVE  Truthful' /\ Running'
<1>1. Moves(c, Resting) /\ proxyRuns' = proxyRuns
  <2>1. CASE TrustFails(c) \/ ReadFails(c) \/ SetFails(c)
    BY <2>1 DEF TrustFails, ReadFails, SetFails, Ends, Finish, Moves
  <2>2. CASE NothingToDisable(c)
    BY <2>2 DEF NothingToDisable, Returns, ProcessGone, Finish, Moves
  <2>. QED BY <2>1, <2>2
<1>2. call[c].at \notin PuttingBack /\ (call[c].at = "disable" => host_proxy = NoSnapshot)
  BY DEF TrustFails, ReadFails, SetFails, NothingToDisable, PuttingBack
<1>. QED BY <1>1, <1>2, HostConstructors, MoveKeepsInv
     DEF Enabling, Setting, PuttingBack, Restoring

(***************************************************************************)
(* The steps that touch a setting or the snapshot: a call goes on, on the  *)
(* side and on the service it was on.                                      *)
(***************************************************************************)
LEMMA GoesOn ==
  ASSUME HostTyped, Running, NEW c \in Callers, NEW e \in HostCalls, call' = [call EXCEPT ![c] = e],
         e.at \in Enabling => call[c].at \in Enabling,
         e.at \in Restoring => call[c].at \in Restoring,
         InUse' \subseteq InUse \cup {NoService}
  PROVE  OneSide' /\ OneTarget'
<1>1. call'[c] = e /\ \A d \in Callers \ {c} : call'[d] = call[d]
  BY CallBecomes
<1>. QED BY <1>1 DEF Running, OneSide, OneTarget

LEMMA SnapshotKeepsInv ==
  ASSUME HostTyped, Truthful, Running, lapses' = {}, NEW c \in Callers, Snapshot(c)
  PROVE  Truthful' /\ Running'
<1> DEFINE s == call[c].service
<1>1. /\ call[c] \in HostCalls /\ call[c].at = "snapshot" /\ s \in Services
      /\ NoService \notin Services
  BY HostTypes, HostAssumption DEF Snapshot, HostTyped, Aimed
<1>2. PICK e : e = At(call[c], "set web")
  OBVIOUS
<1>3. e \in HostCalls /\ call' = [call EXCEPT ![c] = e] /\ e.at = "set web" /\ e.service = s
  BY <1>2, GotoCall DEF Snapshot, Places
<1>4. CASE host_proxy # NoSnapshot
  <2>1. Moves(c, e) /\ proxyRuns' = proxyRuns
    BY <1>3, <1>4 DEF Snapshot, Moves
  <2>2. InUse \subseteq {s, NoService}
    BY <1>1 DEF Running, OneTarget, InUse
  <2>. QED BY <1>1, <1>3, <1>4, <2>1, <2>2, MoveKeepsInv DEF Enabling, PuttingBack, Restoring
<1>5. CASE host_proxy = NoSnapshot
  <2>1. PICK seen : seen = [service |-> s, saved |-> system_proxy[s]]
    OBVIOUS
  <2>2. /\ host_proxy' = seen /\ seen.service = s /\ seen.saved = system_proxy[s]
        /\ UNCHANGED <<proxyRuns, system_proxy, theirs, sentinel>>
    BY <1>5, <2>1 DEF Snapshot
  <2>3. seen # NoSnapshot /\ host_proxy.service = NoService
    BY <1>1, <1>5, <2>2, HostConstructors
  <2>4. /\ call'[c] = e /\ \A d \in Callers \ {c} : call'[d] = call[d]
        /\ proxyRuns /\ \A d \in Callers : call[d].at \notin Restoring
    BY <1>1, <1>3, CallBecomes DEF Running, CallInv, OneSide, Enabling
  <2>5. InUse' \subseteq InUse
    BY <1>3, <2>2, <2>4 DEF InUse
  <2>6. OneSide' /\ OneTarget'
    BY <1>1, <1>3, <2>5, GoesOn DEF Enabling, Restoring
  <2>7. \A t \in Services : system_proxy[t] = theirs[t]
    BY <1>1, <2>3, <2>4 DEF Running, Held, Restoring, PuttingBack
  <2>8. SnapshotInv' /\ StoppedInv' /\ Truthful'
    BY <1>1, <2>2, <2>3, <2>4, <2>7 DEF SnapshotInv, StoppedInv, Truthful
  <2>9. ASSUME NEW d \in Callers PROVE CallInv(call[d])'
    <3>1. call'[d].at \notin PuttingBack
      BY <1>3, <2>4 DEF Restoring, PuttingBack
    <3>2. proxyRuns' /\ host_proxy' # NoSnapshot
      BY <2>2, <2>3, <2>4
    <3>. QED BY <3>1, <3>2 DEF CallInv, PuttingBack
  <2>10. \A t \in Services : Held(t)'
    BY <2>2, <2>7 DEF Held
  <2>. QED BY <2>6, <2>8, <2>9, <2>10 DEF Running
<1>. QED BY <1>4, <1>5

LEMMA SetKeepsInv ==
  ASSUME HostTyped, Truthful, Running, NEW c \in Callers, SetWeb(c) \/ SetSecure(c)
  PROVE  Truthful' /\ Running'
<1> DEFINE s == call[c].service
<1>1. /\ call[c] \in HostCalls /\ call[c].at \in Setting /\ call[c].at \in Enabling
      /\ s \in Services /\ NoService \notin Services /\ "pane" \in Settings
  BY HostTypes, HostAssumption DEF SetWeb, SetSecure, HostTyped, Aimed, Setting, Enabling, Settings
<1>2. /\ proxyRuns /\ host_proxy # NoSnapshot /\ host_proxy.service = s
      /\ \A d \in Callers : call[d].at \notin Restoring
  <2>1. proxyRuns /\ host_proxy # NoSnapshot /\ host_proxy.service \in Services
    BY <1>1 DEF Running, CallInv, HostTyped
  <2>2. host_proxy.service = s
    BY <1>1, <2>1 DEF Running, OneTarget, InUse
  <2>. QED BY <1>1, <2>1, <2>2 DEF Running, OneSide
<1>3. /\ UNCHANGED <<proxyRuns, host_proxy, theirs>> /\ (sentinel' => sentinel \/ host_proxy # NoSnapshot)
      /\ \E k \in Channels : Point(s, k, "pane")
  BY <1>2 DEF SetWeb, SetSecure, Channels
<1>4. /\ \A t \in Services, k \in Channels : system_proxy'[t][k] \in {system_proxy[t][k], "pane"}
      /\ system_proxy' \in [Services -> Saved]
      /\ \A t \in Services \ {s}, k \in Channels : system_proxy'[t][k] = system_proxy[t][k]
  BY <1>1, <1>3, PointIsTyped
<1>5. PICK e \in HostCalls : /\ call' = [call EXCEPT ![c] = e]
                            /\ \/ e.at = "set secure" /\ e.service = s
                               \/ e = Resting
  <2>1. CASE SetWeb(c)
    <3>1. PICK e : e = At(call[c], "set secure")
      OBVIOUS
    <3>. QED BY <2>1, <3>1, GotoCall DEF SetWeb, Places
  <2>2. CASE SetSecure(c)
    BY <2>2, HostConstructors DEF SetSecure, Finish
  <2>. QED BY <2>1, <2>2
<1>6. e.at \in {"set secure", "rest"} /\ e.service \in {s, NoService}
  BY <1>5, HostConstructors
<1>7. call'[c] = e /\ \A d \in Callers \ {c} : call'[d] = call[d]
  BY <1>5, CallBecomes
<1>8. InUse' \subseteq InUse \cup {NoService}
  BY <1>3, <1>6, <1>7 DEF InUse
<1>9. OneSide' /\ OneTarget'
  BY <1>1, <1>5, <1>6, <1>8, GoesOn DEF Enabling, Restoring
<1>10. Truthful' /\ SnapshotInv' /\ StoppedInv'
  BY <1>2, <1>3, <1>4 DEF Running, Truthful, SnapshotInv, StoppedInv
<1>11. ASSUME NEW d \in Callers PROVE CallInv(call[d])'
  BY <1>2, <1>3, <1>6, <1>7 DEF Running, CallInv, Restoring, PuttingBack
<1>12. ASSUME NEW t \in Services PROVE Held(t)'
  <2>1. CASE t = s
    BY <1>2, <1>3, <2>1 DEF Held
  <2>2. CASE t # s
    <3>1. system_proxy[t] = theirs[t]
      BY <1>2, <2>2 DEF Running, Held, Restoring, PuttingBack
    <3>2. system_proxy'[t] = system_proxy[t]
      BY <1>4, <2>2, HostTypes DEF Saved
    <3>. QED BY <1>3, <3>1, <3>2 DEF Held
  <2>. QED BY <2>1, <2>2
<1>. QED BY <1>9, <1>10, <1>11, <1>12 DEF Running

(***************************************************************************)
(* disable: the snapshot goes into the hand of one call, which puts the    *)
(* two channels back.                                                      *)
(***************************************************************************)
LEMMA TakeKeepsInv ==
  ASSUME HostTyped, Truthful, Running, NEW c \in Callers, TakeSnapshot(c)
  PROVE  Truthful' /\ Running'
<1> DEFINE s == host_proxy.service
<1>1. /\ call[c] \in HostCalls /\ call[c].at = "disable" /\ s \in Services
      /\ host_proxy.saved = theirs[s] /\ host_proxy \in Snapshots
  BY HostTypes DEF TakeSnapshot, HostTyped, Running, SnapshotInv
<1>2. PICK e : e = [call[c] EXCEPT !.at = "restore web", !.service = s, !.saved = host_proxy.saved]
  OBVIOUS
<1>3. /\ e \in HostCalls /\ e.at = "restore web" /\ e.service = s /\ e.saved = theirs[s]
  BY <1>1, <1>2 DEF HostCalls, Places, Snapshots
<1>4. call' = [call EXCEPT ![c] = e]
  BY <1>2 DEF TakeSnapshot
<1>5. /\ UNCHANGED <<proxyRuns, system_proxy, theirs>>
      /\ host_proxy' = NoSnapshot /\ sentinel' = FALSE
  BY DEF TakeSnapshot
<1>6. call'[c] = e /\ \A d \in Callers \ {c} : call'[d] = call[d]
  BY <1>3, <1>4, CallBecomes
<1>7. InUse' \subseteq InUse \cup {NoService}
  BY <1>3, <1>5, <1>6, HostConstructors DEF InUse
<1>8. OneSide' /\ OneTarget'
  BY <1>1, <1>3, <1>4, <1>7, GoesOn DEF Enabling, Restoring
<1>9. Truthful' /\ SnapshotInv' /\ StoppedInv'
  BY <1>5 DEF Truthful, SnapshotInv, StoppedInv
<1>10. ASSUME NEW d \in Callers PROVE CallInv(call[d])'
  <2>1. \A x \in Callers : call[x].at \notin Setting
    BY <1>1 DEF Running, OneSide, Enabling, Setting, Restoring
  <2>. QED BY <1>3, <1>5, <1>6, <2>1 DEF Running, CallInv, Setting, Enabling, PuttingBack
<1>11. ASSUME NEW t \in Services PROVE Held(t)'
  <2>1. e.at \in PuttingBack /\ call[c].at \notin PuttingBack
    BY <1>1, <1>3 DEF PuttingBack
  <2>2. Held(t)
    BY DEF Running
  <2>3. CASE t = s
    BY <1>3, <1>6, <2>1, <2>3 DEF Held
  <2>4. CASE t # s
    BY <1>5, <1>6, <2>1, <2>2, <2>4 DEF Held
  <2>. QED BY <2>3, <2>4
<1>. QED BY <1>8, <1>9, <1>10, <1>11 DEF Running

(***************************************************************************)
(* What putting a channel back does to what is the user's.                 *)
(***************************************************************************)
LEMMA PutBack ==
  ASSUME HostTyped, Truthful, Running, NEW c \in Callers, call[c].at \in PuttingBack,
         NEW k \in Channels, RestoreChannel(c, k), theirs' = theirs
  PROVE  /\ system_proxy' \in [Services -> Saved] /\ Truthful'
         /\ system_proxy'[call[c].service][k] = theirs[call[c].service][k]
         /\ \A t \in Services, j \in Channels :
              t # call[c].service \/ j # k => system_proxy'[t][j] = system_proxy[t][j]
<1> DEFINE s == call[c].service
<1>1. s \in Services /\ call[c].saved = theirs[s]
  BY DEF HostTyped, Aimed, Running, CallInv
<1>2. theirs[s][k] \in Settings
  BY <1>1, HostTypes DEF Saved
<1>3. Point(s, k, theirs[s][k])
  BY <1>1 DEF RestoreChannel
<1>4. /\ system_proxy' \in [Services -> Saved] /\ system_proxy'[s][k] = theirs[s][k]
      /\ \A t \in Services, j \in Channels : t # s \/ j # k => system_proxy'[t][j] = system_proxy[t][j]
  BY <1>1, <1>2, <1>3, PointIsTyped
<1>5. Truthful'
  BY <1>4 DEF Truthful
<1>. QED BY <1>4, <1>5

LEMMA RestoreWebKeepsInv ==
  ASSUME HostTyped, Truthful, Running, NEW c \in Callers, RestoreWeb(c)
  PROVE  Truthful' /\ Running'
<1> DEFINE s == call[c].service
<1>1. /\ call[c] \in HostCalls /\ call[c].at = "restore web" /\ s \in Services
      /\ call[c].at \in PuttingBack /\ call[c].at \in Restoring /\ "web" \in Channels
  BY HostTypes DEF RestoreWeb, HostTyped, Aimed, PuttingBack, Restoring, Channels
<1>2. UNCHANGED <<proxyRuns, host_proxy, theirs, sentinel>> /\ RestoreChannel(c, "web")
  BY DEF RestoreWeb
<1>3. PICK e : e = At(call[c], "restore secure")
  OBVIOUS
<1>4. /\ e \in HostCalls /\ call' = [call EXCEPT ![c] = e] /\ e.at = "restore secure" /\ e.service = s
      /\ e.saved = call[c].saved
  BY <1>1, <1>3, GotoCall DEF RestoreWeb, Places, At, HostCalls
<1>5. call'[c] = e /\ \A d \in Callers \ {c} : call'[d] = call[d]
  BY <1>4, CallBecomes
<1>6. InUse' \subseteq InUse
  BY <1>2, <1>4, <1>5 DEF InUse
<1>7. OneSide' /\ OneTarget'
  BY <1>1, <1>4, <1>6, GoesOn DEF Enabling
<1>8. /\ Truthful' /\ system_proxy' \in [Services -> Saved] /\ system_proxy'[s]["web"] = theirs[s]["web"]
      /\ \A t \in Services, j \in Channels : t # s \/ j # "web" => system_proxy'[t][j] = system_proxy[t][j]
  BY <1>1, <1>2, PutBack
<1>9. SnapshotInv'
  BY <1>2 DEF Running, SnapshotInv
<1>10. StoppedInv'
  BY <1>1, <1>2, <1>5 DEF Running, StoppedInv, SomeoneIs
<1>11. ASSUME NEW d \in Callers PROVE CallInv(call[d])'
  <2>1. CASE d = c
    <3>1. e.saved = theirs[s]
      BY <1>1, <1>4 DEF Running, CallInv
    <3>2. call'[d] = e /\ e.at \notin Enabling /\ e.at \notin Setting
      BY <1>4, <1>5, <2>1 DEF Setting, Enabling
    <3>. QED BY <1>2, <1>4, <1>8, <3>1, <3>2 DEF CallInv
  <2>2. CASE d # c
    <3>1. call'[d] = call[d] /\ CallInv(call[d])
      BY <1>5, <2>2 DEF Running
    <3>2. call[d].at = "restore secure" =>
            call[d].service \in Services /\ "web" \in Channels
      BY DEF HostTyped, Aimed, PuttingBack, Channels
    <3>3. call[d].at = "restore secure" =>
            system_proxy'[call[d].service]["web"] = theirs[call[d].service]["web"]
      BY <1>8, <3>1, <3>2 DEF CallInv
    <3>. QED BY <1>2, <3>1, <3>3 DEF CallInv
  <2>. QED BY <2>1, <2>2
<1>12. ASSUME NEW t \in Services PROVE Held(t)'
  <2>1. e.at \in PuttingBack
    BY <1>4 DEF PuttingBack
  <2>2. CASE t = s
    BY <1>4, <1>5, <2>1, <2>2 DEF Held
  <2>3. CASE t # s
    <3>1. system_proxy'[t] = system_proxy[t]
      BY <1>8, <2>3, HostTypes DEF Saved
    <3>. QED BY <1>2, <1>4, <1>5, <2>3, <3>1 DEF Running, Held
  <2>. QED BY <2>2, <2>3
<1>. QED BY <1>7, <1>8, <1>9, <1>10, <1>11, <1>12 DEF Running

LEMMA RestoreSecureKeepsInv ==
  ASSUME HostTyped, Truthful, Running, up', NEW c \in Callers, RestoreSecure(c)
  PROVE  Truthful' /\ Running'
<1> DEFINE s == call[c].service
<1>1. /\ call[c] \in HostCalls /\ call[c].at = "restore secure" /\ s \in Services
      /\ call[c].at \in PuttingBack /\ call[c].at \in Restoring /\ Channels = {"web", "secure"}
  BY HostTypes DEF RestoreSecure, HostTyped, Aimed, PuttingBack, Restoring, Channels
<1>2. UNCHANGED <<proxyRuns, host_proxy, theirs, sentinel>> /\ RestoreChannel(c, "secure")
  BY DEF RestoreSecure, Returns, ProcessGone
<1>3. /\ Resting \in HostCalls /\ call' = [call EXCEPT ![c] = Resting]
      /\ Resting.at = "rest" /\ Resting.service = NoService
  BY HostConstructors DEF RestoreSecure, Returns, ProcessGone, Finish
<1>4. call'[c] = Resting /\ \A d \in Callers \ {c} : call'[d] = call[d]
  BY <1>3, CallBecomes
<1>5. InUse' \subseteq InUse \cup {NoService}
  BY <1>2, <1>3, <1>4 DEF InUse
<1>6. OneSide' /\ OneTarget'
  BY <1>3, <1>5, GoesOn DEF Enabling, Restoring
<1>7. /\ Truthful' /\ system_proxy' \in [Services -> Saved] /\ system_proxy'[s]["secure"] = theirs[s]["secure"]
      /\ \A t \in Services, j \in Channels : t # s \/ j # "secure" => system_proxy'[t][j] = system_proxy[t][j]
  BY <1>1, <1>2, PutBack
<1>8. SnapshotInv'
  BY <1>2 DEF Running, SnapshotInv
<1>9. StoppedInv'
  BY <1>1, <1>2, <1>4 DEF Running, StoppedInv, SomeoneIs
<1>10. ASSUME NEW d \in Callers PROVE CallInv(call[d])'
  <2>1. CASE d = c
    BY <1>3, <1>4, <2>1 DEF CallInv, Setting, Enabling, PuttingBack
  <2>2. CASE d # c
    <3>1. call'[d] = call[d] /\ CallInv(call[d])
      BY <1>4, <2>2 DEF Running
    <3>2. call[d].at = "restore secure" => call[d].service \in Services
      BY DEF HostTyped, Aimed, PuttingBack
    <3>3. call[d].at = "restore secure" =>
            system_proxy'[call[d].service]["web"] = theirs[call[d].service]["web"]
      BY <1>1, <1>7, <3>1, <3>2 DEF CallInv
    <3>. QED BY <1>2, <3>1, <3>3 DEF CallInv
  <2>. QED BY <2>1, <2>2
<1>11. ASSUME NEW t \in Services PROVE Held(t)'
  <2>1. CASE t = s
    <3>1. system_proxy'[s]["web"] = theirs[s]["web"]
      BY <1>1, <1>7 DEF Running, CallInv
    <3>2. system_proxy'[s] = theirs[s]
      <4>1. system_proxy'[s] \in [Channels -> Settings] /\ theirs[s] \in [Channels -> Settings]
        BY <1>1, <1>7, HostTypes DEF Saved
      <4>2. \A k \in Channels : system_proxy'[s][k] = theirs[s][k]
        BY <1>1, <1>7, <3>1
      <4>. QED BY <4>1, <4>2
    <3>. QED BY <1>2, <2>1, <3>2 DEF Held
  <2>2. CASE t # s
    <3>1. system_proxy'[t] = system_proxy[t]
      BY <1>7, <2>2, HostTypes DEF Saved
    <3>. QED BY <1>2, <1>4, <2>2, <3>1 DEF Running, Held
  <2>. QED BY <2>1, <2>2
<1>. QED BY <1>6, <1>7, <1>8, <1>9, <1>10, <1>11 DEF Running

(***************************************************************************)
(* What is not a caller's: a start of the proxy, a kill, the next start.   *)
(***************************************************************************)
LEMMA ProxyStartKeepsInv ==
  ASSUME HostTyped, Truthful, Running, ProxyStart
  PROVE  Truthful' /\ Running'
<1>1. UNCHANGED <<host_proxy, system_proxy, theirs, sentinel, call>> /\ proxyRuns' = TRUE
  BY DEF ProxyStart
<1>2. Truthful' /\ OneSide' /\ OneTarget' /\ SnapshotInv' /\ StoppedInv'
  BY <1>1 DEF Running, Truthful, OneSide, OneTarget, InUse, SnapshotInv, StoppedInv
<1>3. \A c \in Callers : CallInv(call[c])'
  BY <1>1 DEF Running, CallInv
<1>4. \A s \in Services : Held(s)'
  BY <1>1 DEF Running, Held
<1>. QED BY <1>2, <1>3, <1>4 DEF Running

(***************************************************************************)
(* A step that ends the process leaves what is set to the next start.      *)
(***************************************************************************)
LEMMA DeathKeepsInv ==
  ASSUME HostInv, HostTyped', ProcessGone, lapses' = {} => Truthful'
  PROVE  HostInv'
<1>1. DownInv' /\ theirs' = theirs /\ ~up'
  BY DEF ProcessGone, DownInv
<1>. QED BY <1>1 DEF HostInv

(***************************************************************************)
(* A process that starts and leaves no lapse behind has made every service *)
(* what the user has: the one it looked at, and there was no other.        *)
(***************************************************************************)
LEMMA PutOffBoth ==
  ASSUME HostTyped, NEW s \in Services,
         PutOff(system_proxy, s, Channels) = system_proxy',
         PutOff(theirs, s, Channels) = theirs'
  PROVE  /\ system_proxy'[s] = theirs'[s]
         /\ \A t \in Services \ {s} : system_proxy'[t] = system_proxy[t] /\ theirs'[t] = theirs[t]
  BY HostTypes DEF PutOff

LEMMA PutOffNothing ==
  ASSUME NEW setting \in [Services -> Saved], NEW s \in Services
  PROVE  PutOff(setting, s, {}) = setting
<1>1. setting[s] \in [Channels -> Settings]
  BY DEF Saved
<1>2. [k \in Channels |-> IF k \in {} THEN "off" ELSE setting[s][k]] = setting[s]
  BY <1>1
<1>. QED BY <1>2 DEF PutOff

LEMMA HealingHeals ==
  ASSUME HostTyped, lapses = {} => Truthful, lapses' = {}, SelfHealOnStart
  PROVE  system_proxy' = theirs'
<1>. SUFFICES ASSUME system_proxy' # theirs'
              PROVE  FALSE
  OBVIOUS
<1>1. \A missed, elsewhere : Healed(missed, elsewhere) => lapses = {} /\ ~missed /\ ~elsewhere
  BY DEF Healed
<1>2. PICK s \in Services : SelfHeal(s)
  BY <1>1 DEF SelfHealOnStart
<1>3. PICK seen \in SUBSET Channels, obey \in SUBSET Channels :
        Heal(s, IF PointsAtPane(s, seen) THEN obey ELSE {}, {seen, obey} # {Channels})
  BY <1>2 DEF SelfHeal
<1>4. lapses = {} /\ seen = Channels /\ obey = Channels
  BY <1>1, <1>3 DEF Heal
<1>5. \A t \in Services \ {s} : ~PointsAtPane(t, Channels)
  BY <1>1, <1>3 DEF Heal
<1>6. ASSUME NEW t \in Services, ~PointsAtPane(t, Channels)
      PROVE  system_proxy[t] = theirs[t]
  <2>1. system_proxy[t] \in [Channels -> Settings] /\ theirs[t] \in [Channels -> Settings]
    BY HostTypes DEF Saved
  <2>2. \A k \in Channels : system_proxy[t][k] = theirs[t][k]
    BY <1>4, <1>6 DEF Truthful, PointsAtPane
  <2>. QED BY <2>1, <2>2
<1>7. system_proxy' \in [Services -> Saved] /\ theirs' \in [Services -> Saved]
  BY <1>3, OffIsTyped, HostTypes DEF Heal
<1>8. CASE PointsAtPane(s, Channels)
  <2>1. system_proxy' = PutOff(system_proxy, s, Channels) /\ theirs' = PutOff(theirs, s, Channels)
    BY <1>3, <1>4, <1>8 DEF Heal
  <2>2. \A t \in Services : system_proxy'[t] = theirs'[t]
    BY <1>5, <1>6, <2>1, PutOffBoth
  <2>. QED BY <1>7, <2>2
<1>9. CASE ~PointsAtPane(s, Channels)
  <2>1. system_proxy' = PutOff(system_proxy, s, {}) /\ theirs' = PutOff(theirs, s, {})
    BY <1>3, <1>4, <1>9 DEF Heal
  <2>2. system_proxy' = system_proxy /\ theirs' = theirs
    BY <2>1, PutOffNothing, HostTypes
  <2>3. \A t \in Services : system_proxy[t] = theirs[t]
    BY <1>5, <1>6, <1>9
  <2>. QED BY <1>7, <2>2, <2>3
<1>. QED BY <1>8, <1>9

LEMMA HealingKeepsTheirs ==
  ASSUME SelfHealOnStart, theirs \in [Services -> [Channels -> {"off", "own"}]]
  PROVE  theirs' \in [Services -> [Channels -> {"off", "own"}]]
<1>1. ASSUME NEW s \in Services, NEW off
      PROVE  PutOff(theirs, s, off) \in [Services -> [Channels -> {"off", "own"}]]
  <2>1. [k \in Channels |-> IF k \in off THEN "off" ELSE theirs[s][k]] \in [Channels -> {"off", "own"}]
    OBVIOUS
  <2>. QED BY <2>1 DEF PutOff
<1>2. CASE \E s \in Services : SelfHeal(s)
  <2>1. PICK s \in Services, off \in SUBSET Channels, missed \in BOOLEAN : Heal(s, off, missed)
    BY <1>2 DEF SelfHeal
  <2>. QED BY <1>1, <2>1 DEF Heal
<1>3. CASE theirs' = theirs
  BY <1>3
<1>. QED BY <1>2, <1>3 DEF SelfHealOnStart

LEMMA HealingKeepsInv ==
  ASSUME HostInv, HostTyped', SelfHealOnStart
  PROVE  HostInv'
<1>1. /\ ~up /\ up' /\ UNCHANGED <<proxyRuns, host_proxy, sentinel, call>>
      /\ ~proxyRuns /\ host_proxy = NoSnapshot /\ ~sentinel
      /\ \A c \in Callers : call[c] = Resting
  BY DEF SelfHealOnStart, HostInv, DownInv
<1>2. theirs' \in [Services -> [Channels -> {"off", "own"}]]
  BY HealingKeepsTheirs DEF HostInv
<1>3. ASSUME lapses' = {} PROVE Truthful' /\ Running'
  <2>1. system_proxy' = theirs'
    BY <1>3, HealingHeals DEF HostInv
  <2>2. Truthful' /\ \A s \in Services : Held(s)'
    BY <2>1 DEF Truthful, Held
  <2>3. OneSide' /\ OneTarget' /\ SnapshotInv' /\ StoppedInv'
    BY <1>1, HostConstructors
    DEF OneSide, OneTarget, InUse, SnapshotInv, StoppedInv, Enabling
  <2>4. \A c \in Callers : CallInv(call[c])'
    BY <1>1, HostConstructors DEF CallInv, Enabling, Setting, PuttingBack
  <2>. QED BY <2>2, <2>3, <2>4 DEF Running
<1>4. DownInv'
  BY <1>1 DEF DownInv
<1>. QED BY <1>2, <1>3, <1>4 DEF HostInv

-----------------------------------------------------------------------------
LEMMA BusyIsUp ==
  ASSUME HostInv, NEW c \in Callers, call[c] # Resting
  PROVE  up
  BY DEF HostInv, DownInv

LEMMA CallerKeepsInv ==
  ASSUME HostInv, HostTyped', NEW c \in Callers,
         \/ Enable(c) \/ TrustCa(c) \/ TrustFails(c) \/ Snapshot(c) \/ ReadFails(c)
         \/ SetWeb(c) \/ SetSecure(c) \/ SetFails(c) \/ ProxyStop(c) \/ CallDisable(c)
         \/ TakeSnapshot(c) \/ NothingToDisable(c)
         \/ RestoreWeb(c) \/ RestoreSecure(c) \/ RestoreFails(c)
  PROVE  HostInv'
<1>1. up
  <2>1. CASE Enable(c) \/ ProxyStop(c) \/ CallDisable(c)
    BY <2>1 DEF Enable, ProxyStop, CallDisable
  <2>2. CASE TrustCa(c) \/ TrustFails(c) \/ Snapshot(c) \/ ReadFails(c) \/ SetWeb(c)
             \/ SetSecure(c) \/ SetFails(c) \/ TakeSnapshot(c) \/ NothingToDisable(c)
             \/ RestoreWeb(c) \/ RestoreSecure(c) \/ RestoreFails(c)
    <3>1. call[c].at # "rest"
      BY <2>2 DEF TrustCa, TrustFails, Snapshot, ReadFails, SetWeb, SetSecure, SetFails,
                  TakeSnapshot, NothingToDisable, RestoreWeb, RestoreSecure, RestoreFails
    <3>. QED BY <3>1, BusyIsUp, HostConstructors
  <2>. QED BY <2>1, <2>2
<1>2. theirs' = theirs
  <2>1. CASE NothingToDisable(c) \/ RestoreSecure(c) \/ RestoreFails(c)
    BY <2>1 DEF NothingToDisable, RestoreSecure, RestoreFails, Returns, ProcessGone
  <2>2. CASE TrustFails(c) \/ ReadFails(c) \/ SetFails(c)
    BY <2>2 DEF TrustFails, ReadFails, SetFails, Ends
  <2>3. CASE Enable(c) \/ TrustCa(c) \/ Snapshot(c) \/ SetWeb(c) \/ SetSecure(c)
             \/ ProxyStop(c) \/ CallDisable(c) \/ TakeSnapshot(c) \/ RestoreWeb(c)
    BY <2>3 DEF Enable, TrustCa, Snapshot, SetWeb, SetSecure, ProxyStop, CallDisable,
                TakeSnapshot, RestoreWeb
  <2>. QED BY <2>1, <2>2, <2>3
<1>3. lapses' = {} => lapses = {} /\ ~RestoreFails(c)
  <2>0. "tool" \in Lapses /\ "overlap" \in Lapses /\ "route" \in Lapses /\ HostTyped
    BY DEF Lapses, HostInv
  <2>1. CASE Enable(c) \/ ProxyStop(c) \/ CallDisable(c)
    <3>1. lapses \subseteq lapses'
      BY <2>0, <2>1, LapsesGrow DEF Enable, ProxyStop, CallDisable
    <3>2. ~RestoreFails(c)
      BY <2>1, HostConstructors DEF Enable, ProxyStop, CallDisable, RestoreFails
    <3>. QED BY <3>1, <3>2
  <2>2. CASE TrustCa(c)
    <3>1. lapses \subseteq lapses'
      BY <2>0, <2>2, LapsesGrow DEF TrustCa
    <3>2. ~RestoreFails(c)
      BY <2>2 DEF TrustCa, RestoreFails
    <3>. QED BY <3>1, <3>2
  <2>3. CASE RestoreFails(c)
    BY <2>3 DEF RestoreFails, Lapse
  <2>4. CASE ~RestoreFails(c) /\ lapses' = lapses
    BY <2>4
  <2>5. CASE TrustFails(c) \/ ReadFails(c) \/ SetFails(c)
    BY <2>4, <2>3, <2>5 DEF TrustFails, ReadFails, SetFails, Ends
  <2>6. CASE Snapshot(c) \/ SetWeb(c) \/ SetSecure(c) \/ TakeSnapshot(c)
             \/ NothingToDisable(c) \/ RestoreWeb(c) \/ RestoreSecure(c)
    BY <2>3, <2>4, <2>6
       DEF Snapshot, SetWeb, SetSecure, TakeSnapshot, NothingToDisable, RestoreWeb, RestoreSecure
  <2>. QED BY <2>1, <2>2, <2>3, <2>5, <2>6
<1>4. ASSUME lapses' = {}, up'
      PROVE  Truthful' /\ Running'
  <2>1. HostTyped /\ Truthful /\ Running /\ ~RestoreFails(c)
    BY <1>1, <1>3, <1>4 DEF HostInv
  <2>. QED BY <1>4, <2>1, BeginningKeepsInv, AimingKeepsInv, EndingKeepsInv, SnapshotKeepsInv,
              SetKeepsInv, TakeKeepsInv, RestoreWebKeepsInv, RestoreSecureKeepsInv
<1>5. CASE up'
  BY <1>2, <1>4, <1>5 DEF HostInv, DownInv
<1>6. CASE ~up'
  <2>1. NothingToDisable(c) \/ RestoreSecure(c) \/ RestoreFails(c)
    BY <1>1, <1>6 DEF Enable, TrustCa, TrustFails, Snapshot, ReadFails, SetWeb, SetSecure, SetFails,
                      ProxyStop, CallDisable, TakeSnapshot, RestoreWeb, Ends
  <2>2. ProcessGone
    BY <1>1, <1>6, <2>1 DEF NothingToDisable, RestoreSecure, RestoreFails, Returns
  <2>3. ASSUME lapses' = {} PROVE Truthful'
    <3>1. HostTyped /\ Truthful /\ Running /\ ~RestoreFails(c)
      BY <1>1, <1>3, <2>3 DEF HostInv
    <3>2. CASE NothingToDisable(c)
      BY <1>2, <3>1, <3>2 DEF NothingToDisable, Truthful
    <3>3. CASE RestoreSecure(c)
      BY <1>2, <3>1, <3>3, PutBack DEF RestoreSecure, PuttingBack, Channels
    <3>. QED BY <2>1, <3>1, <3>2, <3>3
  <2>. QED BY <2>2, <2>3, DeathKeepsInv
<1>. QED BY <1>5, <1>6

LEMMA HostStepInv ==
  ASSUME HostInv, [HostNext]_hostVars
  PROVE  HostInv'
<1>1. HostTyped'
  BY HostTypeStep DEF HostInv
<1>2. CASE UNCHANGED hostVars
  <2>1. UNCHANGED <<proxyRuns, host_proxy, system_proxy, theirs, lapses, sentinel, call, up>>
    BY <1>2 DEF hostVars
  <2>2. DownInv => DownInv'
    BY <2>1 DEF DownInv
  <2>3. Truthful => Truthful'
    BY <2>1 DEF Truthful
  <2>4. Running => OneSide' /\ OneTarget' /\ SnapshotInv' /\ StoppedInv'
    BY <2>1 DEF Running, OneSide, OneTarget, InUse, SnapshotInv, StoppedInv, SomeoneIs
  <2>5. Running => \A c \in Callers : CallInv(call[c])'
    BY <2>1 DEF Running, CallInv
  <2>6. Running => \A s \in Services : Held(s)'
    BY <2>1 DEF Running, Held
  <2>7. Running => Running'
    BY <2>4, <2>5, <2>6 DEF Running
  <2>. QED BY <1>1, <2>1, <2>2, <2>3, <2>7 DEF HostInv
<1>3. CASE ProxyStart
  <2>1. UNCHANGED <<theirs, lapses, up>> /\ up
    BY <1>3 DEF ProxyStart
  <2>2. lapses' = {} => Truthful' /\ Running'
    BY <1>3, <2>1, ProxyStartKeepsInv DEF HostInv
  <2>. QED BY <1>1, <2>1, <2>2 DEF HostInv, DownInv
<1>4. CASE Crash
  <2>1. ProcessGone /\ UNCHANGED <<system_proxy, lapses, theirs>>
    BY <1>4 DEF Crash, ProcessGone
  <2>2. lapses' = {} => Truthful'
    BY <2>1 DEF HostInv, Truthful
  <2>. QED BY <1>1, <2>1, <2>2, DeathKeepsInv
<1>5. CASE SelfHealOnStart
  BY <1>1, <1>5, HealingKeepsInv
<1>. QED BY <1>1, <1>2, <1>3, <1>4, <1>5, CallerKeepsInv DEF HostNext

LEMMA HostInitInv ==
  ASSUME HostInit
  PROVE  HostInv
<1>1. HostTyped /\ up /\ theirs \in [Services -> [Channels -> {"off", "own"}]]
  BY HostInitTyped DEF HostInit
<1>2. \A c \in Callers : call[c] = Resting
  BY DEF HostInit
<1>3. /\ host_proxy = NoSnapshot /\ system_proxy = theirs /\ ~sentinel
  BY DEF HostInit
<1>4. Truthful /\ SnapshotInv /\ StoppedInv /\ \A s \in Services : Held(s)
  BY <1>3 DEF Truthful, SnapshotInv, StoppedInv, Held
<1>5. OneSide /\ OneTarget /\ \A c \in Callers : CallInv(call[c])
  BY <1>2, <1>3, HostConstructors
     DEF OneSide, OneTarget, InUse, CallInv, Enabling, Setting, PuttingBack
<1>. QED BY <1>1, <1>4, <1>5 DEF HostInv, DownInv, Running

(***************************************************************************)
(* The invariant of "Capture this Mac", for any number of callers and of   *)
(* network services: while no tool has failed to put a channel back, no    *)
(* enabling call has overlapped a restoring one and the default route has  *)
(* stayed, somebody stands for every service that is not as the user has   *)
(* it, and nobody has anything but the user's own settings in his hand     *)
(* (host_proxy.rs).                                                        *)
(***************************************************************************)
THEOREM HostInvariant == HostSpec => []HostInv
<1>. QED BY HostInitInv, HostStepInv, PTL DEF HostSpec

THEOREM SnapshotsAreTheirs == HostSpec => []SnapshotIsTheirs
<1>1. ASSUME HostInv PROVE SnapshotIsTheirs
  <2>. SUFFICES ASSUME host_proxy # NoSnapshot, lapses = {}
                PROVE  host_proxy.saved = theirs[host_proxy.service]
    BY DEF SnapshotIsTheirs
  <2>1. up
    BY <1>1 DEF HostInv, DownInv
  <2>. QED BY <1>1, <2>1 DEF HostInv, Running, SnapshotInv
<1>. QED BY <1>1, HostInvariant, PTL

(***************************************************************************)
(* With nothing under way and no lapse, only the snapshot can stand for a  *)
(* service.                                                                *)
(***************************************************************************)
LEMMA QuietIsTheirs ==
  ASSUME HostInv, NothingUnderWay, lapses = {}
  PROVE  /\ Truthful /\ Running
         /\ host_proxy = NoSnapshot => system_proxy = theirs /\ ~sentinel
<1>1. up /\ Truthful /\ Running /\ HostTyped
  BY DEF NothingUnderWay, HostInv
<1>2. \A c \in Callers : call[c].at = "rest"
  BY HostConstructors DEF NothingUnderWay
<1>3. ASSUME host_proxy = NoSnapshot PROVE system_proxy = theirs /\ ~sentinel
  <2>1. \A s \in Services : system_proxy[s] = theirs[s]
    BY <1>1, <1>2, <1>3, HostConstructors, HostAssumption DEF Running, Held, PuttingBack
  <2>2. system_proxy = theirs
    BY <1>1, <2>1, HostTypes
  <2>. QED BY <1>1, <1>3, <2>2 DEF Running, SnapshotInv
<1>. QED BY <1>1, <1>3

THEOREM NobodyStranded == HostSpec => []NotStranded
<1>1. ASSUME HostInv PROVE NotStranded
  <2>. SUFFICES ASSUME NothingUnderWay, ~proxyRuns, lapses = {},
                       NEW s \in Services, NEW k \in Channels
                PROVE  system_proxy[s][k] # "pane"
    BY DEF NotStranded, PointsNowhere, PointsAtPane
  <2>1. host_proxy = NoSnapshot
    BY <1>1, QuietIsTheirs, HostConstructors
       DEF Running, StoppedInv, SomeoneIs, NothingUnderWay
  <2>2. system_proxy[s][k] = theirs[s][k]
    BY <1>1, <2>1, QuietIsTheirs
  <2>3. theirs[s][k] \in {"off", "own"}
    BY <1>1 DEF HostInv
  <2>. QED BY <2>2, <2>3
<1>. QED BY <1>1, HostInvariant, PTL

THEOREM HostLeftClean == HostSpec => []HostIsLeftClean
<1>1. ASSUME HostInv PROVE HostIsLeftClean
  BY <1>1, QuietIsTheirs DEF HostIsLeftClean
<1>. QED BY <1>1, HostInvariant, PTL
=============================================================================
