------------------------------ MODULE Instance ------------------------------
(* Who owns a data directory, and how a command line finds it: the advisory   *)
(* lock of pane-core/lock.rs, the socket and control.json of                  *)
(* pane-control/discovery.rs and server.rs, which outlive a process that is   *)
(* killed, and the client that tries the socket before it opens the database  *)
(* itself.  The desktop app binds in a task beside its main loop, so it may   *)
(* be quit while it binds; pane serve and pane proxy run bind first.          *)
EXTENDS FiniteSets

CONSTANTS
    Procs,     \* processes started on the directory
    Guests,    \* command lines
    NoOne

ASSUME NoOneAssumption == NoOne \notin Procs

VARIABLES
    lock,      \* who holds instance.lock
    socket,    \* control.sock: [by, live], by is NoOne when there is no file
    meta,      \* control.json: who wrote it
    main,      \* Procs -> "down", "refused", "up", "quitting", "wiped"
    binder,    \* Procs -> "none", "clear", "clearMeta", "bind", "publish", "serving", "failed"
    desktop,   \* the processes that are the desktop app
    guest      \* Guests -> [pc, peer, steady]

instVars == <<lock, socket, meta, main, binder, desktop, guest>>

NoSocket == [by |-> NoOne, live |-> FALSE]
Away     == [pc |-> "away", peer |-> NoOne, steady |-> FALSE]

Published(p) == main[p] = "up" /\ binder[p] = "serving"

Living == {"up", "quitting", "wiped"}

InstanceTypeOK ==
    /\ lock \in Procs \cup {NoOne}
    /\ socket \in [by : Procs \cup {NoOne}, live : BOOLEAN]
    /\ meta \in Procs \cup {NoOne}
    /\ main \in [Procs -> {"down", "refused"} \cup Living]
    /\ binder \in [Procs -> {"none", "clear", "clearMeta", "bind", "publish", "serving", "failed"}]
    /\ desktop \subseteq Procs
    /\ guest \in [Guests -> [pc : {"away", "found", "direct", "attached"}, peer : Procs \cup {NoOne}, steady : BOOLEAN]]

----------------------------------------------------------------------------
Unsteady == [g \in Guests |-> [guest[g] EXCEPT !.steady = FALSE]]

\* mutant: the leftovers are cleared before the lock is asked for
StartClearingFirst(p) ==
    /\ main[p] \in {"down", "refused"}
    /\ \E d \in BOOLEAN : desktop' = IF d THEN desktop \cup {p} ELSE desktop \ {p}
    /\ IF lock = NoOne
       THEN lock' = p /\ main' = [main EXCEPT ![p] = "up"] /\ binder' = [binder EXCEPT ![p] = "clear"]
       ELSE main' = [main EXCEPT ![p] = "refused"] /\ UNCHANGED <<lock, binder>>
    /\ socket' = NoSocket
    /\ UNCHANGED <<meta, guest>>

(* Core::bootstrap takes the lock or gives up, before anything else.  The     *)
(* desktop app may be told not to bind (PANE_CONTROL=off).                    *)
Start(p) ==
    /\ main[p] \in {"down", "refused"}
    /\ \E d \in BOOLEAN : desktop' = IF d THEN desktop \cup {p} ELSE desktop \ {p}
    /\ IF lock = NoOne
       THEN /\ lock' = p /\ main' = [main EXCEPT ![p] = "up"]
            /\ \E b \in IF p \in desktop' THEN {"clear", "none"} ELSE {"clear"} : binder' = [binder EXCEPT ![p] = b]
       ELSE main' = [main EXCEPT ![p] = "refused"] /\ UNCHANGED <<lock, binder>>
    /\ UNCHANGED <<socket, meta, guest>>

(* clear_stale: the socket, whoever answers on it, then control.json.         *)
ClearSocket(p) ==
    /\ binder[p] = "clear"
    /\ socket' = NoSocket
    /\ binder' = [binder EXCEPT ![p] = "clearMeta"]
    /\ UNCHANGED <<lock, meta, main, desktop, guest>>

ClearMeta(p) ==
    /\ binder[p] = "clearMeta"
    /\ meta' = NoOne
    /\ binder' = [binder EXCEPT ![p] = "bind"]
    /\ UNCHANGED <<lock, socket, main, desktop, guest>>

(* bind_endpoint: a socket that answers is left alone, a dead one replaced.   *)
Bind(p) ==
    /\ binder[p] = "bind"
    /\ IF socket.live
       THEN binder' = [binder EXCEPT ![p] = "failed"] /\ UNCHANGED socket
       ELSE binder' = [binder EXCEPT ![p] = "publish"] /\ socket' = [by |-> p, live |-> TRUE]
    /\ UNCHANGED <<lock, meta, main, desktop, guest>>

PublishEndpoint(p) ==
    /\ binder[p] = "publish"
    /\ meta' = p
    /\ binder' = [binder EXCEPT ![p] = "serving"]
    /\ UNCHANGED <<lock, socket, main, desktop, guest>>

\* mutant: the lock is dropped before the files are removed
QuitReleasing(p) ==
    /\ main[p] = "up"
    /\ p \in desktop \/ binder[p] = "serving"
    /\ main' = [main EXCEPT ![p] = "quitting"]
    /\ guest' = Unsteady
    /\ lock' = NoOne
    /\ UNCHANGED <<socket, meta, binder, desktop>>

(* The app is quit; a foreground instance is told to stop once it is ready.   *)
Quit(p) ==
    /\ main[p] = "up"
    /\ p \in desktop \/ binder[p] = "serving"
    /\ main' = [main EXCEPT ![p] = "quitting"]
    /\ guest' = Unsteady
    /\ UNCHANGED <<lock, socket, meta, binder, desktop>>

CleanupSocket(p) ==
    /\ main[p] = "quitting"
    /\ socket' = NoSocket
    /\ main' = [main EXCEPT ![p] = "wiped"]
    /\ UNCHANGED <<lock, meta, binder, desktop, guest>>

(* The process is gone: the kernel closes its listener and drops its lock,    *)
(* the files stay.                                                            *)
Gone(p) ==
    /\ lock' = NoOne
    /\ main' = [main EXCEPT ![p] = "down"]
    /\ binder' = [binder EXCEPT ![p] = "none"]
    /\ socket' = IF socket.by = p THEN [socket EXCEPT !.live = FALSE] ELSE socket
    /\ guest' = Unsteady

Exit(p) ==
    /\ main[p] = "wiped"
    /\ Gone(p)
    /\ meta' = NoOne
    /\ UNCHANGED desktop

(* Killed, or a foreground start that fails after it bound (boot returns the  *)
(* error without a cleanup).                                                  *)
Killed(p) ==
    /\ main[p] \in Living
    /\ Gone(p)
    /\ UNCHANGED <<meta, desktop>>

----------------------------------------------------------------------------
(* Session::open. *)
Look(g) ==
    /\ guest[g].pc = "away"
    /\ guest' = [guest EXCEPT ![g] = [pc |-> IF meta = NoOne THEN "direct" ELSE "found", peer |-> NoOne,
                                      steady |-> \E p \in Procs : Published(p)]]
    /\ UNCHANGED <<lock, socket, meta, main, binder, desktop>>

ConnectTo(g) ==
    /\ guest[g].pc = "found"
    /\ guest' = [guest EXCEPT ![g] = IF socket.live THEN [@ EXCEPT !.pc = "attached", !.peer = socket.by]
                                     ELSE [@ EXCEPT !.pc = "direct"]]
    /\ UNCHANGED <<lock, socket, meta, main, binder, desktop>>

(* The command is over.  *)
Leave(g) ==
    /\ guest[g].pc \in {"direct", "attached"}
    /\ guest' = [guest EXCEPT ![g] = Away]
    /\ UNCHANGED <<lock, socket, meta, main, binder, desktop>>

----------------------------------------------------------------------------
InstanceInit ==
    /\ lock = NoOne /\ socket = NoSocket /\ meta = NoOne
    /\ main = [p \in Procs |-> "down"]
    /\ binder = [p \in Procs |-> "none"]
    /\ desktop = {}
    /\ guest = [g \in Guests |-> Away]

Binding(p) == ClearSocket(p) \/ ClearMeta(p) \/ Bind(p) \/ PublishEndpoint(p)

InstanceNext ==
    \/ \E p \in Procs : Start(p) \/ Binding(p) \/ Quit(p) \/ CleanupSocket(p) \/ Exit(p) \/ Killed(p)
    \/ \E g \in Guests : Look(g) \/ ConnectTo(g) \/ Leave(g)

InstanceSpec == InstanceInit /\ [][InstanceNext]_instVars

----------------------------------------------------------------------------
(* Properties. *)

(* Nobody but its owner takes a live socket away: what a start or a quit      *)
(* removes is its own or was left by a process that is gone (comment of       *)
(* clear_stale: the lock "proves no live process owns these files").          *)
LiveSocketIsKept ==
    [][socket.live /\ socket' # socket =>
         main'[socket.by] # main[socket.by] \/ binder'[socket.by] # binder[socket.by]]_instVars

(* A command line goes to the database itself only when there was a moment    *)
(* at which no instance was there to be asked.                                *)
DirectOnlyAlone == \A g \in Guests : guest[g].pc = "direct" => ~guest[g].steady

(* Instances and guests do not get in each other's way.                       *)
InstancesCoexist == LiveSocketIsKept /\ [][DirectOnlyAlone']_instVars
=============================================================================
