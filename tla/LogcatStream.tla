---------------------------- MODULE LogcatStream ----------------------------
(* The adb logcat stream of one device: the table of streams of               *)
(* pane-core/ops/logcat.rs, which is checked and filled in two turns, the     *)
(* task of pane-android/logcat.rs with its reconnects, and the window of      *)
(* src-tauri/commands/logcat.rs that starts a stream when it opens and stops  *)
(* it when it is destroyed.  The command line starts and stops the same       *)
(* stream through the control socket.                                         *)
(*                                                                            *)
(* The sender in the table is what keeps a task running: it stops when it is  *)
(* told to, and also when the sender is dropped.                              *)
EXTENDS Naturals, FiniteSets

CONSTANTS
    Shells,          \* bound: command lines that start the stream at a time
    MaxTasks,        \* bound: streams ever spawned
    MaxReconnects,   \* LogcatConfig::max_reconnects
    MaxDry           \* bound: how far the history of dry connects is counted

ASSUME ReconnectsAssumption == MaxReconnects \in Nat /\ MaxTasks \in Nat /\ MaxDry \in Nat

VARIABLES
    sender,    \* the table of streams: the task whose sender it holds, 0 for none
    task,      \* 1..MaxTasks -> the streams
    starting,  \* Shells and the window -> where their logcat_start stands
    window,    \* "closed", "open" (built, not yet watched) or "watched"
    dry        \* history: connects in a row that brought no line

lsVars == <<sender, task, starting, window, dry>>

Gui     == "gui"
Openers == Shells \cup {Gui}
Tasks   == 1..MaxTasks
Unborn  == [pc |-> "unborn", attempt |-> 0, told |-> FALSE, batch |-> 0]
Calm    == [pc |-> "idle", task |-> 0]

Alive(t) == task[t].pc \in {"backoff", "spawn", "stream"}
RunningTasks  == {t \in Tasks : Alive(t) /\ ~task[t].told}
NextTask == CHOOSE t \in Tasks : task[t].pc = "unborn"

TaskStates ==
    [pc : {"unborn", "backoff", "spawn", "stream", "gaveUp", "stopped"}, attempt : 0..(MaxReconnects + 1),
     told : BOOLEAN, batch : {0, 1}]

StreamTypeOK ==
    /\ sender \in 0..MaxTasks
    /\ task \in [Tasks -> TaskStates]
    /\ starting \in [Openers -> [pc : {"idle", "spawn", "insert"}, task : 0..MaxTasks]]
    /\ window \in {"closed", "open", "watched"}
    /\ dry \in 0..MaxDry

----------------------------------------------------------------------------
(* logcat_start: the table is looked at, a task spawned, its sender put in.   *)
Check(c) ==
    /\ starting[c].pc = "idle"
    /\ c = Gui => window = "closed"
    /\ window' = IF c # Gui THEN window ELSE IF sender # 0 THEN "watched" ELSE "open"
    /\ starting' = [starting EXCEPT ![c].pc = IF sender # 0 THEN "idle" ELSE "spawn"]
    /\ UNCHANGED <<sender, task, dry>>

SpawnTask(c) ==
    /\ starting[c].pc = "spawn"
    /\ \E t \in Tasks : task[t].pc = "unborn"
    /\ task' = [task EXCEPT ![NextTask].pc = "spawn"]
    /\ starting' = [starting EXCEPT ![c] = [pc |-> "insert", task |-> NextTask]]
    /\ UNCHANGED <<sender, window, dry>>

(* adb is not installed: the window stays, and nobody watches it.             *)
NoAdb(c) ==
    /\ starting[c].pc = "spawn"
    /\ starting' = [starting EXCEPT ![c] = Calm]
    /\ UNCHANGED <<sender, task, window, dry>>

Told(t) == [task EXCEPT ![t].told = TRUE]

\* mutant: the sender that was there is kept by somebody
InsertBeside(c) ==
    /\ starting[c].pc = "insert"
    /\ sender' = starting[c].task
    /\ starting' = [starting EXCEPT ![c] = Calm]
    /\ window' = IF c = Gui /\ window = "open" THEN "watched" ELSE window
    /\ UNCHANGED <<task, dry>>

(* The sender that another start put in meanwhile is dropped.                 *)
Insert(c) ==
    /\ starting[c].pc = "insert"
    /\ task' = IF sender = 0 THEN task ELSE Told(sender)
    /\ sender' = starting[c].task
    /\ starting' = [starting EXCEPT ![c] = Calm]
    /\ window' = IF c = Gui /\ window = "open" THEN "watched" ELSE window
    /\ UNCHANGED dry

(* logcat_stop. *)
StopStream ==
    /\ sender # 0
    /\ sender' = 0
    /\ task' = Told(sender)
    /\ UNCHANGED <<starting, dry>>

ShellStop == StopStream /\ UNCHANGED window

(* The window is destroyed: the stream is stopped if somebody watches it.     *)
CloseWindow ==
    /\ window # "closed"
    /\ window' = "closed"
    /\ \/ window = "watched" /\ StopStream
       \/ (window = "open" \/ sender = 0) /\ UNCHANGED <<sender, task, starting, dry>>

----------------------------------------------------------------------------
(* The task. *)
Becomes(t, r) == task' = [task EXCEPT ![t] = r] /\ UNCHANGED <<sender, starting, window>>

(* adb starts, and the counter of attempts starts over with it.               *)
ConnectAdb(t) ==
    /\ task[t].pc = "spawn"
    /\ Becomes(t, [task[t] EXCEPT !.pc = "stream", !.attempt = 0])
    /\ dry' = IF dry < MaxDry THEN dry + 1 ELSE dry

\* mutant: a failed spawn is tried again without being counted
SpawnFailsForFree(t) ==
    /\ task[t].pc = "spawn"
    /\ Becomes(t, [task[t] EXCEPT !.pc = "backoff"])
    /\ UNCHANGED dry

SpawnFails(t) ==
    /\ task[t].pc = "spawn"
    /\ Becomes(t, [task[t] EXCEPT !.pc = "backoff", !.attempt = @ + 1])
    /\ UNCHANGED dry

(* A line joins the batch, a full batch is handed over.                       *)
Line(t) ==
    /\ task[t].pc = "stream"
    /\ Becomes(t, [task[t] EXCEPT !.batch = 1 - @])
    /\ dry' = 0

(* End of file or a read error: the batch is handed over, adb killed.         *)
Eof(t) ==
    /\ task[t].pc = "stream"
    /\ Becomes(t, [task[t] EXCEPT !.pc = "backoff", !.attempt = @ + 1, !.batch = 0])
    /\ UNCHANGED dry

(* The pause is over: once more, or an error event and the end.  The table    *)
(* is not told.                                                               *)
PauseOver(t) ==
    /\ task[t].pc = "backoff"
    /\ Becomes(t, [task[t] EXCEPT !.pc = IF task[t].attempt > MaxReconnects THEN "gaveUp" ELSE "spawn"])
    /\ UNCHANGED dry

\* mutant: only the loop over the lines is left
HearStopBreaks(t) ==
    /\ task[t].told /\ task[t].pc \in {"stream", "backoff"}
    /\ Becomes(t, [task[t] EXCEPT !.pc = IF @ = "stream" THEN "backoff" ELSE "stopped", !.batch = 0])
    /\ UNCHANGED dry

(* The task hears that it is to stop while it reads and while it waits.       *)
HearStop(t) ==
    /\ task[t].told /\ task[t].pc \in {"stream", "backoff"}
    /\ Becomes(t, [task[t] EXCEPT !.pc = "stopped", !.batch = 0])
    /\ UNCHANGED dry

----------------------------------------------------------------------------
StreamInit ==
    /\ sender = 0
    /\ task = [t \in Tasks |-> Unborn]
    /\ starting = [c \in Openers |-> Calm]
    /\ window = "closed"
    /\ dry = 0

Task(t) ==
    \/ ConnectAdb(t) \/ SpawnFails(t) \/ Line(t) \/ Eof(t) \/ PauseOver(t) \/ HearStop(t)

StreamNext ==
    \/ \E c \in Openers : Check(c) \/ SpawnTask(c) \/ NoAdb(c) \/ Insert(c)
    \/ ShellStop \/ CloseWindow
    \/ \E t \in Tasks : Task(t)

(* A task that is told to stop is woken for it; a start goes on.              *)
StreamFairness ==
    /\ \A t \in Tasks : SF_lsVars(HearStop(t)) /\ WF_lsVars(Task(t))
    /\ \A c \in Openers : WF_lsVars(Insert(c))

StreamSpec == StreamInit /\ [][StreamNext]_lsVars /\ StreamFairness

----------------------------------------------------------------------------
(* Properties. *)

(* Every stream that runs can be stopped: once no start is under way, the     *)
(* running task is the one whose sender is in the table, so two starts that   *)
(* race leave one adb, not two (doc of logcat_start).                         *)
RunningIsListed == (\A c \in Openers : starting[c].pc = "idle") => RunningTasks \subseteq {sender}

(* A stream that was stopped, or replaced, ends: it is not kept alive by its  *)
(* reconnects.                                                                *)
StopEnds == \A t \in Tasks : task[t].told ~> ~Alive(t)

(* A task that never gives up starts adb again and again: while adb cannot    *)
(* be started at all, it ends with an error.                                  *)
GivesUpWithoutAdb ==
    \A t \in Tasks : []<>Alive(t) => []<><<ConnectAdb(t) \/ Line(t)>>_lsVars

(* What the module promises of reconnects: no more than MaxReconnects of them *)
(* in a row without a line (header of logcat.rs: "capped at 5 tries").        *)
CappedTries == dry <= MaxReconnects + 1

(* What logcat_active promises: a serial that is listed has a live stream.    *)
ListedIsLive == sender # 0 => Alive(sender)

(* No stream is kept alive for ever: not by its reconnects once it was told   *)
(* to stop, nor by an adb that cannot be started.                             *)
StreamsEnd == StopEnds /\ GivesUpWithoutAdb
=============================================================================
