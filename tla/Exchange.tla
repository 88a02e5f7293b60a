------------------------------ MODULE Exchange ------------------------------
(* One request through the proxy, once it is known that Pane reads it: the    *)
(* plain and the decrypted half of pane-engine-mitm/proxy_loop.rs, with what  *)
(* they write to pane-storage, beside what else writes there at the same      *)
(* time: the user's Clear, the rule editor and Replay.                        *)
(*                                                                            *)
(* Each statement takes the connection's mutex for itself, so every step      *)
(* below is one turn with the store and the steps of different tasks          *)
(* interleave.  SQLite enforces the foreign keys: header, replay_record and   *)
(* rule rows refuse a capture or a body that is gone, and the call returns    *)
(* its error through `?`, which ends the task that made it.                   *)
EXTENDS Naturals, FiniteSets

CONSTANTS
    Conns,          \* bound: connections, each with the id its capture will have
    Replays,        \* bound: replays under way or done, each with the id of its capture
    Rules, Scopes,  \* scopes a request may be stamped with
    Bodies,         \* bound: ids of body rows
    NoRow, NoBody, NoRule, NoSource

Slots   == Conns \cup Replays
States  == {"in_flight", "completed", "patched", "stubbed", "error"}
CapRows == [state : States, device : Scopes \cup {NoSource},
            req : Bodies \cup {NoBody}, res : Bodies \cup {NoBody}]

ASSUME ExchangeAssumption ==
    /\ NoBody \notin Bodies /\ NoRule \notin Rules /\ NoRow \notin CapRows

VARIABLES
    ex,        \* Slots -> where the task stands and what it holds
    cap,       \* Slots -> row of the table capture
    bodies,    \* table capture_body: the ids
    rule,      \* Rules -> whom it is live for, the body it serves, its mode
    edit,      \* upsert_rule between its body and its row
    record,    \* Slots -> row of the table replay_record, the two pointers
    label,     \* the device the listening port stands for
    events     \* Slots -> what was broadcast about it

exVars == <<ex, cap, bodies, rule, edit, record, label, events>>

Idle == [pc |-> "idle", device |-> NoSource, scope |-> NoSource, rule |-> NoRule, mode |-> "none",
         body |-> NoBody, source |-> NoSource, cleared |-> FALSE, starved |-> FALSE, dropped |-> FALSE]

(* What the rows point at, and what a task still has in hand. *)
RuleBodies == {rule[r].body : r \in Rules} \ {NoBody}
CapBodies  == (UNION {{cap[c].req, cap[c].res} : c \in {d \in Slots : cap[d] # NoRow}}) \ {NoBody}
InHand     == {ex[c].body : c \in Slots} \cup {edit.body}
Fresh      == Bodies \ (bodies \cup RuleBodies \cup CapBodies \cup InHand)

Stages == {"idle", "connect", "head", "reqBody", "setReq", "match", "forward", "emitError",
           "resHeaders", "resBody", "setRes", "write", "emit", "replayBody", "replayRow", "replayRecord"}

Exchanges == [pc : Stages, device : Scopes \cup {NoSource}, scope : Scopes \cup {NoSource},
              rule : Rules \cup {NoRule}, mode : {"none", "stub", "patch"},
              body : Bodies \cup {NoBody}, source : Slots \cup {NoSource},
              cleared : BOOLEAN, starved : BOOLEAN, dropped : BOOLEAN]

ExchangeTypeOK ==
    /\ ex \in [Slots -> Exchanges]
    /\ cap \in [Slots -> CapRows \cup {NoRow}]
    /\ bodies \subseteq Bodies
    /\ rule \in [Rules -> [live : SUBSET Scopes, body : Bodies \cup {NoBody}, mode : {"stub", "patch"}]]
    /\ edit \in [rule : Rules \cup {NoRule}, body : Bodies \cup {NoBody}]
    /\ record \in [Slots -> [source : Slots \cup {NoSource}, result : Slots] \cup {NoRow}]
    /\ label \in Scopes
    /\ events \in [Slots -> SUBSET {"completed", "error"}]

NextBody   == CHOOSE b \in Fresh : TRUE

Goto(c, pc)    == ex' = [ex EXCEPT ![c].pc = pc]
Ends(c)        == ex' = [ex EXCEPT ![c] = Idle]
Starves(c)     == ex' = [ex EXCEPT ![c] = [Idle EXCEPT !.starved = TRUE, !.cleared = ex[c].cleared]]

\* mutant: the row is written whole, INSERT OR REPLACE
Replace(c, row) ==
    cap' = [cap EXCEPT ![c] = IF @ = NoRow THEN [state |-> "in_flight", device |-> ex[c].device, req |-> NoBody, res |-> ex[c].body] ELSE row]

(* An UPDATE of a row that is gone changes none, and says nothing.            *)
Update(c, row) == cap' = [cap EXCEPT ![c] = IF @ = NoRow THEN NoRow ELSE row]
Emit(c, e)     == events' = [events EXCEPT ![c] = @ \cup {e}]

(* BodyStore::put: a new row for every body, under a turn of its own.         *)
Put(c, pc) ==
    /\ Fresh # {}
    /\ bodies' = bodies \cup {NextBody}
    /\ ex' = [ex EXCEPT ![c].pc = pc, ![c].body = NextBody]
    /\ UNCHANGED <<cap, rule, edit, record, label, events>>

\* mutant: the scope is looked up when the rules are
ScopeWhenMatched(c) == label

(* The scope the rules are asked for: resolved once, when the connection came *)
(* in, and handed down into the TLS stream.                                   *)
ScopeOf(c) == ex[c].device

----------------------------------------------------------------------------
(* A connection comes in: its port says whose it is, the row is opened.       *)
Opened(c) == [state |-> "in_flight", device |-> ex[c].device, req |-> NoBody, res |-> NoBody]

Free(c) == ex[c].pc = "idle" /\ cap[c] = NoRow /\ record[c] = NoRow

Connect(c) ==
    /\ Free(c)
    /\ ex' = [ex EXCEPT ![c] = [Idle EXCEPT !.pc = "connect", !.device = label]]
    /\ events' = [events EXCEPT ![c] = {}]
    /\ UNCHANGED <<cap, bodies, rule, edit, record, label>>

\* mutant: the row is opened when the request has been read
OpenLater(c) ==
    /\ ex[c].pc = "connect"
    /\ Goto(c, "head")
    /\ UNCHANGED <<cap, bodies, rule, edit, record, label, events>>

(* The head is read; the row is opened with the device of the connection.    *)
Open(c) ==
    /\ ex[c].pc = "connect"
    /\ cap' = [cap EXCEPT ![c] = Opened(c)]
    /\ Goto(c, "head")
    /\ UNCHANGED <<bodies, rule, edit, record, label, events>>

(* The client goes away, or a read or a write fails: `?`, and nobody closes   *)
(* the row.                                                                   *)
Drop(c) ==
    /\ ex[c].pc \in {"connect", "head", "reqBody", "forward", "write"}
    /\ ex' = [ex EXCEPT ![c] = [Idle EXCEPT !.dropped = TRUE]]
    /\ UNCHANGED <<cap, bodies, rule, edit, record, label, events>>

\* mutant: the row is left as it is
EmptyTlsUnmarked(c) ==
    /\ ex[c].pc = "head"
    /\ Ends(c)
    /\ UNCHANGED <<cap, bodies, rule, edit, record, label, events>>

(* Inside the TLS stream the client may hang up without a request: the row    *)
(* is closed, and no event says so.                                           *)
EmptyTlsRequest(c) ==
    /\ ex[c].pc = "head"
    /\ Update(c, [cap[c] EXCEPT !.state = "error"])
    /\ Ends(c)
    /\ UNCHANGED <<bodies, rule, edit, record, label, events>>

(* The request's headers are rows that name the capture.                      *)
PersistHeaders(c, from, to) ==
    /\ ex[c].pc = from
    /\ IF cap[c] = NoRow THEN Starves(c) ELSE Goto(c, to)
    /\ UNCHANGED <<cap, bodies, rule, edit, record, label, events>>

ReqHeaders(c) == PersistHeaders(c, "head", "reqBody")

ReqBody(c) ==
    /\ ex[c].pc = "reqBody"
    /\ \/ Put(c, "setReq")
       \/ Goto(c, "match") /\ UNCHANGED <<cap, bodies, rule, edit, record, label, events>>

SetReqBody(c) ==
    /\ ex[c].pc = "setReq"
    /\ Update(c, [cap[c] EXCEPT !.req = ex[c].body])
    /\ ex' = [ex EXCEPT ![c].pc = "match", ![c].body = NoBody]
    /\ UNCHANGED <<bodies, rule, edit, record, label, events>>

AfterMatch(r) == IF rule[r].mode = "stub" THEN "resHeaders" ELSE "forward"

UnderRule(c, r) ==
    [ex[c] EXCEPT !.rule = r, !.scope = ScopeOf(c), !.mode = rule[r].mode, !.pc = AfterMatch(r)]

(* The rules live for the scope are read; one of them matches, or none does.  *)
MatchRules(c) ==
    /\ ex[c].pc = "match"
    /\ \/ \E r \in {x \in Rules : ScopeOf(c) \in rule[x].live} :
             ex' = [ex EXCEPT ![c] = UnderRule(c, r)]
       \/ Goto(c, "forward")
    /\ UNCHANGED <<cap, bodies, rule, edit, record, label, events>>

(* The forward leg: an answer, or an error that closes the row, then says so. *)
Forward(c) ==
    /\ ex[c].pc = "forward"
    /\ \/ Goto(c, "resHeaders") /\ UNCHANGED cap
       \/ Goto(c, "emitError") /\ Update(c, [cap[c] EXCEPT !.state = "error"])
    /\ UNCHANGED <<bodies, rule, edit, record, label, events>>

EmitError(c) ==
    /\ ex[c].pc = "emitError"
    /\ Emit(c, "error")
    /\ Ends(c)
    /\ UNCHANGED <<cap, bodies, rule, edit, record, label>>

ResHeaders(c) == PersistHeaders(c, "resHeaders", "resBody")

ResBody(c) == ex[c].pc = "resBody" /\ Put(c, "setRes")

SetResBody(c) ==
    /\ ex[c].pc = "setRes"
    /\ Update(c, [cap[c] EXCEPT !.res = ex[c].body])
    /\ ex' = [ex EXCEPT ![c].pc = "write", ![c].body = NoBody]
    /\ UNCHANGED <<bodies, rule, edit, record, label, events>>

(* The response is written, then the row is marked: mark_completed,           *)
(* mark_patched or mark_stubbed, by the rule as it was read.  *)
Outcome(c) == CASE ex[c].mode = "none" -> "completed"
                [] ex[c].mode = "stub" -> "stubbed"
                [] ex[c].mode = "patch" -> "patched"

\* mutant: the event goes out first, the row is closed after it
MarkLate(c) ==
    /\ ex[c].pc = "write"
    /\ Emit(c, "completed")
    /\ Goto(c, "emit")
    /\ UNCHANGED <<cap, bodies, rule, edit, record, label>>

Mark(c) ==
    /\ ex[c].pc = "write"
    /\ Update(c, [cap[c] EXCEPT !.state = Outcome(c)])
    /\ Goto(c, "emit")
    /\ UNCHANGED <<bodies, rule, edit, record, label, events>>

EmitCompleted(c) ==
    /\ ex[c].pc = "emit"
    /\ Emit(c, "completed")
    /\ Ends(c)
    /\ UNCHANGED <<cap, bodies, rule, edit, record, label>>

----------------------------------------------------------------------------
(* Replay: send first, then two bodies (one stands for both), the capture     *)
(* row and the replay record, each a turn of its own.                         *)
ReplaySend(c, s) ==
    /\ Free(c)
    /\ s \in {NoSource} \cup {d \in Slots : cap[d] # NoRow}
    /\ ex' = [ex EXCEPT ![c] = [Idle EXCEPT !.pc = "replayBody", !.source = s]]
    /\ events' = [events EXCEPT ![c] = {}]
    /\ UNCHANGED <<cap, bodies, rule, edit, record, label>>

ReplayFails(c) ==
    /\ ex[c].pc = "replayBody"
    /\ Ends(c)
    /\ UNCHANGED <<cap, bodies, rule, edit, record, label, events>>

ReplayBody(c) == ex[c].pc = "replayBody" /\ Put(c, "replayRow")

ReplayRow(c) ==
    /\ ex[c].pc = "replayRow"
    /\ IF ex[c].body \in bodies
       THEN /\ cap' = [cap EXCEPT ![c] = [state |-> "completed", device |-> NoSource, req |-> NoBody, res |-> ex[c].body]]
            /\ ex' = [ex EXCEPT ![c].pc = "replayRecord", ![c].body = NoBody]
       ELSE Starves(c) /\ UNCHANGED cap
    /\ UNCHANGED <<bodies, rule, edit, record, label, events>>

InsertReplayRecord(c) ==
    /\ ex[c].pc = "replayRecord"
    /\ IF cap[c] # NoRow /\ (ex[c].source = NoSource \/ cap[ex[c].source] # NoRow)
       THEN Ends(c) /\ record' = [record EXCEPT ![c] = [source |-> ex[c].source, result |-> c]]
       ELSE Starves(c) /\ UNCHANGED record
    /\ UNCHANGED <<cap, bodies, rule, edit, label, events>>

----------------------------------------------------------------------------
(* clear_captures, under one turn but not in one transaction: the replay      *)
(* pointers are detached, the captures deleted, then the bodies nobody holds. *)
\* mutant: the result pointer is forgotten
DetachSource == [c \in Slots |-> IF record[c] = NoRow THEN NoRow ELSE [record[c] EXCEPT !.source = NoSource]]

(* A record that was detached on both sides says nothing more here. *)
Detached == [c \in Slots |-> NoRow]

\* mutant: bodies the rules hold are collected too
GarbageOfAll == bodies

Garbage == bodies \ RuleBodies

ClearCaptures ==
    /\ record' = Detached
    /\ cap' = [c \in Slots |-> NoRow]
    /\ bodies' = bodies \ Garbage
    /\ ex' = [c \in Slots |-> [ex[c] EXCEPT !.cleared = ex[c].pc # "idle" \/ @]]
    /\ UNCHANGED <<rule, edit, label, events>>

----------------------------------------------------------------------------
(* upsert_rule with a new body: the body first, then, in another turn, the    *)
(* row that names it.                                                         *)
UpsertBody(r) ==
    /\ edit.rule = NoRule
    /\ Fresh # {}
    /\ bodies' = bodies \cup {NextBody}
    /\ edit' = [rule |-> r, body |-> NextBody]
    /\ UNCHANGED <<ex, cap, rule, record, label, events>>

UpsertRow(s, mode) ==
    /\ edit.rule # NoRule
    /\ rule' = IF edit.body \in bodies
               THEN [rule EXCEPT ![edit.rule] = [live |-> {s}, body |-> edit.body, mode |-> mode]] ELSE rule
    /\ edit' = [rule |-> NoRule, body |-> NoBody]
    /\ UNCHANGED <<ex, cap, bodies, record, label, events>>

(* A rule made from a response names the body of the capture: the editor has  *)
(* the id, and saves when it likes.                                           *)
EditFromResponse(r, c) ==
    /\ edit.rule = NoRule
    /\ cap[c] # NoRow /\ cap[c].res # NoBody
    /\ edit' = [rule |-> r, body |-> cap[c].res]
    /\ UNCHANGED <<ex, cap, bodies, rule, record, label, events>>

Deleted == [live |-> {}, body |-> NoBody, mode |-> "stub"]

DeleteRule(r) ==
    /\ rule[r] # Deleted
    /\ rule' = [rule EXCEPT ![r] = Deleted]
    /\ UNCHANGED <<ex, cap, bodies, edit, record, label, events>>

(* The port's device is removed, or another one takes the port. *)
Relabel(s) ==
    /\ label' = s /\ s # label
    /\ UNCHANGED <<ex, cap, bodies, rule, edit, record, events>>

----------------------------------------------------------------------------
ExchangeInit ==
    /\ ex = [c \in Slots |-> Idle]
    /\ cap = [c \in Slots |-> NoRow]
    /\ bodies = {}
    /\ rule = [r \in Rules |-> Deleted]
    /\ edit = [rule |-> NoRule, body |-> NoBody]
    /\ record = [c \in Slots |-> NoRow]
    /\ label \in Scopes
    /\ events = [c \in Slots |-> {}]

Handle(c) ==
    \/ Connect(c) \/ Open(c)
    \/ Drop(c) \/ EmptyTlsRequest(c) \/ ReqHeaders(c) \/ ReqBody(c) \/ SetReqBody(c)
    \/ MatchRules(c) \/ Forward(c) \/ EmitError(c) \/ ResHeaders(c) \/ ResBody(c) \/ SetResBody(c)
    \/ Mark(c) \/ EmitCompleted(c)

Replay(c) ==
    \/ \E s \in Slots \cup {NoSource} : ReplaySend(c, s)
    \/ ReplayFails(c) \/ ReplayBody(c) \/ ReplayRow(c) \/ InsertReplayRecord(c)

EditRules ==
    \/ \E r \in Rules : UpsertBody(r) \/ DeleteRule(r)
    \/ \E s \in Scopes, mode \in {"stub", "patch"} : UpsertRow(s, mode)
    \/ \E r \in Rules, c \in Slots : EditFromResponse(r, c)

ExchangeNext ==
    \/ \E c \in Conns : Handle(c)
    \/ \E c \in Replays : Replay(c)
    \/ ClearCaptures
    \/ EditRules
    \/ \E s \in Scopes : Relabel(s)

ExchangeSpec == ExchangeInit /\ [][ExchangeNext]_exVars

----------------------------------------------------------------------------
(* Properties. *)

(* No row names a row that is gone, in the order in which requests, replays   *)
(* and the rule editor write them and whatever Clear takes away meanwhile.    *)
(* The statements that ask (PersistHeaders, ReplayRow, InsertReplayRecord,    *)
(* UpsertRow) may find nothing; one that does not ask here, an UPDATE of the  *)
(* row or a DELETE of Clear, is one SQLite never refuses.                     *)
ForeignKeysHold ==
    /\ CapBodies \cup RuleBodies \subseteq bodies
    /\ \A c \in Slots : record[c] # NoRow =>
          \A d \in {record[c].source, record[c].result} \ {NoSource} : cap[d] # NoRow

(* The rule recorded on a row was asked for under the very device the row is  *)
(* stamped with, however the port's label moved meanwhile: a mock meant for   *)
(* one phone never answers another one's request (comment of                  *)
(* handle_tls_inner).                                                         *)
MockIsForTheRowsDevice ==
    \A c \in Slots : ex[c].rule # NoRule /\ cap[c] # NoRow => ex[c].scope = cap[c].device

(* Whoever hears of the end of a request finds it in the row: the row is      *)
(* closed before the event goes out, or the user has cleared it.              *)
EventAfterRow ==
    \A c \in Slots : cap[c] # NoRow =>
        /\ "completed" \in events[c] => cap[c].state \in {"completed", "patched", "stubbed"}
        /\ "error" \in events[c] => cap[c].state = "error"

(* The store fails a request or a replay under way only if a Clear ran        *)
(* beneath it.                                                                *)
OnlyClearStarves == \A c \in Slots : ex[c].starved => ex[c].cleared

(* ... which is not what the module promises: a request that was answered     *)
(* upstream is written back to the client (header of proxy_loop.rs).          *)
NobodyStarves == \A c \in Slots : ~ex[c].starved

(* A row stays in flight only while its request is under way, or when the     *)
(* request was dropped on a `?`: every other way a request ends closes it.    *)
OnlyDroppedStayOpen ==
    \A c \in Slots : cap[c] # NoRow /\ cap[c].state = "in_flight" =>
        ex[c].dropped \/ ex[c].pc \notin {"idle", "connect", "emit", "emitError"}

(* What a row and its events tell of a request is true.                       *)
RowsTellTheTruth == MockIsForTheRowsDevice /\ EventAfterRow /\ OnlyClearStarves /\ OnlyDroppedStayOpen
=============================================================================
