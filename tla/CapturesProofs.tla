-------------------------- MODULE CapturesProofs --------------------------
(***************************************************************************)
(* What is proved about captures: that a row tells the truth about its     *)
(* exchange, that the filter language is exact about the rows, and that    *)
(* the two commands that wait for captures take none for another.          *)
(***************************************************************************)
EXTENDS Exchange, CaptureFilter, CaptureWatch, FiniteSetTheorems, TLAPS

(* The recording of exchanges (Exchange).                                     *)
AfterOpen == {"head", "reqBody", "setReq", "match", "forward", "emitError",
              "resHeaders", "resBody", "setRes", "write", "emit"}
Replaying == {"replayBody", "replayRow", "replayRecord"}
Answered   == {"completed", "patched", "stubbed"}

(***************************************************************************)
(* A task's record e, its row r, its events ev and the bodies B.           *)
(* A rule is in hand only where the row carries the device the rule was    *)
(* asked for.                                                              *)
(***************************************************************************)
StampOK(e, r) ==
  /\ e.rule = NoRule <=> e.mode = "none"
  /\ e.rule # NoRule => e.pc \in AfterOpen /\ e.scope = e.device
  /\ e.pc = "connect" => r = NoRow
  /\ e.pc \in AfterOpen /\ r # NoRow => r.device = e.device

(***************************************************************************)
(* What a task relies on and no longer finds was taken by a Clear: its own *)
(* row, the body it stored, and the row it replays.                        *)
(***************************************************************************)
ClearedOK(e, r, B) ==
  /\ e.pc \in AfterOpen \cup {"replayRecord"} /\ r = NoRow => e.cleared
  /\ e.pc = "replayRow" /\ e.body \notin B => e.cleared
  /\ e.starved => e.cleared

SourceOK(e, C) ==
  e.pc \in Replaying /\ e.source # NoSource /\ C[e.source] = NoRow => e.cleared

(***************************************************************************)
(* Nothing is said of a task before its last step, and by then the row is  *)
(* closed.                                                                 *)
(***************************************************************************)
EventOK(e, r, ev) ==
  /\ e.pc # "idle" => ev = {}
  /\ r # NoRow => /\ "completed" \in ev \/ e.pc = "emit" => r.state \in Answered
                  /\ "error" \in ev \/ e.pc = "emitError" => r.state = "error"

(***************************************************************************)
(* A row in flight has a task that has not come to its event, or one that  *)
(* dropped it.                                                             *)
(***************************************************************************)
OpenOK(e, r) ==
  /\ e.dropped => e.pc = "idle"
  /\ r # NoRow /\ r.state = "in_flight" => e.dropped \/ e.pc \in AfterOpen \ {"emit", "emitError"}

(***************************************************************************)
(* A row, and a task about to write one, name bodies that are there.       *)
(***************************************************************************)
BodyOK(e, r, B) ==
  r # NoRow => /\ e.pc \in {"setReq", "setRes"} => e.body \in B
               /\ {r.req, r.res} \subseteq B \cup {NoBody}

TaskOK(e, r, ev, B) ==
  StampOK(e, r) /\ ClearedOK(e, r, B) /\ EventOK(e, r, ev) /\ OpenOK(e, r) /\ BodyOK(e, r, B)

TasksInv ==
  \A c \in Slots : TaskOK(ex[c], cap[c], events[c], bodies) /\ SourceOK(ex[c], cap)

RuleInv == \A r \in Rules : rule[r].body \in bodies \cup {NoBody}

RecordInv ==
  \A c \in Slots : record[c] # NoRow =>
    \A d \in {record[c].source, record[c].result} \ {NoSource} : cap[d] # NoRow

ExchangeInv == ExchangeTypeOK /\ TasksInv /\ RuleInv /\ RecordInv

-----------------------------------------------------------------------------
LEMMA IdleIsExchange ==
  /\ Idle \in Exchanges /\ Idle.pc = "idle" /\ Idle.rule = NoRule /\ Idle.mode = "none"
  /\ Idle.starved = FALSE /\ Idle.body = NoBody /\ Idle.source = NoSource /\ Idle.cleared = FALSE /\ Idle.dropped = FALSE
  BY DEF Idle, Exchanges, Stages

(***************************************************************************)
(* The fields of a task's record after an update.                          *)
(***************************************************************************)
WithBody(x, pc, b) == [x EXCEPT !.pc = pc, !.body = b]
WithRule(x, pc, r, mode) == [x EXCEPT !.rule = r, !.scope = x.device, !.mode = mode, !.pc = pc]
WithCleared(x) == [x EXCEPT !.cleared = x.pc # "idle" \/ @]

SameMatch(e, x) == e.rule = x.rule /\ e.mode = x.mode /\ e.scope = x.scope /\ e.device = x.device
SameMarks(e, x) == e.source = x.source /\ e.cleared = x.cleared /\ e.starved = x.starved /\ e.dropped = x.dropped

LEMMA WithBodyFields ==
  ASSUME NEW x \in Exchanges, NEW pc \in Stages, NEW b \in Bodies \cup {NoBody}
  PROVE  /\ WithBody(x, pc, b) \in Exchanges
         /\ WithBody(x, pc, b).pc = pc /\ WithBody(x, pc, b).body = b
         /\ SameMatch(WithBody(x, pc, b), x) /\ SameMarks(WithBody(x, pc, b), x)
<1>1. WithBody(x, pc, b) \in Exchanges
  BY DEF Exchanges, WithBody
<1>. QED BY <1>1 DEF Exchanges, WithBody, SameMatch, SameMarks

LEMMA WithRuleFields ==
  ASSUME NEW x \in Exchanges, NEW pc \in Stages, NEW r \in Rules, NEW mode \in {"stub", "patch"},
         NEW e, e = WithRule(x, pc, r, mode)
  PROVE  /\ e \in Exchanges /\ e.pc = pc /\ e.rule = r /\ e.mode = mode /\ e.scope = x.device
         /\ e.device = x.device /\ SameMarks(e, x)
<1>1. e \in Exchanges
  BY DEF Exchanges, WithRule
<1>. QED BY <1>1 DEF Exchanges, WithRule, SameMarks

LEMMA WithClearedFields ==
  ASSUME NEW x \in Exchanges, NEW e, e = WithCleared(x)
  PROVE  /\ e \in Exchanges /\ e.cleared = (x.pc # "idle" \/ x.cleared)
         /\ e.pc = x.pc /\ SameMatch(e, x) /\ e.starved = x.starved /\ e.dropped = x.dropped
<1>0. (x.pc # "idle" \/ x.cleared) \in BOOLEAN
  OBVIOUS
<1>1. e \in Exchanges
  BY <1>0 DEF Exchanges, WithCleared
<1>2. e.cleared = (x.pc # "idle" \/ x.cleared)
  BY Zenon DEF Exchanges, WithCleared
<1>. QED BY <1>1, <1>2 DEF Exchanges, WithCleared, SameMatch

LEMMA FreshBody ==
  ASSUME Fresh # {}
  PROVE  NextBody \in Bodies \ bodies
  BY DEF NextBody, Fresh

LEMMA TaskTypes ==
  ASSUME ExchangeInv, NEW c \in Slots
  PROVE  /\ ex[c] \in Exchanges /\ cap[c] \in CapRows \cup {NoRow}
         /\ events[c] \in SUBSET {"completed", "error"} /\ bodies \in SUBSET Bodies
         /\ TaskOK(ex[c], cap[c], events[c], bodies) /\ SourceOK(ex[c], cap)
         /\ ex = [ex EXCEPT ![c] = ex[c]] /\ cap = [cap EXCEPT ![c] = cap[c]]
         /\ events = [events EXCEPT ![c] = events[c]]
         /\ label \in Scopes
  BY DEF ExchangeInv, ExchangeTypeOK, TasksInv

(***************************************************************************)
(* A step of one task: its record, its row and its events become e, r and  *)
(* ev, the bodies B; nobody else's change and nothing is taken away.       *)
(***************************************************************************)
Writes(c, e, r, ev, B) ==
  /\ ex' = [ex EXCEPT ![c] = e]
  /\ cap' = [cap EXCEPT ![c] = r]
  /\ events' = [events EXCEPT ![c] = ev]
  /\ bodies' = B
  /\ UNCHANGED <<rule, edit, label>>

(***************************************************************************)
(* So it is enough to look at the task that moved.                         *)
(***************************************************************************)
LEMMA WriteKeepsInv ==
  ASSUME ExchangeInv, NEW c \in Slots, NEW e \in Exchanges, NEW r \in CapRows \cup {NoRow},
         NEW ev \in SUBSET {"completed", "error"}, NEW B \in SUBSET Bodies,
         Writes(c, e, r, ev, B), bodies \subseteq B, r = NoRow => cap[c] = NoRow,
         TaskOK(e, r, ev, B), SourceOK(e, cap),
         \/ record' = record
         \/ /\ record' \in [Slots -> [source : Slots \cup {NoSource}, result : Slots] \cup {NoRow}]
            /\ RecordInv'
  PROVE  ExchangeInv'
<1>1. /\ ex \in [Slots -> Exchanges] /\ cap \in [Slots -> CapRows \cup {NoRow}]
      /\ events \in [Slots -> SUBSET {"completed", "error"}]
      /\ ex' = [ex EXCEPT ![c] = e] /\ cap' = [cap EXCEPT ![c] = r]
      /\ events' = [events EXCEPT ![c] = ev] /\ bodies' = B
      /\ UNCHANGED <<rule, edit, label>>
  BY DEF ExchangeInv, ExchangeTypeOK, Writes
<1>2. ex' \in [Slots -> Exchanges] /\ ex'[c] = e /\ \A d \in Slots \ {c} : ex'[d] = ex[d]
  BY <1>1
<1>3. /\ cap' \in [Slots -> CapRows \cup {NoRow}] /\ cap'[c] = r
      /\ \A d \in Slots \ {c} : cap'[d] = cap[d]
  BY <1>1
<1>4. /\ events' \in [Slots -> SUBSET {"completed", "error"}] /\ events'[c] = ev
      /\ \A d \in Slots \ {c} : events'[d] = events[d]
  BY <1>1
<1>5. \A d \in Slots : cap'[d] = NoRow => cap[d] = NoRow
  BY <1>3
<1>6. ASSUME NEW d \in Slots
      PROVE  TaskOK(ex'[d], cap'[d], events'[d], bodies') /\ SourceOK(ex'[d], cap')
  <2>1. CASE d = c
    <3>1. SourceOK(e, cap')
      BY <1>5 DEF SourceOK, Exchanges
    <3>. QED BY <1>1, <1>2, <1>3, <1>4, <2>1, <3>1
  <2>2. CASE d # c
    <3>1. ex'[d] = ex[d] /\ cap'[d] = cap[d] /\ events'[d] = events[d] /\ ex[d] \in Exchanges
      BY <1>1, <1>2, <1>3, <1>4, <2>2
    <3>2. TaskOK(ex[d], cap[d], events[d], bodies) /\ SourceOK(ex[d], cap)
      BY DEF ExchangeInv, TasksInv
    <3>3. TaskOK(ex[d], cap[d], events[d], B)
      BY <3>2 DEF TaskOK, ClearedOK, BodyOK
    <3>4. SourceOK(ex[d], cap')
      BY <1>5, <3>1, <3>2 DEF SourceOK, Exchanges
    <3>. QED BY <1>1, <3>1, <3>3, <3>4
  <2>. QED BY <2>1, <2>2
<1>7. ExchangeTypeOK'
  BY <1>1, <1>2, <1>3, <1>4 DEF ExchangeInv, ExchangeTypeOK
<1>8. RuleInv'
  BY <1>1 DEF ExchangeInv, RuleInv
<1>9. RecordInv'
  <2>1. \A d \in Slots : record[d] # NoRow =>
          {record[d].source, record[d].result} \subseteq Slots \cup {NoSource}
    BY DEF ExchangeInv, ExchangeTypeOK
  <2>. QED BY <1>5, <2>1 DEF ExchangeInv, RecordInv
<1>. QED BY <1>1, <1>6, <1>7, <1>8, <1>9 DEF ExchangeInv, TasksInv

-----------------------------------------------------------------------------
(***************************************************************************)
(* The steps of a request.                                                 *)
(***************************************************************************)
LEMMA ConnectKeepsInv ==
  ASSUME ExchangeInv, NEW c \in Slots, Connect(c)
  PROVE  ExchangeInv'
<1> DEFINE e == [Idle EXCEPT !.pc = "connect", !.device = label]
           ev == {}
<1>1. /\ e \in Exchanges /\ e.pc = "connect" /\ e.rule = NoRule /\ e.mode = "none"
      /\ e.starved = FALSE /\ e.dropped = FALSE
  <2>1. "connect" \in Stages /\ label \in Scopes
    BY TaskTypes DEF Stages
  <2>. QED BY <2>1, IdleIsExchange DEF Exchanges
<1>2. /\ Writes(c, e, cap[c], ev, bodies) /\ record' = record
      /\ ev \in SUBSET {"completed", "error"}
  BY TaskTypes DEF Connect, Writes
<1>3. cap[c] = NoRow
  BY DEF Connect, Free
<1>4. TaskOK(e, cap[c], ev, bodies) /\ SourceOK(e, cap)
  BY <1>1, <1>3 DEF TaskOK, StampOK, ClearedOK, EventOK, OpenOK, BodyOK, SourceOK, AfterOpen, Replaying
<1>. HIDE DEF e, ev
<1>. QED BY <1>1, <1>2, <1>4, TaskTypes, WriteKeepsInv

LEMMA OpenKeepsInv ==
  ASSUME ExchangeInv, NEW c \in Slots, Open(c)
  PROVE  ExchangeInv'
<1> DEFINE e == [ex[c] EXCEPT !.pc = "head"]
           r == Opened(c)
<1>1. e \in Exchanges /\ e.pc = "head"
  BY TaskTypes DEF Exchanges, Stages
<1>2. r \in CapRows /\ r # NoRow
  BY TaskTypes, ExchangeAssumption DEF Opened, CapRows, Exchanges, States
<1>3. Writes(c, e, r, events[c], bodies) /\ record' = record
  BY TaskTypes DEF Open, Goto, Writes
<1>4. TaskOK(e, r, events[c], bodies) /\ SourceOK(e, cap)
  BY <1>1, <1>2, TaskTypes
  DEF Open, Opened, Exchanges, TaskOK, StampOK, ClearedOK, EventOK, OpenOK, BodyOK, SourceOK, AfterOpen, Replaying
<1>. HIDE DEF e, r
<1>. QED BY <1>1, <1>2, <1>3, <1>4, TaskTypes, WriteKeepsInv

(***************************************************************************)
(* A task that is dropped, ends or starves, from any stage.  Only the one  *)
(* that is dropped leaves its row in flight.                               *)
(***************************************************************************)
IsOver(e) == /\ e \in Exchanges /\ e.pc = "idle" /\ e.rule = NoRule /\ e.mode = "none"
             /\ e.starved => e.cleared

InFlight(c) == cap[c] # NoRow /\ cap[c].state = "in_flight"

Dropped == [Idle EXCEPT !.dropped = TRUE]

LEMMA DroppedIsOver == IsOver(Dropped) /\ Dropped.dropped
  BY IdleIsExchange DEF Dropped, IsOver, Exchanges

LEMMA StarvedIsOver ==
  ASSUME ExchangeInv, NEW c \in Slots, ex[c].cleared, Starves(c)
  PROVE  \E e : IsOver(e) /\ ex' = [ex EXCEPT ![c] = e]
<1> DEFINE e == [Idle EXCEPT !.starved = TRUE, !.cleared = ex[c].cleared]
<1>1. IsOver(e)
  BY IdleIsExchange, TaskTypes DEF Exchanges, IsOver
<1>2. ex' = [ex EXCEPT ![c] = e]
  BY DEF Starves
<1>. HIDE DEF e
<1>. QED BY <1>1, <1>2

LEMMA OverKeepsInv ==
  ASSUME ExchangeInv, NEW c \in Slots, NEW e, IsOver(e), ex' = [ex EXCEPT ![c] = e],
         InFlight(c) => e.dropped,
         UNCHANGED <<cap, bodies, rule, edit, record, label, events>>
  PROVE  ExchangeInv'
<1>2. Writes(c, e, cap[c], events[c], bodies)
  BY TaskTypes DEF Writes
<1>3. TaskOK(e, cap[c], events[c], bodies) /\ SourceOK(e, cap)
  BY TaskTypes
  DEF InFlight, IsOver, TaskOK, StampOK, ClearedOK, EventOK, OpenOK, BodyOK, SourceOK, AfterOpen, Replaying
<1>. QED BY <1>2, <1>3, TaskTypes, WriteKeepsInv DEF IsOver

LEMMA EndingKeepsInv ==
  ASSUME ExchangeInv, NEW c \in Slots, Ends(c) \/ (Starves(c) /\ ex[c].cleared),
         ~InFlight(c),
         UNCHANGED <<cap, bodies, rule, edit, record, label, events>>
  PROVE  ExchangeInv'
<1>1. PICK e : IsOver(e) /\ ex' = [ex EXCEPT ![c] = e]
  <2>1. CASE Ends(c)
    BY <2>1, IdleIsExchange DEF Ends, IsOver
  <2>. QED BY <2>1, StarvedIsOver
<1>. QED BY <1>1, OverKeepsInv

LEMMA DropKeepsInv ==
  ASSUME ExchangeInv, NEW c \in Slots, Drop(c)
  PROVE  ExchangeInv'
<1>1. ex' = [ex EXCEPT ![c] = Dropped] /\ UNCHANGED <<cap, bodies, rule, edit, record, label, events>>
  BY DEF Drop, Dropped
<1>. QED BY <1>1, DroppedIsOver, OverKeepsInv

(***************************************************************************)
(* A replay has no row in flight.                                          *)
(***************************************************************************)
LEMMA ReplayIsNotInFlight ==
  ASSUME ExchangeInv, NEW c \in Slots, ex[c].pc \in Replaying
  PROVE  ~InFlight(c)
<1>1. OpenOK(ex[c], cap[c])
  BY TaskTypes DEF TaskOK
<1>. QED BY <1>1 DEF OpenOK, InFlight, Replaying, AfterOpen

(***************************************************************************)
(* A request that goes on to its next stage and writes nothing.            *)
(***************************************************************************)
LEMMA GotoKeepsInv ==
  ASSUME ExchangeInv, NEW c \in Slots, NEW pc \in AfterOpen \ {"setReq", "setRes", "emit", "emitError"},
         ex[c].pc \in AfterOpen, Goto(c, pc),
         UNCHANGED <<cap, bodies, rule, edit, record, label, events>>
  PROVE  ExchangeInv'
<1> DEFINE e == [ex[c] EXCEPT !.pc = pc]
<1>1. e \in Exchanges /\ e.pc = pc
  BY TaskTypes DEF Exchanges, Stages, AfterOpen
<1>2. Writes(c, e, cap[c], events[c], bodies)
  BY TaskTypes DEF Goto, Writes
<1>3. TaskOK(e, cap[c], events[c], bodies) /\ SourceOK(e, cap)
  BY <1>1, TaskTypes
  DEF Exchanges, TaskOK, StampOK, ClearedOK, EventOK, OpenOK, BodyOK, SourceOK, AfterOpen, Replaying
<1>. HIDE DEF e
<1>. QED BY <1>1, <1>2, <1>3, TaskTypes, WriteKeepsInv

LEMMA HeadersKeepInv ==
  ASSUME ExchangeInv, NEW c \in Slots, ReqHeaders(c) \/ ResHeaders(c)
  PROVE  ExchangeInv'
<1>1. PICK pc \in {"reqBody", "resBody"} :
        /\ IF cap[c] = NoRow THEN Starves(c) ELSE Goto(c, pc)
        /\ UNCHANGED <<cap, bodies, rule, edit, record, label, events>>
        /\ ex[c].pc \in {"head", "resHeaders"}
  BY DEF ReqHeaders, ResHeaders, PersistHeaders
<1>2. ex[c].pc \in AfterOpen /\ pc \in AfterOpen \ {"setReq", "setRes", "emit", "emitError"}
  BY <1>1 DEF AfterOpen
<1>3. CASE cap[c] = NoRow
  <2>1. ex[c].cleared /\ ~InFlight(c)
    BY <1>2, <1>3, TaskTypes DEF TaskOK, ClearedOK, InFlight
  <2>. QED BY <1>1, <1>3, <2>1, EndingKeepsInv
<1>4. CASE cap[c] # NoRow
  BY <1>1, <1>2, <1>4, GotoKeepsInv
<1>. QED BY <1>3, <1>4

(***************************************************************************)
(* A body goes to the store: its id was nobody's.                          *)
(***************************************************************************)
LEMMA PutKeepsInv ==
  ASSUME ExchangeInv, NEW c \in Slots, NEW pc \in {"setReq", "setRes", "replayRow"}, Put(c, pc),
         IF pc = "replayRow" THEN ex[c].pc = "replayBody" ELSE ex[c].pc \in AfterOpen
  PROVE  ExchangeInv'
<1> DEFINE b == NextBody
           e == WithBody(ex[c], pc, b)
           B == bodies \cup {b}
<1>1. b \in Bodies
  BY FreshBody DEF Put
<1>2. /\ e \in Exchanges /\ e.pc = pc /\ e.body = b
      /\ SameMatch(e, ex[c]) /\ SameMarks(e, ex[c])
  <2>1. pc \in Stages
    BY DEF Stages
  <2>. HIDE DEF b
  <2>. QED BY <1>1, <2>1, TaskTypes, WithBodyFields
<1>3. B \in SUBSET Bodies /\ bodies \subseteq B /\ b \in B
  BY <1>1, TaskTypes
<1>4. Writes(c, e, cap[c], events[c], B) /\ record' = record
  BY TaskTypes DEF Put, Writes, WithBody
<1>5. TaskOK(e, cap[c], events[c], B)
  <2>. HIDE DEF b, e, B
  <2>. QED BY <1>2, <1>3, TaskTypes
           DEF SameMatch, SameMarks, TaskOK, StampOK, ClearedOK, EventOK, OpenOK, BodyOK, AfterOpen
<1>. HIDE DEF b, e, B
<1>6. SourceOK(e, cap)
  BY <1>2, TaskTypes DEF SameMarks, SourceOK, AfterOpen, Replaying
<1>. QED BY <1>2, <1>3, <1>4, <1>5, <1>6, TaskTypes, WriteKeepsInv

(***************************************************************************)
(* The row is rewritten, if it is still there.                             *)
(***************************************************************************)
Kept(c, row) == IF cap[c] = NoRow THEN NoRow ELSE row

LEMMA UpdateWrites ==
  ASSUME ExchangeInv, NEW c \in Slots, NEW row, Update(c, row)
  PROVE  cap' = [cap EXCEPT ![c] = Kept(c, row)]
  BY DEF Update, Kept

LEMMA KeptIsRow ==
  ASSUME ExchangeInv, NEW c \in Slots, NEW row, cap[c] # NoRow => row \in CapRows
  PROVE  /\ Kept(c, row) \in CapRows \cup {NoRow}
         /\ Kept(c, row) = NoRow <=> cap[c] = NoRow
         /\ Kept(c, row) # NoRow => Kept(c, row) = row
  BY ExchangeAssumption DEF Kept

(***************************************************************************)
(* A step of a request that rewrites its row and keeps the device on it.   *)
(***************************************************************************)
LEMMA UpdateKeepsInv ==
  ASSUME ExchangeInv, NEW c \in Slots, NEW e \in Exchanges, NEW row,
         cap[c] # NoRow => /\ row \in CapRows /\ row.device = cap[c].device
                           /\ {row.req, row.res} \subseteq bodies \cup {NoBody}
                           /\ e.pc = "emit" => row.state \in Answered
                           /\ e.pc = "emitError" => row.state = "error"
                           /\ e = Idle => row.state # "in_flight",
         Update(c, row), ex' = [ex EXCEPT ![c] = e],
         UNCHANGED <<bodies, rule, edit, record, label, events>>,
         ex[c].pc \in AfterOpen, 
         \/ e = Idle
         \/ /\ e.pc \in AfterOpen \ {"setReq", "setRes"}
            /\ SameMatch(e, ex[c]) /\ SameMarks(e, ex[c])
  PROVE  ExchangeInv'
<1> DEFINE r == Kept(c, row)
<1>1. /\ r \in CapRows \cup {NoRow} /\ (r = NoRow <=> cap[c] = NoRow) /\ (r # NoRow => r = row)
  BY KeptIsRow
<1>2. Writes(c, e, r, events[c], bodies) /\ record' = record
  BY UpdateWrites, TaskTypes DEF Writes
<1>3. ex[c].pc # "idle" /\ events[c] = {}
  BY TaskTypes DEF TaskOK, EventOK, AfterOpen
<1>. HIDE DEF r
<1>4. StampOK(e, r) /\ ClearedOK(e, r, bodies) /\ SourceOK(e, cap)
  BY <1>1, <1>3, TaskTypes, IdleIsExchange
  DEF SameMatch, SameMarks, TaskOK, StampOK, ClearedOK, SourceOK, AfterOpen, Replaying
<1>5. EventOK(e, r, events[c]) /\ BodyOK(e, r, bodies)
  BY <1>1, <1>3, IdleIsExchange DEF EventOK, BodyOK
<1>6. OpenOK(e, r)
  <2>1. CASE e = Idle
    BY <1>1, <2>1, IdleIsExchange DEF OpenOK
  <2>2. CASE e # Idle
    <3>1. OpenOK(ex[c], cap[c]) /\ e.dropped = ex[c].dropped
      BY <2>2, TaskTypes DEF TaskOK, SameMarks
    <3>2. ~e.dropped
      BY <1>3, <3>1, TaskTypes DEF OpenOK
    <3>3. r # NoRow /\ r.state = "in_flight" => e.pc \in AfterOpen \ {"emit", "emitError"}
      BY <1>1, <2>2 DEF Answered
    <3>. QED BY <3>2, <3>3 DEF OpenOK
  <2>. QED BY <2>1, <2>2
<1>. QED BY <1>1, <1>2, <1>4, <1>5, <1>6, TaskTypes, WriteKeepsInv DEF TaskOK

LEMMA SetBodyKeepsInv ==
  ASSUME ExchangeInv, NEW c \in Slots, SetReqBody(c) \/ SetResBody(c)
  PROVE  ExchangeInv'
<1>1. cap[c] # NoRow => /\ cap[c] \in CapRows /\ ex[c].body \in bodies
                        /\ {cap[c].req, cap[c].res} \subseteq bodies \cup {NoBody}
  BY TaskTypes DEF SetReqBody, SetResBody, TaskOK, BodyOK
<1>2. CASE SetReqBody(c)
  <2> DEFINE e == WithBody(ex[c], "match", NoBody)
             row == [cap[c] EXCEPT !.req = ex[c].body]
  <2>1. /\ e \in Exchanges /\ e.pc \in AfterOpen \ {"setReq", "setRes", "emit", "emitError"}
        /\ SameMatch(e, ex[c]) /\ SameMarks(e, ex[c])
    <3>1. "match" \in Stages /\ "match" \in AfterOpen
      BY DEF Stages, AfterOpen
    <3>. QED BY <3>1, TaskTypes, WithBodyFields
  <2>2. cap[c] # NoRow => /\ row \in CapRows /\ row.device = cap[c].device
                          /\ {row.req, row.res} \subseteq bodies \cup {NoBody}
    BY <1>1, TaskTypes DEF CapRows, Exchanges
  <2>3. /\ Update(c, row) /\ ex' = [ex EXCEPT ![c] = e] /\ ex[c].pc \in AfterOpen
        /\ UNCHANGED <<bodies, rule, edit, record, label, events>>
    BY <1>2 DEF SetReqBody, AfterOpen, WithBody
  <2>4. e # Idle
    BY <2>1, IdleIsExchange DEF AfterOpen
  <2>. HIDE DEF e, row
  <2>. QED BY <2>1, <2>2, <2>3, <2>4, UpdateKeepsInv
<1>3. CASE SetResBody(c)
  <2> DEFINE e == WithBody(ex[c], "write", NoBody)
             row == [cap[c] EXCEPT !.res = ex[c].body]
  <2>1. /\ e \in Exchanges /\ e.pc \in AfterOpen \ {"setReq", "setRes", "emit", "emitError"}
        /\ SameMatch(e, ex[c]) /\ SameMarks(e, ex[c])
    <3>1. "write" \in Stages /\ "write" \in AfterOpen
      BY DEF Stages, AfterOpen
    <3>. QED BY <3>1, TaskTypes, WithBodyFields
  <2>2. cap[c] # NoRow => /\ row \in CapRows /\ row.device = cap[c].device
                          /\ {row.req, row.res} \subseteq bodies \cup {NoBody}
    BY <1>1, TaskTypes DEF CapRows, Exchanges
  <2>3. /\ Update(c, row) /\ ex' = [ex EXCEPT ![c] = e] /\ ex[c].pc \in AfterOpen
        /\ UNCHANGED <<bodies, rule, edit, record, label, events>>
    BY <1>3 DEF SetResBody, AfterOpen, WithBody
  <2>4. e # Idle
    BY <2>1, IdleIsExchange DEF AfterOpen
  <2>. HIDE DEF e, row
  <2>. QED BY <2>1, <2>2, <2>3, <2>4, UpdateKeepsInv
<1>. QED BY <1>2, <1>3

(***************************************************************************)
(* A row that is closed: with an error, or with the outcome of the rule.   *)
(***************************************************************************)
LEMMA CloseKeepsInv ==
  ASSUME ExchangeInv, NEW c \in Slots, NEW state \in States, NEW e \in Exchanges,
         Update(c, [cap[c] EXCEPT !.state = state]), ex' = [ex EXCEPT ![c] = e],
         UNCHANGED <<bodies, rule, edit, record, label, events>>,
         ex[c].pc \in AfterOpen \ {"setReq", "setRes"},
         \/ e = Idle /\ state # "in_flight"
         \/ e = [ex[c] EXCEPT !.pc = "emit"] /\ state \in Answered
         \/ e = [ex[c] EXCEPT !.pc = "emitError"] /\ state = "error"
  PROVE  ExchangeInv'
<1> DEFINE row == [cap[c] EXCEPT !.state = state]
<1>1. cap[c] # NoRow => /\ row \in CapRows /\ row.device = cap[c].device /\ row.state = state
                        /\ {row.req, row.res} \subseteq bodies \cup {NoBody}
  BY TaskTypes DEF CapRows, TaskOK, BodyOK
<1>2. \/ e = Idle
      \/ /\ e.pc \in AfterOpen \ {"setReq", "setRes"}
         /\ SameMatch(e, ex[c]) /\ SameMarks(e, ex[c])
  BY TaskTypes DEF Exchanges, AfterOpen, SameMatch, SameMarks
<1>3. /\ e.pc = "emit" => state \in Answered
      /\ e.pc = "emitError" => state = "error"
      /\ e = Idle => state # "in_flight"
  BY TaskTypes, IdleIsExchange DEF Exchanges, Answered
<1>4. Update(c, row)
  OBVIOUS
<1>. HIDE DEF row
<1>. QED BY <1>1, <1>2, <1>3, <1>4, UpdateKeepsInv

(***************************************************************************)
(* The rule is taken under the scope of the connection.                    *)
(***************************************************************************)
LEMMA MatchKeepsInv ==
  ASSUME ExchangeInv, NEW c \in Slots, MatchRules(c)
  PROVE  ExchangeInv'
<1>1. CASE Goto(c, "forward")
  BY <1>1, GotoKeepsInv DEF MatchRules, AfterOpen
<1>2. ASSUME NEW r \in Rules,
             ex' = [ex EXCEPT ![c] = UnderRule(c, r)]
      PROVE  ExchangeInv'
  <2> DEFINE pc == AfterMatch(r)
             e == WithRule(ex[c], pc, r, rule[r].mode)
  <2>1. rule[r].mode \in {"stub", "patch"} /\ r # NoRule
    BY ExchangeAssumption DEF ExchangeInv, ExchangeTypeOK
  <2>2. /\ e \in Exchanges /\ e.pc \in {"resHeaders", "forward"} /\ e.rule = r
        /\ e.mode # "none" /\ e.scope = e.device
        /\ e.device = ex[c].device /\ SameMarks(e, ex[c])
    <3>1. pc \in {"resHeaders", "forward"} /\ pc \in Stages
      BY DEF Stages, AfterMatch
    <3>. HIDE DEF pc
    <3>. QED BY <2>1, <3>1, TaskTypes, WithRuleFields
  <2>3. Writes(c, e, cap[c], events[c], bodies) /\ record' = record
    <3>0. UNCHANGED <<cap, bodies, rule, edit, record, label, events>>
      BY DEF MatchRules
    <3>1. UnderRule(c, r) = e
      BY DEF UnderRule, ScopeOf, WithRule
    <3>2. ex' = [ex EXCEPT ![c] = e]
      BY <1>2, <3>1
    <3>. HIDE DEF e
    <3>. QED BY <3>0, <3>2, TaskTypes DEF Writes
  <2>. HIDE DEF e, pc
  <2>4. ex[c].pc = "match"
    BY DEF MatchRules
  <2>5. TaskOK(e, cap[c], events[c], bodies) /\ SourceOK(e, cap)
    BY <2>1, <2>2, <2>4, TaskTypes
    DEF SameMarks, TaskOK, StampOK, ClearedOK, EventOK, OpenOK, BodyOK, SourceOK, AfterOpen, Replaying
  <2>. QED BY <2>2, <2>3, <2>5, TaskTypes, WriteKeepsInv
<1>. QED BY <1>1, <1>2 DEF MatchRules

LEMMA ForwardKeepsInv ==
  ASSUME ExchangeInv, NEW c \in Slots, Forward(c)
  PROVE  ExchangeInv'
<1>1. CASE Goto(c, "resHeaders") /\ UNCHANGED cap
  BY <1>1, GotoKeepsInv DEF Forward, AfterOpen
<1>2. CASE Goto(c, "emitError") /\ Update(c, [cap[c] EXCEPT !.state = "error"])
  <2> DEFINE e == [ex[c] EXCEPT !.pc = "emitError"]
  <2>1. e \in Exchanges /\ ex' = [ex EXCEPT ![c] = e]
    BY <1>2, TaskTypes DEF Goto, Exchanges, Stages
  <2>2. e = [ex[c] EXCEPT !.pc = "emitError"]
    OBVIOUS
  <2>. HIDE DEF e
  <2>. QED BY <1>2, <2>1, <2>2, CloseKeepsInv DEF Forward, States, AfterOpen
<1>. QED BY <1>1, <1>2 DEF Forward

LEMMA EmptyTlsKeepsInv ==
  ASSUME ExchangeInv, NEW c \in Slots, EmptyTlsRequest(c)
  PROVE  ExchangeInv'
  BY IdleIsExchange, CloseKeepsInv DEF EmptyTlsRequest, Ends, States, AfterOpen

LEMMA MarkKeepsInv ==
  ASSUME ExchangeInv, NEW c \in Slots, Mark(c)
  PROVE  ExchangeInv'
<1> DEFINE e == [ex[c] EXCEPT !.pc = "emit"]
           s == Outcome(c)
<1>1. s \in Answered /\ s \in States
  BY TaskTypes DEF Outcome, Exchanges, Answered, States
<1>2. e \in Exchanges /\ ex' = [ex EXCEPT ![c] = e] /\ e = [ex[c] EXCEPT !.pc = "emit"]
  BY TaskTypes DEF Mark, Goto, Exchanges, Stages
<1>3. Update(c, [cap[c] EXCEPT !.state = s]) /\ ex[c].pc \in AfterOpen \ {"setReq", "setRes"}
  BY DEF Mark, AfterOpen
<1>. HIDE DEF e, s
<1>. QED BY <1>1, <1>2, <1>3, CloseKeepsInv DEF Mark

(***************************************************************************)
(* The event goes out, and the task is over.                               *)
(***************************************************************************)
LEMMA EmitKeepsInv ==
  ASSUME ExchangeInv, NEW c \in Slots, EmitError(c) \/ EmitCompleted(c)
  PROVE  ExchangeInv'
<1>1. PICK said \in {"error", "completed"} :
        /\ ex[c].pc = IF said = "error" THEN "emitError" ELSE "emit"
        /\ events' = [events EXCEPT ![c] = events[c] \cup {said}]
        /\ ex' = [ex EXCEPT ![c] = Idle]
        /\ UNCHANGED <<cap, bodies, rule, edit, record, label>>
  BY DEF EmitError, EmitCompleted, Emit, Ends
<1> DEFINE ev == events[c] \cup {said}
<1>2. ev = {said} /\ ev \in SUBSET {"completed", "error"}
  BY <1>1, TaskTypes DEF TaskOK, EventOK
<1>5. ~InFlight(c)
  BY <1>1, TaskTypes DEF TaskOK, OpenOK, InFlight
<1>3. Writes(c, Idle, cap[c], ev, bodies)
  BY <1>1, TaskTypes DEF Writes
<1>. HIDE DEF ev
<1>4. TaskOK(Idle, cap[c], ev, bodies) /\ SourceOK(Idle, cap)
  BY <1>1, <1>2, <1>5, TaskTypes, IdleIsExchange
  DEF InFlight, TaskOK, StampOK, ClearedOK, EventOK, OpenOK, BodyOK, SourceOK, AfterOpen, Replaying
<1>. QED BY <1>1, <1>2, <1>3, <1>4, TaskTypes, IdleIsExchange, WriteKeepsInv

-----------------------------------------------------------------------------
(***************************************************************************)
(* The steps of a replay.                                                  *)
(***************************************************************************)
LEMMA ReplaySendKeepsInv ==
  ASSUME ExchangeInv, NEW c \in Slots, NEW s, ReplaySend(c, s)
  PROVE  ExchangeInv'
<1> DEFINE e == [Idle EXCEPT !.pc = "replayBody", !.source = s]
           ev == {}
<1>1. s \in Slots \cup {NoSource} /\ (s # NoSource => cap[s] # NoRow) /\ cap[c] = NoRow
  BY DEF ReplaySend, Free
<1>2. /\ e \in Exchanges /\ e.pc = "replayBody" /\ e.rule = NoRule /\ e.mode = "none"
      /\ e.starved = FALSE /\ e.dropped = FALSE /\ e.source = s
  <2>1. "replayBody" \in Stages
    BY DEF Stages
  <2>. QED BY <1>1, <2>1, IdleIsExchange DEF Exchanges
<1>3. /\ Writes(c, e, cap[c], ev, bodies) /\ record' = record
      /\ ev \in SUBSET {"completed", "error"}
  BY TaskTypes DEF ReplaySend, Writes
<1>4. TaskOK(e, cap[c], ev, bodies) /\ SourceOK(e, cap)
  BY <1>1, <1>2 DEF TaskOK, StampOK, ClearedOK, EventOK, OpenOK, BodyOK, SourceOK, AfterOpen
<1>. HIDE DEF e, ev
<1>. QED BY <1>2, <1>3, <1>4, TaskTypes, WriteKeepsInv

LEMMA ReplayRowKeepsInv ==
  ASSUME ExchangeInv, NEW c \in Slots, ReplayRow(c)
  PROVE  ExchangeInv'
<1>1. CASE ex[c].body \in bodies
  <2> DEFINE e == WithBody(ex[c], "replayRecord", NoBody)
             r == [state |-> "completed", device |-> NoSource, req |-> NoBody, res |-> ex[c].body]
  <2>1. /\ e \in Exchanges /\ e.pc = "replayRecord"
        /\ SameMatch(e, ex[c]) /\ SameMarks(e, ex[c])
    <3>1. "replayRecord" \in Stages
      BY DEF Stages
    <3>. QED BY <3>1, TaskTypes, WithBodyFields
  <2>2. /\ r \in CapRows /\ r # NoRow /\ r.state = "completed" /\ r.req = NoBody
        /\ r.res = ex[c].body
    BY TaskTypes, ExchangeAssumption DEF Exchanges, CapRows, States
  <2>3. /\ Writes(c, e, r, events[c], bodies) /\ record' = record /\ ex[c].pc = "replayRow"
    <3>1. /\ ex' = [ex EXCEPT ![c] = e] /\ cap' = [cap EXCEPT ![c] = r]
          /\ UNCHANGED <<bodies, rule, edit, record, label, events>>
          /\ ex[c].pc = "replayRow"
      BY <1>1 DEF ReplayRow, WithBody
    <3>. HIDE DEF e, r
    <3>. QED BY <3>1, TaskTypes DEF Writes
  <2>. HIDE DEF e, r
  <2>4. TaskOK(e, r, events[c], bodies) /\ SourceOK(e, cap)
    BY <1>1, <2>1, <2>2, <2>3, TaskTypes
    DEF SameMatch, SameMarks, TaskOK, StampOK, ClearedOK, EventOK, OpenOK, BodyOK, SourceOK, AfterOpen, Replaying, Answered
  <2>. QED BY <2>1, <2>2, <2>3, <2>4, TaskTypes, WriteKeepsInv
<1>2. CASE ex[c].body \notin bodies
  <2>1. ex[c].cleared
    BY <1>2, TaskTypes DEF ReplayRow, TaskOK, ClearedOK
  <2>2. ~InFlight(c)
    BY ReplayIsNotInFlight DEF ReplayRow, Replaying
  <2>. QED BY <1>2, <2>1, <2>2, EndingKeepsInv DEF ReplayRow
<1>. QED BY <1>1, <1>2

LEMMA InsertRecordKeepsInv ==
  ASSUME ExchangeInv, NEW c \in Slots, InsertReplayRecord(c)
  PROVE  ExchangeInv'
<1>0. ~InFlight(c)
  BY ReplayIsNotInFlight DEF InsertReplayRecord, Replaying
<1> DEFINE found == cap[c] # NoRow /\ (ex[c].source = NoSource \/ cap[ex[c].source] # NoRow)
<1>1. CASE found
  <2> DEFINE rec == [source |-> ex[c].source, result |-> c]
  <2>1. Writes(c, Idle, cap[c], events[c], bodies) /\ record' = [record EXCEPT ![c] = rec]
    BY <1>1, TaskTypes DEF InsertReplayRecord, Ends, Writes
  <2>2. /\ rec \in [source : Slots \cup {NoSource}, result : Slots]
        /\ {rec.source, rec.result} = {ex[c].source, c}
        /\ record \in [Slots -> [source : Slots \cup {NoSource}, result : Slots] \cup {NoRow}]
    BY TaskTypes DEF Exchanges, ExchangeInv, ExchangeTypeOK
  <2>3. TaskOK(Idle, cap[c], events[c], bodies) /\ SourceOK(Idle, cap)
    BY <1>0, TaskTypes, IdleIsExchange
    DEF InFlight, InsertReplayRecord, TaskOK, StampOK, ClearedOK, EventOK, OpenOK, BodyOK, SourceOK, AfterOpen, Replaying
  <2>. HIDE DEF rec
  <2>4. /\ record' \in [Slots -> [source : Slots \cup {NoSource}, result : Slots] \cup {NoRow}]
        /\ record'[c] = rec /\ \A d \in Slots \ {c} : record'[d] = record[d]
    BY <2>1, <2>2
  <2>5. cap' = cap
    BY <1>1 DEF InsertReplayRecord
  <2>6. RecordInv'
    BY <1>1, <2>2, <2>4, <2>5 DEF ExchangeInv, RecordInv
  <2>. QED BY <2>1, <2>3, <2>4, <2>6, TaskTypes, IdleIsExchange, WriteKeepsInv
<1>2. CASE ~found
  <2>1. ex[c].cleared
    BY <1>2, TaskTypes DEF InsertReplayRecord, TaskOK, ClearedOK, SourceOK, Replaying
  <2>. QED BY <1>0, <1>2, <2>1, EndingKeepsInv DEF InsertReplayRecord
<1>. QED BY <1>1, <1>2

-----------------------------------------------------------------------------
(***************************************************************************)
(* Clear takes every row, and every body no rule serves; whoever is under  *)
(* way is marked.                                                          *)
(***************************************************************************)
LEMMA ClearKeepsInv ==
  ASSUME ExchangeInv, ClearCaptures
  PROVE  ExchangeInv'
<1>2. /\ record' = [c \in Slots |-> NoRow] /\ cap' = [c \in Slots |-> NoRow]
      /\ ex' = [c \in Slots |-> [ex[c] EXCEPT !.cleared = ex[c].pc # "idle" \/ @]]
      /\ UNCHANGED <<rule, edit, label, events>>
  BY DEF ClearCaptures, Detached
<1>3. bodies' = bodies \cap RuleBodies
  BY DEF ClearCaptures, Garbage
<1>4. ASSUME NEW c \in Slots
      PROVE  /\ ex'[c] \in Exchanges /\ TaskOK(ex'[c], cap'[c], events'[c], bodies')
             /\ SourceOK(ex'[c], cap')
  <2> DEFINE e == WithCleared(ex[c])
  <2>1. /\ e \in Exchanges /\ e.pc = ex[c].pc /\ SameMatch(e, ex[c]) /\ e.starved = ex[c].starved /\ e.dropped = ex[c].dropped
        /\ e.cleared = (ex[c].pc # "idle" \/ ex[c].cleared)
    BY TaskTypes, WithClearedFields
  <2>2. ex'[c] = e /\ cap'[c] = NoRow /\ events'[c] = events[c]
    BY <1>2 DEF WithCleared
  <2>. HIDE DEF e
  <2>3. ex[c].pc # "idle" => e.cleared
    BY <2>1
  <2>4. /\ StampOK(e, NoRow) /\ EventOK(e, NoRow, events[c])
        /\ OpenOK(e, NoRow) /\ BodyOK(e, NoRow, bodies')
    BY <2>1, TaskTypes DEF SameMatch, TaskOK, StampOK, EventOK, OpenOK, BodyOK
  <2>5. ClearedOK(e, NoRow, bodies') /\ SourceOK(e, cap')
    BY <2>1, <2>3, TaskTypes DEF TaskOK, ClearedOK, SourceOK, AfterOpen, Replaying
  <2>. QED BY <2>1, <2>2, <2>4, <2>5 DEF TaskOK
<1>5. ExchangeTypeOK'
  <2>1. ex' \in [Slots -> Exchanges]
    BY <1>2, <1>4
  <2>2. bodies' \subseteq Bodies
    BY <1>3 DEF ExchangeInv, ExchangeTypeOK
  <2>. QED BY <1>2, <1>3, <2>1, <2>2 DEF ExchangeInv, ExchangeTypeOK
<1>6. RuleInv'
  BY <1>2, <1>3 DEF ExchangeInv, RuleInv, RuleBodies
<1>7. RecordInv'
  BY <1>2 DEF RecordInv
<1>. QED BY <1>3, <1>4, <1>5, <1>6, <1>7 DEF ExchangeInv, TasksInv

(***************************************************************************)
(* The rule editor and the port's label touch no task.                     *)
(***************************************************************************)
LEMMA OthersKeepTasks ==
  ASSUME ExchangeInv, UNCHANGED <<ex, cap, events, record>>, bodies \subseteq bodies'
  PROVE  TasksInv' /\ RecordInv'
<1>1. ASSUME NEW c \in Slots
      PROVE  TaskOK(ex[c], cap[c], events[c], bodies')
  BY TaskTypes DEF TaskOK, ClearedOK, BodyOK
<1>. QED BY <1>1 DEF ExchangeInv, TasksInv, RecordInv

LEMMA EditKeepsInv ==
  ASSUME ExchangeInv, EditRules
  PROVE  ExchangeInv'
<1>1. ASSUME NEW r \in Rules, UpsertBody(r)
      PROVE  ExchangeInv'
  <2>1. NextBody \in Bodies
    BY <1>1, FreshBody DEF UpsertBody
  <2>2. TasksInv' /\ RecordInv'
    BY <1>1, OthersKeepTasks DEF UpsertBody
  <2>3. ExchangeTypeOK'
    BY <1>1, <2>1 DEF UpsertBody, ExchangeInv, ExchangeTypeOK
  <2>. QED BY <1>1, <2>2, <2>3 DEF UpsertBody, ExchangeInv, RuleInv
<1>2. ASSUME NEW r \in Rules, DeleteRule(r)
      PROVE  ExchangeInv'
  <2>1. TasksInv' /\ RecordInv'
    BY <1>2, OthersKeepTasks DEF DeleteRule
  <2>2. ExchangeTypeOK' /\ RuleInv'
    BY <1>2 DEF DeleteRule, Deleted, ExchangeInv, ExchangeTypeOK, RuleInv
  <2>. QED BY <1>2, <2>1, <2>2 DEF DeleteRule, ExchangeInv
<1>3. ASSUME NEW s \in Scopes, NEW mode \in {"stub", "patch"}, UpsertRow(s, mode)
      PROVE  ExchangeInv'
  <2>1. TasksInv' /\ RecordInv'
    BY <1>3, OthersKeepTasks DEF UpsertRow
  <2>2. ExchangeTypeOK' /\ RuleInv'
    <3> DEFINE row == [live |-> {s}, body |-> edit.body, mode |-> mode]
    <3>1. CASE edit.body \in bodies
      <4>1. /\ row \in [live : SUBSET Scopes, body : Bodies \cup {NoBody}, mode : {"stub", "patch"}]
            /\ row.body \in bodies
        BY <3>1 DEF ExchangeInv, ExchangeTypeOK
      <4>2. /\ rule' = [rule EXCEPT ![edit.rule] = row] /\ edit.rule \in Rules \cup {NoRule}
            /\ edit' = [rule |-> NoRule, body |-> NoBody]
            /\ UNCHANGED <<ex, cap, bodies, record, label, events>>
        BY <1>3, <3>1 DEF UpsertRow, ExchangeInv, ExchangeTypeOK
      <4>. HIDE DEF row
      <4>. QED BY <4>1, <4>2 DEF ExchangeInv, ExchangeTypeOK, RuleInv
    <3>2. CASE edit.body \notin bodies
      BY <1>3, <3>2 DEF UpsertRow, ExchangeInv, ExchangeTypeOK, RuleInv
    <3>. QED BY <3>1, <3>2
  <2>. QED BY <1>3, <2>1, <2>2 DEF UpsertRow, ExchangeInv
<1>4. ASSUME NEW r \in Rules, NEW c \in Slots, EditFromResponse(r, c)
      PROVE  ExchangeInv'
  <2>1. TasksInv' /\ RecordInv'
    BY <1>4, OthersKeepTasks DEF EditFromResponse
  <2>2. cap[c].res \in Bodies \cup {NoBody}
    BY <1>4, TaskTypes DEF EditFromResponse, CapRows
  <2>3. ExchangeTypeOK' /\ RuleInv'
    BY <1>4, <2>2 DEF EditFromResponse, ExchangeInv, ExchangeTypeOK, RuleInv
  <2>. QED BY <1>4, <2>1, <2>3 DEF EditFromResponse, ExchangeInv
<1>. QED BY <1>1, <1>2, <1>3, <1>4 DEF EditRules

LEMMA RelabelKeepsInv ==
  ASSUME ExchangeInv, NEW s \in Scopes, Relabel(s) \/ UNCHANGED exVars
  PROVE  ExchangeInv'
<1>1. UNCHANGED <<ex, cap, bodies, rule, edit, record, events>> /\ label' \in Scopes
  BY TaskTypes DEF Relabel, exVars, ExchangeInv, ExchangeTypeOK
<1>2. TasksInv' /\ RecordInv'
  BY <1>1, OthersKeepTasks
<1>. QED BY <1>1, <1>2 DEF ExchangeInv, ExchangeTypeOK, RuleInv

-----------------------------------------------------------------------------
LEMMA ExchangeInitInv ==
  ASSUME ExchangeInit
  PROVE  ExchangeInv
<1>1. \A c \in Slots : ex[c] = Idle /\ cap[c] = NoRow /\ events[c] = {} /\ record[c] = NoRow
  BY DEF ExchangeInit
<1>2. TasksInv
  BY <1>1, IdleIsExchange
  DEF TasksInv, TaskOK, StampOK, ClearedOK, EventOK, OpenOK, BodyOK, SourceOK, AfterOpen, Replaying
<1>3. ExchangeTypeOK
  BY IdleIsExchange DEF ExchangeInit, ExchangeTypeOK, Deleted
<1>. QED BY <1>1, <1>2, <1>3 DEF ExchangeInit, ExchangeInv, RuleInv, RecordInv, Deleted

LEMMA HandleKeepsInv ==
  ASSUME ExchangeInv, NEW c \in Conns, Handle(c)
  PROVE  ExchangeInv'
<1>1. c \in Slots
  BY DEF Slots
<1>2. CASE Connect(c) \/ Open(c)
  BY <1>1, <1>2, ConnectKeepsInv, OpenKeepsInv
<1>3. CASE Drop(c)
  BY <1>1, <1>3, DropKeepsInv
<1>4. CASE EmptyTlsRequest(c)
  BY <1>1, <1>4, EmptyTlsKeepsInv
<1>5. CASE ReqHeaders(c) \/ ResHeaders(c)
  BY <1>1, <1>5, HeadersKeepInv
<1>6. CASE ReqBody(c)
  <2>1. CASE Put(c, "setReq")
    BY <1>1, <1>6, <2>1, PutKeepsInv DEF ReqBody, AfterOpen
  <2>2. CASE Goto(c, "match") /\ UNCHANGED <<cap, bodies, rule, edit, record, label, events>>
    BY <1>1, <1>6, <2>2, GotoKeepsInv DEF ReqBody, AfterOpen
  <2>. QED BY <1>6, <2>1, <2>2 DEF ReqBody
<1>7. CASE ResBody(c)
  BY <1>1, <1>7, PutKeepsInv DEF ResBody, AfterOpen
<1>8. CASE SetReqBody(c) \/ SetResBody(c)
  BY <1>1, <1>8, SetBodyKeepsInv
<1>9. CASE MatchRules(c) \/ Forward(c)
  BY <1>1, <1>9, MatchKeepsInv, ForwardKeepsInv
<1>10. CASE EmitError(c) \/ EmitCompleted(c)
  BY <1>1, <1>10, EmitKeepsInv
<1>11. CASE Mark(c)
  BY <1>1, <1>11, MarkKeepsInv
<1>. QED BY <1>2, <1>3, <1>4, <1>5, <1>6, <1>7, <1>8, <1>9, <1>10, <1>11 DEF Handle

LEMMA ReplayKeepsInv ==
  ASSUME ExchangeInv, NEW c \in Replays, Replay(c)
  PROVE  ExchangeInv'
<1>1. c \in Slots
  BY DEF Slots
<1>2. CASE \E s \in Slots \cup {NoSource} : ReplaySend(c, s)
  BY <1>1, <1>2, ReplaySendKeepsInv
<1>3. CASE ReplayFails(c)
  BY <1>1, <1>3, EndingKeepsInv, ReplayIsNotInFlight DEF ReplayFails, Replaying
<1>4. CASE ReplayBody(c)
  BY <1>1, <1>4, PutKeepsInv DEF ReplayBody
<1>5. CASE ReplayRow(c) \/ InsertReplayRecord(c)
  BY <1>1, <1>5, ReplayRowKeepsInv, InsertRecordKeepsInv
<1>. QED BY <1>2, <1>3, <1>4, <1>5 DEF Replay

(***************************************************************************)
(* Every step keeps the invariant.                                         *)
(***************************************************************************)
LEMMA ExchangeStepInv ==
  ASSUME ExchangeInv, [ExchangeNext]_exVars
  PROVE  ExchangeInv'
<1>1. ASSUME NEW c \in Conns, Handle(c) PROVE ExchangeInv'
  BY <1>1, HandleKeepsInv
<1>2. ASSUME NEW c \in Replays, Replay(c) PROVE ExchangeInv'
  BY <1>2, ReplayKeepsInv
<1>3. CASE ClearCaptures
  BY <1>3, ClearKeepsInv
<1>4. CASE EditRules
  BY <1>4, EditKeepsInv
<1>5. CASE (\E s \in Scopes : Relabel(s)) \/ UNCHANGED exVars
  <2>1. label \in Scopes
    BY DEF ExchangeInv, ExchangeTypeOK
  <2>. QED BY <1>5, <2>1, RelabelKeepsInv
<1>. QED BY <1>1, <1>2, <1>3, <1>4, <1>5 DEF ExchangeNext

LEMMA ExchangeInvariant == ExchangeSpec => []ExchangeInv
  BY ExchangeInitInv, ExchangeStepInv, PTL DEF ExchangeSpec

(***************************************************************************)
(* The state of the proxy's tasks, of the tables they write and of what    *)
(* was broadcast has its type, for every number of connections, replays,   *)
(* rules and bodies.                                                       *)
(***************************************************************************)
THEOREM ExchangeTypeCorrect == ExchangeSpec => []ExchangeTypeOK
  BY ExchangeInvariant, PTL DEF ExchangeInv

(***************************************************************************)
(* SQLite's foreign keys hold after every turn with the store: the bodies  *)
(* of captures and rules and both ends of a replay record exist.           *)
(***************************************************************************)
THEOREM ForeignKeys == ExchangeSpec => []ForeignKeysHold
<1>1. ExchangeInv => ForeignKeysHold
  <2>. SUFFICES ASSUME ExchangeInv PROVE ForeignKeysHold
    OBVIOUS
  <2>1. CapBodies \subseteq bodies
    <3>1. \A c \in Slots : cap[c] # NoRow => {cap[c].req, cap[c].res} \subseteq bodies \cup {NoBody}
      BY TaskTypes DEF TaskOK, BodyOK
    <3>2. ASSUME NEW b \in CapBodies
          PROVE  b \in bodies
      <4>1. PICK c \in {d \in Slots : cap[d] # NoRow} : b \in {cap[c].req, cap[c].res}
        BY DEF CapBodies
      <4>2. b # NoBody
        BY DEF CapBodies
      <4>. QED BY <3>1, <4>1, <4>2
    <3>. QED BY <3>2
  <2>2. RuleBodies \subseteq bodies
    BY DEF ExchangeInv, RuleInv, RuleBodies
  <2>. QED BY <2>1, <2>2 DEF ExchangeInv, RecordInv, ForeignKeysHold
<1>. QED BY <1>1, ExchangeInvariant, PTL

(***************************************************************************)
(* A mock answers only requests of the device it was asked for, an event   *)
(* goes out only when the row says the same, nothing but a Clear makes a   *)
(* task fail in the store, and no row stays in flight but that of a        *)
(* request that was dropped (proxy_loop.rs).                               *)
(***************************************************************************)
THEOREM RowsAreTrue == ExchangeSpec => []RowsTellTheTruth
<1>1. ExchangeInv => RowsTellTheTruth
  <2>. SUFFICES ASSUME ExchangeInv PROVE RowsTellTheTruth
    OBVIOUS
  <2>1. MockIsForTheRowsDevice
    BY TaskTypes DEF MockIsForTheRowsDevice, TaskOK, StampOK
  <2>2. EventAfterRow
    BY TaskTypes DEF EventAfterRow, TaskOK, EventOK, Answered
  <2>3. OnlyClearStarves
    BY TaskTypes DEF OnlyClearStarves, TaskOK, ClearedOK
  <2>4. OnlyDroppedStayOpen
    BY TaskTypes DEF OnlyDroppedStayOpen, TaskOK, OpenOK, AfterOpen
  <2>. QED BY <2>1, <2>2, <2>3, <2>4 DEF RowsTellTheTruth
<1>. QED BY <1>1, ExchangeInvariant, PTL

-----------------------------------------------------------------------------
(* The filter language (CaptureFilter).                                       *)
(***************************************************************************)
(* What a stage of the exchange has not written yet is not in the row.     *)
(***************************************************************************)
TokenOK(t) ==
  /\ t = [key |-> t.key, neg |-> t.neg, values |-> t.values]
  /\ t.key \in Keys \cup {"unknown"}

FilterInv ==
  /\ RowShape(capture)
  /\ progress # "over" => capture.state = "in_flight"
  /\ progress \notin {"answered", "over"} => capture.mime = Null
  /\ \A i \in DOMAIN typed : TokenOK(typed[i])

LEMMA MethodRow ==
  ASSUME FilterInv, MethodRead
  PROVE  /\ FilterInv'
         /\ \A col \in Columns \ {"method"} : capture'[col] = capture[col]
<1>1. PICK m : /\ capture' = [capture EXCEPT !.method = m]
               /\ m # Null
  BY FilterAssumption DEF MethodRead, FilterInv, RowShape
<1>2. DOMAIN capture' = Columns /\ \A col \in Columns \ {"method"} : capture'[col] = capture[col]
  BY <1>1 DEF FilterInv, RowShape
<1>3. capture'.method = m
  BY <1>1 DEF FilterInv, RowShape, Columns
<1>4. RowShape(capture')
  BY <1>1, <1>2, <1>3 DEF FilterInv, RowShape, Columns
<1>5. /\ progress = "opened" /\ progress' = "method" /\ typed' = typed
      /\ capture'.state = capture.state /\ capture'.mime = capture.mime
  BY <1>2 DEF MethodRead, Columns
<1>. QED BY <1>2, <1>4, <1>5 DEF FilterInv

LEMMA PathRow ==
  ASSUME FilterInv, PathRead
  PROVE  /\ FilterInv'
         /\ \A col \in Columns \ {"path"} : capture'[col] = capture[col]
<1>1. PICK p : /\ capture' = [capture EXCEPT !.path = p]
               /\ p # Null
  BY FilterAssumption DEF PathRead
<1>2. DOMAIN capture' = Columns /\ \A col \in Columns \ {"path"} : capture'[col] = capture[col]
  BY <1>1 DEF FilterInv, RowShape
<1>3. capture'.path = p
  BY <1>1 DEF FilterInv, RowShape, Columns
<1>4. RowShape(capture')
  BY <1>1, <1>2, <1>3 DEF FilterInv, RowShape, Columns
<1>5. /\ progress = "method" /\ progress' = "read" /\ typed' = typed
      /\ capture'.state = capture.state /\ capture'.mime = capture.mime
  BY <1>2 DEF PathRead, Columns
<1>. QED BY <1>2, <1>4, <1>5 DEF FilterInv

LEMMA HeadersRow ==
  ASSUME FilterInv, HeadersWritten
  PROVE  /\ FilterInv'
         /\ \A col \in Columns \ {"mime"} : capture'[col] = capture[col]
<1>1. PICK m : capture' = [capture EXCEPT !.mime = m]
  BY DEF HeadersWritten
<1>2. DOMAIN capture' = Columns /\ \A col \in Columns \ {"mime"} : capture'[col] = capture[col]
  BY <1>1 DEF FilterInv, RowShape
<1>3. RowShape(capture')
  BY <1>2 DEF FilterInv, RowShape, Columns
<1>4. progress = "read" /\ progress' = "answered" /\ typed' = typed /\ capture'.state = capture.state
  BY <1>2 DEF HeadersWritten, Columns
<1>. QED BY <1>2, <1>3, <1>4 DEF FilterInv

LEMMA EndedRow ==
  ASSUME FilterInv, EndExchange
  PROVE  /\ FilterInv'
         /\ \A col \in {"host", "path", "method", "mime", "device"} : capture'[col] = capture[col]
<1>0. {x \in Endings : x.state \in Ways} \subseteq Endings
  OBVIOUS
<1>1. PICK e \in Endings :
        capture' = [capture EXCEPT !.state = e.state, !.status = e.status, !.size = e.size, !.duration = e.duration,
                                   !.error = e.error, !.rule = e.rule, !.ruleId = e.rule]
  BY <1>0, Zenon DEF EndExchange
<1>2. /\ DOMAIN capture' = Columns /\ capture'.state = e.state /\ capture'.size = e.size
      /\ capture'.rule = e.rule /\ capture'.ruleId = e.rule
  BY <1>1 DEF FilterInv, RowShape, Columns
<1>3. \A col \in {"host", "path", "method", "mime", "device"} : capture'[col] = capture[col]
  BY <1>1 DEF FilterInv, RowShape, Columns
<1>4. e.state \notin {"in_flight", Null} /\ e.size # Null
  BY FilterAssumption
<1>5. RowShape(capture')
  BY <1>2, <1>3, <1>4 DEF FilterInv, RowShape
<1>6. progress' = "over" /\ typed' = typed
  BY DEF EndExchange
<1>. QED BY <1>3, <1>5, <1>6 DEF FilterInv

LEMMA FilterInvariant == FilterSpec => []FilterInv
<1>1. FilterInit => FilterInv
  BY FilterAssumption DEF FilterInit, FilterInv, TokenOK
<1>2. FilterInv /\ [FilterNext]_filterVars => FilterInv'
  <2>1. ASSUME FilterInv, FilterNext PROVE FilterInv'
    BY <2>1, MethodRow, PathRow, HeadersRow, EndedRow DEF FilterNext
  <2>. QED BY <2>1 DEF FilterInv, filterVars
<1>. QED BY <1>1, <1>2, PTL DEF FilterSpec

(***************************************************************************)
(* SQL's connectives, as far as WHERE asks: is the result true?            *)
(***************************************************************************)
Values3 == {"true", "false", Null}

LEMMA Connectives ==
  ASSUME NEW vals \in SUBSET Values3
  PROVE  /\ AndAll(vals) \in Values3 /\ (AndAll(vals) = "true" <=> \A v \in vals : v = "true")
         /\ OrAny(vals) \in Values3 /\ (OrAny(vals) = "true" <=> "true" \in vals)
  BY DEF Values3, AndAll, OrAny, Null

LEMMA Negation3 ==
  ASSUME NEW v \in Values3
  PROVE  Not3(v) \in Values3 /\ (Not3(v) = "true" <=> v = "false")
  BY DEF Values3, Not3, Null

LEMMA Truth3 ==
  ASSUME NEW b \in BOOLEAN
  PROVE  Sql3(b) \in {"true", "false"} /\ (Sql3(b) = "true" <=> b)
  BY DEF Sql3

LEMMA Tests3 ==
  ASSUME NEW x, NEW value
  PROVE  /\ Like(x, value) \in Values3 /\ (x = Null <=> Like(x, value) = Null)
         /\ Same(x, value) \in Values3 /\ (x = Null <=> Same(x, value) = Null)
         /\ InRange(x, value) \in Values3 /\ (x # Null => InRange(x, value) # Null)
  BY DEF Like, Same, InRange, Sql3, Values3, Null

LEMMA Positive3 ==
  ASSUME NEW key \in Keys, NEW value, NEW c
  PROVE  Positive(key, value, c) \in Values3
<1>1. {Like(c.rule, value), Same(c.ruleId, value)} \in SUBSET Values3
  BY Tests3
<1>2. {Like(c.host, value), Like(c.path, value)} \in SUBSET Values3
  BY Tests3
<1>3. OfDevice(c, value) \in Values3
  BY Tests3 DEF OfDevice, Sql3, Values3, Null
<1>4. Sql3(c.mime # Null /\ c.mime \in value.finds) \in Values3
  BY DEF Sql3, Values3
<1>. QED BY <1>1, <1>2, <1>3, <1>4, Tests3, Connectives DEF Positive, Keys

(***************************************************************************)
(* One alternative: a row never has it and lacks it, and a row that has    *)
(* the column it speaks of does one or the other.                          *)
(***************************************************************************)
LEMMA RuleAlternative ==
  ASSUME NEW value, NEW c, RowShape(c)
  PROVE  /\ Negative("rule", value, c) \in Values3
         /\ Negative("rule", value, c) = "true" <=> Positive("rule", value, c) # "true"
<1> DEFINE like == Like(c.rule, value)
           same == Same(c.ruleId, value)
           other == Sql3(c.ruleId # value.text)
           both == AndAll({Not3(like), other})
<1>1. /\ Negative("rule", value, c) = OrAny({Sql3(c.rule = Null), both})
      /\ Positive("rule", value, c) = OrAny({like, same})
  BY DEF Negative, Positive
<1>2. /\ like \in Values3 /\ (c.rule = Null <=> like = Null)
      /\ same \in Values3 /\ (c.ruleId = Null <=> same = Null)
      /\ c.ruleId # Null => (same = "true" <=> c.ruleId = value.text)
      /\ other \in Values3 /\ (other = "true" <=> c.ruleId # value.text)
      /\ c.rule = Null <=> c.ruleId = Null
  BY Tests3 DEF Same, Sql3, Values3, RowShape, Null
<1>3. Sql3(c.rule = Null) \in Values3 /\ (Sql3(c.rule = Null) = "true" <=> c.rule = Null)
  BY DEF Sql3, Values3
<1>. HIDE DEF like, same, other
<1>4. both \in Values3 /\ (both = "true" <=> like = "false" /\ other = "true")
  <2>1. {Not3(like), other} \in SUBSET Values3 /\ (Not3(like) = "true" <=> like = "false")
    BY <1>2, Negation3
  <2>. QED BY <2>1, Connectives
<1>. HIDE DEF both
<1>5. /\ OrAny({Sql3(c.rule = Null), both}) \in Values3
      /\ OrAny({Sql3(c.rule = Null), both}) = "true" <=> c.rule = Null \/ both = "true"
  <2>1. {Sql3(c.rule = Null), both} \in SUBSET Values3
    BY <1>3, <1>4
  <2>. QED BY <1>3, <2>1, Connectives
<1>6. OrAny({like, same}) = "true" <=> like = "true" \/ same = "true"
  BY <1>2, Connectives
<1>. QED BY <1>1, <1>2, <1>4, <1>5, <1>6 DEF Values3, Null

LEMMA Alternative ==
  ASSUME NEW key \in Keys, NEW value, NEW c, RowShape(c)
  PROVE  /\ Negative(key, value, c) \in Values3
         /\ ~(Negative(key, value, c) = "true" /\ Positive(key, value, c) = "true")
         /\ Has(key, c) => Negative(key, value, c) = "true" \/ Positive(key, value, c) = "true"
<1>1. CASE key = "rule"
  BY <1>1, RuleAlternative
<1>2. CASE key # "rule"
  <2>1. Negative(key, value, c) = Not3(Positive(key, value, c))
    BY <1>2 DEF Negative
  <2>2. Positive(key, value, c) \in Values3
    BY Positive3
  <2>3. Has(key, c) => Positive(key, value, c) # Null
    <3>. SUFFICES ASSUME Has(key, c) PROVE Positive(key, value, c) # Null
      OBVIOUS
    <3>1. c.host # Null /\ c.path # Null /\ c.method # Null /\ c.state # Null /\ c.size # Null
      BY DEF RowShape
    <3>2. CASE key \in {"host", "path", "method", "state"}
      BY <3>1, <3>2, Tests3 DEF Positive
    <3>3. CASE key \in {"error", "status", "duration"}
      BY <3>3, Tests3 DEF Positive, Has
    <3>7. CASE key = "size"
      BY <3>1, <3>7, Tests3 DEF Positive
    <3>4. CASE key = "mime"
      BY <3>4 DEF Positive, Sql3, Null
    <3>5. CASE key = "device"
      <4>1. Same(c.device, value) # Null
        BY <3>5, Tests3 DEF Has
      <4>. QED BY <3>5, <4>1 DEF Positive, Has, OfDevice, Sql3, Null
    <3>6. CASE key = "bare"
      <4>1. Like(c.host, value) # Null /\ Like(c.path, value) # Null
        BY <3>1, Tests3
      <4>. QED BY <3>6, <4>1 DEF Positive, OrAny, Null
    <3>. QED BY <1>2, <3>2, <3>3, <3>4, <3>5, <3>6, <3>7 DEF Keys
  <2>. QED BY <2>1, <2>2, <2>3, Negation3 DEF Values3
<1>. QED BY <1>1, <1>2

(***************************************************************************)
(* A token and its negation.                                               *)
(***************************************************************************)
Given(t)      == {t.values[i] : i \in DOMAIN t.values}
Matched(t, c) == Clause(t, c) = "true"

LEMMA ClauseMeans ==
  ASSUME NEW t, t.key \in Keys, NEW c, RowShape(c)
  PROVE  /\ Clause(t, c) \in Values3
         /\ t.neg => (Matched(t, c) <=> \A v \in Given(t) : Negative(t.key, v, c) = "true")
         /\ ~t.neg => (Matched(t, c) <=> \E v \in Given(t) : Positive(t.key, v, c) = "true")
<1> DEFINE V == Given(t)
           neg == {Negative(t.key, v, c) : v \in V}
           pos == {Positive(t.key, v, c) : v \in V}
<1>1. neg \in SUBSET Values3 /\ pos \in SUBSET Values3
  BY Alternative, Positive3
<1>2. Clause(t, c) = IF t.neg THEN AndAll(neg) ELSE OrAny(pos)
  BY DEF Clause, Given
<1>3. /\ AndAll(neg) \in Values3 /\ (AndAll(neg) = "true" <=> \A n \in neg : n = "true")
      /\ OrAny(pos) \in Values3 /\ (OrAny(pos) = "true" <=> "true" \in pos)
  BY <1>1, Connectives
<1>. QED BY <1>2, <1>3 DEF Matched

LEMMA TokensSplit ==
  ASSUME NEW t, TokenOK(t), t.key \in Keys, NEW c, RowShape(c),
         NEW p, p = [t EXCEPT !.neg = FALSE], NEW n, n = [t EXCEPT !.neg = TRUE]
  PROVE  /\ ~(Matched(p, c) /\ Matched(n, c))
         /\ Has(t.key, c) => Matched(p, c) \/ Matched(n, c)
<1>1. /\ p.key = t.key /\ p.values = t.values /\ p.neg = FALSE /\ TokenOK(p)
      /\ n.key = t.key /\ n.values = t.values /\ n.neg = TRUE /\ TokenOK(n)
  BY DEF TokenOK
<1>2. Given(p) = Given(t) /\ Given(n) = Given(t)
  BY <1>1 DEF Given
<1>3. Matched(p, c) <=> \E v \in Given(t) : Positive(t.key, v, c) = "true"
  <2>1. Matched(p, c) <=> \E v \in Given(p) : Positive(p.key, v, c) = "true"
    BY <1>1, ClauseMeans
  <2>. QED BY <1>1, <1>2, <2>1
<1>4. Matched(n, c) <=> \A v \in Given(t) : Negative(t.key, v, c) = "true"
  <2>1. Matched(n, c) <=> \A v \in Given(n) : Negative(n.key, v, c) = "true"
    BY <1>1, ClauseMeans
  <2>. QED BY <1>1, <1>2, <2>1
<1>. QED BY <1>3, <1>4, Alternative

(***************************************************************************)
(* WHERE is the conjunction of the tokens.                                 *)
(***************************************************************************)
LEMMA MatchesMeans ==
  ASSUME NEW tokens, NEW c, RowShape(c), Prepares(tokens),
         \A i \in DOMAIN tokens : TokenOK(tokens[i])
  PROVE  Matches(tokens, c) <=> \A i \in DOMAIN tokens : Matched(tokens[i], c)
<1>1. \A i \in DOMAIN tokens : tokens[i].key \in Keys
  BY DEF Prepares, Compiles, TokenOK
<1> DEFINE vals == {Clause(tokens[i], c) : i \in DOMAIN tokens}
<1>2. vals \in SUBSET Values3
  BY <1>1, ClauseMeans
<1>3. AndAll(vals) = "true" <=> \A v \in vals : v = "true"
  BY <1>2, Connectives
<1>4. Matches(tokens, c) <=> AndAll(vals) = "true"
  BY DEF Matches, Where
<1>. HIDE DEF vals
<1>5. (\A v \in vals : v = "true") <=> \A i \in DOMAIN tokens : Matched(tokens[i], c)
  BY DEF vals, Matched
<1>. QED BY <1>3, <1>4, <1>5

LEMMA OneToken ==
  ASSUME NEW t, NEW c, RowShape(c), TokenOK(t), Prepares(<<t>>)
  PROVE  Matches(<<t>>, c) <=> Matched(t, c)
<1>1. DOMAIN <<t>> = {1} /\ <<t>>[1] = t
  OBVIOUS
<1>. QED BY <1>1, MatchesMeans

LEMMA AtMostOne ==
  ASSUME NEW S \in SUBSET BOOLEAN, S # BOOLEAN
  PROVE  Cardinality(S) <= 1
<1>1. CASE S = {}
  BY <1>1, FS_EmptySet
<1>2. CASE S # {}
  <2>1. PICK b \in BOOLEAN : S = {b}
    BY <1>2
  <2>. QED BY <2>1, FS_Singleton
<1>. QED BY <1>1, <1>2

(***************************************************************************)
(* No row is in a token's list and in its negation's, and a row that has   *)
(* the column is in one of them, for every token that can be typed, every  *)
(* row and every device table (filter_dsl.rs).                             *)
(***************************************************************************)
THEOREM NegationIsExact == FilterSpec => []NegationSplits
<1>1. ASSUME FilterInv
      PROVE  NegationSplits
  <2>. SUFFICES ASSUME NEW i \in DOMAIN typed, Prepares(<<typed[i]>>)
                PROVE  LET t == typed[i]
                           both == {b \in BOOLEAN : Matches(<<[t EXCEPT !.neg = b]>>, capture)}
                       IN  Cardinality(both) <= 1 /\ (Has(t.key, capture) => both # {})
    BY DEF NegationSplits
  <2> DEFINE t == typed[i]
             with(b) == [t EXCEPT !.neg = b]
             both == {b \in BOOLEAN : Matches(<<with(b)>>, capture)}
  <2>1. RowShape(capture) /\ TokenOK(t)
    BY <1>1 DEF FilterInv
  <2>2. DOMAIN <<t>> = {1} /\ <<t>>[1] = t
    OBVIOUS
  <2>3. t.key \in Keys /\ t.values # <<>>
    BY <2>1, <2>2 DEF Prepares, Compiles, TokenOK
  <2>. HIDE DEF t
  <2>4. ASSUME NEW b \in BOOLEAN
        PROVE  Matches(<<with(b)>>, capture) <=> Matched(with(b), capture)
    <3>1. TokenOK(with(b)) /\ with(b).key = t.key /\ with(b).values = t.values
      BY <2>1 DEF TokenOK
    <3>2. DOMAIN <<with(b)>> = {1} /\ <<with(b)>>[1] = with(b)
      OBVIOUS
    <3>. HIDE DEF with
    <3>3. Prepares(<<with(b)>>)
      BY <2>3, <3>1, <3>2 DEF Prepares, Compiles, Keys
    <3>. QED BY <2>1, <3>1, <3>3, OneToken
  <2>5. /\ ~(Matched(with(FALSE), capture) /\ Matched(with(TRUE), capture))
        /\ Has(t.key, capture) => Matched(with(FALSE), capture) \/ Matched(with(TRUE), capture)
    BY <2>1, <2>3, TokensSplit
  <2>. HIDE DEF with
  <2>6. both # BOOLEAN /\ (Has(t.key, capture) => both # {})
    BY <2>4, <2>5
  <2>7. Cardinality(both) <= 1
    BY <2>6, AtMostOne
  <2>. QED BY <2>6, <2>7 DEF t, with
<1>. QED BY <1>1, FilterInvariant, PTL

(***************************************************************************)
(* What a token asks of an exchange under way, and no placeholder stands   *)
(* for, no stage takes away.                                               *)
(***************************************************************************)
LEMMA AlternativeStays ==
  ASSUME FilterInv, FilterNext, NEW key \in Keys \ Placeholders, NEW value,
         Positive(key, value, capture) = "true"
  PROVE  Positive(key, value, capture') = "true"
<1>1. CASE MethodRead
  <2>1. key \notin {"method", "bare", "path", "state", "size"}
    BY <1>1 DEF MethodRead, Placeholders
  <2>2. \A col \in Columns \ {"method"} : capture'[col] = capture[col]
    BY <1>1, MethodRow
  <2>. QED BY <2>1, <2>2 DEF Positive, OfDevice, Keys, Columns
<1>2. CASE PathRead
  <2>1. key \notin {"method", "bare", "path", "state", "size"}
    BY <1>2 DEF PathRead, Placeholders
  <2>2. \A col \in Columns \ {"path"} : capture'[col] = capture[col]
    BY <1>2, PathRow
  <2>. QED BY <2>1, <2>2 DEF Positive, OfDevice, Keys, Columns
<1>3. CASE HeadersWritten
  <2>1. \A col \in Columns \ {"mime"} : capture'[col] = capture[col]
    BY <1>3, HeadersRow
  <2>2. capture.mime = Null
    BY <1>3 DEF FilterInv, HeadersWritten
  <2>3. key # "mime"
    BY <2>2 DEF Positive, Sql3
  <2>. QED BY <2>1, <2>3 DEF Positive, OfDevice, Keys, Columns
<1>4. CASE EndExchange
  <2>1. \A col \in {"host", "path", "method", "mime", "device"} : capture'[col] = capture[col]
    BY <1>4, EndedRow
  <2>2. capture.state = "in_flight"
    <3>1. progress # "over"
      BY <1>4 DEF EndExchange, Ways
    <3>. QED BY <3>1 DEF FilterInv
  <2>3. /\ capture.status = Null /\ capture.error = Null /\ capture.duration = Null
        /\ capture.rule = Null /\ capture.ruleId = Null
    BY <2>2 DEF FilterInv, RowShape
  <2>4. key \notin {"state", "size"}
    BY DEF Placeholders
  <2>5. CASE key \in {"host", "path", "method", "device", "bare", "mime"}
    BY <2>1, <2>5 DEF Positive, OfDevice
  <2>6. CASE key = "status"
    BY <2>3, <2>6 DEF Positive, InRange, Null
  <2>7. CASE key = "duration"
    BY <2>3, <2>7 DEF Positive, InRange, Null
  <2>8. CASE key \in {"error", "rule"}
    BY <2>3, <2>8 DEF Positive, Same, Like, Sql3, OrAny, Null
  <2>. QED BY <2>4, <2>5, <2>6, <2>7, <2>8 DEF Keys
<1>. QED BY <1>1, <1>2, <1>3, <1>4 DEF FilterNext

(***************************************************************************)
(* A capture that is listed stays listed, from the moment its row is       *)
(* opened to the end of its exchange, for every filter of positive tokens  *)
(* that asks for nothing a placeholder stands for: neither state nor size, *)
(* and method and path only once the request is read.                      *)
(***************************************************************************)
THEOREM ListedRowsStay == FilterSpec => ListedStaysListed
<1>1. ASSUME FilterInv, FilterInv', FilterNext, Matches(typed, capture),
             \A i \in DOMAIN typed : ~typed[i].neg /\ typed[i].key \notin Placeholders
      PROVE  Matches(typed', capture')
  <2>1. typed' = typed /\ Prepares(typed)
    <3>1. typed' = typed
      BY <1>1, Zenon DEF FilterNext, MethodRead, PathRead, HeadersWritten, EndExchange
    <3>. QED BY <1>1, <3>1 DEF Matches
  <2>2. \A i \in DOMAIN typed : Matched(typed[i], capture)
    BY <1>1, <2>1, MatchesMeans DEF FilterInv
  <2>3. ASSUME NEW i \in DOMAIN typed
        PROVE  Matched(typed[i], capture')
    <3>1. typed[i].key \in Keys \ Placeholders /\ ~typed[i].neg
      BY <1>1, <2>1 DEF FilterInv, TokenOK, Prepares, Compiles
    <3>2. PICK v \in Given(typed[i]) : Positive(typed[i].key, v, capture) = "true"
      BY <1>1, <2>2, <3>1, ClauseMeans DEF FilterInv
    <3>3. Positive(typed[i].key, v, capture') = "true"
      BY <1>1, <3>1, <3>2, AlternativeStays
    <3>. QED BY <1>1, <3>1, <3>3, ClauseMeans DEF FilterInv
  <2>. QED BY <1>1, <2>1, <2>3, MatchesMeans DEF FilterInv
<1>2. FilterInv /\ FilterInv' /\ [FilterNext]_filterVars =>
        [Matches(typed, capture)
           /\ (\A i \in DOMAIN typed : ~typed[i].neg /\ typed[i].key \notin Placeholders)
         => Matches(typed', capture')]_filterVars
  BY <1>1
<1>. QED BY <1>2, FilterInvariant, PTL DEF FilterSpec, ListedStaysListed

-----------------------------------------------------------------------------
(* Waiting for captures (CaptureWatch).                                       *)
(* The pieces of an exact wait.                                               *)
Over == {"done", "failed", "cleared"}

Tails == [pc : {"idle", "ready", "asked", "streaming", "ended"}, seen : Nat, got : SUBSET Captures,
          lags : Nat, missed : SUBSET Captures, code : {"none", "error", "ok", "timeout"}]

Feeds == [on : BOOLEAN, queue : Seq(Captures), skipped : Nat]

Polls == [pc : {"idle", "polling", "error", "met", "short"}, baseline : SUBSET Captures,
          old : SUBSET Captures, late : BOOLEAN, result : SUBSET Captures]

WatchTyped ==
    /\ asks \in {"start", "end", "unless"} /\ up \in BOOLEAN
    /\ stored \in [Captures -> {"none", "open", "done", "failed", "cleared"}]
    /\ feed \in Feeds /\ tail \in Tails /\ poll \in Polls

Elems(s) == {s[i] : i \in 1..Len(s)}

OnceEach(s) == \A i, j \in 1..Len(s) : i # j => s[i] # s[j]

(* What is queued is over, is there once, and was not handed over before; a   *)
(* queue is there only once the server subscribed.                            *)
FeedInv ==
    /\ OnceEach(feed.queue)
    /\ \A c \in Elems(feed.queue) : stored[c] \in Over /\ c \notin tail.got /\ c \notin tail.missed
    /\ feed.on => tail.pc \in {"streaming", "ended"}
    /\ ~feed.on => feed.queue = <<>>
    /\ \A c \in tail.missed : stored[c] \in Over

Later(c) == {d \in Captures : MatchesNow(d) /\ d > c}

(* A row that was over and not listed when the wait began is never listed, if *)
(* rows that match go on to match.                                            *)
PollInv ==
    /\ \A c \in poll.old : stored[c] \in Over
    /\ asks # "unless" => \A c \in poll.old \ poll.baseline : MatchesNow(c) => Cardinality(Later(c)) >= ListLimit
    /\ poll.pc \in {"idle", "polling"} => poll.result = {}

WatchInv == WatchTyped /\ FeedInv /\ PollInv /\ WaitingIsExact

-----------------------------------------------------------------------------
LEMMA QueueOffered ==
    ASSUME NEW s \in Seq(Captures), NEW c \in Captures
    PROVE  /\ Append(s, c) \in Seq(Captures)
           /\ Elems(Append(s, c)) = Elems(s) \cup {c}
           /\ OnceEach(s) /\ c \notin Elems(s) => OnceEach(Append(s, c))
BY DEF Elems, OnceEach

LEMMA QueueTaken ==
    ASSUME NEW s \in Seq(Captures), s # <<>>
    PROVE  /\ Head(s) \in Elems(s) /\ Head(s) \in Captures
           /\ Tail(s) \in Seq(Captures) /\ Elems(Tail(s)) \subseteq Elems(s)
           /\ OnceEach(s) => OnceEach(Tail(s)) /\ Head(s) \notin Elems(Tail(s))
<1>1. Head(s) = s[1] /\ Len(s) \in Nat \ {0}
    OBVIOUS
<1>2. Tail(s) \in Seq(Captures) /\ Len(Tail(s)) = Len(s) - 1
    OBVIOUS
<1>3. \A i \in 1..Len(Tail(s)) : Tail(s)[i] = s[i + 1] /\ i + 1 \in 1..Len(s)
    OBVIOUS
<1>4. Head(s) \in Elems(s) /\ Head(s) \in Captures
    BY <1>1 DEF Elems
<1>5. Elems(Tail(s)) \subseteq Elems(s)
    BY <1>3 DEF Elems
<1>6. ASSUME OnceEach(s) PROVE OnceEach(Tail(s))
    BY <1>1, <1>2, <1>3, <1>6 DEF OnceEach
<1>7. ASSUME OnceEach(s) PROVE Head(s) \notin Elems(Tail(s))
    <2>1. SUFFICES ASSUME NEW i \in 1..Len(Tail(s)), s[1] = Tail(s)[i] PROVE FALSE
        BY <1>1 DEF Elems
    <2> QED
        BY <1>1, <1>2, <1>3, <1>7, <2>1 DEF OnceEach
<1> QED
    BY <1>2, <1>4, <1>5, <1>6, <1>7

LEMMA CapturesAreFinite ==
    ASSUME NEW S \in SUBSET Captures
    PROVE  IsFiniteSet(S) /\ Cardinality(S) \in Nat
<1>1. IsFiniteSet(Captures)
    BY FS_Interval, WatchAssumption DEF Captures
<1> QED
    BY <1>1, FS_Subset, FS_CardinalityType

(* An offer to the feed.                                                      *)
LEMMA FeedOffered ==
    ASSUME NEW q \in Feeds, NEW c \in Captures, OnceEach(q.queue), c \notin Elems(q.queue)
    PROVE  /\ Offer(c, q) \in Feeds /\ Offer(c, q).on = q.on
           /\ ~q.on => Offer(c, q) = q
           /\ OnceEach(Offer(c, q).queue)
           /\ Elems(Offer(c, q).queue) \subseteq Elems(q.queue) \cup {c}
<1>0. FeedCapacity \in Nat \ {0}
    BY WatchAssumption
<1>1. CASE ~q.on
    BY <1>1 DEF Offer
<1>2. CASE q.on /\ Len(q.queue) < FeedCapacity
    <2>1. Offer(c, q) = [q EXCEPT !.queue = Append(@, c)]
        BY <1>2 DEF Offer
    <2>2. PICK s : s = Append(q.queue, c)
        OBVIOUS
    <2>3. q.queue \in Seq(Captures)
        BY DEF Feeds
    <2>4. s \in Seq(Captures) /\ Elems(s) = Elems(q.queue) \cup {c} /\ OnceEach(s)
        BY <2>2, <2>3, QueueOffered
    <2>5. Offer(c, q) = [q EXCEPT !.queue = s]
        BY <2>1, <2>2
    <2>6. Offer(c, q) \in Feeds /\ Offer(c, q).on = q.on /\ Offer(c, q).queue = s
        <3> HIDE DEF Offer
        <3> QED
            BY <2>4, <2>5 DEF Feeds
    <2> QED
        BY <2>4, <2>6, <1>2
<1>3. CASE q.on /\ ~(Len(q.queue) < FeedCapacity)
    <2>1. Offer(c, q) = [q EXCEPT !.queue = Append(Tail(@), c), !.skipped = @ + 1]
        BY <1>3 DEF Offer
    <2>2. q.queue \in Seq(Captures) /\ q.queue # <<>>
        BY <1>0, <1>3 DEF Feeds
    <2>3. Tail(q.queue) \in Seq(Captures) /\ OnceEach(Tail(q.queue)) /\ Elems(Tail(q.queue)) \subseteq Elems(q.queue)
        BY <2>2, QueueTaken
    <2>4. /\ Append(Tail(q.queue), c) \in Seq(Captures)
          /\ OnceEach(Append(Tail(q.queue), c))
          /\ Elems(Append(Tail(q.queue), c)) \subseteq Elems(q.queue) \cup {c}
        BY <2>3, QueueOffered
    <2>5. /\ Offer(c, q).on = q.on /\ Offer(c, q).queue = Append(Tail(q.queue), c)
          /\ Offer(c, q) = [on |-> q.on, queue |-> Append(Tail(q.queue), c), skipped |-> q.skipped + 1]
        BY <2>1 DEF Feeds
    <2>6. q.on \in BOOLEAN /\ q.skipped + 1 \in Nat
        BY DEF Feeds
    <2>7. Offer(c, q) \in Feeds
        <3> HIDE DEF Offer
        <3> DEFINE s == Append(Tail(q.queue), c)
        <3>1. s \in Seq(Captures)
            BY <2>4
        <3> HIDE DEF s
        <3> QED
            BY <2>5, <2>6, <3>1 DEF Feeds, s
    <2> QED
        BY <2>4, <2>5, <2>7, <1>3
<1> QED
    BY <1>1, <1>2, <1>3

(* A row that is not listed stays so while the others go on matching.         *)
LEMMA StillUnlisted ==
    ASSUME WatchTyped, NEW c \in Captures,
           \A d \in Captures : MatchesNow(d) => MatchesNow(d)',
           MatchesNow(c) => Cardinality(Later(c)) >= ListLimit,
           MatchesNow(c)' => MatchesNow(c)
    PROVE  MatchesNow(c)' => Cardinality(Later(c)') >= ListLimit
<1>0. ListLimit \in Nat
    BY WatchAssumption
<1>1. Later(c) \subseteq Later(c)' /\ Later(c) \subseteq Captures /\ Later(c)' \subseteq Captures
    BY DEF Later
<1>2. /\ IsFiniteSet(Later(c)') /\ Cardinality(Later(c)') \in Nat
      /\ Cardinality(Later(c)) \in Nat /\ Cardinality(Later(c)) <= Cardinality(Later(c)')
    BY <1>1, CapturesAreFinite, FS_Subset
<1> QED
    BY <1>0, <1>2

LEMMA WatchInitially == WatchInit => WatchInv
<1> SUFFICES ASSUME WatchInit PROVE WatchInv
    OBVIOUS
<1>1. WatchTyped
    BY DEF WatchInit, WatchTyped, Feeds, Tails, Polls
<1>2. FeedInv
    BY DEF WatchInit, FeedInv, Elems, OnceEach
<1>3. PollInv
    BY DEF WatchInit, PollInv
<1>4. WaitingIsExact
    BY FS_EmptySet DEF WatchInit, WaitingIsExact, SeenIsAccounted, NoOldResult
<1> QED
    BY <1>1, <1>2, <1>3, <1>4 DEF WatchInv

LEMMA CaptureStartsKeeps == WatchInv /\ CaptureStarts => WatchInv'
<1> SUFFICES ASSUME WatchInv, CaptureStarts PROVE WatchInv'
    OBVIOUS
<1>1. WatchTyped /\ FeedInv /\ PollInv /\ WaitingIsExact
    BY DEF WatchInv
<1>2. PICK s \in Captures : stored[s] = "none" /\ stored' = [stored EXCEPT ![s] = "open"]
    BY DEF CaptureStarts
<1>3. UNCHANGED <<asks, feed, tail, poll, up>>
    BY DEF CaptureStarts
<1>4. \A c \in Captures : stored[c] \in Over => stored'[c] = stored[c] /\ stored[c] # "none"
    BY <1>1, <1>2 DEF WatchTyped, Over
<1>5. WatchTyped'
    BY <1>1, <1>2, <1>3 DEF WatchTyped
<1>6. FeedInv'
    <2>1. Elems(feed.queue) \subseteq Captures /\ tail.missed \subseteq Captures
        BY <1>1 DEF WatchTyped, Feeds, Tails, Elems
    <2> QED
        BY <1>1, <1>3, <1>4, <2>1 DEF FeedInv
<1>7. asks # "unless" =>
      \A c \in Captures : /\ MatchesNow(c) => MatchesNow(c)'
                          /\ stored[c] \in Over /\ MatchesNow(c)' => MatchesNow(c)
    BY <1>1, <1>2, <1>3, <1>4 DEF MatchesNow, WatchTyped, Over
<1>8. PollInv'
    <2>1. poll.old \subseteq Captures
        BY <1>1 DEF WatchTyped, Polls
    <2>2. ASSUME NEW c \in poll.old \ poll.baseline, asks # "unless"
          PROVE  MatchesNow(c)' => Cardinality(Later(c)') >= ListLimit
        <3>1. c \in Captures /\ stored[c] \in Over /\ (MatchesNow(c) => Cardinality(Later(c)) >= ListLimit)
            BY <1>1, <2>1, <2>2 DEF PollInv
        <3> QED
            BY <1>1, <1>7, <2>2, <3>1, StillUnlisted
    <2>3. \A c \in poll.old : stored'[c] \in Over
        BY <1>1, <1>4, <2>1 DEF PollInv
    <2> QED
        BY <1>1, <1>3, <2>2, <2>3 DEF PollInv
<1>9. WaitingIsExact'
    <2>1. \A c \in tail.got : stored'[c] \in {"done", "cleared"}
        BY <1>1, <1>4 DEF WaitingIsExact, SeenIsAccounted, WatchTyped, Tails, Over
    <2> QED
        BY <1>1, <1>3, <2>1 DEF WaitingIsExact, SeenIsAccounted, NoOldResult
<1> QED
    BY <1>5, <1>6, <1>8, <1>9 DEF WatchInv

LEMMA CaptureEndsKeeps == WatchInv /\ CaptureEnds => WatchInv'
<1> SUFFICES ASSUME WatchInv, CaptureEnds PROVE WatchInv'
    OBVIOUS
<1>1. WatchTyped /\ FeedInv /\ PollInv /\ WaitingIsExact
    BY DEF WatchInv
<1>2. PICK s \in Captures, end \in {"done", "failed"} :
          /\ stored[s] = "open" /\ stored' = [stored EXCEPT ![s] = end]
          /\ feed' = Offer(s, feed)
          /\ tail' = IF tail.pc \in {"ready", "asked"} /\ end = "done" /\ s \in Described
                     THEN [tail EXCEPT !.missed = @ \cup {s}] ELSE tail
    BY DEF CaptureEnds
<1>3. UNCHANGED <<asks, poll, up>>
    BY DEF CaptureEnds
<1>4. \A c \in Captures : stored[c] \in Over => stored'[c] = stored[c] /\ c # s
    BY <1>1, <1>2 DEF WatchTyped, Over
<1>5. stored'[s] \in Over /\ stored' \in [Captures -> {"none", "open", "done", "failed", "cleared"}]
    BY <1>1, <1>2 DEF WatchTyped, Over
<1>6. /\ Elems(feed.queue) \subseteq Captures /\ tail.missed \subseteq Captures /\ tail.got \subseteq Captures
      /\ poll.old \subseteq Captures
    BY <1>1 DEF WatchTyped, Feeds, Tails, Polls, Elems
<1>7. s \notin Elems(feed.queue) /\ s \notin tail.got /\ s \notin tail.missed
    BY <1>1, <1>2 DEF FeedInv, WaitingIsExact, SeenIsAccounted, Over
<1>8. /\ feed' \in Feeds /\ feed'.on = feed.on
      /\ ~feed.on => feed' = feed
      /\ OnceEach(feed'.queue) /\ Elems(feed'.queue) \subseteq Elems(feed.queue) \cup {s}
    BY <1>1, <1>2, <1>7, FeedOffered DEF WatchTyped, FeedInv
<1>9. /\ tail' \in Tails /\ tail'.pc = tail.pc /\ tail'.got = tail.got /\ tail'.seen = tail.seen
      /\ tail'.lags = tail.lags /\ tail'.missed \subseteq tail.missed \cup {s}
      /\ tail.pc \notin {"ready", "asked"} => tail' = tail
    BY <1>1, <1>2 DEF WatchTyped, Tails
<1>10. WatchTyped'
    BY <1>1, <1>3, <1>5, <1>8, <1>9 DEF WatchTyped
<1>11. FeedInv'
    <2>1. \A c \in Elems(feed'.queue) : stored'[c] \in Over /\ c \notin tail'.got
        BY <1>1, <1>4, <1>5, <1>6, <1>7, <1>8, <1>9 DEF FeedInv
    <2>2. \A c \in Elems(feed'.queue) : c \notin tail'.missed
        <3>1. CASE feed.on
            BY <1>1, <1>7, <1>8, <1>9, <3>1 DEF FeedInv
        <3>2. CASE ~feed.on
            BY <1>1, <1>8, <3>2 DEF FeedInv, Elems
        <3> QED
            BY <3>1, <3>2
    <2>3. \A c \in tail'.missed : stored'[c] \in Over
        BY <1>1, <1>4, <1>5, <1>6, <1>9 DEF FeedInv
    <2>4. (feed'.on => tail'.pc \in {"streaming", "ended"}) /\ (~feed'.on => feed'.queue = <<>>)
        BY <1>1, <1>8, <1>9 DEF FeedInv
    <2> QED
        BY <1>8, <2>1, <2>2, <2>3, <2>4 DEF FeedInv
<1>12. asks # "unless" =>
       \A c \in Captures : /\ MatchesNow(c) => MatchesNow(c)'
                           /\ stored[c] \in Over /\ MatchesNow(c)' => MatchesNow(c)
    <2>1. asks' = asks
        BY <1>3
    <2>2. \A c \in Captures : c # s => stored'[c] = stored[c]
        BY <1>1, <1>2 DEF WatchTyped
    <2>3. stored[s] = "open" /\ stored'[s] \in {"done", "failed"}
        BY <1>1, <1>2 DEF WatchTyped
    <2>4. stored[s] \notin Over
        BY <2>3 DEF Over
    <2> QED
        BY <2>1, <2>2, <2>3, <2>4 DEF MatchesNow
<1>13. PollInv'
    <2>1. ASSUME NEW c \in poll.old \ poll.baseline, asks # "unless"
          PROVE  MatchesNow(c)' => Cardinality(Later(c)') >= ListLimit
        <3>1. c \in Captures /\ stored[c] \in Over /\ (MatchesNow(c) => Cardinality(Later(c)) >= ListLimit)
            BY <1>1, <1>6, <2>1 DEF PollInv
        <3> QED
            BY <1>1, <1>12, <2>1, <3>1, StillUnlisted
    <2>2. \A c \in poll.old : stored'[c] \in Over
        BY <1>1, <1>4, <1>6 DEF PollInv
    <2> QED
        BY <1>1, <1>3, <2>1, <2>2 DEF PollInv
<1>14. WaitingIsExact'
    <2>1. \A c \in tail'.got : stored'[c] \in {"done", "cleared"}
        BY <1>1, <1>4, <1>6, <1>9 DEF WaitingIsExact, SeenIsAccounted, Over
    <2>2. tail'.got \cap tail'.missed = {}
        BY <1>1, <1>7, <1>9 DEF WaitingIsExact, SeenIsAccounted
    <2> QED
        BY <1>1, <1>3, <1>9, <2>1, <2>2 DEF WaitingIsExact, SeenIsAccounted, NoOldResult
<1> QED
    BY <1>10, <1>11, <1>13, <1>14 DEF WatchInv

LEMMA CapturesClearedKeeps == WatchInv /\ CapturesCleared => WatchInv'
<1> SUFFICES ASSUME WatchInv, CapturesCleared PROVE WatchInv'
    OBVIOUS
<1>1. WatchTyped /\ FeedInv /\ PollInv /\ WaitingIsExact
    BY DEF WatchInv
<1>2. /\ stored' = [c \in Captures |-> IF stored[c] = "none" THEN "none" ELSE "cleared"]
      /\ UNCHANGED <<asks, feed, tail, poll, up>>
    BY DEF CapturesCleared
<1>3. /\ Elems(feed.queue) \subseteq Captures /\ tail.missed \subseteq Captures /\ tail.got \subseteq Captures
      /\ poll.old \subseteq Captures
    BY <1>1 DEF WatchTyped, Feeds, Tails, Polls, Elems
<1>4. \A c \in Captures : stored[c] \in Over => stored'[c] = "cleared"
    BY <1>2 DEF Over
<1>5. \A c \in Captures : ~MatchesNow(c)'
    BY <1>2 DEF MatchesNow
<1>6. WatchTyped'
    BY <1>1, <1>2 DEF WatchTyped
<1>7. FeedInv'
    BY <1>1, <1>2, <1>3, <1>4 DEF FeedInv, Over
<1>8. PollInv'
    BY <1>1, <1>2, <1>3, <1>4, <1>5 DEF PollInv, Over
<1>9. WaitingIsExact'
    <2>1. \A c \in tail.got : stored'[c] \in {"done", "cleared"}
        BY <1>1, <1>3, <1>4 DEF WaitingIsExact, SeenIsAccounted, Over
    <2> QED
        BY <1>1, <1>2, <2>1 DEF WaitingIsExact, SeenIsAccounted, NoOldResult
<1> QED
    BY <1>6, <1>7, <1>8, <1>9 DEF WatchInv

(* What a step that leaves the rows alone does not disturb.                   *)
LEMMA RowsAsTheyWere ==
    ASSUME UNCHANGED <<asks, stored>>
    PROVE  /\ \A c \in Captures : MatchesNow(c)' = MatchesNow(c) /\ Later(c)' = Later(c)
           /\ Listed' = Listed
BY DEF MatchesNow, Later, Listed, Page

LEMMA PollUntouched ==
    ASSUME WatchTyped, PollInv, UNCHANGED <<asks, stored, poll>>
    PROVE  PollInv'
<1>1. poll.old \subseteq Captures
    BY DEF WatchTyped, Polls
<1> QED
    BY <1>1, RowsAsTheyWere DEF PollInv

(* A step of tail that neither takes a capture nor touches the rows.          *)
LEMMA TailOnly ==
    ASSUME WatchInv, UNCHANGED <<asks, stored, poll>>, up' \in BOOLEAN,
           tail' \in Tails, tail'.missed = tail.missed,
           feed' \in Feeds, OnceEach(feed'.queue), Elems(feed'.queue) \subseteq Elems(feed.queue),
           feed'.on => tail'.pc \in {"streaming", "ended"},
           ~feed'.on => feed'.queue = <<>>,
           \/ tail'.got = tail.got /\ tail'.seen - tail'.lags = tail.seen - tail.lags
           \/ \E c \in Elems(feed.queue) :
                  /\ c \notin Elems(feed'.queue) /\ stored[c] # "failed" /\ MatchesNow(c)
                  /\ tail'.got = tail.got \cup {c} /\ tail'.seen = tail.seen + 1 /\ tail'.lags = tail.lags
    PROVE  WatchInv'
<1>1. WatchTyped /\ FeedInv /\ PollInv /\ WaitingIsExact
    BY DEF WatchInv
<1>2. WatchTyped'
    BY <1>1 DEF WatchTyped
<1>3. PollInv'
    BY <1>1, PollUntouched
<1>4. tail.got \subseteq Captures /\ Elems(feed.queue) \subseteq Captures /\ tail.seen \in Nat /\ tail.lags \in Nat
      /\ tail'.seen \in Nat /\ tail'.lags \in Nat
    BY <1>1 DEF WatchTyped, Tails, Feeds, Elems
<1>5. /\ tail.seen = Cardinality(tail.got) + tail.lags
      /\ tail.got \subseteq Described /\ tail.got \cap tail.missed = {}
      /\ \A c \in tail.got : stored[c] \in {"done", "cleared"}
    BY <1>1 DEF WaitingIsExact, SeenIsAccounted
<1>6. NoOldResult'
    BY <1>1 DEF WaitingIsExact, NoOldResult
<1>7. IsFiniteSet(tail.got) /\ Cardinality(tail.got) \in Nat
    BY <1>4, CapturesAreFinite
<1>8. CASE tail'.got = tail.got /\ tail'.seen - tail'.lags = tail.seen - tail.lags
    <2>1. SeenIsAccounted'
        <3>1. Cardinality(tail'.got) = Cardinality(tail.got)
            BY <1>8
        <3>2. tail'.seen = Cardinality(tail'.got) + tail'.lags
            BY <1>4, <1>5, <1>7, <1>8, <3>1
        <3> QED
            BY <1>5, <1>8, <3>2 DEF SeenIsAccounted
    <2>2. FeedInv'
        BY <1>1, <1>8 DEF FeedInv
    <2> QED
        BY <1>2, <1>3, <1>6, <2>1, <2>2 DEF WatchInv, WaitingIsExact
<1>9. CASE \E c \in Elems(feed.queue) :
               /\ c \notin Elems(feed'.queue) /\ stored[c] # "failed" /\ MatchesNow(c)
               /\ tail'.got = tail.got \cup {c} /\ tail'.seen = tail.seen + 1 /\ tail'.lags = tail.lags
    <2>1. PICK c \in Elems(feed.queue) :
              /\ c \notin Elems(feed'.queue) /\ stored[c] # "failed" /\ MatchesNow(c)
              /\ tail'.got = tail.got \cup {c} /\ tail'.seen = tail.seen + 1 /\ tail'.lags = tail.lags
        BY <1>9
    <2>2. c \notin tail.got /\ c \notin tail.missed /\ stored[c] \in Over
        BY <1>1, <2>1 DEF FeedInv
    <2>3. c \in Described /\ stored[c] = "done"
        BY <2>1, <2>2 DEF MatchesNow, Over
    <2>4. SeenIsAccounted'
        <3>1. Cardinality(tail'.got) = Cardinality(tail.got) + 1
            <4>1. Cardinality(tail.got \cup {c}) = Cardinality(tail.got) + 1
                BY <1>7, <2>2, FS_AddElement
            <4> QED
                BY <4>1, <2>1
        <3>2. tail'.seen = Cardinality(tail'.got) + tail'.lags
            BY <1>4, <1>5, <1>7, <2>1, <3>1
        <3> QED
            BY <1>5, <2>1, <2>2, <2>3, <3>2 DEF SeenIsAccounted
    <2>5. FeedInv'
        BY <1>1, <2>1 DEF FeedInv
    <2> QED
        BY <1>2, <1>3, <1>6, <2>4, <2>5 DEF WatchInv, WaitingIsExact
<1> QED
    BY <1>8, <1>9

(* Counting a frame.                                                          *)
LEMMA CountedFields ==
    ASSUME NEW t \in Tails, t.pc = "streaming"
    PROVE  /\ Counted(t) \in Tails /\ Counted(t).got = t.got /\ Counted(t).lags = t.lags
           /\ Counted(t).seen = t.seen + 1 /\ Counted(t).missed = t.missed
           /\ Counted(t).pc \in {"streaming", "ended"}
<1>0. Want \in Nat /\ t.seen \in Nat
    BY WatchAssumption DEF Tails
<1>1. CASE t.seen + 1 = Want
    <2>1. Counted(t) = [t EXCEPT !.seen = @ + 1, !.pc = "ended", !.code = "ok"]
        BY <1>1 DEF Counted
    <2>2. /\ Counted(t).got = t.got /\ Counted(t).lags = t.lags /\ Counted(t).missed = t.missed
          /\ Counted(t).seen = t.seen + 1 /\ Counted(t).pc = "ended" /\ Counted(t).code = "ok"
          /\ Counted(t) = [pc |-> "ended", seen |-> t.seen + 1, got |-> t.got, lags |-> t.lags,
                           missed |-> t.missed, code |-> "ok"]
        BY <2>1 DEF Tails
    <2>3. Counted(t) \in Tails
        BY <1>0, <2>2 DEF Tails
    <2> QED
        BY <2>2, <2>3
<1>2. CASE t.seen + 1 # Want
    <2>1. Counted(t) = [t EXCEPT !.seen = @ + 1]
        BY <1>2 DEF Counted
    <2> QED
        BY <1>0, <2>1 DEF Tails
<1> QED
    BY <1>1, <1>2

LEMMA WatchFacts ==
    ASSUME WatchInv
    PROVE  /\ asks \in {"start", "end", "unless"} /\ up \in BOOLEAN /\ feed \in Feeds /\ tail \in Tails /\ poll \in Polls
           /\ tail.seen \in Nat /\ tail.lags \in Nat
           /\ OnceEach(feed.queue) /\ feed.queue \in Seq(Captures)
           /\ feed.on => tail.pc \in {"streaming", "ended"}
           /\ ~feed.on => feed.queue = <<>>
BY DEF WatchInv, WatchTyped, FeedInv, Feeds, Tails

LEMMA TailStepsKeep ==
    ASSUME WatchInv, TailReady \/ TailAsks \/ TailTimesOut \/ ServerQuits
    PROVE  WatchInv'
<1>1. /\ UNCHANGED <<asks, stored, poll, feed>> /\ up' \in BOOLEAN
      /\ tail' \in Tails /\ tail'.missed = tail.missed /\ tail'.got = tail.got
      /\ tail'.seen = tail.seen /\ tail'.lags = tail.lags
      /\ tail.pc \in {"streaming", "ended"} => tail'.pc \in {"streaming", "ended"}
    <2>1. CASE TailReady
        BY <2>1, WatchFacts DEF TailReady, Tails
    <2>2. CASE TailAsks
        BY <2>2, WatchFacts DEF TailAsks, Tails
    <2>3. CASE TailTimesOut
        BY <2>3, WatchFacts DEF TailTimesOut, Tails
    <2>4. CASE ServerQuits
        BY <2>4, WatchFacts DEF ServerQuits, Tails
    <2> QED
        BY <2>1, <2>2, <2>3, <2>4
<1> QED
    BY <1>1, WatchFacts, TailOnly

LEMMA ServerSubscribesKeeps == WatchInv /\ ServerSubscribes => WatchInv'
<1> SUFFICES ASSUME WatchInv, ServerSubscribes PROVE WatchInv'
    OBVIOUS
<1>1. /\ UNCHANGED <<asks, stored, poll>> /\ up' \in BOOLEAN
      /\ tail' \in Tails /\ tail'.missed = tail.missed /\ tail'.got = tail.got
      /\ tail'.seen = tail.seen /\ tail'.lags = tail.lags /\ tail'.pc = "streaming"
      /\ feed' \in Feeds /\ feed'.queue = feed.queue /\ feed'.on
    BY WatchFacts DEF ServerSubscribes, Tails, Feeds
<1> QED
    BY <1>1, WatchFacts, TailOnly

LEMMA TellsOfLagKeeps == WatchInv /\ TellsOfLag => WatchInv'
<1> SUFFICES ASSUME WatchInv, TellsOfLag PROVE WatchInv'
    OBVIOUS
<1> DEFINE t == [tail EXCEPT !.lags = @ + 1]
<1>1. /\ t \in Tails /\ t.pc = "streaming" /\ t.lags = tail.lags + 1
      /\ t.got = tail.got /\ t.seen = tail.seen /\ t.missed = tail.missed
    BY WatchFacts DEF TellsOfLag, Tails
<1>2. tail' = Counted(t) /\ UNCHANGED <<asks, stored, poll, up>>
    BY DEF TellsOfLag
<1> HIDE DEF t
<1>3. /\ tail' \in Tails /\ tail'.got = tail.got /\ tail'.lags = tail.lags + 1 /\ tail'.seen = tail.seen + 1
      /\ tail'.missed = tail.missed /\ tail'.pc \in {"streaming", "ended"}
    BY <1>1, <1>2, CountedFields
<1>4. feed' \in Feeds /\ feed'.queue = feed.queue /\ feed'.on = feed.on
    BY WatchFacts DEF TellsOfLag, Feeds
<1>5. tail'.seen - tail'.lags = tail.seen - tail.lags
    <2>1. tail.seen \in Nat /\ tail.lags \in Nat
        BY WatchFacts DEF Tails
    <2> QED
        BY <1>3, <2>1
<1> QED
    BY <1>2, <1>3, <1>4, <1>5, WatchFacts, TailOnly

LEMMA HandOverKeeps == WatchInv /\ HandOver => WatchInv'
<1> SUFFICES ASSUME WatchInv, HandOver PROVE WatchInv'
    OBVIOUS
<1> DEFINE c == Head(feed.queue)
           t == [tail EXCEPT !.got = @ \cup {c}]
<1>1. /\ feed.queue # <<>> /\ tail.pc = "streaming" /\ UNCHANGED <<asks, stored, poll, up>>
      /\ tail' = IF stored[c] # "failed" /\ MatchesNow(c) THEN Counted(t) ELSE tail
      /\ feed' = [feed EXCEPT !.queue = Tail(@)]
    BY DEF HandOver
<1>2. /\ c \in Elems(feed.queue) /\ c \in Captures /\ c \notin Elems(Tail(feed.queue))
      /\ Tail(feed.queue) \in Seq(Captures) /\ OnceEach(Tail(feed.queue))
      /\ Elems(Tail(feed.queue)) \subseteq Elems(feed.queue)
    BY <1>1, WatchFacts, QueueTaken
<1>3. /\ t \in Tails /\ t.pc = "streaming" /\ t.lags = tail.lags
      /\ t.got = tail.got \cup {c} /\ t.seen = tail.seen /\ t.missed = tail.missed
    BY <1>1, <1>2, WatchFacts DEF Tails
<1>4. feed' \in Feeds /\ feed'.queue = Tail(feed.queue) /\ feed'.on = feed.on
    <2> DEFINE rest == Tail(feed.queue)
    <2>1. rest \in Seq(Captures) /\ feed' = [feed EXCEPT !.queue = rest]
        BY <1>1, <1>2, WatchFacts DEF Feeds
    <2> HIDE DEF rest
    <2>2. feed' \in Feeds /\ feed'.queue = rest /\ feed'.on = feed.on
        BY <2>1, WatchFacts DEF Feeds
    <2> QED
        BY <2>2 DEF rest
<1> HIDE DEF t, c
<1>5. /\ tail' \in Tails /\ tail'.missed = tail.missed /\ tail'.pc \in {"streaming", "ended"}
      /\ \/ tail'.got = tail.got /\ tail'.seen = tail.seen /\ tail'.lags = tail.lags
         \/ /\ stored[c] # "failed" /\ MatchesNow(c)
            /\ tail'.got = tail.got \cup {c} /\ tail'.seen = tail.seen + 1 /\ tail'.lags = tail.lags
    <2>1. CASE stored[c] # "failed" /\ MatchesNow(c)
        BY <2>1, <1>1, <1>3, CountedFields
    <2>2. CASE ~(stored[c] # "failed" /\ MatchesNow(c))
        BY <2>2, <1>1, WatchFacts
    <2> QED
        BY <2>1, <2>2
<1>6. feed.on
    BY <1>1, WatchFacts
<1>7. /\ OnceEach(feed'.queue) /\ Elems(feed'.queue) \subseteq Elems(feed.queue) /\ c \notin Elems(feed'.queue)
    BY <1>2, <1>4
<1> QED
    BY <1>1, <1>2, <1>4, <1>5, <1>6, <1>7, WatchFacts, TailOnly

LEMMA WaitCalledKeeps == WatchInv /\ WaitCalled => WatchInv'
<1> SUFFICES ASSUME WatchInv, WaitCalled PROVE WatchInv'
    OBVIOUS
<1> DEFINE done == {c \in Captures : stored[c] \in {"done", "failed"}}
<1>1. WatchTyped /\ FeedInv /\ PollInv /\ WaitingIsExact
    BY DEF WatchInv
<1>2. /\ poll' = [poll EXCEPT !.pc = "polling", !.baseline = Listed, !.old = done]
      /\ UNCHANGED <<asks, stored, feed, tail, up>>
    BY DEF WaitCalled
<1>3. Listed \subseteq Captures
    BY DEF Listed, Page
<1>4. /\ poll' \in Polls /\ poll'.baseline = Listed /\ poll'.old = done
      /\ poll'.pc = "polling" /\ poll'.result = poll.result
    <2>1. done \subseteq Captures /\ poll \in Polls
        BY <1>1 DEF WatchTyped
    <2> HIDE DEF done
    <2> QED
        BY <1>2, <1>3, <2>1 DEF Polls
<1>5. \A c \in done \ Listed : MatchesNow(c) => Cardinality(Later(c)) >= ListLimit
    <2>1. SUFFICES ASSUME NEW c \in Captures, c \notin Listed, MatchesNow(c)
                   PROVE  Cardinality(Later(c)) >= ListLimit
        OBVIOUS
    <2>2. ~(Cardinality(Later(c)) < ListLimit)
        BY <2>1 DEF Listed, Page, Later
    <2>3. Cardinality(Later(c)) \in Nat
        BY CapturesAreFinite DEF Later
    <2> QED
        BY <2>2, <2>3, WatchAssumption
<1>6. PollInv'
    <2>1. \A c \in poll'.old : stored'[c] \in Over
        BY <1>2, <1>4 DEF Over
    <2>2. \A c \in poll'.old \ poll'.baseline : MatchesNow(c)' => Cardinality(Later(c)') >= ListLimit
        BY <1>2, <1>4, <1>5, RowsAsTheyWere
    <2>3. poll'.result = {}
        BY <1>1, <1>4 DEF PollInv, WaitCalled
    <2> QED
        BY <1>4, <2>1, <2>2, <2>3 DEF PollInv
<1>7. WatchTyped'
    BY <1>1, <1>2, <1>4 DEF WatchTyped
<1>8. FeedInv'
    BY <1>1, <1>2 DEF FeedInv
<1>9. WaitingIsExact'
    <2>1. poll'.result = {}
        BY <1>1, <1>4 DEF PollInv, WaitCalled
    <2> QED
        BY <1>1, <1>2, <2>1 DEF WaitingIsExact, SeenIsAccounted, NoOldResult
<1> QED
    BY <1>6, <1>7, <1>8, <1>9 DEF WatchInv

LEMMA WaitPollsKeeps == WatchInv /\ WaitPolls => WatchInv'
<1> SUFFICES ASSUME WatchInv, WaitPolls PROVE WatchInv'
    OBVIOUS
<1> DEFINE fresh == FreshRows(poll)
<1>1. WatchTyped /\ FeedInv /\ PollInv /\ WaitingIsExact
    BY DEF WatchInv
<1>2. poll.pc = "polling" /\ UNCHANGED <<asks, stored, feed, tail, up>>
    BY DEF WaitPolls
<1>3. fresh \subseteq Captures /\ (asks # "unless" => fresh \cap poll.old = {})
    <2>1. \A c \in Listed : MatchesNow(c) /\ c \in Captures /\ Cardinality(Later(c)) < ListLimit
        BY DEF Listed, Page, Later
    <2>2. \A c \in Listed : Cardinality(Later(c)) \in Nat
        BY CapturesAreFinite DEF Later
    <2> QED
        BY <1>1, <2>1, <2>2, WatchAssumption DEF FreshRows, PollInv
<1>4. \/ poll' = poll
      \/ poll' = [poll EXCEPT !.pc = "error"]
      \/ poll' = [poll EXCEPT !.pc = "met", !.result = fresh]
      \/ poll' = [poll EXCEPT !.pc = "short", !.result = fresh]
    BY DEF WaitPolls
<1> HIDE DEF fresh
<1>5. /\ poll' \in Polls /\ poll'.old = poll.old /\ poll'.baseline = poll.baseline
      /\ poll'.result = poll.result \/ poll'.result = fresh
      /\ poll'.pc \in {"idle", "polling"} => poll' = poll
    <2>1. poll \in Polls
        BY <1>1 DEF WatchTyped
    <2>2. CASE poll' = poll
        BY <2>1, <2>2
    <2>3. CASE poll' = [poll EXCEPT !.pc = "error"]
        BY <2>1, <2>3 DEF Polls
    <2>4. CASE poll' = [poll EXCEPT !.pc = "met", !.result = fresh]
        BY <1>3, <2>1, <2>4 DEF Polls
    <2>5. CASE poll' = [poll EXCEPT !.pc = "short", !.result = fresh]
        BY <1>3, <2>1, <2>5 DEF Polls
    <2> QED
        BY <1>4, <2>2, <2>3, <2>4, <2>5
<1>6. WatchTyped' /\ FeedInv'
    BY <1>1, <1>2, <1>5 DEF WatchTyped, FeedInv
<1>7. PollInv'
    <2>1. asks # "unless" => \A c \in poll'.old \ poll'.baseline : MatchesNow(c)' => Cardinality(Later(c)') >= ListLimit
        <3>1. poll.old \subseteq Captures
            BY <1>1 DEF WatchTyped, Polls
        <3> QED
            BY <1>1, <1>2, <1>5, <3>1, RowsAsTheyWere DEF PollInv
    <2> QED
        BY <1>1, <1>2, <1>5, <2>1 DEF PollInv
<1>8. WaitingIsExact'
    <2>1. asks # "unless" => poll'.result \cap poll'.old = {}
        BY <1>1, <1>3, <1>5 DEF WaitingIsExact, NoOldResult
    <2> QED
        BY <1>1, <1>2, <2>1 DEF WaitingIsExact, SeenIsAccounted, NoOldResult
<1> QED
    BY <1>6, <1>7, <1>8 DEF WatchInv

LEMMA DeadlinePassesKeeps == WatchInv /\ DeadlinePasses => WatchInv'
<1> SUFFICES ASSUME WatchInv, DeadlinePasses PROVE WatchInv'
    OBVIOUS
<1>1. WatchTyped /\ FeedInv /\ PollInv /\ WaitingIsExact
    BY DEF WatchInv
<1>2. /\ poll' \in Polls /\ poll'.old = poll.old /\ poll'.baseline = poll.baseline
      /\ poll'.result = poll.result /\ poll'.pc = poll.pc
      /\ UNCHANGED <<asks, stored, feed, tail, up>>
    BY <1>1 DEF DeadlinePasses, WatchTyped, Polls
<1>3. WatchTyped' /\ FeedInv'
    BY <1>1, <1>2 DEF WatchTyped, FeedInv
<1>4. PollInv'
    <2>1. poll.old \subseteq Captures
        BY <1>1 DEF WatchTyped, Polls
    <2> QED
        BY <1>1, <1>2, <2>1, RowsAsTheyWere DEF PollInv
<1>5. WaitingIsExact'
    BY <1>1, <1>2 DEF WaitingIsExact, SeenIsAccounted, NoOldResult
<1> QED
    BY <1>3, <1>4, <1>5 DEF WatchInv

LEMMA WatchStays == WatchInv /\ UNCHANGED watchVars => WatchInv'
<1> SUFFICES ASSUME WatchInv, UNCHANGED watchVars PROVE WatchInv'
    OBVIOUS
<1>1. WatchTyped /\ FeedInv /\ PollInv /\ WaitingIsExact
    BY DEF WatchInv
<1>2. UNCHANGED <<asks, stored, feed, tail, poll, up>>
    BY DEF watchVars
<1>3. PollInv'
    BY <1>1, <1>2, PollUntouched
<1> QED
    BY <1>1, <1>2, <1>3 DEF WatchInv, WatchTyped, FeedInv, WaitingIsExact, SeenIsAccounted, NoOldResult

(* tail counts a complete capture the filter describes once, and none from    *)
(* before it subscribed; what pane_captures_wait reports was not over when it *)
(* was called (run.rs, mcp.rs).                                               *)
THEOREM WaitsAreExact == WatchSpec => []WaitingIsExact
<1>1. ASSUME WatchInv, [WatchNext]_watchVars PROVE WatchInv'
    BY <1>1, CaptureStartsKeeps, CaptureEndsKeeps, CapturesClearedKeeps, TailStepsKeep, ServerSubscribesKeeps,
       TellsOfLagKeeps, HandOverKeeps, WaitCalledKeeps, WaitPollsKeeps, DeadlinePassesKeeps, WatchStays
    DEF WatchNext
<1>2. WatchInv => WaitingIsExact
    BY DEF WatchInv
<1> QED
    BY <1>1, <1>2, WatchInitially, PTL DEF WatchSpec
=============================================================================
