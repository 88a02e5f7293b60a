------------------------- MODULE ControlConnection -------------------------
(* One connection of the control socket (pane-control/server.rs): a reader    *)
(* that dispatches the lines, a task per request, a task per subscription,    *)
(* and one writer that all of them feed through a bounded queue.  The events  *)
(* come from the broadcast channel of pane-core/events.rs, which overwrites   *)
(* what a slow subscriber has not read; pane-control/subscription.rs decides  *)
(* what belongs on a subscription.                                            *)
(*                                                                            *)
(* Events are numbered; the odd ones are captures, the even ones anything     *)
(* else.  A capture matches the filter of a subscription unless its row is    *)
(* gone.                                                                      *)
EXTENDS Naturals, Sequences, FiniteSets

CONSTANTS
    RequestIds,   \* the ids a client uses
    BusCapacity,  \* BUS_CAPACITY
    WriteQueue,   \* WRITE_QUEUE
    MaxEvents,    \* bound: events published
    MaxSubs       \* bound: subscriptions of the connection

ASSUME ConnectionAssumption ==
    BusCapacity \in Nat \ {0} /\ WriteQueue \in Nat \ {0} /\ MaxEvents \in Nat /\ MaxSubs \in Nat

VARIABLES
    published,  \* events published so far
    gone,       \* the events whose rows were cleared
    reader,     \* [pc, reply]: "open", "reply", "draining", "closed"
    writer,     \* "up" or "down"
    peer,       \* "up", "shut" (it will send no more) or "gone"
    queue,      \* the lines that wait for the writer
    subs,       \* RequestIds -> the task registered under an id, 0 for none
    stream,     \* 1..MaxSubs -> the subscription tasks
    requests,   \* the ids of requests that are being executed
    account     \* history: for each task, the events its client knows what became of,
                \* and whether an id was given to a second subscription

ctlVars == <<published, gone, reader, writer, peer, queue, subs, stream, requests, account>>

Streams  == 1..MaxSubs
NoFrame  == [kind |-> "none", id |-> "", from |-> 0, n |-> 0, lost |-> 0]
Unused   == [pc |-> "unused", id |-> "", filtered |-> FALSE, from |-> 0, next |-> 0, frame |-> NoFrame]
Running(s)    == stream[s].pc \in {"recv", "send", "aborted"}
NextStream    == CHOOSE s \in Streams : stream[s].pc = "unused"
Reply(kind, i) == [kind |-> kind, id |-> i, from |-> 0, n |-> 0, lost |-> 0]

Ids    == RequestIds \cup {"", "-"}
Frames == [kind : {"none", "ok", "err", "event", "lagged"}, id : Ids, from : 0..MaxSubs, n : Nat, lost : Nat]
Subscriptions == [pc : {"unused", "recv", "send", "aborted", "ended"}, id : Ids, filtered : BOOLEAN,
                  from : Nat, next : Nat, frame : Frames]

ControlTypeOK ==
    /\ published \in Nat /\ gone \subseteq 1..published
    /\ reader \in [pc : {"open", "reply", "draining", "closed"}, reply : Frames] /\ reader.reply.from = 0
    /\ writer \in {"up", "down"} /\ peer \in {"up", "shut", "gone"}
    /\ queue \in Seq(Frames) /\ Len(queue) <= WriteQueue /\ (writer = "down" => queue = <<>>)
    /\ subs \in [RequestIds -> 0..MaxSubs]
    /\ stream \in [Streams -> Subscriptions]
    /\ \A i \in RequestIds : subs[i] # 0 => stream[subs[i]].pc # "unused" /\ stream[subs[i]].id = i
    /\ \A s \in Streams : stream[s].next <= published + 1
    /\ requests \subseteq RequestIds
    /\ account \in [known : [Streams -> Nat], reused : BOOLEAN, broken : BOOLEAN]

(* mpsc send: it waits for room; once the writer is gone the line is dropped  *)
(* and the sender is not told.                                                *)
Send(line) ==
    IF writer = "down" THEN UNCHANGED queue
    ELSE Len(queue) < WriteQueue /\ queue' = Append(queue, line)

----------------------------------------------------------------------------
(* The client and the bus. *)
Publish ==
    /\ published < MaxEvents
    /\ published' = published + 1
    /\ UNCHANGED <<gone, reader, writer, peer, queue, subs, stream, requests, account>>

ClearCaptures ==
    /\ gone' = 1..published
    /\ UNCHANGED <<published, reader, writer, peer, queue, subs, stream, requests, account>>

PeerLeaves ==
    /\ peer' \in IF peer = "up" THEN {"shut", "gone"} ELSE {"gone"} \ {peer}
    /\ UNCHANGED <<published, gone, reader, writer, queue, subs, stream, requests, account>>

----------------------------------------------------------------------------
(* The reader: one line at a time.  The reply to a line that it answers       *)
(* itself is sent before the next line is read.                               *)
Answers(kind, i) == reader' = [pc |-> "reply", reply |-> Reply(kind, i)]

(* The receiver is taken from the bus before the task starts.  A second       *)
(* subscription under the same id takes the place of the first in the map.    *)
Subscribe(i, filtered) ==
    /\ reader.pc = "open" /\ peer = "up"
    /\ \E s \in Streams : stream[s].pc = "unused"
    /\ stream' = [stream EXCEPT ![NextStream] =
                    [pc |-> "recv", id |-> i, filtered |-> filtered, from |-> published + 1,
                     next |-> published + 1, frame |-> NoFrame]]
    /\ subs' = [subs EXCEPT ![i] = NextStream]
    /\ account' = [account EXCEPT !.known[NextStream] = published, !.reused = @ \/ subs[i] # 0]
    /\ Answers("ok", i)
    /\ UNCHANGED <<published, gone, writer, peer, queue, requests>>

Abort(S) == [s \in Streams |-> IF s \in S /\ Running(s) THEN [stream[s] EXCEPT !.pc = "aborted"] ELSE stream[s]]

Unsubscribe(i) ==
    /\ reader.pc = "open" /\ peer = "up"
    /\ stream' = Abort({subs[i]})
    /\ subs' = [subs EXCEPT ![i] = 0]
    /\ Answers("ok", i)
    /\ UNCHANGED <<published, gone, writer, peer, queue, requests, account>>

Malformed ==
    /\ reader.pc = "open" /\ peer = "up"
    /\ Answers("err", "-")
    /\ UNCHANGED <<published, gone, writer, peer, queue, subs, stream, requests, account>>

Submit(i) ==
    /\ reader.pc = "open" /\ peer = "up" /\ i \notin requests
    /\ requests' = requests \cup {i}
    /\ UNCHANGED <<published, gone, reader, writer, peer, queue, subs, stream, account>>

SendReply ==
    /\ reader.pc = "reply"
    /\ Send(reader.reply)
    /\ reader' = [pc |-> "open", reply |-> NoFrame]
    /\ UNCHANGED <<published, gone, writer, peer, subs, stream, requests, account>>

\* mutant: the tasks are left to themselves
EndOfInputKeepsTasks ==
    /\ reader.pc = "open" /\ peer # "up"
    /\ reader' = [pc |-> "draining", reply |-> NoFrame]
    /\ subs' = [i \in RequestIds |-> 0]
    /\ UNCHANGED <<published, gone, writer, peer, queue, stream, requests, account>>

(* End of input: the registered tasks are aborted, then the writer is waited  *)
(* for.                                                                       *)
EndOfInput ==
    /\ reader.pc = "open" /\ peer # "up"
    /\ reader' = [pc |-> "draining", reply |-> NoFrame]
    /\ stream' = Abort({subs[i] : i \in RequestIds})
    /\ subs' = [i \in RequestIds |-> 0]
    /\ UNCHANGED <<published, gone, writer, peer, queue, requests, account>>

(* A read error leaves by way of the question mark: nothing is aborted.       *)
ReadError ==
    /\ reader.pc = "open" /\ peer = "gone"
    /\ reader' = [pc |-> "closed", reply |-> NoFrame]
    /\ subs' = [i \in RequestIds |-> 0]
    /\ account' = [account EXCEPT !.broken = TRUE]
    /\ UNCHANGED <<published, gone, writer, peer, queue, stream, requests>>

Drained ==
    /\ reader.pc = "draining" /\ writer = "down"
    /\ reader' = [pc |-> "closed", reply |-> NoFrame]
    /\ UNCHANGED <<published, gone, writer, peer, queue, subs, stream, requests, account>>

----------------------------------------------------------------------------
(* A request is executed in a task of its own and answered when it is done.   *)
FinishRequest(i) ==
    /\ i \in requests
    /\ requests' = requests \ {i}
    /\ Send(Reply("ok", i))
    /\ UNCHANGED <<published, gone, reader, writer, peer, subs, stream, account>>

(* shape_event: the odd events are captures, and a filter is checked against  *)
(* the row as it is now.                                                      *)
Belongs(s, n) == stream[s].filtered /\ n % 2 = 1 => n \notin gone

Steps(s, r) ==
    /\ stream' = [stream EXCEPT ![s] = r]
    /\ UNCHANGED <<published, gone, reader, writer, peer, subs, requests, account>>

(* The oldest event the bus still holds, or word of how many were lost.       *)
Lost(s) == IF published + 1 > stream[s].next + BusCapacity THEN published + 1 - BusCapacity - stream[s].next ELSE 0

\* mutant: a gap is passed over in silence
ReceiveOnlyEvents(s) ==
    /\ stream[s].pc = "recv" /\ stream[s].next <= published
    /\ LET n == stream[s].next + Lost(s) IN
         IF Belongs(s, n)
         THEN Steps(s, [stream[s] EXCEPT !.pc = "send", !.next = n + 1,
                          !.frame = [kind |-> "event", id |-> stream[s].id, from |-> s, n |-> n, lost |-> 0]])
         ELSE Steps(s, [stream[s] EXCEPT !.next = n + 1])
    /\ UNCHANGED queue

Receive(s) ==
    /\ stream[s].pc = "recv" /\ stream[s].next <= published
    /\ LET n    == stream[s].next
           lost == Lost(s)
       IN IF lost > 0
          THEN Steps(s, [stream[s] EXCEPT !.pc = "send", !.next = n + lost,
                           !.frame = [kind |-> "lagged", id |-> stream[s].id, from |-> s, n |-> n + lost - 1, lost |-> lost]])
          ELSE IF Belongs(s, n)
          THEN Steps(s, [stream[s] EXCEPT !.pc = "send", !.next = n + 1,
                           !.frame = [kind |-> "event", id |-> stream[s].id, from |-> s, n |-> n, lost |-> 0]])
          ELSE Steps(s, [stream[s] EXCEPT !.next = n + 1])
    /\ UNCHANGED queue

(* The task goes on whether the line was taken or dropped.                    *)
SendEvent(s) ==
    /\ stream[s].pc = "send"
    /\ Send(stream[s].frame)
    /\ Steps(s, [stream[s] EXCEPT !.pc = "recv", !.frame = NoFrame])

(* An aborted task ends at its next await; the line in its hands may still    *)
(* go out.                                                                    *)
AbortLands(s) ==
    /\ stream[s].pc = "aborted"
    /\ Steps(s, [stream[s] EXCEPT !.pc = "ended", !.frame = NoFrame])
    /\ \/ UNCHANGED queue
       \/ stream[s].frame # NoFrame /\ Send(stream[s].frame)

----------------------------------------------------------------------------
(* The writer. *)
Write ==
    /\ writer = "up" /\ queue # <<>> /\ peer # "gone"
    /\ queue' = Tail(queue)
    /\ account' = IF Head(queue).from = 0 THEN account
                  ELSE [account EXCEPT !.known[Head(queue).from] = Head(queue).n]
    /\ UNCHANGED <<published, gone, reader, writer, peer, subs, stream, requests>>

WriteFails ==
    /\ writer = "up" /\ queue # <<>> /\ peer = "gone"
    /\ writer' = "down" /\ queue' = <<>>
    /\ UNCHANGED <<published, gone, reader, peer, subs, stream, requests, account>>

(* The last sender is gone. *)
WriterEnds ==
    /\ writer = "up" /\ queue = <<>> /\ reader.pc \in {"draining", "closed"}
    /\ requests = {} /\ \A s \in Streams : ~Running(s)
    /\ writer' = "down"
    /\ UNCHANGED <<published, gone, reader, peer, queue, subs, stream, requests, account>>

----------------------------------------------------------------------------
ControlInit ==
    /\ published = 0 /\ gone = {}
    /\ reader = [pc |-> "open", reply |-> NoFrame]
    /\ writer = "up" /\ peer = "up" /\ queue = <<>>
    /\ subs = [i \in RequestIds |-> 0]
    /\ stream = [s \in Streams |-> Unused]
    /\ requests = {}
    /\ account = [known |-> [s \in Streams |-> 0], reused |-> FALSE, broken |-> FALSE]

ServeConnection ==
    \/ SendReply \/ EndOfInput \/ ReadError \/ Drained
    \/ Write \/ WriteFails \/ WriterEnds
    \/ \E i \in RequestIds : FinishRequest(i)
    \/ \E s \in Streams : Receive(s) \/ SendEvent(s) \/ AbortLands(s)

Client ==
    \/ Malformed
    \/ \E i \in RequestIds : Unsubscribe(i) \/ Submit(i) \/ \E filtered \in BOOLEAN : Subscribe(i, filtered)

ControlNext == Publish \/ ClearCaptures \/ PeerLeaves \/ Client \/ ServeConnection

(* The tasks run, and a client that is there reads.                           *)
ControlFairness ==
    /\ WF_ctlVars(SendReply) /\ WF_ctlVars(EndOfInput) /\ WF_ctlVars(Drained)
    /\ WF_ctlVars(Write) /\ WF_ctlVars(WriteFails) /\ WF_ctlVars(WriterEnds)
    /\ \A i \in RequestIds : SF_ctlVars(FinishRequest(i))
    /\ \A s \in Streams : WF_ctlVars(AbortLands(s))

ControlSpec == ControlInit /\ [][ControlNext]_ctlVars /\ ControlFairness

----------------------------------------------------------------------------
(* Properties. *)

(* A subscriber can account for every event: what is written on its stream    *)
(* follows on what it knew, but for captures its filter withholds; what the   *)
(* bus dropped is announced with its number ("consumers are expected to       *)
(* surface the gap", "lag is data, not an error").                            *)
NothingLostSilently ==
    [][\A s \in Streams : Write /\ Head(queue).from = s =>
         /\ Head(queue).n > account.known[s]
         /\ \A n \in (account.known[s] + 1)..(Head(queue).n - 1) :
              n > Head(queue).n - Head(queue).lost \/ ~Belongs(s, n)]_ctlVars

\* The subscriptions whose task is still at work.
Streaming == {s \in Streams : stream[s].pc \in {"recv", "send"}}

(* A client that goes away does not keep the connection's task waiting.       *)
DrainEnds == reader.pc = "draining" /\ ~account.reused ~> reader.pc = "closed"

(* What the map of subscriptions is for: "events.unsubscribe and connection   *)
(* teardown can both stop them", however the connection ends.                 *)
TeardownStopsThem == reader.pc = "closed" /\ ~account.reused => Streaming = {}
=============================================================================
