---------------------------- MODULE CaptureWatch ----------------------------
(* How a script waits for captures: `pane captures tail --count N --timeout D`*)
(* over a subscription (pane-cli/run.rs) and the MCP tool pane_captures_wait, *)
(* which polls the list (pane-cli/mcp.rs).                                    *)
(*                                                                            *)
(* Captures are numbered in the order they start.  Both ask with a filter.    *)
(* One on the host knows a capture when it starts, one on the status only     *)
(* when it is complete; and one that takes something away, like !mime:, has   *)
(* every capture until it knows better.                                       *)
EXTENDS Naturals, Sequences, FiniteSets

CONSTANTS
    MaxCaptures,  \* bound: captures there are
    Described,    \* the captures the filter describes
    Want,         \* --count
    FeedCapacity, \* BUS_CAPACITY
    ListLimit     \* the 2000 of captures.list

ASSUME WatchAssumption == {MaxCaptures, Want, FeedCapacity, ListLimit} \subseteq Nat \ {0}

VARIABLES
    asks,     \* what the filter asks for is known at the "start" or at the "end", or what it takes away is ("unless")
    stored,   \* capture -> "none" | "open" | "done" | "failed" | "cleared"
    feed,     \* the subscription: [on, queue, skipped]
    tail,     \* [pc, seen, got, lags, missed, code]
    poll,     \* pane_captures_wait: [pc, baseline, old, late, result]
    up        \* is the instance running?

watchVars == <<asks, stored, feed, tail, poll, up>>

Captures == 1..MaxCaptures

(* capture_matches: the row is read when it is asked for.                     *)
MatchesNow(c) ==
    CASE stored[c] = "open"   -> asks = "unless" \/ (asks = "start" /\ c \in Described)
      [] stored[c] = "failed" -> asks # "end" /\ c \in Described
      [] stored[c] = "done"   -> c \in Described
      [] OTHER                -> FALSE

(* list_captures: the newest rows, by their start, and no more than a page.   *)
Page(n) == {c \in Captures : MatchesNow(c) /\ Cardinality({d \in Captures : MatchesNow(d) /\ d > c}) < n}

Listed == Page(ListLimit)

-----------------------------------------------------------------------------
(* The proxy                                                                  *)
Offer(c, q) ==
    IF ~q.on THEN q
    ELSE IF Len(q.queue) < FeedCapacity THEN [q EXCEPT !.queue = Append(@, c)]
    ELSE [q EXCEPT !.queue = Append(Tail(@), c), !.skipped = @ + 1]

CaptureStarts ==
    \E c \in Captures :
        /\ stored[c] = "none" /\ \A d \in Captures : d < c => stored[d] # "none"
        /\ stored' = [stored EXCEPT ![c] = "open"]
        /\ UNCHANGED <<asks, feed, tail, poll, up>>

(* The row is written before the event goes out.  missed is history: what     *)
(* completed between the line "ready" and the subscription.                   *)
CaptureEnds ==
    \E c \in Captures, end \in {"done", "failed"} :
        /\ stored[c] = "open"
        /\ stored' = [stored EXCEPT ![c] = end]
        /\ feed' = Offer(c, feed)
        /\ tail' = IF tail.pc \in {"ready", "asked"} /\ end = "done" /\ c \in Described
                   THEN [tail EXCEPT !.missed = @ \cup {c}] ELSE tail
        /\ UNCHANGED <<asks, poll, up>>

CapturesCleared ==
    /\ \E c \in Captures : stored[c] \notin {"none", "cleared"}
    /\ stored' = [c \in Captures |-> IF stored[c] = "none" THEN "none" ELSE "cleared"]
    /\ UNCHANGED <<asks, feed, tail, poll, up>>

-----------------------------------------------------------------------------
(* tail                                                                       *)
(* "ready" is printed, then the request is sent, then the server subscribes.  *)
TailReady ==
    /\ up /\ tail.pc = "idle"
    /\ tail' = [tail EXCEPT !.pc = "ready"]
    /\ UNCHANGED <<asks, stored, feed, poll, up>>

TailAsks ==
    /\ tail.pc = "ready"
    /\ tail' = IF up THEN [tail EXCEPT !.pc = "asked"] ELSE [tail EXCEPT !.pc = "ended", !.code = "error"]
    /\ UNCHANGED <<asks, stored, feed, poll, up>>

ServerSubscribes ==
    /\ up /\ tail.pc = "asked"
    /\ tail' = [tail EXCEPT !.pc = "streaming"]
    /\ feed' = [feed EXCEPT !.on = TRUE]
    /\ UNCHANGED <<asks, stored, poll, up>>

Counted(t) == IF t.seen + 1 = Want THEN [t EXCEPT !.seen = @ + 1, !.pc = "ended", !.code = "ok"] ELSE [t EXCEPT !.seen = @ + 1]

(* The frame in place of skipped events is counted like a capture.            *)
TellsOfLag ==
    /\ up /\ tail.pc = "streaming" /\ feed.skipped > 0
    /\ feed' = [feed EXCEPT !.skipped = 0]
    /\ tail' = Counted([tail EXCEPT !.lags = @ + 1])
    /\ UNCHANGED <<asks, stored, poll, up>>

(* shape_event and the callback of tail: a capture that does not match is     *)
(* withheld; a failed one is told whatever the filter says and not counted.   *)
\* mutant: an error is a capture, too
HandOverErrors ==
    /\ up /\ tail.pc = "streaming" /\ feed.skipped = 0 /\ feed.queue # <<>>
    /\ LET c == Head(feed.queue) IN
       tail' = IF stored[c] = "failed" \/ MatchesNow(c) THEN Counted([tail EXCEPT !.got = @ \cup {c}]) ELSE tail
    /\ feed' = [feed EXCEPT !.queue = Tail(@)]
    /\ UNCHANGED <<asks, stored, poll, up>>

HandOver ==
    /\ up /\ tail.pc = "streaming" /\ feed.skipped = 0 /\ feed.queue # <<>>
    /\ LET c == Head(feed.queue) IN
       tail' = IF stored[c] # "failed" /\ MatchesNow(c) THEN Counted([tail EXCEPT !.got = @ \cup {c}]) ELSE tail
    /\ feed' = [feed EXCEPT !.queue = Tail(@)]
    /\ UNCHANGED <<asks, stored, poll, up>>

TailTimesOut ==
    /\ tail.pc \in {"asked", "streaming"}
    /\ tail' = [tail EXCEPT !.pc = "ended", !.code = IF tail.seen < Want THEN "timeout" ELSE "ok"]
    /\ UNCHANGED <<asks, stored, feed, poll, up>>

(* A stream that ends is a stream that ran to its count.                      *)
ServerQuits ==
    /\ up
    /\ up' = FALSE
    /\ tail' = IF tail.pc \in {"asked", "streaming"} THEN [tail EXCEPT !.pc = "ended", !.code = "ok"] ELSE tail
    /\ UNCHANGED <<asks, stored, feed, poll>>

-----------------------------------------------------------------------------
(* pane_captures_wait                                                         *)
(* old is history: what was complete when the tool was called.                *)
\* mutant: the page that is remembered is smaller than the page that is asked for
WaitRemembersLess ==
    /\ poll.pc = "idle" /\ up
    /\ poll' = [poll EXCEPT !.pc = "polling", !.baseline = Page(ListLimit - 1), !.old = {c \in Captures : stored[c] \in {"done", "failed"}}]
    /\ UNCHANGED <<asks, stored, feed, tail, up>>

WaitCalled ==
    /\ poll.pc = "idle" /\ up
    /\ poll' = [poll EXCEPT !.pc = "polling", !.baseline = Listed, !.old = {c \in Captures : stored[c] \in {"done", "failed"}}]
    /\ UNCHANGED <<asks, stored, feed, tail, up>>

\* mutant: what was there before is not taken away
EverythingFresh(p) == Listed

FreshRows(p) == Listed \ p.baseline

WaitPolls ==
    /\ poll.pc = "polling"
    /\ poll' = CASE ~up -> [poll EXCEPT !.pc = "error"]
                 [] up /\ Cardinality(FreshRows(poll)) >= Want -> [poll EXCEPT !.pc = "met", !.result = FreshRows(poll)]
                 [] up /\ Cardinality(FreshRows(poll)) < Want /\ poll.late -> [poll EXCEPT !.pc = "short", !.result = FreshRows(poll)]
                 [] OTHER -> poll
    /\ UNCHANGED <<asks, stored, feed, tail, up>>

DeadlinePasses ==
    /\ poll.pc = "polling" /\ ~poll.late
    /\ poll' = [poll EXCEPT !.late = TRUE]
    /\ UNCHANGED <<asks, stored, feed, tail, up>>

-----------------------------------------------------------------------------
WatchInit ==
    /\ asks \in {"start", "end", "unless"}
    /\ stored = [c \in Captures |-> "none"]
    /\ feed = [on |-> FALSE, queue |-> <<>>, skipped |-> 0]
    /\ tail = [pc |-> "idle", seen |-> 0, got |-> {}, lags |-> 0, missed |-> {}, code |-> "none"]
    /\ poll = [pc |-> "idle", baseline |-> {}, old |-> {}, late |-> FALSE, result |-> {}]
    /\ up = TRUE

WatchNext ==
    \/ CaptureStarts \/ CaptureEnds \/ CapturesCleared
    \/ TailReady \/ TailAsks \/ ServerSubscribes \/ TellsOfLag \/ HandOver \/ TailTimesOut \/ ServerQuits
    \/ WaitCalled \/ WaitPolls \/ DeadlinePasses

WatchSpec == WatchInit /\ [][WatchNext]_watchVars

-----------------------------------------------------------------------------
(* What tail counts are captures the filter describes, complete, each of them *)
(* once, and none that ended before the subscription; the only other thing it *)
(* counts is the notice that events were skipped.                             *)
SeenIsAccounted ==
    /\ tail.seen = Cardinality(tail.got) + tail.lags
    /\ tail.got \subseteq Described /\ tail.got \cap tail.missed = {}
    /\ \A c \in tail.got : stored[c] \in {"done", "cleared"}

(* "Use clear between scenarios so assertions cannot match a previous run":   *)
(* nothing the wait reports was over when it was called, with more rows than  *)
(* the list shows and with a clear in between.  A filter that takes something *)
(* away is left out: it drops newer rows, and a page may then show an older   *)
(* one that was not in it when the wait began.                                *)
NoOldResult == asks # "unless" => poll.result \cap poll.old = {}

(* "The count is the assertion": with exit code 0 the script has seen as many *)
(* captures as it asked for.                                                  *)
CountIsMet == tail.code = "ok" => Cardinality(tail.got) >= Want

(* "ready" first "is what makes the loop race-free": what the script triggers *)
(* after that line is heard.                                                  *)
ReadyHears == tail.missed = {}

(* Neither command takes a capture for one it is not.                         *)
WaitingIsExact == SeenIsAccounted /\ NoOldResult
=============================================================================
