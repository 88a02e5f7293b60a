----------------------------- MODULE LogcatView -----------------------------
(* The logcat window over the table of LogcatStore: the newest matching rows, *)
(* queried again on every ping, older pages put before them on scrolling up.  *)
(* The queries run through pane-core/ops/logcat.rs and answer whenever they   *)
(* do: a query is asked, answered by the table, and lands in the view.  Any   *)
(* query may fail; one with a filter that SQL refuses does.                   *)
EXTENDS LogcatStore, Sequences

CONSTANTS
    Watched,      \* the serial of the window
    Filters,      \* what may be typed as a filter: sets of lines
    SqlRefuses,   \* the filters compile_to_sql refuses,
    WindowRefuses,\* those compileLogcatFilter refuses
    QueryLimit,   \* QUERY_LIMIT
    OlderPage,    \* OLDER_PAGE
    MaxSeq        \* bound: refreshes of the window

ASSUME ViewAssumption ==
    /\ Watched \in Phones /\ \A f \in Filters : f \subseteq 1..MaxLine
    /\ SqlRefuses \subseteq Filters /\ WindowRefuses \subseteq Filters
    /\ {QueryLimit, OlderPage} \subseteq Nat \ {0}

VARIABLES
    view,       \* entries, auto (Tail), paused, filter, due, seq, latch, wiping, error (a message shows)
    refreshes,  \* the refreshes in flight
    older,      \* the page of older rows in flight
    shown       \* history: the filter the entries were queried with, and whether a page was
                \* put before entries replaced since it was asked for, or of another filter

viewVars == <<view, refreshes, older>>
logcatVars == <<storeVars, viewVars, shown>>

NoPage == [pc |-> "idle", seq |-> 0, filter |-> {}, before |-> 0, page |-> <<>>, crossed |-> FALSE]

Matching(f) == {r \in rows : r.serial = Watched /\ r.line \in f}
Newest(R, n) == {r \in R : Cardinality({q \in R : q.id > r.id}) < n}
Ascending(R) ==
    [i \in 1..Cardinality(R) |-> CHOOSE r \in R : Cardinality({q \in R : q.id <= r.id}) = i]

QueryLogcat(f) == Ascending(Newest(Matching(f), QueryLimit))

\* mutant: the row the page starts from is in the page
QueryUpTo(f, before) == Ascending(Newest({r \in Matching(f) : r.id <= before}, OlderPage))

QueryBefore(f, before) == Ascending(Newest({r \in Matching(f) : r.id < before}, OlderPage))

----------------------------------------------------------------------------
(* refresh: nothing while paused, and not into a frozen view unless forced.   *)
Refresh(v, force) ==
    IF v.paused \/ (~force /\ ~v.auto /\ v.entries # <<>>)
    THEN view' = v /\ UNCHANGED refreshes
    ELSE /\ v.seq < MaxSeq
         /\ view' = [v EXCEPT !.seq = @ + 1]
         /\ refreshes' = refreshes \cup {[seq |-> v.seq + 1, filter |-> v.filter, answered |-> FALSE, page |-> <<>>]}

Ping == view.auto /\ Refresh(view, FALSE) /\ UNCHANGED <<older, shown, storeVars>>

Answer(q) ==
    /\ ~q.answered /\ q.filter \notin SqlRefuses
    /\ refreshes' = (refreshes \ {q}) \cup {[q EXCEPT !.answered = TRUE, !.page = QueryLogcat(q.filter)]}
    /\ UNCHANGED <<view, older, shown, storeVars>>

\* mutant: a query that fails leaves no trace, as a failing badge count does
SwallowFailure(q) ==
    /\ ~q.answered
    /\ refreshes' = refreshes \ {q}
    /\ UNCHANGED <<view, older, shown, storeVars>>

(* The catch of refresh: the rows stay, and the message says so.              *)
Fail(q) ==
    /\ ~q.answered
    /\ refreshes' = refreshes \ {q}
    /\ view' = [view EXCEPT !.error = @ \/ q.seq = view.seq]
    /\ UNCHANGED <<older, shown, storeVars>>

\* mutant: the answer that lands last is shown
LandAny(q) ==
    /\ q.answered
    /\ refreshes' = refreshes \ {q}
    /\ view' = [view EXCEPT !.entries = q.page, !.latch = FALSE, !.error = FALSE]
    /\ shown' = [filter |-> q.filter, mixed |-> FALSE]
    /\ older' = [older EXCEPT !.crossed = TRUE]
    /\ UNCHANGED storeVars

\* mutant: an exhausted history stays exhausted
LandKeepsLatch(q) ==
    /\ q.answered
    /\ refreshes' = refreshes \ {q}
    /\ IF q.seq = view.seq
       THEN /\ view' = [view EXCEPT !.entries = q.page, !.error = FALSE]
            /\ shown' = [filter |-> q.filter, mixed |-> FALSE]
            /\ older' = [older EXCEPT !.crossed = @ \/ older.pc # "idle"]
       ELSE UNCHANGED <<view, shown, older>>
    /\ UNCHANGED storeVars

(* Only the answer to the latest refresh is shown.                            *)
Land(q) ==
    /\ q.answered
    /\ refreshes' = refreshes \ {q}
    /\ IF q.seq = view.seq
       THEN /\ view' = [view EXCEPT !.entries = q.page, !.latch = FALSE, !.error = FALSE]
            /\ shown' = [filter |-> q.filter, mixed |-> FALSE]
            /\ older' = [older EXCEPT !.crossed = @ \/ older.pc # "idle"]
       ELSE UNCHANGED <<view, shown, older>>
    /\ UNCHANGED storeVars

(* A change of the filter turns Tail on; the refresh comes after a pause.     *)
(* The window compiles the filter at once, and the message is about that.     *)
Type(f) ==
    /\ f # view.filter
    /\ view' = [view EXCEPT !.filter = f, !.auto = TRUE, !.due = TRUE, !.error = f \in WindowRefuses]
    /\ UNCHANGED <<refreshes, older, shown, storeVars>>

Debounced ==
    /\ view.due
    /\ Refresh([view EXCEPT !.due = FALSE], TRUE)
    /\ UNCHANGED <<older, shown, storeVars>>

ScrollUp ==
    /\ view.auto /\ view.entries # <<>>
    /\ view' = [view EXCEPT !.auto = FALSE]
    /\ UNCHANGED <<refreshes, older, shown, storeVars>>

ScrollDown ==
    /\ ~view.auto
    /\ Refresh([view EXCEPT !.auto = TRUE], TRUE)
    /\ UNCHANGED <<older, shown, storeVars>>

TogglePause ==
    /\ Refresh([view EXCEPT !.paused = ~@], TRUE)
    /\ UNCHANGED <<older, shown, storeVars>>

(* Clear empties the view at once; the rows go later, and then a refresh.     *)
ClearAll ==
    /\ ~view.wiping /\ clears < MaxClears
    /\ view' = [view EXCEPT !.entries = <<>>, !.wiping = TRUE]
    /\ UNCHANGED <<refreshes, older, shown, storeVars>>

Wiped ==
    /\ view.wiping
    /\ ClearPhone(Watched)
    /\ Refresh([view EXCEPT !.wiping = FALSE], TRUE)
    /\ UNCHANGED <<older, shown>>

(* The rows could not be deleted: no refresh, and no message either.          *)
WipeFails ==
    /\ view.wiping
    /\ view' = [view EXCEPT !.wiping = FALSE]
    /\ UNCHANGED <<refreshes, older, shown, storeVars>>

----------------------------------------------------------------------------
(* loadOlder. *)
LoadOlder ==
    /\ ~view.auto /\ view.entries # <<>> /\ older.pc = "idle" /\ ~view.latch
    /\ LET first == Head(view.entries).id IN
         IF first <= 1
         THEN view' = [view EXCEPT !.latch = TRUE] /\ UNCHANGED older
         ELSE /\ older' = [pc |-> "asked", seq |-> view.seq, filter |-> view.filter, before |-> first,
                           page |-> <<>>, crossed |-> FALSE]
              /\ UNCHANGED view
    /\ UNCHANGED <<refreshes, shown, storeVars>>

AnswerOlder ==
    /\ older.pc = "asked" /\ older.filter \notin SqlRefuses
    /\ older' = [older EXCEPT !.pc = "answered", !.page = QueryBefore(older.filter, older.before)]
    /\ UNCHANGED <<view, refreshes, shown, storeVars>>

(* The catch of loadOlder: the guard is released, the search is not given up. *)
FailOlder ==
    /\ older.pc = "asked"
    /\ older' = NoPage
    /\ view' = [view EXCEPT !.error = @ \/ older.seq = view.seq]
    /\ UNCHANGED <<refreshes, shown, storeVars>>

(* A page is dropped when a refresh was asked for since; a short one is the   *)
(* last.                                                                      *)
LandOlder ==
    /\ older.pc = "answered"
    /\ older' = NoPage
    /\ IF older.seq # view.seq
       THEN UNCHANGED <<view, shown>>
       ELSE /\ view' = [view EXCEPT !.latch = @ \/ Len(older.page) < OlderPage, !.entries = older.page \o @]
            /\ shown' = [shown EXCEPT !.mixed = @ \/ older.crossed \/ older.filter # shown.filter]
    /\ UNCHANGED <<refreshes, storeVars>>

----------------------------------------------------------------------------
ViewInit ==
    /\ StoreInit
    /\ \E f \in Filters :
         /\ view = [entries |-> <<>>, auto |-> TRUE, paused |-> FALSE, filter |-> f, due |-> FALSE,
                    seq |-> 1, latch |-> FALSE, wiping |-> FALSE, error |-> f \in WindowRefuses]
         /\ refreshes = {[seq |-> 1, filter |-> f, answered |-> FALSE, page |-> <<>>]}
         /\ shown = [filter |-> f, mixed |-> FALSE]
    /\ older = NoPage

Ingest == Batch(Watched) /\ UNCHANGED <<view, refreshes, older, shown>>

ViewNext ==
    \/ Ping \/ Debounced \/ ScrollUp \/ ScrollDown \/ TogglePause \/ ClearAll \/ Wiped \/ WipeFails
    \/ LoadOlder \/ AnswerOlder \/ FailOlder \/ LandOlder \/ Ingest
    \/ \E q \in refreshes : Answer(q) \/ Fail(q) \/ Land(q)
    \/ \E f \in Filters : Type(f)

ViewSpec == ViewInit /\ [][ViewNext]_logcatVars

----------------------------------------------------------------------------
(* Properties. *)

(* Once nothing is in flight, what is shown was queried with the filter that  *)
(* is typed, or a message says that the query failed: an answer that comes    *)
(* late does not bring an old filter back (comment of refreshSeq: "drop any   *)
(* response that isn't the latest"), and no failure goes unnoticed.           *)
FilterIsShown ==
    refreshes = {} /\ ~view.due /\ ~view.paused /\ view.entries # <<>> /\ ~view.error =>
        shown.filter = view.filter

(* The view is a window on the matching rows: its ids ascend, and no matching *)
(* row of the table lies between two of its rows.                             *)
Window(E, f) ==
    \A i \in 1..(Len(E) - 1) :
        /\ E[i].id < E[i + 1].id
        /\ \A r \in Matching(f) : ~(E[i].id < r.id /\ r.id < E[i + 1].id)

(* What the guard of loadOlder promises: a page is never put before rows it   *)
(* was not asked for ("rather than prepend stale/wrong-filter rows").         *)
AlwaysAWindow == clears = 0 => Window(view.entries, shown.filter)

(* While no page was mixed in, the view is a window, and the search for older *)
(* rows is given up only when there are none.                                 *)
PagesFit == clears = 0 /\ ~shown.mixed => Window(view.entries, shown.filter)

GivesUpAtTheStart ==
    clears = 0 /\ ~shown.mixed /\ view.latch /\ view.entries # <<>> =>
        \A r \in Matching(shown.filter) : r.id >= Head(view.entries).id

(* The window shows what was asked for.                                       *)
ShownIsAsked == FilterIsShown /\ PagesFit /\ GivesUpAtTheStart
=============================================================================
