---------------------------- MODULE LogcatFilter ----------------------------
(* The filter language of logcat is compiled twice.  The window compiles it   *)
(* for the app: packages only (lib/logcat-filter.ts), turns them into pids    *)
(* with what it has learned of the processes and passes those to the query,   *)
(* whose WHERE clause is compiled from the text (logcat_filter_dsl.rs).       *)
EXTENDS Naturals, Sequences, FiniteSets

CONSTANTS
    LogFilters,  \* lists of tokens: [key, neg, values]; a value is [neg, ...]
    LogRows,     \* rows stored: [pid, tag, message, level]
    Pids,
    Apps,        \* process names
    AppPart      \* package text -> the names that contain it

NoSuchPid == 0   \* APP_NO_MATCH_PID, which no process ever has

ASSUME LogFilterAssumption ==
    /\ NoSuchPid \notin Pids
    /\ \A r \in LogRows : r.pid \in Pids
    /\ \A f \in LogFilters : \A i \in DOMAIN f : \A j \in DOMAIN f[i].values : f[i].values[j].neg \in BOOLEAN

VARIABLES
    wanted,  \* the filter, as tokens
    procs,   \* the process each pid is at present
    names,   \* pidNames: pid -> the names ever seen
    shownRows

logFilterVars == <<wanted, procs, names, shownRows>>

Tokens == {wanted[i] : i \in DOMAIN wanted}
Vals(t) == {t.values[i] : i \in DOMAIN t.values}
Plus(t) == {v \in Vals(t) : ~v.neg}
Less(t) == {v \in Vals(t) : v.neg}

-----------------------------------------------------------------------------
(* The WHERE clause.  A value says which texts its pattern finds: folds.      *)
SqlFinds(vs, text) == {v \in vs : text \in v.folds}
InLevels(v, level) == v.low <= level /\ level <= v.high

(* Any of the positive values and none of the negative ones, hits being the   *)
(* values that hold of the row.                                               *)
Grouped(t, hits) == (Plus(t) = {} \/ Plus(t) \cap hits # {}) /\ Less(t) \cap hits = {}

SqlHolds(t, row) ==
    CASE t.key = "tag"   -> Grouped(t, SqlFinds(Vals(t), row.tag))
      [] t.key = "msg"   -> Grouped(t, SqlFinds(Vals(t), row.message))
      [] t.key = "level" -> Grouped(t, {v \in Vals(t) : InLevels(v, row.level)})
      [] t.key = "pid"   -> Grouped(t, {v \in Vals(t) : v.pid = row.pid})
      [] t.key \in {"bare", "regex"} -> SqlFinds(Vals(t), row.tag) \cup SqlFinds(Vals(t), row.message) # {}

(* An empty list of values stands for no constraint, before the key is looked *)
(* at and negated or not; app: is left to the pids.                           *)
SqlToken(t, row) == t.key = "app" \/ Vals(t) = {} \/ (SqlHolds(t, row) # t.neg)

(* What each compiler refuses: unknown keys and levels are refused by both,   *)
(* the two regular expression engines know different patterns, and parseInt   *)
(* takes a number with a tail.                                                *)
Refused(t) == Vals(t) # {} /\ t.key = "unknown"
SqlCompiles == \A t \in Tokens : ~Refused(t) /\ (t.key \in {"regex", "pid"} => \A v \in Vals(t) : v.rust)
TsCompiles  == \A t \in Tokens : ~Refused(t) /\ (t.key \in {"regex", "pid"} => \A v \in Vals(t) : v.js)

-----------------------------------------------------------------------------
(* resolveAppPids                                                             *)
AppTerms(neg) == IF TsCompiles THEN {v \in UNION {Vals(t) : t \in {u \in Tokens : u.key = "app"}} : v.neg = neg} ELSE {}
PidsOf(vs)    == {p \in Pids : \E v \in vs : names[p] \cap AppPart[v.app] # {}}

\* mutant: no sentinel
IncludeUnlessEmpty == PidsOf(AppTerms(FALSE))

Include == IF AppTerms(FALSE) # {} /\ PidsOf(AppTerms(FALSE)) = {} THEN {NoSuchPid} ELSE PidsOf(AppTerms(FALSE))
Exclude == PidsOf(AppTerms(TRUE))

(* logcat_where: a list of pids that is empty is no constraint.               *)
InQuery(row) ==
    /\ \A t \in Tokens : SqlToken(t, row)
    /\ Include = {} \/ row.pid \in Include
    /\ row.pid \notin Exclude

(* A filter that does not compile leaves the window as it is.                 *)
Requery ==
    /\ shownRows' = IF SqlCompiles THEN {r \in LogRows : InQuery(r)} ELSE shownRows
    /\ UNCHANGED <<wanted, procs, names>>

(* A process ends and another one gets its pid, or none.                      *)
Respawn(p, S) ==
    /\ procs' = [procs EXCEPT ![p] = S]
    /\ UNCHANGED <<wanted, names, shownRows>>

(* Every ten seconds ps -A is merged into what is known; nothing is forgotten.*)
\* mutant: the snapshot replaces what is known
TickReplaces ==
    /\ names' = procs
    /\ UNCHANGED <<wanted, procs, shownRows>>

PidTick ==
    /\ names' = [p \in Pids |-> names[p] \cup procs[p]]
    /\ UNCHANGED <<wanted, procs, shownRows>>

LogFilterInit ==
    /\ wanted \in LogFilters
    /\ procs = [p \in Pids |-> {}]
    /\ names = [p \in Pids |-> {}]
    /\ shownRows = {}

LogFilterNext ==
    \/ Requery
    \/ PidTick
    \/ \E p \in Pids : \E S \in {{}} \cup {{a} : a \in Apps} : Respawn(p, S)

LogFilterSpec == LogFilterInit /\ [][LogFilterNext]_logFilterVars

-----------------------------------------------------------------------------
(* An app: term never opens the window to every process: what is shown was    *)
(* written under a pid the app has been seen with, even when that is none.    *)
(* Only in a filter the window compiles: of another it knows no app: term.    *)
AsksFor(v) == \E t \in Tokens : t.key = "app" /\ v \in Plus(t)
AppNarrows ==
    TsCompiles /\ (\E t \in Tokens : t.key = "app" /\ Plus(t) # {}) =>
        \A r \in shownRows : \E v \in UNION {Plus(t) : t \in Tokens} : AsksFor(v) /\ names[r.pid] \cap AppPart[v.app] # {}

(* What an app wrote stays in the window when the app is gone: learning about *)
(* processes hides no row unless a term excludes apps.                        *)
HistoryStays ==
    [][Requery /\ (\A t \in Tokens : t.key = "app" => Less(t) = {}) => shownRows \subseteq shownRows']_logFilterVars
=============================================================================
