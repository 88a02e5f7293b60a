------------------------------ MODULE MCRecords ------------------------------
(* What is recorded, and how it is read: the captures of the proxy (their     *)
(* recording in Exchange, the filter that is asked for them in CaptureFilter, *)
(* the two commands that wait for them in CaptureWatch) and the log lines of  *)
(* the phones (the table that is pruned in LogcatStore, the window over it in *)
(* LogcatView, its filter in LogcatFilter).  In the code they share no state  *)
(* but the two tables, which each of them sees in its own abstraction; so a   *)
(* behaviour puts one of them on the bench and leaves the others as they      *)
(* were.  The two commands that wait do not hear of each other either.        *)
EXTENDS Exchange, MCCaptureFilter, CaptureWatch, LogcatView, MCLogcatFilter

VARIABLE bench

recordVars == <<exVars, filterVars, watchVars, logcatVars, logFilterVars, bench>>

Benches == {"exchange", "filter", "tail", "wait", "store", "view", "logfilter"}

RecordsInit ==
    /\ bench \in Benches
    /\ ExchangeInit /\ (bench # "exchange" => label = CHOOSE s \in Scopes : TRUE)
    /\ IF bench = "filter" THEN FilterInit
       ELSE capture = (CHOOSE c \in CaptureRows : TRUE) /\ progress = "opened" /\ typed = <<>>
    /\ WatchInit /\ (bench \notin {"tail", "wait"} => asks = "start")
    /\ ViewInit /\ (bench # "view" => view.filter = CHOOSE f \in Filters : TRUE)
    /\ IF bench = "logfilter" THEN LogFilterInit
       ELSE /\ wanted = <<>> /\ shownRows = {}
            /\ procs = [p \in Pids |-> {}] /\ names = [p \in Pids |-> {}]

CaptureStep ==
    /\ UNCHANGED <<logcatVars, logFilterVars, bench>>
    /\ \/ bench = "exchange" /\ ExchangeNext /\ UNCHANGED <<filterVars, watchVars>>
       \/ bench = "filter" /\ FilterNext /\ UNCHANGED <<exVars, watchVars>>
       \/ bench = "tail" /\ WatchNext /\ UNCHANGED <<exVars, filterVars, poll>>
       \/ bench = "wait" /\ WatchNext /\ UNCHANGED <<exVars, filterVars, tail, feed>>

LogStep ==
    /\ UNCHANGED <<exVars, filterVars, watchVars, bench>>
    /\ \/ bench = "store" /\ StoreNext /\ UNCHANGED <<viewVars, shown, logFilterVars>>
       \/ bench = "view" /\ ViewNext /\ UNCHANGED logFilterVars
       \/ bench = "logfilter" /\ LogFilterNext /\ UNCHANGED logcatVars

RecordsNext == CaptureStep \/ LogStep

RecordsSpec == RecordsInit /\ [][RecordsNext]_recordVars
=============================================================================
