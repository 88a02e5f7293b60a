---------------------------- MODULE LogcatStore ----------------------------
(* The logcat table of pane-storage/logcat.rs: batches that adb dumps are     *)
(* inserted, lines already there are ignored, a device is cleared, and the    *)
(* retention pass of pane-core/background.rs deletes in small transactions    *)
(* between which everything else goes on.                                     *)
(*                                                                            *)
(* A line is known by its number in the order its device wrote it; the ids    *)
(* are SQLite's rowids: one more than the largest id in the table.            *)
EXTENDS Naturals, FiniteSets, FiniteSetsExt

CONSTANTS
    Phones,      \* the serials
    MaxLine,     \* bound: lines a device writes
    RingSize,    \* lines the ring buffer of a device keeps
    BatchSize,   \* LogcatConfig::batch_size
    Cap,         \* LOGCAT_PER_DEVICE_CAP
    Chunk,       \* PRUNE_CHUNK
    MaxAge,      \* bound: how often the retention period passes
    MaxClears,   \* bound: presses of Clear
    MaxId        \* bound: the largest id

ASSUME StoreAssumption ==
    /\ {MaxLine, Cap, MaxAge, MaxClears, MaxId} \subseteq Nat
    /\ {RingSize, BatchSize, Chunk} \subseteq Nat \ {0}

VARIABLES
    rows,     \* logcat_entry: [id, serial, line, at]
    cursor,   \* Phones -> the line adb dumps next
    age,      \* how often the retention period passed
    prune,    \* the pass: [pc, cutoff, left, serial, floor, cleared]
    clears,   \* Clears so far
    topId     \* history: the largest id ever given

storeVars == <<rows, cursor, age, prune, clears, topId>>

Ids(R)      == {r.id : r \in R}
Of(s)       == {r \in rows : r.serial = s}
Stored(s)   == {r.line : r \in Of(s)}
Resting     == [pc |-> "rest", cutoff |-> 0, left |-> {}, serial |-> "", floor |-> 0, cleared |-> FALSE]
Top         == Max(Ids(rows) \cup {0})

StoreTypeOK ==
    /\ age \in Nat /\ clears \in Nat /\ topId \in Nat /\ cursor \in [Phones -> Nat \ {0}]
    /\ \A r \in rows : r.id \in 1..MaxId /\ r.serial \in Phones /\ r.line \in 1..MaxLine /\ r.at \in 0..age
    /\ \A r, q \in rows : r.id = q.id \/ (r.serial = q.serial /\ r.line = q.line) => r = q
    /\ prune \in [pc : {"rest", "age", "serials", "floor", "trim"}, cutoff : Nat, left : SUBSET Phones,
                  serial : Phones \cup {""}, floor : Nat, cleared : BOOLEAN]

(* A batch gets its ids in order, the lines already stored take none.         *)
Numbered(s, batch, base) ==
    {[id |-> base + Cardinality({m \in batch : m <= n}), serial |-> s, line |-> n, at |-> age] : n \in batch}

InsertOrIgnore(s, batch) == rows \cup Numbered(s, batch \ Stored(s), Top)

(* adb hands over the next lines of a device, in one transaction.             *)
Batch(s) ==
    \E last \in cursor[s]..MaxLine :
        /\ last < cursor[s] + BatchSize
        /\ rows' = InsertOrIgnore(s, cursor[s]..last)
        /\ \A r \in rows' : r.id <= MaxId
        /\ cursor' = [cursor EXCEPT ![s] = last + 1]
        /\ topId' = Max(Ids(rows') \cup {topId})
        /\ UNCHANGED <<age, prune, clears>>

(* adb is started again and dumps the ring buffer from its oldest line.       *)
Redump(s) ==
    /\ cursor' = [cursor EXCEPT ![s] = IF @ > RingSize THEN @ - RingSize ELSE 1]
    /\ UNCHANGED <<rows, age, prune, clears, topId>>

ClearPhone(s) ==
    /\ clears < MaxClears
    /\ clears' = clears + 1
    /\ rows' = rows \ Of(s)
    /\ prune' = [prune EXCEPT !.cleared = @ \/ s = prune.serial]
    /\ UNCHANGED <<cursor, age, topId>>

Ages == age < MaxAge /\ age' = age + 1 /\ UNCHANGED <<rows, cursor, prune, clears, topId>>

----------------------------------------------------------------------------
(* The retention pass. *)
Goes(p) == prune' = p /\ UNCHANGED <<cursor, age, clears, topId>>

PruneBegins ==
    /\ prune.pc = "rest"
    /\ Goes([prune EXCEPT !.pc = "age", !.cutoff = age])
    /\ UNCHANGED rows

(* One chunk, and the loop is over when it was not full.                      *)
Lowest(R) == {r \in R : Cardinality({q \in R : q.id < r.id}) < Chunk}

\* mutant: a full chunk ends the loop as well
LastOrFull(R) == Cardinality(Lowest(R)) <= Chunk

Final(R) == Cardinality(R) < Chunk

PruneAge ==
    /\ prune.pc = "age"
    /\ LET old == {r \in rows : r.at < prune.cutoff} IN
         \E gone \in (IF Cardinality(old) <= Chunk THEN {old} ELSE kSubset(Chunk, old)) :
            /\ rows' = rows \ gone
            /\ Goes([prune EXCEPT !.pc = IF Final(old) THEN "serials" ELSE "age"])

PruneSerials ==
    /\ prune.pc = "serials"
    /\ Goes([prune EXCEPT !.pc = "floor", !.left = {r.serial : r \in rows}])
    /\ UNCHANGED rows

\* mutant: the floor by arithmetic over the ids of all devices
FloorByArithmetic(s) == IF Top > Cap /\ Of(s) # {} THEN Top - Cap ELSE 0

(* The id of the (Cap + 1)th newest row of a device, 0 when it has no more    *)
(* than Cap of them.                                                          *)
Floor(s) == Max({r.id : r \in {q \in Of(s) : Cardinality({p \in Of(s) : p.id > q.id}) >= Cap}} \cup {0})

PruneFloor ==
    /\ prune.pc = "floor" /\ prune.left # {}
    /\ \E s \in prune.left :
         Goes([prune EXCEPT !.left = @ \ {s}, !.serial = s, !.floor = Floor(s), !.cleared = FALSE,
                            !.pc = IF Floor(s) = 0 THEN "floor" ELSE "trim"])
    /\ UNCHANGED rows

PruneTrim ==
    /\ prune.pc = "trim"
    /\ LET over == {r \in Of(prune.serial) : r.id <= prune.floor} IN
         /\ rows' = rows \ Lowest(over)
         /\ Goes([prune EXCEPT !.pc = IF Final(over) THEN "floor" ELSE "trim"])

PruneEnds ==
    /\ prune.pc = "floor" /\ prune.left = {}
    /\ Goes(Resting)
    /\ UNCHANGED rows

Prune == PruneBegins \/ PruneAge \/ PruneSerials \/ PruneFloor \/ PruneTrim \/ PruneEnds

----------------------------------------------------------------------------
StoreInit ==
    /\ rows = {} /\ cursor = [s \in Phones |-> 1]
    /\ age = 0 /\ prune = Resting /\ clears = 0 /\ topId = 0

StoreNext ==
    \/ \E s \in Phones : Batch(s) \/ Redump(s) \/ ClearPhone(s)
    \/ Ages \/ Prune

StoreSpec == StoreInit /\ [][StoreNext]_storeVars

----------------------------------------------------------------------------
(* Properties. *)

(* The cap is per device, and the newest rows of a device are the ones kept:  *)
(* a trim that was not overtaken by a Clear of that device deletes only rows  *)
(* with Cap newer rows beside them, whatever came in since the floor was read *)
(* (prune_logcat trims "each device down to its newest per_device_cap rows"). *)
TrimSparesTheNewest ==
    [][PruneTrim /\ ~prune.cleared =>
         \A r \in rows \ rows' : Cardinality({q \in Of(r.serial) : q.id > r.id}) >= Cap]_storeVars

(* The chunks add up: a loop is left only when nothing of what it set out to  *)
(* delete is in the table (doc of PRUNE_CHUNK: "the loop still deletes        *)
(* everything it set out to").                                                *)
LoopsDeleteAll ==
    [][/\ prune.pc = "age" /\ prune'.pc # "age" => \A r \in rows' : r.at >= prune.cutoff
       /\ prune.pc = "trim" /\ prune'.pc # "trim" => \A r \in rows' : r.serial = prune.serial => r.id > prune.floor]_storeVars

(* What the schema says of the id: it only grows, so that a reader may ask    *)
(* for what came after the last one it saw (V010: "monotonic ingest cursor"). *)
IdsOnlyGrow == [][\A r \in rows' \ rows : r.id > topId]_storeVars

(* Retention deletes what it set out to delete, and nothing newer.            *)
PruneIsExact == TrimSparesTheNewest /\ LoopsDeleteAll
=============================================================================
