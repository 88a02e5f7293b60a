---------------------------- MODULE CommandLine ----------------------------
(* Commands of the CLI that take several calls (pane-cli/run.rs, portfile.rs, *)
(* mcp.rs): `collections only`, `enable`, `disable` and `rm --with-rules`,    *)
(* `rules import` and `rules export`.  Every call is answered by the running  *)
(* instance on its own; between two of them the window may change what the    *)
(* command has read, and the connection may end.                              *)
(*                                                                            *)
(* Rules are switched for every device here; the switches for one device are  *)
(* RuleLibrary's.                                                             *)
EXTENDS Naturals, Sequences, FiniteSets

CONSTANTS
    GroupIds,     \* bound: ids a collection may get, 1..n
    RuleIds,      \* bound: ids a rule may get, 1..n
    OldGroups,    \* the collections at the start, id -> name
    OldRules,     \* the rules at the start, id -> collection
    Finds,        \* selector -> the names that contain it
    MaxCommands,  \* bound: commands typed
    MaxEdits      \* bound: changes made in the window

NoGroup == 0
Unused  == "unused"
Gone    == "gone"
NoEntry  == [at |-> NoGroup, on |-> FALSE, is |-> Unused]
NoFile  == [collections |-> <<>>, rules |-> <<>>]

ASSUME CliAssumption ==
    /\ IsFiniteSet(GroupIds) /\ IsFiniteSet(RuleIds) /\ GroupIds \cup RuleIds \subseteq Nat \ {0}
    /\ DOMAIN OldGroups \subseteq GroupIds /\ \A g \in DOMAIN OldGroups : OldGroups[g] \notin {Unused, Gone}
    /\ DOMAIN OldRules \subseteq RuleIds /\ \A r \in DOMAIN OldRules : OldRules[r] \in DOMAIN OldGroups \cup {NoGroup}

VARIABLES
    groups,   \* id -> name, Unused or Gone
    library,  \* id -> [at, on, is]; is: Unused, "here" or Gone
    file,     \* what was exported last: [collections, rules]
    cmd,      \* the command: [op, pc, sel, keep, todo, refs, made, code, mine, touched]
    typedCommands, edits

cliVars == <<groups, library, file, cmd, typedCommands, edits>>

Groups == {g \in GroupIds : groups[g] \notin {Unused, Gone}}
Entries  == {r \in RuleIds : library[r].is = "here"}
In(g)  == {r \in Entries : library[r].at = g}

(* Ids are fresh: none is used twice.                                         *)
FreeGroups == {g \in GroupIds : groups[g] = Unused}
FreeRules  == {r \in RuleIds : library[r].is = Unused}
Smallest(S) == CHOOSE n \in S : \A m \in S : n <= m

(* What a query returns: every row once, in an order of the storage's.        *)
Listing(S) == CHOOSE f \in [1..Cardinality(S) -> S] : \A i, j \in DOMAIN f : f[i] = f[j] => i = j

-----------------------------------------------------------------------------
(* The calls                                                                  *)
BulkEnable(S, on) == [r \in RuleIds |-> IF r \in S THEN [library[r] EXCEPT !.on = on] ELSE library[r]]

\* rules.delete of a rule that is gone is no error.
Deleted(r) == [library EXCEPT ![r] = [NoEntry EXCEPT !.is = Gone]]

Detached(g) == [r \in RuleIds |-> IF library[r].at = g THEN [library[r] EXCEPT !.at = NoGroup] ELSE library[r]]

-----------------------------------------------------------------------------
(* Typing a command.  mine and touched are history: the rules that were in    *)
(* the collection when it was resolved, and what the window changed since.    *)
NoCommand == [op |-> "none", pc |-> "done", sel |-> "none", keep |-> NoGroup, todo |-> <<>>, refs |-> <<>>, made |-> <<>>,
              code |-> "ok", mine |-> {}, touched |-> {}]

Ended(c, code) == [c EXCEPT !.pc = "done", !.code = code]

TypeSelector ==
    \E op \in {"only", "enable", "disable", "rm", "rm_with_rules"}, sel \in DOMAIN Finds :
        cmd' = [NoCommand EXCEPT !.op = op, !.pc = "resolve", !.sel = sel]

TypeFile ==
    \/ cmd' = [NoCommand EXCEPT !.op = "export", !.pc = "list rules"]
    \/ file # NoFile /\ cmd' = [NoCommand EXCEPT !.op = "import", !.pc = "collections", !.todo = file.collections]

TypeCommand ==
    /\ cmd.pc = "done" /\ typedCommands < MaxCommands
    /\ TypeSelector \/ TypeFile
    /\ typedCommands' = typedCommands + 1
    /\ UNCHANGED <<groups, library, file, edits>>

(* resolve_by: exactly one name or the command is refused; no name is better  *)
(* than another one.                                                          *)
Hits(sel) == {g \in Groups : groups[g] \in Finds[sel]}

ResolveCollection ==
    /\ cmd.pc = "resolve"
    /\ cmd' = IF Cardinality(Hits(cmd.sel)) # 1 THEN Ended(cmd, "error")
              ELSE LET g == CHOOSE h \in Hits(cmd.sel) : TRUE IN
                   [cmd EXCEPT !.keep = g, !.mine = In(g),
                               !.pc = CASE cmd.op \in {"only", "rm_with_rules"} -> "off"
                                        [] cmd.op \in {"enable", "disable"}     -> "on"
                                        [] cmd.op = "rm"                        -> "drop"]
    /\ UNCHANGED <<groups, library, file, typedCommands, edits>>

(* `only` clears every rule, rm --with-rules those of the collection.         *)
\* mutant: `only` clears what the other collections hold and forgets the rest
OffTheOthers ==
    /\ cmd.pc = "off"
    /\ library' = BulkEnable(IF cmd.op = "only" THEN UNION {In(g) : g \in Groups} ELSE In(cmd.keep), FALSE)
    /\ cmd' = [cmd EXCEPT !.pc = IF cmd.op = "only" THEN "on" ELSE "list"]
    /\ UNCHANGED <<groups, file, typedCommands, edits>>

Off ==
    /\ cmd.pc = "off"
    /\ library' = BulkEnable(IF cmd.op = "only" THEN Entries ELSE In(cmd.keep), FALSE)
    /\ cmd' = [cmd EXCEPT !.pc = IF cmd.op = "only" THEN "on" ELSE "list"]
    /\ UNCHANGED <<groups, file, typedCommands, edits>>

On ==
    /\ cmd.pc = "on"
    /\ library' = BulkEnable(In(cmd.keep), cmd.op # "disable")
    /\ cmd' = Ended(cmd, "ok")
    /\ UNCHANGED <<groups, file, typedCommands, edits>>

\* mutant: the collection goes first, and its rules with it lose their group
ListRulesOfTheRest ==
    /\ cmd.pc = "list"
    /\ cmd' = [cmd EXCEPT !.pc = "delete", !.todo = <<>>]
    /\ groups' = [groups EXCEPT ![cmd.keep] = Gone]
    /\ library' = Detached(cmd.keep)
    /\ UNCHANGED <<file, typedCommands, edits>>

\* mutant: the collection is not asked for when the rules are listed
ListAllRules ==
    /\ cmd.pc = "list"
    /\ cmd' = [cmd EXCEPT !.pc = "delete", !.todo = Listing(Entries)]
    /\ UNCHANGED <<groups, library, file, typedCommands, edits>>

ListRules ==
    /\ cmd.pc = "list"
    /\ cmd' = [cmd EXCEPT !.pc = "delete", !.todo = Listing(In(cmd.keep))]
    /\ UNCHANGED <<groups, library, file, typedCommands, edits>>

DeleteNext ==
    /\ cmd.pc = "delete"
    /\ IF cmd.todo = <<>> THEN UNCHANGED library /\ cmd' = [cmd EXCEPT !.pc = "drop"]
       ELSE library' = Deleted(Head(cmd.todo)) /\ cmd' = [cmd EXCEPT !.todo = Tail(@)]
    /\ UNCHANGED <<groups, file, typedCommands, edits>>

Drop ==
    /\ cmd.pc = "drop"
    /\ library' = Detached(cmd.keep)
    /\ groups' = [groups EXCEPT ![cmd.keep] = Gone]
    /\ cmd' = Ended(cmd, "ok")
    /\ UNCHANGED <<file, typedCommands, edits>>

-----------------------------------------------------------------------------
(* export: the rules are listed before the collections.                       *)
ExportRules ==
    /\ cmd.pc = "list rules"
    /\ file' = [NoFile EXCEPT !.rules = LET rs == Listing(Entries) IN [i \in DOMAIN rs |-> [ref |-> library[rs[i]].at, on |-> library[rs[i]].on]]]
    /\ cmd' = [cmd EXCEPT !.pc = "list collections"]
    /\ UNCHANGED <<groups, library, typedCommands, edits>>

ExportCollections ==
    /\ cmd.pc = "list collections"
    /\ file' = [file EXCEPT !.collections = LET gs == Listing(Groups) IN [i \in DOMAIN gs |-> [ref |-> gs[i], name |-> groups[gs[i]]]]]
    /\ cmd' = Ended(cmd, "ok")
    /\ UNCHANGED <<groups, library, typedCommands, edits>>

(* import: every collection and every rule gets a fresh id; refs maps the     *)
(* references of the file to the new collections.                             *)
\* mutant: a collection of that name is taken for the one the file means
RefsByName(c, g) ==
    Append(cmd.refs, [old |-> c.ref, new |-> IF \E h \in Groups : groups[h] = c.name THEN CHOOSE h \in Groups : groups[h] = c.name ELSE g])

Refs(c, g) == Append(cmd.refs, [old |-> c.ref, new |-> g])

ImportCollection ==
    /\ cmd.pc = "collections" /\ cmd.todo # <<>>
    /\ FreeGroups # {}
    /\ LET c == Head(cmd.todo)
           g == Smallest(FreeGroups)
       IN  /\ groups' = [groups EXCEPT ![g] = c.name]
           /\ cmd' = [cmd EXCEPT !.todo = Tail(@), !.refs = Refs(c, g)]
    /\ UNCHANGED <<library, file, typedCommands, edits>>

ImportsRules ==
    /\ cmd.pc = "collections" /\ cmd.todo = <<>>
    /\ cmd' = [cmd EXCEPT !.pc = "rules", !.todo = file.rules]
    /\ UNCHANGED <<groups, library, file, typedCommands, edits>>

\* A later collection of the same reference replaces the earlier one in the map.
ImportedTo(refs, ref) ==
    LET of == {k \in DOMAIN refs : refs[k].old = ref} IN
    IF of = {} THEN NoGroup ELSE refs[CHOOSE k \in of : \A l \in of : l <= k].new

(* The foreign key refuses a rule whose collection has been deleted since.    *)
ImportRule ==
    /\ cmd.pc = "rules" /\ cmd.todo # <<>>
    /\ FreeRules # {}
    /\ LET g == ImportedTo(cmd.refs, Head(cmd.todo).ref)
           r == Smallest(FreeRules)
       IN  IF g \notin Groups \cup {NoGroup}
           THEN cmd' = Ended(cmd, "error") /\ UNCHANGED library
           ELSE /\ library' = [library EXCEPT ![r] = [at |-> g, on |-> Head(cmd.todo).on, is |-> "here"]]
                /\ cmd' = [cmd EXCEPT !.todo = Tail(@), !.made = Append(@, r)]
    /\ UNCHANGED <<groups, file, typedCommands, edits>>

ImportEnds ==
    /\ cmd.pc = "rules" /\ cmd.todo = <<>>
    /\ cmd' = Ended(cmd, "ok")
    /\ UNCHANGED <<groups, library, file, typedCommands, edits>>

(* A call fails, or the connection ends: what was done stays done.            *)
CallFails ==
    /\ cmd.pc # "done"
    /\ cmd' = Ended(cmd, "error")
    /\ UNCHANGED <<groups, library, file, typedCommands, edits>>

-----------------------------------------------------------------------------
(* The window, at the same time                                               *)
Edit(changed) ==
    /\ cmd.pc # "done" /\ edits < MaxEdits
    /\ edits' = edits + 1
    /\ cmd' = [cmd EXCEPT !.touched = @ \cup changed]
    /\ UNCHANGED <<file, typedCommands>>

MoveInWindow ==
    \E r \in Entries, g \in Groups \cup {NoGroup} :
        library' = [library EXCEPT ![r].at = g] /\ Edit({r}) /\ UNCHANGED groups

ToggleRule ==
    \E r \in Entries : library' = [library EXCEPT ![r].on = ~@] /\ Edit({r}) /\ UNCHANGED groups

DeleteGroup ==
    \E g \in Groups :
        /\ library' = Detached(g)
        /\ groups' = [groups EXCEPT ![g] = Gone]
        /\ Edit(In(g))

CliInit ==
    /\ groups = [g \in GroupIds |-> IF g \in DOMAIN OldGroups THEN OldGroups[g] ELSE Unused]
    /\ library = [r \in RuleIds |-> IF r \in DOMAIN OldRules THEN [at |-> OldRules[r], on |-> TRUE, is |-> "here"] ELSE NoEntry]
    /\ file = NoFile
    /\ cmd = NoCommand
    /\ typedCommands = 0
    /\ edits = 0

CliNext ==
    \/ TypeCommand \/ ResolveCollection \/ Off \/ On \/ ListRules \/ DeleteNext \/ Drop
    \/ ExportRules \/ ExportCollections
    \/ ImportCollection \/ ImportsRules \/ ImportRule \/ ImportEnds
    \/ CallFails
    \/ MoveInWindow \/ ToggleRule \/ DeleteGroup

CliSpec == CliInit /\ [][CliNext]_cliVars

-----------------------------------------------------------------------------
Names     == {OldGroups[g] : g \in DOMAIN OldGroups}
FileRefs  == [ref : GroupIds, name : Names]
FileRules == [ref : GroupIds \cup {NoGroup}, on : BOOLEAN]

(* A rule is in a collection that is there, or in none (the foreign key).     *)
CliTypeOK ==
    /\ groups \in [GroupIds -> Names \cup {Unused, Gone}]
    /\ library \in [RuleIds -> [at : GroupIds \cup {NoGroup}, on : BOOLEAN, is : {Unused, "here", Gone}]]
    /\ \A r \in RuleIds : library[r].at \in Groups \cup {NoGroup}
    /\ file \in [collections : Seq(FileRefs), rules : Seq(FileRules)]
    /\ cmd \in [op : {"none", "only", "enable", "disable", "rm", "rm_with_rules", "export", "import"},
                 pc : {"resolve", "off", "on", "list", "delete", "drop", "list rules", "list collections",
                       "collections", "rules", "done"},
                 sel : DOMAIN Finds \cup {"none"}, keep : GroupIds \cup {NoGroup}, todo : {cmd.todo},
                 refs : Seq([old : GroupIds, new : GroupIds]), made : Seq(RuleIds),
                 code : {"ok", "error"}, mine : SUBSET RuleIds, touched : SUBSET RuleIds]
    /\ cmd.pc = "resolve" => cmd.op \in {"only", "enable", "disable", "rm", "rm_with_rules"}
    /\ cmd.pc = "delete" => cmd.todo \in Seq(RuleIds)
    /\ cmd.pc = "collections" => cmd.todo \in Seq(FileRefs)
    /\ cmd.pc = "rules" => cmd.todo \in Seq(FileRules)

(* "Only this scenario is live, everything else off": when `only` returns,    *)
(* the rules of the collection serve and no other one does, except what the   *)
(* window changed while the command was under way.                            *)
OnlyMeansOnly ==
    [][On /\ cmd.op = "only" =>
         \A r \in Entries \ cmd.touched : library'[r].on <=> library[r].at = cmd.keep]_cliVars

(* "An import lands beside anything with the same name": the rules of an      *)
(* imported collection are those the file has in it and no other ones, though *)
(* the names are those of collections that are there.                         *)
Known(i) == \E k \in DOMAIN file.collections : file.collections[k].ref = file.rules[i].ref
Untouched == {i \in DOMAIN cmd.made : cmd.made[i] \notin cmd.touched /\ Known(i)}
ImportKeepsGroups ==
    [][ImportEnds =>
         \A i \in Untouched :
             LET mates == In(library[cmd.made[i]].at) \ cmd.touched IN
             mates = {cmd.made[j] : j \in {k \in Untouched : file.rules[k].ref = file.rules[i].ref}}]_cliVars

(* rm --with-rules takes the rules of its collection with it, but for those   *)
(* that are clicked meanwhile: "Order matters: drop the rules first".         *)
RmTakesItsRules ==
    [][Drop /\ cmd.op = "rm_with_rules" =>
         /\ cmd.mine \cap Entries \subseteq cmd.touched
         /\ \A r \in Entries : library'[r].at # cmd.keep]_cliVars

(* No rule is lost but to rm --with-rules, and it deletes none that was       *)
(* outside its collection when the command began, unless the window moved it. *)
(* (One that is taken out once the rules are listed is deleted all the same.) *)
RmTakesNoOther ==
    [][\A r \in Entries : library'[r].is # "here" =>
         cmd.op = "rm_with_rules" /\ r \in cmd.mine \cup cmd.touched]_cliVars

(* When a command returns, the rules are as its name says, and on the way no  *)
(* rule is lost that it was not to delete.                                    *)
CommandsDoWhatTheySay == OnlyMeansOnly /\ RmTakesItsRules /\ RmTakesNoOther /\ ImportKeepsGroups
=============================================================================
