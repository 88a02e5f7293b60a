----------------------------- MODULE MCRewriting -----------------------------
(* What rules go through: they are switched and edited (RuleLibrary), named   *)
(* in bulk from the command line (CommandLine), matched against a request     *)
(* (RuleMatching) and their patches applied to the reply (Patches).  Matching *)
(* and patching are pure functions of the rules one query returned, and the   *)
(* command line sees the library through single calls, so a behaviour puts    *)
(* one of the four on the bench and leaves the others as they were.           *)
EXTENDS RuleLibrary, MCRuleMatching, MCPatches, MCCommandLine

VARIABLE bench

rewritingVars == <<libVars, matchVars, patchVars, cliVars, bench>>

AnySource == [status |-> 200, headers |-> <<>>, body |-> Leaf("null"), text |-> "json"]

RewritingInit ==
    /\ bench \in {"library", "matching", "patches", "commands"}
    /\ RuleInit /\ (bench # "library" => \A p \in Phones : device[p] = "absent")
    /\ IF bench = "matching" THEN MatchInit
       ELSE listed = <<>> /\ request = <<>> /\ hit = 0 /\ extras = 0
    /\ IF bench = "patches" THEN PatchInit
       ELSE origin = AnySource /\ reply = [status |-> 200, headers |-> <<>>, body |-> Leaf("null")] /\ todo = <<>> /\ patching = "sent"
    /\ CliInit

LibraryStep  == bench = "library" /\ RuleNext /\ UNCHANGED <<matchVars, patchVars, cliVars, bench>>
MatchingStep == bench = "matching" /\ MatchNext /\ UNCHANGED <<libVars, patchVars, cliVars, bench>>
PatchesStep  == bench = "patches" /\ PatchNext /\ UNCHANGED <<libVars, matchVars, cliVars, bench>>
CommandStep  == bench = "commands" /\ CliNext /\ UNCHANGED <<libVars, matchVars, patchVars, bench>>

RewritingNext == LibraryStep \/ MatchingStep \/ PatchesStep \/ CommandStep

RewritingSpec == RewritingInit /\ [][RewritingNext]_rewritingVars
=============================================================================
