---------------------------- MODULE MCCommandLine ----------------------------
EXTENDS CommandLine
MCOldGroups == <<"login", "pay">>
MCOldRules == <<1, 1, 2>>
MCFinds == [login |-> {"login"}, pay |-> {"pay"}, any |-> {"login", "pay"}]
=============================================================================
