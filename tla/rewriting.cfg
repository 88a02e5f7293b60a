SPECIFICATION RewritingSpec
CONSTANTS
    Rules = {r1, r2}
    Collections = {c1}
    Ungrouped = ungrouped
    NoRule = NoRule
    NoCopy = NoCopy
    Absent = Absent
    Phones = {p1}
    Sentinels = {host}
    Edited = {r1}
    MaxTorn = 1
    Chars = {"a", "b", "*"}
    Keys = {"a", "b", "c", "body", "headers", "status", "h", "content-type", "extra"}
    RuleLists <- MCRuleLists
    Requests <- MCRequests
    ExtraPairs <- MCExtraPairs
    MaxExtras = 1
    PatchLists <- MCPatchLists
    ReplyHeaders <- MCHeaders
    ReplyBodies <- MCReplyBodies
    GroupIds = {1, 2, 3, 4}
    RuleIds = {1, 2, 3, 4, 5, 6}
    OldGroups <- MCOldGroups
    OldRules <- MCOldRules
    Finds <- MCFinds
    MaxCommands = 2
    MaxEdits = 1
INVARIANTS
    BulkIsTheSingleSwitch
    MatchingIsExact
PROPERTIES
    
    TargetsSpec
    ExtrasKeepTheMock
    PatchesDoWhatTheySay
    CommandsDoWhatTheySay
CHECK_DEADLOCK FALSE
