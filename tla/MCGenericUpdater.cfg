CONSTANTS
    Sessions = {s1}
    NoFile = NoFile
    Torn = Torn
    EmptyList = "[]"
    BlankList = "['']"
    Interim = {"unset"}
    Names = {"cp"}
    MaxCommands = 3
    Keys <- MCKeys
    TableRank <- MCTableRank
    Fields <- MCFields
    Values <- MCValues
    BackendKeys <- MCBackendKeys
    BackendEntries <- MCBackendEntries
    Commands <- SoleCommands
    InitialConfigs <- MCInitialConfigs
    Permitted <- MCPermitted
    Valid <- MCValid
    Plans <- MCPlans
SPECIFICATION FairSpec
INVARIANTS TypeOK ErrorLeavesConfigUntouched RecoveryAlwaysWorks
PROPERTIES EveryCommandEnds CommandsAreAtomic
