CONSTANTS
    Sessions = {s1}
    NoFile = NoFile
    Torn = Torn
    EmptyList = "[]"
    BlankList = "['']"
    Interim = {"unset"}
    Names = {"cp"}
    MaxCommands = 1
    Keys <- MCKeys
    TableRank <- MCTableRank
    Fields <- MCFields
    Values <- MCValues
    BackendKeys <- MCBackendKeys
    BackendEntries <- MCBackendEntries
    Commands <- EmptyListCommands
    InitialConfigs <- MCInitialConfigs
    Permitted <- MCPermitted
    Valid <- MCValid
    Plans <- MCPlans
SPECIFICATION Spec
INVARIANT VerificationAgrees
