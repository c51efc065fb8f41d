CONSTANTS
    Sessions = {s1, s2}
    NoFile = NoFile
    Torn = Torn
    EmptyList = "[]"
    BlankList = "['']"
    Interim = {"unset"}
    Names = {"cp"}
    MaxCommands = 2
    Keys <- MCKeys
    TableRank <- MCTableRank
    Fields <- MCFields
    Values <- MCValues
    BackendKeys <- MCBackendKeys
    BackendEntries = {}
    Commands <- FieldCommands
    InitialConfigs <- MCInitialConfigs
    Permitted <- MCPermitted
    Valid <- MCValid
    Plans <- MCPlans
SPECIFICATION Spec
INVARIANT NoLostField
