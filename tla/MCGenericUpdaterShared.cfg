CONSTANTS
    Sessions = {s1, s2}
    NoFile = NoFile
    Torn = Torn
    EmptyList = "[]"
    BlankList = "['']"
    Interim = {"unset"}
    Names = {"cp"}
    MaxCommands = 3
    Keys <- MCKeys
    TableRank <- MCTableRank
    Fields <- MCFields
    Values <- MCValues
    BackendKeys <- MCBackendKeys
    BackendEntries = {}
    Commands <- SharedCommands
    InitialConfigs <- MCInitialConfigs
    Permitted <- MCPermitted
    Valid <- MCValid
    Plans <- MCPlans
SPECIFICATION Spec
INVARIANT AppliedEntriesStay
SYMMETRY SessionSymmetry
