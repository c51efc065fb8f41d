CONSTANTS
    Configs <- MCConfigs
    Moves <- MCMoves
    Problems <- MCProblems
    Generate <- GenerateMoves
    Validate <- ValidateMove
    Simulate <- ApplyGroup
    PathOrder <- MCPathOrder
    TablesByBacklinks <- MCTablesByBacklinks
    KeyPrefix <- MCKeyPrefix
    Separators <- MCSeparators
    LeafRefs <- MCLeafRefs
    Mandatory <- MCMandatory
SPECIFICATION Spec
INVARIANTS AlwaysSorted NoEmptyTableOnTheWay CreateOnlyThroughRemoval CriticalChangesWhilePortDown UntouchedPortStays
