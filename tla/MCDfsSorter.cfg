CONSTANTS
    Configs <- MCConfigs
    Moves <- MCMoves
    Problems <- MCProblems
    Generate <- EveryNode
    Validate <- HasEdge
    Simulate <- Follow
SPECIFICATION FairSpec
INVARIANTS TypeOK PlanReachesTarget FailureIsFinal NoRepeatedConfig
PROPERTIES Terminates
