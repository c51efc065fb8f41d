CONSTANTS
    reload = reload
    minigraph = minigraph
    timed = timed
    blocking = blocking
    bypassing = bypassing
    Nobody = Nobody
    Processes <- MCProcesses
    Bypass <- MCBypass
    Timeout <- MCTimeout
SPECIFICATION FairSpec
INVARIANTS MutualExclusion RecordNamesNobodyElse
PROPERTIES WaitIsBounded
