SPECIFICATION FairSpec
CONSTANTS
    Planned = 4
    MaxSlices = 6
    DependsOn <- MCDependsOn
    MaxFail = 5
    MaxOps = 2
    MaxFaults = 1
INVARIANTS TypeOK StoppedIsExplained CompletedIsDelivered PauseIsHeeded RevisionsHelp
PROPERTIES DependenciesFirst RestsUnlessStuck
CHECK_DEADLOCK FALSE
