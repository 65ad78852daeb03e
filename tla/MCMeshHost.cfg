SPECIFICATION FairSpec
CONSTANTS
    shared = shared
    local = local
    implementation = implementation
    test_writer = test_writer
    NoNode = NoNode
    Dispatch = {shared, local}
    Stage = {implementation, test_writer}
    Stages <- MCStages
    Kept <- MCKept
    Workload <- MCWorkload
    Worker = {n1}
    Reports <- MCReports
    MaxUnits = 4
    MaxRestarts = 1
INVARIANTS TypeOK UndisturbedPassIsMerged HostOnlyStaysHome NoOrphanedStage
PROPERTIES HostNeverHangs PassIsOfLatestUnit
