SPECIFICATION FairSpec
CONSTANTS
    embedded = embedded
    cli = cli
    Worker = {embedded, cli}
    Embedded = embedded
    ShardNames <- MCShardNames
    Code <- MCCode
    NoCode = NoCode
    MaxTasks = 8
    MaxRequests = 2
    MaxTicks = 2
    MaxFaults = 1
INVARIANTS TypeOK InFlightIsExplained VerdictIsSound StopIsHeeded
PROPERTIES ImplementsDelivery QueueDrains
CHECK_DEADLOCK FALSE
