SPECIFICATION FairSpec
CONSTANTS
    embedded = embedded
    cli = cli
    Worker = {embedded, cli}
    Embedded = embedded
    ShardNames <- MCShardNames
    Code <- MCCode
    NoCode = NoCode
    MaxTasks = 4
    MaxRequests = 1
    MaxTicks = 1
    MaxFaults = 1
PROPERTY InFlightIsRedelivered
CHECK_DEADLOCK FALSE
