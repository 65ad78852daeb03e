SPECIFICATION Spec
CONSTANTS
    Planned = 2
    MaxSlices = 4
    DependsOn <- MCPair
    MaxFail = 5
    MaxOps = 0
    MaxFaults = 0
INVARIANT NoImmediateRerun
CHECK_DEADLOCK FALSE
