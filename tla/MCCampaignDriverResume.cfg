SPECIFICATION Spec
CONSTANTS
    Planned = 2
    MaxSlices = 4
    DependsOn <- MCPair
    MaxFail = 5
    MaxOps = 2
    MaxFaults = 0
PROPERTY ResumeContinues
CHECK_DEADLOCK FALSE
