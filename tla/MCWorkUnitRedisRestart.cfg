SPECIFICATION Spec
CONSTANTS
    w1 = w1
    w2 = w2
    s1 = s1
    s2 = s2
    AnySession = AnySession
    NoNode = NoNode
    MaxUnits = 2
    MaxFaults = 0
    Worker <- MCWorker
    Session <- MCSession
    WorkerSession <- MCWorkerSession
    Operator = {o1}
    Host = {h1}
INVARIANT ReplacedUnitIsOver
CHECK_DEADLOCK FALSE
