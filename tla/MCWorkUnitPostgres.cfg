SPECIFICATION FairSpec
CONSTANTS
    w1 = w1
    w2 = w2
    s1 = s1
    s2 = s2
    AnySession = AnySession
    NoNode = NoNode
    MaxUnits = 3
    MaxFaults = 1
    Worker <- MCWorker
    Session <- MCSession
    WorkerSession <- MCWorkerSession
    Operator = {o1, o2}
INVARIANTS TypeOK ClaimedOnce HolderIsRecorded ReplacedUnitIsOver
PROPERTIES FinishedIsFinal ImplementsLedger QueuedIsServed
CHECK_DEADLOCK FALSE
