SPECIFICATION Spec
CONSTANTS
    w1 = w1
    w2 = w2
    s1 = s1
    s2 = s2
    AnySession = AnySession
    NoNode = NoNode
    MaxUnits = 2
    MaxFaults = 1
    Worker <- MCWorker
    Session <- MCSession
    WorkerSession <- MCWorkerSession
    Operator = {o1, o2}
    Host = {h1}
SYMMETRY MCSymmetry
INVARIANTS
    TypeOK
    DeliveredOnce
    QueuedIsReachable
PROPERTY
    ReportCreditsReporter
CHECK_DEADLOCK FALSE
