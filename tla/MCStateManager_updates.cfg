CONSTANTS
    op1 = op1  op2 = op2  op3 = op3
    c1 = c1  c2 = c2  c3 = c3
    k1 = k1  w1 = w1  w2 = w2  a1 = a1  a2 = a2
    NoOperation = NoOperation
    NoWorker = NoWorker
    NoKey = NoKey
    Operations = {op1}
    Clients = {c1}
    Keys = {k1}
    Workers = {w1, w2}
    Callers = {a1, a2}
    MaxJobRetries = 1
    MaxUpdateRetries = 2
    MaxVersion = 3
SPECIFICATION Spec
SYMMETRY Symmetry
CHECK_DEADLOCK FALSE
INVARIANTS
    TypeOK
    SnapshotsCurrent
    WorkerMatchesStage
    AttemptsWithinLimit
PROPERTIES
    CompletedIsFinal
    OnlyOwnerUpdates
    ImplementsLifecycle
