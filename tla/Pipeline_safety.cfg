\* Shutdown may time out under handlers that submit; the queue is not declared yet.
SPECIFICATION Spec
CONSTANTS
    r1 = r1
    r2 = r2
    w1 = w1
    w2 = w2
    Requests <- MCRequests
    Workers <- MCWorkers
    Capacity = 1
    MaxBatch = 2
    MaxAttempts = 2
    QueueExists = FALSE
    HandlersFinish = FALSE
    NoItem = NoItem
SYMMETRY Symmetry
CONSTRAINT ThreeInAll
INVARIANTS TypeOK ExactlyOnePlace ShutdownDrainsBuffer
CHECK_DEADLOCK FALSE
