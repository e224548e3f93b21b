\* The publisher runs before any consumer session has declared the queue.
SPECIFICATION Spec
CONSTANTS
    r1 = r1
    r2 = r2
    w1 = w1
    w2 = w2
    Requests <- MCOneRequest
    Workers <- MCWorkers
    Capacity = 1
    MaxBatch = 1
    MaxAttempts = 2
    QueueExists = FALSE
    HandlersFinish = TRUE
    NoItem = NoItem
INVARIANT PublishedIsQueued
CHECK_DEADLOCK FALSE
