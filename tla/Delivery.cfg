\* One crash; orderly shutdown: handlers finish in time, the queue exists.
SPECIFICATION DeliverySpec
CONSTANTS
    r1 = r1
    w1 = w1
    Requests <- MCRequests
    Workers <- MCWorkers
    Capacity = 1
    MaxBatch = 2
    MaxAttempts = 2
    QueueExists = TRUE
    HandlersFinish = TRUE
    NoItem = NoItem
    Buries = TRUE
    MaxCrashes = 1
INVARIANTS NothingVanishes NoSubmitAfterClose PublishedIsQueued
PROPERTIES AcceptedIsDelivered ShutdownCompletes
CHECK_DEADLOCK FALSE
