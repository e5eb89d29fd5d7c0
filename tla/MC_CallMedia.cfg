CONSTANTS
    TableSize = 8
    QueueSize = 1
    MaxSends = 1
    MaxReports = 2
SPECIFICATION MediaSpec
INVARIANTS MediaTypeOK CleanupIsReal RequestsAnswered
PROPERTIES FailureEndsCall
CHECK_DEADLOCK FALSE
