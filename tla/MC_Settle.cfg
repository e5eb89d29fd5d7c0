SPECIFICATION Spec
CONSTANTS
    MaxCalls = 2
    MaxRestarts = 1
    MaxOthers = 1
    JobLimit = 2
    Indirect = {1}
INVARIANTS TypeOK NeverDuringCall NotForgotten
CHECK_DEADLOCK FALSE
