SPECIFICATION Spec
CONSTANTS
    MaxRequest = 2
    ThreadOf <- SameThread
    MaxTexts = 1
    MaxRings = 0
    MaxFollowups = 0
    MaxFailures = 1
    MaxLosses = 1
    MaxCrashes = 1
INVARIANTS TypeOK DialedOnce
PROPERTIES NoticeFits
CHECK_DEADLOCK FALSE
