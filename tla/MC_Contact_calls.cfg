SPECIFICATION FairSpec
CONSTANTS
    MaxRequest = 1
    ThreadOf <- SameThread
    MaxTexts = 1
    MaxRings = 2
    MaxFollowups = 1
    MaxFailures = 0
    MaxLosses = 0
    MaxCrashes = 1
PROPERTIES OutgoingYields ServiceGoesOn
CHECK_DEADLOCK FALSE
