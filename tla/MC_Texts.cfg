SPECIFICATION FairSpec
CONSTANTS
    MaxRequest = 2
    MaxReplies = 1
    MaxOwn = 2
    MaxTexts = 1
    MaxFaults = 1
INVARIANTS TypeOK ActedOnce ReplyFits OnlyNews
PROPERTIES TextAnswered
CHECK_DEADLOCK FALSE
