SPECIFICATION Spec
CONSTANTS
    Protocol = 2
    MaxRequest = 2
    MaxInputs = 2
    MaxCalls = 1
    MaxVersions = 1
    MaxCrashes = 1
INVARIANTS TypeOK AnsweredAtMostOnce CompletedMeansDelivered
PROPERTIES AnswersOnce SpokenQuestionNeedsNewSpeech
CHECK_DEADLOCK FALSE
